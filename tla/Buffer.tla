------------------------------- MODULE Buffer -------------------------------
(***************************************************************************)
(* The log buffers of src/src/buffer.cc.  A Buffer collects what the       *)
(* workload logs and writes it to its file when it is full, when told to   *)
(* and when it is destroyed.  Every live buffer is in the static list      *)
(* instances_, so that the handler of SIGINT and SIGTERM can save what is  *)
(* not written yet before it exits.  The handler interrupts the program    *)
(* between any two of its steps and takes the same mutex_ as the           *)
(* constructor and the destructor; signals go to the main thread, the one  *)
(* that logs, as the kernel prefers it.                                    *)
(*                                                                         *)
(* An entry is its number in its buffer: a log is right when it is the     *)
(* numbers in order.  One entry is one << of the code.                     *)
(***************************************************************************)
EXTENDS Integers, Sequences

CONSTANTS
    Buffers,     \* the buffers of the program
    Limit,       \* buffer_limit, in entries
    MaxEntries,  \* bound: entries a buffer gets
    Signals      \* the signals handle_signal is installed for

ASSUME BufferAssumption ==
    /\ Limit \in Nat \ {0}
    /\ MaxEntries \in Nat

VARIABLES
    mem,        \* the stringstream of each buffer
    file,       \* what each output_file has been given
    logged,     \* history: how many entries each buffer was given
    instances,  \* instances_, in no particular order: a buffer is in it at most once
    gone,       \* the buffers that were destroyed
    mutex,      \* who holds mutex_: nobody, main or handler
    main,       \* where the main thread is
    at,         \* the buffer it is at
    handler,    \* the handler: uninstalled, ready, locking, saving
    handling,   \* the signal it handles
    unsaved,    \* the instances its loop has not flushed yet
    status      \* the process: running, exited, aborted, killed, hung

bufferVars == <<mem, file, logged, instances, gone, mutex, main, at, handler,
                handling, unsaved, status>>

Entries(m, n) == [i \in 1 .. n - m + 1 |-> m + i - 1]

BufferInit ==
    /\ mem = [b \in Buffers |-> <<>>]
    /\ file = [b \in Buffers |-> <<>>]
    /\ logged = [b \in Buffers |-> 0]
    /\ instances = {}
    /\ gone = {}
    /\ mutex = "nobody"
    /\ main = "idle" /\ at \in Buffers
    /\ handler = "uninstalled" /\ handling \in Signals /\ unsaved = {}
    /\ status = "running"

\* The main thread runs unless it is interrupted.
MainRuns == status = "running" /\ handler \in {"uninstalled", "ready"}

GoTo(b, label) == at' = b /\ main' = label

-----------------------------------------------------------------------------
(* Buffer(filename, limit).                                                 *)

\* The file is truncated, or cannot be opened and nobody catches the exception.
Construct(b) ==
    /\ MainRuns /\ main = "idle"
    /\ b \notin instances \cup gone
    /\ \/ /\ file' = [file EXCEPT ![b] = <<>>]
          /\ GoTo(b, "register")
          /\ UNCHANGED status
       \/ status' = "aborted" /\ UNCHANGED <<file, at, main>>
    /\ UNCHANGED <<mem, logged, instances, gone, mutex, handler, handling, unsaved>>

\* lock_guard of register_instance and unregister_instance
LockMutex ==
    /\ MainRuns /\ main \in {"register", "unregister"}
    /\ mutex = "nobody"
    /\ mutex' = "main"
    /\ main' = IF main = "register" THEN "push" ELSE "remove"
    /\ UNCHANGED <<mem, file, logged, instances, gone, at, handler, handling, unsaved,
                   status>>

\* Mutant: returns with the mutex.
RegisterKeepsMutex ==
    /\ MainRuns /\ main = "push"
    /\ instances' = instances \cup {at}
    /\ main' = "signal"
    /\ UNCHANGED <<mem, file, logged, gone, mutex, at, handler, handling, unsaved, status>>

\* register_instance ends and register_signals follows
Register ==
    /\ MainRuns /\ main = "push"
    /\ instances' = instances \cup {at}
    /\ mutex' = "nobody"
    /\ main' = "signal"
    /\ UNCHANGED <<mem, file, logged, gone, at, handler, handling, unsaved, status>>

RegisterSignals ==
    /\ MainRuns /\ main = "signal"
    /\ handler' = "ready"
    /\ main' = "idle"
    /\ UNCHANGED <<mem, file, logged, instances, gone, mutex, at, handling, unsaved,
                   status>>

-----------------------------------------------------------------------------
(* operator<< and flush.                                                    *)

Log(b) ==
    /\ MainRuns /\ main = "idle" /\ b \in instances
    /\ logged[b] < MaxEntries
    /\ logged' = [logged EXCEPT ![b] = @ + 1]
    /\ mem' = [mem EXCEPT ![b] = Append(@, logged[b] + 1)]
    /\ GoTo(b, "testLimit")
    /\ UNCHANGED <<file, instances, gone, mutex, handler, handling, unsaved, status>>

\* Mutant: one entry over the limit.
FullAboveLimit(b) == Len(mem[b]) > Limit

Full(b) == Len(mem[b]) >= Limit

TestLimit ==
    /\ MainRuns /\ main = "testLimit"
    /\ main' = IF Full(at) THEN "write" ELSE "idle"
    /\ UNCHANGED <<mem, file, logged, instances, gone, mutex, at, handler, handling,
                   unsaved, status>>

\* if (buffer.tellp() > 0)
Flush(b) ==
    /\ MainRuns /\ main = "idle" /\ b \in instances
    /\ mem[b] # <<>>
    /\ GoTo(b, "write")
    /\ UNCHANGED <<mem, file, logged, instances, gone, mutex, handler, handling,
                   unsaved, status>>

\* output_file << buffer.str(); output_file.flush();
Write ==
    /\ MainRuns /\ main \in {"write", "lastWrite"}
    /\ file' = [file EXCEPT ![at] = @ \o mem[at]]
    /\ main' = IF main = "write" THEN "clear" ELSE "lastClear"
    /\ UNCHANGED <<mem, logged, instances, gone, mutex, at, handler, handling, unsaved,
                   status>>

\* Mutant: buffer.clear() without buffer.str(""), which keeps the text.
ClearState ==
    /\ MainRuns /\ main \in {"clear", "lastClear"}
    /\ main' = IF main = "clear" THEN "idle" ELSE "unregister"
    /\ UNCHANGED <<mem, file, logged, instances, gone, mutex, at, handler, handling,
                   unsaved, status>>

\* buffer.str(""); buffer.clear();
Clear ==
    /\ MainRuns /\ main \in {"clear", "lastClear"}
    /\ mem' = [mem EXCEPT ![at] = <<>>]
    /\ main' = IF main = "clear" THEN "idle" ELSE "unregister"
    /\ UNCHANGED <<file, logged, instances, gone, mutex, at, handler, handling, unsaved,
                   status>>

-----------------------------------------------------------------------------
(* ~Buffer.                                                                 *)

\* Mutant: no flush in the destructor.
AfterLastEntryNoFlush(b) == "unregister"

AfterLastEntry(b) == IF mem[b] = <<>> THEN "unregister" ELSE "lastWrite"

Destroy(b) ==
    /\ MainRuns /\ main = "idle" /\ b \in instances
    /\ GoTo(b, AfterLastEntry(b))
    /\ UNCHANGED <<mem, file, logged, instances, gone, mutex, handler, handling,
                   unsaved, status>>

\* Mutant: returns with the mutex.
UnregisterKeepsMutex ==
    /\ MainRuns /\ main = "remove"
    /\ instances' = instances \ {at}
    /\ gone' = gone \cup {at}
    /\ main' = "idle"
    /\ UNCHANGED <<mem, file, logged, mutex, at, handler, handling, unsaved, status>>

Unregister ==
    /\ MainRuns /\ main = "remove"
    /\ instances' = instances \ {at}
    /\ gone' = gone \cup {at}
    /\ mutex' = "nobody"
    /\ main' = "idle"
    /\ UNCHANGED <<mem, file, logged, at, handler, handling, unsaved, status>>

BufferStep ==
    LockMutex \/ Register \/ RegisterSignals \/ TestLimit \/ Write \/ Clear \/ Unregister

-----------------------------------------------------------------------------
(* Signals.                                                                 *)

\* Before register_signals a signal kills the process.  A write that it
\* interrupts may have handed over part of its batch.
Interrupt(signal) ==
    /\ MainRuns
    /\ IF handler = "ready"
       THEN /\ handler' = "locking" /\ handling' = signal
            /\ \E k \in IF main \in {"write", "lastWrite"} THEN 0 .. Len(mem[at]) ELSE {0} :
                  file' = [file EXCEPT ![at] = @ \o SubSeq(mem[at], 1, k)]
            /\ UNCHANGED status
       ELSE status' = "killed" /\ UNCHANGED <<file, handler, handling>>
    /\ UNCHANGED <<mem, logged, instances, gone, mutex, main, at, unsaved>>

\* The handler waits for mutex_ on the thread it interrupted: if that one holds
\* it, for ever.
HandlerLock ==
    /\ status = "running" /\ handler = "locking"
    /\ IF mutex = "nobody"
       THEN /\ mutex' = "handler" /\ handler' = "saving"
            /\ unsaved' = instances
            /\ UNCHANGED status
       ELSE status' = "hung" /\ UNCHANGED <<mutex, handler, unsaved>>
    /\ UNCHANGED <<mem, file, logged, instances, gone, main, at, handling>>

\* A second signal is blocked while the handler runs only if it is the same.
InterruptHandler(signal) ==
    /\ status = "running" /\ handler = "saving"
    /\ signal # handling
    /\ status' = "hung"
    /\ UNCHANGED <<mem, file, logged, instances, gone, mutex, main, at, handler,
                   handling, unsaved>>

\* Mutant: saves the first instance only.
HandlerFlushFirst ==
    /\ status = "running" /\ handler = "saving"
    /\ \E b \in unsaved :
        /\ file' = [file EXCEPT ![b] = @ \o mem[b]]
        /\ mem' = [mem EXCEPT ![b] = <<>>]
        /\ unsaved' = {}
    /\ UNCHANGED <<logged, instances, gone, mutex, main, at, handler, handling, status>>

HandlerFlush ==
    /\ status = "running" /\ handler = "saving"
    /\ \E b \in unsaved :
        /\ file' = [file EXCEPT ![b] = @ \o mem[b]]
        /\ mem' = [mem EXCEPT ![b] = <<>>]
        /\ unsaved' = unsaved \ {b}
    /\ UNCHANGED <<logged, instances, gone, mutex, main, at, handler, handling, status>>

HandlerExit ==
    /\ status = "running" /\ handler = "saving" /\ unsaved = {}
    /\ status' = "exited"
    /\ UNCHANGED <<mem, file, logged, instances, gone, mutex, main, at, handler,
                   handling, unsaved>>

SignalStep ==
    \/ \E signal \in Signals : Interrupt(signal) \/ InterruptHandler(signal)
    \/ HandlerLock \/ HandlerFlush \/ HandlerExit

\* A failed assert() or a division by zero in the program ends the process: no
\* handler is installed for it, and the buffers are not destroyed.
Abort ==
    /\ MainRuns /\ main = "idle"
    /\ status' = "aborted"
    /\ UNCHANGED <<mem, file, logged, instances, gone, mutex, main, at, handler,
                   handling, unsaved>>

\* A program that uses its buffers in any order
BufferNext ==
    \/ \E b \in Buffers : Construct(b) \/ Log(b) \/ Flush(b) \/ Destroy(b)
    \/ BufferStep \/ SignalStep \/ Abort

BufferSpec == BufferInit /\ [][BufferNext]_bufferVars

-----------------------------------------------------------------------------
(* The properties.                                                          *)

\* Every variable holds a value of its kind, and mutex_ is held by the function
\* that is between its lock_guard and its end.
BufferTypeOK ==
    /\ mem \in [Buffers -> Seq(1 .. MaxEntries)]
    /\ file \in [Buffers -> Seq(1 .. MaxEntries)]
    /\ logged \in [Buffers -> 0 .. MaxEntries]
    /\ instances \subseteq Buffers /\ gone \subseteq Buffers /\ unsaved \subseteq instances
    /\ mutex \in {"nobody", "main", "handler"}
    /\ mutex = "main" <=> main \in {"push", "remove"}
    /\ mutex = "handler" <=> handler = "saving"
    /\ main \in {"idle", "register", "push", "signal", "testLimit", "write", "clear",
                 "lastWrite", "lastClear", "unregister", "remove"}
    /\ at \in Buffers /\ handling \in Signals
    /\ handler \in {"uninstalled", "ready", "locking", "saving"}
    /\ status \in {"running", "exited", "aborted", "killed", "hung"}

\* A process that a signal ends leaves in the file of every live buffer all the
\* entries it was given, in order; what the signal caught between the write and
\* the clear of a flush is there once more, and nothing else is.
LogsSurviveSignal ==
    status = "exited" =>
        \A b \in instances : \E k \in 0 .. logged[b] : \E m \in 1 .. k + 1 :
            file[b] = Entries(1, k) \o Entries(m, logged[b])

\* A failed assertion costs each log less than one bufferful, from its end.
AbortLosesTail ==
    status = "aborted" =>
        \A b \in instances : \E k \in 0 .. logged[b] :
            logged[b] - k < Limit /\ file[b] = Entries(1, k)

\* A destroyed buffer has written each entry once.
DestroyedIsComplete ==
    \A b \in gone : file[b] = Entries(1, logged[b])
=============================================================================
