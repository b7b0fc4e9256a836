# A formal model of RocksDB-Wrapper

TLA+ modules, TLC runs and TLAPS proofs about the C++ code of this repository:
a compaction picker that lays a fluid LSM-tree over RocksDB's levels, the code
that waits for compactions, the log buffers that survive signals, the program
that replays a workload, the way from its command line to RocksDB's options, and
the scripts that run it for every policy and file and analyse its logs. Every
definition is translated from the source; `PROJECT.json` (`map`) gives the lines of
each one.

## 1. Inventory

| Component | Source | State | Operations | Interacts through | What is hard | What makes it correct |
|---|---|---|---|---|---|---|
| FluidLSM picker | `src/fluid_lsm.cc`, `include/fluid_lsm.h` | `lazy_levels_`, `parallel_compactions_running_`, two mutexes | `OnFlushCompleted`, `PickCompaction` (`BuildStructure`, `AddFilesToCompaction`, `ScheduleCompaction`), `CompactFiles` | RocksDB callbacks on flush threads, `env->Schedule` on compaction threads, `DB::CompactFiles` | the structure is rebuilt under a mutex and read without; the counter is tested without its mutex; pointers are kept across rebuilds; the pick comes before the decrement | the counter counts; bounded parallelism; requests RocksDB accepts; runs of a level stay apart, newest on top; nothing stops for good |
| Waiting for compactions | `src/event_listners.cc` | `mtx`, `cv`, `compaction_complete` | `WaitForCompactions`, `CompactionsListner::OnCompactionCompleted` | a condition variable between the workload's thread and RocksDB's | three properties read one after the other; a flag never reset; notification against a 10 ms poll | no lost wake-up, the wait ends, and not too early |
| Buffer | `src/buffer.cc`, `include/buffer.h` | text, file, static `instances_` and `mutex_` | constructor, `<<`, `flush`, destructor, `handle_signal` | the handler interrupts the thread that logs, and shares its mutex and text | a signal between any two steps, a second signal, a failed assertion | what was logged reaches the file, in order |
| runWorkload | `src/run_workload.cc` | the lines, one `Status`, two buffers | one operation per line, then summary, assertions, close | calls RocksDB, Buffer, the printing functions | one status for all operations; a zero divisor; early ends | the replay is complete and logged when it returns |
| Printing, progress | `src/utils.cc` | none | `PrintExperimentalSetup`, `PrintRocksDBPerfStats`, `UpdateProgressBar` | called by runWorkload | interval of the bar for short workloads | never ends the run |
| Argument parser | `include/args.hxx`, `parse_arguments.h` | the word it is at, what each flag has | `ParseCLI`, `Parse`, `ParseShort`, `ParseLong`, `ValueReader`, `parse_arguments` | fills the DBEnv | a flag takes the next word whatever it is; repeated flags, empty values, overflow | what is accepted is what the line means |
| DBEnv, option translation | `include/db_env.h`, `config_options.h` | some 100 settings | the size getters, `configOptions` | read by `runWorkload`, given to RocksDB | 32-bit products, narrowing copies, two numberings of one enum, cases without a `case` | the setting the user gave is the one RocksDB gets |
| main | `src/working_version.cc` | none | `main` | the DBEnv, the parser, `runWorkload` | a refused line runs nothing | - |
| Experiment scripts | `experiment.sh`, `automate.sh`, `scripts/setup_*.sh`, `zenfs_mkfs_clean.sh` | one shared `params.txt`, the logs in the working directory, the result directories | format, edit, run, stamp, file, for every policy | files | no failure is noticed; an interruption leaves logs and settings to the next iteration; names by the minute | results are filed under the policy that produced them |
| Reports | `scripts/analyze.py`, `report_gen.sh` | zone state logs, analyses, `.sorted.tmp` files | analyse and sort each log | files | rewriting a log in place; failures, kills and repetition | no line is lost, and what is reported is done |
| Stats, aux_time | `src/stats.cc`, `aux_time.cc` | counters | print, clock differences | used by nothing | - | - |

`FluidLSM` and `CompactionsListner` are registered nowhere in the repository (no
`options.listeners`): they are classes a program hands to RocksDB, and the
models start where RocksDB calls them. `FlushListner::OnFlushCompleted` is
declared and never defined. RocksDB, ZenFS and Tectonic are submodules whose
directories are empty here; they are external and modelled from how the code
uses them. The hazards, each at its line with the properties that watch it or why none does, are
in `PROJECT.json`.

## 2. Modules

| Module | Models |
|---|---|
| `FluidTree` | The pure part of the picker: structure, live runs, capacities, target level, output slots; and, external, what `CompactFiles` does with a request |
| `FluidLSM` | The picker with its threads. One action per step another thread can come between |
| `JobPool` | Abstract: at most `Limit` jobs outstanding, each begun once and ended. `FluidLSM` refines it (`Pool`, an `INSTANCE`) |
| `MCFluidLSM` | `FluidLSM` for TLC, with the symmetry of threads in one pool |
| `FluidSequential` | The same policy, each pick in one step, for deeper trees |
| `CompactionWait` | `WaitForCompactions` and the listener |
| `Buffer` | The buffers, the signal handler, a client that uses them in any order |
| `Workload` | `runWorkload`; extends `Buffer` and interleaves with its steps and signals |
| `ArgsParser` | The parser as `parse_arguments` uses it, one turn of its loop a step, and what a command line means without a parser (`Meaning`) |
| `Settings` | `main`, `DBEnv`, `parse_arguments` and `configOptions` on top of it: from a command line to the options RocksDB gets |
| `Experiment` | `experiment.sh` and its setup scripts around a run of the program; extends `Settings` |
| `Analysis` | `analyze.py` in a directory of logs |
| `MCExperiment` | `Experiment` and `Analysis` for TLC: the policies, headers and words they are given |
| `FluidTreeProofs`, `FluidLSMProofs`, `FluidSequentialProofs`, `CompactionWaitProofs`, `BufferProofs`, `WorkloadProofs` | The theorems about the modules they are named for |
| `ExperimentProofs` | The theorems about `ArgsParser`, `Settings`, `Experiment` and `Analysis` |
| `MaxTheorems` | Facts about the largest element of a set of numbers, used by three of them |

**State and actions against the code.** In `FluidLSM`, `pc[p]` follows a thread
through `PickCompaction`: `build`/`locked` are `BuildStructure`, `largest` is
`GetLargestOccupiedLevel`, `count` the loop with `NumLiveRuns`, `add`
`AddFilesToCompaction`, `check` the unlocked test of
`parallel_compactions_running_`, `slot` the scan of the target, `enqueue` the
names, the mark, the increment and `env->Schedule`. `compact` and `decrement`
are the rest of a worker's `CompactFiles`. A thread that reads while another
rebuilds sees any part of what is being built (`Seen`), and pointers taken
before a rebuild are `dangling`: what they give is open, and the process may
die of it (`Crash`). `raced` and `clean` are history variables that tell the
picks that met no such race. In `Buffer`, `main` is the step of the main thread
and `handler` that of the signal handler, which runs only while the main thread
stands still. In `CompactionWait`, `read[t]` is what a thread has read of the
three properties. In `Workload`, `step` is the point of `runWorkload`, which
goes on only when `main` is idle, that is when no `Buffer` call is under way.
`Buffer` keeps `instances_` as a set: a buffer registers once, and in which order
the handler saves the buffers makes no difference to any of them, so the model
takes them in every order. In `Settings`, `phase` is where the process is in `main`
and `env` and `options` are functions from the source's own names, so that each
copy of `configOptions` is a name in a set and each switch a table. In
`Experiment`, `script` is the line of the loop, `params` what the edited lines of
`params.txt` hold, and `cwd` and `filed` say of each log which run wrote it.
`zonestate` in `Analysis` is what the logs that `analyze.py` sorts hold. `Joined`, in
`Settings` and `Experiment`, makes one record of several that share no field: the
members of `DBEnv` by region, the options by the part of `configOptions` that sets
them, the lines of `params.txt` by the command that edits them.
`MCSpec` composes it with `Analysis`: the two touch no common file, so a behaviour
is one of the one or of the other, and neither loses an interleaving by it.

**Abstractions.** Any two files overlap (the case in which levels matter). A
file is its number, level, size in units and `being_compacted`. The output of a
merge has any size from nothing to the sum of its inputs. A log entry is its
number in its log; a log statement of `runWorkload` is one entry. A word of the
command line is how `ParseOption` classifies it, the name and the joined value it
splits into, and how it reads as a value; the name of a log is its base and the
stamps it has been given; of a zone state log the number of its lines counts and
whether its pairs are sorted. Names of column families, text and layout are left
out. `debug_mode_`, which is
uninitialised, decides printing only.

**External assumptions.** All compactions come from the picker (automatic ones
are disabled by whoever installs it). `CompactFiles` takes in what overlaps its
input down to the output level, rejects a request that names a missing file,
moves a file up, names a level that does not exist or meets a file in
compaction, and may fail with an I/O or another error. A background compaction
is still counted as running while its listener runs, a manual one is not. What a
compaction writes may make others necessary, as many as there are left of
`MaxFollowUps`, when its results are in or when RocksDB takes it off its count, but
not after that: the worker is counted when it happens. A flush may at any time.
Signals go to the main thread. An assertion, `SIGFPE` or a hang ends the process. A file system that `Env::CreateFromUri` knows, once
mounted, writes the log that `params.txt` names. To place files it reads its
policies, `min_boundary` where they treat upper and lower levels differently,
`real_caza` for CAZA, `real_oaza` for OAZA, `nearest_newzone_threshold` for the
plazas and `zones_to_open` for plaza-int (`Readers`). The edited lines exist in
`params.txt`; `sed` and `mv` do what they are asked to unless they are interrupted.

The operators named in the `mutants` of `PROJECT.json` (each announced by a
comment "Mutant") stand before the definition they vary and are used by nothing;
each property is violated when its definition is replaced by its variant.

## 3. Runs

| Run | Instance | Shows |
|---|---|---|
| `fluid_shipped` | T 2, K 1, Z 1, 6 levels, 5 flushes, 1 flush thread, 1 worker (RocksDB's default pools) | counter exact, no follow-up ever scheduled, clean requests accepted, slots numbered alike, everything drains, `JobPool` with limit 1 implemented, fairness included. 383 093 states |
| `fluid_pools` | 5 levels, 3 flushes, 2 flush threads, 2 workers, symmetry | the same counter and follow-up facts, and the bound: one compaction too many for each further flush thread. 1.3 million states |
| `fluid_sequential` | 6 levels, 13 flushes, compactions may fail | requests accepted, tiers kept apart, slots filled deepest first. 321 030 states |
| `compaction_wait` | 2 workers, 2 flushes, 1 compaction that another makes necessary | no lost wake-up, the waiter returns, what its reads are worth. 258 605 states |
| `buffer` | 2 buffers, limit 2, 3 entries each, SIGINT and SIGTERM | what a signal, an assertion or a normal end leaves in the files. 17 580 states |
| `workload` | all workloads of up to 3 lines over one key, failing calls, a signal at any step, bar scaled to 2 lines per step | a return means a faithful replay, complete logs and a last status of OK; a signal loses at most the timing of the operation it met; the process ends. 1.8 million states |
| `experiment` | every command line of up to 2 of 16 words and of 3 of 8, typed by hand; 6 headings with 8 policies; 3 runs, 1 interruption at any step, 2 values of the minute; `analyze.py` on 2 logs of 2 lines, run twice, killed once | what is parsed is what was written and reaches RocksDB; buffers fit the file asked for; logs are filed with the run that wrote them and nothing of an uninterrupted run is missing; the policy decides the parameters; the script ends; no log line is lost and what is reported is done. 87 507 states |
| `fluid_runs` (violation) | as `fluid_sequential`, no failures | runs beyond the size ratio at rest |
| `compaction_wait_sticky` (violation) | 1 worker, 2 flushes | a wait that does not wait |
| `workload_assert` (violation) | no failing calls | `assert(s.ok())` after a query for an absent key |
| `workload_progress` (violation) | 50 lines per step as in the code | division by zero for a short workload |
| `experiment_priority` (violation) | as `experiment`, nothing typed by hand | `--compaction_pri` is not numbered as its help text says |

**Why these bounds are enough.** Five flushes fill the two slots of level 1, and
the fifth finds it crowded, so a compaction into level 2 is reached with races;
thirteen fill level 2 and reach a target whose band is cut short by `NumLevels`.
T = 2 and K = Z = 1 are the smallest values with more than one slot per level.
In `compaction_wait` two flushes and one follow-up leave a compaction due or running
before, between and after the three reads of the waiter and of a listener, in each
of the ways it can come to be. Two flush threads are the least that can both pass the capacity check, two
workers the least that can compact while another picks. Three entries and a
limit of two give a buffer that was flushed once and holds text again, which is
what a repeated write needs. Three lines give an operation, another that
overwrites its status, and an end or an empty line.

In `experiment` the widths are scaled by 2^12, so that products fit into TLC's
integers: an `int` has 20 bits, a `long` 24, a MiB of block cache is 2^8 units; a
`uint16_t` keeps its 16 bits. The ratios that decide what wraps before what are
kept, and the words include numbers at and beyond each bound. `SettingsAssumption`
says what of the widths the code relies on (an `int` holds 4096 MiB, a `long` is no
narrower) and that the parser has the flags of `parse_arguments.h`.
`FilesInRange` and `PoliciesDiffer`, which two theorems take as hypotheses, are
assumed of the instance (`MCAssumption`), so the run shows that both can be met. Two words give a flag
and the value it takes, or two uses of one flag; three give a flag whose value is a
flag, followed by another. `MaxRuns` counts runs of the program and interruptions
together: three are a run by hand or an interrupted one, which leaves logs and
parameters, and two policies after it, of which the second must not see them. Two
minutes are enough for runs of the same and of different stamps. Two starts of
`analyze.py` and a kill are a run that repairs what a killed one left.

**Findings.** The five violation runs are disagreements between the code and
what its comments, documentation or assertions say; `PROJECT.json` quotes them.
Three more need no run, a look at the lines is enough:

* The help text (`parse_arguments.h`, and the README with it) gives other defaults
  than `DBEnv` has, and `parse_arguments` leaves those of `DBEnv`:

  | Flag | Documented | `DBEnv` |
  |---|---|---|
  | `--destroy` | 1 | off |
  | `--size_ratio` | 10 | 4 |
  | `--buffer_size_in_pages` | 512 | 128 |
  | `--entries_per_page` | 4 | 64 |
  | `--entry_size` | 1024 | 64 |
  | `--memory_size` | 16 MB | 0: pages * entries * size, that is 512 KiB |
  | `--bb` | 8 MB | 0: no block cache |
  | `--perf`, `--iostat`, `--stat`, `--progress` | 0 | on |
  | `--lowpri` | 1 | off |

  `--file_size` (documented default 256 KB, and used in the README's example) is read
  and copied nowhere. `OptionsAsAsked` takes the defaults of `DBEnv`: it says that what a
  line asks for arrives, not that the help text is right.
* `--destroy`, "Destroy and recreate the database" (`parse_arguments.h:12`, `README.md:68`),
  destroys nothing: `DestroyDB` is commented out (`run_workload.cc:39-42`). `Workload`
  therefore starts from any database, and `ReplayIsFaithful` speaks of the keys that
  the workload writes; of others it says that none appear, and leaves open whether
  they should still be there.
* `setup_modified_oaza.sh` leaves `min_boundary`, `setup_hybrid1.sh` leaves `real_caza`,
  and `setup_hybrid4.sh`, whose continuation line is broken, edits nothing: their runs
  depend on what was run before. `PoliciesDetermineRuns` excepts these three (`Leaky`)
  where it says that runs of one policy are placed alike, and no other; the run has
  `modified_oaza` before and after `caza`, so that it fails without the exception.

**Fairness.** `FluidLSM`: weak fairness for each thread's steps; a thread that
can run is run, a mutex held by a finite critical section is free again, and as
flushes are bounded by `MaxFlushes`, weak fairness is enough. Nobody has to
flush. `CompactionWait`: the waiter and the listeners contend for `mtx` without
end (the waiter polls), so each needs the strong form to get it at last; the
timeout is weakly fair, since `wait_for` returns after 10 ms. `Workload`: weak
fairness for the main thread and for the handler; nobody has to send a signal.
`Experiment`: weak fairness of the program and the script together, since the
script waits for the program it started; nobody has to start or interrupt it. A
Control-C that finds the program with its handler installed only ends the program,
and bash goes on (`EndReplay`); `Interrupt` is one that finds anything else, or the
script killed or hung up. Should the program hang in its handler, which `Buffer`
models as an end, the script would wait until somebody kills it.
`CHECK_DEADLOCK FALSE` is in every configuration because every one of these
systems stops: flushes are over, the process has ended.

## 4. Theorems

Every theorem holds for all values of the constants that meet the named
assumptions of its module (`TreeAssumption`, `ThreadAssumption`,
`SequentialAssumption`, `WaitAssumption`, `BufferAssumption`, `WorkloadAssumption`,
`ParserAssumption`, `SettingsAssumption`, `ExperimentAssumption`,
`AnalysisAssumption`), which TLC evaluates in the runs. Four have a hypothesis of
their own, named in their statement and explained below. They rest on the external
assumptions of section 2 as far as these are actions of the modules.

**The picker** (`FluidLSMProofs`, `FluidTreeProofs`, `FluidSequentialProofs`).

* `TypeCorrect`: `Spec => []TypeOK`. Inductive with `JobsInRange` (`TypeInv`).
* `CounterIsExact`: `Spec => []CounterExact`.
* `FollowUpIsLost`: `Spec => []FollowUpNeverSchedules`.
* `ParallelIsBounded`: `Spec => []ParallelBound`.
* `SlotsAgree`: `Spec => []SlotsMatchLevels`.
* `FluidLSMImplementsPool`: `Spec => ImplementsPoolSafety`, by refinement.
* `CleanIsAccepted`: `Spec => []CleanRequestsAccepted` with one flush thread.
* `SequentialTypeCorrect`, `RequestsAreAccepted`, `FillsDeepestFirst`: of
  `FluidSequential`, `Spec => []TypeOK`, `[]RequestsAccepted` and `[]DeepestFirst`.
* `TiersStayApart`: of `FluidSequential`, `Spec => []TiersKept` when `Z <= K`.

`AdmissionInv` is the conjunction of `TypeInv`, `CounterExact`,
`FollowUpNeverSchedules` and `ParallelBound`. Neither of the last two is inductive
by itself: a worker that picks is busy, so by `CounterExact` the counter is at
least one, so it fails the capacity check (`FollowUpStep`); hence only flush
threads are ever past the check, each of them is counted by `Committed` from
the check to the increment, and a thread passes only when the counter is below
the limit, when the others past the check are at most
`Cardinality(FlushThreads) - 1` (`BoundStep`). The refinement reads off it that
`Submit` happens below the limit (`PoolStep`).

`SlotsAgree` rests on `ScanReadsItsSlot`: `BuildStructure` groups RocksDB's levels
with a rounded-up quotient, `ScheduleCompaction` computes them with a product, and
for every K a band with all its slots is the interval of levels the product
gives (`BandIsSlots`; `SlotsAreInBand` is the converse). With one run for each level
of the band, which marking files does not change, the run with `K - j` others above
it is the one of the `j`-th slot from below (`PlaceInLevel`, a bijection). The
invariant `SlotsInOrder` says that a level is empty or has that shape.

`RequestsAreAccepted` needs `SeqInv`: files have distinct numbers below the next,
marks are only on files of the compaction that runs, and a pending request is
`Acceptable`. A pick makes one (`RequestIsAcceptable`) because a level that needs a
compaction has a live run (`CrowdedHasInput`), its files lie on or above its deepest
slot (`RunsOfLevel`), every slot of the next level is below that
(`SlotsAreBelow`), and the slots of a backed target exist (`BandIsSlots`). A flush in
between adds a file under a new number and so changes nothing the request names.

`FillsDeepestFirst` carries more than the layout (`Layout`): the request that is
pending, and the compaction that runs, would leave the layout in order if it ended
now. `KeepsBands` says what that takes: each band loses none of its files and gets
the output, if it does, in a slot below which it is full, or it loses all of them
and gets the output, if it does, in its deepest slot.
A flush adds to level 0 only, and so keeps the bands the request was made for
(`FlushKeepsLayout`); a failed compaction changes nothing. Backed targets are not
needed: the band of a level that RocksDB cuts short fills in the same order.

`TiersStayApart` has the hypothesis `Z <= K`: with more runs in the largest level
than K slots hold, that level can be full without needing a compaction, and what
comes next is merged with all of it. With it, a level all of whose slots are taken
is crowded (`TakenIsCrowded`); a pick takes the largest crowded level, so its target
is not crowded and has a free slot, below which the band is full and above which,
by the layout, it is empty; so what RocksDB reads between the input and the slot is
what the request names (`RequestKeepsTiers`).

`CleanIsAccepted` is `RequestIsAcceptable` again, if what the thread has read is what
RocksDB holds when the request is queued. With one flush thread it is (`ViewInv`):
until a race is recorded, the structure the thread scans is that of the files
(`FreshView`) or a task is under way; the task's own end, its rebuild and its pick
each record a race or leave the structure fresh; and a thread that passes the
capacity check has met no task (`OneAtATime`, from `AdmissionInv`). From the queue on,
`QueueInv` holds since at most this task may touch the files. The
hypothesis is needed: two flush threads can both enqueue a request for the same
files, and RocksDB refuses the second. `fluid_pools` therefore does not ask it.

**Waiting** (`CompactionWaitProofs`). `MutexDiscipline`, `WakeUpsAreKept` and
`BreakIsWorthItsReads` from `WaitInv`: `mtx` is held exactly at the labels between a
lock and an unlock; while the waiter holds it, or sleeps since it did, the flag is
unset, because a listener sets it under the same mutex; and what the waiter has
read of each property bounds what may have changed since. A compaction that began
before the first read and is still running was counted then (`RunningRead`), so it
was read; nothing is due after the last read unless a flush came since or the
results of a compaction made it due (`DueRead`), and such a compaction is counted at
that time, so by the first it began after the first read (`FollowUpStep`).

**The buffers** (`BufferProofs`). `BufferTypeCorrect`, `SignalsLoseNothing`,
`AbortLosesLittle` and `DestructorWritesAll` from `BufferInv`. It says of each
buffer where its entries are: outside the handler the file is a prefix and the
memory the rest (`Buffered`), except between a write and its clear, when the memory
still holds what the file has (`Twice`), and after the last write (`Complete`);
interrupted, the file is a prefix and the memory begins no later than it ends
(`Caught`); once saved, the one follows the other (`Saved`). `LogsSurviveSignal` is
`Saved` for all of them, and is not inductive without the rest.

**The replay** (`WorkloadProofs`). `WorkloadUsesBuffers`: `WorkloadSpec =>
BufferSpec`, that is `runWorkload` constructs, fills and destroys its buffers only
in the ways `Buffer` is proved for, so the four theorems above hold of it.
`WorkloadTypeCorrect`, `KeysAreReplayed`, `ReturnIsOK`, `LogsAreComplete` and
`TimingsAreSaved` follow from `BufferInv`, `TimedOnce` (a timed operation has its
entry, but the one at hand) and `ReplayInv`, for workloads of any length. `ReplayInv`
carries the three end properties through the loop: for the number n of lines
executed so far (`Reached`), each key is as the last line among the first n that
RocksDB did not fail and that writes it left it, the status is the last setter's,
and the count of timings is that of the timed lines (`ReplayedTo`). A key that no line
writes can go, with the database it was in, but does not come. At the end n is
the number of lines before the first empty one (`ExecutedAtEnd`).

**From the command line to the logs** (`ExperimentProofs`). Each for command lines of
any length over any words, any lists of policies and headers, any number of runs,
and interruptions at any step.

* `LinesMeanWhatTheySay`: `ExperimentSpec => []ParsedAsWritten`. The meaning of a line
  is defined on the line as a whole, the parser goes word by word; `ParserInv` says
  where it may be (`ReadBefore`: at a word that is not the value of the one before,
  all settings before it well formed) and what it knows of each flag (`Knows`: the
  reading of its last setting that says something). Which words are values is a
  recursive function of the line; that it exists is shown by a least line without it
  (`SelvesExist`), and from there on only its equation is used (`UsesOfWords`): the
  parser moves along it.
* `LinesAreObeyed`: `ExperimentSpec => []OptionsAsAsked`. By `SettingsInv` the settings are
  those of the meaning of the line (`EnvOf`) from `parse_arguments` on and the options
  those that `configOptions` makes of them; then it is arithmetic in the widths of the
  code (`OptionsOfLine`), with the defaults of `DBEnv` and the priorities as the switch
  numbers them, which are not those of the help text (`experiment_priority`): a `long` or a `uint16_t` that a value is narrowed to, an
  unsigned product that wraps, a cache whose MiB fit an `int` or do not.
* `BuffersFillFiles`: `ExperimentSpec => []BufferFitsFile` if `FilesInRange`. The header of the
  script is one of its headings (`HeaderInv`), the line it types gives each flag
  once (`FlagsGivenOnce`), so the settings are its numbers; the rest is a
  division and its remainder. Without `FilesInRange` (a file of 4 GiB and more, say)
  the product wraps and the property is false.
* `PoliciesRunAsNamed`: `ExperimentSpec => []PoliciesDetermineRuns` if `PoliciesDiffer`. `params.txt`
  is shared and never reset; `PlacementInv` says that after a setup script it has
  the lines of that policy, after the common lines those of the header too, and that
  a run keeps what it was started with, whatever else the file holds. What a
  placement reads is defined apart from what the scripts write (`Readers`), and each
  script but those of `Leaky` writes all of it (`SetsWhatItReads`), so runs of one
  policy are placed alike (`PlacementAgrees`). Two policies whose setup scripts set the
  same `placement` differ in a switch (`PlacementTells`).
  `PoliciesDiffer` says that policies of one script differ in their number:
  `plaza-adv` and `plaza-adv-0` would not, and their runs could not be told apart. The
  list in the script, five of `plaza-adv` and `zonekv`, meets it.
* `ExperimentTyped`, `LogsAreFiledWhereTheyBelong`: `ExperimentSpec => []ExperimentTypeOK` and
  `[]FiledWhereItBelongs`. From `FilingInv`: a log that lies in the working directory is of
  the run at hand, or every finished run from its own on was by hand or cut
  (`Leftovers`), and a run that is over never changes (`RunsKept`).
* `LogsOfWholeRunsAreReported`: `ExperimentSpec => []CompleteRunsAreReported`. The script stamps
  every log it finds, leftovers included, and moves all of them, so a leftover may
  take the name of a log of the run at hand. `Written` says that none does: until it
  is moved, the stamps of no other log of its base are a beginning of its own
  (`Before`), so none can be renamed to it. Once filed it is replaced only by what is
  filed to the same directory in the same minute, by a later run of that directory
  or by the leftovers filed with it (`AllReported`).
* `NoLineIsLost` and `ReportsAreTrue`, of `Analysis`, from `AnalysisInv`: a log is only ever
  replaced by a temporary file that was closed whole, and what an earlier, killed
  run left is overwritten before it is used.

**Only model-checked.** Liveness: `Drains`, `WaitReturns`, `Ends`, `ScriptEnds` and the
fairness half of `ImplementsPool`, which need `ENABLED`; the prover has no rule for it.
Every safety property of a passing run is a theorem. What stays with
TLC besides are the hypotheses: `CleanRequestsAccepted` in its run has the one flush
thread of its theorem, `TiersKept` K = Z = 1. What sums and folds over files
compute is used through facts that hold of any such function, not proved.

## 5. What is not modelled

* What a scan reads of `lazy_levels_` while another thread rebuilds it, and through
  pointers kept across a rebuild: the model lets it be anything, a crash included,
  and the properties of the picker hold for all of it, so none tells what is read.
* The tiers of `FluidLSM` under races: when a decrement comes between the
  refusal of a deep level and the check of a shallow one in the same pick, the
  shallow level is merged into a full target. `TiersKept` is therefore stated
  where a pick is one step. No document promises it elsewhere.
* `PrintFluidLSM`, `SizeInBytes`, text and layout; `LogTreeState`, which only a
  `PROFILE` build compiles.
* `Stats` and `aux_time`: no file includes or calls them, so there is no execution
  of them to model. `GetInstance` moves the singleton out and a second call would
  build a new one, but only `main` calls it, once.
* Of `args.hxx`: positionals, commands, completion, lists, maps, required and
  single flags, validators other than `DontCare`, and the layout of the help text,
  none of which `parse_arguments` uses. No flag for help is declared, so its
  `catch (args::Help)` is never reached. A value that is only partly read before a
  `ParseError` is never looked at, since `main` returns.
* Of `experiment.sh`: the branch for `db_bench`, which is not in this tree, and
  `build.sh`. The order in which the shell stamps and moves logs is not modelled:
  they have different names, so none is overwritten by another of the same `mv`.
* `report_gen.sh` beyond the names it looks for, and the text of the analyses. Two
  `analyze.py` at once in one directory: nothing starts them so.

## 6. Plan

1. Done: picker, policy, pool, waiting, buffers, workload, arguments, settings,
   scripts, reports; a theorem for every safety property of the passing runs.
2. Action properties of `FluidLSM` and `Buffer` worth a theorem: what is written to a
   file is never taken back, a task that was begun is never begun again.
3. An abstract specification of the filing of logs that `Experiment` implements.
