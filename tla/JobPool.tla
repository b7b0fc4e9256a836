------------------------------ MODULE JobPool ------------------------------
(***************************************************************************)
(* What FluidLSM promises its environment about compactions: at most Limit *)
(* of them are outstanding at a time, each is begun by one worker, and each *)
(* that was submitted is begun and ended.  FluidLSM implements this (Pool, *)
(* there) with a counter, RocksDB's thread pool and the order of the       *)
(* increment, the task and the decrement (fluid_lsm.cc 193-256).           *)
(***************************************************************************)
EXTENDS Naturals, FiniteSets

CONSTANTS Workers, Limit

VARIABLES
    waiting,   \* the number of submitted jobs no worker has begun
    active,    \* the workers that are running a job
    stopped    \* the process is gone

poolVars == <<waiting, active, stopped>>

PoolInit == waiting = 0 /\ active = {} /\ stopped = FALSE

Submit ==
    /\ waiting + Cardinality(active) < Limit
    /\ waiting' = waiting + 1
    /\ UNCHANGED <<active, stopped>>

Begin(w) ==
    /\ waiting > 0
    /\ w \notin active
    /\ waiting' = waiting - 1
    /\ active' = active \cup {w}
    /\ UNCHANGED stopped

End(w) ==
    /\ w \in active
    /\ active' = active \ {w}
    /\ UNCHANGED <<waiting, stopped>>

Stop == stopped' = TRUE /\ UNCHANGED <<waiting, active>>

PoolNext ==
    /\ ~stopped
    /\ Submit \/ Stop \/ \E w \in Workers : Begin(w) \/ End(w)

PoolSafety == PoolInit /\ [][PoolNext]_poolVars

PoolSpec ==
    /\ PoolSafety
    /\ \A w \in Workers : WF_poolVars(~stopped /\ (Begin(w) \/ End(w)))
=============================================================================
