---------------------------- MODULE DurableStore ----------------------------
(***************************************************************************)
(* What package headhunter promises package inode: a store of records that *)
(* are changed in memory and become durable all at once at a checkpoint.   *)
(* Who fetches the wait group of the next checkpoint is woken only when    *)
(* everything put before is durable.  A crash falls back to the last       *)
(* checkpoint.                                                             *)
(***************************************************************************)
CONSTANTS Keys, Values, NoValue

VARIABLES
    recs,     \* the records as the running process sees them
    durable,  \* the records that a restart would find
    waiting   \* a wait group was fetched and not yet signalled

vars == <<recs, durable, waiting>>

Init ==
    /\ recs = [k \in Keys |-> NoValue]
    /\ durable = [k \in Keys |-> NoValue]
    /\ waiting = FALSE

\* Any number of records is put or deleted at once.
Put ==
    /\ recs' \in [Keys -> Values \cup {NoValue}]
    /\ UNCHANGED <<durable, waiting>>

FetchWaitGroup ==
    /\ waiting' = TRUE
    /\ UNCHANGED <<recs, durable>>

Checkpoint ==
    /\ durable' = recs
    /\ UNCHANGED <<recs, waiting>>

SignalWaitGroup ==
    /\ durable = recs
    /\ waiting' = FALSE
    /\ UNCHANGED <<recs, durable>>

Crash ==
    /\ recs' = durable
    /\ waiting' = FALSE
    /\ UNCHANGED durable

Next == Put \/ FetchWaitGroup \/ Checkpoint \/ SignalWaitGroup \/ Crash

Spec == Init /\ [][Next]_vars
=============================================================================
