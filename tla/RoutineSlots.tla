---------------------------- MODULE RoutineSlots ----------------------------
(***************************************************************************)
(* What the routine supervisor promises: every routine is a slot that holds *)
(* at most one live run, a run begins only in an empty slot, and no run     *)
(* begins twice.  RoutineManager implements this.                           *)
(***************************************************************************)
EXTENDS Integers

CONSTANTS Routines, Runs

VARIABLES
    live,  \* [Routines -> the set of live runs of the routine]
    used   \* the runs that have begun

vars == <<live, used>>

Init == live = [x \in Routines |-> {}] /\ used = {}

Begin(x, r) ==
    /\ live[x] = {}
    /\ r \notin used
    /\ live' = [live EXCEPT ![x] = {r}]
    /\ used' = used \cup {r}

End(x) ==
    /\ live[x] # {}
    /\ live' = [live EXCEPT ![x] = {}]
    /\ UNCHANGED used

Next == \E x \in Routines : End(x) \/ \E r \in Runs : Begin(x, r)

Spec == Init /\ [][Next]_vars
=============================================================================
