---------------------------- MODULE EventChannel ----------------------------
(***************************************************************************)
(* What the event forwarder promises, in a page: of the events recorded it  *)
(* accepts some - the others found its queue full - and the broker gets the *)
(* accepted ones in order, none before an earlier one; a copy of one that   *)
(* it has got already may follow at any time.                               *)
(***************************************************************************)
EXTENDS RoutineLog

VARIABLES
    accepted, \* the events accepted
    seen      \* the events the broker has got

channelVars == <<recorded, log, accepted, seen>>

ChannelTypeOK ==
    /\ LogTypeOK
    /\ accepted \subseteq Events /\ seen \subseteq accepted

ChannelInit == LogInit /\ accepted = {} /\ seen = {}

Offer ==
    /\ Report \/ SupervisorStop
    /\ accepted' \in {accepted, accepted \cup {Len(recorded) + 1}}
    /\ UNCHANGED seen

(* The next event, or a copy. *)
Deliver(e) ==
    /\ e \in accepted /\ \A d \in accepted : d < e => d \in seen
    /\ seen' = seen \cup {e}
    /\ UNCHANGED <<recorded, log, accepted>>

ChannelNext == Offer \/ \E e \in Events : Deliver(e)

ChannelSpec == ChannelInit /\ [][ChannelNext]_channelVars
=============================================================================
