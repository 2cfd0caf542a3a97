----------------------------- MODULE RateLimiter -----------------------------
(***************************************************************************)
(* The sliding window of one client's requests (rate_limit.py): a request is  *)
(* counted if it is admitted, and forgotten a window later.                  *)
(***************************************************************************)
EXTENDS Integers, Sequences, FiniteSets

CONSTANTS
    MaxAdmitted, \* max_requests
    Window,      \* window_seconds
    MaxTime      \* bound: the clock

ASSUME LimiterAssumption == MaxAdmitted \in Nat \ {0} /\ Window \in Nat \ {0} /\ MaxTime \in Nat

VARIABLES
    now,     \* time.monotonic()
    stamps,  \* the times kept in RateLimiter._requests for the client
    admitted \* history: the times of all requests admitted

limiterVars == <<now, stamps, admitted>>

LimiterTypeOK ==
    /\ now \in 0 .. MaxTime
    /\ stamps \in Seq(0 .. now) /\ Len(stamps) <= MaxAdmitted
    /\ admitted \in Seq(0 .. now)

LimiterInit == now = 0 /\ stamps = <<>> /\ admitted = <<>>

Recent(t) == t > now - Window

(* Slip: a fixed window: all is forgotten when the oldest request is. *)
CleanedAll == IF stamps # <<>> /\ ~Recent(stamps[1]) THEN <<>> ELSE stamps

(* _clean_old: the list is in the order of time - check never gives way      *)
(* between the reading of the clock and the append -, so that those that are *)
(* left out are its first.                                                   *)
Cleaned == SubSeq(stamps, Cardinality({i \in DOMAIN stamps : ~Recent(stamps[i])}) + 1, Len(stamps))

(* check: the request is admitted and counted. *)
Admit ==
    /\ Len(Cleaned) < MaxAdmitted
    /\ stamps' = Append(Cleaned, now)
    /\ admitted' = Append(admitted, now)
    /\ UNCHANGED now

(* check: the request is refused, and not counted. *)
TooMany ==
    /\ Len(Cleaned) >= MaxAdmitted
    /\ stamps' = Cleaned
    /\ UNCHANGED <<now, admitted>>

Tick == now < MaxTime /\ now' = now + 1

(* Safety: no window of time, wherever it begins, holds more requests that    *)
(* were admitted than the limit (RateLimiter.check).                         *)
RateHeld == \A end \in 0 .. now :
    Cardinality({i \in DOMAIN admitted : admitted[i] \in (end - Window + 1) .. end}) <= MaxAdmitted
=============================================================================
