---------------------------- MODULE MCEventPipeline ----------------------------
(* A small instance of the event pipeline for TLC. *)
EXTENDS EventPipeline

Symmetry == Permutations(Runs) \cup Permutations(Ingests)

(* Bound: with the database no step looks at an event's time, and one will    *)
(* do; in memory times decide what is kept, and two types will do, of which   *)
(* one tells a state.                                                         *)
VariedByBackend == \A e \in DOMAIN recorded :
    IF backend = "sql" THEN recorded[e].time = 1 ELSE recorded[e].type # "running"
=============================================================================
