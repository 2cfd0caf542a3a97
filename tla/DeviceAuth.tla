------------------------------ MODULE DeviceAuth ------------------------------
(***************************************************************************)
(* Authentication on the robot: pairing and plugin authentication in one     *)
(* process.  They meet in the signing secret, with which both sign access    *)
(* tokens, in the process that restarts, and in the bound on requests.       *)
(***************************************************************************)
EXTENDS DevicePairing, TLC

CONSTANTS Calls, Plugins, Keys, MaxPending, MaxNonces

ASSUME PluginAssumption ==
    MaxPending \in Nat \ {0} /\ MaxNonces \in Nat /\ None \notin Keys

VARIABLES keyFile, pending, aged, ask, givenTo, grants, told, raced

INSTANCE PluginAuth

pluginState == <<keyFile, pending, aged, ask, givenTo, grants, told, raced>>
pairingState == <<disk, drawn, up, signing, secret, last, shown, paired, refreshes, tokens,
                  session, unsaved, unlocked>>

Init == PairingInit /\ PluginInit

(* create_plugin_token signs with the secret of the moment. *)
Grant(c) ==
    /\ Verify(c)
    /\ tokens' = IF Grants(c) THEN tokens \cup {[signed |-> signing, session |-> session]} ELSE tokens
    /\ UNCHANGED <<disk, drawn, memory, history>>

Next ==
    \/ (Start \/ Pair \/ DeleteSession \/ RefreshSession \/ FileChanges) /\ UNCHANGED pluginState
    \/ Crash /\ PluginRestart
    \/ Ages /\ UNCHANGED pairingState
    \/ \E c \in Calls : up /\ PluginStep(c) /\ UNCHANGED pairingState
    \/ \E c \in Calls : up /\ Grant(c)

Spec == Init /\ [][Next]_<<pairingState, pluginState, asked>>

(* Requests, plugins and keys are interchangeable. *)
Symmetry == Permutations(Calls) \cup Permutations(Plugins) \cup Permutations(Keys)

(* Type correctness of both, and no request without the process. *)
TypeOK == PairingTypeOK /\ PluginTypeOK /\ (~up => \A c \in Calls : ask[c] = None)
=============================================================================
