---------------------------- MODULE DevicePairing ----------------------------
(***************************************************************************)
(* Pairing of the robot with its owner's app (pairing.py, device_jwt.py,     *)
(* device_auth_routes.py): the secrets kept in files, the session they carry  *)
(* and what is left of it after a restart.                                   *)
(*                                                                          *)
(* In this mode the users and refresh tokens are kept in memory, their        *)
(* awaits never give way, and a request is one step.  A secret is named by a  *)
(* number, a fresh one by the next.                                          *)
(***************************************************************************)
EXTENDS Integers, FiniteSets

CONSTANTS
    None,       \* Python's None
    MaxSecrets, \* bound: secrets drawn in one behaviour
    MaxAsked    \* bound: requests made

ASSUME PairingAssumption == MaxSecrets \in Nat \ {0} /\ MaxAsked \in Nat /\ None \notin Nat

(* The two files: the JWT signing secret and the pairing code.  The soft AP   *)
(* passphrase and the identity key are loaded and written as the code is.     *)
Files == {"jwt", "code"}

VARIABLES
    disk,      \* [Files -> what the file holds and whether it can be read]
    drawn,     \* secrets drawn so far
    asked,     \* requests made
    up,        \* the service is running
    signing,   \* jwt_secret, with which the service signs and verifies
    secret,    \* PairingState.secret
    last,      \* PairingState._last_secret
    shown,     \* the code the start wrote to the display file
    paired,    \* PairingState.paired
    refreshes, \* the sessions of the refresh tokens in the token store
    tokens,    \* access tokens given out: the secret that signed and the session
    session,   \* history: sessions ended so far
    unsaved,   \* history: secrets a failed rotation left in the file
    unlocked   \* history: a code file became readable after a start

pairingVars == <<disk, drawn, asked, up, signing, secret, last, shown, paired, refreshes, tokens,
                 session, unsaved, unlocked>>
memory == <<up, signing, secret, last, shown, paired, refreshes>>
history == <<session, unsaved, unlocked>>

Secret == 1 .. MaxSecrets

(* A file that is there but holds no secret of the right form is "bad".      *)
File == [holds : Secret \cup {None}, state : {"good", "bad", "locked"}]

(* Type correctness of the files, the process and the tokens given out. *)
PairingTypeOK ==
    /\ disk \in [Files -> File]
    /\ drawn \in 0 .. MaxSecrets /\ asked \in 0 .. MaxAsked
    /\ up \in BOOLEAN /\ paired \in BOOLEAN /\ unlocked \in BOOLEAN
    /\ signing \in Secret \cup {None}
    /\ {secret, last, shown} \subseteq Secret \cup {None}
    /\ (up => signing # None /\ shown # None)
    /\ session \in Nat
    /\ refreshes \subseteq Nat /\ \A t \in tokens : t \in [signed : Secret, session : Nat]
    /\ unsaved \subseteq Secret

Absent == [holds |-> None, state |-> "bad"]
Good(s) == [holds |-> s, state |-> "good"]

PairingInit ==
    /\ disk \in [Files -> {Absent}]
    /\ drawn = 0 /\ asked = 0 /\ up = FALSE /\ paired = FALSE
    /\ signing = None /\ secret = None /\ last = None /\ shown = None
    /\ refreshes = {} /\ tokens = {}
    /\ session = 0 /\ unsaved = {} /\ unlocked = FALSE

(* What the file is after one atomic write, which may fail. *)
Written(f, s) == {Good(s), disk[f]}

(* generate_secret: a fresh secret, in memory whether or not it is written.   *)
Generated(f, s, file, fresh) == s = fresh /\ file \in Written(f, fresh)

(* load_or_generate: a readable secret is taken, one that cannot be read is   *)
(* left alone, anything else is replaced.                                    *)
Loaded(f, s, file, fresh) ==
    CASE disk[f].state = "good"   -> s = disk[f].holds /\ file = disk[f]
      [] disk[f].state = "locked" -> s = fresh /\ file = disk[f]
      [] OTHER                    -> Generated(f, s, file, fresh)

(* The service starts: PairingState(), then load_or_generate_secret(). *)
Start ==
    /\ ~up /\ drawn + 2 <= MaxSecrets
    /\ \E j, c \in Secret, fj, fc \in File :
          /\ Loaded("jwt", j, fj, drawn + 1) /\ Loaded("code", c, fc, drawn + 2)
          /\ disk' = [jwt |-> fj, code |-> fc]
          /\ signing' = j /\ secret' = c /\ last' = c /\ shown' = c
    /\ drawn' = drawn + 2
    /\ up' = TRUE /\ paired' = FALSE /\ refreshes' = {}
    /\ unlocked' = FALSE
    /\ UNCHANGED <<asked, tokens, session, unsaved>>

(* Slip: without a code in memory only the file is asked. *)
ActiveOnDisk == IF secret # None THEN secret ELSE disk["code"].holds

Asks == asked < MaxAsked /\ asked' = asked + 1

(* get_active_secret: the code in memory, else the file's, else the last one. *)
Active ==
    IF secret # None THEN secret
    ELSE IF disk["code"].state = "good" THEN disk["code"].holds ELSE last

(* Slip: the new secret is written, and used from the next start on. *)
RotatedOnDisk ==
    /\ drawn < MaxSecrets /\ drawn' = drawn + 1
    /\ signing' = signing
    /\ \E file \in Written("jwt", drawn + 1) :
          /\ disk' = [disk EXCEPT !["jwt"] = file]
          /\ unsaved' = IF file = Good(drawn + 1) THEN unsaved ELSE unsaved \cup ({file.holds} \ {None})
    /\ secret' = None
    /\ session' = session + 1

(* reset_session: the signing secret is rotated, whatever becomes of the write. *)
Rotated ==
    /\ drawn < MaxSecrets /\ drawn' = drawn + 1
    /\ signing' = drawn + 1
    /\ \E file \in Written("jwt", drawn + 1) :
          /\ disk' = [disk EXCEPT !["jwt"] = file]
          /\ unsaved' = IF file = Good(drawn + 1) THEN unsaved ELSE unsaved \cup ({file.holds} \ {None})
    /\ secret' = None
    /\ session' = session + 1

(* create_access_token: signed with the secret in use. *)
AccessToken(signer, s) == [signed |-> signer, session |-> s]

(* pair and pair_via_ap: with the active code, or over the soft AP; the old   *)
(* session is ended before the new one is begun.                             *)
Pair ==
    /\ up /\ Active # None /\ Asks
    /\ Rotated
    /\ paired' = TRUE
    /\ refreshes' = {session + 1}
    /\ tokens' = tokens \cup {AccessToken(signing', session + 1)}
    /\ UNCHANGED <<up, last, shown, unlocked>>

Accepted(t) == up /\ t.signed = signing

(* jwt_required: the request carries a token that is accepted. *)
JwtRequired == \E t \in tokens : Accepted(t)

(* delete_session, by an owner's access token. *)
DeleteSession ==
    /\ Asks /\ JwtRequired
    /\ Rotated
    /\ paired' = FALSE /\ refreshes' = {}
    /\ UNCHANGED <<up, last, shown, tokens, unlocked>>

(* refresh: a new access token for the session of the refresh token. *)
RefreshSession == \E s \in refreshes :
    /\ up /\ Asks
    /\ tokens' = tokens \cup {AccessToken(signing, s)}
    /\ UNCHANGED <<disk, drawn, memory, history>>

(* The process ends, and its memory with it. *)
Crash ==
    /\ up /\ up' = FALSE
    /\ signing' = None /\ secret' = None /\ last' = None /\ shown' = None
    /\ paired' = FALSE /\ refreshes' = {}
    /\ UNCHANGED <<disk, drawn, asked, tokens, history>>

(* A file can no longer be read, can be read again, or is found damaged. *)
FileChanges == \E f \in Files :
    /\ disk[f].state # "bad"
    /\ \/ /\ disk[f].state = "good"
          /\ disk' = [disk EXCEPT ![f].state = "locked"] /\ UNCHANGED unlocked
       \/ /\ disk[f].state = "locked"
          /\ disk' = [disk EXCEPT ![f].state = "good"]
          /\ unlocked' = (unlocked \/ f = "code")
       \/ disk' = [disk EXCEPT ![f] = Absent] /\ UNCHANGED unlocked
    /\ UNCHANGED <<drawn, asked, memory, tokens, session, unsaved>>

(* Safety: the access and refresh tokens of an ended session are worth        *)
(* nothing, over restarts too (reset_session), unless the rotation that       *)
(* ended it could not be written and the process started from the old file.  *)
SessionsEnd ==
    /\ \A t \in tokens : Accepted(t) => t.session = session \/ t.signed \in unsaved
    /\ refreshes \subseteq {session}

(* Safety: the code that pairs is the one that was shown at the start, before *)
(* and after pairing (get_active_secret), unless a code file that could not   *)
(* be read then can be read now.                                             *)
ShownCodePairs == up => Active = shown \/ unlocked
=============================================================================
