--------------------------- MODULE DeviceAuthProofs ---------------------------
(***************************************************************************)
(* Proofs about pairing and plugin authentication, for any number of         *)
(* requests, plugins, keys, secrets and restarts.                            *)
(***************************************************************************)
EXTENDS DeviceAuth, FiniteSetTheorems, WellFoundedInduction, TLAPS

-----------------------------------------------------------------------------
(* Pairing. *)

(* A secret that is in use, in a file or under a token was drawn; the next is  *)
(* fresh.                                                                    *)
Drawn ==
    /\ \A t \in tokens : t.signed <= drawn
    /\ up => signing <= drawn
    /\ \A f \in Files : disk[f].holds # None => disk[f].holds <= drawn

(* The secret in the file is the session's own, or a rotation failed to        *)
(* replace it: a restart brings no ended session back.                       *)
Ended == \A t \in tokens :
    t.signed \in {disk["jwt"].holds} \cup (IF up THEN {signing} ELSE {}) =>
        t.session = session \/ t.signed \in unsaved

(* Where the code that was shown is to be found. *)
Shown == up /\ ~unlocked =>
    /\ secret \in {shown, None} /\ last = shown
    /\ disk["code"].state = "good" => disk["code"].holds = shown

PairInv == PairingTypeOK /\ Drawn /\ Ended /\ Shown /\ refreshes \subseteq {session}

LEMMA PairInit == ASSUME PairingInit PROVE PairInv
<1>1. Absent \in File /\ disk \in [Files -> File] /\ \A f \in Files : disk[f].holds = None
  BY DEF PairingInit, Absent, File
<1>2. 0 \in 0 .. MaxSecrets /\ 0 \in 0 .. MaxAsked
  BY PairingAssumption
<1>3. PairingTypeOK
  BY <1>1, <1>2 DEF PairingInit, PairingTypeOK
<1> QED  BY <1>1, <1>3 DEF PairingInit, PairInv, Drawn, Ended, Shown

(* The numbers of secrets. *)
LEMMA Numbers ==
    ASSUME PairingTypeOK
    PROVE  /\ drawn \in Nat /\ MaxSecrets \in Nat /\ drawn <= MaxSecrets /\ Secret \subseteq Nat
           /\ drawn < MaxSecrets => drawn + 1 \in Secret /\ drawn + 1 \in 0 .. MaxSecrets
           /\ drawn + 2 <= MaxSecrets =>
                drawn + 1 \in Secret /\ drawn + 2 \in Secret /\ drawn + 2 \in 0 .. MaxSecrets
           /\ None \notin Secret /\ None \notin Nat
BY PairingAssumption DEF PairingTypeOK, Secret

LEMMA StartPairing ==
    ASSUME PairInv, Start
    PROVE  PairInv'
<1> PICK j \in Secret, c \in Secret, fj \in File, fc \in File :
      /\ Loaded("jwt", j, fj, drawn + 1) /\ Loaded("code", c, fc, drawn + 2)
      /\ disk' = [jwt |-> fj, code |-> fc]
      /\ signing' = j /\ secret' = c /\ last' = c /\ shown' = c
  BY DEF Start
<1>0. /\ PairingTypeOK /\ ~up /\ drawn + 2 <= MaxSecrets /\ drawn' = drawn + 2 /\ up' = TRUE
      /\ paired' = FALSE /\ refreshes' = {} /\ unlocked' = FALSE
      /\ UNCHANGED <<asked, tokens, session, unsaved>>
  BY DEF PairInv, Start
<1>1. drawn \in Nat /\ drawn + 2 \in 0 .. MaxSecrets /\ None \notin Secret /\ Secret \subseteq Nat
  BY <1>0, Numbers
<1>2. disk' \in [Files -> File] /\ disk'["jwt"] = fj /\ disk'["code"] = fc
  BY DEF Files
<1>3. PairingTypeOK'
  BY <1>0, <1>1, <1>2 DEF PairingTypeOK
<1>4. /\ \/ j = disk["jwt"].holds /\ fj = disk["jwt"]
         \/ j = drawn + 1 /\ (fj = disk["jwt"] \/ fj = Good(drawn + 1))
      /\ \/ c = disk["code"].holds /\ fc = disk["code"]
         \/ c = drawn + 2 /\ ((fc = disk["code"] /\ fc.state # "good") \/ fc = Good(drawn + 2))
  BY DEF Loaded, Generated, Written
<1>5. Good(drawn + 1).holds = drawn + 1 /\ Good(drawn + 2).holds = drawn + 2
  BY DEF Good
<1>6. \A t \in tokens : t.signed <= drawn /\ t.signed \in Nat
  BY <1>1 DEF PairInv, Drawn, PairingTypeOK
<1>7. \A f \in Files : disk[f].holds # None => disk[f].holds <= drawn /\ disk[f].holds \in Nat
  BY <1>1 DEF PairInv, Drawn, PairingTypeOK, File
<1>8. Drawn'
  <2>1. j <= drawn + 1 /\ j \in Nat
    BY <1>1, <1>4, <1>7 DEF Files
  <2>2. /\ fj.holds # None => fj.holds <= drawn + 2
        /\ fc.holds # None => fc.holds <= drawn + 2
    BY <1>1, <1>4, <1>5, <1>7 DEF Files
  <2>3. \A t \in tokens : t.signed <= drawn + 2
    BY <1>1, <1>6
  <2> QED  BY <1>0, <1>1, <1>2, <2>1, <2>2, <2>3 DEF Drawn, Files
<1>9. Ended'
  <2>1. \A t \in tokens : t.signed \in {fj.holds, j} => t.signed = disk["jwt"].holds
    BY <1>1, <1>4, <1>5, <1>6
  <2> QED  BY <1>0, <1>2, <2>1 DEF PairInv, Ended
<1>10. Shown'
  BY <1>0, <1>2, <1>4, <1>5 DEF Shown
<1> QED  BY <1>0, <1>3, <1>8, <1>9, <1>10 DEF PairInv

(* A rotation of the signing secret, with what the request does beside it. *)
LEMMA RotatedPairing ==
    ASSUME PairInv, up, Rotated, asked' \in 0 .. MaxAsked, paired' \in BOOLEAN,
           UNCHANGED <<up, last, shown, unlocked>>, refreshes' \subseteq {session + 1},
           \A t \in tokens' : t \in tokens \/ t = [signed |-> signing', session |-> session + 1]
    PROVE  PairInv'
<1> PICK file \in Written("jwt", drawn + 1) :
      /\ disk' = [disk EXCEPT !["jwt"] = file]
      /\ unsaved' = IF file = Good(drawn + 1) THEN unsaved ELSE unsaved \cup ({file.holds} \ {None})
  BY DEF Rotated
<1>0. /\ PairingTypeOK /\ drawn < MaxSecrets /\ drawn' = drawn + 1 /\ signing' = drawn + 1
      /\ secret' = None /\ session' = session + 1
  BY DEF PairInv, Rotated
<1>1. /\ drawn \in Nat /\ drawn + 1 \in Secret /\ drawn + 1 \in 0 .. MaxSecrets /\ Secret \subseteq Nat
      /\ None \notin Secret
  BY <1>0, Numbers
<1>2. Good(drawn + 1) \in File /\ Good(drawn + 1).holds = drawn + 1
  BY <1>1 DEF Good, File
<1>3. /\ disk["jwt"] \in File /\ file \in File /\ disk' \in [Files -> File]
      /\ disk'["jwt"] = file /\ disk'["code"] = disk["code"]
      /\ file = disk["jwt"] \/ file = Good(drawn + 1)
  BY <1>0, <1>2 DEF PairingTypeOK, Files, Written
<1>4. unsaved \subseteq unsaved' /\ unsaved' \subseteq Secret
  BY <1>0, <1>3 DEF PairingTypeOK, File
<1>5. \A t \in tokens' : t \in [signed : Secret, session : Nat]
  BY <1>0, <1>1 DEF PairingTypeOK
<1>6. PairingTypeOK'
  BY <1>0, <1>1, <1>3, <1>4, <1>5 DEF PairingTypeOK
<1>7. \A t \in tokens : t.signed <= drawn /\ t.signed \in Nat
  BY <1>0, <1>1 DEF PairInv, Drawn, PairingTypeOK
<1>8. \A f \in Files : disk[f].holds # None => disk[f].holds <= drawn /\ disk[f].holds \in Nat
  BY <1>0, <1>1 DEF PairInv, Drawn, PairingTypeOK, File
<1>9. Drawn'
  <2>1. \A f \in Files : disk'[f].holds # None => disk'[f].holds <= drawn + 1
    BY <1>1, <1>2, <1>3, <1>8 DEF Files
  <2>2. \A t \in tokens' : t.signed <= drawn + 1
    BY <1>0, <1>1, <1>7
  <2> QED  BY <1>0, <1>1, <2>1, <2>2 DEF Drawn
<1>10. Ended'
  <2> SUFFICES ASSUME NEW t \in tokens', t.signed \in {file.holds, drawn + 1}
      PROVE  t.session = session + 1 \/ t.signed \in unsaved'
    BY <1>0, <1>3 DEF Ended
  <2>1. CASE t = [signed |-> signing', session |-> session + 1]
    BY <2>1
  <2>2. CASE t \in tokens
    <3>1. t.signed # drawn + 1 /\ t.signed = file.holds /\ t.signed # None
      BY <1>1, <1>7, <2>2, PairingAssumption
    <3>2. file # Good(drawn + 1)
      BY <1>2, <3>1
    <3> QED  BY <3>1, <3>2
  <2> QED  BY <2>1, <2>2
<1>11. Shown'
  BY <1>0, <1>3 DEF PairInv, Shown
<1> QED  BY <1>0, <1>6, <1>9, <1>10, <1>11 DEF PairInv

(* A token for the session of now, signed with the secret of now. *)
LEMMA SignedPairing ==
    ASSUME PairInv, up, asked' \in 0 .. MaxAsked, UNCHANGED <<disk, drawn, memory, history>>,
           \A t \in tokens' : t \in tokens \/ t = [signed |-> signing, session |-> session]
    PROVE  PairInv'
<1>0. PairingTypeOK /\ UNCHANGED <<disk, drawn, up, signing, secret, last, shown, paired, refreshes, session, unsaved, unlocked>>
  BY DEF PairInv, memory, history
<1>1. signing \in Secret /\ session \in Nat
  BY <1>0, PairingAssumption DEF PairingTypeOK, Secret
<1>2. PairingTypeOK'
  BY <1>0, <1>1 DEF PairingTypeOK
<1>3. Drawn' /\ Ended' /\ Shown'
  BY <1>0, <1>1 DEF PairInv, Drawn, Ended, Shown
<1> QED  BY <1>0, <1>2, <1>3 DEF PairInv

LEMMA AsksBound == ASSUME PairingTypeOK, Asks PROVE asked' \in 0 .. MaxAsked
BY PairingAssumption DEF PairingTypeOK, Asks

LEMMA RequestsPairing ==
    ASSUME PairInv, Pair \/ DeleteSession \/ RefreshSession
    PROVE  PairInv'
<1>1. CASE Pair
  <2>1. asked' \in 0 .. MaxAsked
    BY <1>1, AsksBound DEF PairInv, Pair, AccessToken
  <2> QED  BY <1>1, <2>1, RotatedPairing DEF Pair, AccessToken
<1>2. CASE DeleteSession
  <2>1. asked' \in 0 .. MaxAsked /\ up
    BY <1>2, AsksBound DEF PairInv, DeleteSession, JwtRequired, Accepted
  <2> QED  BY <1>2, <2>1, RotatedPairing DEF DeleteSession
<1>3. CASE RefreshSession
  <2> PICK s \in refreshes :
        /\ up /\ Asks
        /\ tokens' = tokens \cup {[signed |-> signing, session |-> s]}
        /\ UNCHANGED <<disk, drawn, memory, history>>
    BY <1>3 DEF RefreshSession, AccessToken
  <2>1. asked' \in 0 .. MaxAsked /\ s = session
    BY AsksBound DEF PairInv
  <2> QED  BY <2>1, SignedPairing
<1> QED  BY <1>1, <1>2, <1>3

LEMMA CrashPairing == ASSUME PairInv, Crash PROVE PairInv'
<1>1. UNCHANGED <<disk, drawn, asked, tokens, session, unsaved, unlocked>>
  BY DEF Crash, history
<1>2. PairingTypeOK'
  BY <1>1 DEF PairInv, PairingTypeOK, Crash
<1> QED  BY <1>1, <1>2 DEF PairInv, Drawn, Ended, Shown, Crash

LEMMA FilePairing == ASSUME PairInv, FileChanges PROVE PairInv'
<1> PICK f \in Files :
      /\ disk[f].state # "bad"
      /\ \/ /\ disk[f].state = "good"
            /\ disk' = [disk EXCEPT ![f].state = "locked"] /\ UNCHANGED unlocked
         \/ /\ disk[f].state = "locked"
            /\ disk' = [disk EXCEPT ![f].state = "good"]
            /\ unlocked' = (unlocked \/ f = "code")
         \/ disk' = [disk EXCEPT ![f] = Absent] /\ UNCHANGED unlocked
      /\ UNCHANGED <<drawn, asked, memory, tokens, session, unsaved>>
  BY DEF FileChanges
<1>0. PairingTypeOK /\ UNCHANGED <<drawn, asked, up, signing, secret, last, shown, paired, refreshes, tokens, session, unsaved>>
  BY DEF PairInv, memory
<1>1. disk[f] \in File /\ Absent \in File /\ Absent.holds = None /\ Absent.state = "bad"
  BY <1>0 DEF PairingTypeOK, Absent, File
<1>2. /\ disk' \in [Files -> File] /\ \A g \in Files \ {f} : disk'[g] = disk[g]
      /\ disk'[f].holds \in {disk[f].holds, None}
      /\ disk'[f].state = "good" => disk'[f].holds = disk[f].holds /\ (f = "code" => unlocked')
      /\ unlocked => unlocked'
      /\ unlocked' \in BOOLEAN
  <2> PICK file \in File :
        /\ disk' = [disk EXCEPT ![f] = file]
        /\ file.holds \in {disk[f].holds, None}
        /\ file.state = "good" => file.holds = disk[f].holds /\ (f = "code" => unlocked')
        /\ unlocked => unlocked'
        /\ unlocked' \in BOOLEAN
    <3>1. unlocked \in BOOLEAN /\ disk[f].holds \in Secret \cup {None}
      BY <1>0, <1>1 DEF PairingTypeOK, File
    <3>2. CASE disk[f].state = "good" /\ disk' = [disk EXCEPT ![f].state = "locked"] /\ UNCHANGED unlocked
      <4>1. /\ [disk[f] EXCEPT !.state = "locked"] \in File
            /\ [disk[f] EXCEPT !.state = "locked"].holds = disk[f].holds
            /\ [disk[f] EXCEPT !.state = "locked"].state = "locked"
        BY <1>1 DEF File
      <4>2. disk' = [disk EXCEPT ![f] = [disk[f] EXCEPT !.state = "locked"]]
        BY <3>2
      <4> QED  BY <3>1, <3>2, <4>1, <4>2
    <3>3. CASE /\ disk' = [disk EXCEPT ![f].state = "good"]
               /\ unlocked' = (unlocked \/ f = "code")
      <4>1. /\ [disk[f] EXCEPT !.state = "good"] \in File
            /\ [disk[f] EXCEPT !.state = "good"].holds = disk[f].holds
        BY <1>1 DEF File
      <4>2. disk' = [disk EXCEPT ![f] = [disk[f] EXCEPT !.state = "good"]]
        BY <3>3
      <4> QED  BY <3>1, <3>3, <4>1, <4>2
    <3>4. CASE disk' = [disk EXCEPT ![f] = Absent] /\ UNCHANGED unlocked
      BY <1>1, <3>1, <3>4
    <3> QED  BY <3>2, <3>3, <3>4
  <2> QED  BY <1>0 DEF PairingTypeOK
<1>3. PairingTypeOK'
  BY <1>0, <1>2 DEF PairingTypeOK
<1>4. Drawn'
  BY <1>0, <1>2 DEF PairInv, Drawn
<1>5. Ended'
  <2>1. \A t \in tokens : t.signed # None
    BY <1>0, Numbers DEF PairingTypeOK
  <2>2. disk'["jwt"].holds \in {disk["jwt"].holds, None}
    BY <1>2 DEF Files
  <2> QED  BY <1>0, <2>1, <2>2 DEF PairInv, Ended
<1>6. Shown'
  <2>1. disk'["code"].state = "good" /\ ~unlocked' => disk'["code"] = disk["code"]
    BY <1>2 DEF Files
  <2> QED  BY <1>0, <1>2, <2>1 DEF PairInv, Shown
<1> QED  BY <1>0, <1>3, <1>4, <1>5, <1>6 DEF PairInv

LEMMA PairingStays ==
    ASSUME PairInv, UNCHANGED pairingState, asked' \in 0 .. MaxAsked
    PROVE  PairInv'
<1>0. UNCHANGED <<disk, drawn, up, signing, secret, last, shown, paired, refreshes, tokens, session, unsaved, unlocked>>
  BY DEF pairingState
<1>1. PairingTypeOK'
  BY <1>0 DEF PairInv, PairingTypeOK
<1> QED  BY <1>0, <1>1 DEF PairInv, Drawn, Ended, Shown

-----------------------------------------------------------------------------
(* Plugin authentication. *)

(* What a request has found out by the time it is where it is. *)
AskSound(c) == ask[c] # None =>
    /\ ask[c].op = "register" => ask[c].key \in Keys /\ ask[c].at \in {"read", "write"}
    /\ ask[c].at = "write" => ask[c].op = "register"
    /\ ask[c].op = "token" => ask[c].nonce \in 1 .. Len(givenTo)
    /\ ask[c].at \in {"consume", "verify"} => ask[c].op = "token" /\ ask[c].read \in told[ask[c].plugin]
    /\ ask[c].at = "verify" => ask[c].nonce \notin pending /\ givenTo[ask[c].nonce] = ask[c].plugin

(* A nonce is outstanding, or in one request's hand, or spent. *)
Spent ==
    /\ \A c, d \in Calls : At(c, "verify") /\ At(d, "verify") /\ ask[c].nonce = ask[d].nonce => c = d
    /\ \A i \in DOMAIN grants : grants[i].nonce \in 1 .. Len(givenTo) /\ grants[i].nonce \notin pending
    /\ \A i \in DOMAIN grants, c \in Calls : At(c, "verify") => ask[c].nonce # grants[i].nonce

(* One registration at a time: while it writes there is nothing it could       *)
(* replace.                                                                  *)
Stands(p) ==
    /\ told[p] \subseteq {keyFile[p]}
    /\ \A c, d \in Calls : Registering(c, p) /\ Registering(d, p) => c = d
    /\ \A c \in Calls : At(c, "write") /\ ask[c].plugin = p => told[p] = {}

PlugInv == /\ PluginTypeOK /\ Len(givenTo) <= MaxNonces
           /\ \A c \in Calls : AskSound(c)
           /\ Spent /\ NonceEarnsOne
           /\ \A p \in Plugins : keyFile[p] # None => keyFile[p] \in told[p]
           /\ \A p \in Plugins \ raced : Stands(p)

LEMMA PlugInit == ASSUME PluginInit PROVE PlugInv
<1>1. \A c \in Calls : ask[c] = None
  BY DEF PluginInit
<1>2. Len(givenTo) = 0 /\ DOMAIN grants = {} /\ 0 \in 0 .. MaxNonces /\ 0 \in 0 .. MaxAsked
  BY PairingAssumption, PluginAssumption DEF PluginInit
<1>3. Cardinality(pending) <= MaxPending
  BY FS_EmptySet, PluginAssumption DEF PluginInit
<1>4. PluginTypeOK
  BY <1>2, <1>3 DEF PluginInit, PluginTypeOK
<1> QED  BY <1>1, <1>2, <1>4, PluginAssumption
         DEF PluginInit, PlugInv, AskSound, Spent, NonceEarnsOne, Stands, At, Registering

LEMMA GrantTypes ==
    ASSUME PluginTypeOK
    PROVE  \A i \in DOMAIN grants : grants[i].plugin \in Plugins
<1> DEFINE G == [nonce : Nonces, plugin : Plugins, signer : Keys]
<1>1. grants \in Seq(G)
  BY DEF PluginTypeOK
<1>2. \A g \in G : g.plugin \in Plugins
  OBVIOUS
<1> HIDE DEF G
<1>3. \A i \in DOMAIN grants : grants[i] \in G
  BY <1>1
<1> QED  BY <1>2, <1>3

(* A request, and what becomes of it. *)
LEMMA AskTurns ==
    ASSUME PluginTypeOK, NEW c \in Calls, ask[c] # None,
           NEW where \in {"read", "write", "issue", "consume", "verify"}, Goes(c, where)
    PROVE  /\ ask' \in [Calls -> Request \cup {None}]
           /\ \A d \in Calls \ {c} : ask'[d] = ask[d]
           /\ ask'[c] \in Request /\ ask'[c].at = where
           /\ ask'[c].op = ask[c].op /\ ask'[c].plugin = ask[c].plugin /\ ask'[c].key = ask[c].key
           /\ ask'[c].nonce = ask[c].nonce /\ ask'[c].read = ask[c].read
<1>1. ask[c] \in Request
  BY DEF PluginTypeOK
<1> DEFINE new == [ask[c] EXCEPT !.at = where]
<1>2. /\ new \in Request /\ new.at = where /\ new.op = ask[c].op /\ new.plugin = ask[c].plugin
      /\ new.key = ask[c].key /\ new.nonce = ask[c].nonce /\ new.read = ask[c].read
  BY <1>1 DEF Request
<1>3. ask' = [ask EXCEPT ![c] = new]
  BY DEF Goes
<1> HIDE DEF new
<1> QED  BY <1>2, <1>3 DEF PluginTypeOK

LEMMA AskOver ==
    ASSUME PluginTypeOK, NEW c \in Calls, Ends(c)
    PROVE  /\ ask' \in [Calls -> Request \cup {None}] /\ ask'[c] = None
           /\ \A d \in Calls \ {c} : ask'[d] = ask[d]
BY DEF PluginTypeOK, Ends

LEMMA PluginAsksInv ==
    ASSUME PlugInv, NEW c \in Calls, PluginAsks(c)
    PROVE  PlugInv'
<1> PICK op \in {"register", "challenge", "token"}, p \in Plugins, k \in Keys \cup {None}, n \in 0 .. Len(givenTo) :
      /\ ask[c] = None /\ asked < MaxAsked /\ asked' = asked + 1
      /\ (op = "token") = (n > 0) /\ (op = "challenge") = (k = None)
      /\ ask' = [ask EXCEPT ![c] = [op |-> op, at |-> "read", plugin |-> p, key |-> k, read |-> None,
                    nonce |-> IF n = 0 THEN None ELSE n]]
      /\ raced' = IF op = "register" /\ \E d \in Calls \ {c} : Registering(d, p) THEN raced \cup {p} ELSE raced
      /\ UNCHANGED <<keyFile, pending, aged, givenTo, grants, told>>
  BY DEF PluginAsks
<1> DEFINE new == [op |-> op, at |-> "read", plugin |-> p, key |-> k, read |-> None,
                   nonce |-> IF n = 0 THEN None ELSE n]
<1>0. PluginTypeOK /\ Len(givenTo) \in Nat /\ MaxNonces \in Nat /\ Len(givenTo) <= MaxNonces
  BY PluginAssumption DEF PlugInv, PluginTypeOK
<1>1. (IF n = 0 THEN None ELSE n) \in Nonces \cup {None}
  BY <1>0 DEF Nonces
<1>2. /\ new \in Request /\ new.op = op /\ new.at = "read" /\ new.plugin = p /\ new.key = k
      /\ op = "token" => new.nonce \in 1 .. Len(givenTo)
      /\ op = "register" => new.key \in Keys
  BY <1>0, <1>1 DEF Request
<1> HIDE DEF new
<1>3. /\ ask' \in [Calls -> Request \cup {None}] /\ ask'[c] = new /\ \A d \in Calls \ {c} : ask'[d] = ask[d]
  BY <1>0, <1>2 DEF PluginTypeOK, new
<1>4. raced \subseteq raced' /\ raced' \subseteq Plugins /\ asked' \in 0 .. MaxAsked
  BY <1>0, PairingAssumption DEF PluginTypeOK
<1>5. PluginTypeOK'
  BY <1>0, <1>3, <1>4 DEF PluginTypeOK
<1>6. \A d \in Calls : AskSound(d)'
  BY <1>2, <1>3 DEF PlugInv, AskSound
<1>7. \A d \in Calls, w \in {"write", "verify"} : At(d, w)' => At(d, w) /\ ask'[d] = ask[d]
  BY <1>2, <1>3 DEF At
<1>8. Spent' /\ NonceEarnsOne'
  BY <1>7 DEF PlugInv, Spent, NonceEarnsOne
<1>9. ASSUME NEW q \in Plugins \ raced' PROVE Stands(q)'
  <2>1. Stands(q)
    BY <1>4, <1>9 DEF PlugInv
  <2>2. \A d \in Calls : Registering(d, q)' => Registering(d, q) \/ (d = c /\ op = "register" /\ p = q)
    BY <1>2, <1>3 DEF Registering
  <2>3. op = "register" /\ p = q => \A d \in Calls \ {c} : ~Registering(d, q)
    BY <1>9
  <2>4. \A d, e \in Calls : Registering(d, q)' /\ Registering(e, q)' => d = e
    <3>1. ~Registering(c, q)
      BY DEF Registering
    <3> QED  BY <2>1, <2>2, <2>3, <3>1 DEF Stands
  <2> QED  BY <1>7, <2>1, <2>4 DEF Stands
<1> QED  BY <1>0, <1>5, <1>6, <1>8, <1>9 DEF PlugInv

LEMMA RegisterReadsInv ==
    ASSUME PlugInv, NEW c \in Calls, RegisterReads(c)
    PROVE  PlugInv'
<1> PICK k \in Keys \cup {None}, p \in Plugins :
      /\ At(c, "read") /\ ask[c].op = "register" /\ k \in {keyFile[p], None} /\ p = ask[c].plugin
      /\ IF k = None THEN Goes(c, "write") ELSE Ends(c)
      /\ told' = IF k = ask[c].key THEN [told EXCEPT ![p] = @ \cup {k}] ELSE told
      /\ raced' = IF k # keyFile[p] THEN raced \cup {p} ELSE raced
      /\ UNCHANGED <<keyFile, pending, aged, asked, givenTo, grants>>
  BY DEF PlugInv, PluginTypeOK, Request, RegisterReads, Reads, At
<1>0. /\ PluginTypeOK /\ ask[c] # None /\ ask[c] \in Request /\ ask[c].key \in Keys /\ None \notin Keys
      /\ ask[c].at = "read"
  BY PluginAssumption DEF PlugInv, PluginTypeOK, AskSound, At
<1>1. /\ ask' \in [Calls -> Request \cup {None}] /\ \A d \in Calls \ {c} : ask'[d] = ask[d]
      /\ \/ k # None /\ ask'[c] = None
         \/ /\ k = None /\ ask'[c].at = "write"
            /\ ask'[c].op = ask[c].op /\ ask'[c].plugin = p /\ ask'[c].key = ask[c].key
  <2>1. CASE k = None
    BY <1>0, <2>1, AskTurns
  <2>2. CASE k # None
    BY <1>0, <2>2, AskOver
  <2> QED  BY <2>1, <2>2
<1>2. /\ told' \in [Plugins -> SUBSET Keys] /\ \A q \in Plugins : told[q] \subseteq told'[q]
      /\ \A q \in Plugins : told'[q] # told[q] => q = p /\ k = keyFile[p] /\ told'[p] = told[p] \cup {k}
      /\ k = None => told' = told
  BY <1>0 DEF PluginTypeOK
<1>3. raced \subseteq raced' /\ raced' \subseteq Plugins
  BY <1>0 DEF PluginTypeOK
<1>4. PluginTypeOK'
  BY <1>0, <1>1, <1>2, <1>3 DEF PluginTypeOK
<1>5. ASSUME NEW d \in Calls PROVE AskSound(d)'
  <2>1. CASE d = c
    BY <1>0, <1>1, <2>1 DEF AskSound
  <2>2. CASE d # c
    <3>1. ask'[d] = ask[d] /\ AskSound(d) /\ (ask[d] # None => ask[d].plugin \in Plugins)
      BY <1>0, <1>1, <2>2 DEF PlugInv, PluginTypeOK, Request
    <3> QED  BY <1>2, <3>1 DEF AskSound
  <2> QED  BY <2>1, <2>2
<1>6. \A d \in Calls : At(d, "verify")' => At(d, "verify") /\ ask'[d] = ask[d]
  BY <1>1 DEF At
<1>7. Spent'
  BY <1>6 DEF PlugInv, Spent
<1>8. NonceEarnsOne'
  <2>1. \A i \in DOMAIN grants : grants[i].plugin \in Plugins
    BY <1>0, GrantTypes
  <2> QED  BY <1>2, <2>1 DEF PlugInv, NonceEarnsOne
<1>9. \A q \in Plugins : keyFile'[q] # None => keyFile'[q] \in told'[q]
  BY <1>2 DEF PlugInv
<1>10. ASSUME NEW q \in Plugins \ raced' PROVE Stands(q)'
  <2>1. Stands(q)
    BY <1>3, <1>10 DEF PlugInv
  <2>2. \A d \in Calls : Registering(d, q)' => Registering(d, q)
    BY <1>0, <1>1 DEF Registering
  <2>3. told'[q] \subseteq {keyFile[q]}
    BY <1>2, <1>10, <2>1 DEF Stands
  <2>4. \A d \in Calls : At(d, "write")' /\ ask'[d].plugin = q => told'[q] = {}
    <3> SUFFICES ASSUME NEW d \in Calls, At(d, "write")', ask'[d].plugin = q PROVE told'[q] = {}
      OBVIOUS
    <3>1. CASE d = c
      <4>1. k = None /\ q = p
        BY <1>1, <3>1 DEF At
      <4>2. keyFile[q] = None
        BY <1>10, <4>1
      <4>3. told[q] \subseteq Keys /\ told[q] \subseteq {None}
        BY <1>0, <2>1, <4>2 DEF Stands, PluginTypeOK
      <4> QED  BY <1>0, <1>2, <4>1, <4>3
    <3>2. CASE d # c
      <4>1. At(d, "write") /\ ask[d].plugin = q /\ told[q] = {} /\ Registering(d, q)
        BY <1>1, <2>1, <3>2 DEF At, Stands, PlugInv, AskSound, Registering
      <4>2. q # p
        BY <1>0, <2>1, <3>2, <4>1 DEF Stands, Registering
      <4> QED  BY <1>2, <4>1, <4>2
    <3> QED  BY <3>1, <3>2
  <2> QED  BY <2>1, <2>2, <2>3, <2>4 DEF Stands
<1> QED  BY <1>4, <1>5, <1>7, <1>8, <1>9, <1>10 DEF PlugInv

LEMMA RegisterWritesInv ==
    ASSUME PlugInv, NEW c \in Calls, RegisterWrites(c)
    PROVE  PlugInv'
<1> PICK p \in Plugins :
      /\ At(c, "write") /\ p = ask[c].plugin
      /\ \/ /\ keyFile' = [keyFile EXCEPT ![p] = ask[c].key]
            /\ told' = [told EXCEPT ![p] = @ \cup {ask[c].key}]
         \/ UNCHANGED <<keyFile, told>>
      /\ Ends(c)
      /\ UNCHANGED <<pending, aged, asked, givenTo, grants, raced>>
  BY DEF PlugInv, PluginTypeOK, Request, RegisterWrites, At
<1>0. /\ PluginTypeOK /\ ask[c] # None /\ ask[c].at = "write" /\ ask[c].op = "register" /\ ask[c].key \in Keys
  BY DEF PlugInv, AskSound, At
<1>1. /\ ask' \in [Calls -> Request \cup {None}] /\ ask'[c] = None
      /\ \A d \in Calls \ {c} : ask'[d] = ask[d]
  BY <1>0, AskOver
<1>2. /\ keyFile' \in [Plugins -> Keys \cup {None}] /\ told' \in [Plugins -> SUBSET Keys]
      /\ \A q \in Plugins : told[q] \subseteq told'[q]
      /\ \A q \in Plugins \ {p} : told'[q] = told[q] /\ keyFile'[q] = keyFile[q]
      /\ \/ told'[p] = told[p] /\ keyFile'[p] = keyFile[p]
         \/ told'[p] = told[p] \cup {ask[c].key} /\ keyFile'[p] = ask[c].key
  <2>1. CASE UNCHANGED <<keyFile, told>>
    BY <1>0, <2>1 DEF PluginTypeOK
  <2>2. CASE /\ keyFile' = [keyFile EXCEPT ![p] = ask[c].key]
             /\ told' = [told EXCEPT ![p] = @ \cup {ask[c].key}]
    BY <1>0, <2>2 DEF PluginTypeOK
  <2> QED  BY <2>1, <2>2
<1>3. PluginTypeOK'
  BY <1>0, <1>1, <1>2 DEF PluginTypeOK
<1>4. ASSUME NEW d \in Calls PROVE AskSound(d)'
  <2>1. CASE d = c
    BY <1>1, <2>1 DEF AskSound
  <2>2. CASE d # c
    <3>1. ask'[d] = ask[d] /\ AskSound(d) /\ (ask[d] # None => ask[d].plugin \in Plugins)
      BY <1>0, <1>1, <2>2 DEF PlugInv, PluginTypeOK, Request
    <3> QED  BY <1>2, <3>1 DEF AskSound
  <2> QED  BY <2>1, <2>2
<1>5. \A d \in Calls, w \in {"write", "verify"} : At(d, w)' => At(d, w) /\ ask'[d] = ask[d] /\ d # c
  BY <1>1 DEF At
<1>6. Spent'
  BY <1>5 DEF PlugInv, Spent
<1>7. NonceEarnsOne'
  <2>1. \A i \in DOMAIN grants : grants[i].plugin \in Plugins
    BY <1>0, GrantTypes
  <2> QED  BY <1>2, <2>1 DEF PlugInv, NonceEarnsOne
<1>8. \A q \in Plugins : keyFile'[q] # None => keyFile'[q] \in told'[q]
  BY <1>2 DEF PlugInv
<1>9. ASSUME NEW q \in Plugins \ raced' PROVE Stands(q)'
  <2>1. Stands(q)
    BY <1>9 DEF PlugInv
  <2>2. \A d \in Calls : Registering(d, q)' => Registering(d, q) /\ d # c
    BY <1>1 DEF Registering
  <2>3. CASE q = p
    <3>1. told[q] = {} /\ Registering(c, q)
      BY <1>0, <2>1, <2>3 DEF Stands, Registering, At
    <3>2. told'[q] \subseteq {keyFile'[q]}
      BY <1>2, <2>3, <3>1
    <3>3. \A d \in Calls : ~(At(d, "write")' /\ ask'[d].plugin = q)
      BY <1>5, <2>1, <3>1 DEF Stands, PlugInv, AskSound, Registering, At
    <3> QED  BY <2>1, <2>2, <3>2, <3>3 DEF Stands
  <2>4. CASE q # p
    BY <1>2, <1>5, <2>1, <2>2, <2>4 DEF Stands
  <2> QED  BY <2>3, <2>4
<1> QED  BY <1>3, <1>4, <1>6, <1>7, <1>8, <1>9 DEF PlugInv

LEMMA ReadKeyInv ==
    ASSUME PlugInv, NEW c \in Calls, ReadKey(c)
    PROVE  PlugInv'
<1> PICK k \in Keys \cup {None} :
      /\ At(c, "read") /\ ask[c].op # "register" /\ Reads(c, k)
      /\ IF k = None THEN Ends(c)
         ELSE IF ask[c].op = "challenge" THEN Goes(c, "issue")
         ELSE ask' = [ask EXCEPT ![c].at = "consume", ![c].read = k]
      /\ UNCHANGED <<keyFile, pending, aged, asked, givenTo, grants, told, raced>>
  BY DEF ReadKey
<1>0. /\ PluginTypeOK /\ ask[c] # None /\ ask[c] \in Request /\ ask[c].plugin \in Plugins /\ AskSound(c)
      /\ ask[c].op \in {"challenge", "token"}
  BY DEF PlugInv, PluginTypeOK, Request, At
<1>1. k # None => k \in told[ask[c].plugin] /\ k \in Keys
  BY <1>0 DEF PlugInv, Reads
<1>2. /\ ask' \in [Calls -> Request \cup {None}] /\ \A d \in Calls \ {c} : ask'[d] = ask[d]
      /\ \/ ask'[c] = None
         \/ /\ ask'[c].op = ask[c].op /\ ask'[c].plugin = ask[c].plugin /\ ask'[c].nonce = ask[c].nonce
            /\ \/ ask'[c].at = "issue"
               \/ ask'[c].at = "consume" /\ ask[c].op = "token" /\ ask'[c].read \in told[ask[c].plugin]
  <2>1. CASE k = None
    <3>1. Ends(c)
      BY <2>1
    <3> QED  BY <1>0, <3>1, AskOver
  <2>2. CASE k # None /\ ask[c].op = "token"
    <3> DEFINE new == [[ask[c] EXCEPT !.at = "consume"] EXCEPT !.read = k]
    <3>1. /\ new \in Request /\ new.op = ask[c].op /\ new.plugin = ask[c].plugin
          /\ new.nonce = ask[c].nonce /\ new.at = "consume" /\ new.read = k
      BY <1>0, <1>1, <2>2 DEF Request
    <3>2. ask' = [ask EXCEPT ![c] = new]
      BY <1>0, <2>2 DEF Request
    <3> HIDE DEF new
    <3> QED  BY <1>0, <1>1, <2>2, <3>1, <3>2 DEF PluginTypeOK
  <2>3. CASE k # None /\ ask[c].op # "token"
    <3>1. Goes(c, "issue")
      BY <1>0, <2>3
    <3> QED  BY <1>0, <3>1, AskTurns
  <2> QED  BY <2>1, <2>2, <2>3
<1>3. PluginTypeOK'
  BY <1>0, <1>2 DEF PluginTypeOK
<1>4. ASSUME NEW d \in Calls PROVE AskSound(d)'
  <2>1. CASE d = c
    BY <1>0, <1>2, <2>1 DEF AskSound
  <2>2. CASE d # c
    BY <1>2, <2>2 DEF PlugInv, AskSound
  <2> QED  BY <2>1, <2>2
<1>5. \A d \in Calls, w \in {"write", "verify"} : At(d, w)' => At(d, w) /\ ask'[d] = ask[d]
  BY <1>2 DEF At
<1>6. Spent' /\ NonceEarnsOne'
  BY <1>5 DEF PlugInv, Spent, NonceEarnsOne
<1>7. ASSUME NEW q \in Plugins \ raced' PROVE Stands(q)'
  <2>1. Stands(q)
    BY <1>7 DEF PlugInv
  <2>2. \A d \in Calls : Registering(d, q)' => Registering(d, q)
    BY <1>0, <1>2 DEF Registering
  <2> QED  BY <1>5, <2>1, <2>2 DEF Stands
<1> QED  BY <1>3, <1>4, <1>6, <1>7 DEF PlugInv

(* A step that ends a request, or takes it on with nothing learnt, and only     *)
(* makes fewer nonces outstanding.                                           *)
LEMMA ConsumeInv ==
    ASSUME PlugInv, NEW c \in Calls, Consume(c)
    PROVE  PlugInv'
<1> PICK n \in 1 .. Len(givenTo) : n = ask[c].nonce /\ ask[c] # None
  BY DEF PlugInv, AskSound, Consume, At
<1>0. /\ PluginTypeOK /\ ask[c].at = "consume" /\ ask[c] \in Request /\ AskSound(c)
      /\ \/ n \in pending /\ givenTo[n] = ask[c].plugin /\ Goes(c, "verify")
         \/ Ends(c)
      /\ pending' = pending \ {n}
      /\ UNCHANGED <<keyFile, aged, asked, givenTo, grants, told, raced>>
  BY DEF PlugInv, PluginTypeOK, Consume, At
<1>1. /\ ask' \in [Calls -> Request \cup {None}] /\ \A d \in Calls \ {c} : ask'[d] = ask[d]
      /\ \/ ask'[c] = None
         \/ /\ n \in pending /\ givenTo[n] = ask[c].plugin /\ ask'[c].at = "verify"
            /\ ask'[c].op = ask[c].op /\ ask'[c].plugin = ask[c].plugin /\ ask'[c].nonce = n
            /\ ask'[c].read = ask[c].read
  <2>1. CASE Ends(c)
    BY <1>0, <2>1, AskOver
  <2>2. CASE n \in pending /\ givenTo[n] = ask[c].plugin /\ Goes(c, "verify")
    BY <1>0, <2>2, AskTurns
  <2> QED  BY <1>0, <2>1, <2>2
<1>2. Cardinality(pending') <= MaxPending /\ pending' \subseteq pending
  <2>0. Len(givenTo) \in Nat /\ pending \subseteq 1 .. Len(givenTo)
    BY <1>0 DEF PluginTypeOK
  <2>1. IsFiniteSet(pending)
    <3>1. IsFiniteSet(1 .. Len(givenTo))
      BY <2>0, FS_Interval
    <3> QED  BY <2>0, <3>1, FS_Subset
  <2>2. Cardinality(pending') <= Cardinality(pending) /\ Cardinality(pending') \in Nat /\ Cardinality(pending) \in Nat
    BY <1>0, <2>1, FS_Subset, FS_CardinalityType
  <2> QED  BY <1>0, <2>2, PluginAssumption DEF PluginTypeOK
<1>3. PluginTypeOK'
  BY <1>0, <1>1, <1>2 DEF PluginTypeOK
<1>4. ASSUME NEW d \in Calls PROVE AskSound(d)'
  <2>1. CASE d = c
    BY <1>0, <1>1, <2>1 DEF AskSound
  <2>2. CASE d # c
    BY <1>0, <1>1, <2>2 DEF PlugInv, AskSound
  <2> QED  BY <2>1, <2>2
<1>5. \A d \in Calls \ {c}, w \in {"write", "verify"} : At(d, w)' => At(d, w) /\ ask'[d] = ask[d]
  BY <1>1 DEF At
<1>6. At(c, "verify")' => n \in pending /\ ask'[c].nonce = n
  BY <1>1 DEF At
<1>7. \A d \in Calls : At(d, "verify") => ask[d].nonce \notin pending
  BY DEF PlugInv, AskSound, At
<1>8. Spent'
  <2>1. \A i \in DOMAIN grants : grants[i].nonce \in 1 .. Len(givenTo) /\ grants[i].nonce \notin pending
    BY DEF PlugInv, Spent
  <2>2. \A d, e \in Calls : At(d, "verify")' /\ At(e, "verify")' /\ ask'[d].nonce = ask'[e].nonce => d = e
    BY <1>5, <1>6, <1>7 DEF PlugInv, Spent
  <2>3. \A i \in DOMAIN grants, d \in Calls : At(d, "verify")' => ask'[d].nonce # grants[i].nonce
    BY <1>5, <1>6, <2>1 DEF PlugInv, Spent
  <2> QED  BY <1>0, <2>1, <2>2, <2>3 DEF Spent
<1>9. NonceEarnsOne'
  BY <1>0 DEF PlugInv, NonceEarnsOne
<1>10. ASSUME NEW q \in Plugins \ raced' PROVE Stands(q)'
  <2>1. Stands(q)
    BY <1>0, <1>10 DEF PlugInv
  <2>2. \A d \in Calls : Registering(d, q)' => Registering(d, q)
    BY <1>1 DEF Registering
  <2>3. \A d \in Calls : At(d, "write")' => At(d, "write") /\ ask'[d] = ask[d]
    BY <1>1 DEF At
  <2> QED  BY <1>0, <2>1, <2>2, <2>3 DEF Stands
<1> QED  BY <1>0, <1>3, <1>4, <1>8, <1>9, <1>10 DEF PlugInv

(* A set of numbers that is not empty has a least one. *)
LEMMA Least == ASSUME NEW S, S \subseteq Nat, S # {} PROVE \E m \in S : \A n \in S : m <= n
<1>1. \E m \in S : \A n \in S : ~(<<n, m>> \in OpToRel(<, Nat))
  BY NatLessThanWellFounded, WFMin
<1>2. \A m, n \in Nat : ~(<<n, m>> \in OpToRel(<, Nat)) => m <= n
  BY DEF OpToRel
<1> QED  BY <1>1, <1>2

LEMMA IssueInv ==
    ASSUME PlugInv, NEW c \in Calls, Issue(c)
    PROVE  PlugInv'
<1> DEFINE swept == {n \in pending : Live(n)}
           kept  == IF Cardinality(swept) < MaxPending THEN swept
                    ELSE {n \in swept : \E m \in swept : m < n}
<1> PICK k \in Nat : k = Len(givenTo)
  BY DEF PlugInv, PluginTypeOK
<1>0. /\ PluginTypeOK /\ ask[c] # None /\ ask[c] \in Request /\ ask[c].at = "issue" /\ k < MaxNonces
      /\ pending' = kept \cup {k + 1} /\ givenTo' = Append(givenTo, ask[c].plugin) /\ Ends(c)
      /\ UNCHANGED <<keyFile, aged, asked, grants, told, raced>>
  BY DEF PlugInv, PluginTypeOK, Issue, At
<1>1. k = Len(givenTo) /\ k \in Nat /\ MaxNonces \in Nat /\ ask[c].plugin \in Plugins /\ pending \subseteq 1 .. k
  BY <1>0, PluginAssumption DEF PluginTypeOK, Request
<1>2. /\ givenTo' \in Seq(Plugins) /\ Len(givenTo') = k + 1 /\ \A n \in 1 .. k : givenTo'[n] = givenTo[n]
  BY <1>0, <1>1 DEF PluginTypeOK
<1>3. IsFiniteSet(kept) /\ Cardinality(kept) < MaxPending /\ kept \subseteq pending
  <2>1. IsFiniteSet(pending) /\ IsFiniteSet(swept) /\ Cardinality(swept) <= Cardinality(pending)
        /\ Cardinality(swept) \in Nat /\ Cardinality(pending) \in Nat
    <3>1. IsFiniteSet(1 .. k)
      BY <1>1, FS_Interval
    <3>2. IsFiniteSet(pending)
      BY <1>1, <3>1, FS_Subset
    <3>3. swept \in SUBSET pending
      OBVIOUS
    <3> QED  BY <3>2, <3>3, FS_Subset, FS_CardinalityType
  <2>2. CASE Cardinality(swept) < MaxPending
    BY <2>1, <2>2
  <2>3. CASE ~(Cardinality(swept) < MaxPending)
    <3>1. swept # {} /\ swept \subseteq Nat /\ Cardinality(swept) <= MaxPending /\ MaxPending \in Nat
      <4>1. Cardinality({}) = 0 /\ MaxPending \in Nat \ {0}
        BY FS_EmptySet, PluginAssumption
      <4>2. swept \subseteq Nat
        <5>1. swept \subseteq pending /\ \A n \in pending : n \in Nat
          BY <1>1
        <5> QED  BY <5>1
      <4>3. Cardinality(pending) <= MaxPending
        BY <1>0 DEF PluginTypeOK
      <4> HIDE DEF swept
      <4>4. swept # {}
        BY <2>3, <4>1
      <4> QED  BY <2>1, <4>1, <4>2, <4>3, <4>4
    <3> PICK m \in swept : \A n \in swept : m <= n
      BY <3>1, Least
    <3>2. IsFiniteSet(swept \ {m}) /\ Cardinality(swept \ {m}) = Cardinality(swept) - 1
      BY <2>1, FS_RemoveElement
    <3>3. kept \in SUBSET (swept \ {m})
      <4>1. \A n \in swept : ~(n < m)
        BY <3>1
      <4> QED  BY <2>3, <4>1
    <3>4. IsFiniteSet(kept) /\ Cardinality(kept) <= Cardinality(swept \ {m}) /\ Cardinality(kept) \in Nat
      BY <3>2, <3>3, FS_Subset, FS_CardinalityType
    <3> QED  BY <2>1, <3>1, <3>2, <3>3, <3>4
  <2> QED  BY <2>2, <2>3
<1> HIDE DEF kept, swept
<1>4. Cardinality(pending') <= MaxPending /\ pending' \subseteq 1 .. (k + 1)
  <2>0. pending' = kept \cup {k + 1}
    BY <1>0
  <2>1. Cardinality(kept) \in Nat
    BY <1>3, FS_CardinalityType
  <2>2. Cardinality(kept \cup {k + 1}) \in {Cardinality(kept), Cardinality(kept) + 1}
    BY <1>3, FS_AddElement
  <2>3. kept \cup {k + 1} \subseteq 1 .. (k + 1)
    <3>1. \A n \in kept : n \in 1 .. k
      BY <1>1, <1>3
    <3> QED  BY <3>1
  <2>4. Cardinality(kept \cup {k + 1}) <= MaxPending
    BY <1>3, <2>1, <2>2, PluginAssumption
  <2> QED  BY <2>0, <2>3, <2>4
<1>5. /\ ask' \in [Calls -> Request \cup {None}] /\ ask'[c] = None
      /\ \A d \in Calls \ {c} : ask'[d] = ask[d]
  BY <1>0, AskOver
<1>6. PluginTypeOK'
  BY <1>0, <1>2, <1>4, <1>5 DEF PluginTypeOK
<1>7. ASSUME NEW d \in Calls PROVE AskSound(d)'
  <2>1. CASE d = c
    BY <1>5, <2>1 DEF AskSound
  <2>2. CASE d # c
    <3>1. ask'[d] = ask[d] /\ AskSound(d)
      BY <1>5, <2>2 DEF PlugInv
    <3>2. \A n \in 1 .. k : n \in 1 .. (k + 1) /\ (n \notin pending => n \notin pending')
      BY <1>0, <1>1, <1>3
    <3>3. ask[d] # None /\ ask[d].at = "verify" => ask[d].op = "token" /\ ask[d].nonce \in 1 .. k
      BY <3>1 DEF AskSound
    <3> QED  BY <1>0, <1>2, <3>1, <3>2, <3>3 DEF AskSound
  <2> QED  BY <2>1, <2>2
<1>8. \A d \in Calls, w \in {"write", "verify"} : At(d, w)' => At(d, w) /\ ask'[d] = ask[d]
  BY <1>5 DEF At
<1>9. Spent'
  <2>1. \A i \in DOMAIN grants : grants[i].nonce \in 1 .. k /\ grants[i].nonce \notin pending
    BY DEF PlugInv, Spent
  <2>2. \A n \in 1 .. k : n \in 1 .. (k + 1) /\ (n \notin pending => n \notin pending')
    BY <1>0, <1>1, <1>3
  <2> QED  BY <1>0, <1>2, <1>8, <2>1, <2>2 DEF PlugInv, Spent
<1>10. NonceEarnsOne'
  <2>1. \A i \in DOMAIN grants : grants[i].nonce \in 1 .. k
    BY DEF PlugInv, Spent
  <2> QED  BY <1>0, <1>2, <2>1 DEF PlugInv, NonceEarnsOne
<1>11. ASSUME NEW q \in Plugins \ raced' PROVE Stands(q)'
  <2>1. Stands(q)
    BY <1>0, <1>11 DEF PlugInv
  <2>2. \A d \in Calls : Registering(d, q)' => Registering(d, q)
    BY <1>5 DEF Registering
  <2> QED  BY <1>0, <1>8, <2>1, <2>2 DEF Stands
<1> QED  BY <1>0, <1>1, <1>2, <1>6, <1>7, <1>9, <1>10, <1>11 DEF PlugInv

LEMMA VerifyInv ==
    ASSUME PlugInv, NEW c \in Calls, Verify(c)
    PROVE  PlugInv'
<1>0. /\ PluginTypeOK /\ ask[c] # None /\ ask[c] \in Request /\ ask[c].at = "verify" /\ AskSound(c)
      /\ Ends(c) /\ UNCHANGED <<keyFile, pending, aged, asked, givenTo, told, raced>>
  BY DEF PlugInv, PluginTypeOK, Verify, At
<1>1. /\ ask' \in [Calls -> Request \cup {None}] /\ ask'[c] = None
      /\ \A d \in Calls \ {c} : ask'[d] = ask[d]
  BY <1>0, AskOver
<1> DEFINE g == [nonce |-> ask[c].nonce, plugin |-> ask[c].plugin, signer |-> ask[c].key]
           G == [nonce : Nonces, plugin : Plugins, signer : Keys]
<1>2. grants \in Seq(G) /\ (grants' = grants \/ (grants' = Append(grants, g) /\ ask[c].key = ask[c].read))
  BY <1>0 DEF PluginTypeOK, Verify, Grants
<1>3. /\ ask[c].nonce \in 1 .. Len(givenTo) /\ ask[c].nonce \notin pending
      /\ givenTo[ask[c].nonce] = ask[c].plugin /\ ask[c].read \in told[ask[c].plugin]
      /\ ask[c].plugin \in Plugins /\ ask[c].nonce \in Nonces
  <2>1. Len(givenTo) \in Nat /\ Len(givenTo) <= MaxNonces /\ MaxNonces \in Nat
    BY <1>0, PluginAssumption DEF PlugInv, PluginTypeOK
  <2> QED  BY <1>0, <2>1 DEF AskSound, Request, Nonces
<1>4. ask[c].key = ask[c].read => g \in G
  BY <1>0, <1>3 DEF PluginTypeOK
<1>5. grants' \in Seq(G) /\ \A i \in DOMAIN grants' :
          \/ i \in DOMAIN grants /\ grants'[i] = grants[i]
          \/ i = Len(grants) + 1 /\ grants'[i] = g /\ ask[c].key = ask[c].read
  <2> HIDE DEF g, G
  <2> QED  BY <1>2, <1>4
<1>6. PluginTypeOK'
  BY <1>0, <1>1, <1>5 DEF PluginTypeOK
<1>7. \A d \in Calls : AskSound(d)'
  BY <1>0, <1>1 DEF PlugInv, AskSound
<1>8. \A d \in Calls, w \in {"write", "verify"} : At(d, w)' => At(d, w) /\ ask'[d] = ask[d] /\ d # c
  BY <1>1 DEF At
<1>9. /\ g.nonce = ask[c].nonce /\ g.plugin = ask[c].plugin /\ g.signer = ask[c].key /\ At(c, "verify")
  BY <1>0 DEF At
<1> HIDE DEF g, G
<1>10. Spent'
  <2>1. \A i \in DOMAIN grants' : grants'[i].nonce \in 1 .. Len(givenTo) /\ grants'[i].nonce \notin pending
    BY <1>3, <1>5, <1>9 DEF PlugInv, Spent
  <2>2. \A d, e \in Calls : At(d, "verify")' /\ At(e, "verify")' /\ ask'[d].nonce = ask'[e].nonce => d = e
    BY <1>8 DEF PlugInv, Spent
  <2>3. \A i \in DOMAIN grants', d \in Calls : At(d, "verify")' => ask'[d].nonce # grants'[i].nonce
    BY <1>5, <1>8, <1>9 DEF PlugInv, Spent
  <2> QED  BY <1>0, <2>1, <2>2, <2>3 DEF Spent
<1>11. NonceEarnsOne'
  <2>1. \A i, j \in DOMAIN grants' : grants'[i].nonce = grants'[j].nonce => i = j
    BY <1>5, <1>9 DEF PlugInv, Spent, NonceEarnsOne
  <2>2. \A i \in DOMAIN grants' : givenTo[grants'[i].nonce] = grants'[i].plugin /\ grants'[i].signer \in told[grants'[i].plugin]
    BY <1>3, <1>5, <1>9 DEF PlugInv, NonceEarnsOne
  <2> QED  BY <1>0, <2>1, <2>2 DEF NonceEarnsOne
<1>12. ASSUME NEW q \in Plugins \ raced' PROVE Stands(q)'
  <2>1. Stands(q)
    BY <1>0, <1>12 DEF PlugInv
  <2>2. \A d \in Calls : Registering(d, q)' => Registering(d, q)
    BY <1>1 DEF Registering
  <2> QED  BY <1>0, <1>8, <2>1, <2>2 DEF Stands
<1> QED  BY <1>0, <1>6, <1>7, <1>10, <1>11, <1>12 DEF PlugInv

LEMMA AgesInv == ASSUME PlugInv, Ages PROVE PlugInv'
<1>1. /\ PluginTypeOK /\ aged < Len(givenTo) /\ aged' = aged + 1
      /\ UNCHANGED <<keyFile, pending, asked, ask, givenTo, grants, told, raced>>
  BY DEF PlugInv, Ages
<1>2. aged' \in 0 .. MaxNonces
  <2>1. Len(givenTo) \in Nat /\ Len(givenTo) <= MaxNonces /\ MaxNonces \in Nat /\ aged \in Nat
    BY <1>1, PluginAssumption DEF PlugInv, PluginTypeOK
  <2> QED  BY <1>1, <2>1
<1>3. PluginTypeOK'
  BY <1>1, <1>2 DEF PluginTypeOK
<1> QED  BY <1>1, <1>3 DEF PlugInv, AskSound, Spent, NonceEarnsOne, Stands, At, Registering

LEMMA PluginRestartInv == ASSUME PlugInv, PluginRestart PROVE PlugInv'
<1>1. /\ PluginTypeOK /\ ask' = [c \in Calls |-> None] /\ pending' = {} /\ (\A c \in Calls : ask'[c] = None)
      /\ UNCHANGED <<keyFile, aged, asked, givenTo, grants, told, raced>>
  BY DEF PlugInv, PluginRestart
<1>2. Cardinality(pending') <= MaxPending
  BY <1>1, FS_EmptySet, PluginAssumption
<1>3. PluginTypeOK'
  BY <1>1, <1>2 DEF PluginTypeOK
<1>4. Spent' /\ NonceEarnsOne'
  BY <1>1 DEF PlugInv, Spent, NonceEarnsOne, At
<1> QED  BY <1>1, <1>3, <1>4 DEF PlugInv, AskSound, Stands, At, Registering

LEMMA PluginStays ==
    ASSUME PlugInv, UNCHANGED pluginState, asked' \in 0 .. MaxAsked
    PROVE  PlugInv'
<1>1. UNCHANGED <<keyFile, pending, aged, ask, givenTo, grants, told, raced>>
  BY DEF pluginState
<1>2. PluginTypeOK'
  BY <1>1 DEF PlugInv, PluginTypeOK
<1> QED  BY <1>1, <1>2 DEF PlugInv, AskSound, Spent, NonceEarnsOne, Stands, At, Registering

-----------------------------------------------------------------------------
(* The robot. *)

(* The inductive invariant: both parts', and no request without the process. *)
Inv == PairInv /\ PlugInv /\ (~up => \A c \in Calls : ask[c] = None)

LEMMA NextInv == Inv /\ [Next]_<<pairingState, pluginState, asked>> => Inv'
<1> SUFFICES ASSUME Inv, [Next]_<<pairingState, pluginState, asked>> PROVE Inv'
  OBVIOUS
<1>1. CASE (Start \/ Pair \/ DeleteSession \/ RefreshSession \/ FileChanges) /\ UNCHANGED pluginState
  <2>1. PairInv'
    BY <1>1, StartPairing, RequestsPairing, FilePairing DEF Inv
  <2>2. asked' \in 0 .. MaxAsked /\ ask' = ask
    BY <1>1, <2>1 DEF PairInv, PairingTypeOK, pluginState
  <2>3. ~up' => ~up
    BY <1>1 DEF Start, Pair, DeleteSession, RefreshSession, FileChanges, memory, Inv
  <2> QED  BY <1>1, <2>1, <2>2, <2>3, PluginStays DEF Inv
<1>2. CASE Crash /\ PluginRestart
  <2>1. \A c \in Calls : ask'[c] = None
    BY <1>2 DEF PluginRestart
  <2> QED  BY <1>2, <2>1, CrashPairing, PluginRestartInv DEF Inv
<1>3. CASE Ages /\ UNCHANGED pairingState
  <2>1. PlugInv' /\ asked' \in 0 .. MaxAsked /\ ask' = ask /\ up' = up
    BY <1>3, AgesInv DEF Inv, PlugInv, PluginTypeOK, Ages, pairingState
  <2> QED  BY <1>3, <2>1, PairingStays DEF Inv
<1>4. ASSUME NEW c \in Calls, up, PluginStep(c), UNCHANGED pairingState PROVE Inv'
  <2>1. PlugInv'
    BY <1>4, PluginAsksInv, RegisterReadsInv, RegisterWritesInv, ReadKeyInv, IssueInv, ConsumeInv DEF Inv, PluginStep
  <2>2. asked' \in 0 .. MaxAsked /\ up'
    BY <1>4, <2>1 DEF PlugInv, PluginTypeOK, pairingState
  <2> QED  BY <1>4, <2>1, <2>2, PairingStays DEF Inv
<1>5. ASSUME NEW c \in Calls, up, Grant(c) PROVE Inv'
  <2>1. PlugInv' /\ UNCHANGED <<disk, drawn, memory, history>> /\ up'
    BY <1>5, VerifyInv DEF Inv, Grant, memory
  <2>2. asked' \in 0 .. MaxAsked
    BY <2>1 DEF PlugInv, PluginTypeOK
  <2>3. \A t \in tokens' : t \in tokens \/ t = [signed |-> signing, session |-> session]
    BY <1>5 DEF Grant
  <2> QED  BY <1>5, <2>1, <2>2, <2>3, SignedPairing DEF Inv
<1>6. CASE UNCHANGED <<pairingState, pluginState, asked>>
  <2>1. asked' \in 0 .. MaxAsked /\ ask' = ask /\ up' = up
    BY <1>6 DEF Inv, PairInv, PairingTypeOK, pairingState, pluginState
  <2> QED  BY <1>6, <2>1, PairingStays, PluginStays DEF Inv
<1> QED  BY <1>1, <1>2, <1>3, <1>4, <1>5, <1>6 DEF Next

(* The invariant of the robot's authentication. *)
THEOREM DeviceAuthInvariant == Spec => []Inv
<1>1. Init => Inv
  BY PairInit, PlugInit DEF Init, Inv, PluginInit
<1> QED  BY <1>1, NextInv, PTL DEF Spec

(* Every variable of pairing and plugin authentication keeps its type, the      *)
(* challenge store keeps its limit, and no request outlives the process.      *)
THEOREM DeviceAuthTypeCorrect == Spec => []TypeOK
<1>1. Inv => TypeOK
  BY DEF Inv, PairInv, PlugInv, TypeOK
<1> QED  BY <1>1, DeviceAuthInvariant, PTL

(* An ended session's tokens are worth nothing, over restarts too, unless the    *)
(* rotation that ended it could not be written.                              *)
THEOREM SessionsEndAlways == Spec => []SessionsEnd
<1>1. Inv => SessionsEnd
  BY DEF Inv, PairInv, Ended, SessionsEnd, Accepted
<1> QED  BY <1>1, DeviceAuthInvariant, PTL

(* The code that pairs is the one shown at the start. *)
THEOREM ShownCodePairsAlways == Spec => []ShownCodePairs
<1>1. Inv => ShownCodePairs
  BY DEF Inv, PairInv, Shown, ShownCodePairs, Active
<1> QED  BY <1>1, DeviceAuthInvariant, PTL

(* A nonce earns one token at most, for its plugin, on a registered key. *)
THEOREM NonceEarnsOneAlways == Spec => []NonceEarnsOne
<1>1. Inv => NonceEarnsOne
  BY DEF Inv, PlugInv
<1> QED  BY <1>1, DeviceAuthInvariant, PTL

(* A key reported as stored is the one that is stored, unless registrations of   *)
(* the plugin overlapped or one failed to read the stored key.                *)
THEOREM KeyStandsAlways == Spec => []KeyStands
<1>1. Inv => KeyStands
  BY DEF Inv, PlugInv, Stands, KeyStands
<1> QED  BY <1>1, DeviceAuthInvariant, PTL
=============================================================================
