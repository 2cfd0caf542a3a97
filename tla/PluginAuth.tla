------------------------------ MODULE PluginAuth ------------------------------
(***************************************************************************)
(* Authentication of the autonomy plugins (plugin_auth.py,                   *)
(* plugin_auth_routes.py): one key file per plugin, written by registration,   *)
(* and single-use nonces that a plugin signs for a token.                    *)
(*                                                                          *)
(* Files are read and written, and signatures verified, in worker threads;   *)
(* the nonces are touched on the event loop only.                            *)
(***************************************************************************)
EXTENDS Integers, Sequences, FiniteSets

CONSTANTS
    Calls,      \* requests under way at once, at most
    Plugins,    \* plugin names
    Keys,       \* Ed25519 keys
    None,       \* Python's None
    MaxPending, \* the challenge store's max_outstanding
    MaxNonces,  \* bound: nonces issued
    MaxAsked    \* bound: requests made

VARIABLES
    keyFile, \* [Plugins -> the key in the plugin's file]
    pending, \* the outstanding nonces; they expire in the order of their numbers
    aged,    \* nonces up to this one are past their expiry
    asked,   \* requests made
    ask,     \* [Calls -> the request]
    givenTo, \* history: the plugin each nonce was issued to
    grants,  \* history: the tokens granted
    told,    \* history: [Plugins -> the keys a registration reported as stored]
    raced    \* history: plugins of which a registration overlapped another, or
             \* did not see the key that is stored

pluginVars == <<keyFile, pending, aged, asked, ask, givenTo, grants, told, raced>>

Nonces == 1 .. MaxNonces

Request == [op : {"register", "challenge", "token"}, at : {"read", "write", "issue", "consume", "verify"},
            plugin : Plugins, key : Keys \cup {None}, nonce : Nonces \cup {None}, read : Keys \cup {None}]

(* Type correctness; no more nonces are outstanding than the store may hold. *)
PluginTypeOK ==
    /\ keyFile \in [Plugins -> Keys \cup {None}]
    /\ pending \subseteq 1 .. Len(givenTo) /\ Cardinality(pending) <= MaxPending
    /\ aged \in 0 .. MaxNonces /\ asked \in 0 .. MaxAsked
    /\ ask \in [Calls -> Request \cup {None}]
    /\ givenTo \in Seq(Plugins)
    /\ grants \in Seq([nonce : Nonces, plugin : Plugins, signer : Keys])
    /\ told \in [Plugins -> SUBSET Keys] /\ raced \subseteq Plugins

PluginInit ==
    /\ keyFile \in [Plugins -> {None}]
    /\ pending = {} /\ aged = 0 /\ asked = 0
    /\ ask = [c \in Calls |-> None]
    /\ givenTo = <<>> /\ grants = <<>>
    /\ told = [p \in Plugins |-> {}] /\ raced = {}

At(c, where) == ask[c] # None /\ ask[c].at = where
Goes(c, where) == ask' = [ask EXCEPT ![c].at = where]
Ends(c) == ask' = [ask EXCEPT ![c] = None]

Registering(c, p) == ask[c] # None /\ ask[c].op = "register" /\ ask[c].plugin = p

(* A registration, a challenge, or a token request whose nonce some key has   *)
(* signed; each reads the plugin's key first.                                *)
PluginAsks(c) == \E op \in {"register", "challenge", "token"}, p \in Plugins, k \in Keys \cup {None}, n \in 0 .. Len(givenTo) :
    /\ ask[c] = None /\ asked < MaxAsked /\ asked' = asked + 1
    /\ (op = "token") = (n > 0) /\ (op = "challenge") = (k = None)
    /\ ask' = [ask EXCEPT ![c] = [op |-> op, at |-> "read", plugin |-> p, key |-> k, read |-> None,
                  nonce |-> IF n = 0 THEN None ELSE n]]
    /\ raced' = IF op = "register" /\ \E d \in Calls \ {c} : Registering(d, p) THEN raced \cup {p} ELSE raced
    /\ UNCHANGED <<keyFile, pending, aged, givenTo, grants, told>>

(* get_public_key: an error, or a file that holds no key, reads as no key.   *)
Reads(c, k) == k \in {keyFile[ask[c].plugin], None}

(* Slip: a registered key is replaced by whatever key is registered next. *)
RegisterOver(c) == \E k \in Keys \cup {None} :
    /\ At(c, "read") /\ ask[c].op = "register" /\ Reads(c, k)
    /\ Goes(c, "write")
    /\ UNCHANGED <<told, raced, keyFile, pending, aged, asked, givenTo, grants>>

(* PluginKeyStore.register reads the key that is stored and compares. *)
RegisterReads(c) == \E k \in Keys \cup {None} :
    /\ At(c, "read") /\ ask[c].op = "register" /\ Reads(c, k)
    /\ LET p == ask[c].plugin IN
       /\ IF k = None THEN Goes(c, "write") ELSE Ends(c)
       /\ told' = IF k = ask[c].key THEN [told EXCEPT ![p] = @ \cup {k}] ELSE told
       /\ raced' = IF k # keyFile[p] THEN raced \cup {p} ELSE raced
    /\ UNCHANGED <<keyFile, pending, aged, asked, givenTo, grants>>

(* It writes the new key; the write may fail. *)
RegisterWrites(c) ==
    /\ At(c, "write")
    /\ LET p == ask[c].plugin IN
       \/ /\ keyFile' = [keyFile EXCEPT ![p] = ask[c].key]
          /\ told' = [told EXCEPT ![p] = @ \cup {ask[c].key}]
       \/ UNCHANGED <<keyFile, told>>
    /\ Ends(c)
    /\ UNCHANGED <<pending, aged, asked, givenTo, grants, raced>>

(* challenge and token read the key and refuse an unknown plugin. *)
ReadKey(c) == \E k \in Keys \cup {None} :
    /\ At(c, "read") /\ ask[c].op # "register" /\ Reads(c, k)
    /\ IF k = None THEN Ends(c)
       ELSE IF ask[c].op = "challenge" THEN Goes(c, "issue")
       ELSE ask' = [ask EXCEPT ![c].at = "consume", ![c].read = k]
    /\ UNCHANGED <<keyFile, pending, aged, asked, givenTo, grants, told, raced>>

Live(n) == n > aged

(* issue: what has expired is swept, and at the limit the nonce that would    *)
(* expire first is given up.                                                 *)
Issue(c) ==
    /\ At(c, "issue") /\ Len(givenTo) < MaxNonces
    /\ LET swept == {n \in pending : Live(n)}
           kept  == IF Cardinality(swept) < MaxPending THEN swept
                    ELSE {n \in swept : \E m \in swept : m < n}
       IN  pending' = kept \cup {Len(givenTo) + 1}
    /\ givenTo' = Append(givenTo, ask[c].plugin)
    /\ Ends(c)
    /\ UNCHANGED <<keyFile, aged, asked, grants, told, raced>>

(* Slip: the nonce is looked up and left in the store. *)
ConsumePeeks(c) ==
    /\ At(c, "consume")
    /\ LET n == ask[c].nonce IN
       IF n \in pending /\ Live(n) /\ givenTo[n] = ask[c].plugin THEN Goes(c, "verify") ELSE Ends(c)
    /\ UNCHANGED <<keyFile, pending, aged, asked, givenTo, grants, told, raced>>

(* consume: whatever the answer, the nonce is gone. *)
Consume(c) ==
    /\ At(c, "consume")
    /\ LET n == ask[c].nonce IN
       /\ IF n \in pending /\ Live(n) /\ givenTo[n] = ask[c].plugin THEN Goes(c, "verify") ELSE Ends(c)
       /\ pending' = pending \ {n}
    /\ UNCHANGED <<keyFile, aged, asked, givenTo, grants, told, raced>>

(* The signature is verified with the key read at first, and a token granted. *)
Grants(c) == At(c, "verify") /\ ask[c].key = ask[c].read

Verify(c) ==
    /\ At(c, "verify")
    /\ grants' = IF Grants(c)
                 THEN Append(grants, [nonce |-> ask[c].nonce, plugin |-> ask[c].plugin, signer |-> ask[c].key])
                 ELSE grants
    /\ Ends(c)
    /\ UNCHANGED <<keyFile, pending, aged, asked, givenTo, told, raced>>

(* Time passes and the oldest nonce that is live expires. *)
Ages ==
    /\ aged < Len(givenTo) /\ aged' = aged + 1
    /\ UNCHANGED <<keyFile, pending, asked, ask, givenTo, grants, told, raced>>

(* The process ends; the key files stay. *)
PluginRestart ==
    /\ ask' = [c \in Calls |-> None] /\ pending' = {}
    /\ UNCHANGED <<keyFile, aged, asked, givenTo, grants, told, raced>>

PluginStep(c) == PluginAsks(c) \/ RegisterReads(c) \/ RegisterWrites(c) \/ ReadKey(c) \/ Issue(c) \/ Consume(c)

(* Safety: a nonce earns one token at most, for the plugin it was issued to,  *)
(* on the signature of a key that was registered for that plugin, however     *)
(* the requests interleave (consume before verify_signature).                *)
NonceEarnsOne ==
    /\ \A i, j \in DOMAIN grants : grants[i].nonce = grants[j].nonce => i = j
    /\ \A i \in DOMAIN grants :
          /\ givenTo[grants[i].nonce] = grants[i].plugin
          /\ grants[i].signer \in told[grants[i].plugin]

(* Safety: a key that a registration reported as stored is the one that is    *)
(* stored (register: KeyConflict), unless two registrations of the plugin      *)
(* overlapped or one failed to read the key it would have conflicted with.   *)
KeyStands == \A p \in Plugins \ raced : told[p] \subseteq {keyFile[p]}
=============================================================================
