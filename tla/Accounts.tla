------------------------------- MODULE Accounts -------------------------------
(***************************************************************************)
(* One account of the central server: its password and its refresh tokens   *)
(* (auth.py, auth_routes.py, user_store.py, token_store.py).                  *)
(*                                                                          *)
(* A request is a coroutine and every database statement an await, so        *)
(* requests interleave between any two statements.  A statement that only   *)
(* reads what no other request can change (the count before a delete, the   *)
(* user after a refresh, the last login) is left out.                       *)
(***************************************************************************)
EXTENDS Integers, Sequences, FiniteSets

CONSTANTS
    Calls,       \* requests under way at once, at most
    Words,       \* passwords
    None,        \* Python's None
    MaxRequests, \* bound: requests in one behaviour
    MaxTokens    \* bound: refresh tokens issued in one behaviour

Tokens == 1 .. MaxTokens

ASSUME AccountsAssumption ==
    MaxRequests \in Nat /\ MaxTokens \in Nat \ {0} /\ None \notin Words \cup Nat

VARIABLES
    users,   \* the password of each User row with the account's email
    issued,  \* history: the refresh tokens issued
    live,    \* those with a row in the token store
    expired, \* those past their expires_at
    req,     \* [Calls -> the request]
    begun,   \* requests begun
    epoch,   \* history: how often the password was set
    settled, \* history: the epoch of the latest password change to revoke
    forked,  \* history: sessions in which two requests used one token at once
    ended    \* history: sessions logged out of

accountVars == <<users, issued, live, expired, req, begun, epoch, settled, forked, ended>>

(* A session is what one login or registration began, and is named after     *)
(* its first token; basis is the epoch its password was checked in, and a    *)
(* token is late if its request was under way while a change revoked.        *)
Token == [session : Tokens, basis : Nat, late : BOOLEAN]

Request == [op : {"register", "login", "refresh", "logout", "change"},
            at : {"exists", "again", "insert", "verify", "find", "delete", "store",
                  "set", "tally", "wipe"},
            word : Words \cup {None}, token : Tokens \cup {None},
            session : Tokens \cup {None}, basis : Nat, late : BOOLEAN]

(* Type correctness of the two stores and the requests. *)
AccountsTypeOK ==
    /\ users \in Seq(Words)
    /\ issued \in Seq(Token) /\ Len(issued) <= MaxTokens
    /\ live \subseteq DOMAIN issued /\ expired \subseteq DOMAIN issued
    /\ req \in [Calls -> Request \cup {None}]
    /\ begun \in 0 .. MaxRequests
    /\ epoch \in Nat /\ settled \in 0 .. epoch
    /\ forked \subseteq Tokens /\ ended \subseteq Tokens

(* The account does not exist yet, or has one session. *)
AccountsInit ==
    /\ \/ users = <<>> /\ issued = <<>> /\ live = {}
       \/ /\ \E w \in Words : users = <<w>>
          /\ issued = <<[session |-> 1, basis |-> 0, late |-> FALSE]>> /\ live = {1}
    /\ expired = {} /\ forked = {} /\ ended = {}
    /\ epoch = 0 /\ settled = 0 /\ begun = 0
    /\ req = [c \in Calls |-> None]

Begins(c, op, at, word, token) ==
    /\ req[c] = None /\ begun < MaxRequests
    /\ begun' = begun + 1
    /\ req' = [req EXCEPT ![c] = [op |-> op, at |-> at, word |-> word, token |-> token,
                  session |-> IF token = None THEN None ELSE issued[token].session,
                  basis |-> IF token = None THEN 0 ELSE issued[token].basis,
                  late |-> IF token = None THEN FALSE ELSE issued[token].late]]

At(c, where) == req[c] # None /\ req[c].at = where
Goes(c, where) == req' = [req EXCEPT ![c].at = where]
Ends(c) == req' = [req EXCEPT ![c] = None]

-----------------------------------------------------------------------------
(* Registration. *)

Register(c) == \E w \in Words :
    /\ Begins(c, "register", "exists", w, None)
    /\ UNCHANGED <<users, issued, live, expired, epoch, settled, forked, ended>>

(* The service asks whether the email is taken, and the store asks again. *)
Exists(c) ==
    /\ At(c, "exists") \/ At(c, "again")
    /\ IF users # <<>> THEN Ends(c) ELSE Goes(c, IF req[c].at = "exists" THEN "again" ELSE "insert")
    /\ UNCHANGED <<begun, users, issued, live, expired, epoch, settled, forked, ended>>

Insert(c) ==
    /\ At(c, "insert")
    /\ users' = Append(users, req[c].word)
    /\ req' = [req EXCEPT ![c].at = "store", ![c].basis = epoch]
    /\ UNCHANGED <<begun, issued, live, expired, epoch, settled, forked, ended>>

-----------------------------------------------------------------------------
(* Login, and the tokens that a registration, a login or a refresh issues. *)

Login(c) == \E w \in Words :
    /\ Begins(c, "login", "verify", w, None)
    /\ UNCHANGED <<users, issued, live, expired, epoch, settled, forked, ended>>

Knows(c) == users # <<>> /\ users[1] = req[c].word

Authenticate(c) ==
    /\ At(c, "verify") /\ req[c].op = "login"
    /\ IF Knows(c) THEN req' = [req EXCEPT ![c].at = "store", ![c].basis = epoch] ELSE Ends(c)
    /\ UNCHANGED <<begun, users, issued, live, expired, epoch, settled, forked, ended>>

StoreToken(c) ==
    /\ At(c, "store") /\ Len(issued) < MaxTokens
    /\ LET n == Len(issued) + 1
           s == IF req[c].session = None THEN n ELSE req[c].session
       IN  /\ issued' = Append(issued, [session |-> s, basis |-> req[c].basis, late |-> req[c].late])
           /\ live' = live \cup {n}
    /\ Ends(c)
    /\ UNCHANGED <<begun, users, expired, epoch, settled, forked, ended>>

-----------------------------------------------------------------------------
(* Refresh and logout. *)

(* Another request has found this one's token and not yet deleted it. *)
Shared(c) == \E d \in Calls \ {c} : At(d, "delete") /\ req[d].token = req[c].token

Refresh(c) == \E t \in DOMAIN issued :
    /\ Begins(c, "refresh", "find", None, t)
    /\ UNCHANGED <<users, issued, live, expired, epoch, settled, forked, ended>>

(* get_email: an expired token is deleted on sight. *)
Find(c) ==
    /\ At(c, "find")
    /\ LET t == req[c].token IN
       /\ IF t \in live \ expired THEN Goes(c, "delete") ELSE Ends(c)
       /\ live' = IF t \in expired THEN live \ {t} ELSE live
       /\ forked' = IF Shared(c) THEN forked \cup {req[c].session} ELSE forked
    /\ UNCHANGED <<begun, users, issued, expired, epoch, settled, ended>>

Logout(c) == \E t \in DOMAIN issued :
    /\ Begins(c, "logout", "delete", None, t)
    /\ UNCHANGED <<users, issued, live, expired, epoch, settled, ended>>
    /\ forked' = IF \E d \in Calls \ {c} : At(d, "delete") /\ req[d].token = t
                 THEN forked \cup {issued[t].session} ELSE forked

(* Slip: the new token is stored before the old one is deleted. *)
DeleteLater(c) ==
    /\ At(c, "delete")
    /\ live' = IF req[c].op = "refresh" THEN live ELSE live \ {req[c].token}
    /\ ended' = IF req[c].op = "logout" /\ req[c].token \in live
                THEN ended \cup {req[c].session} ELSE ended
    /\ IF req[c].op = "refresh" THEN Goes(c, "store") ELSE Ends(c)
    /\ UNCHANGED <<begun, users, issued, expired, epoch, settled, forked>>

(* delete_token; whether there still was a row to delete is not asked. *)
DeleteToken(c) ==
    /\ At(c, "delete")
    /\ live' = live \ {req[c].token}
    /\ ended' = IF req[c].op = "logout" /\ req[c].token \in live
                THEN ended \cup {req[c].session} ELSE ended
    /\ IF req[c].op = "refresh" THEN Goes(c, "store") ELSE Ends(c)
    /\ UNCHANGED <<begun, users, issued, expired, epoch, settled, forked>>

-----------------------------------------------------------------------------
(* Changing the password. *)

Change(c) == \E w \in Words :
    /\ Begins(c, "change", "verify", w, None)
    /\ UNCHANGED <<users, issued, live, expired, epoch, settled, forked, ended>>

Verify(c) ==
    /\ At(c, "verify") /\ req[c].op = "change"
    /\ IF Knows(c) THEN Goes(c, "set") ELSE Ends(c)
    /\ UNCHANGED <<begun, users, issued, live, expired, epoch, settled, forked, ended>>

(* Every row of the email gets the new password. *)
SetPassword(c) == \E w \in Words :
    /\ At(c, "set")
    /\ users' = [i \in DOMAIN users |-> w]
    /\ epoch' = epoch + 1
    /\ req' = [req EXCEPT ![c].at = "tally", ![c].basis = epoch + 1]
    /\ UNCHANGED <<begun, issued, live, expired, settled, forked, ended>>

(* The tokens are revoked here: what is under way may still store one. *)
Revokes(c) ==
    /\ settled' = IF req[c].basis > settled THEN req[c].basis ELSE settled
    /\ req' = [d \in Calls |-> IF d = c \/ req[d] = None THEN None
                               ELSE [req[d] EXCEPT !.late = TRUE]]

(* Slip: the tokens are counted, and deleted, only past the first. *)
TallyMany(c) ==
    /\ At(c, "tally")
    /\ IF Cardinality(live) <= 1 THEN Revokes(c) ELSE Goes(c, "wipe") /\ UNCHANGED settled
    /\ UNCHANGED <<begun, users, issued, live, expired, epoch, forked, ended>>

(* delete_tokens_for_user counts the account's tokens, then deletes them. *)
Tally(c) ==
    /\ At(c, "tally")
    /\ IF live = {} THEN Revokes(c) ELSE Goes(c, "wipe") /\ UNCHANGED settled
    /\ UNCHANGED <<begun, users, issued, live, expired, epoch, forked, ended>>

Wipe(c) ==
    /\ At(c, "wipe")
    /\ live' = {}
    /\ Revokes(c)
    /\ UNCHANGED <<begun, users, issued, expired, epoch, forked, ended>>

-----------------------------------------------------------------------------
Expire == \E t \in live \ expired :
    /\ expired' = expired \cup {t}
    /\ UNCHANGED <<begun, users, issued, live, req, epoch, settled, forked, ended>>

(* A statement fails and with it the request; what it did stays. *)
StatementFails(c) ==
    /\ req[c] # None
    /\ Ends(c)
    /\ UNCHANGED <<begun, users, issued, live, expired, epoch, settled, forked, ended>>

Begin(c) == Register(c) \/ Login(c) \/ Refresh(c) \/ Logout(c) \/ Change(c)

Proceed(c) ==
    \/ Exists(c) \/ Insert(c) \/ Authenticate(c) \/ StoreToken(c) \/ Find(c) \/ DeleteToken(c)
    \/ Verify(c) \/ SetPassword(c) \/ Tally(c) \/ Wipe(c) \/ StatementFails(c)

InSession(s) == {t \in live : issued[t].session = s}

(* Safety: a session has one refresh token at most, and none once it was     *)
(* logged out of, unless two of its requests used one token at once: a used  *)
(* token is dead (refresh_token's find, delete and store).                    *)
OneTokenPerSession == \A s \in Tokens \ forked :
    Cardinality(InSession(s)) <= (IF s \in ended THEN 0 ELSE 1)

(* Safety: once a password change has revoked, every refresh token rests on  *)
(* a password checked since it was set, or was issued by a request that was  *)
(* under way at that moment, or descends from one (change_password sets the   *)
(* password before it revokes).                                              *)
ChangeEndsSessions == \A t \in live : issued[t].basis >= settled \/ issued[t].late
=============================================================================
