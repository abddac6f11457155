--------------------------------- MODULE Auth ---------------------------------
(***************************************************************************)
(* Accounts, access tokens and API keys: the endpoints of api/v2/auth.py,  *)
(* the two dependencies that authenticate a request (auth/dependencies.py) *)
(* and the tables users and api_keys with their unique columns.            *)
(*                                                                         *)
(* Handlers run in a pool of threads, each with a session of its own, and  *)
(* every statement of theirs is a transaction, so they interleave between  *)
(* statements.  A password hash is the password, the hash of a key is the  *)
(* key, and a token is its payload: Argon2, SHA-256 and HS256 are external.*)
(***************************************************************************)
EXTENDS Naturals

CONSTANTS
    Requests,      \* handlers at work at the same time
    Emails,        \* e-mail addresses; an account is named by its address
    Passwords,
    Keys,          \* raw keys that token_urlsafe() may return
    LIFETIME,      \* JWT_ACCESS_TOKEN_EXPIRE_HOURS
    LAST_HOUR,     \* bound on the clock
    MAX_RESTARTS,  \* bound on the restarts of the server
    Anonymous,     \* the sentinel user of ENABLE_AUTH = False
    None

User == Emails \cup {Anonymous}
Token == [sub : Emails, exp : 0..LAST_HOUR + LIFETIME]

\* Rows of the tables users and api_keys.
UserRow == [password : Passwords, is_active : BOOLEAN]
KeyRow == [owner : User, revoked : BOOLEAN]

ASSUME AuthAssumption ==
    /\ LIFETIME \in Nat \ {0} /\ LAST_HOUR \in Nat /\ MAX_RESTARTS \in Nat
    /\ Anonymous \notin Emails
    /\ None \notin User \cup Passwords \cup Keys \cup UserRow \cup KeyRow

VARIABLES
    users,         \* the row of each address: [password, is_active], or None
    api_keys,      \* the row of each key: [owner, revoked], or None
    hour,          \* the clock
    ENABLE_AUTH,   \* the setting this run of the server has
    restarts

VARIABLES
    request,       \* what each handler is at
    tokens,        \* the tokens clients have been given
    told,          \* history: keys of which a client was told that they are revoked
    registered     \* history: the password with which a 201 for an address was answered

tables == <<users, api_keys>>
vars == <<tables, hour, ENABLE_AUTH, restarts, request, tokens, told, registered>>

\* user: the account the request was authenticated as; late: the keys known to be
\* revoked when it arrived; by: the key or token it came with.
Free == [at |-> "free", email |-> None, password |-> None, key |-> None,
         user |-> None, by |-> None, late |-> {}]

Init ==
    /\ users = [e \in Emails |-> None]
    /\ api_keys = [k \in Keys |-> None]
    /\ hour = 0
    /\ ENABLE_AUTH \in BOOLEAN
    /\ restarts = 0
    /\ request = [r \in Requests |-> Free]
    /\ tokens = {}
    /\ told = {}
    /\ registered = [e \in Emails |-> None]

Done(r) == request' = [request EXCEPT ![r] = Free]

-----------------------------------------------------------------------------
(* Registration and login. *)

\* register() up to the hash: an address that is taken is refused.
Register(r, e, p) ==
    /\ request[r].at = "free"
    /\ users[e] = None
    /\ request' = [request EXCEPT ![r] = [Free EXCEPT !.at = "register", !.email = e, !.password = p]]
    /\ UNCHANGED <<tables, hour, ENABLE_AUTH, restarts, tokens, told, registered>>

\* Fault: a row of the same address is replaced.
FaultUpserts(r) ==
    /\ request[r].at = "register"
    /\ LET e == request[r].email IN
         /\ users' = [users EXCEPT ![e] = [password |-> request[r].password, is_active |-> TRUE]]
         /\ registered' = [registered EXCEPT ![e] = IF @ = None THEN request[r].password ELSE @]
    /\ Done(r)
    /\ UNCHANGED <<api_keys, hour, ENABLE_AUTH, restarts, tokens, told>>

\* The insertion.  The unique column refuses a second row: an IntegrityError,
\* which the handlers of exceptions answer with 500.
InsertUser(r) ==
    /\ request[r].at = "register"
    /\ LET e == request[r].email IN
       IF users[e] # None THEN UNCHANGED <<users, registered>>
       ELSE /\ users' = [users EXCEPT ![e] = [password |-> request[r].password, is_active |-> TRUE]]
            /\ registered' = [registered EXCEPT ![e] = request[r].password]
    /\ Done(r)
    /\ UNCHANGED <<api_keys, hour, ENABLE_AUTH, restarts, tokens, told>>

\* login(): a token for an account that is active, against its password.
Login(e, p) ==
    /\ users[e] # None /\ users[e].password = p /\ users[e].is_active
    /\ tokens' = tokens \cup {[sub |-> e, exp |-> hour + LIFETIME]}
    /\ UNCHANGED <<tables, hour, ENABLE_AUTH, restarts, request, told, registered>>

-----------------------------------------------------------------------------
(* get_current_user() and require_active_user(). *)

Admit(r, u, credential) ==
    request' = [request EXCEPT ![r] =
        [Free EXCEPT !.at = "admitted", !.user = u, !.by = credential]]

\* The user row is read, and read once.
Active(u) == u \in Emails /\ users[u] # None /\ users[u].is_active

\* Authentication is switched off: nobody is asked.
AdmitAnyone(r) ==
    /\ request[r].at = "free" /\ ~ENABLE_AUTH
    /\ Admit(r, Anonymous, None)
    /\ UNCHANGED <<tables, hour, ENABLE_AUTH, restarts, tokens, told, registered>>

\* A bearer token that has not expired.
AdmitByToken(r, token) ==
    /\ request[r].at = "free" /\ ENABLE_AUTH
    /\ token \in tokens /\ hour < token.exp
    /\ Active(token.sub)
    /\ Admit(r, token.sub, token)
    /\ UNCHANGED <<tables, hour, ENABLE_AUTH, restarts, tokens, told, registered>>

FaultFindsRevoked(k) == api_keys[k] # None

\* get_by_hash()
Found(k) == api_keys[k] # None /\ ~api_keys[k].revoked

\* A key arrives ...
PresentKey(r, k) ==
    /\ request[r].at = "free" /\ ENABLE_AUTH
    /\ request' = [request EXCEPT ![r] = [Free EXCEPT !.at = "key", !.by = k, !.late = told]]
    /\ UNCHANGED <<tables, hour, ENABLE_AUTH, restarts, tokens, told, registered>>

\* ... its row is looked up ...
FindKey(r) ==
    /\ request[r].at = "key"
    /\ request' = [request EXCEPT ![r] =
           IF Found(request[r].by) THEN [@ EXCEPT !.at = "owner", !.user = api_keys[request[r].by].owner]
           ELSE Free]
    /\ UNCHANGED <<tables, hour, ENABLE_AUTH, restarts, tokens, told, registered>>

\* ... and the row of its owner, which the anonymous user does not have.
AdmitByKey(r) ==
    /\ request[r].at = "owner"
    /\ request' = [request EXCEPT ![r] =
           IF Active(@.user) THEN [@ EXCEPT !.at = "admitted"] ELSE Free]
    /\ UNCHANGED <<tables, hour, ENABLE_AUTH, restarts, tokens, told, registered>>

-----------------------------------------------------------------------------
(* The endpoints behind them.  Once a request is at "revoke", request[r].key is the
   key it is about. *)

\* create_api_key(): the random key is new.
CreateKey(r) ==
    /\ request[r].at = "admitted"
    /\ \E k \in Keys :
           /\ api_keys[k] = None
           /\ api_keys' = [api_keys EXCEPT ![k] = [owner |-> request[r].user, revoked |-> FALSE]]
    /\ Done(r)
    /\ UNCHANGED <<users, hour, ENABLE_AUTH, restarts, tokens, told, registered>>

\* What list_api_keys() answers.
Listed(u) == {k \in Keys : api_keys[k] # None /\ api_keys[k].owner = u /\ ~api_keys[k].revoked}

\* Any other endpoint that the dependency protects, or a refusal.
Finish(r) ==
    /\ request[r].at = "admitted"
    /\ Done(r)
    /\ UNCHANGED <<tables, hour, ENABLE_AUTH, restarts, tokens, told, registered>>

\* revoke_api_key() reads the row: it must be the caller's and not revoked yet ...
ReadKey(r, k) ==
    /\ request[r].at = "admitted" /\ k \in Listed(request[r].user)
    /\ request' = [request EXCEPT ![r] = [Free EXCEPT !.at = "revoke", !.key = k]]
    /\ UNCHANGED <<tables, hour, ENABLE_AUTH, restarts, tokens, told, registered>>

\* ... and writes the time, over that of another request that came first.
Revoke(r) ==
    /\ request[r].at = "revoke"
    /\ api_keys' = [api_keys EXCEPT ![request[r].key].revoked = TRUE]
    /\ told' = told \cup {request[r].key}
    /\ Done(r)
    /\ UNCHANGED <<users, hour, ENABLE_AUTH, restarts, tokens, registered>>

-----------------------------------------------------------------------------
\* The operator disables an account in the table; no endpoint does.
Disable(e) ==
    /\ users[e] # None /\ users[e].is_active
    /\ users' = [users EXCEPT ![e].is_active = FALSE]
    /\ UNCHANGED <<api_keys, hour, ENABLE_AUTH, restarts, request, tokens, told, registered>>

Tick ==
    /\ hour < LAST_HOUR
    /\ hour' = hour + 1
    /\ UNCHANGED <<tables, ENABLE_AUTH, restarts, request, tokens, told, registered>>

\* The server stops, at any statement, and starts with the setting of its day.
Restart ==
    /\ restarts < MAX_RESTARTS
    /\ restarts' = restarts + 1
    /\ ENABLE_AUTH' \in BOOLEAN
    /\ request' = [r \in Requests |-> Free]
    /\ UNCHANGED <<tables, hour, tokens, told, registered>>

Next ==
    \/ \E r \in Requests :
         \/ \E e \in Emails, p \in Passwords : Register(r, e, p)
         \/ InsertUser(r)
         \/ AdmitAnyone(r)
         \/ \E token \in tokens : AdmitByToken(r, token)
         \/ \E k \in Keys : PresentKey(r, k) \/ ReadKey(r, k)
         \/ FindKey(r) \/ AdmitByKey(r)
         \/ CreateKey(r) \/ Finish(r) \/ Revoke(r)
    \/ \E e \in Emails : Disable(e) \/ \E p \in Passwords : Login(e, p)
    \/ Tick
    \/ Restart

Spec == Init /\ [][Next]_vars

-----------------------------------------------------------------------------
Stages == {"free", "register", "key", "owner", "admitted", "revoke"}

(* Types. *)
TypeOK ==
    /\ users \in [Emails -> UserRow \cup {None}]
    /\ api_keys \in [Keys -> KeyRow \cup {None}]
    /\ hour \in 0..LAST_HOUR /\ ENABLE_AUTH \in BOOLEAN /\ restarts \in 0..MAX_RESTARTS
    /\ request \in [Requests ->
           [at : Stages, email : Emails \cup {None}, password : Passwords \cup {None},
            key : Keys \cup {None}, user : User \cup {None},
            by : Keys \cup Token \cup {None}, late : SUBSET Keys]]
    /\ tokens \subseteq Token
    /\ told \subseteq Keys
    /\ registered \in [Emails -> Passwords \cup {None}]

(* An account belongs to the one registration that was answered with 201: two that
   overlap do not both succeed, and the loser does not change the password.      *)
AccountIsTheRegistrants ==
    \A e \in Emails :
        IF users[e] = None THEN registered[e] = None
        ELSE users[e].password = registered[e]

(* A request that is let in while authentication is on has an account of this
   server and was let in by a token of that account or by a key that the account
   had made, and of which nobody had been told, when the request arrived, that it
   is revoked.  A key that was told to be revoked stays so.                      *)
AdmissionIsWarranted ==
    /\ \A r \in Requests : request[r].at = "admitted" /\ request[r].by # None =>
         /\ registered[request[r].user] # None
         /\ \/ request[r].by \in tokens /\ request[r].by.sub = request[r].user
            \/ /\ request[r].by \in Keys \ request[r].late
               /\ api_keys[request[r].by].owner = request[r].user
    /\ \A k \in told : api_keys[k].revoked

=============================================================================
