---------------------------- MODULE Services_proofs ----------------------------
(***************************************************************************)
(* Theorems about the server's parts that share no state, for all values   *)
(* of their constants.  A behaviour of MCServices is one of each part, of  *)
(* which all but one rest (ServicesAreServices), so an invariant of a part *)
(* is one of ServicesSpec.                                                 *)
(*                                                                         *)
(* Accounts and keys: what a request knows of a key stays true while it    *)
(* waits for its next statement, because rows of keys are only added and   *)
(* revoked and rows of users only added and disabled.  So a request that   *)
(* found its key found one that nobody had been told is revoked when it    *)
(* arrived.                                                                *)
(*                                                                         *)
(* The pipeline: until its last write the row is the empty one that was    *)
(* claimed, the provider's record is of the answer at hand, and what is    *)
(* written last is made from that answer or copied from the cache.         *)
(*                                                                         *)
(* The cost tracker: each total is the sum of what is booked at some       *)
(* positions, and those of the day (month) are at the end of the book,     *)
(* where every record is of the date that was set last.                    *)
(*                                                                         *)
(* Routing: what a call has read of a provider is what the provider was at *)
(* some time since the reading began, and a strategy selects a provider    *)
(* that is available for whatever metrics it is given.                     *)
(***************************************************************************)
EXTENDS MCServices, Sums, FiniteSetTheorems, SequenceTheorems, TLAPS

-----------------------------------------------------------------------------
(* Accounts and keys.                                                        *)

\* What a handler between two statements knows of the tables.
Sound(r) ==
    LET q == request[r] IN
    /\ q.at = "register" => q.email \in Emails /\ q.password \in Passwords
    /\ q.at = "key" => q.by \in Keys /\ q.late \subseteq told
    /\ q.at = "owner" =>
         /\ q.by \in Keys \ q.late
         /\ api_keys[q.by] # None /\ api_keys[q.by].owner = q.user
    /\ q.at = "admitted" => q.user \in User
    /\ q.at = "admitted" /\ q.by # None =>
         /\ q.user \in Emails /\ registered[q.user] # None
         /\ \/ q.by \in tokens /\ q.by.sub = q.user
            \/ /\ q.by \in Keys \ q.late
               /\ api_keys[q.by] # None /\ api_keys[q.by].owner = q.user
    /\ q.at = "revoke" => q.key \in Keys /\ api_keys[q.key] # None

RequestsAreSound == \A r \in Requests : Sound(r)

\* A key of which somebody was told that it is revoked has a row that says so.
ToldIsRevoked == \A k \in told : api_keys[k] # None /\ api_keys[k].revoked

IInv ==
    /\ TypeOK
    /\ AccountIsTheRegistrants
    /\ RequestsAreSound
    /\ ToldIsRevoked

\* The tables and the histories only grow, and a key keeps its owner.
Grown ==
    /\ told \subseteq told'
    /\ tokens \subseteq tokens'
    /\ \A e \in Emails : registered[e] # None => registered'[e] # None
    /\ \A k \in Keys : api_keys[k] # None =>
         api_keys'[k] # None /\ api_keys'[k].owner = api_keys[k].owner

\* What a request knows stays true while the tables grow.
LEMMA SoundIsStable ==
    ASSUME TypeOK, Grown, NEW r \in Requests, Sound(r), request'[r] = request[r]
    PROVE  Sound(r)'
<1>1. request[r].by \in Keys /\ api_keys[request[r].by] # None =>
         /\ api_keys'[request[r].by] # None
         /\ api_keys'[request[r].by].owner = api_keys[request[r].by].owner
  BY DEF Grown
<1>2. request[r].key \in Keys /\ api_keys[request[r].key] # None =>
         api_keys'[request[r].key] # None
  BY DEF Grown
<1>3. request[r].by \in tokens => request[r].by \in tokens'
  BY DEF Grown
<1>4. request[r].user \in Emails /\ registered[request[r].user] # None =>
         registered'[request[r].user] # None
  BY DEF Grown
<1>5. request[r].late \subseteq told => request[r].late \subseteq told'
  BY DEF Grown
<1>6. QED
  BY <1>1, <1>2, <1>3, <1>4, <1>5 DEF Sound

\* A step that changes one request, or none, and lets the tables grow.
LEMMA SoundAfter ==
    ASSUME TypeOK, RequestsAreSound, Grown, NEW r \in Requests, Sound(r)',
           \A q \in Requests \ {r} : request'[q] = request[q]
    PROVE  RequestsAreSound'
<1>1. ASSUME NEW q \in Requests PROVE Sound(q)'
  <2>1. CASE q = r
    BY <2>1
  <2>2. CASE q # r
    BY <2>2, SoundIsStable DEF RequestsAreSound
  <2>3. QED
    BY <2>1, <2>2
<1>2. QED
  BY <1>1 DEF RequestsAreSound

\* No request moves and the tables grow.
LEMMA SoundIfUntouched ==
    ASSUME TypeOK, RequestsAreSound, Grown, request' = request
    PROVE  RequestsAreSound'
BY SoundIsStable DEF RequestsAreSound

\* Empty tables and free handlers.
LEMMA InitInv == Init => IInv
<1> SUFFICES ASSUME Init PROVE IInv
  OBVIOUS
<1>1. TypeOK
  BY AuthAssumption DEF Init, TypeOK, Free, Stages
<1>2. RequestsAreSound
  BY DEF Init, RequestsAreSound, Sound, Free
<1>3. QED
  BY <1>1, <1>2 DEF Init, IInv, AccountIsTheRegistrants, ToldIsRevoked

\* The type of one handler.
Handler == [at : Stages, email : Emails \cup {None}, password : Passwords \cup {None},
            key : Keys \cup {None}, user : User \cup {None},
            by : Keys \cup Token \cup {None}, late : SUBSET Keys]

LEMMA FreeIsHandler == Free \in Handler
BY DEF Free, Handler, Stages

\* The address of a request that waits to insert is an address.
LEMMA RegisterInv ==
    ASSUME IInv, NEW r \in Requests, NEW e \in Emails, NEW p \in Passwords, Register(r, e, p)
    PROVE  IInv'
<1>1. TypeOK'
  BY DEF IInv, TypeOK, Register, Free, Stages, tables
<1>2. Sound(r)'
  BY DEF IInv, TypeOK, Register, Free, Sound
<1>3. RequestsAreSound'
  BY <1>2, SoundAfter DEF IInv, TypeOK, Register, Grown, tables
<1>4. QED
  BY <1>1, <1>3 DEF IInv, Register, AccountIsTheRegistrants, ToldIsRevoked, tables

\* A row is only inserted for an address that has none, with the password of the request.
LEMMA InsertUserInv ==
    ASSUME IInv, NEW r \in Requests, InsertUser(r)
    PROVE  IInv'
<1> DEFINE e == request[r].email
           inserted == [password |-> request[r].password, is_active |-> TRUE]
<1>1. e \in Emails /\ request[r].password \in Passwords
  BY DEF IInv, RequestsAreSound, Sound, InsertUser
<1>2. inserted \in UserRow
  BY <1>1 DEF UserRow
<1>3. TypeOK'
  <2>1. request' \in [Requests -> Handler]
    BY FreeIsHandler DEF IInv, TypeOK, InsertUser, Done, Handler
  <2>2. users' \in [Emails -> UserRow \cup {None}]
    <3>1. users' = users \/ users' = [users EXCEPT ![e] = inserted]
      BY DEF InsertUser
    <3>2. QED
      BY <1>1, <1>2, <3>1 DEF IInv, TypeOK
  <2>3. registered' \in [Emails -> Passwords \cup {None}]
    BY <1>1 DEF IInv, TypeOK, InsertUser
  <2>4. QED
    BY <2>1, <2>2, <2>3 DEF IInv, TypeOK, InsertUser, Handler
<1>4. AccountIsTheRegistrants'
  <2>1. CASE users[e] # None
    BY <2>1 DEF IInv, AccountIsTheRegistrants, InsertUser
  <2>2. CASE users[e] = None
    <3>1. /\ users' = [users EXCEPT ![e] = inserted]
          /\ registered' = [registered EXCEPT ![e] = request[r].password]
      BY <2>2 DEF InsertUser
    <3>2. inserted # None
      BY <1>2, AuthAssumption
    <3>3. users'[e] # None /\ users'[e].password = registered'[e]
      BY <1>1, <3>1, <3>2 DEF IInv, TypeOK
    <3>4. \A f \in Emails \ {e} : users'[f] = users[f] /\ registered'[f] = registered[f]
      BY <3>1 DEF IInv, TypeOK
    <3>5. QED
      BY <3>3, <3>4 DEF IInv, AccountIsTheRegistrants
  <2>3. QED
    BY <2>1, <2>2
<1>5. Grown
  BY <1>1, AuthAssumption DEF IInv, TypeOK, InsertUser, Grown
<1>6. Sound(r)'
  BY DEF IInv, TypeOK, InsertUser, Done, Free, Sound
<1>7. RequestsAreSound'
  BY <1>5, <1>6, SoundAfter DEF IInv, TypeOK, InsertUser, Done
<1>8. QED
  BY <1>3, <1>4, <1>7 DEF IInv, InsertUser, ToldIsRevoked

\* A token names the account that logged in; the clock is within its bound.
LEMMA LoginInv ==
    ASSUME IInv, NEW e \in Emails, NEW p \in Passwords, Login(e, p)
    PROVE  IInv'
<1>1. TypeOK'
  <2>1. hour + LIFETIME \in 0..LAST_HOUR + LIFETIME
    BY AuthAssumption DEF IInv, TypeOK
  <2>2. [sub |-> e, exp |-> hour + LIFETIME] \in Token
    BY <2>1 DEF Token
  <2>3. QED
    BY <2>2 DEF IInv, TypeOK, Login, tables
<1>2. RequestsAreSound'
  BY SoundIfUntouched DEF IInv, Login, Grown, tables
<1>3. QED
  BY <1>1, <1>2 DEF IInv, Login, AccountIsTheRegistrants, ToldIsRevoked, tables

\* The anonymous user is let in without a credential, so nothing is claimed of one.
LEMMA AdmitAnyoneInv ==
    ASSUME IInv, NEW r \in Requests, AdmitAnyone(r)
    PROVE  IInv'
<1>1. TypeOK'
  BY DEF IInv, TypeOK, AdmitAnyone, Admit, Free, Stages, User, tables
<1>2. Sound(r)'
  BY DEF IInv, TypeOK, AdmitAnyone, Admit, Free, Sound, User
<1>3. RequestsAreSound'
  BY <1>2, SoundAfter DEF IInv, TypeOK, AdmitAnyone, Admit, Grown, tables
<1>4. QED
  BY <1>1, <1>3 DEF IInv, AdmitAnyone, AccountIsTheRegistrants, ToldIsRevoked, tables

\* The owner of a token that is accepted has an account, hence was registered.
LEMMA AdmitByTokenInv ==
    ASSUME IInv, NEW r \in Requests, NEW token \in tokens, AdmitByToken(r, token)
    PROVE  IInv'
<1>1. token \in Token /\ token.sub \in Emails /\ users[token.sub] # None
  BY DEF IInv, TypeOK, AdmitByToken, Active, Token
<1>2. registered[token.sub] # None
  <2>1. users[token.sub].password \in Passwords
    BY <1>1 DEF IInv, TypeOK, UserRow
  <2>2. QED
    BY <1>1, <2>1, AuthAssumption DEF IInv, AccountIsTheRegistrants
<1>3. TypeOK'
  BY <1>1 DEF IInv, TypeOK, AdmitByToken, Admit, Free, Stages, User, tables
<1>4. Sound(r)'
  <2>1. request'[r] = [Free EXCEPT !.at = "admitted", !.user = token.sub, !.by = token]
    BY DEF IInv, TypeOK, AdmitByToken, Admit
  <2>2. /\ request'[r].at = "admitted" /\ request'[r].user = token.sub
        /\ request'[r].by = token
    BY <2>1 DEF Free
  <2>3. token \in tokens' /\ registered' = registered
    BY DEF AdmitByToken
  <2>4. QED
    BY <1>1, <1>2, <2>2, <2>3 DEF Sound, User
<1>5. RequestsAreSound'
  BY <1>4, SoundAfter DEF IInv, TypeOK, AdmitByToken, Admit, Grown, tables
<1>6. QED
  BY <1>3, <1>5 DEF IInv, AdmitByToken, AccountIsTheRegistrants, ToldIsRevoked, tables

\* A request remembers which keys were known to be revoked when it arrived.
LEMMA PresentKeyInv ==
    ASSUME IInv, NEW r \in Requests, NEW k \in Keys, PresentKey(r, k)
    PROVE  IInv'
<1>1. TypeOK'
  BY DEF IInv, TypeOK, PresentKey, Free, Stages, tables
<1>2. Sound(r)'
  BY DEF IInv, TypeOK, PresentKey, Free, Sound
<1>3. RequestsAreSound'
  BY <1>2, SoundAfter DEF IInv, TypeOK, PresentKey, Grown, tables
<1>4. QED
  BY <1>1, <1>3 DEF IInv, PresentKey, AccountIsTheRegistrants, ToldIsRevoked, tables

\* A key that is found is not revoked, so it is none of those told to be.
LEMMA FindKeyInv ==
    ASSUME IInv, NEW r \in Requests, FindKey(r)
    PROVE  IInv'
<1> DEFINE k == request[r].by
<1>1. k \in Keys /\ request[r].late \subseteq told
  BY DEF IInv, RequestsAreSound, Sound, FindKey
<1>2. CASE Found(k)
  <2>1. api_keys[k] # None /\ api_keys[k].owner \in User /\ ~api_keys[k].revoked
    BY <1>1, <1>2 DEF Found, IInv, TypeOK, KeyRow
  <2>2. k \notin request[r].late
    BY <1>1, <2>1 DEF IInv, ToldIsRevoked
  <2>3. request' = [request EXCEPT ![r] = [@ EXCEPT !.at = "owner", !.user = api_keys[k].owner]]
    BY <1>2 DEF FindKey
  <2>4. request[r] \in Handler
    BY DEF IInv, TypeOK, Handler
  <2>5. /\ request'[r].at = "owner" /\ request'[r].user = api_keys[k].owner
        /\ request'[r].by = k /\ request'[r].late = request[r].late
    BY <2>3, <2>4 DEF Handler, IInv, TypeOK
  <2>6. Sound(r)'
    BY <1>1, <2>1, <2>2, <2>5 DEF Sound, FindKey, tables
  <2>7. TypeOK'
    <3>1. request'[r] \in Handler
      BY <2>1, <2>3, <2>4 DEF IInv, TypeOK, Handler, Stages
    <3>2. request' \in [Requests -> Handler]
      BY <2>3, <3>1 DEF IInv, TypeOK, Handler
    <3>3. QED
      BY <3>2 DEF IInv, TypeOK, FindKey, Handler, tables
  <2>8. QED
    BY <2>3, <2>6, <2>7, SoundAfter
    DEF IInv, TypeOK, FindKey, Grown, AccountIsTheRegistrants, ToldIsRevoked, tables
<1>3. CASE ~Found(k)
  <2>1. request' = [request EXCEPT ![r] = Free]
    BY <1>3 DEF FindKey
  <2>2. TypeOK'
    BY <2>1, FreeIsHandler DEF IInv, TypeOK, FindKey, Handler, tables
  <2>3. Sound(r)'
    BY <2>1 DEF IInv, TypeOK, Free, Sound
  <2>4. QED
    BY <2>1, <2>2, <2>3, SoundAfter
    DEF IInv, TypeOK, FindKey, Grown, AccountIsTheRegistrants, ToldIsRevoked, tables
<1>4. QED
  BY <1>2, <1>3

\* The owner of a key that is accepted has an account, hence was registered.
LEMMA AdmitByKeyInv ==
    ASSUME IInv, NEW r \in Requests, AdmitByKey(r)
    PROVE  IInv'
<1> DEFINE k == request[r].by
           u == request[r].user
<1>1. /\ k \in Keys \ request[r].late /\ api_keys[k] # None /\ api_keys[k].owner = u
      /\ request[r] \in Handler
  BY DEF IInv, TypeOK, RequestsAreSound, Sound, AdmitByKey, Handler
<1>2. CASE Active(u)
  <2>1. u \in Emails /\ registered[u] # None
    <3>1. u \in Emails /\ users[u] # None
      BY <1>2 DEF Active
    <3>2. users[u].password \in Passwords
      BY <3>1 DEF IInv, TypeOK, UserRow
    <3>3. QED
      BY <3>1, <3>2, AuthAssumption DEF IInv, AccountIsTheRegistrants
  <2>2. request' = [request EXCEPT ![r] = [@ EXCEPT !.at = "admitted"]]
    BY <1>2 DEF AdmitByKey
  <2>3. /\ request'[r].at = "admitted" /\ request'[r].user = u
        /\ request'[r].by = k /\ request'[r].late = request[r].late
    BY <1>1, <2>2 DEF Handler, IInv, TypeOK
  <2>4. Sound(r)'
    BY <1>1, <2>1, <2>3 DEF Sound, AdmitByKey, User, tables
  <2>5. TypeOK'
    BY SMTT(30), <2>2 DEF IInv, TypeOK, AdmitByKey, Stages, tables
  <2>6. QED
    BY <2>2, <2>4, <2>5, SoundAfter
    DEF IInv, TypeOK, AdmitByKey, Grown, AccountIsTheRegistrants, ToldIsRevoked, tables
<1>3. CASE ~Active(u)
  <2>1. request' = [request EXCEPT ![r] = Free]
    BY <1>3 DEF AdmitByKey
  <2>2. TypeOK'
    BY <2>1, FreeIsHandler DEF IInv, TypeOK, AdmitByKey, Handler, tables
  <2>3. Sound(r)'
    BY <2>1 DEF IInv, TypeOK, Free, Sound
  <2>4. QED
    BY <2>1, <2>2, <2>3, SoundAfter
    DEF IInv, TypeOK, AdmitByKey, Grown, AccountIsTheRegistrants, ToldIsRevoked, tables
<1>4. QED
  BY <1>2, <1>3

\* A key that is made had no row, so no other request holds it.
LEMMA CreateKeyInv ==
    ASSUME IInv, NEW r \in Requests, CreateKey(r)
    PROVE  IInv'
<1>1. request[r].user \in User
  BY DEF IInv, RequestsAreSound, Sound, CreateKey
<1>2. PICK k \in Keys :
         /\ api_keys[k] = None
         /\ api_keys' = [api_keys EXCEPT ![k] = [owner |-> request[r].user, revoked |-> FALSE]]
  BY DEF CreateKey
<1>3. TypeOK'
  <2>1. request' \in [Requests -> Handler]
    BY FreeIsHandler DEF IInv, TypeOK, CreateKey, Done, Handler
  <2>2. api_keys' \in [Keys -> KeyRow \cup {None}]
    BY <1>1, <1>2 DEF IInv, TypeOK, KeyRow
  <2>3. QED
    BY <2>1, <2>2 DEF IInv, TypeOK, CreateKey, Handler
<1>4. Grown
  BY <1>2 DEF IInv, TypeOK, CreateKey, Grown
<1>5. Sound(r)'
  BY DEF IInv, TypeOK, CreateKey, Done, Free, Sound
<1>6. RequestsAreSound'
  BY <1>4, <1>5, SoundAfter DEF IInv, TypeOK, CreateKey, Done
<1>7. ToldIsRevoked'
  BY <1>2 DEF IInv, TypeOK, ToldIsRevoked, CreateKey
<1>8. QED
  BY <1>3, <1>6, <1>7 DEF IInv, CreateKey, AccountIsTheRegistrants

\* A request that ends knows nothing any more.
LEMMA FinishInv ==
    ASSUME IInv, NEW r \in Requests, Finish(r)
    PROVE  IInv'
<1>1. TypeOK'
  BY FreeIsHandler DEF IInv, TypeOK, Finish, Done, Handler, tables
<1>2. Sound(r)'
  BY DEF IInv, TypeOK, Finish, Done, Free, Sound
<1>3. RequestsAreSound'
  BY <1>2, SoundAfter DEF IInv, TypeOK, Finish, Done, Grown, tables
<1>4. QED
  BY <1>1, <1>3 DEF IInv, Finish, AccountIsTheRegistrants, ToldIsRevoked, tables

\* A key that is listed has a row.
LEMMA ReadKeyInv ==
    ASSUME IInv, NEW r \in Requests, NEW k \in Keys, ReadKey(r, k)
    PROVE  IInv'
<1>1. api_keys[k] # None
  BY DEF ReadKey, Listed
<1>2. TypeOK'
  BY DEF IInv, TypeOK, ReadKey, Free, Stages, tables
<1>3. Sound(r)'
  BY <1>1 DEF IInv, TypeOK, ReadKey, Free, Sound, tables
<1>4. RequestsAreSound'
  BY <1>3, SoundAfter DEF IInv, TypeOK, ReadKey, Grown, tables
<1>5. QED
  BY <1>2, <1>4 DEF IInv, ReadKey, AccountIsTheRegistrants, ToldIsRevoked, tables

\* A revocation keeps the row and its owner, also when it comes second.
LEMMA RevokeInv ==
    ASSUME IInv, NEW r \in Requests, Revoke(r)
    PROVE  IInv'
<1> DEFINE k == request[r].key
<1>1. k \in Keys /\ api_keys[k] # None
  BY DEF IInv, RequestsAreSound, Sound, Revoke
<1>2. api_keys[k] \in KeyRow
  BY <1>1 DEF IInv, TypeOK
<1>3. api_keys'[k] = [api_keys[k] EXCEPT !.revoked = TRUE]
  BY <1>1 DEF Revoke, IInv, TypeOK
<1>4. /\ api_keys'[k] \in KeyRow /\ api_keys'[k].owner = api_keys[k].owner
      /\ api_keys'[k].revoked
  BY <1>2, <1>3 DEF KeyRow
<1>5. \A j \in Keys \ {k} : api_keys'[j] = api_keys[j]
  BY DEF Revoke, IInv, TypeOK
<1>6. TypeOK'
  <2>1. request' \in [Requests -> Handler]
    BY FreeIsHandler DEF IInv, TypeOK, Revoke, Done, Handler
  <2>2. api_keys' \in [Keys -> KeyRow \cup {None}]
    <3>1. \A j \in Keys : api_keys'[j] \in KeyRow \cup {None}
      BY <1>4, <1>5 DEF IInv, TypeOK
    <3>2. QED
      BY <3>1 DEF Revoke, IInv, TypeOK
  <2>3. QED
    BY <1>1, <2>1, <2>2 DEF IInv, TypeOK, Revoke, Handler
<1>7. Grown
  <2>1. \A j \in Keys : api_keys[j] # None =>
          api_keys'[j] # None /\ api_keys'[j].owner = api_keys[j].owner
    BY <1>4, <1>5, AuthAssumption
  <2>2. QED
    BY <2>1 DEF Revoke, Grown
<1>8. Sound(r)'
  BY DEF IInv, TypeOK, Revoke, Done, Free, Sound
<1>9. RequestsAreSound'
  BY <1>7, <1>8, SoundAfter DEF IInv, TypeOK, Revoke, Done
<1>10. ToldIsRevoked'
  <2>1. told' = told \cup {k} /\ told \subseteq Keys
    BY DEF Revoke, IInv, TypeOK
  <2>2. api_keys'[k] # None
    BY <1>4, AuthAssumption
  <2>3. ASSUME NEW j \in told' PROVE api_keys'[j] # None /\ api_keys'[j].revoked
    <3>1. CASE j = k
      BY <1>4, <2>2, <3>1
    <3>2. CASE j # k
      BY <1>5, <2>1, <3>2 DEF IInv, ToldIsRevoked
    <3>3. QED
      BY <3>1, <3>2
  <2>4. QED
    BY <2>3 DEF ToldIsRevoked
<1>11. QED
  BY <1>6, <1>9, <1>10 DEF IInv, Revoke, AccountIsTheRegistrants

\* Disabling an account keeps its password.
LEMMA DisableInv ==
    ASSUME IInv, NEW e \in Emails, Disable(e)
    PROVE  IInv'
<1>1. users[e] \in UserRow
  BY DEF IInv, TypeOK, Disable
<1>2. users'[e] = [users[e] EXCEPT !.is_active = FALSE]
  BY DEF Disable, IInv, TypeOK
<1>3. users'[e] \in UserRow /\ users'[e].password = users[e].password
  BY <1>1, <1>2 DEF UserRow
<1>4. \A f \in Emails \ {e} : users'[f] = users[f]
  BY DEF Disable, IInv, TypeOK
<1>5. users' \in [Emails -> UserRow \cup {None}]
  <2>1. \A f \in Emails : users'[f] \in UserRow \cup {None}
    BY <1>3, <1>4 DEF IInv, TypeOK
  <2>2. QED
    BY <2>1 DEF Disable, IInv, TypeOK
<1>6. TypeOK'
  BY <1>5 DEF IInv, TypeOK, Disable
<1>7. AccountIsTheRegistrants'
  BY <1>3, <1>4, AuthAssumption DEF IInv, AccountIsTheRegistrants, Disable
<1>8. RequestsAreSound'
  BY SoundIfUntouched DEF IInv, Disable, Grown
<1>9. QED
  BY <1>6, <1>7, <1>8 DEF IInv, Disable, ToldIsRevoked

\* Time touches nothing that the invariant speaks of.
LEMMA TickInv ==
    ASSUME IInv, Tick
    PROVE  IInv'
<1>1. TypeOK'
  BY AuthAssumption DEF IInv, TypeOK, Tick, tables
<1>2. RequestsAreSound'
  BY SoundIfUntouched DEF IInv, Tick, Grown, tables
<1>3. QED
  BY <1>1, <1>2 DEF IInv, Tick, AccountIsTheRegistrants, ToldIsRevoked, tables

\* Requests are lost with the server; tables and histories are not.
LEMMA RestartInv ==
    ASSUME IInv, Restart
    PROVE  IInv'
<1>1. TypeOK'
  <2>1. request' \in [Requests -> Handler]
    BY FreeIsHandler DEF Restart
  <2>2. restarts' \in 0..MAX_RESTARTS
    BY AuthAssumption DEF IInv, TypeOK, Restart
  <2>3. QED
    BY <2>1, <2>2 DEF IInv, TypeOK, Restart, Handler, tables
<1>2. RequestsAreSound'
  BY DEF Restart, Free, RequestsAreSound, Sound
<1>3. QED
  BY <1>1, <1>2 DEF IInv, Restart, AccountIsTheRegistrants, ToldIsRevoked, tables

\* Every step keeps the invariant.
LEMMA NextInv == IInv /\ [Next]_vars => IInv'
<1> SUFFICES ASSUME IInv, [Next]_vars PROVE IInv'
  OBVIOUS
<1>1. ASSUME NEW r \in Requests, NEW e \in Emails, NEW p \in Passwords, Register(r, e, p)
      PROVE  IInv'
  BY <1>1, RegisterInv
<1>2. ASSUME NEW r \in Requests, InsertUser(r) PROVE IInv'
  BY <1>2, InsertUserInv
<1>3. ASSUME NEW r \in Requests, AdmitAnyone(r) PROVE IInv'
  BY <1>3, AdmitAnyoneInv
<1>4. ASSUME NEW r \in Requests, NEW token \in tokens, AdmitByToken(r, token) PROVE IInv'
  BY <1>4, AdmitByTokenInv
<1>5. ASSUME NEW r \in Requests, NEW k \in Keys, PresentKey(r, k) PROVE IInv'
  BY <1>5, PresentKeyInv
<1>6. ASSUME NEW r \in Requests, NEW k \in Keys, ReadKey(r, k) PROVE IInv'
  BY <1>6, ReadKeyInv
<1>7. ASSUME NEW r \in Requests, FindKey(r) PROVE IInv'
  BY <1>7, FindKeyInv
<1>8. ASSUME NEW r \in Requests, AdmitByKey(r) PROVE IInv'
  BY <1>8, AdmitByKeyInv
<1>9. ASSUME NEW r \in Requests, CreateKey(r) PROVE IInv'
  BY <1>9, CreateKeyInv
<1>10. ASSUME NEW r \in Requests, Finish(r) PROVE IInv'
  BY <1>10, FinishInv
<1>11. ASSUME NEW r \in Requests, Revoke(r) PROVE IInv'
  BY <1>11, RevokeInv
<1>12. ASSUME NEW e \in Emails, Disable(e) PROVE IInv'
  BY <1>12, DisableInv
<1>13. ASSUME NEW e \in Emails, NEW p \in Passwords, Login(e, p) PROVE IInv'
  BY <1>13, LoginInv
<1>14. CASE Tick
  BY <1>14, TickInv
<1>15. CASE Restart
  BY <1>15, RestartInv
<1>16. CASE UNCHANGED vars
  <2>1. TypeOK'
    BY <1>16 DEF IInv, TypeOK, vars, tables
  <2>2. RequestsAreSound'
    BY <1>16, SoundIfUntouched DEF IInv, Grown, vars, tables
  <2>3. QED
    BY <1>16, <2>1, <2>2 DEF IInv, AccountIsTheRegistrants, ToldIsRevoked, vars, tables
<1>17. QED
  BY <1>1, <1>2, <1>3, <1>4, <1>5, <1>6, <1>7, <1>8, <1>9, <1>10, <1>11, <1>12, <1>13,
     <1>14, <1>15, <1>16 DEF Next

\* The invariant that the theorems rest on.
THEOREM Invariant == Spec => []IInv
BY InitInv, NextInv, PTL DEF Spec

\* Types, for any values of the constants.
THEOREM TypeCorrect == Spec => []TypeOK
<1>1. IInv => TypeOK
  BY DEF IInv
<1>2. QED
  BY <1>1, Invariant, PTL

\* However many registrations of an address overlap, the account is that of the one
\* that was answered with 201.
THEOREM AccountsAreWarranted == Spec => []AccountIsTheRegistrants
<1>1. IInv => AccountIsTheRegistrants
  BY DEF IInv
<1>2. QED
  BY <1>1, Invariant, PTL

\* However creation, use and revocation of keys interleave, nobody is let in without
\* an account and a credential of it that was not known to be revoked.
THEOREM AdmissionsAreWarranted == Spec => []AdmissionIsWarranted
<1>1. IInv => AdmissionIsWarranted
  BY DEF IInv, RequestsAreSound, Sound, ToldIsRevoked, AdmissionIsWarranted
<1>2. QED
  BY <1>1, Invariant, PTL

-----------------------------------------------------------------------------
(* The parts side by side.                                                   *)

\* A step of one part leaves the others where they are.
LEMMA ServicesStep ==
    ASSUME [ServicesNext]_<<part, vars, costing, routing, pipeline>>
    PROVE  /\ [Next]_vars /\ [Costing!Next]_(Costing!vars)
           /\ [Routing!Next]_(Routing!vars) /\ [Pipeline!Next]_(Pipeline!vars)
           /\ part' = part
  <1>1. ASSUME UNCHANGED costing PROVE UNCHANGED Costing!vars
    BY <1>1 DEF costing, Costing!vars
  <1>2. ASSUME UNCHANGED routing PROVE UNCHANGED Routing!vars
    BY <1>2 DEF routing, Routing!vars, Routing!call
  <1>3. ASSUME UNCHANGED pipeline PROVE UNCHANGED Pipeline!vars
    BY <1>3 DEF pipeline, Pipeline!vars, Pipeline!provider
  <1>4. CASE part = "auth" /\ Next /\ UNCHANGED <<part, costing, routing, pipeline>>
    BY <1>1, <1>2, <1>3, <1>4
  <1>5. CASE part = "costing" /\ Costing!Next /\ UNCHANGED <<part, vars, routing, pipeline>>
    BY <1>2, <1>3, <1>5
  <1>6. CASE part = "routing" /\ Routing!Next /\ UNCHANGED <<part, vars, costing, pipeline>>
    BY <1>1, <1>3, <1>6
  <1>7. CASE part = "pipeline" /\ Pipeline!Next /\ UNCHANGED <<part, vars, costing, routing>>
    BY <1>1, <1>2, <1>7
  <1>8. CASE UNCHANGED <<part, vars, costing, routing, pipeline>>
    BY <1>1, <1>2, <1>3, <1>8
  <1> QED
    BY <1>4, <1>5, <1>6, <1>7, <1>8 DEF ServicesNext

\* Running one of the parts beside the others that rest is running each of them.
THEOREM ServicesAreServices ==
    ServicesSpec => Spec /\ Costing!Spec /\ Routing!Spec /\ Pipeline!Spec
  <1>1. ServicesInit => Init /\ Costing!Init /\ Routing!Init /\ Pipeline!Init
    BY DEF ServicesInit
  <1>2. [ServicesNext]_<<part, vars, costing, routing, pipeline>> =>
            /\ [Next]_vars /\ [Costing!Next]_(Costing!vars)
            /\ [Routing!Next]_(Routing!vars) /\ [Pipeline!Next]_(Pipeline!vars)
    BY ServicesStep
  <1> QED
    BY <1>1, <1>2, PTL DEF ServicesSpec, Spec, Costing!Spec, Routing!Spec, Pipeline!Spec

-----------------------------------------------------------------------------
(* The pipeline: until its last write the row is the empty one that was claimed, *)
(* the provider's record is of the answer at hand, and what is written last is   *)
(* made from that answer or copied from the cache.                               *)

Fit(s) == s \in Pipeline!Suites /\ Pipeline!Valid(s) /\ s.assertions = "rebuilt"

\* The row follows the stage, and holds no tests before the last write.
RowFollows ==
    /\ stage \in {"validate", "look up"} => row = None
    /\ stage = "claim" => row = Pipeline!NewRow("pending", None)
    /\ stage \in {"analyse", "ask", "ask again", "parse", "persist", "handle"} =>
           row = Pipeline!NewRow("processing", None)
    /\ stage \in {"store", "return"} => row \in Pipeline!Rows
    /\ stage = "store" => row.status = "completed"
    /\ stage = "return" => row.status \in {"completed", "failed"}

\* The provider's record is of the answer at hand, and every attempt asked once.
RecordIsOfAnswer ==
    /\ stage \in {"validate", "look up", "claim", "analyse"} => asked = 0 /\ attempt = 1
    /\ stage \in {"validate", "look up", "claim", "analyse", "ask"} => last_usage = None
    /\ stage = "ask" => asked + 1 = attempt
    /\ stage = "ask again" => asked <= attempt
    /\ stage \in {"ask again", "parse", "persist"} =>
           answer \in Pipeline!Answers /\ last_usage = answer.usage
    /\ stage \in {"parse", "persist"} =>
           answer.text \in Pipeline!Texts /\ answer.finish_reason = "STOP"
    /\ stage = "handle" => last_usage = None \/ last_usage = answer.usage

\* What is about to be stored is made from the answer, and what was cached is fit.
SuiteIsFit ==
    /\ stage = "persist" =>
           /\ suite = Pipeline!Rebuilt(Pipeline!Parsed(answer.text))
           /\ Fit(suite)
    /\ stage = "store" => suite \in Pipeline!Suites
    /\ stage \in {"validate", "look up"} => cache = None \/ Fit(cache)

\* A session is broken by a refused write only, and the reply is the last step.
SessionFollows ==
    /\ stage \notin {"return", "done", "handle", "dead"} => session = "usable"
    /\ stage \notin {"done", "dead"} => response = None
    /\ stage = "dead" => response = None
    /\ stage = "done" => response \in {201, 422, 500}
    /\ response = 422 => row = None

PipelineInv ==
    /\ Pipeline!TypeOK
    /\ RowFollows
    /\ RecordIsOfAnswer
    /\ SuiteIsFit
    /\ SessionFollows
    /\ Pipeline!RowTellsTheOutcome
    /\ Pipeline!ReplyTellsTheRow

\* What the parser makes of an answer is a suite; what is valid is fit when rebuilt.
LEMMA ParsedIsSuite ==
    ASSUME NEW text \in Pipeline!Texts, Pipeline!Parsed(text) # None
    PROVE  /\ Pipeline!Parsed(text) \in Pipeline!Suites
           /\ Pipeline!Valid(Pipeline!Parsed(text)) => Fit(Pipeline!Rebuilt(Pipeline!Parsed(text)))
  BY DEF Pipeline!Parsed, Pipeline!Texts, Pipeline!Suites, Pipeline!Rebuilt, Pipeline!Valid, Fit

\* Rows as they are written.
LEMMA RowsAreTyped ==
    /\ \A st \in {"pending", "processing", "completed", "failed"} :
           /\ Pipeline!NewRow(st, None) \in Pipeline!Rows
           /\ \A s \in Pipeline!Suites : Pipeline!NewRow(st, s) \in Pipeline!Rows
    /\ \A s \in Pipeline!Suites, u \in Pipeline!Usage :
           [status |-> "completed", tokens |-> u, json |-> s, code |-> s] \in Pipeline!Rows
    /\ \A u \in Pipeline!Usage :
           [status |-> "failed", tokens |-> u, json |-> None, code |-> None] \in Pipeline!Rows
  BY DEF Pipeline!Rows, Pipeline!NewRow, Pipeline!Usage

\* The initial row, and what a fresh request has.
LEMMA PipelineBegins == Pipeline!Init => PipelineInv
  <1> SUFFICES ASSUME Pipeline!Init PROVE PipelineInv
    OBVIOUS
  <1>1. /\ stage = "validate" /\ input \in Pipeline!Inputs /\ row = None /\ session = "usable"
        /\ response = None /\ attempt = 1 /\ last_usage = None /\ answer = None /\ asked = 0
        /\ suite = None /\ error = None
    BY DEF Pipeline!Init
  <1>2. cache = None \/ Fit(cache)
    <2>1. Fit([function_name |-> "name", cases |-> {"named"}, assertions |-> "rebuilt"])
      BY DEF Fit, Pipeline!Suites, Pipeline!Valid
    <2> QED
      BY <2>1 DEF Pipeline!Init
  <1>3. MAX_RETRIES \in Nat \ {0} /\ None \notin {201, 422, 500}
    BY ServicesAssumption DEF Pipeline!GenerationPipelineAssumption
  <1>4. Pipeline!TypeOK
    BY <1>1, <1>2, <1>3 DEF Pipeline!TypeOK, Pipeline!Stages, Pipeline!Usage, Fit
  <1>5. RowFollows /\ RecordIsOfAnswer /\ SuiteIsFit /\ SessionFollows
    BY <1>1, <1>2, <1>3 DEF RowFollows, RecordIsOfAnswer, SuiteIsFit, SessionFollows
  <1>6. Pipeline!RowTellsTheOutcome /\ Pipeline!ReplyTellsTheRow
    BY <1>1, <1>3 DEF Pipeline!RowTellsTheOutcome, Pipeline!ReplyTellsTheRow
  <1> QED
    BY <1>4, <1>5, <1>6 DEF PipelineInv

LEMMA PipelineStep ==
    ASSUME PipelineInv, [Pipeline!Next]_(Pipeline!vars)
    PROVE  PipelineInv'
  <1>a. /\ RowFollows /\ RecordIsOfAnswer /\ SuiteIsFit /\ SessionFollows
        /\ Pipeline!RowTellsTheOutcome /\ Pipeline!ReplyTellsTheRow
    BY DEF PipelineInv
  <1>b. MAX_RETRIES \in Nat \ {0} /\ None \notin {201, 422, 500} /\ None \in Pipeline!Usage
    BY ServicesAssumption DEF Pipeline!GenerationPipelineAssumption, Pipeline!Usage
  <1>c. /\ stage \in Pipeline!Stages /\ input \in Pipeline!Inputs
        /\ row \in Pipeline!Rows \cup {None} /\ cache \in Pipeline!Suites \cup {None}
        /\ session \in {"usable", "broken"}
        /\ attempt \in 1..MAX_RETRIES /\ last_usage \in Pipeline!Usage
        /\ answer \in Pipeline!Answers \cup {None} /\ asked \in 0..MAX_RETRIES + 1
        /\ suite \in Pipeline!Suites \cup {None}
    BY DEF PipelineInv, Pipeline!TypeOK
  <1>e. attempt \in 1..MAX_RETRIES /\ asked \in 0..MAX_RETRIES + 1
    BY <1>c
  <1>m. MAX_RETRIES \in Nat \ {0}
    BY <1>b
  <1>d. response \in {None, 201, 422, 500} /\ error \in {None, "validation", "llm", "other"}
    BY DEF PipelineInv, Pipeline!TypeOK
  <1>1. CASE Pipeline!ValidateInputSizes /\ stage' = "look up"
    <2>1. /\ stage = "validate" /\ stage' = "look up"
          /\ UNCHANGED <<input, row, cache, session, response, attempt, last_usage, answer, asked,
                           suite, error>>
      BY <1>1 DEF Pipeline!ValidateInputSizes, Pipeline!Reply, Pipeline!Raise, Pipeline!provider
    <2>2. /\ row = None
          /\ session = "usable"
          /\ asked = 0 /\ attempt = 1 /\ last_usage = None
          /\ cache = None \/ Fit(cache)
          /\ response = None
      BY ZenonT(60), <1>a, <2>1 DEF RowFollows, RecordIsOfAnswer, SuiteIsFit, SessionFollows
    <2>3. asked' \in 0..MAX_RETRIES + 1
      BY <1>m, <1>e, <2>1, <2>2
    <2>f. attempt' \in 1..MAX_RETRIES
      BY <1>m, <1>e, <2>1
    <2>c. stage' \in Pipeline!Stages
      BY <1>c, <2>1 DEF Pipeline!Stages
    <2>d. response' \in {None, 201, 422, 500}
      BY <2>1, <2>2
    <2>e. error' \in {None, "validation", "llm", "other"}
      BY ZenonT(60), <1>d, <2>1
    <2>4. Pipeline!TypeOK'
      BY ZenonT(60), <1>b, <1>c, <2>1, <2>2, <2>3, <2>c, <2>d, <2>e, <2>f DEF Pipeline!TypeOK, Fit
    <2>5. RowFollows'
      BY <2>1, <2>2 DEF RowFollows
    <2>6. RecordIsOfAnswer'
      BY <2>1, <2>2 DEF RecordIsOfAnswer
    <2>7. SuiteIsFit'
      BY <2>1, <2>2 DEF SuiteIsFit, Fit
    <2>8. SessionFollows'
      BY ZenonT(60), <1>b, <2>1, <2>2 DEF SessionFollows
    <2>9. Pipeline!RowTellsTheOutcome'
      BY <1>a, <2>1, <2>2 DEF Pipeline!RowTellsTheOutcome, Pipeline!NewRow, Fit
    <2>10. Pipeline!ReplyTellsTheRow'
      BY ZenonT(60), <1>a, <1>b, <2>1, <2>2 DEF Pipeline!ReplyTellsTheRow, Pipeline!NewRow
    <2> QED
      BY <2>4, <2>5, <2>6, <2>7, <2>8, <2>9, <2>10 DEF PipelineInv
  <1>2. CASE Pipeline!ValidateInputSizes /\ stage' # "look up"
    <2>1. /\ stage = "validate" /\ stage' = "done" /\ response' = 422
          /\ UNCHANGED <<input, row, cache, session, attempt, last_usage, answer, asked, suite,
                           error>>
      BY ZenonT(60), <1>2
      DEF Pipeline!ValidateInputSizes, Pipeline!Reply, Pipeline!Raise, Pipeline!provider
    <2>2. /\ row = None
          /\ session = "usable"
          /\ asked = 0 /\ attempt = 1 /\ last_usage = None
          /\ cache = None \/ Fit(cache)
          /\ response = None
      BY <1>a, <2>1 DEF RowFollows, RecordIsOfAnswer, SuiteIsFit, SessionFollows
    <2>3. asked' \in 0..MAX_RETRIES + 1
      BY <1>m, <1>e, <2>1, <2>2
    <2>f. attempt' \in 1..MAX_RETRIES
      BY <1>m, <1>e, <2>1
    <2>c. stage' \in Pipeline!Stages
      BY <1>c, <2>1 DEF Pipeline!Stages
    <2>d. response' \in {None, 201, 422, 500}
      BY <2>1, <2>2
    <2>e. error' \in {None, "validation", "llm", "other"}
      BY <1>d, <2>1
    <2>4. Pipeline!TypeOK'
      BY <1>b, <1>c, <2>1, <2>2, <2>3, <2>c, <2>d, <2>e, <2>f DEF Pipeline!TypeOK, Fit
    <2>5. RowFollows'
      BY <2>1, <2>2 DEF RowFollows
    <2>6. RecordIsOfAnswer'
      BY <2>1, <2>2 DEF RecordIsOfAnswer
    <2>7. SuiteIsFit'
      BY <2>1, <2>2 DEF SuiteIsFit, Fit
    <2>8. SessionFollows'
      BY <1>b, <2>1, <2>2 DEF SessionFollows
    <2>9. Pipeline!RowTellsTheOutcome'
      BY <1>a, <2>1, <2>2 DEF Pipeline!RowTellsTheOutcome, Pipeline!NewRow, Fit
    <2>10. Pipeline!ReplyTellsTheRow'
      BY <1>a, <1>b, <2>1, <2>2 DEF Pipeline!ReplyTellsTheRow, Pipeline!NewRow
    <2> QED
      BY <2>4, <2>5, <2>6, <2>7, <2>8, <2>9, <2>10 DEF PipelineInv
  <1>3. CASE Pipeline!Create /\ cache # None
    <2>1. /\ stage = "look up" /\ stage' = "done" /\ response' = 201
          /\ row' = Pipeline!NewRow("completed", cache)
          /\ UNCHANGED <<input, cache, session, attempt, last_usage, answer, asked, suite, error>>
      BY <1>3 DEF Pipeline!Create, Pipeline!Reply, Pipeline!Raise, Pipeline!provider
    <2>2. /\ row = None
          /\ session = "usable"
          /\ asked = 0 /\ attempt = 1 /\ last_usage = None
          /\ cache = None \/ Fit(cache)
          /\ response = None
      BY ZenonT(60), <1>a, <2>1 DEF RowFollows, RecordIsOfAnswer, SuiteIsFit, SessionFollows
    <2>a. row' \in Pipeline!Rows /\ (cache # None => Fit(cache))
      BY <1>c, <2>1, <2>2, RowsAreTyped DEF SuiteIsFit, Fit
    <2>b. /\ row'.status = "completed" /\ row'.tokens = None
          /\ row'.json = cache /\ row'.code = cache
      BY <2>1 DEF Pipeline!NewRow
    <2>3. asked' \in 0..MAX_RETRIES + 1
      BY <1>m, <1>e, <2>1, <2>2
    <2>f. attempt' \in 1..MAX_RETRIES
      BY <1>m, <1>e, <2>1
    <2>c. stage' \in Pipeline!Stages
      BY <1>c, <2>1 DEF Pipeline!Stages
    <2>d. response' \in {None, 201, 422, 500}
      BY <2>1, <2>2
    <2>e. error' \in {None, "validation", "llm", "other"}
      BY ZenonT(60), <1>d, <2>1
    <2>4. Pipeline!TypeOK'
      BY ZenonT(60), <1>b, <1>c, <2>1, <2>2, <2>a, <2>3, <2>c, <2>d, <2>e, <2>f
      DEF Pipeline!TypeOK, Fit
    <2>5. RowFollows'
      BY <2>1, <2>2, <2>a DEF RowFollows
    <2>6. RecordIsOfAnswer'
      BY <2>1, <2>2, <2>a DEF RecordIsOfAnswer
    <2>7. SuiteIsFit'
      BY <2>1, <2>2, <2>a DEF SuiteIsFit, Fit
    <2>n. response' # 422 /\ response' # 500 /\ response' \in {201, 422, 500}
      <3>1. response' = 201
        BY <2>1
      <3> QED
        BY <3>1
    <2>8. SessionFollows'
      BY ZenonT(60), <2>1, <2>n DEF SessionFollows
    <2>9. Pipeline!RowTellsTheOutcome'
      <3>1. /\ row'.status = "completed" /\ row'.status # "failed"
            /\ row'.json = row'.code /\ row'.json.assertions = "rebuilt"
            /\ asked' = 0 /\ row'.tokens = None
        BY <1>3, <2>1, <2>2, <2>a, <2>b DEF Fit
      <3>2. Pipeline!Valid(row'.json)
        BY <1>3, <2>a, <2>b DEF Fit
      <3> QED
        BY <3>1, <3>2 DEF Pipeline!RowTellsTheOutcome
    <2>10. Pipeline!ReplyTellsTheRow'
      <3>1. row'.status = "completed" /\ response' # 500
        BY <2>b, <2>n
      <3> QED
        BY <3>1 DEF Pipeline!ReplyTellsTheRow
    <2> QED
      BY <2>4, <2>5, <2>6, <2>7, <2>8, <2>9, <2>10 DEF PipelineInv
  <1>4. CASE Pipeline!Create /\ cache = None
    <2>1. /\ stage = "look up" /\ stage' = "claim"
          /\ row' = Pipeline!NewRow("pending", None)
          /\ UNCHANGED <<input, cache, session, response, attempt, last_usage, answer, asked,
                           suite, error>>
      BY <1>4 DEF Pipeline!Create, Pipeline!Reply, Pipeline!Raise, Pipeline!provider
    <2>2. /\ row = None
          /\ session = "usable"
          /\ asked = 0 /\ attempt = 1 /\ last_usage = None
          /\ cache = None \/ Fit(cache)
          /\ response = None
      BY ZenonT(60), <1>a, <2>1 DEF RowFollows, RecordIsOfAnswer, SuiteIsFit, SessionFollows
    <2>a. row' \in Pipeline!Rows /\ (cache # None => Fit(cache))
      BY <1>c, <2>1, <2>2, RowsAreTyped DEF SuiteIsFit, Fit
    <2>3. asked' \in 0..MAX_RETRIES + 1
      BY <1>m, <1>e, <2>1, <2>2
    <2>f. attempt' \in 1..MAX_RETRIES
      BY <1>m, <1>e, <2>1
    <2>c. stage' \in Pipeline!Stages
      BY <1>c, <2>1 DEF Pipeline!Stages
    <2>d. response' \in {None, 201, 422, 500}
      BY <2>1, <2>2
    <2>e. error' \in {None, "validation", "llm", "other"}
      BY ZenonT(60), <1>d, <2>1
    <2>4. Pipeline!TypeOK'
      BY ZenonT(60), <1>b, <1>c, <2>1, <2>2, <2>a, <2>3, <2>c, <2>d, <2>e, <2>f
      DEF Pipeline!TypeOK, Fit
    <2>5. RowFollows'
      BY <2>1, <2>2, <2>a DEF RowFollows
    <2>6. RecordIsOfAnswer'
      BY <2>1, <2>2, <2>a DEF RecordIsOfAnswer
    <2>7. SuiteIsFit'
      BY <2>1, <2>2, <2>a DEF SuiteIsFit, Fit
    <2>8. SessionFollows'
      BY ZenonT(60), <1>b, <2>1, <2>2, <2>a DEF SessionFollows
    <2>9. Pipeline!RowTellsTheOutcome'
      BY <1>a, <2>1, <2>2, <2>a DEF Pipeline!RowTellsTheOutcome, Pipeline!NewRow, Fit
    <2>10. Pipeline!ReplyTellsTheRow'
      BY ZenonT(60), <1>a, <1>b, <2>1, <2>2, <2>a DEF Pipeline!ReplyTellsTheRow, Pipeline!NewRow
    <2> QED
      BY <2>4, <2>5, <2>6, <2>7, <2>8, <2>9, <2>10 DEF PipelineInv
  <1>5. CASE Pipeline!StartProcessing
    <2>1. /\ stage = "claim" /\ stage' = "analyse"
          /\ row' = [row EXCEPT !.status = "processing"]
          /\ UNCHANGED <<input, cache, session, response, attempt, last_usage, answer, asked, suite, error>>
      BY <1>5 DEF Pipeline!StartProcessing, Pipeline!Reply, Pipeline!Raise, Pipeline!provider
    <2>2. /\ row = Pipeline!NewRow("pending", None)
          /\ session = "usable"
          /\ asked = 0 /\ attempt = 1 /\ last_usage = None
          /\ response = None
      BY <1>a, <2>1 DEF RowFollows, RecordIsOfAnswer, SuiteIsFit, SessionFollows
    <2>a. row' = Pipeline!NewRow("processing", None) /\ row' \in Pipeline!Rows
      <3>1. row = Pipeline!NewRow("pending", None)
        BY <1>c, <2>1, <2>2 DEF RowFollows
      <3>2. row' = Pipeline!NewRow("processing", None)
        BY <2>1, <3>1 DEF Pipeline!NewRow
      <3> QED
        BY <3>2, RowsAreTyped
    <2>3. asked' \in 0..MAX_RETRIES + 1
      BY <1>m, <1>e, <2>1, <2>2
    <2>f. attempt' \in 1..MAX_RETRIES
      BY <1>m, <1>e, <2>1
    <2>c. stage' \in Pipeline!Stages
      BY <1>c, <2>1 DEF Pipeline!Stages
    <2>d. response' \in {None, 201, 422, 500}
      BY <2>1, <2>2
    <2>e. error' \in {None, "validation", "llm", "other"}
      BY <1>d, <2>1
    <2>4. Pipeline!TypeOK'
      BY <1>b, <1>c, <2>1, <2>2, <2>a, <2>3, <2>c, <2>d, <2>e, <2>f DEF Pipeline!TypeOK
    <2>5. RowFollows'
      BY <2>1, <2>2, <2>a DEF RowFollows
    <2>6. RecordIsOfAnswer'
      BY <2>1, <2>2, <2>a DEF RecordIsOfAnswer
    <2>7. SuiteIsFit'
      BY <2>1, <2>2, <2>a DEF SuiteIsFit
    <2>8. SessionFollows'
      BY <1>b, <2>1, <2>2, <2>a DEF SessionFollows
    <2>9. Pipeline!RowTellsTheOutcome'
      BY <1>a, <2>1, <2>2, <2>a DEF Pipeline!RowTellsTheOutcome, Pipeline!NewRow
    <2>10. Pipeline!ReplyTellsTheRow'
      BY <1>a, <1>b, <2>1, <2>2, <2>a DEF Pipeline!ReplyTellsTheRow, Pipeline!NewRow
    <2> QED
      BY <2>4, <2>5, <2>6, <2>7, <2>8, <2>9, <2>10 DEF PipelineInv
  <1>6. CASE Pipeline!Analyse
    <2>1. /\ stage = "analyse"
          /\ \/ stage' = "ask" /\ error' = error
             \/ stage' = "handle" /\ error' = "validation"
          /\ UNCHANGED <<input, row, cache, session, response, attempt, last_usage, answer, asked, suite>>
      BY <1>6 DEF Pipeline!Analyse, Pipeline!Reply, Pipeline!Raise, Pipeline!provider
    <2>2. /\ row = Pipeline!NewRow("processing", None)
          /\ session = "usable"
          /\ asked = 0 /\ attempt = 1 /\ last_usage = None
          /\ response = None
      BY <1>a, <2>1 DEF RowFollows, RecordIsOfAnswer, SuiteIsFit, SessionFollows
    <2>3. asked' \in 0..MAX_RETRIES + 1
      BY <1>m, <1>e, <2>1, <2>2
    <2>f. attempt' \in 1..MAX_RETRIES
      BY <1>m, <1>e, <2>1
    <2>c. stage' \in Pipeline!Stages
      BY <1>c, <2>1 DEF Pipeline!Stages
    <2>d. response' \in {None, 201, 422, 500}
      BY <2>1, <2>2
    <2>e. error' \in {None, "validation", "llm", "other"}
      BY <1>d, <2>1
    <2>4. Pipeline!TypeOK'
      BY <1>b, <1>c, <2>1, <2>2, <2>3, <2>c, <2>d, <2>e, <2>f DEF Pipeline!TypeOK
    <2>5. RowFollows'
      BY <2>1, <2>2 DEF RowFollows
    <2>g. asked + 1 = attempt
      BY <2>2
    <2>6. RecordIsOfAnswer'
      BY <2>1, <2>2, <2>g DEF RecordIsOfAnswer
    <2>7. SuiteIsFit'
      BY <2>1, <2>2 DEF SuiteIsFit
    <2>8. SessionFollows'
      BY <1>b, <2>1, <2>2 DEF SessionFollows
    <2>9. Pipeline!RowTellsTheOutcome'
      BY <1>a, <2>1, <2>2 DEF Pipeline!RowTellsTheOutcome, Pipeline!NewRow
    <2>10. Pipeline!ReplyTellsTheRow'
      BY <1>a, <1>b, <2>1, <2>2 DEF Pipeline!ReplyTellsTheRow, Pipeline!NewRow
    <2> QED
      BY <2>4, <2>5, <2>6, <2>7, <2>8, <2>9, <2>10 DEF PipelineInv
  <1>7. CASE Pipeline!Ask /\ answer'.text = None
    <2>1. /\ stage = "ask" /\ answer' \in Pipeline!Answers /\ asked' = asked + 1
          /\ last_usage' = None /\ stage' = "handle" /\ error' = "llm"
          /\ UNCHANGED <<input, row, cache, session, response, attempt, suite>>
      BY <1>7 DEF Pipeline!Ask, Pipeline!Reply, Pipeline!Raise, Pipeline!provider
    <2>2. /\ row = Pipeline!NewRow("processing", None)
          /\ session = "usable"
          /\ asked + 1 = attempt
          /\ response = None
      BY <1>a, <2>1 DEF RowFollows, RecordIsOfAnswer, SuiteIsFit, SessionFollows
    <2>a. /\ answer'.usage \in Pipeline!Usage
          /\ answer'.text # None => answer'.text \in Pipeline!Texts
      BY <2>1 DEF Pipeline!Answers
    <2>3. asked' \in 0..MAX_RETRIES + 1
      BY <1>m, <1>e, <2>1, <2>2
    <2>f. attempt' \in 1..MAX_RETRIES
      BY <1>m, <1>e, <2>1
    <2>c. stage' \in Pipeline!Stages
      BY <1>c, <2>1 DEF Pipeline!Stages
    <2>d. response' \in {None, 201, 422, 500}
      BY <2>1, <2>2
    <2>e. error' \in {None, "validation", "llm", "other"}
      BY <1>d, <2>1
    <2>4. Pipeline!TypeOK'
      BY <1>b, <1>c, <2>1, <2>2, <2>a, <2>3, <2>c, <2>d, <2>e, <2>f DEF Pipeline!TypeOK
    <2>5. RowFollows'
      BY <2>1, <2>2, <2>a DEF RowFollows
    <2>6. RecordIsOfAnswer'
      BY <2>1, <2>2, <2>a DEF RecordIsOfAnswer
    <2>7. SuiteIsFit'
      BY <2>1, <2>2, <2>a DEF SuiteIsFit
    <2>8. SessionFollows'
      BY <1>b, <2>1, <2>2, <2>a DEF SessionFollows
    <2>9. Pipeline!RowTellsTheOutcome'
      BY <1>a, <2>1, <2>2, <2>a DEF Pipeline!RowTellsTheOutcome, Pipeline!NewRow
    <2>10. Pipeline!ReplyTellsTheRow'
      BY <1>a, <1>b, <2>1, <2>2, <2>a DEF Pipeline!ReplyTellsTheRow, Pipeline!NewRow
    <2> QED
      BY <2>4, <2>5, <2>6, <2>7, <2>8, <2>9, <2>10 DEF PipelineInv
  <1>8. CASE Pipeline!Ask /\ answer'.text # None
    <2>1. /\ stage = "ask" /\ answer' \in Pipeline!Answers /\ asked' = asked + 1
          /\ last_usage' = answer'.usage
          /\ stage' = IF answer'.finish_reason = "STOP" THEN "parse" ELSE "ask again"
          /\ UNCHANGED <<input, row, cache, session, response, attempt, suite, error>>
      BY <1>8 DEF Pipeline!Ask, Pipeline!Reply, Pipeline!Raise, Pipeline!provider
    <2>2. /\ row = Pipeline!NewRow("processing", None)
          /\ session = "usable"
          /\ asked + 1 = attempt
          /\ response = None
      BY ZenonT(60), <1>a, <2>1 DEF RowFollows, RecordIsOfAnswer, SuiteIsFit, SessionFollows
    <2>a. /\ answer'.usage \in Pipeline!Usage
          /\ answer'.text # None => answer'.text \in Pipeline!Texts
      BY <2>1 DEF Pipeline!Answers
    <2>3. /\ asked' \in 0..MAX_RETRIES + 1
          /\ asked' = attempt
      <3>1. asked' = asked + 1 /\ asked + 1 = attempt
        BY <2>1, <2>2
      <3> QED
        BY <1>m, <1>e, <3>1
    <2>f. attempt' \in 1..MAX_RETRIES
      BY <1>m, <1>e, <2>1
    <2>c. stage' \in Pipeline!Stages
      BY <1>c, <2>1 DEF Pipeline!Stages
    <2>d. response' \in {None, 201, 422, 500}
      BY <2>1, <2>2
    <2>e. error' \in {None, "validation", "llm", "other"}
      BY ZenonT(60), <1>d, <2>1
    <2>4. Pipeline!TypeOK'
      BY ZenonT(60), <1>b, <1>c, <2>1, <2>2, <2>a, <2>3, <2>c, <2>d, <2>e, <2>f DEF Pipeline!TypeOK
    <2>5. RowFollows'
      BY <2>1, <2>2, <2>a DEF RowFollows
    <2>g. asked' <= attempt'
      <3>1. attempt' = attempt
        BY <2>1
      <3> QED
        BY <1>e, <2>3, <3>1
    <2>6. RecordIsOfAnswer'
      <3>1. /\ stage' \in {"parse", "ask again"} /\ answer' \in Pipeline!Answers
            /\ last_usage' = answer'.usage /\ answer'.text \in Pipeline!Texts
            /\ stage' = "parse" => answer'.finish_reason = "STOP"
        BY <1>8, <2>1, <2>a
      <3> QED
        BY <2>g, <3>1 DEF RecordIsOfAnswer
    <2>7. SuiteIsFit'
      BY <2>1, <2>2, <2>a DEF SuiteIsFit
    <2>8. SessionFollows'
      BY ZenonT(60), <1>b, <2>1, <2>2, <2>a DEF SessionFollows
    <2>9. Pipeline!RowTellsTheOutcome'
      BY <1>a, <2>1, <2>2, <2>a DEF Pipeline!RowTellsTheOutcome, Pipeline!NewRow
    <2>10. Pipeline!ReplyTellsTheRow'
      BY ZenonT(60), <1>a, <1>b, <2>1, <2>2, <2>a DEF Pipeline!ReplyTellsTheRow, Pipeline!NewRow
    <2> QED
      BY <2>4, <2>5, <2>6, <2>7, <2>8, <2>9, <2>10 DEF PipelineInv
  <1>9. CASE Pipeline!AskRaises /\ stage' # stage
    <2>1. /\ stage = "ask" /\ asked' = asked + 1 /\ stage' = "handle" /\ error' = "llm"
          /\ last_usage' \in {last_usage, None}
          /\ UNCHANGED <<input, row, cache, session, response, attempt, answer, suite>>
      BY <1>9 DEF Pipeline!AskRaises, Pipeline!Reply, Pipeline!Raise, Pipeline!provider
    <2>2. /\ row = Pipeline!NewRow("processing", None)
          /\ session = "usable"
          /\ asked + 1 = attempt
          /\ last_usage = None
          /\ response = None
      BY <1>a, <2>1 DEF RowFollows, RecordIsOfAnswer, SuiteIsFit, SessionFollows
    <2>3. /\ asked' \in 0..MAX_RETRIES + 1
          /\ asked' = attempt
      <3>1. asked' = asked + 1 /\ asked + 1 = attempt
        BY <2>1, <2>2
      <3> QED
        BY <1>m, <1>e, <3>1
    <2>f. attempt' \in 1..MAX_RETRIES
      BY <1>m, <1>e, <2>1
    <2>c. stage' \in Pipeline!Stages
      BY <1>c, <2>1 DEF Pipeline!Stages
    <2>d. response' \in {None, 201, 422, 500}
      BY <2>1, <2>2
    <2>e. error' \in {None, "validation", "llm", "other"}
      BY <1>d, <2>1
    <2>4. Pipeline!TypeOK'
      BY <1>b, <1>c, <2>1, <2>2, <2>3, <2>c, <2>d, <2>e, <2>f DEF Pipeline!TypeOK
    <2>5. RowFollows'
      BY <2>1, <2>2 DEF RowFollows
    <2>6. RecordIsOfAnswer'
      BY <2>1, <2>2 DEF RecordIsOfAnswer
    <2>7. SuiteIsFit'
      BY <2>1, <2>2 DEF SuiteIsFit
    <2>8. SessionFollows'
      BY <1>b, <2>1, <2>2 DEF SessionFollows
    <2>9. Pipeline!RowTellsTheOutcome'
      BY <1>a, <2>1, <2>2 DEF Pipeline!RowTellsTheOutcome, Pipeline!NewRow
    <2>10. Pipeline!ReplyTellsTheRow'
      BY <1>a, <1>b, <2>1, <2>2 DEF Pipeline!ReplyTellsTheRow, Pipeline!NewRow
    <2> QED
      BY <2>4, <2>5, <2>6, <2>7, <2>8, <2>9, <2>10 DEF PipelineInv
  <1>10. CASE Pipeline!AskRaises /\ stage' = stage
    <2>1. /\ stage = "ask" /\ asked' = asked + 1
          /\ attempt < MAX_RETRIES /\ attempt' = attempt + 1
          /\ UNCHANGED <<stage, input, row, cache, session, response, last_usage, answer, suite,
                           error>>
      BY <1>10 DEF Pipeline!AskRaises, Pipeline!Reply, Pipeline!Raise, Pipeline!provider
    <2>2. /\ row = Pipeline!NewRow("processing", None)
          /\ session = "usable"
          /\ asked + 1 = attempt
          /\ last_usage = None
          /\ response = None
      BY <1>a, <2>1 DEF RowFollows, RecordIsOfAnswer, SuiteIsFit, SessionFollows
    <2>3. /\ asked' \in 0..MAX_RETRIES + 1
          /\ asked' = attempt
      <3>1. asked' = asked + 1 /\ asked + 1 = attempt
        BY <2>1, <2>2
      <3> QED
        BY <1>m, <1>e, <3>1
    <2>f. attempt' \in 1..MAX_RETRIES
      BY <1>m, <1>e, <2>1
    <2>c. stage' \in Pipeline!Stages
      BY <1>c, <2>1 DEF Pipeline!Stages
    <2>d. response' \in {None, 201, 422, 500}
      BY <2>1, <2>2
    <2>e. error' \in {None, "validation", "llm", "other"}
      BY <1>d, <2>1
    <2>4. Pipeline!TypeOK'
      BY <1>b, <1>c, <2>1, <2>2, <2>3, <2>c, <2>d, <2>e, <2>f DEF Pipeline!TypeOK
    <2>5. RowFollows'
      BY <2>1, <2>2 DEF RowFollows
    <2>6. RecordIsOfAnswer'
      BY <2>1, <2>2 DEF RecordIsOfAnswer
    <2>7. SuiteIsFit'
      BY <2>1, <2>2 DEF SuiteIsFit
    <2>8. SessionFollows'
      BY <1>b, <2>1, <2>2 DEF SessionFollows
    <2>9. Pipeline!RowTellsTheOutcome'
      BY <1>a, <2>1, <2>2 DEF Pipeline!RowTellsTheOutcome, Pipeline!NewRow
    <2>10. Pipeline!ReplyTellsTheRow'
      BY <1>a, <1>b, <2>1, <2>2 DEF Pipeline!ReplyTellsTheRow, Pipeline!NewRow
    <2> QED
      BY <2>4, <2>5, <2>6, <2>7, <2>8, <2>9, <2>10 DEF PipelineInv
  <1>11. CASE Pipeline!AskAgain /\ stage' = "parse"
    <2>1. /\ stage = "ask again" /\ answer' \in Pipeline!Answers /\ asked' = asked + 1
          /\ last_usage' = answer'.usage /\ stage' = "parse"
          /\ answer'.text # None /\ answer'.finish_reason = "STOP"
          /\ UNCHANGED <<input, row, cache, session, response, attempt, suite, error>>
      BY <1>11 DEF Pipeline!AskAgain, Pipeline!Reply, Pipeline!Raise, Pipeline!provider
    <2>2. /\ row = Pipeline!NewRow("processing", None)
          /\ session = "usable"
          /\ asked <= attempt
          /\ response = None
      BY ZenonT(60), <1>a, <2>1 DEF RowFollows, RecordIsOfAnswer, SuiteIsFit, SessionFollows
    <2>a. /\ answer'.usage \in Pipeline!Usage
          /\ answer'.text # None => answer'.text \in Pipeline!Texts
      BY <2>1 DEF Pipeline!Answers
    <2>3. asked' \in 0..MAX_RETRIES + 1
      <3>1. asked' = asked + 1 /\ asked <= attempt
        BY <2>1, <2>2
      <3> QED
        BY <1>m, <1>e, <3>1
    <2>f. attempt' \in 1..MAX_RETRIES
      BY <1>m, <1>e, <2>1
    <2>c. stage' \in Pipeline!Stages
      BY <1>c, <2>1 DEF Pipeline!Stages
    <2>d. response' \in {None, 201, 422, 500}
      BY <2>1, <2>2
    <2>e. error' \in {None, "validation", "llm", "other"}
      BY ZenonT(60), <1>d, <2>1
    <2>4. Pipeline!TypeOK'
      BY ZenonT(60), <1>b, <1>c, <2>1, <2>2, <2>a, <2>3, <2>c, <2>d, <2>e, <2>f DEF Pipeline!TypeOK
    <2>5. RowFollows'
      BY <2>1, <2>2, <2>a DEF RowFollows
    <2>6. RecordIsOfAnswer'
      BY <2>1, <2>2, <2>a DEF RecordIsOfAnswer
    <2>7. SuiteIsFit'
      BY <2>1, <2>2, <2>a DEF SuiteIsFit
    <2>8. SessionFollows'
      BY ZenonT(60), <1>b, <2>1, <2>2, <2>a DEF SessionFollows
    <2>9. Pipeline!RowTellsTheOutcome'
      BY <1>a, <2>1, <2>2, <2>a DEF Pipeline!RowTellsTheOutcome, Pipeline!NewRow
    <2>10. Pipeline!ReplyTellsTheRow'
      BY ZenonT(60), <1>a, <1>b, <2>1, <2>2, <2>a DEF Pipeline!ReplyTellsTheRow, Pipeline!NewRow
    <2> QED
      BY <2>4, <2>5, <2>6, <2>7, <2>8, <2>9, <2>10 DEF PipelineInv
  <1>12. CASE Pipeline!AskAgain /\ stage' # "parse"
    <2>1. /\ stage = "ask again" /\ answer' \in Pipeline!Answers /\ asked' = asked + 1
          /\ last_usage' = answer'.usage /\ stage' = "handle" /\ error' = "llm"
          /\ UNCHANGED <<input, row, cache, session, response, attempt, suite>>
      BY <1>12 DEF Pipeline!AskAgain, Pipeline!Reply, Pipeline!Raise, Pipeline!provider
    <2>2. /\ row = Pipeline!NewRow("processing", None)
          /\ session = "usable"
          /\ asked <= attempt
          /\ response = None
      BY <1>a, <2>1 DEF RowFollows, RecordIsOfAnswer, SuiteIsFit, SessionFollows
    <2>a. /\ answer'.usage \in Pipeline!Usage
          /\ answer'.text # None => answer'.text \in Pipeline!Texts
      BY <2>1 DEF Pipeline!Answers
    <2>3. asked' \in 0..MAX_RETRIES + 1
      <3>1. asked' = asked + 1 /\ asked <= attempt
        BY <2>1, <2>2
      <3> QED
        BY <1>m, <1>e, <3>1
    <2>f. attempt' \in 1..MAX_RETRIES
      BY <1>m, <1>e, <2>1
    <2>c. stage' \in Pipeline!Stages
      BY <1>c, <2>1 DEF Pipeline!Stages
    <2>d. response' \in {None, 201, 422, 500}
      BY <2>1, <2>2
    <2>e. error' \in {None, "validation", "llm", "other"}
      BY <1>d, <2>1
    <2>4. Pipeline!TypeOK'
      BY ZenonT(60), <1>b, <1>c, <2>1, <2>2, <2>a, <2>3, <2>c, <2>d, <2>e, <2>f DEF Pipeline!TypeOK
    <2>5. RowFollows'
      BY <2>1, <2>2, <2>a DEF RowFollows
    <2>6. RecordIsOfAnswer'
      BY <2>1, <2>2, <2>a DEF RecordIsOfAnswer
    <2>7. SuiteIsFit'
      BY <2>1, <2>2, <2>a DEF SuiteIsFit
    <2>8. SessionFollows'
      BY ZenonT(60), <1>b, <2>1, <2>2, <2>a DEF SessionFollows
    <2>9. Pipeline!RowTellsTheOutcome'
      BY <1>a, <2>1, <2>2, <2>a DEF Pipeline!RowTellsTheOutcome, Pipeline!NewRow
    <2>10. Pipeline!ReplyTellsTheRow'
      BY ZenonT(60), <1>a, <1>b, <2>1, <2>2, <2>a DEF Pipeline!ReplyTellsTheRow, Pipeline!NewRow
    <2> QED
      BY <2>4, <2>5, <2>6, <2>7, <2>8, <2>9, <2>10 DEF PipelineInv
  <1>13. CASE Pipeline!AskAgainRaises
    <2>1. /\ stage = "ask again" /\ asked' = asked + 1
          /\ stage' = "handle" /\ error' = "llm"
          /\ UNCHANGED <<input, row, cache, session, response, attempt, last_usage, answer, suite>>
      BY <1>13 DEF Pipeline!AskAgainRaises, Pipeline!Reply, Pipeline!Raise, Pipeline!provider
    <2>2. /\ row = Pipeline!NewRow("processing", None)
          /\ session = "usable"
          /\ asked <= attempt
          /\ last_usage = answer.usage
          /\ response = None
      BY ZenonT(60), <1>a, <2>1 DEF RowFollows, RecordIsOfAnswer, SuiteIsFit, SessionFollows
    <2>3. asked' \in 0..MAX_RETRIES + 1
      <3>1. asked' = asked + 1 /\ asked <= attempt
        BY <2>1, <2>2
      <3> QED
        BY <1>m, <1>e, <3>1
    <2>f. attempt' \in 1..MAX_RETRIES
      BY <1>m, <1>e, <2>1
    <2>c. stage' \in Pipeline!Stages
      BY <1>c, <2>1 DEF Pipeline!Stages
    <2>d. response' \in {None, 201, 422, 500}
      BY <2>1, <2>2
    <2>e. error' \in {None, "validation", "llm", "other"}
      BY ZenonT(60), <1>d, <2>1
    <2>4. Pipeline!TypeOK'
      BY ZenonT(60), <1>b, <1>c, <2>1, <2>2, <2>3, <2>c, <2>d, <2>e, <2>f DEF Pipeline!TypeOK
    <2>5. RowFollows'
      BY <2>1, <2>2 DEF RowFollows
    <2>6. RecordIsOfAnswer'
      BY <2>1, <2>2 DEF RecordIsOfAnswer
    <2>7. SuiteIsFit'
      BY <2>1, <2>2 DEF SuiteIsFit
    <2>8. SessionFollows'
      BY ZenonT(60), <1>b, <2>1, <2>2 DEF SessionFollows
    <2>9. Pipeline!RowTellsTheOutcome'
      BY <1>a, <2>1, <2>2 DEF Pipeline!RowTellsTheOutcome, Pipeline!NewRow
    <2>10. Pipeline!ReplyTellsTheRow'
      BY ZenonT(60), <1>a, <1>b, <2>1, <2>2 DEF Pipeline!ReplyTellsTheRow, Pipeline!NewRow
    <2> QED
      BY <2>4, <2>5, <2>6, <2>7, <2>8, <2>9, <2>10 DEF PipelineInv
  <1>14. CASE Pipeline!ParseAndRender
    <2>1. /\ stage = "parse"
          /\ \/ /\ stage' = "handle" /\ error' \in {"validation", "other"} /\ suite' = suite
             \/ /\ stage' = "persist" /\ error' = error
                /\ Pipeline!Parsed(answer.text) # None /\ Pipeline!Valid(Pipeline!Parsed(answer.text))
                /\ suite' = Pipeline!Rebuilt(Pipeline!Parsed(answer.text))
          /\ UNCHANGED <<input, row, cache, session, response, attempt, last_usage, answer, asked>>
      BY <1>14 DEF Pipeline!ParseAndRender, Pipeline!Reply, Pipeline!Raise, Pipeline!provider
    <2>2. /\ row = Pipeline!NewRow("processing", None)
          /\ session = "usable"
          /\ last_usage = answer.usage
          /\ answer.finish_reason = "STOP"
          /\ answer \in Pipeline!Answers
          /\ answer.text \in Pipeline!Texts
          /\ response = None
      BY <1>a, <2>1 DEF RowFollows, RecordIsOfAnswer, SuiteIsFit, SessionFollows
    <2>a. stage' = "persist" => Fit(suite')
      BY <1>c, <2>1, <2>2, ParsedIsSuite DEF RecordIsOfAnswer
    <2>3. asked' \in 0..MAX_RETRIES + 1
      BY <1>m, <1>e, <2>1, <2>2
    <2>f. attempt' \in 1..MAX_RETRIES
      BY <1>m, <1>e, <2>1
    <2>c. stage' \in Pipeline!Stages
      BY <1>c, <2>1 DEF Pipeline!Stages
    <2>d. response' \in {None, 201, 422, 500}
      BY <2>1, <2>2
    <2>e. error' \in {None, "validation", "llm", "other"}
      BY <1>d, <2>1
    <2>4. Pipeline!TypeOK'
      BY <1>b, <1>c, <2>1, <2>2, <2>a, <2>3, <2>c, <2>d, <2>e, <2>f DEF Pipeline!TypeOK, Fit
    <2>5. RowFollows'
      BY <2>1, <2>2, <2>a DEF RowFollows
    <2>6. RecordIsOfAnswer'
      BY <2>1, <2>2, <2>a DEF RecordIsOfAnswer
    <2>7. SuiteIsFit'
      BY <2>1, <2>2, <2>a DEF SuiteIsFit, Fit
    <2>8. SessionFollows'
      BY <1>b, <2>1, <2>2, <2>a DEF SessionFollows
    <2>9. Pipeline!RowTellsTheOutcome'
      BY <1>a, <2>1, <2>2, <2>a DEF Pipeline!RowTellsTheOutcome, Pipeline!NewRow, Fit
    <2>10. Pipeline!ReplyTellsTheRow'
      BY <1>a, <1>b, <2>1, <2>2, <2>a DEF Pipeline!ReplyTellsTheRow, Pipeline!NewRow
    <2> QED
      BY <2>4, <2>5, <2>6, <2>7, <2>8, <2>9, <2>10 DEF PipelineInv
  <1>15. CASE Pipeline!Persist
    <2>1. /\ stage = "persist" /\ stage' = "store"
          /\ row' = [status |-> "completed", tokens |-> last_usage, json |-> suite, code |-> suite]
          /\ UNCHANGED <<input, cache, session, response, attempt, last_usage, answer, asked, suite, error>>
      BY <1>15 DEF Pipeline!Persist, Pipeline!Reply, Pipeline!Raise, Pipeline!provider
    <2>2. /\ session = "usable"
          /\ last_usage = answer.usage
          /\ answer.finish_reason = "STOP"
          /\ suite = Pipeline!Rebuilt(Pipeline!Parsed(answer.text))
          /\ Fit(suite)
          /\ response = None
      BY <1>a, <2>1 DEF RowFollows, RecordIsOfAnswer, SuiteIsFit, SessionFollows
    <2>a. row' \in Pipeline!Rows /\ Fit(suite)
      BY <1>c, <2>1, <2>2, RowsAreTyped DEF SuiteIsFit, Fit, Pipeline!TypeOK
    <2>b. row'.status = "completed" /\ row'.tokens = last_usage /\ row'.json = suite /\ row'.code = suite
      BY <2>1
    <2>3. asked' \in 0..MAX_RETRIES + 1
      BY <1>m, <1>e, <2>1, <2>2
    <2>f. attempt' \in 1..MAX_RETRIES
      BY <1>m, <1>e, <2>1
    <2>c. stage' \in Pipeline!Stages
      BY <1>c, <2>1 DEF Pipeline!Stages
    <2>d. response' \in {None, 201, 422, 500}
      BY <2>1, <2>2
    <2>e. error' \in {None, "validation", "llm", "other"}
      BY <1>d, <2>1
    <2>4. Pipeline!TypeOK'
      BY <1>b, <1>c, <2>1, <2>2, <2>a, <2>b, <2>3, <2>c, <2>d, <2>e, <2>f DEF Pipeline!TypeOK, Fit
    <2>5. RowFollows'
      BY <2>1, <2>2, <2>a, <2>b DEF RowFollows
    <2>6. RecordIsOfAnswer'
      BY <2>1, <2>2, <2>a, <2>b DEF RecordIsOfAnswer
    <2>7. SuiteIsFit'
      BY <2>1, <2>2, <2>a, <2>b DEF SuiteIsFit, Fit
    <2>8. SessionFollows'
      BY <1>b, <2>1, <2>2, <2>a, <2>b DEF SessionFollows
    <2>9. Pipeline!RowTellsTheOutcome'
      BY <1>a, <2>1, <2>2, <2>a, <2>b DEF Pipeline!RowTellsTheOutcome, Pipeline!NewRow, Fit
    <2>10. Pipeline!ReplyTellsTheRow'
      BY <1>a, <1>b, <2>1, <2>2, <2>a, <2>b DEF Pipeline!ReplyTellsTheRow, Pipeline!NewRow
    <2> QED
      BY <2>4, <2>5, <2>6, <2>7, <2>8, <2>9, <2>10 DEF PipelineInv
  <1>16. CASE Pipeline!Store
    <2>1. /\ stage = "store" /\ stage' = "return" /\ cache' = suite
          /\ session' \in {"usable", "broken"}
          /\ UNCHANGED <<input, row, response, attempt, last_usage, answer, asked, suite, error>>
      BY <1>16 DEF Pipeline!Store, Pipeline!Reply, Pipeline!Raise, Pipeline!provider
    <2>2. /\ session = "usable"
          /\ row \in Pipeline!Rows
          /\ row.status = "completed"
          /\ suite \in Pipeline!Suites
          /\ response = None
      BY <1>a, <2>1 DEF RowFollows, RecordIsOfAnswer, SuiteIsFit, SessionFollows
    <2>3. asked' \in 0..MAX_RETRIES + 1
      BY <1>m, <1>e, <2>1, <2>2
    <2>f. attempt' \in 1..MAX_RETRIES
      BY <1>m, <1>e, <2>1
    <2>c. stage' \in Pipeline!Stages
      BY <1>c, <2>1 DEF Pipeline!Stages
    <2>d. response' \in {None, 201, 422, 500}
      BY <2>1, <2>2
    <2>e. error' \in {None, "validation", "llm", "other"}
      BY <1>d, <2>1
    <2>4. Pipeline!TypeOK'
      BY <1>b, <1>c, <2>1, <2>2, <2>3, <2>c, <2>d, <2>e, <2>f DEF Pipeline!TypeOK
    <2>5. RowFollows'
      BY <2>1, <2>2 DEF RowFollows
    <2>6. RecordIsOfAnswer'
      BY <2>1, <2>2 DEF RecordIsOfAnswer
    <2>7. SuiteIsFit'
      BY <2>1, <2>2 DEF SuiteIsFit
    <2>8. SessionFollows'
      BY <1>b, <2>1, <2>2 DEF SessionFollows
    <2>9. Pipeline!RowTellsTheOutcome'
      BY <1>a, <2>1, <2>2 DEF Pipeline!RowTellsTheOutcome, Pipeline!NewRow
    <2>10. Pipeline!ReplyTellsTheRow'
      BY <1>a, <1>b, <2>1, <2>2 DEF Pipeline!ReplyTellsTheRow, Pipeline!NewRow
    <2> QED
      BY <2>4, <2>5, <2>6, <2>7, <2>8, <2>9, <2>10 DEF PipelineInv
  <1>17. CASE Pipeline!Handle
    <2>1. /\ stage = "handle" /\ session = "usable" /\ stage' = "return"
          /\ row' = [row EXCEPT !.status = "failed",
                                !.tokens = IF error = "llm" THEN last_usage ELSE @]
          /\ UNCHANGED <<input, cache, session, response, attempt, last_usage, answer, asked, suite, error>>
      BY <1>17 DEF Pipeline!Handle, Pipeline!Reply, Pipeline!Raise, Pipeline!provider
    <2>2. /\ row = Pipeline!NewRow("processing", None)
          /\ last_usage = None \/ last_usage = answer.usage
          /\ response = None
      BY <1>a, <2>1 DEF RowFollows, RecordIsOfAnswer, SuiteIsFit, SessionFollows
    <2>a. /\ row' \in Pipeline!Rows /\ row'.status = "failed" /\ row'.json = None /\ row'.code = None
          /\ row'.tokens \in {None, last_usage}
      <3>1. row = Pipeline!NewRow("processing", None)
        BY <1>c, <2>1, <2>2 DEF RowFollows
      <3>2. PICK u \in {None, last_usage} :
                row' = [status |-> "failed", tokens |-> u, json |-> None, code |-> None]
        BY <2>1, <3>1 DEF Pipeline!NewRow
      <3>3. u \in Pipeline!Usage
        BY <1>b, <1>c
      <3> QED
        BY <3>2, <3>3, RowsAreTyped
    <2>3. asked' \in 0..MAX_RETRIES + 1
      BY <1>m, <1>e, <2>1, <2>2
    <2>f. attempt' \in 1..MAX_RETRIES
      BY <1>m, <1>e, <2>1
    <2>c. stage' \in Pipeline!Stages
      BY <1>c, <2>1 DEF Pipeline!Stages
    <2>d. response' \in {None, 201, 422, 500}
      BY <2>1, <2>2
    <2>e. error' \in {None, "validation", "llm", "other"}
      BY <1>d, <2>1
    <2>4. Pipeline!TypeOK'
      BY <1>b, <1>c, <2>1, <2>2, <2>a, <2>3, <2>c, <2>d, <2>e, <2>f DEF Pipeline!TypeOK
    <2>5. RowFollows'
      BY <2>1, <2>2, <2>a DEF RowFollows
    <2>6. RecordIsOfAnswer'
      BY <2>1, <2>2, <2>a DEF RecordIsOfAnswer
    <2>7. SuiteIsFit'
      BY <2>1, <2>2, <2>a DEF SuiteIsFit
    <2>8. SessionFollows'
      BY <1>b, <2>1, <2>2, <2>a DEF SessionFollows
    <2>9. Pipeline!RowTellsTheOutcome'
      BY <1>a, <2>1, <2>2, <2>a DEF Pipeline!RowTellsTheOutcome, Pipeline!NewRow
    <2>10. Pipeline!ReplyTellsTheRow'
      BY <1>a, <1>b, <2>1, <2>2, <2>a DEF Pipeline!ReplyTellsTheRow, Pipeline!NewRow
    <2> QED
      BY <2>4, <2>5, <2>6, <2>7, <2>8, <2>9, <2>10 DEF PipelineInv
  <1>18. CASE Pipeline!WriteFails /\ stage = "persist"
    <2>1. /\ stage = "persist" /\ stage' = "handle" /\ session' = "broken" /\ error' = "other"
          /\ UNCHANGED <<input, row, cache, response, attempt, last_usage, answer, asked, suite>>
      BY <1>18 DEF Pipeline!WriteFails, Pipeline!Reply, Pipeline!Raise, Pipeline!provider
    <2>2. /\ stage = "persist" => row = Pipeline!NewRow("processing", None) /\ last_usage = answer.usage
          /\ stage = "claim" => row = Pipeline!NewRow("pending", None)
          /\ stage = "handle" => row = Pipeline!NewRow("processing", None)
          /\ stage = "look up" => row = None
          /\ response = None
      BY <1>a, <2>1 DEF RowFollows, RecordIsOfAnswer, SuiteIsFit, SessionFollows
    <2>3. asked' \in 0..MAX_RETRIES + 1
      BY <1>m, <1>e, <2>1, <2>2
    <2>f. attempt' \in 1..MAX_RETRIES
      BY <1>m, <1>e, <2>1
    <2>c. stage' \in Pipeline!Stages
      BY <1>c, <2>1 DEF Pipeline!Stages
    <2>d. response' \in {None, 201, 422, 500}
      BY <2>1, <2>2
    <2>e. error' \in {None, "validation", "llm", "other"}
      BY <1>d, <2>1
    <2>4. Pipeline!TypeOK'
      BY <1>b, <1>c, <2>1, <2>2, <2>3, <2>c, <2>d, <2>e, <2>f DEF Pipeline!TypeOK
    <2>5. RowFollows'
      BY <2>1, <2>2 DEF RowFollows
    <2>6. RecordIsOfAnswer'
      BY <2>1, <2>2 DEF RecordIsOfAnswer
    <2>7. SuiteIsFit'
      BY <2>1, <2>2 DEF SuiteIsFit
    <2>8. SessionFollows'
      BY <1>b, <2>1, <2>2 DEF SessionFollows
    <2>9. Pipeline!RowTellsTheOutcome'
      BY <1>a, <2>1, <2>2 DEF Pipeline!RowTellsTheOutcome, Pipeline!NewRow
    <2>10. Pipeline!ReplyTellsTheRow'
      BY <1>a, <1>b, <2>1, <2>2 DEF Pipeline!ReplyTellsTheRow, Pipeline!NewRow
    <2> QED
      BY <2>4, <2>5, <2>6, <2>7, <2>8, <2>9, <2>10 DEF PipelineInv
  <1>19. CASE Pipeline!WriteFails /\ stage # "persist"
    <2>1. /\ stage \in {"look up", "claim", "handle"} /\ stage' = "done"
          /\ session' = "broken" /\ response' = 500
          /\ UNCHANGED <<input, row, cache, attempt, last_usage, answer, asked, suite, error>>
      BY ZenonT(60), <1>19
      DEF Pipeline!WriteFails, Pipeline!Reply, Pipeline!Raise, Pipeline!provider
    <2>2. /\ stage = "persist" => row = Pipeline!NewRow("processing", None) /\ last_usage = answer.usage
          /\ stage = "claim" => row = Pipeline!NewRow("pending", None)
          /\ stage = "handle" => row = Pipeline!NewRow("processing", None)
          /\ stage = "look up" => row = None
          /\ response = None
      BY ZenonT(60), <1>a, <2>1 DEF RowFollows, RecordIsOfAnswer, SuiteIsFit, SessionFollows
    <2>3. asked' \in 0..MAX_RETRIES + 1
      BY <1>m, <1>e, <2>1, <2>2
    <2>f. attempt' \in 1..MAX_RETRIES
      BY <1>m, <1>e, <2>1
    <2>c. stage' \in Pipeline!Stages
      BY <1>c, <2>1 DEF Pipeline!Stages
    <2>d. response' \in {None, 201, 422, 500}
      BY ZenonT(60), <2>1, <2>2
    <2>e. error' \in {None, "validation", "llm", "other"}
      BY ZenonT(60), <1>d, <2>1
    <2>4. Pipeline!TypeOK'
      BY ZenonT(60), <1>b, <1>c, <2>1, <2>2, <2>3, <2>c, <2>d, <2>e, <2>f DEF Pipeline!TypeOK
    <2>5. RowFollows'
      BY <2>1, <2>2 DEF RowFollows
    <2>6. RecordIsOfAnswer'
      BY <2>1, <2>2 DEF RecordIsOfAnswer
    <2>7. SuiteIsFit'
      BY <2>1, <2>2 DEF SuiteIsFit
    <2>n. response' # 422 /\ response' # 201 /\ response' \in {201, 422, 500}
      <3>1. response' = 500
        BY <2>1
      <3> QED
        BY <3>1
    <2>8. SessionFollows'
      BY ZenonT(60), <2>1, <2>n DEF SessionFollows
    <2>9. Pipeline!RowTellsTheOutcome'
      BY <1>a, <2>1, <2>2 DEF Pipeline!RowTellsTheOutcome, Pipeline!NewRow
    <2>10. Pipeline!ReplyTellsTheRow'
      <3>1. response' = 500 /\ session' = "broken"
        BY <2>1
      <3> QED
        BY <2>n, <3>1 DEF Pipeline!ReplyTellsTheRow
    <2> QED
      BY <2>4, <2>5, <2>6, <2>7, <2>8, <2>9, <2>10 DEF PipelineInv
  <1>20. CASE Pipeline!Return /\ session = "usable"
    <2>1. /\ stage = "return" /\ stage' = "done" /\ response' = 201 /\ session = "usable"
          /\ UNCHANGED <<input, row, cache, session, attempt, last_usage, answer, asked, suite,
                           error>>
      BY <1>20 DEF Pipeline!Return, Pipeline!Reply, Pipeline!Raise, Pipeline!provider
    <2>2. /\ row \in Pipeline!Rows
          /\ row.status \in {"completed", "failed"}
          /\ response = None
      BY <1>a, <2>1 DEF RowFollows, RecordIsOfAnswer, SuiteIsFit, SessionFollows
    <2>3. asked' \in 0..MAX_RETRIES + 1
      BY <1>m, <1>e, <2>1, <2>2
    <2>f. attempt' \in 1..MAX_RETRIES
      BY <1>m, <1>e, <2>1
    <2>c. stage' \in Pipeline!Stages
      BY <1>c, <2>1 DEF Pipeline!Stages
    <2>d. response' \in {None, 201, 422, 500}
      BY <2>1, <2>2
    <2>e. error' \in {None, "validation", "llm", "other"}
      BY <1>d, <2>1
    <2>4. Pipeline!TypeOK'
      BY <1>b, <1>c, <2>1, <2>2, <2>3, <2>c, <2>d, <2>e, <2>f DEF Pipeline!TypeOK
    <2>5. RowFollows'
      BY <2>1, <2>2 DEF RowFollows
    <2>6. RecordIsOfAnswer'
      BY <2>1, <2>2 DEF RecordIsOfAnswer
    <2>7. SuiteIsFit'
      BY <2>1, <2>2 DEF SuiteIsFit
    <2>8. SessionFollows'
      BY <1>b, <2>1, <2>2 DEF SessionFollows
    <2>9. Pipeline!RowTellsTheOutcome'
      BY <1>a, <2>1, <2>2 DEF Pipeline!RowTellsTheOutcome, Pipeline!NewRow
    <2>10. Pipeline!ReplyTellsTheRow'
      BY <1>a, <1>b, <2>1, <2>2 DEF Pipeline!ReplyTellsTheRow, Pipeline!NewRow
    <2> QED
      BY <2>4, <2>5, <2>6, <2>7, <2>8, <2>9, <2>10 DEF PipelineInv
  <1>21. CASE Pipeline!Return /\ session # "usable"
    <2>1. /\ stage = "return" /\ stage' = "done" /\ response' = 500 /\ session # "usable"
          /\ UNCHANGED <<input, row, cache, session, attempt, last_usage, answer, asked, suite,
                           error>>
      BY <1>21 DEF Pipeline!Return, Pipeline!Reply, Pipeline!Raise, Pipeline!provider
    <2>2. /\ row \in Pipeline!Rows
          /\ row.status \in {"completed", "failed"}
          /\ response = None
      BY <1>a, <2>1 DEF RowFollows, RecordIsOfAnswer, SuiteIsFit, SessionFollows
    <2>3. asked' \in 0..MAX_RETRIES + 1
      BY <1>m, <1>e, <2>1, <2>2
    <2>f. attempt' \in 1..MAX_RETRIES
      BY <1>m, <1>e, <2>1
    <2>c. stage' \in Pipeline!Stages
      BY <1>c, <2>1 DEF Pipeline!Stages
    <2>d. response' \in {None, 201, 422, 500}
      BY <2>1, <2>2
    <2>e. error' \in {None, "validation", "llm", "other"}
      BY <1>d, <2>1
    <2>4. Pipeline!TypeOK'
      BY <1>b, <1>c, <2>1, <2>2, <2>3, <2>c, <2>d, <2>e, <2>f DEF Pipeline!TypeOK
    <2>5. RowFollows'
      BY <2>1, <2>2 DEF RowFollows
    <2>6. RecordIsOfAnswer'
      BY <2>1, <2>2 DEF RecordIsOfAnswer
    <2>7. SuiteIsFit'
      BY <2>1, <2>2 DEF SuiteIsFit
    <2>8. SessionFollows'
      BY <1>b, <2>1, <2>2 DEF SessionFollows
    <2>9. Pipeline!RowTellsTheOutcome'
      BY <1>a, <2>1, <2>2 DEF Pipeline!RowTellsTheOutcome, Pipeline!NewRow
    <2>10. Pipeline!ReplyTellsTheRow'
      <3>1. response' = 500 /\ response' # 201 /\ session' = "broken"
        BY <1>c, <2>1
      <3> QED
        BY <3>1 DEF Pipeline!ReplyTellsTheRow
    <2> QED
      BY <2>4, <2>5, <2>6, <2>7, <2>8, <2>9, <2>10 DEF PipelineInv
  <1>22. CASE Pipeline!Die
    <2>1. /\ stage \notin {"done", "dead"} /\ stage' = "dead" /\ cache' = None
          /\ UNCHANGED <<input, row, session, response, attempt, last_usage, answer, asked, suite, error>>
      BY <1>22 DEF Pipeline!Die, Pipeline!Reply, Pipeline!Raise, Pipeline!provider
    <2>2. /\ response = None
      BY <1>a, <2>1 DEF RowFollows, RecordIsOfAnswer, SuiteIsFit, SessionFollows
    <2>3. asked' \in 0..MAX_RETRIES + 1
      BY <1>m, <1>e, <2>1, <2>2
    <2>f. attempt' \in 1..MAX_RETRIES
      BY <1>m, <1>e, <2>1
    <2>c. stage' \in Pipeline!Stages
      BY <1>c, <2>1 DEF Pipeline!Stages
    <2>d. response' \in {None, 201, 422, 500}
      BY <2>1, <2>2
    <2>e. error' \in {None, "validation", "llm", "other"}
      BY <1>d, <2>1
    <2>4. Pipeline!TypeOK'
      BY <1>b, <1>c, <2>1, <2>2, <2>3, <2>c, <2>d, <2>e, <2>f DEF Pipeline!TypeOK
    <2>5. RowFollows'
      BY <2>1, <2>2 DEF RowFollows
    <2>6. RecordIsOfAnswer'
      BY <2>1, <2>2 DEF RecordIsOfAnswer
    <2>7. SuiteIsFit'
      BY <2>1, <2>2 DEF SuiteIsFit
    <2>8. SessionFollows'
      BY <1>b, <2>1, <2>2 DEF SessionFollows
    <2>9. Pipeline!RowTellsTheOutcome'
      BY <1>a, <2>1, <2>2 DEF Pipeline!RowTellsTheOutcome, Pipeline!NewRow
    <2>10. Pipeline!ReplyTellsTheRow'
      BY <1>a, <1>b, <2>1, <2>2 DEF Pipeline!ReplyTellsTheRow, Pipeline!NewRow
    <2> QED
      BY <2>4, <2>5, <2>6, <2>7, <2>8, <2>9, <2>10 DEF PipelineInv
  <1>23. CASE UNCHANGED Pipeline!vars
    <2>1. UNCHANGED <<stage, input, row, cache, session, response, attempt, last_usage,
                      answer, asked, suite, error>>
      BY <1>23 DEF Pipeline!vars, Pipeline!provider
    <2>2. Pipeline!TypeOK'
      BY <1>c, <1>d, <2>1 DEF Pipeline!TypeOK
    <2>3. RowFollows' /\ RecordIsOfAnswer'
      BY ZenonT(60), <1>a, <2>1 DEF RowFollows, RecordIsOfAnswer
    <2>5. SuiteIsFit'
      BY <1>a, <2>1 DEF SuiteIsFit
    <2>6. SessionFollows'
      BY <1>a, <2>1 DEF SessionFollows
    <2>4. Pipeline!RowTellsTheOutcome' /\ Pipeline!ReplyTellsTheRow'
      BY <1>a, <2>1 DEF Pipeline!RowTellsTheOutcome, Pipeline!ReplyTellsTheRow
    <2> QED
      BY <2>2, <2>3, <2>4, <2>5, <2>6 DEF PipelineInv
  <1> QED
    BY <1>1, <1>2, <1>3, <1>4, <1>5, <1>6, <1>7, <1>8, <1>9, <1>10, <1>11, <1>12, <1>13, <1>14,
       <1>15, <1>16, <1>17, <1>18, <1>19, <1>20, <1>21, <1>22, <1>23 DEF Pipeline!Next

\* What holds of a request from its beginning to its end.
THEOREM PipelineInvariant == ServicesSpec => []PipelineInv
  <1>1. PipelineInv /\ [Pipeline!Next]_(Pipeline!vars) => PipelineInv'
    BY PipelineStep
  <1> QED
    BY <1>1, PipelineBegins, ServicesAreServices, PTL DEF Pipeline!Spec

\* However often the vendor is asked, wherever a write is refused or the process dies,
\* the row tells how the request ended and the reply tells the row
\* (generation_service.py, generate).
THEOREM OutcomesAreTold == ServicesSpec => []OutcomeIsTold
  <1>1. PipelineInv => OutcomeIsTold
    BY DEF PipelineInv, OutcomeIsTold
  <1> QED
    BY <1>1, PipelineInvariant, PTL

-----------------------------------------------------------------------------
(* The cost tracker: what each total is of.                                  *)

\* What the records of a sequence at some positions cost, where those of a provider
\* are, and where the end of equal elements of a sequence begins.
Spent(b, positions) == SumFunction([i \in positions |-> b[i].cost])
OfIn(b, p) == {i \in DOMAIN b : b[i].provider = p}
Since(ds, v) == {i \in DOMAIN ds : \A k \in i..Len(ds) : ds[k] = v}

Days(b) == [i \in 1..Len(b) |-> b[i].day]
Months(b) == [i \in 1..Len(b) |-> Costing!MonthOf(b[i].day)]

TotalsAreOfTheBooked ==
    \A p \in Billed :
        /\ cumulative[p] = Spent(booked, OfIn(booked, p))
        /\ requests[p] = Cardinality(OfIn(booked, p))
        /\ daily[p] = Spent(booked, OfIn(booked, p) \cap Since(Days(booked), dailyDate))
        /\ monthly[p] = Spent(booked, OfIn(booked, p) \cap Since(Months(booked), monthlyMonth))

DatesAreOfTheLast ==
    booked # <<>> => /\ dailyDate = booked[Len(booked)].day
                     /\ monthlyMonth = Costing!MonthOf(dailyDate)

CostingInv ==
    /\ Costing!TypeOK
    /\ TotalsAreOfTheBooked
    /\ DatesAreOfTheLast
    /\ Costing!HistoryIsNewest

LEMMA RecordsAreTyped ==
    ASSUME NEW r \in Costing!CostRecord
    PROVE  /\ r.cost \in Nat /\ r.day \in Costing!Day /\ r.day \in Nat
           /\ r.provider \in Billed /\ r.workflow \in Workflows \cup {None}
  <1>1. r.cost \in Costs /\ r.day \in Costing!Day /\ r.provider \in Billed /\ r.workflow \in Workflows \cup {None}
    BY DEF Costing!CostRecord
  <1>2. Costs \subseteq Nat /\ LAST_DAY \in Nat
    BY ServicesAssumption DEF Costing!CostTrackerAssumption
  <1>3. Costing!Day \subseteq Nat
    BY <1>2 DEF Costing!Day
  <1> QED
    BY <1>1, <1>2, <1>3

\* A part of what was booked costs no more than all of it.
LEMMA SpentGrows ==
    ASSUME NEW b \in Seq(Costing!CostRecord), NEW S \in SUBSET (1..Len(b)), NEW T \in SUBSET S
    PROVE  /\ Spent(b, T) \in Nat /\ Spent(b, S) \in Nat
           /\ Spent(b, T) <= Spent(b, S)
           /\ T = {} => Spent(b, T) = 0
  <1> DEFINE g == [i \in S |-> b[i].cost]
             f == [i \in T |-> g[i]]
  <1>1. IsFiniteSet(S)
    <2>1. IsFiniteSet(1..Len(b))
      BY FS_Interval
    <2> QED
      BY <2>1, FS_Subset
  <1>2. \A i \in S : b[i] \in Costing!CostRecord
    OBVIOUS
  <1>3. g \in [S -> Nat]
    BY <1>2, RecordsAreTyped
  <1>4. f = [i \in T |-> b[i].cost]
    OBVIOUS
  <1>5. Spent(b, S) = SumFunction(g)
    BY DEF Spent
  <1>6. Spent(b, T) = SumFunction(f)
    BY <1>4 DEF Spent
  <1>8. [i \in S |-> g[i]] = g
    OBVIOUS
  <1> HIDE DEF g
  <1>7. SumFunction(f) \in Nat /\ SumFunction(f) <= SumFunction(g) /\ (T = {} => SumFunction(f) = 0)
    BY <1>1, <1>3, SumFunctionGrows
  <1>9. SumFunction(g) \in Nat
    BY <1>1, <1>3, <1>8, SumFunctionGrows
  <1> HIDE DEF f
  <1> QED
    BY <1>5, <1>6, <1>7, <1>9

\* A record more adds what it costs, if it is counted.
LEMMA SpentAdds ==
    ASSUME NEW b \in Seq(Costing!CostRecord), NEW r \in Costing!CostRecord,
           NEW T \in SUBSET (1..Len(b))
    PROVE  /\ Spent(Append(b, r), T) = Spent(b, T)
           /\ Spent(Append(b, r), T \cup {Len(b) + 1}) = Spent(b, T) + r.cost
  <1> DEFINE n == Len(b) + 1
             c == Append(b, r)
             S == T \cup {n}
             g == [i \in S |-> c[i].cost]
  <1>1. Len(b) \in Nat /\ n \notin T /\ c[n] = r /\ \A i \in T : c[i] = b[i]
    OBVIOUS
  <1>2. IsFiniteSet(S)
    <2>1. IsFiniteSet(1..Len(b))
      BY FS_Interval
    <2>2. IsFiniteSet(T)
      BY <2>1, FS_Subset
    <2> QED
      BY <2>2, FS_AddElement
  <1>3. g \in [S -> Nat]
    <2>1. \A i \in T : b[i] \in Costing!CostRecord
      OBVIOUS
    <2>2. \A i \in S : c[i] \in Costing!CostRecord
      BY <1>1, <2>1
    <2> QED
      BY <2>2, RecordsAreTyped
  <1>4. [i \in T |-> c[i].cost] = [i \in T |-> b[i].cost]
    BY <1>1
  <1>5. [i \in T |-> g[i]] = [i \in T |-> c[i].cost]
    OBVIOUS
  <1>6. g[n] = r.cost
    BY <1>1
  <1>7. T = S \ {n} /\ n \in S
    BY <1>1
  <1>8. Spent(c, S) = SumFunction(g) /\ Spent(c, T) = Spent(b, T)
           /\ Spent(b, T) = SumFunction([i \in T |-> g[i]])
    BY <1>4, <1>5 DEF Spent
  <1> HIDE DEF g, S, n
  <1>9. SumFunction(g) = SumFunction([y \in T |-> g[y]]) + g[n]
    BY SMTT(30), <1>2, <1>3, <1>7, SumFunctionAdds
  <1>10. Spent(c, T) = Spent(b, T) /\ Spent(c, S) = Spent(b, T) + r.cost
    BY <1>6, <1>8, <1>9
  <1> QED
    BY <1>10 DEF S, n

\* What a provider's total becomes when one more record is booked.
Due(r, p) == IF r.provider = p THEN r.cost ELSE 0

Counted(b, r, p, X) == OfIn(Append(b, r), p) \cap (X \cup {Len(b) + 1})

LEMMA TotalAdds ==
    ASSUME NEW b \in Seq(Costing!CostRecord), NEW r \in Costing!CostRecord, NEW p,
           NEW X \in SUBSET (1..Len(b))
    PROVE  Spent(Append(b, r), Counted(b, r, p, X)) = Spent(b, OfIn(b, p) \cap X) + Due(r, p)
  <1> DEFINE n == Len(b) + 1
             c == Append(b, r)
             T == OfIn(b, p) \cap X
  <1>1. Len(b) \in Nat /\ c[n] = r /\ DOMAIN c = 1..n /\ DOMAIN b = 1..Len(b)
          /\ \A i \in 1..Len(b) : c[i] = b[i]
    OBVIOUS
  <1>2. T \in SUBSET (1..Len(b))
    OBVIOUS
  <1>3. OfIn(c, p) \cap (X \cup {n}) = IF r.provider = p THEN T \cup {n} ELSE T
    <2> HIDE DEF c
    <2>1. n \notin X /\ n \in 1..n /\ X \subseteq 1..n
      BY <1>1
    <2>2. n \in OfIn(c, p) <=> r.provider = p
      BY <1>1, <2>1 DEF OfIn
    <2>3. \A i \in X : i \in OfIn(c, p) <=> i \in OfIn(b, p)
      BY <1>1, <2>1 DEF OfIn
    <2> HIDE DEF n
    <2> QED
      BY <2>2, <2>3
  <1> HIDE DEF T
  <1>4. Spent(c, T) = Spent(b, T) /\ Spent(c, T \cup {n}) = Spent(b, T) + r.cost
    BY <1>2, SpentAdds
  <1>5. Spent(b, T) \in Nat
    BY <1>2, SpentGrows
  <1> HIDE DEF c, n
  <1>6. Spent(c, OfIn(c, p) \cap (X \cup {n})) = Spent(b, T) + Due(r, p)
    <2>1. CASE r.provider = p
      <3>1. OfIn(c, p) \cap (X \cup {n}) = T \cup {n} /\ Due(r, p) = r.cost
        BY <1>3, <2>1 DEF Due
      <3> QED
        BY <1>4, <3>1
    <2>2. CASE r.provider # p
      <3>1. OfIn(c, p) \cap (X \cup {n}) = T /\ Due(r, p) = 0
        BY <1>3, <2>2 DEF Due
      <3>2. Spent(c, OfIn(c, p) \cap (X \cup {n})) = Spent(b, T)
        BY <1>4, <3>1
      <3>3. Spent(b, T) = Spent(b, T) + Due(r, p)
        BY <1>5, <3>1
      <3> QED
        BY <3>2, <3>3
    <2> QED
      BY <2>1, <2>2
  <1> QED
    BY <1>6 DEF c, n, T, Counted

LEMMA AppendedFunction ==
    ASSUME NEW ds \in Seq(Nat), NEW v \in Nat
    PROVE  Append(ds, v) = [i \in 1..(Len(ds) + 1) |-> IF i = Len(ds) + 1 THEN v ELSE ds[i]]
  <1> DEFINE es == Append(ds, v)
             n == Len(ds) + 1
  <1>1. es \in Seq(Nat) /\ Len(es) = n /\ es[n] = v /\ \A i \in 1..Len(ds) : es[i] = ds[i]
    BY AppendProperties
  <1>2. \A i \in 1..n : i = n \/ i \in 1..Len(ds)
    OBVIOUS
  <1> HIDE DEF es, n
  <1>3. es = [i \in 1..n |-> es[i]]
    BY <1>1
  <1>4. \A i \in 1..n : es[i] = IF i = n THEN v ELSE ds[i]
    BY <1>1, <1>2
  <1>5. es = [i \in 1..n |-> IF i = n THEN v ELSE ds[i]]
    BY <1>3, <1>4
  <1> QED
    BY <1>5 DEF es, n

\* The number of a month is a natural, and grows with the day.
LEMMA MonthsGrow ==
    /\ \A d \in Nat : Costing!MonthOf(d) \in Nat
    /\ \A d, e \in Nat : d <= e => Costing!MonthOf(d) <= Costing!MonthOf(e)
  <1>1. DAYS_PER_MONTH \in Nat \ {0}
    BY ServicesAssumption DEF Costing!CostTrackerAssumption
  <1>2. \A d \in Nat, m \in Nat \ {0} : d \div m \in Nat
    OBVIOUS
  <1>3. ASSUME NEW d \in Nat, NEW e \in Nat, d <= e, NEW m \in Nat \ {0}
        PROVE  d \div m <= e \div m
    <2> DEFINE x == d \div m
               y == e \div m
    <2>1. x \in Nat /\ y \in Nat /\ m * x <= d /\ e < m * (y + 1)
      BY <1>3
    <2> HIDE DEF x, y
    <2>2. ASSUME x > y PROVE FALSE
      <3>1. x >= y + 1
        BY <2>1, <2>2
      <3>2. m * x >= m * (y + 1)
        BY <2>1, <3>1
      <3> QED
        BY <1>3, <2>1, <3>2
    <2>3. x <= y
      BY <2>1, <2>2
    <2> QED
      BY <2>3 DEF x, y
  <1> QED
    BY <1>1, <1>2, <1>3 DEF Costing!MonthOf

EndsIn(ds, w) == ds # <<>> => w = ds[Len(ds)]

\* An element more continues the end, if it is equal, or begins a new one.
LEMMA SinceAppended ==
    ASSUME NEW ds \in Seq(Nat), NEW v \in Nat, NEW w,
           EndsIn(ds, w)
    PROVE  /\ w = v => Since(Append(ds, v), v) = Since(ds, w) \cup {Len(ds) + 1}
           /\ w # v => Since(Append(ds, v), v) = {Len(ds) + 1}
  <1> DEFINE n == Len(ds)
             es == Append(ds, v)
  <1>1. /\ n \in Nat /\ Len(es) = n + 1 /\ es[n + 1] = v
        /\ DOMAIN es = 1..(n + 1) /\ DOMAIN ds = 1..n
        /\ \A k \in 1..n : es[k] = ds[k]
    OBVIOUS
  <1>0. n # 0 => w = ds[n]
    BY DEF EndsIn
  <1> HIDE DEF n, es
  <1>2. n + 1 \in Since(es, v)
    <2>1. \A k \in (n + 1)..(n + 1) : k = n + 1
      BY <1>1
    <2>2. n + 1 \in DOMAIN es
      BY <1>1
    <2> QED
      BY <1>1, <2>1, <2>2 DEF Since
  <1>3. ASSUME NEW i \in 1..n PROVE i \in Since(es, v) <=> (w = v /\ i \in Since(ds, w))
    <2>1. i \in DOMAIN es /\ i \in DOMAIN ds /\ n \in i..n /\ n # 0 /\ i..n \subseteq 1..n
            /\ i..n \subseteq i..(n + 1)
      BY <1>1
    <2>2. \A k \in i..(n + 1) : k \in i..n \/ k = n + 1
      BY <1>1
    <2>3. i \in Since(es, v) <=> \A k \in i..(n + 1) : es[k] = v
      BY <1>1, <2>1 DEF Since
    <2>4. i \in Since(ds, w) <=> \A k \in i..n : ds[k] = w
      BY <2>1 DEF Since, n
    <2>5. (\A k \in i..(n + 1) : es[k] = v) <=> (\A k \in i..n : ds[k] = v)
      BY <1>1, <2>1, <2>2
    <2>6. (\A k \in i..n : ds[k] = v) => w = v
      BY <1>0, <2>1
    <2> QED
      BY <2>3, <2>4, <2>5, <2>6
  <1>4. Since(es, v) \subseteq 1..(n + 1) /\ Since(ds, w) \subseteq 1..n
    BY <1>1 DEF Since
  <1>5. \A i \in 1..(n + 1) : i \in 1..n \/ i = n + 1
    BY <1>1
  <1>6. Since(es, v) = (IF w = v THEN Since(ds, w) ELSE {}) \cup {n + 1}
    BY <1>2, <1>3, <1>4, <1>5
  <1> QED
    BY <1>6 DEF n, es

-----------------------------------------------------------------------------
LEMMA CostingBegins == Costing!Init => CostingInv
  <1> SUFFICES ASSUME Costing!Init PROVE CostingInv
    OBVIOUS
  <1>a. /\ LAST_DAY \in Nat /\ MAX_HISTORY \in Nat \ {0}
    BY ServicesAssumption DEF Costing!CostTrackerAssumption
  <1>b. booked = <<>> /\ history = <<>> /\ Len(booked) = 0 /\ Len(history) = 0
    BY DEF Costing!Init
  <1>1. Costing!TypeOK
    <2>1. Costing!Zero \in Costing!Totals
      BY DEF Costing!Zero, Costing!Totals
    <2>2. booked \in Seq(Costing!CostRecord) /\ history \in Seq(Costing!CostRecord)
      BY <1>b
    <2>3. call \in [Threads -> Costing!CostRecord \cup {None}]
            /\ workflows \in [Workflows -> Nat] /\ today \in Costing!Day
      BY <1>a DEF Costing!Init, Costing!Day
    <2>4. Len(history) <= MAX_HISTORY
      BY <1>a, <1>b
    <2> QED
      BY <2>1, <2>2, <2>3, <2>4 DEF Costing!Init, Costing!TypeOK
  <1>2. TotalsAreOfTheBooked
    <2> SUFFICES ASSUME NEW p \in Billed
                 PROVE  /\ cumulative[p] = Spent(booked, OfIn(booked, p))
                        /\ requests[p] = Cardinality(OfIn(booked, p))
                        /\ \A X : /\ daily[p] = Spent(booked, OfIn(booked, p) \cap X)
                                  /\ monthly[p] = Spent(booked, OfIn(booked, p) \cap X)
      BY DEF TotalsAreOfTheBooked
    <2>1. OfIn(booked, p) = {}
      BY <1>b DEF OfIn
    <2>2. \A X : Spent(booked, OfIn(booked, p) \cap X) = 0
      <3>1. booked \in Seq(Costing!CostRecord) /\ {} \in SUBSET (1..Len(booked))
        BY <1>b
      <3>2. Spent(booked, {}) = 0
        BY <3>1, SpentGrows
      <3> QED
        BY <2>1, <3>2
    <2>3. OfIn(booked, p) \cap OfIn(booked, p) = OfIn(booked, p)
      OBVIOUS
    <2>4. Cardinality(OfIn(booked, p)) = 0
      BY <2>1, FS_EmptySet
    <2>5. cumulative[p] = 0 /\ requests[p] = 0 /\ daily[p] = 0 /\ monthly[p] = 0
      BY DEF Costing!Init, Costing!Zero
    <2>6. Spent(booked, OfIn(booked, p)) = 0
      BY <2>2, <2>3
    <2> QED
      BY <2>2, <2>4, <2>5, <2>6
  <1>3. DatesAreOfTheLast
    BY <1>b DEF DatesAreOfTheLast
  <1>4. Costing!HistoryIsNewest
    BY <1>a, <1>b DEF Costing!HistoryIsNewest
  <1> QED
    BY <1>1, <1>2, <1>3, <1>4 DEF CostingInv

\* What a step leaves alone keeps its invariant.
LEMMA CostingRests ==
    ASSUME CostingInv, UNCHANGED <<cumulative, requests, daily, monthly, workflows, dailyDate,
                                   monthlyMonth, history, booked>>,
           today' \in Costing!Day, call' \in [Threads -> Costing!CostRecord \cup {None}]
    PROVE  CostingInv'
  <1>1. Costing!TypeOK'
    BY DEF CostingInv, Costing!TypeOK
  <1>2. TotalsAreOfTheBooked'
    BY DEF CostingInv, TotalsAreOfTheBooked
  <1>3. DatesAreOfTheLast'
    BY DEF CostingInv, DatesAreOfTheLast
  <1>4. Costing!HistoryIsNewest'
    BY DEF CostingInv, Costing!HistoryIsNewest
  <1> QED
    BY <1>1, <1>2, <1>3, <1>4 DEF CostingInv

\* An addition leaves naturals.
LEMMA PlusAdds ==
    ASSUME NEW total \in Costing!Totals, NEW r \in Costing!CostRecord
    PROVE  /\ Costing!Plus(total, r) \in Costing!Totals
           /\ \A p \in Billed : Costing!Plus(total, r)[p] = total[p] + Due(r, p)
  <1>1. r.cost \in Nat /\ r.provider \in Billed
    BY RecordsAreTyped
  <1>2. \A p \in Billed : total[p] \in Nat
    BY DEF Costing!Totals
  <1>3. DOMAIN total = Billed /\ total = [p \in Billed |-> total[p]]
    BY DEF Costing!Totals
  <1>4. Costing!Plus(total, r)
          = [p \in Billed |-> IF p = r.provider THEN total[p] + r.cost ELSE total[p]]
    BY <1>1, <1>3 DEF Costing!Plus
  <1>5. \A p \in Billed : Costing!Plus(total, r)[p] = total[p] + Due(r, p)
    BY <1>1, <1>2, <1>4 DEF Due
  <1>6. \A p \in Billed : total[p] + Due(r, p) \in Nat
    BY <1>1, <1>2 DEF Due
  <1>7. Costing!Plus(total, r) = [p \in Billed |-> Costing!Plus(total, r)[p]]
    BY <1>4
  <1> QED
    BY <1>5, <1>6, <1>7 DEF Costing!Totals
-----------------------------------------------------------------------------
(* Booking a record.                                                         *)

LEMMA BookTotals ==
    ASSUME CostingInv, NEW t \in Threads, Costing!Book(t)
    PROVE  TotalsAreOfTheBooked'
  <1> DEFINE r == call[t]
             b == booked
             n == Len(b) + 1
  <1>a. Costing!TypeOK /\ TotalsAreOfTheBooked /\ DatesAreOfTheLast
    BY DEF CostingInv
  <1>b. /\ r \in Costing!CostRecord /\ b \in Seq(Costing!CostRecord)
        /\ cumulative \in Costing!Totals /\ requests \in Costing!Totals
        /\ daily \in Costing!Totals /\ monthly \in Costing!Totals
    BY <1>a DEF Costing!TypeOK, Costing!Book
  <1>c. /\ daily' = Costing!AddToDay(daily, r) /\ dailyDate' = r.day
        /\ monthly' = Costing!AddToMonth(monthly, r)
        /\ monthlyMonth' = Costing!MonthOf(r.day)
        /\ cumulative' = Costing!Plus(cumulative, r)
        /\ requests' = [requests EXCEPT ![r.provider] = @ + 1]
        /\ booked' = Append(b, r)
    BY DEF Costing!Book
  <1> HIDE DEF r, b
  <1>d. booked = b
    BY DEF b
  <1>e. Len(b) \in Nat /\ n \notin 1..Len(b)
    BY <1>b
  <1>1. ASSUME NEW p \in Billed
        PROVE  /\ OfIn(b, p) \in SUBSET (1..Len(b))
               /\ OfIn(b, p) = OfIn(b, p) \cap 1..Len(b)
               /\ OfIn(Append(b, r), p)
                    = OfIn(b, p) \cup (IF r.provider = p THEN {n} ELSE {})
               /\ OfIn(Append(b, r), p) = OfIn(Append(b, r), p) \cap (1..Len(b) \cup {n})
    <2>1. /\ DOMAIN Append(b, r) = 1..Len(b) \cup {n} /\ DOMAIN b = 1..Len(b)
          /\ Append(b, r)[n] = r /\ \A i \in 1..Len(b) : Append(b, r)[i] = b[i]
      BY <1>b
    <2> HIDE DEF n
    <2> QED
      BY <1>e, <2>1 DEF OfIn
  <1>2. ASSUME NEW p \in Billed
        PROVE  cumulative'[p] = Spent(Append(b, r), OfIn(Append(b, r), p))
    <2>1. cumulative'[p] = cumulative[p] + Due(r, p)
      BY <1>b, <1>c, PlusAdds
    <2>2. cumulative[p] = Spent(b, OfIn(b, p) \cap 1..Len(b))
      BY <1>a, <1>1, <1>d DEF TotalsAreOfTheBooked
    <2>3. Spent(Append(b, r), OfIn(Append(b, r), p) \cap (1..Len(b) \cup {Len(b) + 1}))
             = Spent(b, OfIn(b, p) \cap 1..Len(b)) + Due(r, p)
      <3>1. PICK X \in SUBSET (1..Len(b)) : X = 1..Len(b)
        OBVIOUS
      <3>2. b \in Seq(Costing!CostRecord) /\ r \in Costing!CostRecord
        BY <1>b
      <3>3. Spent(Append(b, r), Counted(b, r, p, X)) = Spent(b, OfIn(b, p) \cap X) + Due(r, p)
        BY <3>2, TotalAdds
      <3> QED
        BY <3>1, <3>3 DEF Counted
    <2> QED
      BY <1>1, <2>1, <2>2, <2>3
  <1>3. ASSUME NEW p \in Billed
        PROVE  requests'[p] = Cardinality(OfIn(Append(b, r), p))
    <2>1. requests[p] = Cardinality(OfIn(b, p)) /\ requests[p] \in Nat
      BY <1>a, <1>b, <1>d DEF TotalsAreOfTheBooked, Costing!Totals
    <2>2. requests'[p] = IF r.provider = p THEN requests[p] + 1 ELSE requests[p]
      BY <1>b, <1>c DEF Costing!Totals
    <2>3. IsFiniteSet(OfIn(b, p))
      <3>1. IsFiniteSet(1..Len(b))
        BY <1>e, FS_Interval
      <3> QED
        BY <1>1, <3>1, FS_Subset
    <2>4. n \notin OfIn(b, p)
      BY <1>1, <1>e
    <2> HIDE DEF n
    <2>5. Cardinality(OfIn(b, p) \cup {n}) = Cardinality(OfIn(b, p)) + 1
      BY <2>3, <2>4, FS_AddElement
    <2>6. CASE r.provider = p
      <3>1. OfIn(Append(b, r), p) = OfIn(b, p) \cup {n}
        BY <1>1, <2>6
      <3> QED
        BY <2>1, <2>2, <2>5, <2>6, <3>1
    <2>7. CASE r.provider # p
      <3>1. OfIn(Append(b, r), p) = OfIn(b, p)
        BY <1>1, <2>7
      <3> QED
        BY <2>1, <2>2, <2>7, <3>1
    <2> QED
      BY <2>6, <2>7
  <1>4. ASSUME NEW old \in Costing!Totals, NEW X \in SUBSET (1..Len(b)), NEW p \in Billed,
               old[p] = Spent(b, OfIn(b, p) \cap X)
        PROVE  Costing!Plus(old, r)[p]
                 = Spent(Append(b, r), OfIn(Append(b, r), p) \cap (X \cup {Len(b) + 1}))
    <2>1. Costing!Plus(old, r)[p] = old[p] + Due(r, p)
      BY <1>b, PlusAdds
    <2>2. Spent(Append(b, r), Counted(b, r, p, X)) = Spent(b, OfIn(b, p) \cap X) + Due(r, p)
      BY <1>b, TotalAdds
    <2>3. Costing!Plus(old, r)[p] = Spent(Append(b, r), Counted(b, r, p, X))
      BY <1>4, <2>1, <2>2
    <2> QED
      BY <2>3 DEF Counted
  <1>z. /\ Costing!Zero \in Costing!Totals
        /\ \A p \in Billed : Costing!Zero[p] = Spent(b, OfIn(b, p) \cap {})
    <2>1. Spent(b, {}) = 0
      BY <1>b, SpentGrows
    <2>2. Costing!Zero \in Costing!Totals /\ \A p \in Billed : Costing!Zero[p] = 0
      BY DEF Costing!Totals, Costing!Zero
    <2>3. \A p \in Billed : OfIn(b, p) \cap {} = {}
      OBVIOUS
    <2> QED
      BY <2>1, <2>2, <2>3
  <1>y. ASSUME NEW p \in Billed
        PROVE  Costing!Plus(Costing!Zero, r)[p]
                 = Spent(Append(b, r), OfIn(Append(b, r), p) \cap {Len(b) + 1})
    <2>1. PICK X \in SUBSET (1..Len(b)) : X = {}
      OBVIOUS
    <2>2. Costing!Zero[p] = Spent(b, OfIn(b, p) \cap X)
      BY <1>z, <2>1
    <2>3. Costing!Plus(Costing!Zero, r)[p]
            = Spent(Append(b, r), OfIn(Append(b, r), p) \cap (X \cup {Len(b) + 1}))
      BY <1>4, <1>z, <2>2
    <2>4. X \cup {Len(b) + 1} = {Len(b) + 1}
      BY <2>1
    <2> QED
      BY <2>3, <2>4
  <1>5. /\ Days(b) \in Seq(Nat) /\ Len(Days(b)) = Len(b)
        /\ r.day \in Nat
        /\ EndsIn(Days(b), dailyDate)
        /\ Days(Append(b, r)) = Append(Days(b), r.day)
    <2>1. \A i \in 1..Len(b) : b[i].day \in Nat
      BY <1>b, RecordsAreTyped
    <2>2. Days(b) \in Seq(Nat) /\ Len(Days(b)) = Len(b)
      BY <1>e, <2>1 DEF Days
    <2>3. Days(b) # <<>> => b # <<>> /\ Len(b) \in 1..Len(b)
      BY <1>b, <2>2
    <2>4. Days(b) # <<>> => dailyDate = Days(b)[Len(b)]
      BY <1>a, <1>d, <2>3 DEF DatesAreOfTheLast, Days
    <2>5. Days(Append(b, r)) = Append(Days(b), r.day)
      <3>1. Len(Append(b, r)) = n /\ Append(b, r)[n] = r
              /\ \A i \in 1..Len(b) : Append(b, r)[i] = b[i]
        BY <1>b
      <3>2. Append(Days(b), r.day)
              = [i \in 1..n |-> IF i = n THEN r.day ELSE Days(b)[i]]
        BY <1>b, <2>2, RecordsAreTyped, AppendedFunction
      <3>3. \A i \in 1..n : i # n => i \in 1..Len(b)
        BY <1>e
      <3>4. \A i \in 1..n : Append(b, r)[i].day = IF i = n THEN r.day ELSE Days(b)[i]
        BY <3>1, <3>3 DEF Days
      <3> HIDE DEF n
      <3> QED
        BY <3>1, <3>2, <3>4 DEF Days
    <2> QED
      BY <1>b, <2>2, <2>4, <2>5, RecordsAreTyped DEF EndsIn
  <1>6. /\ Months(b) \in Seq(Nat) /\ Len(Months(b)) = Len(b)
        /\ Costing!MonthOf(r.day) \in Nat
        /\ EndsIn(Months(b), monthlyMonth)
        /\ Months(Append(b, r)) = Append(Months(b), Costing!MonthOf(r.day))
    <2> DEFINE m == Costing!MonthOf(r.day)
    <2>0. m \in Nat
      BY <1>b, RecordsAreTyped, MonthsGrow
    <2>1. \A i \in 1..Len(b) : Costing!MonthOf(b[i].day) \in Nat
      <3>1. \A i \in 1..Len(b) : b[i].day \in Nat
        BY <1>b, RecordsAreTyped
      <3> QED
        BY <3>1, MonthsGrow
    <2>2. Months(b) \in Seq(Nat) /\ Len(Months(b)) = Len(b)
      BY <1>e, <2>1 DEF Months
    <2>3. Months(b) # <<>> => b # <<>> /\ Len(b) \in 1..Len(b)
      BY <1>b, <2>2
    <2>4. Months(b) # <<>> => monthlyMonth = Months(b)[Len(b)]
      BY <1>a, <1>d, <2>3 DEF DatesAreOfTheLast, Months
    <2>5. Months(Append(b, r)) = Append(Months(b), m)
      <3>1. Len(Append(b, r)) = n /\ Append(b, r)[n] = r
              /\ \A i \in 1..Len(b) : Append(b, r)[i] = b[i]
        BY <1>b
      <3> HIDE DEF m
      <3>2. Append(Months(b), m)
              = [i \in 1..n |-> IF i = n THEN m ELSE Months(b)[i]]
        BY <2>0, <2>2, AppendedFunction
      <3>3. \A i \in 1..n : i # n => i \in 1..Len(b)
        BY <1>e
      <3>4. \A i \in 1..n : Costing!MonthOf(Append(b, r)[i].day) = IF i = n THEN m ELSE Months(b)[i]
        BY <3>1, <3>3 DEF Months, m
      <3> HIDE DEF n
      <3> QED
        BY <3>1, <3>2, <3>4 DEF Months
    <2> QED
      BY <2>0, <2>2, <2>4, <2>5 DEF EndsIn
  <1>7. ASSUME NEW p \in Billed
        PROVE  daily'[p] = Spent(Append(b, r),
                                 OfIn(Append(b, r), p) \cap Since(Days(Append(b, r)), r.day))
    <2>1. daily[p] = Spent(b, OfIn(b, p) \cap Since(Days(b), dailyDate))
      BY <1>a, <1>d DEF TotalsAreOfTheBooked
    <2>2. Since(Days(b), dailyDate) \in SUBSET (1..Len(b))
      BY <1>5 DEF Since
    <2>3. /\ dailyDate = r.day => Since(Days(Append(b, r)), r.day)
                                       = Since(Days(b), dailyDate) \cup {Len(b) + 1}
          /\ dailyDate # r.day => Since(Days(Append(b, r)), r.day) = {Len(b) + 1}
      BY <1>5, SinceAppended
    <2>4. CASE dailyDate = r.day
      <3>1. daily' = Costing!Plus(daily, r)
        BY <1>c, <2>4 DEF Costing!AddToDay
      <3>2. Costing!Plus(daily, r)[p]
              = Spent(Append(b, r), OfIn(Append(b, r), p)
                                      \cap (Since(Days(b), dailyDate) \cup {Len(b) + 1}))
        BY <1>b, <1>4, <2>1, <2>2
      <3>3. Since(Days(Append(b, r)), r.day) = Since(Days(b), dailyDate) \cup {Len(b) + 1}
        BY <2>3, <2>4
      <3> QED
        BY <3>1, <3>2, <3>3
    <2>5. CASE dailyDate # r.day
      <3>1. daily' = Costing!Plus(Costing!Zero, r)
        BY <1>c, <2>5 DEF Costing!AddToDay
      <3>2. Since(Days(Append(b, r)), r.day) = {Len(b) + 1}
        BY <2>3, <2>5
      <3> QED
        BY <1>y, <3>1, <3>2
    <2> QED
      BY <2>4, <2>5
  <1>8. ASSUME NEW p \in Billed
        PROVE  monthly'[p]
                 = Spent(Append(b, r),
                         OfIn(Append(b, r), p)
                           \cap Since(Months(Append(b, r)), Costing!MonthOf(r.day)))
    <2> DEFINE m == Costing!MonthOf(r.day)
    <2>1. monthly[p] = Spent(b, OfIn(b, p) \cap Since(Months(b), monthlyMonth))
      BY <1>a, <1>d DEF TotalsAreOfTheBooked
    <2>2. monthly' = Costing!Plus(IF monthlyMonth = m THEN monthly ELSE Costing!Zero, r)
      BY <1>c DEF Costing!AddToMonth
    <2>3. /\ Months(b) \in Seq(Nat) /\ Len(Months(b)) = Len(b) /\ m \in Nat
          /\ EndsIn(Months(b), monthlyMonth)
          /\ Months(Append(b, r)) = Append(Months(b), m)
      BY <1>6
    <2> HIDE DEF m
    <2>4. Since(Months(b), monthlyMonth) \in SUBSET (1..Len(b))
      BY <2>3 DEF Since
    <2>5. /\ monthlyMonth = m => Since(Months(Append(b, r)), m)
                                     = Since(Months(b), monthlyMonth) \cup {Len(b) + 1}
          /\ monthlyMonth # m => Since(Months(Append(b, r)), m) = {Len(b) + 1}
      BY <2>3, SinceAppended
    <2>6. monthly'[p]
            = Spent(Append(b, r), OfIn(Append(b, r), p) \cap Since(Months(Append(b, r)), m))
      <3>1. CASE monthlyMonth = m
        <4>1. monthly' = Costing!Plus(monthly, r)
          BY <2>2, <3>1
        <4>2. Costing!Plus(monthly, r)[p]
                = Spent(Append(b, r), OfIn(Append(b, r), p)
                                        \cap (Since(Months(b), monthlyMonth) \cup {Len(b) + 1}))
          BY <1>b, <1>4, <2>1, <2>4
        <4>3. Since(Months(Append(b, r)), m) = Since(Months(b), monthlyMonth) \cup {Len(b) + 1}
          BY <2>5, <3>1
        <4> QED
          BY <4>1, <4>2, <4>3
      <3>2. CASE monthlyMonth # m
        <4>1. monthly' = Costing!Plus(Costing!Zero, r)
          BY <2>2, <3>2
        <4>2. Since(Months(Append(b, r)), m) = {Len(b) + 1}
          BY <2>5, <3>2
        <4> QED
          BY <1>y, <4>1, <4>2
      <3> QED
        BY <3>1, <3>2
    <2> QED
      BY <2>6 DEF m
  <1> QED
    BY <1>2, <1>3, <1>7, <1>8, <1>c DEF TotalsAreOfTheBooked

\* The newest records stay in the history.
LEMMA BookHistory ==
    ASSUME CostingInv, NEW t \in Threads, Costing!Book(t)
    PROVE  /\ Costing!HistoryIsNewest'
           /\ history' \in Seq(Costing!CostRecord) /\ Len(history') <= MAX_HISTORY
  <1> DEFINE r == call[t]
             h == history
             b == booked
  <1>a. /\ MAX_HISTORY \in Nat \ {0}
    BY ServicesAssumption DEF Costing!CostTrackerAssumption
  <1>b. r \in Costing!CostRecord /\ b \in Seq(Costing!CostRecord) /\ h \in Seq(Costing!CostRecord)
    BY DEF CostingInv, Costing!TypeOK, Costing!Book
  <1>c. /\ \A i \in 1..Len(h) : h[i] = b[i + Len(b) - Len(h)]
        /\ Len(h) = (IF Len(b) < MAX_HISTORY THEN Len(b) ELSE MAX_HISTORY)
    BY <1>b DEF CostingInv, Costing!HistoryIsNewest
  <1>d. history' = Costing!AddToHistory(h, r) /\ booked' = Append(b, r)
    BY DEF Costing!Book
  <1> HIDE DEF r, h, b
  <1>e. /\ Append(b, r) \in Seq(Costing!CostRecord) /\ Len(Append(b, r)) = Len(b) + 1
        /\ Append(b, r)[Len(b) + 1] = r /\ \A i \in 1..Len(b) : Append(b, r)[i] = b[i]
        /\ Len(b) \in Nat /\ Len(h) \in Nat
    BY <1>b
  <1>1. CASE Len(h) = MAX_HISTORY
    <2>1. /\ Tail(h) \in Seq(Costing!CostRecord) /\ Len(Tail(h)) = MAX_HISTORY - 1
          /\ \A i \in 1..(MAX_HISTORY - 1) : Tail(h)[i] = h[i + 1]
      BY <1>a, <1>b, <1>1
    <2>2. /\ history' \in Seq(Costing!CostRecord) /\ Len(history') = MAX_HISTORY
          /\ history'[MAX_HISTORY] = r
          /\ \A i \in 1..(MAX_HISTORY - 1) : history'[i] = h[i + 1]
      BY <1>a, <1>b, <1>d, <1>1, <2>1 DEF Costing!AddToHistory
    <2>3. ~(Len(b) < MAX_HISTORY)
      BY <1>a, <1>c, <1>e, <1>1
    <2>4. ASSUME NEW i \in 1..MAX_HISTORY
          PROVE  history'[i] = Append(b, r)[i + (Len(b) + 1) - MAX_HISTORY]
      <3>1. CASE i = MAX_HISTORY
        <4>1. i + (Len(b) + 1) - MAX_HISTORY = Len(b) + 1
          BY <1>a, <1>e, <3>1
        <4> QED
          BY <1>e, <2>2, <3>1, <4>1
      <3>2. CASE i # MAX_HISTORY
        <4>1. i \in 1..(MAX_HISTORY - 1) /\ i + 1 \in 1..Len(h)
          BY <1>a, <1>1, <3>2
        <4>2. history'[i] = b[(i + 1) + Len(b) - MAX_HISTORY]
          BY <1>c, <1>1, <2>2, <4>1
        <4>3. (i + 1) + Len(b) - MAX_HISTORY = i + (Len(b) + 1) - MAX_HISTORY
                /\ (i + 1) + Len(b) - MAX_HISTORY \in 1..Len(b)
          BY <1>a, <1>e, <2>3, <4>1
        <4> QED
          BY <1>e, <4>2, <4>3
      <3> QED
        BY <3>1, <3>2
    <2>5. DOMAIN history' = 1..MAX_HISTORY
      BY <2>2
    <2>6. Len(booked') = Len(b) + 1 /\ ~(Len(b) + 1 < MAX_HISTORY)
      BY <1>a, <1>d, <1>e, <2>3
    <2>7. Costing!HistoryIsNewest'
      BY <1>d, <2>2, <2>4, <2>5, <2>6 DEF Costing!HistoryIsNewest
    <2> QED
      BY <1>a, <2>2, <2>7
  <1>2. CASE Len(h) # MAX_HISTORY
    <2>1. Len(b) < MAX_HISTORY /\ Len(h) = Len(b)
      BY <1>a, <1>c, <1>e, <1>2
    <2>2. /\ history' \in Seq(Costing!CostRecord) /\ Len(history') = Len(b) + 1
          /\ history'[Len(b) + 1] = r
          /\ \A i \in 1..Len(b) : history'[i] = h[i]
      BY <1>b, <1>d, <1>2, <2>1 DEF Costing!AddToHistory
    <2>3. \A i \in 1..Len(b) : h[i] = b[i]
      <3> TAKE i \in 1..Len(b)
      <3>1. h[i] = b[i + Len(b) - Len(h)] /\ i + Len(b) - Len(h) = i
        BY <1>c, <1>e, <2>1
      <3> QED
        BY <3>1
    <2>4. ASSUME NEW i \in 1..(Len(b) + 1)
          PROVE  history'[i] = Append(b, r)[i + (Len(b) + 1) - (Len(b) + 1)]
      <3>1. i + (Len(b) + 1) - (Len(b) + 1) = i
        BY <1>e
      <3>2. i = Len(b) + 1 \/ i \in 1..Len(b)
        BY <1>e
      <3> QED
        BY <1>e, <2>2, <2>3, <3>1, <3>2
    <2>5. DOMAIN history' = 1..(Len(b) + 1)
      BY <2>2
    <2>6. Len(b) + 1 = IF Len(b) + 1 < MAX_HISTORY THEN Len(b) + 1 ELSE MAX_HISTORY
      BY <1>a, <1>e, <2>1
    <2>7. Costing!HistoryIsNewest'
      BY <1>d, <1>e, <2>2, <2>4, <2>5, <2>6 DEF Costing!HistoryIsNewest
    <2>8. Len(b) + 1 <= MAX_HISTORY
      BY <1>a, <1>e, <2>1
    <2> QED
      BY <2>2, <2>7, <2>8
  <1> QED
    BY <1>1, <1>2

LEMMA BookStep ==
    ASSUME CostingInv, NEW t \in Threads, Costing!Book(t)
    PROVE  CostingInv'
  <1> DEFINE r == call[t]
  <1>a. Costing!TypeOK
    BY DEF CostingInv
  <1>b. r \in Costing!CostRecord /\ booked \in Seq(Costing!CostRecord)
    BY <1>a DEF Costing!TypeOK, Costing!Book
  <1>c. r.cost \in Nat /\ r.day \in Costing!Day /\ r.provider \in Billed /\ r.workflow \in Workflows \cup {None}
    BY <1>b, RecordsAreTyped
  <1>d. /\ daily' = Costing!AddToDay(daily, r) /\ dailyDate' = r.day
        /\ monthly' = Costing!AddToMonth(monthly, r)
        /\ monthlyMonth' = Costing!MonthOf(r.day)
        /\ cumulative' = Costing!Plus(cumulative, r)
        /\ requests' = [requests EXCEPT ![r.provider] = @ + 1]
        /\ workflows' = IF r.workflow = None THEN workflows
                        ELSE [workflows EXCEPT ![r.workflow] = @ + r.cost]
        /\ booked' = Append(booked, r)
        /\ call' = [call EXCEPT ![t] = None] /\ today' = today
    BY DEF Costing!Book
  <1> HIDE DEF r
  <1>1. Costing!TypeOK'
    <2>1. Costing!Zero \in Costing!Totals
      BY DEF Costing!Zero, Costing!Totals
    <2>2. daily' \in Costing!Totals /\ monthly' \in Costing!Totals /\ cumulative' \in Costing!Totals
      BY <1>a, <1>b, <1>d, <2>1, PlusAdds DEF Costing!TypeOK, Costing!AddToDay, Costing!AddToMonth
    <2>3. requests' \in Costing!Totals
      BY <1>a, <1>c, <1>d DEF Costing!TypeOK, Costing!Totals
    <2>4. workflows' \in [Workflows -> Nat]
      BY <1>a, <1>c, <1>d DEF Costing!TypeOK
    <2>5. booked' \in Seq(Costing!CostRecord)
      BY <1>b, <1>d
    <2>6. dailyDate' \in Costing!Day \cup {None}
            /\ monthlyMonth' \in {Costing!MonthOf(d) : d \in Costing!Day} \cup {None}
      BY <1>c, <1>d
    <2>7. call' \in [Threads -> Costing!CostRecord \cup {None}] /\ today' \in Costing!Day
      BY <1>a, <1>d DEF Costing!TypeOK
    <2>8. history' \in Seq(Costing!CostRecord) /\ Len(history') <= MAX_HISTORY
      BY BookHistory
    <2> QED
      BY <2>2, <2>3, <2>4, <2>5, <2>6, <2>7, <2>8 DEF Costing!TypeOK
  <1>2. TotalsAreOfTheBooked' /\ Costing!HistoryIsNewest'
    BY BookTotals, BookHistory
  <1>3. DatesAreOfTheLast'
    <2>1. Append(booked, r)[Len(Append(booked, r))] = r
      BY <1>b
    <2> QED
      BY <1>d, <2>1 DEF DatesAreOfTheLast
  <1> QED
    BY <1>1, <1>2, <1>3 DEF CostingInv

LEMMA CostingStep ==
    ASSUME CostingInv, [Costing!Next]_(Costing!vars)
    PROVE  CostingInv'
  <1>a. Costing!TypeOK
    BY DEF CostingInv
  <1>1. CASE Costing!Midnight
    <2>1. today' \in Costing!Day
      BY <1>a, <1>1, ServicesAssumption
      DEF Costing!TypeOK, Costing!Midnight, Costing!Day, Costing!CostTrackerAssumption
    <2>2. call' \in [Threads -> Costing!CostRecord \cup {None}]
      BY <1>a, <1>1 DEF Costing!TypeOK, Costing!Midnight
    <2> QED
      BY <1>1, <2>1, <2>2, CostingRests DEF Costing!Midnight
  <1>2. ASSUME NEW t \in Threads, Costing!ReadClock(t) PROVE CostingInv'
    <2>1. today' \in Costing!Day
      BY <1>a, <1>2 DEF Costing!TypeOK, Costing!ReadClock
    <2>2. call' \in [Threads -> Costing!CostRecord \cup {None}]
      BY <1>a, <1>2 DEF Costing!TypeOK, Costing!ReadClock
    <2> QED
      BY <1>2, <2>1, <2>2, CostingRests DEF Costing!ReadClock
  <1>3. CASE UNCHANGED Costing!vars
    BY <1>a, <1>3, CostingRests DEF Costing!TypeOK, Costing!vars
  <1> QED
    BY <1>1, <1>2, <1>3, BookStep DEF Costing!Next

-----------------------------------------------------------------------------
(* What the invariant says of the books.                                     *)

LEMMA CountsAreCounts == \A S : Costing!Cardinality(S) = Cardinality(S)
  BY DEF Costing!Cardinality, Cardinality

LEMMA BookedTotals ==
    /\ \A positions : Costing!CostOf(positions) = Spent(booked, positions)
    /\ \A p : Costing!Of(p) = OfIn(booked, p)
    /\ booked \in Seq(Costing!CostRecord) => Costing!SinceDay = Since(Days(booked), dailyDate)
    /\ booked \in Seq(Costing!CostRecord) =>
         Costing!SinceMonth = Since(Months(booked), monthlyMonth)
  <1>1. \A positions : Costing!CostOf(positions) = Spent(booked, positions)
    BY DEF Costing!CostOf, Spent, SumFunction, SumFunctionOnSet, FoldFunctionOnSet, MapThenFoldSet,
           Costing!SumFunction, Costing!SumFunctionOnSet, Costing!FoldFunctionOnSet,
           Costing!MapThenFoldSet
  <1>2. \A p : Costing!Of(p) = OfIn(booked, p)
    BY DEF Costing!Of, OfIn
  <1>3. ASSUME booked \in Seq(Costing!CostRecord)
        PROVE  /\ Costing!SinceDay = Since(Days(booked), dailyDate)
               /\ Costing!SinceMonth = Since(Months(booked), monthlyMonth)
    <2>1. DOMAIN booked = 1..Len(booked) /\ Len(booked) \in Nat
      BY <1>3
    <2>2. Len(Days(booked)) = Len(booked) /\ Len(Months(booked)) = Len(booked)
      BY <2>1 DEF Days, Months
    <2>3. \A i \in 1..Len(booked) : \A k \in i..Len(booked) :
              /\ k \in 1..Len(booked) /\ Days(booked)[k] = booked[k].day
              /\ Months(booked)[k] = Costing!MonthOf(booked[k].day)
      BY <2>1 DEF Days, Months
    <2>4. DOMAIN Days(booked) = 1..Len(booked) /\ DOMAIN Months(booked) = 1..Len(booked)
      BY DEF Days, Months
    <2>5. Costing!SinceDay = Since(Days(booked), dailyDate)
      BY <2>1, <2>2, <2>3, <2>4 DEF Costing!SinceDay, Since
    <2>6. Costing!SinceMonth = Since(Months(booked), monthlyMonth)
      BY <2>1, <2>2, <2>3, <2>4 DEF Costing!SinceMonth, Since
    <2> QED
      BY <2>5, <2>6
  <1> QED
    BY <1>1, <1>2, <1>3

\* The end of the day is within the end of the month.
LEMMA DayIsInMonth ==
    ASSUME CostingInv
    PROVE  Since(Days(booked), dailyDate) \subseteq Since(Months(booked), monthlyMonth)
  <1>a. booked \in Seq(Costing!CostRecord) /\ DatesAreOfTheLast
    BY DEF CostingInv, Costing!TypeOK
  <1>b. Len(booked) \in Nat
    BY <1>a
  <1> SUFFICES ASSUME NEW i \in Since(Days(booked), dailyDate)
               PROVE  i \in Since(Months(booked), monthlyMonth)
    OBVIOUS
  <1>1. i \in 1..Len(booked) /\ \A k \in i..Len(booked) : Days(booked)[k] = dailyDate
    <2>1. DOMAIN Days(booked) = 1..Len(booked) /\ Len(Days(booked)) = Len(booked)
      BY <1>b DEF Days
    <2> QED
      BY <2>1 DEF Since
  <1>2. booked # <<>> /\ monthlyMonth = Costing!MonthOf(dailyDate)
    BY <1>a, <1>1 DEF DatesAreOfTheLast
  <1>3. \A k \in i..Len(booked) : Months(booked)[k] = monthlyMonth
    <2> TAKE k \in i..Len(booked)
    <2>1. k \in 1..Len(booked)
      BY <1>1, <1>b
    <2>2. Days(booked)[k] = booked[k].day /\ Months(booked)[k] = Costing!MonthOf(booked[k].day)
      BY <2>1 DEF Days, Months
    <2> QED
      BY <1>1, <1>2, <2>2
  <1>4. DOMAIN Months(booked) = 1..Len(booked) /\ Len(Months(booked)) = Len(booked)
    BY <1>b DEF Months
  <1> QED
    BY <1>1, <1>3, <1>4 DEF Since

LEMMA TotalsNest == CostingInv => Costing!TotalsAreNested /\ Costing!HistoryIsNewest
  <1> SUFFICES ASSUME CostingInv PROVE Costing!TotalsAreNested
    BY DEF CostingInv
  <1>a. booked \in Seq(Costing!CostRecord) /\ TotalsAreOfTheBooked
    BY DEF CostingInv, Costing!TypeOK
  <1>1. ASSUME NEW p \in Billed
        PROVE  daily[p] <= monthly[p] /\ monthly[p] <= cumulative[p]
    <2> DEFINE D == OfIn(booked, p) \cap Since(Days(booked), dailyDate)
               M == OfIn(booked, p) \cap Since(Months(booked), monthlyMonth)
    <2>1. OfIn(booked, p) \in SUBSET (1..Len(booked))
      BY <1>a DEF OfIn
    <2>2. D \in SUBSET M /\ M \in SUBSET OfIn(booked, p) /\ M \in SUBSET (1..Len(booked))
      BY <2>1, DayIsInMonth
    <2>3. daily[p] = Spent(booked, D) /\ monthly[p] = Spent(booked, M)
            /\ cumulative[p] = Spent(booked, OfIn(booked, p))
      BY <1>a DEF TotalsAreOfTheBooked
    <2> HIDE DEF D, M
    <2>4. Spent(booked, D) <= Spent(booked, M)
            /\ Spent(booked, M) <= Spent(booked, OfIn(booked, p))
      BY <1>a, <2>1, <2>2, SpentGrows
    <2> QED
      BY <2>3, <2>4
  <1>2. ASSUME NEW p \in Billed
        PROVE  /\ cumulative[p] = Costing!CostOf(Costing!Of(p))
               /\ requests[p] = Costing!Cardinality(Costing!Of(p))
               /\ daily[p] = Costing!CostOf(Costing!Of(p) \cap Costing!SinceDay)
               /\ monthly[p] = Costing!CostOf(Costing!Of(p) \cap Costing!SinceMonth)
    BY <1>a, BookedTotals, CountsAreCounts DEF TotalsAreOfTheBooked
  <1> QED
    BY <1>1, <1>2 DEF Costing!TotalsAreNested

\* While the dates do not fall, those of the last day are at the end.
LEMMA DayCompletes == CostingInv => Costing!DayIsComplete
  <1> SUFFICES ASSUME CostingInv,
                      \A i, k \in DOMAIN booked : i <= k => booked[i].day <= booked[k].day,
                      NEW p \in Billed
               PROVE  /\ daily[p] = Costing!CostOf({i \in Costing!Of(p) : booked[i].day = dailyDate})
                      /\ monthly[p] = Costing!CostOf({i \in Costing!Of(p) :
                                             Costing!MonthOf(booked[i].day) = monthlyMonth})
    BY DEF Costing!DayIsComplete
  <1>a. booked \in Seq(Costing!CostRecord) /\ TotalsAreOfTheBooked /\ DatesAreOfTheLast
    BY DEF CostingInv, Costing!TypeOK
  <1>b. Len(booked) \in Nat /\ DOMAIN booked = 1..Len(booked)
    BY <1>a
  <1>c. \A i \in 1..Len(booked) : booked[i].day \in Nat
    BY <1>a, RecordsAreTyped
  <1>1. ASSUME NEW i \in 1..Len(booked), NEW k \in i..Len(booked)
        PROVE  /\ k \in 1..Len(booked)
               /\ Days(booked)[k] = booked[k].day
               /\ Months(booked)[k] = Costing!MonthOf(booked[k].day)
               /\ booked[i].day = dailyDate => booked[k].day = dailyDate
               /\ Costing!MonthOf(booked[i].day) = monthlyMonth =>
                    Costing!MonthOf(booked[k].day) = monthlyMonth
    <2> DEFINE n == Len(booked)
    <2>1. k \in 1..n /\ n \in 1..n /\ i <= k /\ k <= n
      BY <1>b
    <2>2. Days(booked)[k] = booked[k].day /\ Months(booked)[k] = Costing!MonthOf(booked[k].day)
      BY <2>1 DEF Days, Months
    <2>3. dailyDate = booked[n].day /\ monthlyMonth = Costing!MonthOf(booked[n].day)
      BY <1>a, <2>1 DEF DatesAreOfTheLast
    <2>4. booked[i].day <= booked[k].day /\ booked[k].day <= booked[n].day
      BY <1>b, <2>1
    <2>5. booked[i].day \in Nat /\ booked[k].day \in Nat /\ booked[n].day \in Nat
      BY <1>c, <2>1
    <2> HIDE DEF n
    <2>6. booked[i].day = dailyDate => booked[k].day = dailyDate
      BY <2>3, <2>4, <2>5
    <2> DEFINE x == Costing!MonthOf(booked[i].day)
               y == Costing!MonthOf(booked[k].day)
               z == Costing!MonthOf(booked[n].day)
    <2>7. x \in Nat /\ y \in Nat /\ z \in Nat /\ x <= y /\ y <= z
      BY <2>4, <2>5, MonthsGrow
    <2>8. monthlyMonth = z
      BY <2>3
    <2> HIDE DEF x, y, z
    <2>9. x = monthlyMonth => y = monthlyMonth
      BY <2>7, <2>8
    <2> QED
      BY <2>1, <2>2, <2>6, <2>9 DEF x, y, n
  <1>2. /\ DOMAIN Days(booked) = 1..Len(booked) /\ Len(Days(booked)) = Len(booked)
        /\ DOMAIN Months(booked) = 1..Len(booked) /\ Len(Months(booked)) = Len(booked)
    BY <1>b DEF Days, Months
  <1>3. OfIn(booked, p) \subseteq 1..Len(booked)
    BY <1>b DEF OfIn
  <1>4. \A i \in 1..Len(booked) : i \in i..Len(booked)
    BY <1>b
  <1>5. \A i \in 1..Len(booked) :
            /\ i \in Since(Days(booked), dailyDate) <=> booked[i].day = dailyDate
            /\ i \in Since(Months(booked), monthlyMonth) <=>
                 Costing!MonthOf(booked[i].day) = monthlyMonth
    BY <1>1, <1>2, <1>4 DEF Since
  <1>6. /\ {i \in OfIn(booked, p) : booked[i].day = dailyDate}
             = OfIn(booked, p) \cap Since(Days(booked), dailyDate)
        /\ {i \in OfIn(booked, p) : Costing!MonthOf(booked[i].day) = monthlyMonth}
             = OfIn(booked, p) \cap Since(Months(booked), monthlyMonth)
    BY <1>3, <1>5
  <1>7. /\ daily[p] = Spent(booked, {i \in OfIn(booked, p) : booked[i].day = dailyDate})
        /\ monthly[p] = Spent(booked, {i \in OfIn(booked, p) :
                                          Costing!MonthOf(booked[i].day) = monthlyMonth})
    BY <1>a, <1>6 DEF TotalsAreOfTheBooked
  <1> QED
    BY <1>7, BookedTotals

\* What holds of the books after every step.
THEOREM CostingInvariant == ServicesSpec => []CostingInv
  <1>1. CostingInv /\ [Costing!Next]_(Costing!vars) => CostingInv'
    BY CostingStep
  <1> QED
    BY <1>1, CostingBegins, ServicesAreServices, PTL DEF Costing!Spec

\* Whatever threads do around midnight, the totals of the day, of the month and of
\* all time are nested, each is the sum of the records it stands for, and the history
\* is the end of the book (cost_tracker.py, record and _maybe_reset_daily).
THEOREM TheBooksAgree == ServicesSpec => []BooksAgree
  <1>1. CostingInv => BooksAgree
    BY TotalsNest DEF BooksAgree
  <1> QED
    BY <1>1, CostingInvariant, PTL

\* The totals of day and month are complete as long as no record was booked after
\* one of a later date (cost_tracker.py, _maybe_reset_daily).
THEOREM TheDayIsComplete == ServicesSpec => []DayIsComplete
  <1>1. CostingInv => DayIsComplete
    BY DayCompletes DEF DayIsComplete
  <1> QED
    BY <1>1, CostingInvariant, PTL

-----------------------------------------------------------------------------
(* Routing: what a call has read of a provider is what the provider was at   *)
(* some time since the reading began.                                        *)

Knows(t) ==
    /\ pc[t] = "idle" => read[t] = 0
    /\ pc[t] = "reading" =>
           /\ \A p \in Routing!Providers : Routing!Snapshot(stats[p]) \in seen[t][p]
           /\ \A i \in 1..read[t] : metrics[t][Registered[i]] \in seen[t][Registered[i]]
    /\ pc[t] = "chosen" =>
           /\ \A p \in Routing!Providers : metrics[t][p] \in seen[t][p]
           /\ strategy[t] \in Strategies
           /\ chosen[t] = Routing!SelectProvider(strategy[t], Routing!Available, metrics[t])

ReadIsSeen == \A t \in Threads : Knows(t)

RoutingInv == Routing!TypeOK /\ ReadIsSeen

\* A set of naturals that is not empty has a least element.
LEMMA LeastNatural ==
    ASSUME NEW S, S \subseteq Nat, S # {}
    PROVE  \E n \in S : \A m \in S : n <= m
  <1> DEFINE Less == {ss \in Nat \X Nat : ss[1] < ss[2]}
  <1>1. IsWellFoundedOn(Less, Nat)
    BY NatLessThanWellFounded DEF OpToRel
  <1>2. PICK n \in S : \A m \in S : <<m, n>> \notin Less
    <2> HIDE DEF Less
    <2> QED
      BY <1>1, WFMin
  <1>3. ASSUME NEW m \in S PROVE n <= m
    <2>1. m \in Nat /\ n \in Nat
      OBVIOUS
    <2>2. <<m, n>> \notin Less
      BY <1>2
    <2>3. ~(m < n)
      BY <2>1, <2>2
    <2> QED
      BY <2>1, <2>3
  <1> QED
    BY <1>3

\* ... and a greatest one, when they are bounded.
LEMMA GreatestNatural ==
    ASSUME NEW S, NEW b \in Nat, S \subseteq 0..b, S # {}
    PROVE  \E n \in S : \A m \in S : n >= m
  <1> DEFINE T == {n \in Nat : \A m \in S : n >= m}
  <1>1. PICK n \in T : \A m \in T : n <= m
    <2>1. T \subseteq Nat /\ b \in T
      OBVIOUS
    <2> HIDE DEF T
    <2> QED
      BY <2>1, LeastNatural
  <1>2. n \in Nat /\ \A m \in S : n >= m
    OBVIOUS
  <1>3. ASSUME n \notin S PROVE FALSE
    <2>1. \A m \in S : m \in Nat /\ n > m
      BY <1>2, <1>3
    <2>2. n # 0
      <3>1. PICK m \in S : TRUE
        OBVIOUS
      <3>2. m \in Nat /\ n > m
        BY <2>1
      <3> QED
        BY <1>2, <3>2
    <2>3. n - 1 \in Nat /\ \A m \in S : n - 1 >= m
      BY <1>2, <2>1, <2>2
    <2>4. n - 1 \in T
      BY <2>3
    <2>5. n <= n - 1
      BY <1>1, <2>4
    <2> QED
      BY <1>2, <2>5
  <1> QED
    BY <1>2, <1>3

\* The first of a list that is in a set is in the set.
LEMMA FirstIsInSet ==
    ASSUME NEW list, NEW n \in Nat, DOMAIN list = 1..n, NEW set,
           \E i \in DOMAIN list : list[i] \in set
    PROVE  Routing!First(list, set) \in set
  <1> DEFINE S == {i \in DOMAIN list : list[i] \in set}
  <1>1. S \subseteq Nat /\ S # {}
    OBVIOUS
  <1>2. PICK i \in S : \A m \in S : i <= m
    <2> HIDE DEF S
    <2> QED
      BY <1>1, LeastNatural
  <1>3. \A k \in 1..i - 1 : list[k] \notin set
    <2> SUFFICES ASSUME NEW k \in 1..i - 1, list[k] \in set PROVE FALSE
      OBVIOUS
    <2>1. k \in DOMAIN list /\ k < i /\ i \in Nat /\ k \in Nat
      OBVIOUS
    <2> QED
      BY <1>1, <1>2, <2>1
  <1> QED
    BY <1>2, <1>3 DEF Routing!First

\* The router's list has every provider, at a position.
LEMMA ListedProviders ==
    /\ Registered # <<>> /\ Len(Registered) \in Nat
    /\ DOMAIN Registered = 1..Len(Registered)
    /\ \A i \in DOMAIN Registered : Registered[i] \in Routing!Providers
    /\ \A p \in Routing!Providers : \E i \in DOMAIN Registered : Registered[i] = p
  <1>1. Registered \in Seq(DOMAIN Routing!PROVIDER_METADATA) /\ Registered # <<>>
    BY ServicesAssumption DEF Routing!HealthRoutingAssumption
  <1> QED
    BY <1>1 DEF Routing!Providers, Routing!Range

\* So the first of the list in a set of providers is one of them.
LEMMA FirstOfProviders ==
    ASSUME NEW set \in SUBSET Routing!Providers, set # {}
    PROVE  Routing!First(Registered, set) \in set
  <1>1. \E i \in DOMAIN Registered : Registered[i] \in set
    BY ListedProviders
  <1> QED
    BY <1>1, ListedProviders, FirstIsInSet

\* Among some providers one has the least value.
LEMMA LowestIsLowest ==
    ASSUME NEW available \in SUBSET Routing!Providers, available # {},
           NEW value, \A p \in available : value[p] \in Nat
    PROVE  /\ Routing!Lowest(available, value) \in available
           /\ \A q \in available : value[Routing!Lowest(available, value)] <= value[q]
  <1> DEFINE S == {value[p] : p \in available}
             best == {p \in available : \A q \in available : value[p] <= value[q]}
  <1>1. PICK n \in S : \A m \in S : n <= m
    <2>1. S \subseteq Nat /\ S # {}
      OBVIOUS
    <2> HIDE DEF S
    <2> QED
      BY <2>1, LeastNatural
  <1>2. best # {} /\ best \in SUBSET Routing!Providers
    BY <1>1
  <1>3. Routing!First(Registered, best) \in best
    <2> HIDE DEF best
    <2> QED
      BY <1>2, FirstOfProviders
  <1> QED
    BY <1>3 DEF Routing!Lowest

Percent == 0..10000

LEMMA GreatestPercent ==
    ASSUME NEW S, S \subseteq Percent, S # {}
    PROVE  \E n \in S : \A m \in S : n >= m
  <1> DEFINE b == 10000
  <1>1. b \in Nat /\ Percent = 0..b
    BY DEF Percent
  <1> HIDE DEF b
  <1>2. S \subseteq 0..b
    BY <1>1
  <1> QED
    BY <1>1, <1>2, GreatestNatural

\* ... and one the greatest, when the values are bounded.
LEMMA HighestIsHighest ==
    ASSUME NEW available \in SUBSET Routing!Providers, available # {},
           NEW value, \A p \in available : value[p] \in Percent
    PROVE  /\ Routing!Highest(available, value) \in available
           /\ \A q \in available : value[Routing!Highest(available, value)] >= value[q]
  <1> DEFINE S == {value[p] : p \in available}
             best == {p \in available : \A q \in available : value[p] >= value[q]}
  <1>1. PICK n \in S : \A m \in S : n >= m
    <2>1. S \subseteq Percent /\ S # {}
      OBVIOUS
    <2> HIDE DEF S
    <2> QED
      BY <2>1, GreatestPercent
  <1>2. best # {} /\ best \in SUBSET Routing!Providers
    BY <1>1
  <1>3. Routing!First(Registered, best) \in best
    <2> HIDE DEF best
    <2> QED
      BY <1>2, FirstOfProviders
  <1> QED
    BY <1>3 DEF Routing!Highest

Capabilities == [typical_latency_ms : Nat, estimated_input_cost : Nat,
                 quality_score : Percent, supports_reasoning : BOOLEAN]

\* What the registry says of a provider.
LEMMA MetadataTyped ==
    \A p \in Routing!Providers : Routing!PROVIDER_METADATA[p] \in Capabilities
  <1> DEFINE P == Routing!PROVIDER_METADATA
  <1>2. /\ P["Gemini"] \in Capabilities /\ P["OpenAI"] \in Capabilities
        /\ P["Claude"] \in Capabilities /\ P["Groq"] \in Capabilities
        /\ P["OpenRouter"] \in Capabilities
    <2>1. P["Gemini"] \in Capabilities
      <3>1. P["Gemini"] = Routing!Capability(800, 15, 88, TRUE)
        BY DEF Routing!PROVIDER_METADATA
      <3> QED
        BY <3>1 DEF Routing!Capability, Capabilities, Percent
    <2>2. P["OpenAI"] \in Capabilities
      <3>1. P["OpenAI"] = Routing!Capability(1200, 250, 92, TRUE)
        BY DEF Routing!PROVIDER_METADATA
      <3> QED
        BY <3>1 DEF Routing!Capability, Capabilities, Percent
    <2>3. P["Claude"] \in Capabilities
      <3>1. P["Claude"] = Routing!Capability(1500, 300, 94, TRUE)
        BY DEF Routing!PROVIDER_METADATA
      <3> QED
        BY <3>1 DEF Routing!Capability, Capabilities, Percent
    <2>4. P["Groq"] \in Capabilities
      <3>1. P["Groq"] = Routing!Capability(250, 59, 82, FALSE)
        BY DEF Routing!PROVIDER_METADATA
      <3> QED
        BY <3>1 DEF Routing!Capability, Capabilities, Percent
    <2>5. P["OpenRouter"] \in Capabilities
      <3>1. P["OpenRouter"] = Routing!Capability(2000, 55, 86, TRUE)
        BY DEF Routing!PROVIDER_METADATA
      <3> QED
        BY <3>1 DEF Routing!Capability, Capabilities, Percent
    <2> QED
      BY <2>1, <2>2, <2>3, <2>4, <2>5
  <1>3. DOMAIN P = {"Gemini", "OpenAI", "Claude", "Groq", "OpenRouter"}
    BY DEF Routing!PROVIDER_METADATA
  <1>4. Routing!Providers \subseteq DOMAIN P
    BY ServicesAssumption
    DEF Routing!HealthRoutingAssumption, Routing!Providers, Routing!Range
  <1> HIDE DEF P
  <1> QED
    BY <1>2, <1>3, <1>4 DEF P

\* The sum of a window of latencies is a natural.
LEMMA LatenciesAddUp ==
    ASSUME NEW window \in Seq(Nat)
    PROVE  Routing!SumFunction(window) \in Nat
  <1>1. window \in [1..Len(window) -> Nat] /\ Len(window) \in Nat
    OBVIOUS
  <1>2. IsFiniteSet(1..Len(window))
    BY <1>1, FS_Interval
  <1>3. SumFunction(window) = Total(window, 1..Len(window))
    BY <1>1, <1>2, SumFunctionIsTotal
  <1>4. Total(window, 1..Len(window)) \in Nat
    <2>1. PICK h : IsSumOf(h, window, 1..Len(window))
      BY <1>1, <1>2, SumExists
    <2> QED
      BY <1>1, <1>2, <2>1, TotalIsSum
  <1>5. Routing!SumFunction(window) = SumFunction(window)
    BY DEF SumFunction, SumFunctionOnSet, FoldFunctionOnSet, MapThenFoldSet,
           Routing!SumFunction, Routing!SumFunctionOnSet, Routing!FoldFunctionOnSet,
           Routing!MapThenFoldSet
  <1> QED
    BY <1>3, <1>4, <1>5

Share(n, total) == (10000 * n) \div total

\* A share of a total is within a hundred percent.
LEMMA ShareIsPercent ==
    ASSUME NEW n \in Nat, NEW total \in Nat, n <= total, total # 0
    PROVE  Share(n, total) \in Percent
  <1> DEFINE q == (10000 * n) \div total
  <1>1. q \in Int /\ q >= 0
    OBVIOUS
  <1>2. q * total <= 10000 * n
    OBVIOUS
  <1>3. ASSUME q > 10000 PROVE FALSE
    <2>1. q * total >= 10001 * total
      BY <1>1, <1>3
    <2>2. 10001 * total > 10000 * n
      OBVIOUS
    <2> QED
      BY <1>1, <1>2, <2>1, <2>2
  <1> QED
    BY SMTT(30), <1>1, <1>3 DEF Share, Percent

\* So is what is left of it for the latency, and the mean of two of them.
LEMMA SwiftnessIsPercent ==
    \A a \in Nat : (IF a > 5000 THEN 0 ELSE 10000 - 2 * a) \in Percent
  <1>1. \A a \in Nat : a <= 5000 => 10000 - 2 * a \in 0..10000
    OBVIOUS
  <1>2. 0 \in 0..10000
    OBVIOUS
  <1>3. \A a \in Nat : a > 5000 \/ a <= 5000
    OBVIOUS
  <1> QED
    BY SMTT(30), <1>1, <1>2, <1>3 DEF Percent

LEMMA MixIsPercent ==
    ASSUME NEW u \in Percent, NEW w \in Percent
    PROVE  (7 * u + 3 * w) \div 10 \in Percent
  <1> DEFINE x == 7 * u + 3 * w
             q == x \div 10
  <1>1. u \in Int /\ w \in Int /\ 0 <= u /\ u <= 10000 /\ 0 <= w /\ w <= 10000
    BY SMTT(30) DEF Percent
  <1>2. x \in Int /\ 0 <= x /\ x <= 100000
    BY <1>1
  <1> HIDE DEF x
  <1>3. q \in Int /\ 10 * q <= x /\ x < 10 * q + 10
    BY <1>2
  <1> HIDE DEF q
  <1>4. 0 <= q /\ q <= 10000
    BY <1>2, <1>3
  <1> QED
    BY SMTT(30), <1>3, <1>4 DEF Percent, q, x

LEMMA MetricsArePercent ==
    Routing!Metrics
      = [average_latency_ms : Nat, failure_rate : Percent, health_score : Percent]
  BY DEF Routing!Metrics, Percent

\* A snapshot is of the type of the metrics.
LEMMA SnapshotTyped ==
    ASSUME NEW s \in Routing!Counters
    PROVE  Routing!Snapshot(s) \in Routing!Metrics
  <1> DEFINE total == s.ok + s.failed
             average == IF s.latencies = <<>> THEN 0
                        ELSE Routing!SumFunction(s.latencies) \div Len(s.latencies)
             uptime == IF total = 0 THEN 10000 ELSE Share(s.ok, total)
             swiftness == IF average > 5000 THEN 0 ELSE 10000 - 2 * average
             failing == IF total = 0 THEN 0 ELSE Share(s.failed, total)
             health == (7 * uptime + 3 * swiftness) \div 10
  <1>1. s.ok \in Nat /\ s.failed \in Nat /\ s.latencies \in Seq(Nat)
    BY DEF Routing!Counters
  <1>2. average \in Nat
    <2>1. Routing!SumFunction(s.latencies) \in Nat
      BY <1>1, LatenciesAddUp
    <2>2. s.latencies # <<>> => Len(s.latencies) \in Nat \ {0}
      BY <1>1
    <2>3. \A a \in Nat, b \in Nat \ {0} : a \div b \in Nat
      OBVIOUS
    <2> QED
      BY <2>1, <2>2, <2>3
  <1>3. uptime \in Percent /\ failing \in Percent
    <2>1. total \in Nat /\ s.ok <= total /\ s.failed <= total
      BY <1>1
    <2> HIDE DEF total
    <2>2. total # 0 => Share(s.ok, total) \in Percent
      BY <1>1, <2>1, ShareIsPercent
    <2>3. total # 0 => Share(s.failed, total) \in Percent
      BY <1>1, <2>1, ShareIsPercent
    <2>4. 10000 \in Percent /\ 0 \in Percent
      BY DEF Percent
    <2> QED
      BY <2>2, <2>3, <2>4
  <1>4. Routing!Snapshot(s) = [average_latency_ms |-> average, failure_rate |-> failing,
                               health_score |-> health]
    BY DEF Routing!Snapshot, Share
  <1> HIDE DEF average, uptime, failing
  <1>5. swiftness \in Percent
    BY <1>2, SwiftnessIsPercent
  <1> HIDE DEF swiftness
  <1>6. health \in Percent
    BY <1>3, <1>5, MixIsPercent
  <1> HIDE DEF health
  <1> QED
    BY <1>2, <1>3, <1>4, <1>6, MetricsArePercent

\* A fixed order is a list, and it selects what is available.
LEMMA OrderSelects ==
    ASSUME NEW X, NEW order \in Seq(X),
           NEW available \in SUBSET Routing!Providers, available # {}
    PROVE  Routing!InOrder(order, available) \in available
  <1>1. CASE Routing!Range(order) \cap available = {}
    BY <1>1, FirstOfProviders DEF Routing!InOrder
  <1>2. CASE Routing!Range(order) \cap available # {}
    <2>1. DOMAIN order = 1..Len(order) /\ Len(order) \in Nat
      OBVIOUS
    <2>2. \E i \in DOMAIN order : order[i] \in available
      BY <1>2 DEF Routing!Range
    <2>3. Routing!First(order, available) \in available
      BY <2>1, <2>2, FirstIsInSet
    <2> QED
      BY <1>2, <2>3 DEF Routing!InOrder
  <1> QED
    BY <1>1, <1>2

\* The best of what the registry knows is available.
LEMMA QualitySelects ==
    ASSUME NEW available \in SUBSET Routing!Providers, available # {}
    PROVE  Routing!HighestQuality(available) \in available
  <1> DEFINE quality == [p \in Routing!Providers |-> Routing!PROVIDER_METADATA[p].quality_score]
  <1>1. ASSUME NEW p \in available PROVE quality[p] \in Percent
    <2>1. quality[p] = Routing!PROVIDER_METADATA[p].quality_score
      OBVIOUS
    <2>2. Routing!PROVIDER_METADATA[p] \in Capabilities
      BY MetadataTyped
    <2> HIDE DEF quality
    <2> QED
      BY <2>1, <2>2 DEF Capabilities
  <1> HIDE DEF quality
  <1>3. Routing!Highest(available, quality) \in available
    BY <1>1, HighestIsHighest
  <1> QED
    BY <1>3 DEF Routing!HighestQuality, quality

LEMMA ScoresArePercent ==
    /\ \A m \in Routing!Metrics : m.health_score \in Percent
    /\ \A n \in Percent : n \in Int
  <1>1. \A m \in Routing!Metrics : m.health_score \in Percent
    BY MetricsArePercent
  <1>2. \A n \in Percent : n \in Int
    BY DEF Percent
  <1> QED
    BY <1>1, <1>2

\* The health-aware choice is available, and none of the others is better.
LEMMA HealthAwareSelects ==
    ASSUME NEW available \in SUBSET Routing!Providers, available # {},
           NEW m \in [Routing!Providers -> Routing!Metrics]
    PROVE  /\ Routing!HealthAware(available, m) \in available
           /\ \A p \in available :
                  ~Routing!Better(m[p], m[Routing!HealthAware(available, m)])
  <1> DEFINE within == {p \in available : Routing!WithinThresholds(m[p])}
             eligible == IF within = {} THEN available ELSE within
             score == [p \in Routing!Providers |-> m[p].health_score]
             c == Routing!Highest(eligible, score)
  <1>1. eligible \in SUBSET available /\ eligible # {}
    OBVIOUS
  <1>2. ASSUME NEW p \in Routing!Providers
        PROVE  score[p] = m[p].health_score /\ score[p] \in Percent
    <2>1. score[p] = m[p].health_score /\ m[p] \in Routing!Metrics
      OBVIOUS
    <2> HIDE DEF score
    <2> QED
      BY <2>1, ScoresArePercent
  <1>3. c \in eligible /\ \A q \in eligible : score[c] >= score[q]
    <2>1. eligible \in SUBSET Routing!Providers
      BY <1>1
    <2> HIDE DEF eligible, score
    <2>2. \A p \in eligible : score[p] \in Percent
      BY <1>2, <2>1
    <2> QED
      BY <1>1, <2>1, <2>2, HighestIsHighest
  <1>4. Routing!HealthAware(available, m) = c
    BY DEF Routing!HealthAware
  <1> HIDE DEF c, score
  <1>5. ASSUME NEW p \in available PROVE ~Routing!Better(m[p], m[c])
    <2>1. p \in Routing!Providers /\ c \in Routing!Providers
      BY <1>1, <1>3
    <2>2. CASE Routing!WithinThresholds(m[p]) = Routing!WithinThresholds(m[c])
      <3>1. p \in eligible
        BY <1>3, <2>2
      <3>2. score[c] >= score[p]
        BY <1>3, <3>1
      <3>3. /\ score[p] = m[p].health_score /\ score[p] \in Int
            /\ score[c] = m[c].health_score /\ score[c] \in Int
        BY <1>2, <2>1, ScoresArePercent
      <3>4. ~(m[p].health_score > m[c].health_score)
        BY <3>2, <3>3
      <3> QED
        BY <2>2, <3>4 DEF Routing!Better
    <2>3. CASE Routing!WithinThresholds(m[p]) # Routing!WithinThresholds(m[c])
      <3>1. ~Routing!WithinThresholds(m[p])
        <4> SUFFICES ASSUME Routing!WithinThresholds(m[p]) PROVE FALSE
          OBVIOUS
        <4>1. p \in within
          OBVIOUS
        <4>2. c \in within
          BY <1>3, <4>1
        <4>3. Routing!WithinThresholds(m[c]) /\ Routing!WithinThresholds(m[p])
          BY <4>2
        <4> QED
          BY <2>3, <4>3 DEF Routing!WithinThresholds
      <3> QED
        BY <2>3, <3>1 DEF Routing!Better
    <2> QED
      BY <2>2, <2>3
  <1> QED
    BY <1>1, <1>3, <1>4, <1>5

\* Whatever the strategy, what it selects is available.
LEMMA StrategiesSelect ==
    ASSUME NEW available \in SUBSET Routing!Providers, available # {},
           NEW m \in [Routing!Providers -> Routing!Metrics], NEW s \in Routing!AllStrategies
    PROVE  Routing!SelectProvider(s, available, m) \in available
  <1>1. CASE s \in {"Cost", "Quality", "Balanced", "Latency"}
    <2>1. /\ Routing!CostOrder \in Seq({"Gemini", "OpenAI", "Claude"})
          /\ Routing!QualityOrder \in Seq({"Gemini", "OpenAI", "Claude"})
          /\ Routing!BalancedOrder \in Seq({"Gemini", "OpenAI", "Claude"})
          /\ Routing!LatencyOrder \in Seq({"Gemini", "OpenAI", "Claude"})
      BY DEF Routing!CostOrder, Routing!QualityOrder, Routing!BalancedOrder, Routing!LatencyOrder
    <2>2. /\ Routing!InOrder(Routing!CostOrder, available) \in available
          /\ Routing!InOrder(Routing!QualityOrder, available) \in available
          /\ Routing!InOrder(Routing!BalancedOrder, available) \in available
          /\ Routing!InOrder(Routing!LatencyOrder, available) \in available
      BY <2>1, OrderSelects
    <2> QED
      BY <1>1, <2>2 DEF Routing!SelectProvider
  <1>2. CASE s = "Research"
    BY <1>2, FirstOfProviders DEF Routing!SelectProvider
  <1>3. CASE s \in {"Fastest", "LowestCost"}
    <2> DEFINE latency == [p \in Routing!Providers |-> Routing!PROVIDER_METADATA[p].typical_latency_ms]
               cost == [p \in Routing!Providers |-> Routing!PROVIDER_METADATA[p].estimated_input_cost]
    <2>1. ASSUME NEW p \in available PROVE latency[p] \in Nat /\ cost[p] \in Nat
      <3>1. /\ latency[p] = Routing!PROVIDER_METADATA[p].typical_latency_ms
            /\ cost[p] = Routing!PROVIDER_METADATA[p].estimated_input_cost
        OBVIOUS
      <3>2. Routing!PROVIDER_METADATA[p] \in Capabilities
        BY MetadataTyped
      <3> HIDE DEF latency, cost
      <3> QED
        BY <3>1, <3>2 DEF Capabilities
    <2> HIDE DEF latency, cost
    <2>2. Routing!Lowest(available, latency) \in available /\ Routing!Lowest(available, cost) \in available
      BY <2>1, LowestIsLowest
    <2>3. Routing!Fastest(available) \in available /\ Routing!LowestCost(available) \in available
      BY <2>2 DEF Routing!Fastest, Routing!LowestCost, latency, cost
    <2> QED
      BY <1>3, <2>3 DEF Routing!SelectProvider
  <1>4. CASE s \in {"HighestQuality", "Reasoning"}
    <2>1. Routing!Capable(available) \in SUBSET available
      BY DEF Routing!Capable
    <2>2. Routing!Reasoning(available) \in available
      <3>1. CASE Routing!Capable(available) = {}
        BY <3>1, QualitySelects DEF Routing!Reasoning
      <3>2. CASE Routing!Capable(available) # {}
        <4>1. Routing!HighestQuality(Routing!Capable(available)) \in Routing!Capable(available)
          BY <2>1, <3>2, QualitySelects
        <4> QED
          BY <2>1, <3>2, <4>1 DEF Routing!Reasoning
      <3> QED
        BY <3>1, <3>2
    <2> QED
      BY <1>4, <2>2, QualitySelects DEF Routing!SelectProvider
  <1>5. CASE s = "HealthAware"
    BY <1>5, HealthAwareSelects DEF Routing!SelectProvider
  <1> QED
    BY <1>1, <1>2, <1>3, <1>4, <1>5 DEF Routing!AllStrategies

\* There is always something available, and it has a key if anything has.
LEMMA SomethingIsAvailable ==
    /\ Routing!Available \in SUBSET Routing!Providers /\ Routing!Available # {}
    /\ Keyed # {} => Routing!Available = Keyed
  BY ServicesAssumption, ListedProviders
  DEF Routing!Available, Routing!HealthRoutingAssumption

\* Nothing is known of anybody, and nobody is called.
LEMMA RoutingBegins == Routing!Init => RoutingInv
  <1> SUFFICES ASSUME Routing!Init PROVE RoutingInv
    OBVIOUS
  <1>1. Routing!NoStats \in Routing!Counters
    BY DEF Routing!NoStats, Routing!Counters
  <1>2. Routing!Unread \in [Routing!Providers -> Routing!Metrics]
    BY <1>1, SnapshotTyped DEF Routing!Unread
  <1>3. 0 \in 0..Len(Registered) /\ 0 \in 0..MAX_RECORDS
    BY ListedProviders, ServicesAssumption DEF Routing!HealthRoutingAssumption
  <1>4. Routing!TypeOK
    BY <1>1, <1>2, <1>3 DEF Routing!Init, Routing!TypeOK
  <1>5. ReadIsSeen
    BY DEF Routing!Init, ReadIsSeen, Knows
  <1> QED
    BY <1>4, <1>5 DEF RoutingInv

\* An outcome is counted, and the window stays one of latencies.
LEMMA RecordedTyped ==
    ASSUME NEW s \in Routing!Counters, NEW success \in BOOLEAN, NEW latency \in Latencies
    PROVE  Routing!Recorded(s, success, latency) \in Routing!Counters
  <1> DEFINE window == Append(s.latencies, latency)
  <1>1. s.ok \in Nat /\ s.failed \in Nat /\ s.latencies \in Seq(Nat) /\ latency \in Nat
    BY ServicesAssumption DEF Routing!Counters, Routing!HealthRoutingAssumption
  <1>2. window \in Seq(Nat) /\ window # <<>>
    BY <1>1
  <1> HIDE DEF window
  <1>3. s.ok + (IF success THEN 1 ELSE 0) \in Nat /\ s.failed + (IF success THEN 0 ELSE 1) \in Nat
    BY <1>1
  <1>4. (IF Len(window) > MAX_SAMPLES THEN Tail(window) ELSE window) \in Seq(Nat)
    BY <1>2, HeadTailProperties
  <1> QED
    BY <1>3, <1>4 DEF Routing!Recorded, Routing!Counters, window

\* A call whose variables do not change knows what it knew.
LEMMA KnowsStill ==
    ASSUME NEW t, Knows(t), stats' = stats, pc'[t] = pc[t], read'[t] = read[t],
           metrics'[t] = metrics[t], seen'[t] = seen[t], strategy'[t] = strategy[t],
           chosen'[t] = chosen[t]
    PROVE  Knows(t)'
  BY DEF Knows

LEMMA BeginStep ==
    ASSUME RoutingInv, NEW t \in Threads, Routing!Begin(t)
    PROVE  RoutingInv'
  <1>a. Routing!TypeOK /\ \A u \in Threads : Knows(u)
    BY DEF RoutingInv, ReadIsSeen
  <1> DEFINE now == [p \in Routing!Providers |-> {Routing!Snapshot(stats[p])}]
  <1>1. /\ pc[t] = "idle" /\ pc' = [pc EXCEPT ![t] = "reading"]
        /\ seen' = [seen EXCEPT ![t] = now]
        /\ UNCHANGED <<stats, strategy, read, metrics, chosen, records>>
    BY DEF Routing!Begin
  <1>2. now \in [Routing!Providers -> SUBSET Routing!Metrics]
    BY <1>a, SnapshotTyped DEF Routing!TypeOK
  <1>3. \A p \in Routing!Providers : Routing!Snapshot(stats[p]) \in now[p]
    OBVIOUS
  <1> HIDE DEF now
  <1>4. Routing!TypeOK'
    BY <1>a, <1>1, <1>2 DEF Routing!TypeOK
  <1>5. pc'[t] = "reading" /\ seen'[t] = now /\ read'[t] = 0
    BY <1>a, <1>1 DEF Routing!TypeOK, Knows
  <1>6. Knows(t)'
    BY <1>1, <1>3, <1>5 DEF Knows
  <1>7. ASSUME NEW u \in Threads PROVE Knows(u)'
    <2>1. CASE u = t
      BY <1>6, <2>1
    <2>2. CASE u # t
      <3>1. pc'[u] = pc[u] /\ seen'[u] = seen[u]
        BY <1>a, <1>1, <2>2 DEF Routing!TypeOK
      <3> QED
        BY <1>a, <1>1, <3>1, KnowsStill
    <2> QED
      BY <2>1, <2>2
  <1> QED
    BY <1>4, <1>7 DEF RoutingInv, ReadIsSeen

\* What is read is what the provider is, which has been seen.
LEMMA ReadStep ==
    ASSUME RoutingInv, NEW t \in Threads, Routing!ReadMetrics(t)
    PROVE  RoutingInv'
  <1>a. Routing!TypeOK /\ \A u \in Threads : Knows(u)
    BY DEF RoutingInv, ReadIsSeen
  <1> DEFINE n == read[t] + 1
             p == Registered[n]
             new == [metrics[t] EXCEPT ![p] = Routing!Snapshot(stats[p])]
  <1>1. /\ pc[t] = "reading" /\ read[t] < Len(Registered)
        /\ metrics' = [metrics EXCEPT ![t] = new]
        /\ read' = [read EXCEPT ![t] = n]
        /\ UNCHANGED <<stats, pc, strategy, chosen, seen, records>>
    BY DEF Routing!ReadMetrics
  <1>2. n \in 1..Len(Registered) /\ n \in 0..Len(Registered) /\ read[t] \in Nat /\ read[t] = n - 1
    BY <1>a, <1>1, ListedProviders DEF Routing!TypeOK
  <1>3. p \in Routing!Providers
    BY <1>2, ListedProviders
  <1>4. Routing!Snapshot(stats[p]) \in Routing!Metrics
    BY <1>a, <1>3, SnapshotTyped DEF Routing!TypeOK
  <1>5. metrics[t] \in [Routing!Providers -> Routing!Metrics]
    BY <1>a DEF Routing!TypeOK
  <1> HIDE DEF p
  <1>6. /\ new \in [Routing!Providers -> Routing!Metrics]
        /\ new[p] = Routing!Snapshot(stats[p])
        /\ \A q \in Routing!Providers : q # p => new[q] = metrics[t][q]
    BY <1>3, <1>4, <1>5
  <1> HIDE DEF new, n
  <1>7. Routing!TypeOK'
    BY <1>a, <1>1, <1>2, <1>6 DEF Routing!TypeOK
  <1>8. pc'[t] = "reading" /\ metrics'[t] = new /\ read'[t] = n /\ seen'[t] = seen[t]
    BY <1>a, <1>1 DEF Routing!TypeOK
  <1>9. ASSUME NEW i \in 1..n PROVE new[Registered[i]] \in seen[t][Registered[i]]
    <2>1. Registered[i] \in Routing!Providers
      BY <1>2, <1>9, ListedProviders
    <2>2. CASE Registered[i] = p
      BY <1>a, <1>1, <1>3, <1>6, <2>2 DEF Knows
    <2>3. CASE Registered[i] # p
      <3>1. i # n
        BY <2>3 DEF p
      <3>2. i \in 1..read[t]
        BY <1>2, <3>1
      <3> QED
        BY <1>a, <1>1, <1>6, <2>1, <2>3, <3>2 DEF Knows
    <2> QED
      BY <2>2, <2>3
  <1>10. Knows(t)'
    BY <1>a, <1>1, <1>8, <1>9 DEF Knows
  <1>11. ASSUME NEW u \in Threads PROVE Knows(u)'
    <2>1. CASE u = t
      BY <1>10, <2>1
    <2>2. CASE u # t
      <3>1. metrics'[u] = metrics[u] /\ read'[u] = read[u]
        BY <1>a, <1>1, <2>2 DEF Routing!TypeOK
      <3> QED
        BY <1>a, <1>1, <3>1, KnowsStill
    <2> QED
      BY <2>1, <2>2
  <1> QED
    BY <1>7, <1>11 DEF RoutingInv, ReadIsSeen

\* Once all are read, all that was read has been seen.
LEMMA SelectStep ==
    ASSUME RoutingInv, NEW t \in Threads, Routing!Select(t)
    PROVE  RoutingInv'
  <1>a. Routing!TypeOK /\ \A u \in Threads : Knows(u)
    BY DEF RoutingInv, ReadIsSeen
  <1>1. PICK s \in Strategies :
            /\ pc[t] = "reading" /\ read[t] = Len(Registered)
            /\ strategy' = [strategy EXCEPT ![t] = s]
            /\ chosen' = [chosen EXCEPT ![t] =
                              Routing!SelectProvider(s, Routing!Available, metrics[t])]
            /\ pc' = [pc EXCEPT ![t] = "chosen"]
            /\ UNCHANGED <<stats, read, metrics, seen, records>>
    BY DEF Routing!Select
  <1>2. metrics[t] \in [Routing!Providers -> Routing!Metrics] /\ s \in Routing!AllStrategies
    BY <1>a, ServicesAssumption DEF Routing!TypeOK, Routing!HealthRoutingAssumption
  <1>3. Routing!SelectProvider(s, Routing!Available, metrics[t]) \in Routing!Providers
    BY <1>2, SomethingIsAvailable, StrategiesSelect
  <1>4. Routing!TypeOK'
    BY <1>a, <1>1, <1>3 DEF Routing!TypeOK
  <1>5. /\ pc'[t] = "chosen" /\ strategy'[t] = s
        /\ chosen'[t] = Routing!SelectProvider(s, Routing!Available, metrics[t])
    BY <1>a, <1>1 DEF Routing!TypeOK
  <1>6. ASSUME NEW p \in Routing!Providers PROVE metrics[t][p] \in seen[t][p]
    <2>1. PICK i \in DOMAIN Registered : Registered[i] = p
      BY ListedProviders
    <2>2. i \in 1..read[t]
      BY <1>1, <2>1, ListedProviders
    <2> QED
      BY <1>a, <1>1, <2>1, <2>2 DEF Knows
  <1>7. Knows(t)'
    BY <1>1, <1>5, <1>6 DEF Knows
  <1>8. ASSUME NEW u \in Threads PROVE Knows(u)'
    <2>1. CASE u = t
      BY <1>7, <2>1
    <2>2. CASE u # t
      <3>1. pc'[u] = pc[u] /\ strategy'[u] = strategy[u] /\ chosen'[u] = chosen[u]
        BY <1>a, <1>1, <2>2 DEF Routing!TypeOK
      <3> QED
        BY <1>a, <1>1, <3>1, KnowsStill
    <2> QED
      BY <2>1, <2>2
  <1> QED
    BY <1>4, <1>8 DEF RoutingInv, ReadIsSeen

\* A call that returns is as it was before it began.
LEMMA ReturnTyped ==
    ASSUME Routing!TypeOK, NEW t \in Threads, Routing!Return(t)
    PROVE  /\ pc' \in [Threads -> {"idle", "reading", "chosen"}]
           /\ strategy' \in [Threads -> Strategies \cup {None}]
           /\ read' \in [Threads -> 0..Len(Registered)]
           /\ metrics' \in [Threads -> [Routing!Providers -> Routing!Metrics]]
           /\ chosen' \in [Threads -> Routing!Providers \cup {None}]
           /\ pc'[t] = "idle" /\ read'[t] = 0
           /\ \A u \in Threads : u # t =>
                  /\ pc'[u] = pc[u] /\ strategy'[u] = strategy[u] /\ read'[u] = read[u]
                  /\ metrics'[u] = metrics[u] /\ chosen'[u] = chosen[u]
  <1>1. Routing!NoStats \in Routing!Counters
    BY DEF Routing!NoStats, Routing!Counters
  <1>2. Routing!Unread \in [Routing!Providers -> Routing!Metrics]
    BY <1>1, SnapshotTyped DEF Routing!Unread
  <1>3. 0 \in 0..Len(Registered)
    BY ListedProviders
  <1> QED
    BY <1>2, <1>3 DEF Routing!TypeOK, Routing!Return

LEMMA GiveUpStep ==
    ASSUME RoutingInv, NEW t \in Threads, Routing!GiveUp(t)
    PROVE  RoutingInv'
  <1>a. Routing!TypeOK /\ \A u \in Threads : Knows(u)
    BY DEF RoutingInv, ReadIsSeen
  <1>1. /\ Routing!Return(t) /\ UNCHANGED <<stats, records>>
        /\ seen' = [seen EXCEPT ![t] = [p \in Routing!Providers |-> {}]]
    BY DEF Routing!GiveUp
  <1>2. Routing!TypeOK'
    BY <1>a, <1>1, ReturnTyped DEF Routing!TypeOK
  <1>3. ASSUME NEW u \in Threads PROVE Knows(u)'
    <2>1. CASE u = t
      BY <1>a, <1>1, <2>1, ReturnTyped DEF Knows
    <2>2. CASE u # t
      <3>1. seen'[u] = seen[u]
        BY <1>a, <1>1, <2>2 DEF Routing!TypeOK
      <3> QED
        BY <1>a, <1>1, <2>2, <3>1, ReturnTyped, KnowsStill
    <2> QED
      BY <2>1, <2>2
  <1> QED
    BY <1>2, <1>3 DEF RoutingInv, ReadIsSeen

\* An outcome that is recorded while others read is one more value they have seen.
LEMMA RecordStep ==
    ASSUME RoutingInv, NEW t \in Threads, NEW p \in Routing!Providers,
           NEW success \in BOOLEAN, NEW latency \in Latencies,
           Routing!RecordOutcome(t, p, success, latency)
    PROVE  RoutingInv'
  <1>a. Routing!TypeOK /\ \A u \in Threads : Knows(u)
    BY DEF RoutingInv, ReadIsSeen
  <1> DEFINE new == Routing!Recorded(stats[p], success, latency)
             nothing == [q \in Routing!Providers |-> {}]
  <1>1. /\ pc[t] = "chosen" /\ records < MAX_RECORDS
        /\ stats' = [stats EXCEPT ![p] = new] /\ records' = records + 1
        /\ IF success THEN Routing!Return(t)
           ELSE UNCHANGED <<pc, strategy, read, metrics, chosen>>
        /\ seen' = [u \in Threads |->
                       IF pc[u] = "reading"
                       THEN [seen[u] EXCEPT ![p] = @ \cup {Routing!Snapshot(stats'[p])}]
                       ELSE IF pc'[u] = "idle" THEN nothing ELSE seen[u]]
    BY DEF Routing!RecordOutcome
  <1>2. new \in Routing!Counters
    BY <1>a, RecordedTyped DEF Routing!TypeOK
  <1> HIDE DEF new
  <1>3. /\ stats' \in [Routing!Providers -> Routing!Counters] /\ stats'[p] = new
        /\ \A q \in Routing!Providers : q # p => stats'[q] = stats[q]
    BY <1>a, <1>1, <1>2 DEF Routing!TypeOK
  <1>4. Routing!Snapshot(stats'[p]) \in Routing!Metrics
    BY <1>2, <1>3, SnapshotTyped
  <1>5. nothing \in [Routing!Providers -> SUBSET Routing!Metrics]
    OBVIOUS
  <1> HIDE DEF nothing
  <1>6. ASSUME NEW u \in Threads, pc[u] = "reading"
        PROVE  /\ seen'[u] \in [Routing!Providers -> SUBSET Routing!Metrics]
               /\ seen'[u][p] = seen[u][p] \cup {Routing!Snapshot(stats'[p])}
               /\ \A q \in Routing!Providers : q # p => seen'[u][q] = seen[u][q]
    <2>1. seen'[u] = [seen[u] EXCEPT ![p] = @ \cup {Routing!Snapshot(stats'[p])}]
      BY <1>1, <1>6
    <2>2. seen[u] \in [Routing!Providers -> SUBSET Routing!Metrics]
      BY <1>a DEF Routing!TypeOK
    <2> QED
      BY <1>4, <2>1, <2>2
  <1>7. seen' \in [Threads -> [Routing!Providers -> SUBSET Routing!Metrics]]
    <2>1. ASSUME NEW u \in Threads
          PROVE  seen'[u] \in [Routing!Providers -> SUBSET Routing!Metrics]
      <3>1. CASE pc[u] = "reading"
        BY <1>6, <3>1
      <3>2. CASE pc[u] # "reading"
        <4>1. seen'[u] \in {nothing, seen[u]}
          BY <1>1, <3>2
        <4> QED
          BY <1>a, <1>5, <4>1 DEF Routing!TypeOK
      <3> QED
        BY <3>1, <3>2
    <2> QED
      BY <1>1, <2>1
  <1>8. records' \in 0..MAX_RECORDS
    BY <1>a, <1>1, ServicesAssumption DEF Routing!TypeOK, Routing!HealthRoutingAssumption
  <1>9. /\ pc' \in [Threads -> {"idle", "reading", "chosen"}]
        /\ strategy' \in [Threads -> Strategies \cup {None}]
        /\ read' \in [Threads -> 0..Len(Registered)]
        /\ metrics' \in [Threads -> [Routing!Providers -> Routing!Metrics]]
        /\ chosen' \in [Threads -> Routing!Providers \cup {None}]
    <2>1. CASE success
      BY <1>a, <1>1, <2>1, ReturnTyped
    <2>2. CASE ~success
      BY <1>a, <1>1, <2>2 DEF Routing!TypeOK
    <2> QED
      BY <2>1, <2>2
  <1>10. Routing!TypeOK'
    BY <1>3, <1>7, <1>8, <1>9 DEF Routing!TypeOK
  <1>11. ASSUME NEW u \in Threads
         PROVE  \/ u = t /\ pc'[u] = "idle" /\ read'[u] = 0
                \/ /\ pc'[u] = pc[u] /\ strategy'[u] = strategy[u] /\ read'[u] = read[u]
                   /\ metrics'[u] = metrics[u] /\ chosen'[u] = chosen[u]
    <2>1. CASE success
      BY <1>a, <1>1, <2>1, ReturnTyped
    <2>2. CASE ~success
      BY <1>1, <2>2
    <2> QED
      BY <2>1, <2>2
  <1>12. ASSUME NEW u \in Threads PROVE Knows(u)'
    <2>1. CASE pc'[u] = "idle"
      BY <1>a, <1>11, <2>1 DEF Knows
    <2>2. CASE pc'[u] = "reading"
      <3>1. pc[u] = "reading" /\ read'[u] = read[u] /\ metrics'[u] = metrics[u]
        BY <1>11, <2>2
      <3>2. ASSUME NEW q \in Routing!Providers
            PROVE  Routing!Snapshot(stats'[q]) \in seen'[u][q]
        <4>1. CASE q = p
          BY <1>6, <3>1, <4>1
        <4>2. CASE q # p
          BY <1>a, <1>3, <1>6, <3>1, <4>2 DEF Knows
        <4> QED
          BY <4>1, <4>2
      <3>3. ASSUME NEW i \in 1..read[u]
            PROVE  metrics[u][Registered[i]] \in seen'[u][Registered[i]]
        <4>1. Registered[i] \in Routing!Providers
          <5>1. read[u] \in 0..Len(Registered)
            BY <1>a DEF Routing!TypeOK
          <5>2. i \in DOMAIN Registered
            BY <3>3, <5>1, ListedProviders
          <5> QED
            BY <5>2, ListedProviders
        <4>2. metrics[u][Registered[i]] \in seen[u][Registered[i]]
          BY <1>a, <3>1 DEF Knows
        <4> QED
          BY <1>6, <3>1, <4>1, <4>2
      <3> QED
        BY <2>2, <3>1, <3>2, <3>3 DEF Knows
    <2>3. CASE pc'[u] = "chosen"
      <3>1. /\ pc[u] = "chosen" /\ strategy'[u] = strategy[u] /\ metrics'[u] = metrics[u]
            /\ chosen'[u] = chosen[u]
        BY <1>11, <2>3
      <3>2. seen'[u] = seen[u]
        BY <1>1, <2>3, <3>1
      <3> QED
        BY <1>a, <2>3, <3>1, <3>2 DEF Knows
    <2> QED
      BY <1>9, <2>1, <2>2, <2>3
  <1> QED
    BY <1>10, <1>12 DEF RoutingInv, ReadIsSeen

LEMMA RoutingStep ==
    ASSUME RoutingInv, [Routing!Next]_(Routing!vars)
    PROVE  RoutingInv'
  <1>1. CASE Routing!Next
    BY <1>1, BeginStep, ReadStep, SelectStep, RecordStep, GiveUpStep DEF Routing!Next
  <1>2. CASE UNCHANGED Routing!vars
    <2>1. UNCHANGED <<stats, pc, strategy, read, metrics, chosen, seen, records>>
      BY <1>2 DEF Routing!vars, Routing!call
    <2>2. Routing!TypeOK'
      BY <2>1 DEF RoutingInv, Routing!TypeOK
    <2>3. ReadIsSeen'
      BY <2>1 DEF RoutingInv, ReadIsSeen, Knows
    <2> QED
      BY <2>2, <2>3 DEF RoutingInv
  <1> QED
    BY <1>1, <1>2

\* What was read and chosen from makes the choice sound.
LEMMA SoundSelection == RoutingInv => Routing!SelectionIsSound
  <1> SUFFICES ASSUME RoutingInv PROVE Routing!SelectionIsSound
    OBVIOUS
  <1>a. Routing!TypeOK /\ \A u \in Threads : Knows(u)
    BY DEF RoutingInv, ReadIsSeen
  <1>1. ASSUME NEW t \in Threads, pc[t] = "chosen", Keyed # {}, NEW s \in Routing!AllStrategies
        PROVE  Routing!SelectProvider(s, Routing!Available, metrics[t]) \in Keyed
    <2>1. metrics[t] \in [Routing!Providers -> Routing!Metrics]
      BY <1>a DEF Routing!TypeOK
    <2>2. Routing!SelectProvider(s, Routing!Available, metrics[t]) \in Routing!Available
      BY <2>1, SomethingIsAvailable, StrategiesSelect
    <2> QED
      BY <1>1, <2>2, SomethingIsAvailable
  <1>2. ASSUME NEW t \in Threads, pc[t] = "chosen", strategy[t] = "HealthAware",
               NEW p \in Routing!Available
        PROVE  \E m \in seen[t][p], n \in seen[t][chosen[t]] : ~Routing!Better(m, n)
    <2>1. metrics[t] \in [Routing!Providers -> Routing!Metrics]
      BY <1>a DEF Routing!TypeOK
    <2>2. chosen[t] = Routing!HealthAware(Routing!Available, metrics[t])
      BY <1>a, <1>2 DEF Knows, Routing!SelectProvider
    <2>3. chosen[t] \in Routing!Available /\ ~Routing!Better(metrics[t][p], metrics[t][chosen[t]])
      BY <2>1, <2>2, SomethingIsAvailable, HealthAwareSelects
    <2>4. metrics[t][p] \in seen[t][p] /\ metrics[t][chosen[t]] \in seen[t][chosen[t]]
      BY <1>a, <1>2, <2>3, SomethingIsAvailable DEF Knows
    <2> QED
      BY <2>3, <2>4
  <1> QED
    BY <1>1, <1>2 DEF Routing!SelectionIsSound

\* What holds of the calls that route after every step.
THEOREM RoutingInvariant == ServicesSpec => []RoutingInv
  <1>1. RoutingInv /\ [Routing!Next]_(Routing!vars) => RoutingInv'
    BY RoutingStep
  <1> QED
    BY <1>1, RoutingBegins, ServicesAreServices, PTL DEF Routing!Spec

\* Every strategy selects a provider that has a key, and the health-aware one selects
\* one that was no worse than any other at some time while it was choosing
\* (health_monitor.py, get_metrics; routing/strategies.py, select_provider).
THEOREM SelectionsAreSound == ServicesSpec => []SelectionIsSound
  <1>1. RoutingInv => SelectionIsSound
    BY SoundSelection DEF SelectionIsSound
  <1> QED
    BY <1>1, RoutingInvariant, PTL

-----------------------------------------------------------------------------
\* The state of every part is of its type.
THEOREM AllTypesAreOK == ServicesSpec => []AllTypesOK
  <1>1. TypeOK /\ CostingInv /\ RoutingInv /\ PipelineInv => AllTypesOK
    BY DEF CostingInv, RoutingInv, PipelineInv, AllTypesOK
  <1> QED
    BY <1>1, TypeCorrect, ServicesAreServices, CostingInvariant, RoutingInvariant,
       PipelineInvariant, PTL

=============================================================================
