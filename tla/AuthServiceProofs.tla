------------------------- MODULE AuthServiceProofs -------------------------
(***************************************************************************)
(* Theorems about the auth service, for any number of requests, usernames  *)
(* and emails.                                                             *)
(***************************************************************************)
EXTENDS AuthService, TLAPS

(***************************************************************************)
(* The inductive invariant.  A request carries the names it registers, a   *)
(* user that is stored, and the token it exchanges, which another request  *)
(* was granted; what it grants belongs to the same login.                  *)
(***************************************************************************)
Registers(r) ==
    request[r].pc \in {"username", "email", "insert"} =>
        request[r].name \in Names /\ request[r].email \in Emails

Carries(r) ==
    request[r].pc \in {"save", "revoke", "owner", "rotate"} =>
        request[r].user \in Requests /\ users[request[r].user] # None

Grants(r) ==
    /\ At(r, "granted") <=> tokens[r] # None
    /\ tokens[r] # None => users[tokens[r].user] # None

Exchanges(r) ==
    /\ request[r].token # None =>
         /\ At(request[r].token, "granted")
         /\ session[r] = session[request[r].token]
    /\ request[r].pc \in {"revoke", "owner", "rotate"} => request[r].token # None
    /\ request[r].pc \in {"new", "save", "user"} => request[r].token = None

Revokes(r) ==
    request[r].token # None /\ request[r].pc \in {"owner", "rotate", "granted"} =>
        tokens[request[r].token].revoked

Belongs(r) ==
    request[r].pc \in {"user", "save", "revoke", "owner", "rotate", "granted"} =>
        session[r] \in Requests

Sound(r) ==
    Registers(r) /\ Carries(r) /\ Grants(r) /\ Exchanges(r) /\ Revokes(r) /\ Belongs(r)

IInv == TypeOK /\ \A r \in Requests : Sound(r)

-----------------------------------------------------------------------------
(* What a step does to the local states of the requests. *)
Moves(r, pc, name, email, user, token) ==
    /\ request' \in [Requests -> RequestState]
    /\ request'[r].pc = pc
    /\ request'[r].name = name
    /\ request'[r].email = email
    /\ request'[r].user = user
    /\ request'[r].token = token
    /\ \A q \in Requests : q # r => request'[q] = request[q]

LEMMA FieldTypes ==
    ASSUME TypeOK, NEW r \in Requests
    PROVE  /\ request[r].name \in Names \cup {None}
           /\ request[r].email \in Emails \cup {None}
           /\ request[r].user \in Requests \cup {None}
           /\ request[r].token \in Requests \cup {None}
           /\ session[r] \in Requests \cup {None}
           /\ tokens[r] # None => tokens[r] \in RefreshToken /\ tokens[r].user \in Requests
  BY DEF TypeOK, RequestState, RefreshToken

LEMMA Records ==
    ASSUME TypeOK, NEW r \in Requests, NEW q \in RequestState,
           request' = [request EXCEPT ![r] = q]
    PROVE  Moves(r, q.pc, q.name, q.email, q.user, q.token)
  BY DEF TypeOK, Moves

LEMMA GotoMoves ==
    ASSUME TypeOK, NEW r \in Requests, NEW pc, Goto(r, pc),
           pc \in Answered \cup {"email", "insert", "owner", "rotate"}
    PROVE  Moves(r, pc, request[r].name, request[r].email, request[r].user, request[r].token)
  <1>1. request[r] \in RequestState
    BY DEF TypeOK
  <1> DEFINE q == [request[r] EXCEPT !.pc = pc]
  <1>2. /\ q \in RequestState
        /\ q.pc = pc
        /\ q.name = request[r].name
        /\ q.email = request[r].email
        /\ q.user = request[r].user
        /\ q.token = request[r].token
    BY <1>1 DEF RequestState
  <1>3. request' = [request EXCEPT ![r] = q]
    BY DEF Goto
  <1> HIDE DEF q
  <1>4. Moves(r, q.pc, q.name, q.email, q.user, q.token)
    BY <1>2, <1>3, Records
  <1> QED
    BY <1>2, <1>4

LEMMA UserFound ==
    ASSUME TypeOK, NEW r \in Requests, NEW pc \in {"save", "revoke"}, NEW user \in Requests,
           request' = [request EXCEPT ![r].pc = pc, ![r].user = user]
    PROVE  Moves(r, pc, request[r].name, request[r].email, user, request[r].token)
  <1>1. request[r] \in RequestState
    BY DEF TypeOK
  <1> DEFINE q == [request[r] EXCEPT !.pc = pc, !.user = user]
  <1>2. /\ q \in RequestState
        /\ q.pc = pc
        /\ q.name = request[r].name
        /\ q.email = request[r].email
        /\ q.user = user
        /\ q.token = request[r].token
    BY <1>1 DEF RequestState
  <1>3. request' = [request EXCEPT ![r] = q]
    BY DEF TypeOK
  <1> HIDE DEF q
  <1>4. Moves(r, q.pc, q.name, q.email, q.user, q.token)
    BY <1>2, <1>3, Records
  <1> QED
    BY <1>2, <1>4

LEMMA RegisterArrives ==
    ASSUME TypeOK, NEW r \in Requests, NEW name \in Names, NEW email \in Emails,
           request' = [request EXCEPT ![r] = [New EXCEPT !.pc = "username", !.name = name, !.email = email]]
    PROVE  Moves(r, "username", name, email, None, None)
  <1> DEFINE q == [New EXCEPT !.pc = "username", !.name = name, !.email = email]
  <1>1. /\ q \in RequestState
        /\ q.pc = "username" /\ q.name = name /\ q.email = email /\ q.user = None /\ q.token = None
    BY DEF New, RequestState
  <1>2. request' = [request EXCEPT ![r] = q]
    OBVIOUS
  <1> HIDE DEF q
  <1>3. Moves(r, q.pc, q.name, q.email, q.user, q.token)
    BY <1>1, <1>2, Records
  <1> QED
    BY <1>1, <1>3

LEMMA LoginArrives ==
    ASSUME TypeOK, NEW r \in Requests, NEW name \in Names,
           request' = [request EXCEPT ![r] = [New EXCEPT !.pc = "user", !.name = name]]
    PROVE  Moves(r, "user", name, None, None, None)
  <1> DEFINE q == [New EXCEPT !.pc = "user", !.name = name]
  <1>1. /\ q \in RequestState
        /\ q.pc = "user" /\ q.name = name /\ q.email = None /\ q.user = None /\ q.token = None
    BY DEF New, RequestState
  <1>2. request' = [request EXCEPT ![r] = q]
    OBVIOUS
  <1> HIDE DEF q
  <1>3. Moves(r, q.pc, q.name, q.email, q.user, q.token)
    BY <1>1, <1>2, Records
  <1> QED
    BY <1>1, <1>3

LEMMA RefreshArrives ==
    ASSUME TypeOK, NEW r \in Requests, NEW token \in Requests \cup {None},
           request' = [request EXCEPT ![r] = [New EXCEPT !.pc = "valid", !.token = token]]
    PROVE  Moves(r, "valid", None, None, None, token)
  <1> DEFINE q == [New EXCEPT !.pc = "valid", !.token = token]
  <1>1. /\ q \in RequestState
        /\ q.pc = "valid" /\ q.name = None /\ q.email = None /\ q.user = None /\ q.token = token
    BY DEF New, RequestState
  <1>2. request' = [request EXCEPT ![r] = q]
    OBVIOUS
  <1> HIDE DEF q
  <1>3. Moves(r, q.pc, q.name, q.email, q.user, q.token)
    BY <1>1, <1>2, Records
  <1> QED
    BY <1>1, <1>3

-----------------------------------------------------------------------------
LEMMA InitIInv == Init => IInv
  <1> SUFFICES ASSUME Init PROVE IInv
    OBVIOUS
  <1>1. New \in RequestState
    BY DEF New, RequestState
  <1>2. TypeOK
    BY <1>1 DEF Init, TypeOK
  <1>3. ASSUME NEW r \in Requests PROVE Sound(r)
    <2>1. request[r].pc = "new" /\ request[r].token = None /\ tokens[r] = None
      BY <1>3 DEF Init, New
    <2> QED
      BY <2>1 DEF Sound, Registers, Carries, Grants, Exchanges, Revokes, Belongs, At
  <1> QED
    BY <1>2, <1>3 DEF IInv

(* A step that moves one request and leaves the tables and logins alone.   *)
LEMMA MoveKeepsSound ==
    ASSUME IInv, NEW r \in Requests, NEW pc, NEW name, NEW email, NEW user, NEW token,
           Moves(r, pc, name, email, user, token), UNCHANGED <<users, tokens>>,
           ~At(r, "granted"), pc # "granted",
           \A q \in Requests : q # r => session'[q] = session[q],
           pc \in {"username", "email", "insert"} => name \in Names /\ email \in Emails,
           pc \in {"save", "revoke", "owner", "rotate"} => user \in Requests /\ users[user] # None,
           token # None => /\ token \in Requests \ {r}
                           /\ At(token, "granted")
                           /\ session'[r] = session[token],
           pc \in {"revoke", "owner", "rotate"} => token # None,
           pc \in {"new", "save", "user"} => token = None,
           token # None /\ pc \in {"owner", "rotate"} => tokens[token].revoked,
           pc \in {"user", "save", "revoke", "owner", "rotate"} => session'[r] \in Requests
    PROVE  \A q \in Requests : Sound(q)'
  <1>1. ASSUME NEW q \in Requests, q # r PROVE Sound(q)'
    <2>1. request'[q] = request[q] /\ session'[q] = session[q] /\ Sound(q)
      BY <1>1 DEF Moves, IInv
    <2>2. request[q].token # None =>
            /\ request[q].token \in Requests
            /\ request[q].token # r
            /\ request'[request[q].token] = request[request[q].token]
            /\ session'[request[q].token] = session[request[q].token]
      <3>1. request[q].token \in Requests \cup {None}
        BY FieldTypes DEF IInv
      <3>2. request[q].token # None => At(request[q].token, "granted")
        BY <2>1 DEF Sound, Exchanges
      <3> QED
        BY <3>1, <3>2 DEF Moves
    <2> QED
      BY <2>1, <2>2 DEF Sound, Registers, Carries, Grants, Exchanges, Revokes, Belongs, At
  <1>2. Sound(r)'
    <2>1. tokens'[r] = None
      BY DEF IInv, Sound, Grants
    <2>2. token # None => request'[token] = request[token] /\ session'[token] = session[token]
      BY DEF Moves
    <2>3. Registers(r)' /\ Carries(r)' /\ Grants(r)'
      BY <2>1 DEF Moves, Registers, Carries, Grants, At
    <2>4. Exchanges(r)' /\ Revokes(r)' /\ Belongs(r)'
      BY <2>2 DEF Moves, Exchanges, Revokes, Belongs, At
    <2> QED
      BY <2>3, <2>4 DEF Sound
  <1> QED
    BY <1>1, <1>2

-----------------------------------------------------------------------------
(* Registration. *)

LEMMA RegisterIInv ==
    ASSUME IInv, NEW r \in Requests, Register(r) \/ CheckUsername(r) \/ CheckEmail(r)
    PROVE  IInv'
  <1> USE DEF IInv
  <1>1. UNCHANGED <<users, tokens, session, lost>>
    BY DEF Register, CheckUsername, CheckEmail
  <1>2. \E pc \in {"username", "email", "insert", "conflict"}, name \in Names, email \in Emails,
           user \in Requests \cup {None}, token \in Requests \cup {None} :
           /\ Moves(r, pc, name, email, user, token)
           /\ token = None \/ token = request[r].token
    <2>1. CASE Register(r)
      <3>1. PICK name \in Names, email \in Emails :
               request' = [request EXCEPT ![r] =
                  [New EXCEPT !.pc = "username", !.name = name, !.email = email]]
        BY <2>1 DEF Register
      <3>2. Moves(r, "username", name, email, None, None)
        BY <3>1, RegisterArrives
      <3> QED
        BY <3>2
    <2>2. CASE CheckUsername(r) \/ CheckEmail(r)
      <3>1. request[r].name \in Names /\ request[r].email \in Emails
        BY <2>2 DEF CheckUsername, CheckEmail, At, Sound, Registers
      <3>2. Goto(r, "conflict") \/ Goto(r, "email") \/ Goto(r, "insert")
        BY <2>2 DEF CheckUsername, CheckEmail
      <3>3. \E pc \in {"email", "insert", "conflict"} :
               Moves(r, pc, request[r].name, request[r].email, request[r].user, request[r].token)
        BY <3>2, GotoMoves DEF Answered
      <3> QED
        <4>1. request[r].user \in Requests \cup {None} /\ request[r].token \in Requests \cup {None}
          BY FieldTypes
        <4> HIDE DEF IInv
        <4> QED
          BY <3>1, <3>3, <4>1
    <2> QED
      BY <2>1, <2>2
  <1>3. ~At(r, "granted") /\ Sound(r)
    BY DEF Register, CheckUsername, CheckEmail, At
  <1>4. request[r].token # None => /\ request[r].token \in Requests \ {r}
                                   /\ At(request[r].token, "granted")
                                   /\ session[r] = session[request[r].token]
    BY <1>3, FieldTypes DEF Sound, Exchanges
  <1>5. \A q \in Requests : Sound(q)'
    BY <1>1, <1>2, <1>3, <1>4, MoveKeepsSound
  <1> QED
    BY <1>1, <1>2, <1>5 DEF TypeOK, Moves

LEMMA SaveUserIInv ==
    ASSUME IInv, NEW r \in Requests, SaveUser(r)
    PROVE  IInv'
  <1> USE DEF IInv
  <1>1. At(r, "insert") /\ Sound(r)
    BY DEF SaveUser
  <1>2. request[r].name \in Names /\ request[r].email \in Emails
    BY <1>1 DEF Sound, Registers, At
  <1>3. UNCHANGED <<tokens, session, lost>>
    BY DEF SaveUser
  <1>4. \E pc \in {"created", "failed"} :
           Moves(r, pc, request[r].name, request[r].email, request[r].user, request[r].token)
    BY GotoMoves DEF SaveUser, Answered
  <1>5. /\ users' \in [Requests -> User \cup {None}]
        /\ \A id \in Requests : users[id] # None => users'[id] # None
    <2>1. [name |-> request[r].name, email |-> request[r].email] \in User
      BY <1>2 DEF User
    <2> QED
      BY <2>1, RowsAreNotNone DEF SaveUser, TypeOK
  <1>6. TypeOK'
    BY <1>3, <1>4, <1>5 DEF TypeOK, Moves
  <1>7. request[r].token # r
    BY <1>1, AuthConstants DEF Sound, Exchanges, At
  <1>8. ASSUME NEW q \in Requests, q # r PROVE Sound(q)'
    <2>1. Sound(q) /\ request'[q] = request[q]
      BY <1>4, <1>8 DEF Moves
    <2>2. request[q].token # None => /\ request[q].token \in Requests
                                     /\ request'[request[q].token] = request[request[q].token]
      BY <1>1, <1>4, <2>1, FieldTypes DEF Sound, Exchanges, Moves, At
    <2>3. Registers(q)' /\ Carries(q)'
      BY <1>5, <2>1 DEF Sound, Registers, Carries
    <2>4. Grants(q)'
      BY <1>3, <1>5, <2>1, FieldTypes DEF Sound, Grants, At
    <2>5. Exchanges(q)' /\ Revokes(q)' /\ Belongs(q)'
      BY <1>3, <2>1, <2>2 DEF Sound, Exchanges, Revokes, Belongs, At
    <2> QED
      BY <2>3, <2>4, <2>5 DEF Sound
  <1>9. Sound(r)'
    <2>1. tokens'[r] = None
      BY <1>1, <1>3 DEF Sound, Grants, At
    <2>2. request[r].token # None => /\ request[r].token \in Requests
                                     /\ request'[request[r].token] = request[request[r].token]
      BY <1>4, <1>7, FieldTypes DEF Moves
    <2>3. Registers(r)' /\ Carries(r)' /\ Grants(r)' /\ Revokes(r)' /\ Belongs(r)'
      BY <1>4, <2>1 DEF Moves, Registers, Carries, Grants, Revokes, Belongs, At
    <2>4. Exchanges(r)'
      BY <1>1, <1>3, <1>4, <2>2 DEF Moves, Sound, Exchanges, At
    <2> QED
      BY <2>3, <2>4 DEF Sound
  <1> QED
    BY <1>6, <1>8, <1>9

-----------------------------------------------------------------------------
(* Login, and the requests that read only. *)

LEMMA LoginIInv ==
    ASSUME IInv, NEW r \in Requests, Login(r) \/ Refresh(r)
    PROVE  IInv'
  <1> USE DEF IInv
  <1>1. UNCHANGED <<users, tokens, lost>> /\ At(r, "new") /\ Sound(r)
    BY DEF Login, Refresh
  <1>2. PICK pc \in {"user", "valid"}, name \in Names \cup {None}, token \in Requests \cup {None} :
           /\ Moves(r, pc, name, None, None, token)
           /\ token # None => /\ At(token, "granted")
                              /\ session' = [session EXCEPT ![r] = session[token]]
           /\ token = None => session' \in {[session EXCEPT ![r] = r], [session EXCEPT ![r] = None]}
           /\ pc = "user" => token = None /\ session' = [session EXCEPT ![r] = r]
    <2>1. CASE Login(r)
      <3>1. PICK name \in Names :
               request' = [request EXCEPT ![r] = [New EXCEPT !.pc = "user", !.name = name]]
        BY <2>1 DEF Login
      <3>2. Moves(r, "user", name, None, None, None)
        BY <3>1, LoginArrives
      <3> QED
        BY <2>1, <3>2 DEF Login
    <2>2. CASE Refresh(r)
      <3>1. PICK t \in {q \in Requests : At(q, "granted")} \cup {None} :
               /\ request' = [request EXCEPT ![r] = [New EXCEPT !.pc = "valid", !.token = t]]
               /\ session' = [session EXCEPT ![r] = IF t = None THEN None ELSE session[t]]
        BY <2>2 DEF Refresh
      <3>2. Moves(r, "valid", None, None, None, t)
        BY <3>1, RefreshArrives
      <3> QED
        BY <3>1, <3>2, AuthConstants
    <2> QED
      BY <2>1, <2>2
  <1>3. token # None => token \in Requests \ {r} /\ session'[r] = session[token]
    BY <1>1, <1>2 DEF TypeOK, At
  <1>4. session' \in [Requests -> Requests \cup {None}]
    BY <1>2, FieldTypes DEF TypeOK
  <1>5. (\A q \in Requests : q # r => session'[q] = session[q]) /\ (pc = "user" => session'[r] \in Requests)
    BY <1>2 DEF TypeOK
  <1>6. \A q \in Requests : Sound(q)'
    BY <1>1, <1>2, <1>3, <1>5, MoveKeepsSound DEF At
  <1> QED
    BY <1>1, <1>2, <1>4, <1>6 DEF TypeOK, Moves

LEMMA AuthenticateIInv ==
    ASSUME IInv, NEW r \in Requests, Authenticate(r)
    PROVE  IInv'
  <1> USE DEF IInv
  <1>1. UNCHANGED <<users, tokens, session, lost>> /\ At(r, "user") /\ Sound(r)
    BY DEF Authenticate
  <1>2. PICK pc \in {"save", "refused"}, user \in Requests \cup {None} :
           /\ Moves(r, pc, request[r].name, request[r].email, user, request[r].token)
           /\ pc = "save" => user \in Requests /\ users[user] # None
    <2>1. CASE Goto(r, "refused")
      <3>1. Moves(r, "refused", request[r].name, request[r].email, request[r].user, request[r].token)
        BY <2>1, GotoMoves DEF Answered
      <3> QED
        BY <3>1, FieldTypes
    <2>2. CASE \E id \in UsersNamed(request[r].name) :
                  request' = [request EXCEPT ![r].pc = "save", ![r].user = id]
      <3>1. PICK id \in UsersNamed(request[r].name) :
               request' = [request EXCEPT ![r].pc = "save", ![r].user = id]
        BY <2>2
      <3>2. id \in Requests /\ users[id] # None
        BY DEF UsersNamed
      <3>3. Moves(r, "save", request[r].name, request[r].email, id, request[r].token)
        BY <3>1, <3>2, UserFound
      <3> QED
        BY <3>2, <3>3
    <2> QED
      BY <2>1, <2>2 DEF Authenticate
  <1>3. request[r].token = None /\ session[r] \in Requests
    BY <1>1 DEF Sound, Exchanges, Belongs, At
  <1>4. \A q \in Requests : Sound(q)'
    BY <1>1, <1>2, <1>3, MoveKeepsSound DEF At
  <1> QED
    BY <1>1, <1>2, <1>4 DEF TypeOK, Moves

LEMMA GetValidIInv ==
    ASSUME IInv, NEW r \in Requests, GetValid(r)
    PROVE  IInv'
  <1> USE DEF IInv
  <1>1. UNCHANGED <<users, tokens, session, lost>> /\ At(r, "valid") /\ Sound(r)
    BY DEF GetValid
  <1>2. PICK pc \in {"revoke", "refused"}, user \in Requests \cup {None} :
           /\ Moves(r, pc, request[r].name, request[r].email, user, request[r].token)
           /\ pc = "revoke" => user \in Requests /\ users[user] # None /\ request[r].token # None
    <2>1. CASE Goto(r, "refused")
      <3>1. Moves(r, "refused", request[r].name, request[r].email, request[r].user, request[r].token)
        BY <2>1, GotoMoves DEF Answered
      <3> QED
        BY <3>1, FieldTypes
    <2>2. CASE /\ Valid(request[r].token)
               /\ request' = [request EXCEPT ![r].pc = "revoke",
                                             ![r].user = tokens[request[r].token].user]
      <3>1. request[r].token \in Requests /\ tokens[request[r].token] # None
        BY <2>2, FieldTypes DEF Valid
      <3>2. /\ tokens[request[r].token].user \in Requests
            /\ users[tokens[request[r].token].user] # None
        BY <3>1, FieldTypes DEF Sound, Grants
      <3>3. Moves(r, "revoke", request[r].name, request[r].email,
                  tokens[request[r].token].user, request[r].token)
        BY <2>2, <3>2, UserFound
      <3> QED
        BY <3>1, <3>2, <3>3, AuthConstants
    <2> QED
      BY <2>1, <2>2 DEF GetValid
  <1>3. request[r].token # None => /\ request[r].token \in Requests \ {r}
                                   /\ At(request[r].token, "granted")
                                   /\ session[r] = session[request[r].token]
    BY <1>1, FieldTypes DEF Sound, Exchanges, At
  <1>4. request[r].token # None => session[r] \in Requests
    <2>1. ASSUME request[r].token # None PROVE session[request[r].token] \in Requests
      BY <1>3, <2>1 DEF Sound, Belongs, At
    <2> QED
      BY <1>3, <2>1
  <1>5. \A q \in Requests : Sound(q)'
    BY <1>1, <1>2, <1>3, <1>4, MoveKeepsSound DEF At
  <1> QED
    BY <1>1, <1>2, <1>5 DEF TypeOK, Moves

LEMMA GetUserOrFailIInv ==
    ASSUME IInv, NEW r \in Requests, GetUser(r) \/ Fail(r)
    PROVE  IInv'
  <1> USE DEF IInv
  <1>1. UNCHANGED <<users, tokens, session>> /\ ~At(r, "granted") /\ Sound(r)
    BY DEF GetUser, Fail, Running, Answered, At
  <1>2. PICK pc \in {"rotate", "refused", "failed"} :
           /\ Goto(r, pc)
           /\ pc = "rotate" => At(r, "owner")
    BY DEF GetUser, Fail
  <1>3. Moves(r, pc, request[r].name, request[r].email, request[r].user, request[r].token)
    BY <1>2, GotoMoves DEF Answered
  <1>4. request[r].token # None => /\ request[r].token \in Requests \ {r}
                                   /\ At(request[r].token, "granted")
                                   /\ session[r] = session[request[r].token]
    BY <1>1, FieldTypes DEF Sound, Exchanges
  <1>5. pc = "rotate" => /\ request[r].token # None
                         /\ tokens[request[r].token].revoked
                         /\ request[r].user \in Requests /\ users[request[r].user] # None
                         /\ session[r] \in Requests
    BY <1>1, <1>2 DEF Sound, Carries, Exchanges, Revokes, Belongs, At
  <1>6. \A q \in Requests : Sound(q)'
    BY <1>1, <1>3, <1>4, <1>5, MoveKeepsSound
  <1>7. lost' \in SUBSET Requests
    <2>1. lost \in SUBSET Requests
      BY DEF TypeOK
    <2>2. At(r, "owner") \/ At(r, "rotate") => session[r] \in Requests
      BY <1>1 DEF Sound, Belongs, At
    <2> QED
      BY <2>1, <2>2 DEF GetUser, Fail
  <1> QED
    BY <1>1, <1>3, <1>6, <1>7 DEF TypeOK, Moves

-----------------------------------------------------------------------------
(* The tokens: a row keeps its user and is never made valid again.         *)

LEMMA NewToken ==
    ASSUME NEW user \in Requests
    PROVE  LET t == [user |-> user, revoked |-> FALSE, expired |-> FALSE]
           IN  t \in RefreshToken /\ t # None
  <1> DEFINE t == [user |-> user, revoked |-> FALSE, expired |-> FALSE]
  <1>1. t \in RefreshToken
    BY DEF RefreshToken
  <1> HIDE DEF t
  <1>2. t # None
    BY <1>1, RowsAreNotNone
  <1> QED
    BY <1>1, <1>2 DEF t

LEMMA TokenMarks ==
    ASSUME NEW t \in RefreshToken
    PROVE  /\ [t EXCEPT !.revoked = TRUE] \in RefreshToken
           /\ [t EXCEPT !.revoked = TRUE] # None
           /\ [t EXCEPT !.revoked = TRUE].user = t.user
           /\ [t EXCEPT !.revoked = TRUE].revoked
           /\ [t EXCEPT !.expired = TRUE] \in RefreshToken
           /\ [t EXCEPT !.expired = TRUE] # None
           /\ [t EXCEPT !.expired = TRUE].user = t.user
           /\ [t EXCEPT !.expired = TRUE].revoked = t.revoked
           /\ [t EXCEPT !.expired = TRUE].expired
  <1>1. [t EXCEPT !.revoked = TRUE] \in RefreshToken /\ [t EXCEPT !.expired = TRUE] \in RefreshToken
    BY DEF RefreshToken
  <1>2. [t EXCEPT !.revoked = TRUE].user = t.user /\ [t EXCEPT !.revoked = TRUE].revoked
    BY DEF RefreshToken
  <1>3. /\ [t EXCEPT !.expired = TRUE].user = t.user
        /\ [t EXCEPT !.expired = TRUE].revoked = t.revoked
        /\ [t EXCEPT !.expired = TRUE].expired
    BY DEF RefreshToken
  <1> QED
    BY <1>1, <1>2, <1>3, RowsAreNotNone

(* The row of u after it was revoked, or after it expired.                 *)
LEMMA MarkOneToken ==
    ASSUME TypeOK, NEW u \in Requests, tokens[u] # None,
           \/ tokens' = [tokens EXCEPT ![u].revoked = TRUE]
           \/ tokens' = [tokens EXCEPT ![u].expired = TRUE]
    PROVE  /\ tokens' \in [Requests -> RefreshToken \cup {None}]
           /\ \A t \in Requests : t # u => tokens'[t] = tokens[t]
           /\ tokens'[u] # None
           /\ tokens'[u].user = tokens[u].user
           /\ tokens[u].revoked => tokens'[u].revoked
  <1>1. tokens[u] \in RefreshToken
    BY DEF TypeOK
  <1>2. PICK row \in RefreshToken :
           /\ tokens' = [tokens EXCEPT ![u] = row]
           /\ row # None /\ row.user = tokens[u].user /\ (tokens[u].revoked => row.revoked)
    <2>1. CASE tokens' = [tokens EXCEPT ![u].revoked = TRUE]
      <3>1. tokens' = [tokens EXCEPT ![u] = [tokens[u] EXCEPT !.revoked = TRUE]]
        BY <2>1
      <3> QED
        BY <1>1, <3>1, TokenMarks
    <2>2. CASE tokens' = [tokens EXCEPT ![u].expired = TRUE]
      <3>1. tokens' = [tokens EXCEPT ![u] = [tokens[u] EXCEPT !.expired = TRUE]]
        BY <2>2
      <3> QED
        BY <1>1, <3>1, TokenMarks
    <2> QED
      BY <2>1, <2>2
  <1> QED
    BY <1>2 DEF TypeOK

LEMMA SaveTokenIInv ==
    ASSUME IInv, NEW r \in Requests, SaveToken(r)
    PROVE  IInv'
  <1> USE DEF IInv
  <1>1. /\ At(r, "save") \/ At(r, "rotate")
        /\ Sound(r)
        /\ UNCHANGED <<users, session, lost>>
    BY DEF SaveToken
  <1>2. Moves(r, "granted", request[r].name, request[r].email, request[r].user, request[r].token)
    BY GotoMoves DEF SaveToken, Answered
  <1>3. request[r].user \in Requests /\ users[request[r].user] # None
    BY <1>1 DEF Sound, Carries, At
  <1> DEFINE row == [user |-> request[r].user, revoked |-> FALSE, expired |-> FALSE]
  <1>4. row \in RefreshToken /\ row # None /\ row.user = request[r].user
    BY <1>3, NewToken
  <1>5. tokens' = [tokens EXCEPT ![r] = row]
    BY DEF SaveToken
  <1> HIDE DEF row
  <1>6. /\ tokens' \in [Requests -> RefreshToken \cup {None}]
        /\ tokens'[r] = row
        /\ \A t \in Requests : t # r => tokens'[t] = tokens[t]
    BY <1>4, <1>5 DEF TypeOK
  <1>7. TypeOK'
    BY <1>1, <1>2, <1>6 DEF TypeOK, Moves
  <1>8. ASSUME NEW q \in Requests, request[q].token # None
        PROVE  /\ request[q].token \in Requests
               /\ request[q].token # r
               /\ request'[request[q].token] = request[request[q].token]
               /\ tokens'[request[q].token] = tokens[request[q].token]
    <2>1. request[q].token \in Requests /\ At(request[q].token, "granted")
      BY <1>8, FieldTypes DEF Sound, Exchanges
    <2> QED
      BY <1>1, <1>2, <1>6, <2>1 DEF Moves, At
  <1>9. ASSUME NEW q \in Requests, q # r PROVE Sound(q)'
    <2>1. Sound(q) /\ request'[q] = request[q] /\ tokens'[q] = tokens[q]
      BY <1>2, <1>6, <1>9 DEF Moves
    <2>2. Registers(q)' /\ Carries(q)' /\ Grants(q)'
      BY <1>1, <2>1 DEF Sound, Registers, Carries, Grants, At
    <2>3. Exchanges(q)' /\ Revokes(q)' /\ Belongs(q)'
      BY <1>1, <1>8, <2>1 DEF Sound, Exchanges, Revokes, Belongs, At
    <2> QED
      BY <2>2, <2>3 DEF Sound
  <1>10. Sound(r)'
    <2>1. Registers(r)' /\ Carries(r)' /\ Grants(r)'
      BY <1>1, <1>2, <1>3, <1>4, <1>6 DEF Moves, Registers, Carries, Grants, At
    <2>2. Exchanges(r)'
      BY <1>1, <1>2, <1>8 DEF Moves, Sound, Exchanges, At
    <2>3. Revokes(r)'
      BY <1>1, <1>2, <1>8 DEF Moves, Sound, Exchanges, Revokes, At
    <2>4. Belongs(r)'
      BY <1>1, <1>2 DEF Moves, Sound, Belongs, At
    <2> QED
      BY <2>1, <2>2, <2>3, <2>4 DEF Sound
  <1> QED
    BY <1>7, <1>9, <1>10

(* A request at its revocation holds a token of another request.           *)
LEMMA RevokedToken ==
    ASSUME IInv, NEW r \in Requests, request[r].token # None
    PROVE  /\ request[r].token \in Requests
           /\ tokens[request[r].token] # None
           /\ At(request[r].token, "granted")
           /\ session[r] = session[request[r].token]
  <1>1. request[r].token \in Requests
    BY FieldTypes DEF IInv
  <1>2. At(request[r].token, "granted") /\ session[r] = session[request[r].token]
    BY DEF IInv, Sound, Exchanges
  <1> QED
    BY <1>1, <1>2 DEF IInv, Sound, Grants

LEMMA RevokeMarks ==
    ASSUME IInv, NEW r \in Requests, Revoke(r)
    PROVE  /\ request[r].token \in Requests
           /\ tokens' \in [Requests -> RefreshToken \cup {None}]
           /\ tokens'[request[r].token].revoked
           /\ \A t \in Requests :
                /\ t # request[r].token => tokens'[t] = tokens[t]
                /\ tokens'[t] = None <=> tokens[t] = None
                /\ tokens[t] # None => /\ tokens'[t].user = tokens[t].user
                                       /\ tokens[t].revoked => tokens'[t].revoked
  <1>1. request[r].token \in Requests /\ tokens[request[r].token] # None
    BY RevokedToken DEF IInv, Sound, Exchanges, Revoke, At
  <1>2. tokens[request[r].token] \in RefreshToken
    BY <1>1 DEF IInv, TypeOK
  <1>3. tokens' = [tokens EXCEPT ![request[r].token] =
                     [tokens[request[r].token] EXCEPT !.revoked = TRUE]]
    BY DEF Revoke
  <1>4. tokens'[request[r].token].revoked
    BY <1>1, <1>2, <1>3, TokenMarks DEF IInv, TypeOK
  <1> QED
    BY <1>1, <1>4, MarkOneToken DEF Revoke, IInv

LEMMA RevokeIInv ==
    ASSUME IInv, NEW r \in Requests, Revoke(r)
    PROVE  IInv'
  <1> USE DEF IInv
  <1>1. At(r, "revoke") /\ Sound(r) /\ UNCHANGED <<users, session, lost>>
    BY DEF Revoke
  <1>2. Moves(r, "owner", request[r].name, request[r].email, request[r].user, request[r].token)
    BY GotoMoves DEF Revoke
  <1>3. TypeOK'
    BY <1>1, <1>2, RevokeMarks DEF TypeOK, Moves
  <1>4. ASSUME NEW q \in Requests, request[q].token # None
        PROVE  /\ request[q].token \in Requests
               /\ tokens[request[q].token] # None
               /\ request'[request[q].token] = request[request[q].token]
    BY <1>1, <1>2, <1>4, RevokedToken DEF Moves, At
  <1>5. ASSUME NEW q \in Requests, q # r PROVE Sound(q)'
    <2>1. Sound(q) /\ request'[q] = request[q]
      BY <1>2, <1>5 DEF Moves
    <2>2. Registers(q)' /\ Carries(q)' /\ Grants(q)'
      BY <1>1, <2>1, RevokeMarks DEF Sound, Registers, Carries, Grants, At
    <2>3. Exchanges(q)' /\ Belongs(q)'
      BY <1>1, <1>4, <2>1 DEF Sound, Exchanges, Belongs, At
    <2>4. Revokes(q)'
      BY <1>4, <2>1, RevokeMarks DEF Sound, Revokes
    <2> QED
      BY <2>2, <2>3, <2>4 DEF Sound
  <1>6. Sound(r)'
    <2>1. tokens'[r] = None
      BY <1>1, RevokeMarks DEF Sound, Grants, At
    <2>2. Registers(r)' /\ Carries(r)' /\ Grants(r)'
      BY <1>1, <1>2, <2>1 DEF Moves, Sound, Registers, Carries, Grants, At
    <2>3. Exchanges(r)' /\ Belongs(r)'
      BY <1>1, <1>2, <1>4 DEF Moves, Sound, Exchanges, Belongs, At
    <2>4. Revokes(r)'
      BY <1>2, RevokeMarks DEF Moves, Revokes
    <2> QED
      BY <2>2, <2>3, <2>4 DEF Sound
  <1> QED
    BY <1>3, <1>5, <1>6

LEMMA ExpireIInv ==
    ASSUME IInv, Expire
    PROVE  IInv'
  <1> USE DEF IInv
  <1>1. PICK u \in Requests : tokens[u] # None /\ tokens' = [tokens EXCEPT ![u].expired = TRUE]
    BY DEF Expire
  <1>2. UNCHANGED <<users, request, session, lost>>
    BY DEF Expire
  <1>3. /\ tokens' \in [Requests -> RefreshToken \cup {None}]
        /\ \A t \in Requests :
             /\ tokens'[t] = None <=> tokens[t] = None
             /\ tokens[t] # None => /\ tokens'[t].user = tokens[t].user
                                    /\ tokens[t].revoked => tokens'[t].revoked
    BY <1>1, MarkOneToken
  <1>4. TypeOK'
    BY <1>2, <1>3 DEF TypeOK
  <1>5. ASSUME NEW q \in Requests PROVE Sound(q)'
    <2>1. Sound(q)
      OBVIOUS
    <2>2. Registers(q)' /\ Carries(q)' /\ Grants(q)' /\ Exchanges(q)' /\ Belongs(q)'
      BY <1>2, <1>3, <2>1 DEF Sound, Registers, Carries, Grants, Exchanges, Belongs, At
    <2>3. Revokes(q)'
      BY <1>2, <1>3, <2>1, RevokedToken DEF Sound, Revokes
    <2> QED
      BY <2>2, <2>3 DEF Sound
  <1> QED
    BY <1>4, <1>5

LEMMA NextIInv == IInv /\ [Next]_vars => IInv'
  <1> SUFFICES ASSUME IInv, [Next]_vars PROVE IInv'
    OBVIOUS
  <1>1. CASE UNCHANGED vars
    BY <1>1 DEF vars, IInv, TypeOK, Sound, Registers, Carries, Grants, Exchanges, Revokes,
                Belongs, At
  <1>2. CASE Next
    BY <1>2, RegisterIInv, SaveUserIInv, LoginIInv, AuthenticateIInv, SaveTokenIInv,
       GetValidIInv, RevokeIInv, GetUserOrFailIInv, ExpireIInv
    DEF Next
  <1> QED
    BY <1>1, <1>2

(* In every state each request has, at the statement it stands at, the     *)
(* facts that its earlier statements made: the tokens it read were stored, *)
(* the one it exchanges belongs to its login, what it revoked is revoked.  *)
THEOREM AuthInvariant == Spec => []IInv
  BY InitIInv, NextIInv, PTL DEF Spec

(* Every state of the auth service has the types of its tables and of the  *)
(* local state of its requests; the logins that were lost are logins.      *)
THEOREM AuthTypes == Spec => []TypeOK
  <1>1. IInv => TypeOK
    BY DEF IInv
  <1> QED
    BY <1>1, AuthInvariant, PTL

(* Whichever requests exchange a token at the same time, a token that was  *)
(* exchanged is revoked: every new token is saved after the revocation of  *)
(* the one it replaces.                                                    *)
THEOREM RotationRevokes == Spec => []ExchangedIsRevoked
  <1>1. IInv => ExchangedIsRevoked
    <2> SUFFICES ASSUME IInv, NEW t \in Requests, NEW r \in Requests,
                        tokens[r] # None, request[r].token = t
                 PROVE  tokens[t] # None /\ tokens[t].revoked
      BY DEF ExchangedIsRevoked, Exchanged
    <2>1. t # None
      BY AuthConstants
    <2>2. At(r, "granted") /\ Revokes(r)
      BY DEF IInv, Sound, Grants
    <2> QED
      BY <2>1, <2>2, RevokedToken DEF Revokes, At
  <1> QED
    BY <1>1, AuthInvariant, PTL

-----------------------------------------------------------------------------
(* No two users share a name or an email. *)

LEMMA NextUnique == UniqueUsers /\ TypeOK /\ [Next]_vars => UniqueUsers'
  <1> SUFFICES ASSUME UniqueUsers, TypeOK, [Next]_vars PROVE UniqueUsers'
    OBVIOUS
  <1>1. ASSUME NEW r \in Requests, SaveUser(r) PROVE UniqueUsers'
    <2>1. CASE Unique(request[r].name, request[r].email)
      <3> DEFINE row == [name |-> request[r].name, email |-> request[r].email]
      <3>1. users' = [users EXCEPT ![r] = row]
        BY <1>1, <2>1 DEF SaveUser
      <3>2. row.name = request[r].name /\ row.email = request[r].email
        OBVIOUS
      <3>3. \A u \in Requests : users[u] # None =>
                users[u].name # row.name /\ users[u].email # row.email
        BY <2>1, <3>2 DEF Unique, UsersNamed, UsersWithEmail
      <3> HIDE DEF row
      <3> QED
        BY <3>1, <3>3 DEF UniqueUsers, TypeOK
    <2>2. CASE ~Unique(request[r].name, request[r].email)
      BY <1>1, <2>2 DEF SaveUser, UniqueUsers
    <2> QED
      BY <2>1, <2>2
  <1>2. ASSUME ~\E r \in Requests : SaveUser(r) PROVE users' = users
    BY <1>2 DEF Next, Register, CheckUsername, CheckEmail, Login, Authenticate, SaveToken,
                Refresh, GetValid, Revoke, GetUser, Fail, Expire, vars
  <1> QED
    BY <1>1, <1>2 DEF UniqueUsers

(* Two requests that register the same username or email at once both pass *)
(* the checks of the handler; the UNIQUE constraints let one of them in.   *)
THEOREM UsersAreUnique == Spec => []UniqueUsers
  <1>1. Init => UniqueUsers
    BY DEF Init, UniqueUsers
  <1> QED
    BY <1>1, NextUnique, AuthTypes, PTL DEF Spec

-----------------------------------------------------------------------------
(* What each kind of step does to the tokens. *)

LEMMA TokenSteps ==
    ASSUME [Next]_vars
    PROVE  \/ UNCHANGED tokens
           \/ \E r \in Requests : SaveToken(r)
           \/ \E r \in Requests : Revoke(r)
           \/ Expire
  BY DEF Next, Register, CheckUsername, CheckEmail, SaveUser, Login, Authenticate, Refresh,
         GetValid, GetUser, Fail, vars

(* Which requests can be about to exchange a token after a step.           *)
LEMMA ExchangeSteps ==
    ASSUME IInv, [Next]_vars, NEW q \in Requests
    PROVE  /\ request'[q].pc \in {"revoke", "owner", "rotate"} =>
                /\ request'[q].token = request[q].token
                /\ \/ request[q].pc \in {"revoke", "owner", "rotate"}
                   \/ Valid(request[q].token)
           /\ ~At(q, "new") => request'[q].token = request[q].token
  <1> USE DEF IInv
  <1>1. ASSUME NEW r \in Requests, Register(r)
        PROVE  \E name \in Names, email \in Emails : Moves(r, "username", name, email, None, None)
    BY <1>1, RegisterArrives DEF Register
  <1>2. ASSUME NEW r \in Requests, Login(r)
        PROVE  \E name \in Names : Moves(r, "user", name, None, None, None)
    BY <1>2, LoginArrives DEF Login
  <1>3. ASSUME NEW r \in Requests, Refresh(r)
        PROVE  \E token : Moves(r, "valid", None, None, None, token)
    BY <1>3, RefreshArrives DEF Refresh
  <1>4. ASSUME NEW r \in Requests,
               \/ CheckUsername(r) \/ CheckEmail(r) \/ SaveUser(r) \/ SaveToken(r) \/ Revoke(r)
               \/ GetUser(r) \/ Fail(r)
        PROVE  \E pc \in Answered \cup {"email", "insert", "owner", "rotate"} :
                  /\ Moves(r, pc, request[r].name, request[r].email, request[r].user, request[r].token)
                  /\ pc \in {"owner", "rotate"} => request[r].pc \in {"revoke", "owner"}
    <2>1. PICK pc \in Answered \cup {"email", "insert", "owner", "rotate"} :
             /\ Goto(r, pc)
             /\ pc \in {"owner", "rotate"} => request[r].pc \in {"revoke", "owner"}
      BY <1>4 DEF CheckUsername, CheckEmail, SaveUser, SaveToken, Revoke, GetUser, Fail, Answered, At
    <2> QED
      BY <2>1, GotoMoves
  <1>5. ASSUME NEW r \in Requests, Authenticate(r)
        PROVE  \E pc \in {"refused", "save"}, user \in Requests \cup {None} :
                  Moves(r, pc, request[r].name, request[r].email, user, request[r].token)
    <2>1. CASE Goto(r, "refused")
      <3>1. Moves(r, "refused", request[r].name, request[r].email, request[r].user, request[r].token)
        BY <2>1, GotoMoves DEF Answered
      <3> QED
        BY <3>1, FieldTypes
    <2>2. CASE \E id \in UsersNamed(request[r].name) :
                  request' = [request EXCEPT ![r].pc = "save", ![r].user = id]
      <3>1. PICK id \in Requests : request' = [request EXCEPT ![r].pc = "save", ![r].user = id]
        BY <2>2 DEF UsersNamed
      <3>2. Moves(r, "save", request[r].name, request[r].email, id, request[r].token)
        BY <3>1, UserFound
      <3> QED
        BY <3>2
    <2> QED
      BY <1>5, <2>1, <2>2 DEF Authenticate
  <1>6. ASSUME NEW r \in Requests, GetValid(r)
        PROVE  \E pc \in {"refused", "revoke"}, user \in Requests \cup {None} :
                  /\ Moves(r, pc, request[r].name, request[r].email, user, request[r].token)
                  /\ pc = "revoke" => Valid(request[r].token)
    <2>1. CASE Goto(r, "refused")
      <3>1. Moves(r, "refused", request[r].name, request[r].email, request[r].user, request[r].token)
        BY <2>1, GotoMoves DEF Answered
      <3> QED
        BY <3>1, FieldTypes
    <2>2. CASE /\ Valid(request[r].token)
               /\ request' = [request EXCEPT ![r].pc = "revoke",
                                             ![r].user = tokens[request[r].token].user]
      <3>1. tokens[request[r].token].user \in Requests
        BY <2>2, FieldTypes DEF Valid
      <3>2. Moves(r, "revoke", request[r].name, request[r].email,
                  tokens[request[r].token].user, request[r].token)
        BY <2>2, <3>1, UserFound
      <3> QED
        BY <2>2, <3>1, <3>2
    <2> QED
      BY <1>6, <2>1, <2>2 DEF GetValid
  <1>7. ASSUME Expire \/ UNCHANGED vars PROVE request' = request
    BY <1>7 DEF Expire, vars
  <1>8. ASSUME NEW r \in Requests, Register(r) \/ Login(r) \/ Refresh(r) PROVE At(r, "new")
    BY <1>8 DEF Register, Login, Refresh
  <1> QED
    BY <1>1, <1>2, <1>3, <1>4, <1>5, <1>6, <1>7, <1>8 DEF Next, Moves, Answered, At

LEMMA NextKeepsSpent ==
    ASSUME IInv, [Next]_vars, NEW t \in Requests, Spent(t)
    PROVE  Spent(t)' /\ Children(t)' = Children(t)
  <1> USE DEF IInv
  <1>1. t # None /\ At(t, "granted")
    BY AuthConstants DEF Spent, Sound, Grants
  <1>2. tokens'[t] # None /\ (tokens'[t].revoked \/ tokens'[t].expired)
    <2>1. CASE UNCHANGED tokens
      BY <2>1 DEF Spent
    <2>2. ASSUME NEW r \in Requests, SaveToken(r) PROVE tokens'[t] = tokens[t]
      BY <1>1, <2>2 DEF SaveToken, At
    <2>3. ASSUME NEW r \in Requests, Revoke(r) PROVE tokens'[t] = tokens[t]
      BY <2>3, RevokeMarks DEF Spent, Revoke
    <2>4. CASE Expire
      <3>1. PICK u \in Requests : tokens[u] # None /\ tokens' = [tokens EXCEPT ![u].expired = TRUE]
        BY <2>4 DEF Expire
      <3>2. tokens'[t] # None /\ (u # t => tokens'[t] = tokens[t])
        BY <3>1, MarkOneToken DEF Spent
      <3>3. u = t => tokens'[t].expired
        <4>1. tokens[u] \in RefreshToken
          BY <3>1 DEF TypeOK
        <4>2. tokens' = [tokens EXCEPT ![u] = [tokens[u] EXCEPT !.expired = TRUE]]
          BY <3>1
        <4> QED
          BY <4>1, <4>2, TokenMarks DEF TypeOK
      <3> QED
        BY <3>2, <3>3 DEF Spent
    <2> QED
      BY <2>1, <2>2, <2>3, <2>4, TokenSteps DEF Spent
  <1>3. ASSUME NEW q \in Requests, request'[q].token = t
        PROVE  request'[q].pc \notin {"revoke", "owner", "rotate"}
    <2>1. request[q].token = t => ~Valid(t) /\ request[q].pc \notin {"revoke", "owner", "rotate"}
      BY DEF Spent, Valid, At
    <2> QED
      BY <1>3, <2>1, ExchangeSteps
  <1>4. Spent(t)'
    BY <1>2, <1>3 DEF Spent, At
  <1>5. ASSUME NEW q \in Requests
        PROVE  (request'[q].token = t /\ tokens'[q] # None) <=> (request[q].token = t /\ tokens[q] # None)
    <2>1. ASSUME NEW r \in Requests, SaveToken(r), request[r].token = t PROVE FALSE
      BY <1>1, <2>1 DEF Sound, Exchanges, SaveToken, Spent, At
    <2>2. ASSUME NEW r \in Requests, SaveToken(r) PROVE q # r => tokens'[q] = tokens[q]
      BY <2>2 DEF SaveToken, TypeOK
    <2>3. request[q].token = t => ~\E r \in Requests : SaveToken(r) /\ q = r
      BY <2>1
    <2>4. tokens[q] # None => request'[q].token = request[q].token /\ tokens'[q] # None
      <3>1. ASSUME tokens[q] # None PROVE At(q, "granted") /\ ~At(q, "new")
        BY <3>1 DEF Sound, Grants, At
      <3>2. ASSUME tokens[q] # None, NEW r \in Requests, SaveToken(r) PROVE q # r
        BY <3>1, <3>2 DEF SaveToken, At
      <3>3. ASSUME tokens[q] # None, Expire PROVE tokens'[q] # None
        <4>1. PICK u \in Requests : tokens[u] # None /\ tokens' = [tokens EXCEPT ![u].expired = TRUE]
          BY <3>3 DEF Expire
        <4> QED
          BY <3>3, <4>1, MarkOneToken
      <3> QED
        BY <2>2, <3>1, <3>2, <3>3, TokenSteps, ExchangeSteps, RevokeMarks
    <2>5. tokens[q] = None /\ tokens'[q] # None => SaveToken(q)
      <3>1. ASSUME Expire PROVE tokens[q] = None => tokens'[q] = None
        <4>1. PICK u \in Requests : tokens[u] # None /\ tokens' = [tokens EXCEPT ![u].expired = TRUE]
          BY <3>1 DEF Expire
        <4> QED
          BY <4>1, MarkOneToken
      <3> QED
        BY <2>2, <3>1, TokenSteps, RevokeMarks
    <2>6. SaveToken(q) => request'[q].token = request[q].token
      BY ExchangeSteps DEF SaveToken, At
    <2> QED
      BY <2>3, <2>4, <2>5, <2>6
  <1>6. Children(t)' = Children(t)
    BY <1>5 DEF Children
  <1> QED
    BY <1>4, <1>6

(* A token that is revoked or has expired, and that no request has read    *)
(* before that, is never exchanged again.                                  *)
THEOREM SpentStaysWorthless == Spec => SpentIsWorthless
  <1>1. IInv /\ [Next]_vars =>
          [\A t \in Requests : Spent(t) => Spent(t)' /\ Children(t)' = Children(t)]_vars
    BY NextKeepsSpent
  <1> QED
    BY <1>1, AuthInvariant, PTL DEF Spec, SpentIsWorthless

-----------------------------------------------------------------------------
(* A login is never lost but to a failure. *)

LEMMA SavedTokenIsValid ==
    ASSUME IInv, NEW r \in Requests, SaveToken(r)
    PROVE  tokens'[r] # None /\ ~tokens'[r].revoked
  <1>1. request[r].user \in Requests
    BY DEF IInv, Sound, Carries, SaveToken, At
  <1> DEFINE row == [user |-> request[r].user, revoked |-> FALSE, expired |-> FALSE]
  <1>2. row # None /\ ~row.revoked
    BY <1>1, NewToken
  <1>3. tokens' = [tokens EXCEPT ![r] = row]
    BY DEF SaveToken
  <1> HIDE DEF row
  <1> QED
    BY <1>2, <1>3 DEF IInv, TypeOK

LEMMA ExpiryRevokesNothing ==
    ASSUME IInv, Expire, NEW t \in Requests, tokens[t] # None, ~tokens[t].revoked
    PROVE  tokens'[t] # None /\ ~tokens'[t].revoked
  <1>1. PICK u \in Requests : tokens[u] # None /\ tokens' = [tokens EXCEPT ![u].expired = TRUE]
    BY DEF Expire
  <1>2. CASE u # t
    BY <1>1, <1>2, MarkOneToken DEF IInv
  <1>3. CASE u = t
    <2>1. tokens[t] \in RefreshToken
      BY DEF IInv, TypeOK
    <2>2. tokens' = [tokens EXCEPT ![t] = [tokens[t] EXCEPT !.expired = TRUE]]
      BY <1>1, <1>3
    <2> QED
      BY <2>1, <2>2, TokenMarks DEF IInv, TypeOK
  <1> QED
    BY <1>2, <1>3

LEMMA LoginsStay ==
    ASSUME IInv, [Next]_vars
    PROVE  /\ \A t \in Requests : ~At(t, "new") => session'[t] = session[t]
           /\ lost \subseteq lost'
  <1>1. ASSUME NEW r \in Requests, Login(r) \/ Refresh(r)
        PROVE  At(r, "new") /\ \E x : session' = [session EXCEPT ![r] = x]
    BY <1>1 DEF Login, Refresh
  <1>2. ASSUME ~\E r \in Requests : Login(r) \/ Refresh(r) PROVE session' = session
    BY <1>2 DEF Next, Register, CheckUsername, CheckEmail, SaveUser, Authenticate, SaveToken,
                GetValid, Revoke, GetUser, Fail, Expire, vars
  <1>3. lost \subseteq lost'
    BY DEF Next, Register, CheckUsername, CheckEmail, SaveUser, Login, Authenticate, SaveToken,
           Refresh, GetValid, Revoke, GetUser, Fail, Expire, vars
  <1> QED
    BY <1>1, <1>2, <1>3 DEF IInv, TypeOK

(* The request that is exchanging a token of the login finishes, fails, or *)
(* goes on.                                                                *)
LEMMA ExchangeGoesOn ==
    ASSUME IInv, [Next]_vars, NEW t \in Requests, At(t, "owner") \/ At(t, "rotate")
    PROVE  \/ At(t, "owner")' \/ At(t, "rotate")'
           \/ tokens'[t] # None /\ ~tokens'[t].revoked
           \/ session[t] \in lost'
  <1> USE DEF IInv
  <1>1. CASE GetUser(t)
    <2>1. At(t, "owner") /\ users[request[t].user] # None
      BY <1>1 DEF GetUser, Sound, Carries, At
    <2>2. Goto(t, "rotate")
      BY <1>1, <2>1 DEF GetUser
    <2>3. Moves(t, "rotate", request[t].name, request[t].email, request[t].user, request[t].token)
      BY <2>2, GotoMoves
    <2> QED
      BY <2>3 DEF Moves, At
  <1>2. CASE SaveToken(t)
    BY <1>2, SavedTokenIsValid
  <1>3. CASE Fail(t)
    BY <1>3 DEF Fail
  <1>4. ASSUME NEW r \in Requests, r # t, Next,
               \/ Register(r) \/ CheckUsername(r) \/ CheckEmail(r) \/ SaveUser(r)
               \/ Login(r) \/ Authenticate(r) \/ SaveToken(r)
               \/ Refresh(r) \/ GetValid(r) \/ Revoke(r) \/ GetUser(r) \/ Fail(r)
        PROVE  request'[t] = request[t]
    BY <1>4 DEF Register, CheckUsername, CheckEmail, SaveUser, Login, Authenticate, SaveToken,
                Refresh, GetValid, Revoke, GetUser, Fail, Goto, TypeOK
  <1>5. CASE Expire \/ UNCHANGED vars
    BY <1>5 DEF Expire, vars, At
  <1>6. CASE \/ Register(t) \/ CheckUsername(t) \/ CheckEmail(t) \/ SaveUser(t) \/ Login(t)
             \/ Authenticate(t) \/ Refresh(t) \/ GetValid(t) \/ Revoke(t)
    BY <1>6 DEF Register, CheckUsername, CheckEmail, SaveUser, Login, Authenticate, Refresh,
                GetValid, Revoke, At
  <1> QED
    BY <1>1, <1>2, <1>3, <1>4, <1>5, <1>6 DEF Next, At

LEMMA ValidTokenGoesOn ==
    ASSUME IInv, [Next]_vars, NEW t \in Requests, tokens[t] # None, ~tokens[t].revoked
    PROVE  \/ tokens'[t] # None /\ ~tokens'[t].revoked
           \/ \E r \in Requests : session'[r] = session[t] /\ At(r, "owner")'
  <1>1. ASSUME NEW r \in Requests, SaveToken(r) PROVE tokens'[t] = tokens[t]
    BY <1>1 DEF IInv, Sound, Grants, SaveToken, At
  <1>2. ASSUME NEW r \in Requests, Revoke(r)
        PROVE  tokens'[t] = tokens[t] \/ (session'[r] = session[t] /\ At(r, "owner")')
    <2>1. CASE request[r].token # t
      BY <1>2, <2>1, RevokeMarks
    <2>2. CASE request[r].token = t
      <3>1. session[r] = session[t]
        BY <2>2, RevokedToken, AuthConstants
      <3>2. Moves(r, "owner", request[r].name, request[r].email, request[r].user, request[r].token)
        BY <1>2, GotoMoves DEF Revoke, IInv
      <3> QED
        BY <1>2, <3>1, <3>2 DEF Revoke, Moves, At
    <2> QED
      BY <2>1, <2>2
  <1> QED
    BY <1>1, <1>2, TokenSteps, ExpiryRevokesNothing

LEMMA NextGoesOn == IInv /\ SessionGoesOn /\ [Next]_vars => SessionGoesOn'
  <1> SUFFICES ASSUME IInv, SessionGoesOn, [Next]_vars, NEW s \in Requests,
                      tokens'[s] # None, session'[s] = s
               PROVE  s \in lost' \/ GoesOn(s)'
    BY DEF SessionGoesOn
  <1>1. CASE tokens[s] = None
    <2>1. PICK r \in Requests : SaveToken(r) /\ r = s
      <3>1. ASSUME Expire PROVE FALSE
        <4>1. PICK u \in Requests : tokens[u] # None /\ tokens' = [tokens EXCEPT ![u].expired = TRUE]
          BY <3>1 DEF Expire
        <4> QED
          BY <1>1, <4>1, MarkOneToken DEF IInv
      <3>2. ASSUME NEW r \in Requests, SaveToken(r), r # s PROVE tokens'[s] = tokens[s]
        BY <3>2 DEF SaveToken
      <3> QED
        BY <1>1, <3>1, <3>2, TokenSteps, RevokeMarks
    <2>2. tokens'[s] # None /\ ~tokens'[s].revoked
      BY <2>1, SavedTokenIsValid
    <2> QED
      BY <2>2 DEF GoesOn
  <1>2. CASE tokens[s] # None
    <2>1. session[s] = s
      BY <1>2, LoginsStay DEF IInv, Sound, Grants, At
    <2>2. s \in lost \/ GoesOn(s)
      BY <1>2, <2>1 DEF SessionGoesOn
    <2>3. ASSUME GoesOn(s) PROVE s \in lost' \/ GoesOn(s)'
      <3>1. PICK t \in Requests :
               /\ session[t] = s
               /\ \/ tokens[t] # None /\ ~tokens[t].revoked
                  \/ At(t, "owner") \/ At(t, "rotate")
        BY <2>3 DEF GoesOn
      <3>2. session'[t] = s
        BY <3>1, LoginsStay DEF IInv, Sound, Grants, At
      <3>3. CASE tokens[t] # None /\ ~tokens[t].revoked
        BY <3>1, <3>2, <3>3, ValidTokenGoesOn DEF GoesOn
      <3>4. CASE At(t, "owner") \/ At(t, "rotate")
        BY <3>1, <3>2, <3>4, ExchangeGoesOn DEF GoesOn
      <3> QED
        BY <3>1, <3>3, <3>4
    <2> QED
      BY <2>2, <2>3, LoginsStay
  <1> QED
    BY <1>1, <1>2

(* However the refreshes of a login race, it keeps a token that is not     *)
(* revoked or a request that is about to save one: a login is lost only to *)
(* a request that failed between its revocation and its new token.         *)
THEOREM LoginsGoOn == Spec => []SessionGoesOn
  <1>1. Init => SessionGoesOn
    BY DEF Init, SessionGoesOn
  <1> QED
    BY <1>1, NextGoesOn, AuthInvariant, PTL DEF Spec
=============================================================================
