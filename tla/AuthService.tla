---------------------------- MODULE AuthService ----------------------------
(***************************************************************************)
(* The auth service: registration, login and the rotation of refresh       *)
(* tokens.  A request runs its statements one by one, each on a connection *)
(* of its own, and the requests of all clients interleave between them.    *)
(*                                                                         *)
(* A user_id is a fresh uuid4 and a refresh token a fresh random string:   *)
(* both are named by the request that makes them.  Access tokens are       *)
(* computed from the user and kept nowhere.                                *)
(***************************************************************************)
EXTENDS Naturals

CONSTANTS
    Requests,   \* bound: the calls of register, token and refresh
    Names,      \* usernames
    Emails,
    None        \* no row, no value

ASSUME AuthConstants == None \notin Requests \cup Names \cup Emails

User == [name : Names, email : Emails]

RefreshToken == [user : Requests, revoked : BOOLEAN, expired : BOOLEAN]

ASSUME RowsAreNotNone == None \notin User \cup RefreshToken

VARIABLES
    users,     \* the users table
    tokens,    \* the refresh_tokens table
    request,   \* the local state of every request
    session,   \* the login that a request for tokens goes back to
    lost       \* the logins of which a request failed after its revocation

vars == <<users, tokens, request, session, lost>>

New == [pc |-> "new", name |-> None, email |-> None, user |-> None, token |-> None]

Init ==
    /\ users = [id \in Requests |-> None]
    /\ tokens = [id \in Requests |-> None]
    /\ request = [r \in Requests |-> New]
    /\ session = [r \in Requests |-> None]
    /\ lost = {}

At(r, pc) == request[r].pc = pc

Goto(r, pc) == request' = [request EXCEPT ![r].pc = pc]

-----------------------------------------------------------------------------
(* The two tables. *)

UsersNamed(name) == {id \in Requests : users[id] # None /\ users[id].name = name}

UsersWithEmail(email) == {id \in Requests : users[id] # None /\ users[id].email = email}

(* A slip: only the username is UNIQUE. *)
UniqueName(name, email) == UsersNamed(name) = {}

(* The UNIQUE constraints on username and email. *)
Unique(name, email) == UsersNamed(name) = {} /\ UsersWithEmail(email) = {}

(* A slip: a token that was revoked is still accepted. *)
ValidUnlessExpired(t) == t # None /\ tokens[t] # None /\ ~tokens[t].expired

(* The rows get_valid selects; None is a string that is no token.          *)
Valid(t) == t # None /\ tokens[t] # None /\ ~tokens[t].revoked /\ ~tokens[t].expired

-----------------------------------------------------------------------------
(* POST /auth/register *)

Register(r) ==
    /\ At(r, "new")
    /\ \E name \in Names, email \in Emails :
          request' = [request EXCEPT ![r] = [New EXCEPT !.pc = "username", !.name = name, !.email = email]]
    /\ UNCHANGED <<users, tokens, session, lost>>

CheckUsername(r) ==
    /\ At(r, "username")
    /\ Goto(r, IF UsersNamed(request[r].name) # {} THEN "conflict" ELSE "email")
    /\ UNCHANGED <<users, tokens, session, lost>>

CheckEmail(r) ==
    /\ At(r, "email")
    /\ Goto(r, IF UsersWithEmail(request[r].email) # {} THEN "conflict" ELSE "insert")
    /\ UNCHANGED <<users, tokens, session, lost>>

(* A slip: two columns of the INSERT are swapped. *)
SaveUserSwapped(r) ==
    /\ At(r, "insert")
    /\ IF Unique(request[r].name, request[r].email)
       THEN /\ users' = [users EXCEPT ![r] = [name |-> request[r].email, email |-> request[r].name]]
            /\ Goto(r, "created")
       ELSE /\ Goto(r, "failed")
            /\ UNCHANGED users
    /\ UNCHANGED <<tokens, session, lost>>

(* A violated constraint raises, and the request ends with an error.       *)
SaveUser(r) ==
    /\ At(r, "insert")
    /\ IF Unique(request[r].name, request[r].email)
       THEN /\ users' = [users EXCEPT ![r] = [name |-> request[r].name, email |-> request[r].email]]
            /\ Goto(r, "created")
       ELSE /\ Goto(r, "failed")
            /\ UNCHANGED users
    /\ UNCHANGED <<tokens, session, lost>>

-----------------------------------------------------------------------------
(* POST /auth/token *)

Login(r) ==
    /\ At(r, "new")
    /\ \E name \in Names :
          request' = [request EXCEPT ![r] = [New EXCEPT !.pc = "user", !.name = name]]
    /\ session' = [session EXCEPT ![r] = r]
    /\ UNCHANGED <<users, tokens, lost>>

(* The password is right or it is not. *)
Authenticate(r) ==
    /\ At(r, "user")
    /\ \/ \E id \in UsersNamed(request[r].name) :
             request' = [request EXCEPT ![r].pc = "save", ![r].user = id]
       \/ Goto(r, "refused")
    /\ UNCHANGED <<users, tokens, session, lost>>

(* create_refresh_token, for a login and for a refresh. *)
SaveToken(r) ==
    /\ At(r, "save") \/ At(r, "rotate")
    /\ tokens' = [tokens EXCEPT ![r] =
                    [user |-> request[r].user, revoked |-> FALSE, expired |-> FALSE]]
    /\ Goto(r, "granted")
    /\ UNCHANGED <<users, session, lost>>

-----------------------------------------------------------------------------
(* POST /auth/refresh *)

(* A client has the tokens it was answered with; or it sends no token.     *)
Refresh(r) ==
    /\ At(r, "new")
    /\ \E t \in {q \in Requests : At(q, "granted")} \cup {None} :
          /\ request' = [request EXCEPT ![r] = [New EXCEPT !.pc = "valid", !.token = t]]
          /\ session' = [session EXCEPT ![r] = IF t = None THEN None ELSE session[t]]
    /\ UNCHANGED <<users, tokens, lost>>

GetValid(r) ==
    /\ At(r, "valid")
    /\ IF Valid(request[r].token)
       THEN request' = [request EXCEPT ![r].pc = "revoke",
                                       ![r].user = tokens[request[r].token].user]
       ELSE Goto(r, "refused")
    /\ UNCHANGED <<users, tokens, session, lost>>

(* A slip: the tokens of the user are revoked, not the one that was sent.  *)
RevokeAll(r) ==
    /\ At(r, "revoke")
    /\ tokens' = [t \in Requests |->
                    IF tokens[t] # None /\ tokens[t].user = request[r].user
                    THEN [tokens[t] EXCEPT !.revoked = TRUE] ELSE tokens[t]]
    /\ Goto(r, "owner")
    /\ UNCHANGED <<users, session, lost>>

(* A slip: the token is revoked only if nobody else is using it.           *)
RevokeUnlessShared(r) ==
    /\ At(r, "revoke")
    /\ tokens' = IF \E q \in Requests \ {r} : At(q, "revoke") /\ request[q].token = request[r].token
                 THEN tokens ELSE [tokens EXCEPT ![request[r].token].revoked = TRUE]
    /\ Goto(r, "owner")
    /\ UNCHANGED <<users, session, lost>>

(* The token is revoked whether or not it still is valid. *)
Revoke(r) ==
    /\ At(r, "revoke")
    /\ tokens' = [tokens EXCEPT ![request[r].token].revoked = TRUE]
    /\ Goto(r, "owner")
    /\ UNCHANGED <<users, session, lost>>

GetUser(r) ==
    /\ At(r, "owner")
    /\ Goto(r, IF users[request[r].user] # None THEN "rotate" ELSE "refused")
    /\ UNCHANGED <<users, tokens, session, lost>>

-----------------------------------------------------------------------------
(* expires_at passes. *)
Expire ==
    /\ \E t \in Requests :
          /\ tokens[t] # None /\ ~tokens[t].expired
          /\ tokens' = [tokens EXCEPT ![t].expired = TRUE]
    /\ UNCHANGED <<users, request, session, lost>>

Answered == {"conflict", "created", "refused", "granted", "failed"}

Running(r) == request[r].pc \notin Answered \cup {"new"}

(* A statement raises, or the process stops. *)
Fail(r) ==
    /\ Running(r)
    /\ Goto(r, "failed")
    /\ lost' = IF At(r, "owner") \/ At(r, "rotate") THEN lost \cup {session[r]} ELSE lost
    /\ UNCHANGED <<users, tokens, session>>

Next ==
    \/ \E r \in Requests :
          \/ Register(r) \/ CheckUsername(r) \/ CheckEmail(r) \/ SaveUser(r)
          \/ Login(r) \/ Authenticate(r) \/ SaveToken(r)
          \/ Refresh(r) \/ GetValid(r) \/ Revoke(r) \/ GetUser(r)
          \/ Fail(r)
    \/ Expire

Spec == Init /\ [][Next]_vars

-----------------------------------------------------------------------------
RequestState ==
    [pc : Answered \cup {"new", "username", "email", "insert", "user", "save",
                         "valid", "revoke", "owner", "rotate"},
     name : Names \cup {None}, email : Emails \cup {None},
     user : Requests \cup {None}, token : Requests \cup {None}]

(* Every variable has its type. *)
TypeOK ==
    /\ users \in [Requests -> User \cup {None}]
    /\ tokens \in [Requests -> RefreshToken \cup {None}]
    /\ request \in [Requests -> RequestState]
    /\ session \in [Requests -> Requests \cup {None}]
    /\ lost \in SUBSET Requests

(* Two requests that register the same username or email at once both pass *)
(* the checks; still no two users share either.                            *)
UniqueUsers ==
    \A u, v \in Requests :
        u # v /\ users[u] # None /\ users[v] # None =>
            users[u].name # users[v].name /\ users[u].email # users[v].email

(* Rotation: a token that was exchanged for another is revoked, whichever  *)
(* requests exchanged it at the same time.                                 *)
Exchanged(t) == \E r \in Requests : tokens[r] # None /\ request[r].token = t

ExchangedIsRevoked == \A t \in Requests : Exchanged(t) => tokens[t] # None /\ tokens[t].revoked

(* A login keeps a token that can be exchanged, as long as it does not     *)
(* expire, however its refreshes race: it is lost only to a request that   *)
(* failed between its revocation and its new token.                        *)
GoesOn(s) ==
    \E t \in Requests :
        /\ session[t] = s
        /\ \/ tokens[t] # None /\ ~tokens[t].revoked
           \/ At(t, "owner") \/ At(t, "rotate")

SessionGoesOn == \A s \in Requests : tokens[s] # None /\ session[s] = s => s \in lost \/ GoesOn(s)

(* Nobody will get a new token for this one any more.                      *)
Spent(t) ==
    /\ tokens[t] # None
    /\ tokens[t].revoked \/ tokens[t].expired
    /\ \A r \in Requests :
          request[r].token = t => ~At(r, "revoke") /\ ~At(r, "owner") /\ ~At(r, "rotate")

Children(t) == {r \in Requests : request[r].token = t /\ tokens[r] # None}

(* A token that is revoked or has expired, and that no request has read    *)
(* before that, is never exchanged again.                                  *)
SpentIsWorthless ==
    [][\A t \in Requests : Spent(t) => Spent(t)' /\ Children(t)' = Children(t)]_vars
=============================================================================
