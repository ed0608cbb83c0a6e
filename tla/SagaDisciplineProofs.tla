------------------------- MODULE SagaDisciplineProofs -------------------------
(***************************************************************************)
(* Theorems about a coordinator whose surroundings keep a discipline its   *)
(* code relies on.  Calls may raise, an instance may stop anywhere, and    *)
(* events may come again.                                                  *)
(***************************************************************************)
EXTENDS SagaCoordinatorProofs

(* No update of a saga beside the report of its failure, and one at a time. *)
OneAtATime == Env \cap {"overlap", "parallel", "repost"} = {}

(* And one running instance. *)
Disciplined == (\A v, w \in Workers : v = w) /\ OneAtATime

(***************************************************************************)
(* Part one: any number of instances.  Whoever is about to update a saga   *)
(* holds a copy of the row as it is now.                                   *)
(***************************************************************************)
PatchesAlone(r, s) ==
    Serves(r, s, {"patch"}) =>
        /\ row[s] # NoRow => row[s].status = "started"
        /\ \A q \in Requests : Updates(q, s) => q = r

SavesFreshCopy(r, s) ==
    request[r].pc = "save" =>
        /\ Serves(r, s, {"patch"}) =>
             /\ row[s] # NoRow
             /\ request[r].entity.status = "started"
             /\ Keeps(row[s], request[r].entity)
        /\ Serves(r, s, {"complete"}) =>
             /\ row[s] # NoRow
             /\ request[r].entity = MarkCompleted(row[s])

RequestOK(r, s) ==
    CreatesAlone(r, s) /\ UpdatesBeforeFailure(r, s) /\ PatchesAlone(r, s) /\ SavesFreshCopy(r, s)

RequestsOK == \A s \in Sagas, r \in Requests : RequestOK(r, s)

LEMMA InitRequestsOK == Init => RequestsOK
  <1> SUFFICES ASSUME Init, NEW s \in Sagas, NEW r \in Requests PROVE RequestOK(r, s)
    BY DEF RequestsOK
  <1>1. ~InFlight(r) /\ request[r].pc = "new"
    BY DEF Init, InFlight, NewRequest
  <1> QED
    BY <1>1
    DEF RequestOK, CreatesAlone, UpdatesBeforeFailure, PatchesAlone, SavesFreshCopy, Serves, Updates

LEMMA SameRequests ==
    ASSUME RequestsOK, UNCHANGED <<row, request>>,
           \A e \in Events : events[e] = "absent" => events'[e] = "absent",
           \A w \in Workers, r \in Requests, s \in Sagas :
               Updates(r, s) => worker'[w].saga # s
    PROVE  RequestsOK'
  BY DEF RequestsOK, RequestOK, CreatesAlone, UpdatesBeforeFailure, PatchesAlone, SavesFreshCopy,
         Updates, Serves, InFlight

(* A request that reads goes on with what it read, or is answered. *)
LEMMA RequestMoves ==
    ASSUME RequestsOK, NEW r \in Requests, UNCHANGED <<row, events, worker, commands>>,
           \A q \in Requests \ {r} : request'[q] = request[q],
           \/ request'[r].pc = "done"
           \/ /\ InFlight(r)
              /\ request[r].kind \in {"patch", "complete"}
              /\ request'[r].kind = request[r].kind
              /\ request'[r].saga = request[r].saga
              /\ request'[r].pc = "save" =>
                   LET found == row[request[r].saga]
                   IN  /\ found # NoRow
                       /\ request[r].kind = "patch" =>
                            request'[r].entity.status = "started" /\ Keeps(found, request'[r].entity)
                       /\ request[r].kind = "complete" => request'[r].entity = MarkCompleted(found)
    PROVE  RequestsOK'
  <1> SUFFICES ASSUME NEW s \in Sagas, NEW q \in Requests PROVE RequestOK(q, s)'
    BY DEF RequestsOK
  <1>1. \A p \in Requests :
           /\ Serves(p, s, {"create"})' => Serves(p, s, {"create"}) /\ p # r
           /\ Serves(p, s, {"patch"})' => Serves(p, s, {"patch"})
           /\ Serves(p, s, {"complete"})' => Serves(p, s, {"complete"})
           /\ Updates(p, s)' => Updates(p, s)
    BY DEF Serves, Updates, InFlight
  <1>2. RequestOK(q, s)
    BY DEF RequestsOK
  <1>3. CreatesAlone(q, s)'
    BY <1>1, <1>2 DEF RequestOK, CreatesAlone
  <1>4. UpdatesBeforeFailure(q, s)'
    BY <1>1, <1>2 DEF RequestOK, UpdatesBeforeFailure
  <1>5. PatchesAlone(q, s)'
    BY <1>1, <1>2 DEF RequestOK, PatchesAlone
  <1>6. SavesFreshCopy(q, s)'
    <2>1. CASE q = r
      BY <1>1, <2>1 DEF SavesFreshCopy, Serves, InFlight, Keeps
    <2>2. CASE q # r
      BY <1>1, <1>2, <2>2 DEF RequestOK, SavesFreshCopy, Keeps
    <2> QED
      BY <2>1, <2>2
  <1> QED
    BY <1>3, <1>4, <1>5, <1>6 DEF RequestOK

LEMMA BeginRequestsOK ==
    ASSUME OneAtATime, TypeOK, RequestsOK, NEW r \in Requests, BeginRequest(r)
    PROVE  RequestsOK'
  <1> SUFFICES ASSUME NEW s \in Sagas, NEW q \in Requests PROVE RequestOK(q, s)'
    BY DEF RequestsOK
  <1>0. request \in [Requests -> RequestState] /\ RequestOK(q, s)
    BY DEF RequestsOK, TypeOK
  <1>1. ~InFlight(r)
    BY DEF BeginRequest, BeginCreate, BeginPatch, BeginComplete, InFlight
  <1>2. ASSUME NEW t \in Sagas, NEW context \in Context, BeginCreate(r, t, context)
        PROVE  RequestOK(q, s)'
    <2>1. /\ row[t] = NoRow
          /\ \A p \in Requests : ~Serves(p, t, {"create"})
      BY <1>2 DEF BeginCreate, OneAtATime, NoneInFlight, Serves
    <2>2. /\ request'[r].pc = "save" /\ request'[r].saga = t /\ request'[r].kind = "create"
          /\ request'[r].entity.status = "started"
          /\ \A p \in Requests \ {r} : request'[p] = request[p]
      BY <1>0, <1>2 DEF BeginCreate, NewEntity
    <2>3. \A p \in Requests :
             /\ Serves(p, s, {"create"})' => Serves(p, s, {"create"}) \/ (p = r /\ s = t)
             /\ Serves(p, s, {"patch"})' => Serves(p, s, {"patch"}) /\ p # r
             /\ Serves(p, s, {"complete"})' => Serves(p, s, {"complete"}) /\ p # r
             /\ Updates(p, s)' => Updates(p, s) /\ p # r
      BY <2>2, <1>1 DEF Serves, Updates, InFlight
    <2>4. UNCHANGED <<row, events, worker>>
      BY <1>2 DEF BeginCreate
    <2>5. CreatesAlone(q, s)'
      BY <1>0, <1>1, <2>1, <2>2, <2>3, <2>4 DEF RequestOK, CreatesAlone, Serves
    <2>6. UpdatesBeforeFailure(q, s)' /\ PatchesAlone(q, s)'
      BY <1>0, <2>3, <2>4 DEF RequestOK, UpdatesBeforeFailure, PatchesAlone
    <2>7. SavesFreshCopy(q, s)'
      BY <1>0, <2>2, <2>3, <2>4 DEF RequestOK, SavesFreshCopy, Keeps
    <2> QED
      BY <2>5, <2>6, <2>7 DEF RequestOK
  <1>3. ASSUME NEW t \in Sagas,
               (\E context \in Context : BeginPatch(r, t, context)) \/ BeginComplete(r, t)
        PROVE  RequestOK(q, s)'
    <2>1. /\ NoFailureOf(t)
          /\ \A p \in Requests : ~Serves(p, t, {"patch"})
          /\ request'[r].kind = "patch" => \A p \in Requests : ~Updates(p, t)
      BY <1>0, <1>3 DEF BeginPatch, BeginComplete, OneAtATime, NoneInFlight, Serves, Updates
    <2>2. /\ request'[r].pc \in {"read", "reread"} /\ request'[r].saga = t
          /\ request'[r].kind \in {"patch", "complete"}
          /\ \A p \in Requests \ {r} : request'[p] = request[p]
      BY <1>0, <1>3 DEF BeginPatch, BeginComplete
    <2>3. \A p \in Requests :
             /\ Serves(p, s, {"create"})' => Serves(p, s, {"create"}) /\ p # r
             /\ Serves(p, s, {"patch"})' =>
                  Serves(p, s, {"patch"}) \/ (p = r /\ s = t /\ request'[r].kind = "patch")
             /\ Updates(p, s)' => Updates(p, s) \/ (p = r /\ s = t)
      BY <2>2, <1>1 DEF Serves, Updates, InFlight
    <2>4. UNCHANGED <<row, events, worker>>
      BY <1>3 DEF BeginPatch, BeginComplete
    <2>5. CreatesAlone(q, s)'
      BY <1>0, <2>2, <2>3, <2>4 DEF RequestOK, CreatesAlone
    <2>6. UpdatesBeforeFailure(q, s)'
      BY <1>0, <2>1, <2>3, <2>4 DEF RequestOK, UpdatesBeforeFailure, NoFailureOf
    <2>7. PatchesAlone(q, s)'
      <3> SUFFICES ASSUME Serves(q, s, {"patch"})'
                   PROVE  /\ row[s] # NoRow => row[s].status = "started"
                          /\ \A p \in Requests : Updates(p, s)' => p = q
        BY <2>4 DEF PatchesAlone
      <3>1. CASE q = r
        BY <1>1, <2>1, <2>3, <3>1 DEF NoFailureOf, Serves
      <3>2. CASE q # r
        <4>1. Serves(q, s, {"patch"}) /\ s # t
          BY <2>1, <2>3, <3>2
        <4> QED
          BY <1>0, <2>3, <4>1 DEF RequestOK, PatchesAlone
      <3> QED
        BY <3>1, <3>2
    <2>8. SavesFreshCopy(q, s)'
      <3>1. CASE q = r
        BY <2>2, <3>1 DEF SavesFreshCopy
      <3>2. CASE q # r
        BY <1>0, <2>2, <2>4, <3>2 DEF RequestOK, SavesFreshCopy, Keeps, Serves, InFlight
      <3> QED
        BY <3>1, <3>2
    <2> QED
      BY <2>5, <2>6, <2>7, <2>8 DEF RequestOK
  <1> QED
    BY <1>2, <1>3 DEF BeginRequest

LEMMA ReadRequestsOK ==
    ASSUME TypeOK, RequestsOK, NEW r \in Requests,
           PatchRead(r) \/ UpdateContextRead(r) \/ CompleteRead(r) \/ RequestAborts(r)
    PROVE  RequestsOK'
  <1> DEFINE s == request[r].saga
             found == row[s]
  <1>0. request \in [Requests -> RequestState] /\ row \in [Sagas -> SagaRow \cup {NoRow}]
    BY DEF RequestsOK, TypeOK
  <1>1. InFlight(r) /\ s \in Sagas
    BY <1>0, RequestCases DEF PatchRead, UpdateContextRead, CompleteRead, RequestAborts, InFlight
  <1>2. UNCHANGED <<row, events, worker, commands>>
    BY DEF PatchRead, UpdateContextRead, CompleteRead, RequestAborts
  <1>3. \A q \in Requests \ {r} : request'[q] = request[q]
    BY <1>0 DEF PatchRead, UpdateContextRead, CompleteRead, RequestAborts
  <1>4. RequestOK(r, s)
    BY <1>1 DEF RequestsOK
  <1>5. CASE request' = [request EXCEPT ![r] = DoneRequest]
    <2>1. request'[r].pc = "done"
      BY <1>0, <1>5 DEF DoneRequest, NewRequest
    <2> QED
      BY <1>2, <1>3, <2>1, RequestMoves
  <1>6. CASE PatchRead(r) /\ found # NoRow
    <2> DEFINE merged == OverRow(request[r].context, found)
    <2> HIDE DEF merged
    <2>1. request' = [request EXCEPT ![r] = [request[r] EXCEPT !.pc = "reread", !.context = merged]]
      BY <1>6 DEF PatchRead, merged
    <2>2. request[r].kind = "patch"
      BY <1>0, <1>6 DEF PatchRead, RequestState, NewRequest, DoneRequest
    <2>3. request'[r].pc = "reread" /\ request'[r].kind = request[r].kind /\ request'[r].saga = s
      BY <1>0, <1>1, <2>1, RequestCases
    <2> QED
      BY <1>1, <1>2, <1>3, <2>2, <2>3, RequestMoves
  <1>7. CASE UpdateContextRead(r) /\ ~(found = NoRow \/ request[r].context = NoContext)
    <2> DEFINE entity == MergeContext(found, request[r].context)
    <2>1. found \in SagaRow /\ request[r].context \in Context /\ request[r].kind = "patch"
      BY <1>0, <1>1, <1>7, RequestCases DEF UpdateContextRead
    <2>2. entity.status = found.status /\ Keeps(found, entity)
      BY <2>1 DEF MergeContext, SagaRow, Keeps, Given
    <2>3. found.status = "started"
      BY <1>1, <1>4, <1>7, <2>1 DEF RequestOK, PatchesAlone, Serves
    <2> HIDE DEF entity
    <2>4. request' = [request EXCEPT ![r] = [request[r] EXCEPT !.pc = "save", !.entity = entity]]
      BY <1>7 DEF UpdateContextRead, entity
    <2>5. /\ request'[r].kind = request[r].kind /\ request'[r].saga = s
          /\ request'[r].entity = entity
      BY <1>0, <1>1, <2>4, RequestCases
    <2> QED
      BY <1>1, <1>2, <1>3, <1>7, <2>1, <2>2, <2>3, <2>5, RequestMoves
  <1>8. CASE CompleteRead(r) /\ ~(found = NoRow \/ found.status # "started")
    <2> DEFINE entity == MarkCompleted(found)
    <2> HIDE DEF entity
    <2>1. request' = [request EXCEPT ![r] = [request[r] EXCEPT !.pc = "save", !.entity = entity]]
      BY <1>8 DEF CompleteRead, entity
    <2>2. /\ request'[r].kind = request[r].kind /\ request'[r].saga = s
          /\ request'[r].entity = entity
      BY <1>0, <1>1, <2>1, RequestCases
    <2>3. request[r].kind = "complete"
      BY <1>8 DEF CompleteRead
    <2> QED
      BY <1>1, <1>2, <1>3, <1>8, <2>2, <2>3, RequestMoves DEF entity
  <1> QED
    BY <1>5, <1>6, <1>7, <1>8 DEF PatchRead, UpdateContextRead, CompleteRead, RequestAborts

(* What a request is about to write. *)
LEMMA SavedRow ==
    ASSUME TypeOK, RequestsOK, NEW r \in Requests, RequestSave(r),
           NEW t, t = request[r].saga, NEW entity, entity = request[r].entity
    PROVE  /\ t \in Sagas /\ entity \in SagaRow /\ entity # NoRow
           /\ entity.status \in {"started", "completed"}
           /\ row' = row \/ (row'[t] = entity /\ \A s \in Sagas \ {t} : row'[s] = row[s])
           /\ \/ Serves(r, t, {"create"}) /\ row[t] = NoRow /\ entity.status = "started"
              \/ Serves(r, t, {"patch"}) /\ row[t] # NoRow
                   /\ row[t].status = "started" /\ entity.status = "started"
                   /\ Keeps(row[t], entity)
              \/ Serves(r, t, {"complete"}) /\ row[t] # NoRow
                   /\ row[t].status \in {"started", "completed"} /\ entity = MarkCompleted(row[t])
  <1>0. request \in [Requests -> RequestState] /\ row \in [Sagas -> SagaRow \cup {NoRow}]
    BY DEF TypeOK
  <1>1. /\ InFlight(r) /\ t \in Sagas /\ entity \in SagaRow
        /\ request[r].kind \in Kinds /\ request[r].pc = "save"
    BY <1>0, RequestCases DEF RequestSave, InFlight
  <1>2. RequestOK(r, t)
    BY <1>1 DEF RequestsOK
  <1>3. row' = row \/ (row'[t] = entity /\ \A s \in Sagas \ {t} : row'[s] = row[s])
    BY <1>0, <1>1 DEF RequestSave, Save
  <1>4. \/ Serves(r, t, {"create"}) /\ row[t] = NoRow /\ entity.status = "started"
        \/ Serves(r, t, {"patch"}) /\ row[t] # NoRow
             /\ row[t].status = "started" /\ entity.status = "started"
             /\ Keeps(row[t], entity)
        \/ Serves(r, t, {"complete"}) /\ row[t] # NoRow
             /\ row[t].status \in {"started", "completed"} /\ entity = MarkCompleted(row[t])
    BY <1>1, <1>2
    DEF RequestOK, CreatesAlone, UpdatesBeforeFailure, PatchesAlone, SavesFreshCopy,
        Serves, Updates, Kinds
  <1>5. entity.status \in {"started", "completed"} /\ entity # NoRow
    BY <1>0, <1>1, <1>4, MarkedRow, SagaConstants DEF FailureTypes
  <1> QED
    BY <1>1, <1>3, <1>4, <1>5

(* A request saves: nobody else holds a copy that this makes stale. *)
LEMMA SaveRequestsOK ==
    ASSUME TypeOK, RequestsOK, NEW r \in Requests, RequestSave(r)
    PROVE  RequestsOK'
  <1> DEFINE t == request[r].saga
             entity == request[r].entity
             kind == request[r].kind
  <1>0. request \in [Requests -> RequestState] /\ row \in [Sagas -> SagaRow \cup {NoRow}]
    BY DEF TypeOK
  <1>1. /\ InFlight(r) /\ t \in Sagas /\ entity \in SagaRow
        /\ entity.status \in {"started", "completed"} /\ entity # NoRow
    BY SavedRow DEF Serves
  <1>2. UNCHANGED <<events, worker, commands>>
    BY DEF RequestSave
  <1>3. /\ request'[r].pc = "done"
        /\ \A q \in Requests \ {r} : request'[q] = request[q]
    BY <1>0 DEF RequestSave, DoneRequest, NewRequest
  <1>4. RequestOK(r, t)
    BY <1>1 DEF RequestsOK
  <1>5. \A q \in Requests, s \in Sagas :
           /\ Serves(q, s, {"create"})' => Serves(q, s, {"create"}) /\ q # r
           /\ Serves(q, s, {"patch"})' => Serves(q, s, {"patch"}) /\ q # r
           /\ Serves(q, s, {"complete"})' => Serves(q, s, {"complete"}) /\ q # r
           /\ Updates(q, s)' => Updates(q, s) /\ q # r
    BY <1>3 DEF Serves, Updates, InFlight
  <1>6. row' = row \/ (row'[t] = entity /\ \A s \in Sagas \ {t} : row'[s] = row[s])
    BY SavedRow
  <1>7. \/ kind = "create" /\ Serves(r, t, {"create"}) /\ row[t] = NoRow /\ entity.status = "started"
        \/ kind = "patch" /\ Serves(r, t, {"patch"}) /\ row[t] # NoRow
             /\ row[t].status = "started" /\ entity.status = "started"
        \/ kind = "complete" /\ Serves(r, t, {"complete"}) /\ row[t] # NoRow
             /\ row[t].status \in {"started", "completed"} /\ entity = MarkCompleted(row[t])
    BY SavedRow DEF Serves
  <1>8. entity.status \in {"started", "completed"} /\ NoRow # entity
    BY <1>1
  <1>9. ASSUME NEW s \in Sagas, NEW q \in Requests PROVE RequestOK(q, s)'
    <2>1. RequestOK(q, s)
      BY DEF RequestsOK
    <2>2. CASE row'[s] = row[s]
      <3>1. CreatesAlone(q, s)' /\ UpdatesBeforeFailure(q, s)' /\ PatchesAlone(q, s)'
        BY <1>2, <1>3, <1>5, <2>1, <2>2
        DEF RequestOK, CreatesAlone, UpdatesBeforeFailure, PatchesAlone, Serves
      <3>2. SavesFreshCopy(q, s)'
        BY <1>3, <1>5, <2>1, <2>2 DEF RequestOK, SavesFreshCopy, Keeps
      <3> QED
        BY <3>1, <3>2 DEF RequestOK
    <2>3. CASE row'[s] # row[s]
      <3>1. s = t /\ row'[t] = entity
        BY <1>6, <2>3
      <3>2. CASE kind = "create"
        <4>1. \A p \in Requests : ~Serves(p, s, {"create"})'
          BY <1>4, <1>5, <1>7, <3>1, <3>2 DEF RequestOK, CreatesAlone
        <4>2. q # r => ~(request[q].pc = "save" /\ (Serves(q, t, {"patch"}) \/ Serves(q, t, {"complete"})))
          BY <1>7, <2>1, <3>1, <3>2 DEF RequestOK, SavesFreshCopy
        <4>3. CreatesAlone(q, s)' /\ UpdatesBeforeFailure(q, s)' /\ PatchesAlone(q, s)'
          BY <1>2, <1>5, <1>7, <2>1, <3>1, <3>2, <4>1
          DEF RequestOK, CreatesAlone, UpdatesBeforeFailure, PatchesAlone
        <4>4. SavesFreshCopy(q, s)'
          BY <1>3, <1>5, <3>1, <4>2 DEF SavesFreshCopy
        <4> QED
          BY <4>3, <4>4 DEF RequestOK
      <3>3. CASE kind = "patch"
        <4>1. \A p \in Requests : ~Updates(p, s)'
          BY <1>4, <1>5, <1>7, <3>1, <3>3 DEF RequestOK, PatchesAlone
        <4>2. \A p \in Requests : ~Serves(p, s, {"create"})'
          BY <1>1, <1>5, <1>7, <3>1, <3>3 DEF RequestsOK, RequestOK, CreatesAlone
        <4>3. \A p \in Requests : ~Serves(p, s, {"patch"})' /\ ~Serves(p, s, {"complete"})'
          BY <4>1 DEF Updates, Serves
        <4> QED
          BY <3>1, <4>1, <4>2, <4>3
          DEF RequestOK, CreatesAlone, UpdatesBeforeFailure, PatchesAlone, SavesFreshCopy
      <3>4. CASE kind = "complete"
        <4>1. \A p \in Requests : ~Serves(p, s, {"create"})'
          BY <1>1, <1>5, <1>7, <3>1, <3>4 DEF RequestsOK, RequestOK, CreatesAlone
        <4>2. \A p \in Requests : ~Serves(p, s, {"patch"})'
          <5>1. Updates(r, s)
            BY <1>7, <3>1, <3>4 DEF Serves, Updates
          <5> QED
            BY <1>5, <5>1 DEF RequestsOK, RequestOK, PatchesAlone
        <4>3. row[t] \in SagaRow /\ entity.status = "completed" /\ MarkCompleted(entity) = entity
          BY <1>0, <1>1, <1>7, <3>4, MarkedRow DEF FailureTypes
        <4>4. UpdatesBeforeFailure(q, s)'
          BY <1>2, <1>5, <2>1, <3>1, <4>3 DEF RequestOK, UpdatesBeforeFailure
        <4>5. SavesFreshCopy(q, s)'
          <5> SUFFICES ASSUME request'[q].pc = "save", Serves(q, s, {"complete"})'
                       PROVE  row'[s] # NoRow /\ request'[q].entity = MarkCompleted(row'[s])
            BY <3>1, <4>2 DEF SavesFreshCopy
          <5>1. q # r /\ request[q].pc = "save" /\ Serves(q, t, {"complete"})
            BY <1>3, <1>5, <3>1
          <5>2. request'[q].entity = MarkCompleted(row[t])
            BY <1>3, <2>1, <3>1, <5>1 DEF RequestOK, SavesFreshCopy
          <5> QED
            BY <1>7, <1>8, <3>1, <3>4, <4>3, <5>2
        <4> QED
          BY <3>1, <4>1, <4>2, <4>4, <4>5 DEF RequestOK, CreatesAlone, PatchesAlone
      <3> QED
        BY <1>7, <3>2, <3>3, <3>4
    <2> QED
      BY <2>2, <2>3
  <1> QED
    BY <1>9 DEF RequestsOK

LEMMA EventRequestsOK ==
    ASSUME OneAtATime, TypeOK, RequestsOK, NEW e \in Events,
           PublishFailure(e) \/ AutoCommit(e) \/ Redeliver(e)
    PROVE  RequestsOK'
  <1> SUFFICES ASSUME NEW s \in Sagas, NEW r \in Requests PROVE RequestOK(r, s)'
    BY DEF RequestsOK
  <1>1. UNCHANGED <<row, worker, request, commands>>
    BY DEF PublishFailure, AutoCommit, Redeliver
  <1>2. RequestOK(r, s)
    BY DEF RequestsOK
  <1>3. CreatesAlone(r, s)' /\ PatchesAlone(r, s)' /\ SavesFreshCopy(r, s)'
    BY <1>1, <1>2
    DEF RequestOK, CreatesAlone, PatchesAlone, SavesFreshCopy, Serves, Updates, InFlight, Keeps
  <1>4. UpdatesBeforeFailure(r, s)'
    <2> SUFFICES ASSUME Updates(r, s), NEW d \in Events, d.saga = s PROVE events'[d] = "absent"
      BY <1>1, <1>2 DEF RequestOK, UpdatesBeforeFailure, Updates, Serves, InFlight
    <2>1. events[d] = "absent" /\ events \in [Events -> {"absent", "queued", "fetched"}]
      BY <1>2 DEF RequestOK, UpdatesBeforeFailure, TypeOK
    <2>2. PublishFailure(e) => d # e
      BY DEF PublishFailure, OneAtATime, NoneInFlight, Updates, Serves, Kinds
    <2> QED
      BY <2>1, <2>2 DEF PublishFailure, AutoCommit, Redeliver
  <1> QED
    BY <1>3, <1>4 DEF RequestOK

(* A worker that writes nothing and stays off the sagas that clients update. *)
LEMMA WorkerLeavesRequests ==
    ASSUME TypeOK, RequestsOK, NEW w \in Workers, UNCHANGED <<row, request>>,
           \A e \in Events : events[e] = "absent" => events'[e] = "absent",
           \A v \in Workers \ {w} : worker'[v] = worker[v],
           \A r \in Requests, s \in Sagas : Updates(r, s) => worker'[w].saga # s
    PROVE  RequestsOK'
  <1>1. ASSUME NEW v \in Workers, NEW r \in Requests, NEW s \in Sagas, Updates(r, s)
        PROVE  worker'[v].saga # s
    <2>1. worker[v].saga # s
      BY <1>1 DEF RequestsOK, RequestOK, UpdatesBeforeFailure
    <2> QED
      BY <1>1, <2>1
  <1> QED
    BY <1>1, SameRequests

(* A worker that saves: nobody serves its saga, so no copy goes stale. *)
LEMMA WorkerSaveLeavesRequests ==
    ASSUME RequestsOK, NEW w \in Workers, NEW t \in Sagas, worker[w].saga = t,
           row[t] # NoRow, UNCHANGED <<events, request>>,
           \A s \in Sagas \ {t} : row'[s] = row[s],
           \A v \in Workers \ {w} : worker'[v] = worker[v],
           worker'[w].saga \in {t, NoSaga}
    PROVE  RequestsOK'
  <1> SUFFICES ASSUME NEW s \in Sagas, NEW r \in Requests PROVE RequestOK(r, s)'
    BY DEF RequestsOK
  <1>1. RequestOK(r, s)
    BY DEF RequestsOK
  <1>2. CASE s = t
    <2>1. \A q \in Requests : ~Serves(q, t, {"create"}) /\ ~Updates(q, t)
      BY DEF RequestsOK, RequestOK, CreatesAlone, UpdatesBeforeFailure
    <2>2. \A q \in Requests : ~Serves(q, s, {"create"})' /\ ~Updates(q, s)'
      BY <1>2, <2>1 DEF Serves, Updates, InFlight
    <2>3. ~Serves(r, s, {"patch"})' /\ ~Serves(r, s, {"complete"})'
      BY <2>2 DEF Serves, Updates
    <2> QED
      BY <2>2, <2>3
      DEF RequestOK, CreatesAlone, UpdatesBeforeFailure, PatchesAlone, SavesFreshCopy
  <1>3. CASE s # t
    <2>1. row'[s] = row[s]
      BY <1>3
    <2>2. CreatesAlone(r, s)' /\ PatchesAlone(r, s)' /\ SavesFreshCopy(r, s)'
      BY <1>1, <2>1
      DEF RequestOK, CreatesAlone, PatchesAlone, SavesFreshCopy, Serves, Updates, InFlight, Keeps
    <2>3. UpdatesBeforeFailure(r, s)'
      <3> SUFFICES ASSUME Updates(r, s), NEW v \in Workers PROVE worker'[v].saga # s
        BY <1>1, <2>1 DEF RequestOK, UpdatesBeforeFailure, Updates, Serves, InFlight
      <3>1. worker[v].saga # s
        BY <1>1 DEF RequestOK, UpdatesBeforeFailure
      <3> QED
        BY <1>3, <3>1, SagaConstants
    <2> QED
      BY <2>2, <2>3 DEF RequestOK
  <1> QED
    BY <1>2, <1>3

LEMMA WorkerRequestsOK ==
    ASSUME CopyInv, RequestsOK, NEW w \in Workers,
           WorkerStep(w) \/ HandlerRaises(w) \/ Crash(w)
    PROVE  RequestsOK'
  <1>0. /\ TypeOK /\ worker \in [Workers -> WorkerState]
        /\ row \in [Sagas -> SagaRow \cup {NoRow}]
        /\ events \in [Events -> {"absent", "queued", "fetched"}]
    BY DEF CopyInv, TypeOK
  <1>1. ASSUME NEW e \in Events, Fetch(w, e) PROVE RequestsOK'
    <2>1. worker'[w].saga \in {NoSaga, e.saga}
      BY <1>0, <1>1 DEF Fetch, IdleWorker
    <2>2. \A r \in Requests, s \in Sagas : Updates(r, s) => worker'[w].saga # s
      BY <1>1, <2>1, SagaConstants DEF Fetch, RequestsOK, RequestOK, UpdatesBeforeFailure
    <2>3. \A d \in Events : events[d] = "absent" => events'[d] = "absent"
      BY <1>0, <1>1 DEF Fetch
    <2>4. /\ UNCHANGED <<row, request>>
          /\ \A v \in Workers \ {w} : worker'[v] = worker[v]
      BY <1>0, <1>1 DEF Fetch
    <2> QED
      BY <1>0, <2>1, <2>2, <2>3, <2>4, WorkerLeavesRequests
  <1>2. CASE \/ HandleRead(w) \/ TriggerRead(w) \/ UnassignCourier(w) \/ ReleaseInventory(w)
             \/ CancelShipment(w) \/ FailRead(w) \/ HandlerRaises(w) \/ Crash(w)
    <2>1. /\ UNCHANGED <<row, request>>
          /\ \A d \in Events : events[d] = "absent" => events'[d] = "absent"
      BY <1>0, <1>2 DEF HandleRead, TriggerRead, UnassignCourier, ReleaseInventory,
                         CancelShipment, FailRead, HandlerRaises, Crash
    <2>2. \A v \in Workers \ {w} : worker'[v] = worker[v]
      BY <1>0, <1>2 DEF HandleRead, TriggerRead, UnassignCourier, ReleaseInventory,
                         CancelShipment, FailRead, HandlerRaises, Crash, Return, Goto
    <2>3. worker'[w].saga \in {worker[w].saga, NoSaga}
      <3>1. CASE \/ Return(w)
                 \/ \E pc \in {"triggerRead", "release", "cancel", "failRead"} : Goto(w, pc)
        BY <1>0, <3>1 DEF Return, Goto, WorkerState, IdleWorker
      <3>2. CASE \E pc, entity : worker' = [worker EXCEPT ![w].pc = pc, ![w].entity = entity]
        BY <1>0, <3>2 DEF WorkerState, IdleWorker
      <3> QED
        BY <1>2, <3>1, <3>2 DEF HandleRead, TriggerRead, UnassignCourier, ReleaseInventory,
                                CancelShipment, FailRead, HandlerRaises, Crash
    <2>4. \A r \in Requests, s \in Sagas : Updates(r, s) => worker'[w].saga # s
      BY <2>3, SagaConstants DEF RequestsOK, RequestOK, UpdatesBeforeFailure
    <2> QED
      BY <1>0, <2>1, <2>2, <2>4, WorkerLeavesRequests
  <1>3. CASE TriggerSave(w) \/ FailSave(w)
    <2>1. worker[w].saga \in Sagas /\ row[worker[w].saga] # NoRow
      BY <1>0, <1>3, WorkerCases DEF TriggerSave, FailSave, CopyInv, HoldsCopy, HoldsRow
    <2>2. /\ UNCHANGED <<events, request>>
          /\ \A s \in Sagas \ {worker[w].saga} : row'[s] = row[s]
          /\ \A v \in Workers \ {w} : worker'[v] = worker[v]
      BY <1>0, <1>3, <2>1 DEF TriggerSave, FailSave, Save, Goto, Return
    <2>3. worker'[w].saga \in {worker[w].saga, NoSaga}
      BY <1>0, <1>3 DEF TriggerSave, FailSave, Goto, Return, WorkerState, IdleWorker
    <2> QED
      BY <2>1, <2>2, <2>3, WorkerSaveLeavesRequests
  <1> QED
    BY <1>1, <1>2, <1>3 DEF WorkerStep

LEMMA NextRequestsOK == OneAtATime /\ CopyInv /\ RequestsOK /\ [Next]_vars => RequestsOK'
  <1> SUFFICES ASSUME OneAtATime, CopyInv, RequestsOK, [Next]_vars PROVE RequestsOK'
    OBVIOUS
  <1>1. TypeOK
    BY DEF CopyInv
  <1>2. CASE UNCHANGED vars
    BY <1>2, SameRequests DEF vars, RequestsOK, RequestOK, UpdatesBeforeFailure
  <1>3. ASSUME NEW w \in Workers, WorkerStep(w) \/ HandlerRaises(w) \/ Crash(w)
        PROVE  RequestsOK'
    BY <1>3, WorkerRequestsOK
  <1>4. ASSUME NEW r \in Requests, BeginRequest(r) \/ RequestStep(r) \/ RequestAborts(r)
        PROVE  RequestsOK'
    BY <1>1, <1>4, BeginRequestsOK, ReadRequestsOK, SaveRequestsOK DEF RequestStep
  <1>5. ASSUME NEW e \in Events, PublishFailure(e) \/ AutoCommit(e) \/ Redeliver(e)
        PROVE  RequestsOK'
    BY <1>1, <1>5, EventRequestsOK
  <1> QED
    BY <1>2, <1>3, <1>4, <1>5 DEF Next

LEMMA RequestsHoldFreshCopies ==
    ASSUME OneAtATime PROVE Spec => [](CopyInv /\ RequestsOK)
  <1>1. Spec => []CopyInv
    BY CopiesAreTrue DEF OneAtATime, NoLateUpdates
  <1>2. CopyInv /\ RequestsOK /\ [Next]_vars => RequestsOK'
    BY NextRequestsOK
  <1> QED
    BY <1>1, <1>2, InitRequestsOK, PTL DEF Spec

-----------------------------------------------------------------------------
(***************************************************************************)
(* Part two: one running instance.  Its worker is the only one at a saga,  *)
(* so what it read of the row is still there when it saves, and what it    *)
(* has published is what the topics hold.                                  *)
(***************************************************************************)
Compensates(w) == worker[w].pc \in {"unassign", "release", "cancel", "failRead", "failSave"}

(* The only worker of s: what it read of the row is still there. *)
ActsOnRow(w, s) ==
    worker[w].saga = s =>
        /\ worker[w].pc \in {"triggerRead", "triggerSave"} => Status(s) = "started"
        /\ worker[w].pc = "triggerSave" =>
             worker[w].entity = MarkCompensating(row[s], worker[w].type)
        /\ Compensates(w) => Status(s) = "compensating" /\ row[s].failedStep = worker[w].type
        /\ worker[w].pc \in {"unassign", "release", "cancel", "failRead"} =>
             worker[w].entity = row[s]
        /\ worker[w].pc = "failSave" => worker[w].entity = MarkFailed(row[s], worker[w].type)
        /\ worker[w].pc = "unassign" => worker[w].type = "delivery.failed"
        /\ worker[w].pc = "release" => worker[w].type # "inventory.insufficient"

(* The commands of s on the topics are those the strategy is past. *)
SentSoFar(w, s) ==
    worker[w].saga = s /\ Compensates(w) =>
        \A c \in Command :
            c.saga = s => (Published(c) <=> c \in Owed(s, row[s]) /\ c.kind \in Done(worker[w].pc))

WorkerOK(w, s) == ActsOnRow(w, s) /\ SentSoFar(w, s)

SagaOK(s) ==
    /\ Status(s) \in {"absent", "started", "completed"} =>
         \A c \in Command : c.saga = s => ~Published(c)
    /\ Status(s) \in {"compensating", "failed"} => row[s].failedStep \in FailureTypes
    /\ Status(s) = "failed" =>
         \A c \in Command : c.saga = s => (Published(c) <=> c \in Owed(s, row[s]))

IInv ==
    /\ TypeOK
    /\ RequestsOK
    /\ \A s \in Sagas, w \in Workers : WorkerOK(w, s)
    /\ \A s \in Sagas : SagaOK(s)
    /\ CompensatedOnce

LEMMA InitIInv == Init => IInv
  <1> SUFFICES ASSUME Init PROVE IInv
    OBVIOUS
  <1>1. \A w \in Workers : worker[w].pc = "idle"
    BY DEF Init, IdleWorker
  <1>2. \A s \in Sagas : Status(s) = "absent"
    BY DEF Init, Status
  <1>3. \A c \in Command : commands[c] = 0
    BY DEF Init
  <1>4. RequestsOK
    BY InitRequestsOK
  <1>5. \A s \in Sagas, w \in Workers : WorkerOK(w, s)
    BY <1>1 DEF WorkerOK, ActsOnRow, SentSoFar, Compensates
  <1>6. \A s \in Sagas : SagaOK(s)
    <2>1. \A c \in Command : ~Published(c)
      BY <1>3 DEF Published
    <2> QED
      BY <1>2, <2>1 DEF SagaOK
  <1>7. CompensatedOnce
    BY <1>3, SagaConstants DEF CompensatedOnce
  <1> QED
    BY <1>4, <1>5, <1>6, <1>7, InitTypeOK DEF IInv

-----------------------------------------------------------------------------
(* What is not touched stays as it was. *)
LEMMA SameSagas ==
    ASSUME IInv, UNCHANGED <<row, commands>>
    PROVE  (\A s \in Sagas : SagaOK(s))' /\ CompensatedOnce'
  BY DEF IInv, SagaOK, Status, Published, CompensatedOnce

LEMMA SameWorkers ==
    ASSUME IInv, UNCHANGED <<row, worker, commands>>
    PROVE  (\A s \in Sagas, w \in Workers : WorkerOK(w, s))'
  BY DEF IInv, WorkerOK, ActsOnRow, SentSoFar, Compensates, Status, Published

(* A request saves: no worker has begun to act on its saga. *)
LEMMA SaveIInv ==
    ASSUME IInv, TypeOK', RequestsOK', NEW r \in Requests, RequestSave(r)
    PROVE  IInv'
  <1> DEFINE t == request[r].saga
             entity == request[r].entity
  <1>0. TypeOK /\ RequestsOK
    BY DEF IInv
  <1>1. /\ t \in Sagas /\ entity \in SagaRow /\ entity # NoRow
        /\ entity.status \in {"started", "completed"}
    BY <1>0, SavedRow
  <1>2. UNCHANGED <<events, worker, commands>>
    BY DEF RequestSave
  <1>3. RequestOK(r, t)
    BY <1>0, <1>1 DEF RequestsOK
  <1>4. row' = row \/ (row'[t] = entity /\ \A s \in Sagas \ {t} : row'[s] = row[s])
    BY <1>0, SavedRow
  <1>5. \/ row[t] = NoRow
        \/ Updates(r, t) /\ row[t] # NoRow /\ row[t].status \in {"started", "completed"}
    <2>1. \/ Serves(r, t, {"create"}) /\ row[t] = NoRow
          \/ Serves(r, t, {"patch"}) /\ row[t] # NoRow /\ row[t].status = "started"
          \/ Serves(r, t, {"complete"}) /\ row[t] # NoRow /\ row[t].status \in {"started", "completed"}
      BY <1>0, SavedRow
    <2> QED
      BY <2>1 DEF Updates, Serves
  <1>6. ASSUME NEW s \in Sagas, NEW w \in Workers PROVE WorkerOK(w, s)'
    <2>1. WorkerOK(w, s)
      BY DEF IInv
    <2>2. CASE row'[s] = row[s]
      BY <1>2, <2>1, <2>2 DEF WorkerOK, ActsOnRow, SentSoFar, Compensates, Status, Published
    <2>3. CASE row'[s] # row[s]
      <3>1. s = t
        BY <1>4, <2>3
      <3>2. row[t] # NoRow => worker[w].saga # t
        BY <1>3, <1>5 DEF RequestOK, UpdatesBeforeFailure
      <3>3. row[t] = NoRow /\ worker[w].saga = t => worker[w].pc \in {"idle", "read"}
        <4>1. worker[w].pc \in {"idle", "read", "triggerRead", "triggerSave", "unassign",
                                "release", "cancel", "failRead", "failSave"}
          BY DEF IInv, TypeOK, WorkerState, IdleWorker
        <4>2. row[t] = NoRow => Status(t) = "absent"
          BY DEF Status
        <4> QED
          BY <2>1, <3>1, <4>1, <4>2 DEF WorkerOK, ActsOnRow, Compensates
      <3>4. worker[w].saga = t => worker'[w].pc \in {"idle", "read"}
        BY <1>2, <3>2, <3>3
      <3> QED
        BY <1>2, <3>1, <3>4 DEF WorkerOK, ActsOnRow, SentSoFar, Compensates
    <2> QED
      BY <2>2, <2>3
  <1>7. ASSUME NEW s \in Sagas PROVE SagaOK(s)'
    <2>1. SagaOK(s)
      BY DEF IInv
    <2>2. CASE row'[s] = row[s]
      BY <1>2, <2>1, <2>2 DEF SagaOK, Status, Published
    <2>3. CASE row'[s] # row[s]
      <3>1. s = t /\ row'[s] = entity
        BY <1>4, <2>3
      <3>2. Status(s) \in {"absent", "started", "completed"}
        BY <1>5, <3>1 DEF Status
      <3>3. Status(s)' \in {"started", "completed"}
        BY <1>1, <3>1 DEF Status
      <3>4. \A c \in Command : c.saga = s => ~Published(c)'
        BY <1>2, <2>1, <3>2 DEF SagaOK, Published
      <3> QED
        BY <3>3, <3>4 DEF SagaOK
    <2> QED
      BY <2>2, <2>3
  <1>8. CompensatedOnce'
    BY <1>2 DEF IInv, CompensatedOnce
  <1> QED
    BY <1>6, <1>7, <1>8 DEF IInv

LEMMA RequestIInv ==
    ASSUME IInv, TypeOK', RequestsOK', NEW r \in Requests,
           BeginRequest(r) \/ RequestStep(r) \/ RequestAborts(r)
    PROVE  IInv'
  <1>1. CASE RequestSave(r)
    BY <1>1, SaveIInv
  <1>2. CASE BeginRequest(r) \/ PatchRead(r) \/ UpdateContextRead(r) \/ CompleteRead(r) \/ RequestAborts(r)
    <2>1. UNCHANGED <<row, worker, commands>>
      BY <1>2 DEF BeginRequest, BeginCreate, BeginPatch, BeginComplete, PatchRead,
                  UpdateContextRead, CompleteRead, RequestAborts
    <2> QED
      BY <2>1, SameWorkers, SameSagas DEF IInv
  <1> QED
    BY <1>1, <1>2 DEF RequestStep

LEMMA EventIInv ==
    ASSUME IInv, TypeOK', RequestsOK', NEW e \in Events,
           PublishFailure(e) \/ AutoCommit(e) \/ Redeliver(e)
    PROVE  IInv'
  <1>1. UNCHANGED <<row, worker, commands>>
    BY DEF PublishFailure, AutoCommit, Redeliver
  <1> QED
    BY <1>1, SameWorkers, SameSagas DEF IInv

-----------------------------------------------------------------------------
(* The steps of the worker.  It is the only one, so what its own next state *)
(* asks for is all there is to show about workers.                          *)
LEMMA OnlyWorker ==
    ASSUME Disciplined, NEW w \in Workers, (\A s \in Sagas : WorkerOK(w, s))'
    PROVE  (\A s \in Sagas, v \in Workers : WorkerOK(v, s))'
  <1> SUFFICES ASSUME NEW s \in Sagas, NEW v \in Workers PROVE WorkerOK(v, s)'
    OBVIOUS
  <1>1. v = w
    BY DEF Disciplined
  <1> QED
    BY <1>1

LEMMA FetchIInv ==
    ASSUME Disciplined, IInv, TypeOK', RequestsOK', NEW w \in Workers, NEW e \in Events, Fetch(w, e)
    PROVE  IInv'
  <1>0. /\ worker \in [Workers -> WorkerState]
        /\ events \in [Events -> {"absent", "queued", "fetched"}]
    BY DEF IInv, TypeOK
  <1>1. UNCHANGED <<row, request, commands>> /\ events[e] = "queued"
    BY DEF Fetch
  <1>2. worker'[w].pc \in {"idle", "read"} /\ worker'[w].saga \in {e.saga, NoSaga}
    BY <1>0 DEF Fetch, IdleWorker
  <1>3. \A s \in Sagas : WorkerOK(w, s)'
    BY <1>2 DEF WorkerOK, ActsOnRow, SentSoFar, Compensates
  <1> QED
    BY <1>1, <1>3, SameSagas, OnlyWorker DEF IInv

(* The steps that only look, or give up. *)
LEMMA LookIInv ==
    ASSUME Disciplined, IInv, TypeOK', RequestsOK', NEW w \in Workers,
           HandleRead(w) \/ TriggerRead(w) \/ FailRead(w) \/ HandlerRaises(w) \/ Crash(w)
    PROVE  IInv'
  <1> DEFINE t == worker[w].saga
             found == row[t]
  <1>0. /\ worker \in [Workers -> WorkerState] /\ row \in [Sagas -> SagaRow \cup {NoRow}]
        /\ events \in [Events -> {"absent", "queued", "fetched"}]
    BY DEF IInv, TypeOK
  <1>1. UNCHANGED <<row, request, commands>>
    BY DEF HandleRead, TriggerRead, FailRead, HandlerRaises, Crash
  <1>2. \A d \in Events : events[d] = "absent" => events'[d] = "absent"
    BY <1>0 DEF HandleRead, TriggerRead, FailRead, HandlerRaises, Crash
  <1>3. worker[w].pc # "idle" /\ t \in Sagas /\ worker[w].type \in FailureTypes
    BY <1>0, WorkerCases DEF HandleRead, TriggerRead, FailRead, HandlerRaises, Crash
  <1>4. WorkerOK(w, t)
    BY <1>3 DEF IInv
  <1>5. \/ worker' = [worker EXCEPT ![w] = IdleWorker]
        \/ HandleRead(w) /\ found # NoRow /\ Status(t) = "started"
             /\ worker' = [worker EXCEPT ![w].pc = "triggerRead"]
        \/ TriggerRead(w) /\ found # NoRow
             /\ worker' = [worker EXCEPT ![w].pc = "triggerSave",
                                         ![w].entity = MarkCompensating(found, worker[w].type)]
        \/ FailRead(w) /\ found # NoRow
             /\ worker' = [worker EXCEPT ![w].pc = "failSave",
                                         ![w].entity = MarkFailed(found, worker[w].type)]
    <2>1. CASE HandleRead(w)
      <3>1. found \in SagaRow => found.status \in SagaStatus
        BY DEF SagaRow
      <3> QED
        BY <1>0, <1>3, <2>1, <3>1 DEF HandleRead, Return, Goto, Status, SagaStatus
    <2>2. CASE TriggerRead(w)
      BY <2>2 DEF TriggerRead, Return
    <2>3. CASE FailRead(w)
      BY <2>3 DEF FailRead, Return
    <2>4. CASE HandlerRaises(w) \/ Crash(w)
      BY <2>4 DEF HandlerRaises, Crash, Return
    <2> QED
      BY <2>1, <2>2, <2>3, <2>4
  <1>6. CASE worker' = [worker EXCEPT ![w] = IdleWorker]
    <2>1. worker'[w].pc = "idle" /\ worker'[w].saga = NoSaga
      BY <1>0, <1>6 DEF IdleWorker
    <2>2. \A s \in Sagas : WorkerOK(w, s)'
      BY <2>1 DEF WorkerOK, ActsOnRow, SentSoFar, Compensates
    <2> QED
      BY <1>1, <1>2, <2>1, <2>2, SameSagas, OnlyWorker DEF IInv
  <1>7. CASE HandleRead(w) /\ Status(t) = "started" /\ worker' = [worker EXCEPT ![w].pc = "triggerRead"]
    <2>1. worker'[w].pc = "triggerRead" /\ worker'[w].saga = t
      BY <1>0, <1>3, <1>7, WorkerCases
    <2>2. \A s \in Sagas : WorkerOK(w, s)'
      BY <1>1, <1>7, <2>1 DEF WorkerOK, ActsOnRow, SentSoFar, Compensates, Status
    <2> QED
      BY <1>1, <1>2, <2>1, <2>2, SameSagas, OnlyWorker DEF IInv
  <1>8. CASE TriggerRead(w) /\ found # NoRow
             /\ worker' = [worker EXCEPT ![w].pc = "triggerSave",
                                         ![w].entity = MarkCompensating(found, worker[w].type)]
    <2> DEFINE entity == MarkCompensating(found, worker[w].type)
    <2> HIDE DEF entity
    <2>1. /\ worker'[w].pc = "triggerSave" /\ worker'[w].saga = t
          /\ worker'[w].type = worker[w].type /\ worker'[w].entity = entity
      <3>1. worker' = [worker EXCEPT ![w].pc = "triggerSave", ![w].entity = entity]
        BY <1>8 DEF entity
      <3> QED
        BY <1>0, <1>3, <3>1, WorkerCases
    <2>2. Status(t) = "started"
      BY <1>4, <1>8 DEF TriggerRead, WorkerOK, ActsOnRow
    <2>3. \A s \in Sagas : WorkerOK(w, s)'
      BY <1>1, <2>1, <2>2 DEF WorkerOK, ActsOnRow, SentSoFar, Compensates, Status, entity
    <2> QED
      BY <1>1, <1>2, <2>1, <2>3, SameSagas, OnlyWorker DEF IInv
  <1>9. CASE FailRead(w) /\ found # NoRow
             /\ worker' = [worker EXCEPT ![w].pc = "failSave",
                                         ![w].entity = MarkFailed(found, worker[w].type)]
    <2> DEFINE entity == MarkFailed(found, worker[w].type)
    <2> HIDE DEF entity
    <2>1. /\ worker'[w].pc = "failSave" /\ worker'[w].saga = t
          /\ worker'[w].type = worker[w].type /\ worker'[w].entity = entity
      <3>1. worker' = [worker EXCEPT ![w].pc = "failSave", ![w].entity = entity]
        BY <1>9 DEF entity
      <3> QED
        BY <1>0, <1>3, <3>1, WorkerCases
    <2>2. /\ Status(t) = "compensating" /\ found.failedStep = worker[w].type
          /\ \A c \in Command : c.saga = t => (Published(c) <=> c \in Owed(t, found) /\ c.kind \in Done("failRead"))
      BY <1>4, <1>9 DEF FailRead, WorkerOK, ActsOnRow, SentSoFar, Compensates
    <2>3. Done("failSave") = Done("failRead")
      BY DEF Done
    <2>4. ASSUME NEW s \in Sagas PROVE ActsOnRow(w, s)'
      BY <1>1, <2>1, <2>2 DEF ActsOnRow, Compensates, Status, entity
    <2>5. ASSUME NEW s \in Sagas PROVE SentSoFar(w, s)'
      BY <1>1, <2>1, <2>2, <2>3 DEF SentSoFar, Compensates, Published
    <2> QED
      BY <1>1, <1>2, <2>1, <2>4, <2>5, SameSagas, OnlyWorker DEF IInv, WorkerOK
  <1> QED
    BY <1>5, <1>6, <1>7, <1>8, <1>9

(* One publish of a command that no topic holds yet. *)
LEMMA PublishFirst ==
    ASSUME NEW kind, NEW s, NEW target, commands \in [Command -> Nat],
           Publish(kind, s, target),
           [kind |-> kind, saga |-> s, target |-> target] \in Command =>
               ~Published([kind |-> kind, saga |-> s, target |-> target]),
           CompensatedOnce
    PROVE  /\ CompensatedOnce'
           /\ \A c \in Command : commands'[c] > 0 <=>
                commands[c] > 0 \/ c = [kind |-> kind, saga |-> s, target |-> target]
  <1> DEFINE d == [kind |-> kind, saga |-> s, target |-> target]
  <1>1. PICK n \in 1 .. MaxCopies : commands' = [commands EXCEPT ![d] = @ + n]
    BY DEF Publish
  <1>2. n \in Nat /\ n > 0 /\ n <= MaxCopies /\ MaxCopies \in Nat
    BY SagaConstants
  <1>3. d \in Command => ~(commands[d] > 0)
    BY DEF Published
  <1> HIDE DEF d
  <1>4. ASSUME NEW c \in Command
        PROVE  commands'[c] <= MaxCopies /\ (commands'[c] > 0 <=> commands[c] > 0 \/ c = d)
    <2>1. commands[c] \in Nat /\ commands[c] <= MaxCopies
      BY DEF CompensatedOnce
    <2>2. CASE c = d
      BY <1>1, <1>2, <1>3, <2>1, <2>2
    <2>3. CASE c # d
      BY <1>1, <2>1, <2>3
    <2> QED
      BY <2>2, <2>3
  <1> QED
    BY <1>4 DEF CompensatedOnce, d

(* A step of the strategy, whichever it is: the commands of the saga are   *)
(* those it was past, and its own if the saga owes it.                     *)
LEMMA StrategyIInv ==
    ASSUME Disciplined, IInv, TypeOK', RequestsOK', NEW w \in Workers, Compensates(w),
           NEW next \in {"release", "cancel", "failRead"}, Goto(w, next),
           worker[w].pc # "failRead", worker[w].pc # "failSave",
           UNCHANGED <<row, events, request>>,
           Done(next) = Done(worker[w].pc) \cup {worker[w].pc},
           next = "release" => worker[w].type # "inventory.insufficient",
           CompensatedOnce',
           \A c \in Command :
               commands'[c] > 0 <=>
                   \/ commands[c] > 0
                   \/ /\ c.saga = worker[w].saga /\ c.kind = worker[w].pc
                      /\ c \in Owed(worker[w].saga, row[worker[w].saga])
    PROVE  IInv'
  <1> DEFINE t == worker[w].saga
             pc == worker[w].pc
  <1>0. /\ worker \in [Workers -> WorkerState] /\ row \in [Sagas -> SagaRow \cup {NoRow}]
    BY DEF IInv, TypeOK
  <1>1. t \in Sagas
    BY <1>0, WorkerCases DEF Compensates
  <1>2. WorkerOK(w, t)
    BY <1>1 DEF IInv
  <1>3. /\ worker'[w].pc = next /\ worker'[w].saga = t
        /\ worker'[w].type = worker[w].type /\ worker'[w].entity = worker[w].entity
    BY <1>0, WorkerCases DEF Goto, Compensates
  <1>4. /\ Status(t) = "compensating" /\ row[t].failedStep = worker[w].type
        /\ worker[w].entity = row[t]
        /\ \A c \in Command : c.saga = t => (commands[c] > 0 <=> c \in Owed(t, row[t]) /\ c.kind \in Done(pc))
    BY <1>2 DEF WorkerOK, ActsOnRow, SentSoFar, Compensates, Published
  <1>5. ASSUME NEW s \in Sagas PROVE ActsOnRow(w, s)'
    BY <1>3, <1>4 DEF ActsOnRow, Compensates, Status
  <1>6. ASSUME NEW s \in Sagas PROVE SentSoFar(w, s)'
    <2> SUFFICES ASSUME t = s, NEW c \in Command, c.saga = s
                 PROVE  commands'[c] > 0 <=> c \in Owed(s, row[s]) /\ c.kind \in Done(next)
      BY <1>3 DEF SentSoFar, Published
    <2> QED
      BY <1>4
  <1>7. ASSUME NEW s \in Sagas PROVE SagaOK(s)'
    <2>1. SagaOK(s)
      BY DEF IInv
    <2>2. CASE s = t
      BY <1>4, <2>1, <2>2 DEF SagaOK, Status
    <2>3. CASE s # t
      <3>1. \A c \in Command : c.saga = s => (commands'[c] > 0 <=> commands[c] > 0)
        BY <2>3
      <3> QED
        BY <2>1, <3>1 DEF SagaOK, Status, Published
    <2> QED
      BY <2>2, <2>3
  <1>8. (\A s \in Sagas, v \in Workers : WorkerOK(v, s))'
    BY <1>5, <1>6, OnlyWorker DEF WorkerOK
  <1> QED
    BY <1>7, <1>8 DEF IInv

LEMMA PublishIInv ==
    ASSUME Disciplined, IInv, TypeOK', RequestsOK', NEW w \in Workers,
           UnassignCourier(w) \/ ReleaseInventory(w) \/ CancelShipment(w)
    PROVE  IInv'
  <1> DEFINE t == worker[w].saga
             pc == worker[w].pc
  <1>0. /\ worker \in [Workers -> WorkerState] /\ row \in [Sagas -> SagaRow \cup {NoRow}]
        /\ commands \in [Command -> Nat] /\ CompensatedOnce
    BY DEF IInv, TypeOK
  <1>1. /\ t \in Sagas /\ Compensates(w) /\ pc \in {"unassign", "release", "cancel"}
        /\ worker[w].type \in FailureTypes
    BY <1>0, WorkerCases DEF Compensates, UnassignCourier, ReleaseInventory, CancelShipment
  <1>2. WorkerOK(w, t)
    BY <1>1 DEF IInv
  <1>3. /\ Status(t) = "compensating" /\ row[t].failedStep = worker[w].type
        /\ worker[w].entity = row[t]
        /\ pc = "unassign" => worker[w].type = "delivery.failed"
        /\ pc = "release" => worker[w].type # "inventory.insufficient"
        /\ \A c \in Command : c.saga = t => (Published(c) <=> c \in Owed(t, row[t]) /\ c.kind \in Done(pc))
    BY <1>1, <1>2 DEF WorkerOK, ActsOnRow, SentSoFar
  <1>4. row[t] \in SagaRow
    BY <1>0, <1>1, <1>3 DEF Status
  <1>5. \A c \in Command : c \in Owed(t, row[t]) <=> Calls(t, row[t], c)
    BY <1>1, <1>3, <1>4, OwedCommands
  <1>6. pc \notin Done(pc)
    BY DEF Done
  <1>7. \A c \in Command : c.saga = t /\ c.kind = pc => ~Published(c)
    BY <1>3, <1>6
  <1>8. CASE UnassignCourier(w)
    <2>1. Done("release") = Done("unassign") \cup {"unassign"}
      BY DEF Done
    <2>2. /\ CompensatedOnce'
          /\ \A c \in Command : commands'[c] > 0 <=>
               commands[c] > 0 \/ (c.saga = t /\ c.kind = pc /\ c \in Owed(t, row[t]))
      <3>1. \A c \in Command : c.saga = t /\ c.kind = pc /\ c \in Owed(t, row[t]) <=>
               /\ row[t].delivery # None
               /\ c = [kind |-> "unassign", saga |-> t, target |-> row[t].delivery]
        BY <1>3, <1>5, <1>8, SagaConstants DEF UnassignCourier, Calls, Command
      <3>2. CASE row[t].delivery = None
        BY <1>0, <1>3, <1>8, <3>1, <3>2 DEF UnassignCourier, CompensatedOnce
      <3>3. CASE row[t].delivery # None
        <4> DEFINE c == [kind |-> "unassign", saga |-> t, target |-> row[t].delivery]
        <4>1. Publish("unassign", t, row[t].delivery)
          BY <1>3, <1>8, <3>3 DEF UnassignCourier
        <4>2. c \in Command => ~Published(c)
          BY <1>7, <1>8 DEF UnassignCourier
        <4> QED
          BY <1>0, <3>1, <3>3, <4>1, <4>2, PublishFirst
      <3> QED
        BY <3>2, <3>3
    <2> QED
      BY <1>1, <1>3, <1>8, <2>1, <2>2, StrategyIInv DEF UnassignCourier
  <1>9. CASE ReleaseInventory(w)
    <2>1. Done("cancel") = Done("release") \cup {"release"}
      BY DEF Done
    <2>2. /\ CompensatedOnce'
          /\ \A c \in Command : commands'[c] > 0 <=>
               commands[c] > 0 \/ (c.saga = t /\ c.kind = pc /\ c \in Owed(t, row[t]))
      <3>1. \A c \in Command : c.saga = t /\ c.kind = pc /\ c \in Owed(t, row[t]) <=>
               /\ row[t].warehouse # None
               /\ c = [kind |-> "release", saga |-> t, target |-> row[t].warehouse]
        BY <1>3, <1>5, <1>9, SagaConstants DEF ReleaseInventory, Calls, Command
      <3>2. CASE row[t].warehouse = None
        BY <1>0, <1>3, <1>9, <3>1, <3>2 DEF ReleaseInventory, CompensatedOnce
      <3>3. CASE row[t].warehouse # None
        <4> DEFINE c == [kind |-> "release", saga |-> t, target |-> row[t].warehouse]
        <4>1. Publish("release", t, row[t].warehouse)
          BY <1>3, <1>9, <3>3 DEF ReleaseInventory
        <4>2. c \in Command => ~Published(c)
          BY <1>7, <1>9 DEF ReleaseInventory
        <4> QED
          BY <1>0, <3>1, <3>3, <4>1, <4>2, PublishFirst
      <3> QED
        BY <3>2, <3>3
    <2> QED
      BY <1>1, <1>3, <1>9, <2>1, <2>2, StrategyIInv DEF ReleaseInventory
  <1>10. CASE CancelShipment(w)
    <2>1. Done("failRead") = Done("cancel") \cup {"cancel"}
      BY DEF Done
    <2>2. /\ CompensatedOnce'
          /\ \A c \in Command : commands'[c] > 0 <=>
               commands[c] > 0 \/ (c.saga = t /\ c.kind = pc /\ c \in Owed(t, row[t]))
      <3>1. \A c \in Command : c.saga = t /\ c.kind = pc /\ c \in Owed(t, row[t]) <=>
               c = [kind |-> "cancel", saga |-> t, target |-> None]
        BY <1>5, <1>10 DEF CancelShipment, Calls, Command
      <3> DEFINE c == [kind |-> "cancel", saga |-> t, target |-> None]
      <3>2. Publish("cancel", t, None)
        BY <1>10 DEF CancelShipment
      <3>3. c \in Command => ~Published(c)
        BY <1>7, <1>10 DEF CancelShipment
      <3> QED
        BY <1>0, <3>1, <3>2, <3>3, PublishFirst
    <2> QED
      BY <1>1, <1>10, <2>1, <2>2, StrategyIInv DEF CancelShipment
  <1> QED
    BY <1>8, <1>9, <1>10

(* The two saves of the worker. *)
LEMMA TriggerSaveIInv ==
    ASSUME Disciplined, IInv, TypeOK', RequestsOK', NEW w \in Workers, TriggerSave(w)
    PROVE  IInv'
  <1> DEFINE t == worker[w].saga
             type == worker[w].type
             entity == worker[w].entity
  <1>0. /\ worker \in [Workers -> WorkerState] /\ row \in [Sagas -> SagaRow \cup {NoRow}]
    BY DEF IInv, TypeOK
  <1>1. t \in Sagas /\ type \in FailureTypes /\ entity \in SagaRow
    BY <1>0, WorkerCases DEF TriggerSave
  <1>2. /\ Status(t) = "started" /\ entity = MarkCompensating(row[t], type)
        /\ \A c \in Command : c.saga = t => ~Published(c)
    BY <1>1 DEF IInv, WorkerOK, ActsOnRow, SagaOK, TriggerSave
  <1>3. row[t] # NoRow /\ row[t] \in SagaRow
    BY <1>0, <1>1, <1>2 DEF Status
  <1>4. entity.status = "compensating" /\ entity.failedStep = type /\ entity # NoRow
    BY <1>1, <1>2, <1>3, MarkedRow, SagaConstants
  <1>5. /\ \A s \in Sagas \ {t} : row'[s] = row[s]
        /\ UNCHANGED <<events, request, commands>>
    BY <1>0, <1>1 DEF TriggerSave, Save
  <1>6. \/ ~Admitted(entity) /\ row' = row /\ worker'[w] = IdleWorker
        \/ /\ row'[t] = entity
           /\ worker'[w].pc = FirstCall(type) /\ worker'[w].saga = t
           /\ worker'[w].type = type /\ worker'[w].entity = entity
    <2>1. CASE Admitted(entity)
      <3>1. Goto(w, FirstCall(type)) /\ row'[t] = entity
        BY <1>0, <1>1, <2>1 DEF TriggerSave, Save
      <3> QED
        BY <1>0, <3>1, WorkerCases DEF Goto, TriggerSave
    <2>2. CASE ~Admitted(entity)
      BY <1>0, <2>2 DEF TriggerSave, Save, Return
    <2> QED
      BY <2>1, <2>2
  <1>7. ASSUME NEW s \in Sagas PROVE WorkerOK(w, s)'
    <2>1. CASE ~Admitted(entity) /\ row' = row /\ worker'[w] = IdleWorker
      BY <2>1 DEF WorkerOK, ActsOnRow, SentSoFar, Compensates, IdleWorker
    <2>2. CASE /\ row'[t] = entity
               /\ worker'[w].pc = FirstCall(type) /\ worker'[w].saga = t
               /\ worker'[w].type = type /\ worker'[w].entity = entity
      <3>1. /\ FirstCall(type) \in {"unassign", "release", "cancel"}
            /\ FirstCall(type) = "unassign" => type = "delivery.failed"
            /\ FirstCall(type) = "release" => type # "inventory.insufficient"
        BY <1>1 DEF FirstCall, FailureTypes
      <3>2. ActsOnRow(w, s)'
        BY <1>4, <2>2, <3>1 DEF ActsOnRow, Compensates, Status
      <3>3. SentSoFar(w, s)'
        <4> SUFFICES ASSUME s = t, NEW c \in Command, c.saga = s
                     PROVE  ~(commands'[c] > 0) /\ ~(c \in Owed(s, entity) /\ c.kind \in Done(FirstCall(type)))
          BY <2>2 DEF SentSoFar, Published
        <4>1. ~(commands'[c] > 0)
          BY <1>2, <1>5 DEF Published
        <4>2. c \in Owed(s, entity) => Calls(s, entity, c)
          BY <1>1, <1>4, OwedCommands
        <4>3. CASE type = "delivery.failed"
          BY <4>1, <4>3 DEF FirstCall, Done
        <4>4. CASE type = "courier.unassigned"
          BY <1>4, <4>1, <4>2, <4>4 DEF FirstCall, Done, Calls
        <4>5. CASE type = "inventory.insufficient"
          BY <1>4, <4>1, <4>2, <4>5 DEF FirstCall, Done, Calls
        <4> QED
          BY <1>1, <4>3, <4>4, <4>5 DEF FailureTypes
      <3> QED
        BY <3>2, <3>3 DEF WorkerOK
    <2> QED
      BY <1>6, <2>1, <2>2
  <1>8. ASSUME NEW s \in Sagas PROVE SagaOK(s)'
    <2>1. SagaOK(s)
      BY DEF IInv
    <2>2. CASE row'[s] = row[s]
      BY <1>5, <2>1, <2>2 DEF SagaOK, Status, Published
    <2>3. CASE row'[s] # row[s]
      <3>1. row'[s] = entity
        BY <1>5, <1>6, <2>3
      <3> QED
        BY <1>1, <1>4, <3>1 DEF SagaOK, Status
    <2> QED
      BY <2>2, <2>3
  <1>9. CompensatedOnce'
    BY <1>5 DEF IInv, CompensatedOnce
  <1>10. (\A s \in Sagas, v \in Workers : WorkerOK(v, s))'
    BY <1>7, OnlyWorker
  <1> QED
    BY <1>8, <1>9, <1>10 DEF IInv

LEMMA FailSaveIInv ==
    ASSUME Disciplined, IInv, TypeOK', RequestsOK', NEW w \in Workers, FailSave(w)
    PROVE  IInv'
  <1> DEFINE t == worker[w].saga
             type == worker[w].type
             entity == worker[w].entity
  <1>0. /\ worker \in [Workers -> WorkerState] /\ row \in [Sagas -> SagaRow \cup {NoRow}]
    BY DEF IInv, TypeOK
  <1>1. t \in Sagas /\ type \in FailureTypes /\ entity \in SagaRow
    BY <1>0, WorkerCases DEF FailSave
  <1>2. /\ Status(t) = "compensating" /\ row[t].failedStep = type
        /\ entity = MarkFailed(row[t], type)
        /\ \A c \in Command : c.saga = t =>
             (Published(c) <=> c \in Owed(t, row[t]) /\ c.kind \in Done("failSave"))
    BY <1>1 DEF IInv, WorkerOK, ActsOnRow, SentSoFar, Compensates, FailSave
  <1>3. row[t] # NoRow /\ row[t] \in SagaRow
    BY <1>0, <1>1, <1>2 DEF Status
  <1>4. /\ entity.status = "failed" /\ entity.failedStep = type
        /\ entity.warehouse = row[t].warehouse /\ entity.delivery = row[t].delivery
    BY <1>1, <1>2, <1>3, MarkedRow
  <1>5. /\ \A s \in Sagas \ {t} : row'[s] = row[s]
        /\ row'[t] \in {row[t], entity}
        /\ UNCHANGED <<events, request, commands>>
        /\ worker'[w] = IdleWorker
    BY <1>0, <1>1 DEF FailSave, Save, Return
  <1>6. (\A s \in Sagas, v \in Workers : WorkerOK(v, s))'
    <2>1. ASSUME NEW s \in Sagas PROVE WorkerOK(w, s)'
      BY <1>5 DEF WorkerOK, ActsOnRow, SentSoFar, Compensates, IdleWorker
    <2> QED
      BY <2>1, OnlyWorker
  <1>7. ASSUME NEW s \in Sagas PROVE SagaOK(s)'
    <2>1. SagaOK(s)
      BY DEF IInv
    <2>2. CASE row'[s] = row[s]
      BY <1>5, <2>1, <2>2 DEF SagaOK, Status, Published
    <2>3. CASE row'[s] # row[s]
      <3>1. s = t /\ row'[s] = entity
        BY <1>5, <2>3
      <3>2. ASSUME NEW c \in Command, c.saga = s
            PROVE  commands'[c] > 0 <=> c \in Owed(s, entity)
        <4>1. c \in Owed(t, row[t]) <=> Calls(t, row[t], c)
          BY <1>1, <1>2, <1>3, OwedCommands
        <4>2. c \in Owed(t, entity) <=> Calls(t, entity, c)
          BY <1>1, <1>4, OwedCommands
        <4>3. Calls(t, row[t], c) <=> Calls(t, entity, c)
          BY <1>2, <1>4 DEF Calls
        <4>4. c.kind \in Done("failSave")
          BY DEF Done, Command
        <4> QED
          BY <1>2, <1>5, <3>1, <3>2, <4>1, <4>2, <4>3, <4>4 DEF Published
      <3>3. Status(s)' = "failed" /\ row'[s].failedStep \in FailureTypes
        <4>1. entity # NoRow
          BY <1>1, SagaConstants
        <4> QED
          BY <1>1, <1>4, <3>1, <4>1 DEF Status
      <3>4. \A c \in Command : c.saga = s => (Published(c)' <=> c \in Owed(s, row'[s]))
        BY <3>1, <3>2 DEF Published
      <3> HIDE DEF entity
      <3> QED
        BY <3>3, <3>4 DEF SagaOK
    <2> QED
      BY <2>2, <2>3
  <1>8. CompensatedOnce'
    BY <1>5 DEF IInv, CompensatedOnce
  <1> QED
    BY <1>6, <1>7, <1>8 DEF IInv

LEMMA NextIInv == Disciplined /\ IInv /\ RequestsOK' /\ [Next]_vars => IInv'
  <1> SUFFICES ASSUME Disciplined, IInv, RequestsOK', [Next]_vars PROVE IInv'
    OBVIOUS
  <1>1. TypeOK'
    BY NextKeepsType DEF IInv
  <1>2. CASE UNCHANGED vars
    BY <1>1, <1>2, SameWorkers, SameSagas DEF IInv, vars
  <1>3. ASSUME NEW w \in Workers, WorkerStep(w) \/ HandlerRaises(w) \/ Crash(w)
        PROVE  IInv'
    BY <1>1, <1>3, FetchIInv, LookIInv, PublishIInv, TriggerSaveIInv, FailSaveIInv DEF WorkerStep
  <1>4. ASSUME NEW r \in Requests, BeginRequest(r) \/ RequestStep(r) \/ RequestAborts(r)
        PROVE  IInv'
    BY <1>1, <1>4, RequestIInv
  <1>5. ASSUME NEW e \in Events, PublishFailure(e) \/ AutoCommit(e) \/ Redeliver(e)
        PROVE  IInv'
    BY <1>1, <1>5, EventIInv
  <1> QED
    BY <1>2, <1>3, <1>4, <1>5 DEF Next

LEMMA DisciplineHolds ==
    ASSUME Disciplined PROVE Spec => []IInv
  <1>1. Spec => [](CopyInv /\ RequestsOK)
    BY RequestsHoldFreshCopies DEF Disciplined
  <1>2. IInv /\ RequestsOK' /\ [Next]_vars => IInv'
    BY NextIInv
  <1> QED
    BY <1>1, <1>2, InitIInv, PTL DEF Spec

-----------------------------------------------------------------------------
(***************************************************************************)
(* What a step may do to the table.  It writes at most one row, and that   *)
(* row takes one of five steps.                                            *)
(***************************************************************************)
IsCreated(s) == row[s] = NoRow /\ row'[s].status = "started"

IsPatched(s) ==
    /\ Status(s) = "started" /\ row'[s].status = "started"
    /\ Keeps(row[s], row'[s])

IsCompleted(s) == Status(s) \in {"started", "completed"} /\ row'[s] = MarkCompleted(row[s])

IsTriggered(s) ==
    /\ Status(s) = "started"
    /\ \E type \in FailureTypes : row'[s] = MarkCompensating(row[s], type)

IsFailed(s) ==
    /\ Status(s) = "compensating"
    /\ row[s].failedStep \in FailureTypes
    /\ row'[s] = MarkFailed(row[s], row[s].failedStep)
    /\ \A c \in Command : c.saga = s => (Published(c) <=> c \in Owed(s, row[s]))

RowMoves(s) ==
    /\ UNCHANGED commands
    /\ \A q \in Sagas \ {s} : row'[q] = row[q]
    /\ row'[s] \in SagaRow
    /\ IsCreated(s) \/ IsPatched(s) \/ IsCompleted(s) \/ IsTriggered(s) \/ IsFailed(s)

LEMMA RequestSaveMovesRow ==
    ASSUME IInv, NEW r \in Requests, RequestSave(r), NEW s \in Sagas, row'[s] # row[s]
    PROVE  RowMoves(s)
  <1> DEFINE entity == request[r].entity
  <1>1. TypeOK /\ RequestsOK /\ UNCHANGED commands
    BY DEF IInv, RequestSave
  <1>2. /\ request[r].saga = s /\ row'[s] = entity /\ entity \in SagaRow
        /\ \A q \in Sagas \ {s} : row'[q] = row[q]
    BY <1>1, SavedRow
  <1>3. \/ row[s] = NoRow /\ entity.status = "started"
        \/ /\ row[s] # NoRow /\ row[s].status = "started" /\ entity.status = "started"
           /\ Keeps(row[s], entity)
        \/ /\ row[s] # NoRow /\ row[s].status \in {"started", "completed"}
           /\ entity = MarkCompleted(row[s])
    BY <1>1, <1>2, SavedRow
  <1> HIDE DEF entity
  <1> QED
    BY <1>1, <1>2, <1>3 DEF RowMoves, IsCreated, IsPatched, IsCompleted, Status

LEMMA WorkerSaveMovesRow ==
    ASSUME IInv, NEW w \in Workers, TriggerSave(w) \/ FailSave(w),
           NEW s \in Sagas, row'[s] # row[s]
    PROVE  RowMoves(s)
  <1> DEFINE entity == worker[w].entity
             type == worker[w].type
  <1>0. /\ row \in [Sagas -> SagaRow \cup {NoRow}] /\ worker \in [Workers -> WorkerState]
    BY DEF IInv, TypeOK
  <1>1. /\ worker[w].saga \in Sagas /\ entity \in SagaRow /\ type \in FailureTypes
        /\ worker[w].pc \in {"triggerSave", "failSave"}
    BY <1>0, WorkerCases DEF TriggerSave, FailSave
  <1>2. /\ UNCHANGED commands
        /\ worker[w].saga = s /\ row'[s] = entity
        /\ \A q \in Sagas \ {s} : row'[q] = row[q]
    BY <1>0, <1>1 DEF TriggerSave, FailSave, Save
  <1>3. ActsOnRow(w, s) /\ SentSoFar(w, s)
    BY DEF IInv, WorkerOK
  <1>4. CASE worker[w].pc = "triggerSave"
    <2>1. Status(s) = "started" /\ entity = MarkCompensating(row[s], type)
      BY <1>2, <1>3, <1>4 DEF ActsOnRow
    <2> HIDE DEF entity
    <2> QED
      BY <1>1, <1>2, <2>1 DEF RowMoves, IsTriggered
  <1>5. CASE worker[w].pc = "failSave"
    <2>1. /\ Status(s) = "compensating" /\ row[s].failedStep = type
          /\ entity = MarkFailed(row[s], type)
      BY <1>2, <1>3, <1>5 DEF ActsOnRow, Compensates
    <2>2. \A c \in Command :
             c.saga = s => (Published(c) <=> c \in Owed(s, row[s]) /\ c.kind \in Done("failSave"))
      BY <1>2, <1>3, <1>5 DEF SentSoFar, Compensates
    <2>3. \A c \in Command : c.kind \in Done("failSave")
      BY DEF Done, Command
    <2> HIDE DEF entity
    <2> QED
      BY <1>1, <1>2, <2>1, <2>2, <2>3 DEF RowMoves, IsFailed
  <1> QED
    BY <1>1, <1>4, <1>5

LEMMA StepMovesRow ==
    ASSUME IInv, [Next]_vars, NEW s \in Sagas, row'[s] # row[s]
    PROVE  RowMoves(s)
  <1>1. CASE UNCHANGED vars
    BY <1>1 DEF vars
  <1>2. ASSUME NEW w \in Workers, WorkerStep(w) \/ HandlerRaises(w) \/ Crash(w)
        PROVE  RowMoves(s)
    <2>1. TriggerSave(w) \/ FailSave(w)
      BY <1>2 DEF WorkerStep, Fetch, HandleRead, TriggerRead, UnassignCourier, ReleaseInventory,
                  CancelShipment, FailRead, HandlerRaises, Crash
    <2> QED
      BY <2>1, WorkerSaveMovesRow
  <1>3. ASSUME NEW r \in Requests, BeginRequest(r) \/ RequestStep(r) \/ RequestAborts(r)
        PROVE  RowMoves(s)
    <2>1. RequestSave(r)
      BY <1>3 DEF BeginRequest, BeginCreate, BeginPatch, BeginComplete, RequestStep, PatchRead,
                  UpdateContextRead, CompleteRead, RequestAborts
    <2> QED
      BY <2>1, RequestSaveMovesRow
  <1>4. ASSUME NEW e \in Events, PublishFailure(e) \/ AutoCommit(e) \/ Redeliver(e)
        PROVE  RowMoves(s)
    BY <1>4 DEF PublishFailure, AutoCommit, Redeliver
  <1> QED
    BY <1>1, <1>2, <1>3, <1>4 DEF Next

-----------------------------------------------------------------------------
(***************************************************************************)
(* The strategy of a saga runs once: under the discipline no second        *)
(* handler publishes a command of it again, not after a crash, not when    *)
(* the event that reported the failure is delivered again, and not when    *)
(* another failure of the same saga is reported while it is compensated.   *)
(***************************************************************************)
THEOREM SagasAreCompensatedOnce ==
    ASSUME Disciplined PROVE Spec => []CompensatedOnce
  <1>1. IInv => CompensatedOnce
    BY DEF IInv
  <1> QED
    BY <1>1, DisciplineHolds, PTL

-----------------------------------------------------------------------------
(***************************************************************************)
(* The commands: a step publishes at most one, in the order of the         *)
(* strategy, and writes no row with it.                                    *)
(***************************************************************************)
Precedes(kind) == Lifecycle!Before(kind)

CommandMoves(c) ==
    /\ UNCHANGED row
    /\ c \in Command /\ Status(c.saga) = "compensating"
    /\ c \in Owed(c.saga, row[c.saga])
    /\ \A d \in Command : commands'[d] > 0 <=> Published(d) \/ d = c
    /\ \A d \in Owed(c.saga, row[c.saga]) : d.kind \in Precedes(c.kind) => Published(d)

LEMMA PublishAdds ==
    ASSUME IInv, NEW s \in Sagas, NEW target, NEW kind,
           [kind |-> kind, saga |-> s, target |-> target] \in Command,
           Publish(kind, s, target)
    PROVE  \A d \in Command :
             commands'[d] > 0 <=>
                 Published(d) \/ d = [kind |-> kind, saga |-> s, target |-> target]
  <1> DEFINE c == [kind |-> kind, saga |-> s, target |-> target]
  <1>1. commands \in [Command -> Nat]
    BY DEF IInv, TypeOK
  <1>2. PICK n \in 1 .. MaxCopies : commands' = [commands EXCEPT ![c] = @ + n]
    BY DEF Publish
  <1>3. MaxCopies \in Nat /\ n \in Nat /\ n > 0
    BY SagaConstants
  <1> HIDE DEF c
  <1>4. ASSUME NEW d \in Command PROVE commands'[d] > 0 <=> Published(d) \/ d = c
    <2>1. commands[d] \in Nat
      BY <1>1
    <2>2. commands'[d] = IF d = c THEN commands[d] + n ELSE commands[d]
      BY <1>1, <1>2
    <2> QED
      BY <1>3, <2>1, <2>2 DEF Published
  <1> QED
    BY <1>4 DEF c

LEMMA StrategySends ==
    ASSUME IInv, NEW w \in Workers,
           UnassignCourier(w) \/ ReleaseInventory(w) \/ CancelShipment(w),
           commands' # commands
    PROVE  \E c \in Command : CommandMoves(c)
  <1> DEFINE s == worker[w].saga
             kind == worker[w].pc
             target == CASE kind = "unassign" -> worker[w].entity.delivery
                         [] kind = "release" -> worker[w].entity.warehouse
                         [] kind = "cancel" -> None
             c == [kind |-> kind, saga |-> s, target |-> target]
  <1>0. /\ worker \in [Workers -> WorkerState] /\ row \in [Sagas -> SagaRow \cup {NoRow}]
    BY DEF IInv, TypeOK
  <1>1. /\ kind \in {"unassign", "release", "cancel"} /\ s \in Sagas
        /\ worker[w].entity \in SagaRow /\ worker[w].type \in FailureTypes
    BY <1>0, WorkerCases DEF UnassignCourier, ReleaseInventory, CancelShipment
  <1>2. ActsOnRow(w, s) /\ SentSoFar(w, s)
    BY <1>1 DEF IInv, WorkerOK
  <1>3. /\ Status(s) = "compensating" /\ row[s].failedStep = worker[w].type
        /\ worker[w].entity = row[s]
        /\ kind = "unassign" => row[s].failedStep = "delivery.failed"
        /\ kind = "release" => row[s].failedStep # "inventory.insufficient"
    BY <1>1, <1>2 DEF ActsOnRow, Compensates
  <1>4. \A d \in Command :
           d.saga = s => (Published(d) <=> d \in Owed(s, row[s]) /\ d.kind \in Done(kind))
    BY <1>1, <1>2 DEF SentSoFar, Compensates
  <1>5. row[s] \in SagaRow
    BY <1>1, <1>3
  <1>6. /\ Owed(s, row[s]) \subseteq Command
        /\ \A d \in Command : d \in Owed(s, row[s]) <=> Calls(s, row[s], d)
    BY <1>1, <1>3, <1>5, OwedCommands
  <1>7. /\ UNCHANGED row
        /\ kind # "cancel" => target # None
        /\ Publish(kind, s, target)
    BY <1>1 DEF UnassignCourier, ReleaseInventory, CancelShipment
  <1>8. /\ target = CASE kind = "unassign" -> row[s].delivery
                      [] kind = "release" -> row[s].warehouse
                      [] kind = "cancel" -> None
    BY <1>3
  <1> HIDE DEF target
  <1>9. /\ kind = "unassign" => target \in Deliveries
        /\ kind = "release" => target \in Warehouses
        /\ kind = "cancel" => target = None
    BY <1>5, <1>7, <1>8 DEF SagaRow
  <1>10. c \in Command
    BY <1>1, <1>9 DEF Command
  <1>11. /\ c.kind = kind /\ c.saga = s /\ c.target = target
    OBVIOUS
  <1>12. Calls(s, row[s], c)
    BY <1>1, <1>3, <1>8, <1>11 DEF Calls
  <1>13. \A d \in Command : commands'[d] > 0 <=> Published(d) \/ d = c
    BY <1>1, <1>7, <1>10, PublishAdds
  <1> HIDE DEF c
  <1>14. ASSUME NEW d \in Owed(s, row[s]), d.kind \in Precedes(kind) PROVE Published(d)
    <2>1. d.kind \in Done(kind)
      BY <1>1, <1>14 DEF Done, Precedes, Lifecycle!Before
    <2>2. d \in Command /\ d.saga = s
      BY <1>6 DEF Calls
    <2> QED
      BY <1>4, <2>1, <2>2
  <1>15. c \in Owed(s, row[s])
    BY <1>6, <1>10, <1>12
  <1> QED
    BY <1>3, <1>7, <1>10, <1>11, <1>13, <1>14, <1>15 DEF CommandMoves

LEMMA StepSends ==
    ASSUME IInv, [Next]_vars, commands' # commands
    PROVE  \E c \in Command : CommandMoves(c)
  <1>1. CASE UNCHANGED vars
    BY <1>1 DEF vars
  <1>2. ASSUME NEW w \in Workers, WorkerStep(w) \/ HandlerRaises(w) \/ Crash(w)
        PROVE  \E c \in Command : CommandMoves(c)
    <2>1. UnassignCourier(w) \/ ReleaseInventory(w) \/ CancelShipment(w)
      BY <1>2 DEF WorkerStep, Fetch, HandleRead, TriggerRead, TriggerSave, FailSave, FailRead,
                  HandlerRaises, Crash
    <2> QED
      BY <2>1, StrategySends
  <1>3. ASSUME NEW r \in Requests, BeginRequest(r) \/ RequestStep(r) \/ RequestAborts(r)
        PROVE  FALSE
    BY <1>3 DEF BeginRequest, BeginCreate, BeginPatch, BeginComplete, RequestStep, PatchRead,
                UpdateContextRead, CompleteRead, RequestSave, RequestAborts
  <1>4. ASSUME NEW e \in Events, PublishFailure(e) \/ AutoCommit(e) \/ Redeliver(e)
        PROVE  FALSE
    BY <1>4 DEF PublishFailure, AutoCommit, Redeliver
  <1> QED
    BY <1>1, <1>2, <1>3, <1>4 DEF Next

-----------------------------------------------------------------------------
(* The refinement: the five steps of a row and the publishes are the steps *)
(* of the life of a saga.                                                  *)
LEMMA RowKeepsOthers ==
    ASSUME NEW s \in Sagas, RowMoves(s)
    PROVE  /\ \A q \in Sagas : SentOf(q)' = SentOf(q)
           /\ \A q \in Sagas \ {s} : Status(q)' = Status(q) /\ PlanOf(q)' = PlanOf(q)
  BY DEF RowMoves, SentOf, Published, Status, PlanOf

LEMMA PlanOfFailure ==
    ASSUME NEW s \in Sagas, NEW saga \in SagaRow, saga.failedStep \in FailureTypes
    PROVE  /\ {c.kind : c \in Owed(s, saga)} \subseteq {"unassign", "release", "cancel"}
           /\ "cancel" \in {c.kind : c \in Owed(s, saga)}
  <1>1. \A c \in Owed(s, saga) : c \in Command /\ Calls(s, saga, c)
    BY OwedCommands
  <1> DEFINE cancel == [kind |-> "cancel", saga |-> s, target |-> None]
  <1>2. cancel \in Command
    BY DEF Command
  <1>3. Calls(s, saga, cancel)
    BY DEF Calls
  <1>4. cancel \in Owed(s, saga)
    BY <1>2, <1>3, OwedCommands
  <1>5. cancel.kind = "cancel"
    OBVIOUS
  <1> HIDE DEF cancel
  <1> QED
    BY <1>1, <1>4, <1>5 DEF Calls

(* Owed looks at the step that failed and at the context alone. *)
LEMMA OwedSurvivesFailure ==
    ASSUME NEW s \in Sagas, NEW saga \in SagaRow, saga.failedStep \in FailureTypes
    PROVE  Owed(s, MarkFailed(saga, saga.failedStep)) = Owed(s, saga)
  <1> DEFINE failed == MarkFailed(saga, saga.failedStep)
  <1>1. /\ failed.failedStep = saga.failedStep
        /\ failed.warehouse = saga.warehouse /\ failed.delivery = saga.delivery
    BY MarkedRow
  <1> HIDE DEF failed
  <1>2. \A kind : CommandOf(kind, s, failed) = CommandOf(kind, s, saga)
    BY <1>1 DEF CommandOf
  <1>3. Owed(s, failed) = Owed(s, saga)
    BY <1>1, <1>2 DEF Owed
  <1> QED
    BY <1>3 DEF failed

LEMMA RowStepImplementsLifecycle ==
    ASSUME IInv, NEW s \in Sagas, RowMoves(s)
    PROVE  [Lifecycle!Next]_(Lifecycle!lifecycleVars)
  <1> DEFINE status == [q \in Sagas |-> Status(q)]
             plan == [q \in Sagas |-> PlanOf(q)]
             sent == [q \in Sagas |-> SentOf(q)]
             next == [q \in Sagas |-> Status(q)']
             nextPlan == [q \in Sagas |-> PlanOf(q)']
             nextSent == [q \in Sagas |-> SentOf(q)']
  <1>0. row[s] \in SagaRow \cup {NoRow}
    BY DEF IInv, TypeOK
  <1>1. /\ nextSent = sent
        /\ \A q \in Sagas \ {s} : next[q] = status[q] /\ nextPlan[q] = plan[q]
    BY RowKeepsOthers
  <1>2. /\ row'[s] \in SagaRow /\ row'[s] # NoRow
        /\ Status(s)' = row'[s].status
    BY SagaConstants DEF RowMoves, Status
  <1>3. CASE IsCreated(s)
    <2>1. Status(s) = "absent" /\ Status(s)' = "started"
      BY <1>2, <1>3 DEF IsCreated, Status
    <2>2. PlanOf(s)' = PlanOf(s)
      BY <2>1 DEF PlanOf
    <2>3. next = [status EXCEPT ![s] = "started"] /\ nextPlan = plan /\ status[s] = "absent"
      BY <1>1, <2>1, <2>2
    <2>4. Lifecycle!Start(s)
      BY <1>1, <2>3 DEF Lifecycle!Start, Lifecycle!Move
    <2> QED
      BY <2>4 DEF Lifecycle!Next
  <1>4. CASE IsPatched(s)
    <2>1. Status(s) = "started" /\ Status(s)' = "started"
      BY <1>2, <1>4 DEF IsPatched
    <2>2. PlanOf(s)' = PlanOf(s)
      BY <2>1 DEF PlanOf
    <2>3. next = status /\ nextPlan = plan
      BY <1>1, <2>1, <2>2
    <2> QED
      BY <1>1, <2>3 DEF Lifecycle!lifecycleVars
  <1>5. CASE IsCompleted(s)
    <2>1. Status(s)' = "completed"
      <3>1. row[s] \in SagaRow
        BY <1>0, <1>5 DEF IsCompleted, Status
      <3>2. MarkCompleted(row[s]).status = "completed"
        BY <3>1 DEF MarkCompleted, SagaRow
      <3> QED
        BY <1>2, <1>5, <3>2 DEF IsCompleted
    <2>2. PlanOf(s)' = PlanOf(s)
      BY <1>5, <2>1 DEF IsCompleted, PlanOf
    <2>3. nextPlan = plan
      BY <1>1, <2>2
    <2>4. CASE Status(s) = "started"
      <3>1. next = [status EXCEPT ![s] = "completed"] /\ status[s] = "started"
        BY <1>1, <2>1, <2>4
      <3>2. Lifecycle!Complete(s)
        BY <1>1, <2>3, <3>1 DEF Lifecycle!Complete, Lifecycle!Move
      <3> QED
        BY <3>2 DEF Lifecycle!Next
    <2>5. CASE Status(s) = "completed"
      <3>1. next = status
        BY <1>1, <2>1, <2>5
      <3> QED
        BY <1>1, <2>3, <3>1 DEF Lifecycle!lifecycleVars
    <2> QED
      BY <1>5, <2>4, <2>5 DEF IsCompleted
  <1>6. CASE IsTriggered(s)
    <2>1. row[s] \in SagaRow /\ Status(s) = "started"
      BY <1>0, <1>6 DEF IsTriggered, Status
    <2>2. Status(s)' = "compensating" /\ row'[s].failedStep \in FailureTypes
      BY <1>2, <1>6, <2>1, MarkedRow DEF IsTriggered
    <2>3. PlanOf(s)' = {c.kind : c \in Owed(s, row'[s])}
      BY <2>2 DEF PlanOf
    <2>4. PlanOf(s)' \subseteq {"unassign", "release", "cancel"} /\ "cancel" \in PlanOf(s)'
      BY <1>2, <2>2, <2>3, PlanOfFailure
    <2>5. PICK steps \in SUBSET {"unassign", "release", "cancel"} :
             PlanOf(s)' = steps /\ "cancel" \in steps
      BY <2>4
    <2>6. /\ status[s] = "started" /\ next = [status EXCEPT ![s] = "compensating"]
          /\ nextPlan = [plan EXCEPT ![s] = steps]
      BY <1>1, <2>1, <2>2, <2>5
    <2>7. Lifecycle!Compensate(s)
      BY <1>1, <2>5, <2>6 DEF Lifecycle!Compensate, Lifecycle!Move, Lifecycle!Steps
    <2> QED
      BY <2>7 DEF Lifecycle!Next
  <1>7. CASE IsFailed(s)
    <2>1. row[s] \in SagaRow /\ Status(s) = "compensating" /\ row[s].failedStep \in FailureTypes
      BY <1>0, <1>7 DEF IsFailed, Status
    <2>2. Status(s)' = "failed"
      BY <1>2, <1>7, <2>1, MarkedRow DEF IsFailed
    <2>3. Owed(s, row'[s]) = Owed(s, row[s])
      BY <1>7, <2>1, OwedSurvivesFailure DEF IsFailed
    <2>4. PlanOf(s) = {c.kind : c \in Owed(s, row[s])}
      BY <2>1 DEF PlanOf
    <2>5. PlanOf(s)' = {c.kind : c \in Owed(s, row'[s])}
      BY <2>2 DEF PlanOf
    <2>6. {d \in Command : d.saga = s /\ Published(d)} = Owed(s, row[s])
      <3>1. \A c \in Owed(s, row[s]) : c \in Command /\ c.saga = s
        BY <2>1, OwedCommands DEF Calls
      <3> QED
        BY <1>7, <3>1 DEF IsFailed
    <2>7. SentOf(s) = PlanOf(s)
      BY <2>4, <2>6 DEF SentOf
    <2>8. /\ sent[s] = plan[s] /\ status[s] = "compensating"
          /\ next = [status EXCEPT ![s] = "failed"] /\ nextPlan = plan
      BY <1>1, <2>1, <2>2, <2>3, <2>4, <2>5, <2>7
    <2>9. Lifecycle!Fail(s)
      BY <1>1, <2>8 DEF Lifecycle!Fail, Lifecycle!Move
    <2> QED
      BY <2>9 DEF Lifecycle!Next
  <1> QED
    BY <1>3, <1>4, <1>5, <1>6, <1>7 DEF RowMoves

LEMMA CommandStepImplementsLifecycle ==
    ASSUME IInv, NEW c \in Command, CommandMoves(c)
    PROVE  Lifecycle!Next
  <1> DEFINE s == c.saga
             status == [q \in Sagas |-> Status(q)]
             plan == [q \in Sagas |-> PlanOf(q)]
             sent == [q \in Sagas |-> SentOf(q)]
             next == [q \in Sagas |-> Status(q)']
             nextPlan == [q \in Sagas |-> PlanOf(q)']
             nextSent == [q \in Sagas |-> SentOf(q)']
  <1>1. s \in Sagas /\ c.kind \in {"unassign", "release", "cancel"}
    BY DEF Command
  <1>2. next = status /\ nextPlan = plan
    BY DEF CommandMoves, Status, PlanOf
  <1>3. /\ status[s] = "compensating"
        /\ PlanOf(s) = {d.kind : d \in Owed(s, row[s])}
    BY <1>1 DEF CommandMoves, PlanOf
  <1>4. c.kind \in plan[s]
    BY <1>1, <1>3 DEF CommandMoves
  <1>5. \A d \in Owed(s, row[s]) : d \in Command /\ d.saga = s
    <2>1. SagaOK(s) /\ row[s] \in SagaRow
      BY <1>1 DEF IInv, TypeOK, CommandMoves, Status
    <2>2. row[s].failedStep \in FailureTypes
      BY <2>1 DEF SagaOK, CommandMoves
    <2> QED
      BY <1>1, <2>1, <2>2, OwedCommands DEF Calls
  <1>6. plan[s] \cap Precedes(c.kind) \subseteq sent[s]
    <2> SUFFICES ASSUME NEW d \in Owed(s, row[s]), d.kind \in Precedes(c.kind)
                 PROVE  d.kind \in SentOf(s)
      BY <1>1, <1>3
    <2>1. Published(d)
      BY DEF CommandMoves
    <2> QED
      BY <1>5, <2>1 DEF SentOf
  <1>7. \A d \in Command : Published(d)' <=> Published(d) \/ d = c
    BY DEF CommandMoves, Published
  <1>8. SentOf(s)' = SentOf(s) \cup {c.kind}
    BY <1>7 DEF SentOf
  <1>9. \A q \in Sagas \ {s} : SentOf(q)' = SentOf(q)
    BY <1>7 DEF SentOf
  <1>10. nextSent = [sent EXCEPT ![s] = @ \cup {c.kind}]
    BY <1>1, <1>8, <1>9
  <1>11. Lifecycle!Send(s, c.kind)
    BY <1>2, <1>3, <1>4, <1>6, <1>10 DEF Lifecycle!Send, Precedes
  <1> QED
    BY <1>1, <1>11 DEF Lifecycle!Next, Lifecycle!Steps

(***************************************************************************)
(* Under the discipline the coordinator lives the life its documentation   *)
(* describes: a saga is started once, it is completed or compensated and   *)
(* never both, the commands of its failure go out from the courier back to *)
(* the shipment, and it is failed when all of them, and no other, are out. *)
(***************************************************************************)
THEOREM CoordinatorImplementsLifecycle ==
    ASSUME Disciplined PROVE Spec => ImplementsLifecycle
  <1>1. Init => Lifecycle!Init
    <2> SUFFICES ASSUME Init PROVE Lifecycle!Init
      OBVIOUS
    <2>1. \A s \in Sagas : Status(s) = "absent"
      BY DEF Init, Status
    <2>2. \A s \in Sagas : PlanOf(s) = {}
      BY <2>1 DEF PlanOf
    <2>3. \A c \in Command : ~Published(c)
      BY DEF Init, Published
    <2>4. \A s \in Sagas : SentOf(s) = {}
      BY <2>3 DEF SentOf
    <2> QED
      BY <2>1, <2>2, <2>4 DEF Lifecycle!Init
  <1>2. IInv /\ [Next]_vars => [Lifecycle!Next]_(Lifecycle!lifecycleVars)
    <2> SUFFICES ASSUME IInv, [Next]_vars PROVE [Lifecycle!Next]_(Lifecycle!lifecycleVars)
      OBVIOUS
    <2>1. CASE \E s \in Sagas : row'[s] # row[s]
      BY <2>1, StepMovesRow, RowStepImplementsLifecycle
    <2>2. CASE commands' # commands
      BY <2>2, StepSends, CommandStepImplementsLifecycle
    <2>3. CASE (\A s \in Sagas : row'[s] = row[s]) /\ UNCHANGED commands
      BY <2>3 DEF Lifecycle!lifecycleVars, Status, PlanOf, SentOf, Published
    <2> QED
      BY <2>1, <2>2, <2>3
  <1> QED
    BY <1>1, <1>2, DisciplineHolds, PTL DEF Spec, ImplementsLifecycle, Lifecycle!Spec
=============================================================================
