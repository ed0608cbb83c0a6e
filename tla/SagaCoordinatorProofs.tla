------------------------ MODULE SagaCoordinatorProofs ------------------------
(***************************************************************************)
(* Theorems about the saga coordinator, for any number of sagas, instances *)
(* and requests, and for every behaviour of the surroundings.              *)
(***************************************************************************)
EXTENDS SagaCoordinator, TLAPS

LEMMA SaveKeepsTable ==
    ASSUME NEW s \in Sagas, NEW entity \in SagaRow,
           row \in [Sagas -> SagaRow \cup {NoRow}], Save(s, entity)
    PROVE  row' \in [Sagas -> SagaRow \cup {NoRow}]
  BY DEF Save

LEMMA MarksKeepRow ==
    ASSUME NEW entity \in SagaRow, NEW step \in FailureTypes
    PROVE  /\ MarkCompleted(entity) \in SagaRow
           /\ MarkFailed(entity, step) \in SagaRow
           /\ MarkCompensating(entity, step) \in SagaRow
  BY DEF SagaRow, SagaStatus, MarkCompleted, MarkFailed, MarkCompensating

LEMMA ContextKeepsRow ==
    ASSUME NEW context \in Context
    PROVE  /\ NewEntity(context) \in SagaRow
           /\ \A entity \in SagaRow : MergeContext(entity, context) \in SagaRow
  BY DEF SagaRow, Context, SagaStatus, NewEntity, MergeContext, Given

LEMMA FirstCallIsACall ==
    ASSUME NEW type \in FailureTypes
    PROVE  FirstCall(type) \in {"unassign", "release", "cancel"}
  BY DEF FailureTypes, FirstCall

LEMMA WorkerCases ==
    ASSUME NEW w \in Workers, worker[w] \in WorkerState, worker[w].pc # "idle"
    PROVE  /\ worker[w].saga \in Sagas
           /\ worker[w].type \in FailureTypes
           /\ worker[w].pc \notin {"read", "triggerRead"} => worker[w].entity \in SagaRow
           /\ worker[w] = [pc |-> worker[w].pc, saga |-> worker[w].saga,
                           type |-> worker[w].type, entity |-> worker[w].entity]
  BY DEF WorkerState, IdleWorker

LEMMA RequestCases ==
    ASSUME NEW r \in Requests, request[r] \in RequestState, InFlight(r)
    PROVE  /\ request[r].saga \in Sagas
           /\ request[r].kind \in Kinds
           /\ request[r].context \in Context
           /\ request[r].pc = "save" => request[r].entity \in SagaRow
           /\ request[r] = [pc |-> request[r].pc, kind |-> request[r].kind,
                            saga |-> request[r].saga, context |-> request[r].context,
                            entity |-> request[r].entity]
  BY DEF RequestState, InFlight, NewRequest, DoneRequest, Kinds

LEMMA PublishKeepsTopics ==
    ASSUME NEW kind, NEW s, NEW target, commands \in [Command -> Nat],
           Publish(kind, s, target)
    PROVE  /\ commands' \in [Command -> Nat]
           /\ \A c \in Command : commands[c] > 0 => commands'[c] > 0
           /\ [kind |-> kind, saga |-> s, target |-> target] \in Command =>
                commands'[[kind |-> kind, saga |-> s, target |-> target]] > 0
  <1> DEFINE c == [kind |-> kind, saga |-> s, target |-> target]
  <1>1. PICK n \in 1 .. MaxCopies : commands' = [commands EXCEPT ![c] = @ + n]
    BY DEF Publish
  <1>2. n \in Nat /\ n > 0
    BY SagaConstants
  <1> HIDE DEF c
  <1>3. \A d \in Command : commands[d] \in Nat /\ commands'[d] = IF d = c THEN commands[d] + n ELSE commands[d]
    BY <1>1
  <1>4. commands' \in [Command -> Nat]
    <2>1. commands' = [d \in Command |-> commands'[d]]
      BY <1>1
    <2>2. \A d \in Command : commands'[d] \in Nat
      BY <1>2, <1>3
    <2> QED
      BY <2>1, <2>2
  <1>5. \A d \in Command : commands[d] > 0 => commands'[d] > 0
    <2> SUFFICES ASSUME NEW d \in Command, commands[d] > 0
                 PROVE  commands'[d] > 0
      OBVIOUS
    <2>1. commands[d] \in Nat /\ commands'[d] = IF d = c THEN commands[d] + n ELSE commands[d]
      BY <1>3
    <2> QED
      BY <1>2, <2>1
  <1>6. c \in Command => commands'[c] > 0
    BY <1>2, <1>3
  <1> QED
    BY <1>4, <1>5, <1>6 DEF c

(* The record a worker or a handler holds after it has read a row. *)
LEMMA WorkerHolding ==
    ASSUME NEW w \in Workers, worker[w] \in WorkerState, worker[w].pc # "idle",
           NEW pc \in {"triggerSave", "unassign", "release", "cancel", "failRead", "failSave"},
           NEW entity \in SagaRow
    PROVE  [worker[w] EXCEPT !.pc = pc, !.entity = entity] \in WorkerState
  <1> DEFINE Handling == [pc : {"read", "triggerRead", "triggerSave", "unassign",
                               "release", "cancel", "failRead", "failSave"},
                         saga : Sagas, type : FailureTypes, entity : SagaRow \cup {NoRow}]
             Holding == [pc : {"triggerSave", "unassign", "release", "cancel", "failRead", "failSave"},
                         saga : Sagas, type : FailureTypes, entity : SagaRow]
  <1>1. worker[w] \in Handling
    BY DEF WorkerState, IdleWorker
  <1>2. [worker[w] EXCEPT !.pc = pc, !.entity = entity] \in Holding
    BY <1>1
  <1>3. Holding \subseteq WorkerState
    BY DEF WorkerState
  <1> QED
    BY <1>2, <1>3

LEMMA RequestHolding ==
    ASSUME NEW r \in Requests, request[r] \in RequestState, InFlight(r),
           NEW entity \in SagaRow
    PROVE  [request[r] EXCEPT !.pc = "save", !.entity = entity] \in RequestState
  <1> DEFINE Serving == [pc : {"read", "reread", "save"}, kind : Kinds, saga : Sagas, context : Context,
                         entity : SagaRow \cup {NoRow}]
             Holding == [pc : {"save"}, kind : Kinds, saga : Sagas, context : Context,
                         entity : SagaRow]
  <1>1. request[r] \in Serving
    BY DEF RequestState, InFlight, NewRequest, DoneRequest, Kinds
  <1>2. [request[r] EXCEPT !.pc = "save", !.entity = entity] \in Holding
    BY <1>1
  <1>3. Holding \subseteq RequestState
    BY DEF RequestState
  <1> QED
    BY <1>2, <1>3

LEMMA InitTypeOK == Init => TypeOK
  BY DEF Init, TypeOK, WorkerState, RequestState

(* The worker record after a Goto within the part of the handler that holds
   the row trigger_compensation returned. *)
LEMMA GotoKeepsWorker ==
    ASSUME NEW w \in Workers, worker \in [Workers -> WorkerState],
           worker[w].pc \in {"triggerSave", "unassign", "release", "cancel", "failRead"},
           NEW pc \in {"unassign", "release", "cancel", "failRead"},
           Goto(w, pc)
    PROVE  worker' \in [Workers -> WorkerState]
  <1>1. [worker[w] EXCEPT !.pc = pc] \in WorkerState
    BY DEF WorkerState, IdleWorker
  <1> QED
    BY <1>1 DEF Goto

LEMMA ReturnKeepsWorker ==
    ASSUME NEW w \in Workers, worker \in [Workers -> WorkerState], Return(w)
    PROVE  worker' \in [Workers -> WorkerState]
  BY DEF Return, WorkerState

LEMMA WorkerStepKeepsType ==
    ASSUME TypeOK, NEW w \in Workers,
           WorkerStep(w) \/ HandlerRaises(w) \/ Crash(w)
    PROVE  TypeOK'
  <1> USE DEF TypeOK
  <1>1. ASSUME NEW e \in Events, Fetch(w, e) PROVE TypeOK'
    BY <1>1, SagaConstants DEF Fetch, WorkerState
  <1>2. CASE HandleRead(w)
    <2>1. [worker[w] EXCEPT !.pc = "triggerRead"] \in WorkerState
      BY <1>2 DEF HandleRead, WorkerState, IdleWorker
    <2> QED
      BY <1>2, <2>1, ReturnKeepsWorker DEF HandleRead, Goto
  <1>3. CASE TriggerRead(w)
    <2> DEFINE found == row[worker[w].saga]
    <2>1. CASE found = NoRow \/ found.status \in {"completed", "failed"}
      BY <1>3, <2>1, ReturnKeepsWorker DEF TriggerRead
    <2>2. CASE ~(found = NoRow \/ found.status \in {"completed", "failed"})
      <3>1. worker[w].saga \in Sagas /\ worker[w].type \in FailureTypes /\ found \in SagaRow
        BY <1>3, <2>2, WorkerCases DEF TriggerRead
      <3>2. MarkCompensating(found, worker[w].type) \in SagaRow
        BY <3>1, MarksKeepRow
      <3>3. [worker[w] EXCEPT !.pc = "triggerSave",
                              !.entity = MarkCompensating(found, worker[w].type)] \in WorkerState
        BY <1>3, <3>2, WorkerHolding DEF TriggerRead
      <3> QED
        BY <1>3, <2>2, <3>3 DEF TriggerRead
    <2> QED
      BY <2>1, <2>2
  <1>4. CASE TriggerSave(w)
    <2> DEFINE s == worker[w].saga
               e == worker[w].entity
    <2>1. s \in Sagas /\ e \in SagaRow /\ FirstCall(worker[w].type) \in {"unassign", "release", "cancel"}
      BY <1>4, WorkerCases, FirstCallIsACall DEF TriggerSave
    <2>2. row' \in [Sagas -> SagaRow \cup {NoRow}]
      BY <1>4, <2>1, SaveKeepsTable DEF TriggerSave
    <2>3. worker' \in [Workers -> WorkerState]
      BY <1>4, <2>1, GotoKeepsWorker, ReturnKeepsWorker DEF TriggerSave
    <2> QED
      BY <1>4, <2>2, <2>3 DEF TriggerSave
  <1>5. CASE UnassignCourier(w)
    <2>1. worker' \in [Workers -> WorkerState]
      BY <1>5, GotoKeepsWorker DEF UnassignCourier
    <2>2. commands' \in [Command -> Nat]
      BY <1>5, PublishKeepsTopics DEF UnassignCourier
    <2> QED
      BY <1>5, <2>1, <2>2 DEF UnassignCourier
  <1>6. CASE ReleaseInventory(w)
    <2>1. worker' \in [Workers -> WorkerState]
      BY <1>6, GotoKeepsWorker DEF ReleaseInventory
    <2>2. commands' \in [Command -> Nat]
      BY <1>6, PublishKeepsTopics DEF ReleaseInventory
    <2> QED
      BY <1>6, <2>1, <2>2 DEF ReleaseInventory
  <1>7. CASE CancelShipment(w)
    <2>1. worker' \in [Workers -> WorkerState]
      BY <1>7, GotoKeepsWorker DEF CancelShipment
    <2>2. commands' \in [Command -> Nat]
      BY <1>7, PublishKeepsTopics DEF CancelShipment
    <2> QED
      BY <1>7, <2>1, <2>2 DEF CancelShipment
  <1>8. CASE FailRead(w)
    <2> DEFINE found == row[worker[w].saga]
    <2>1. CASE found = NoRow
      BY <1>8, <2>1, ReturnKeepsWorker DEF FailRead
    <2>2. CASE found # NoRow
      <3>1. worker[w].saga \in Sagas /\ worker[w].type \in FailureTypes /\ found \in SagaRow
        BY <1>8, <2>2, WorkerCases DEF FailRead
      <3>2. MarkFailed(found, worker[w].type) \in SagaRow
        BY <3>1, MarksKeepRow
      <3>3. [worker[w] EXCEPT !.pc = "failSave",
                              !.entity = MarkFailed(found, worker[w].type)] \in WorkerState
        BY <1>8, <3>2, WorkerHolding DEF FailRead
      <3> QED
        BY <1>8, <2>2, <3>3 DEF FailRead
    <2> QED
      BY <2>1, <2>2
  <1>9. CASE FailSave(w)
    <2>1. worker[w].saga \in Sagas /\ worker[w].entity \in SagaRow
      BY <1>9, WorkerCases DEF FailSave
    <2>2. row' \in [Sagas -> SagaRow \cup {NoRow}]
      BY <1>9, <2>1, SaveKeepsTable DEF FailSave
    <2> QED
      BY <1>9, <2>2, ReturnKeepsWorker DEF FailSave
  <1>10. CASE HandlerRaises(w)
    BY <1>10, ReturnKeepsWorker DEF HandlerRaises
  <1>11. CASE Crash(w)
    BY <1>11, ReturnKeepsWorker DEF Crash
  <1> QED
    BY <1>1, <1>2, <1>3, <1>4, <1>5, <1>6, <1>7, <1>8, <1>9, <1>10, <1>11 DEF WorkerStep

LEMMA RequestStepKeepsType ==
    ASSUME TypeOK, NEW r \in Requests,
           BeginRequest(r) \/ RequestStep(r) \/ RequestAborts(r)
    PROVE  TypeOK'
  <1> USE DEF TypeOK
  <1>0. DoneRequest \in RequestState
    BY DEF RequestState
  <1>1. ASSUME NEW s \in Sagas, NEW context \in Context, BeginCreate(r, s, context)
        PROVE  TypeOK'
    BY <1>1, ContextKeepsRow DEF BeginCreate, RequestState, Kinds
  <1>2. ASSUME NEW s \in Sagas, NEW context \in Context, BeginPatch(r, s, context)
        PROVE  TypeOK'
    BY <1>2 DEF BeginPatch, RequestState
  <1>3. ASSUME NEW s \in Sagas, BeginComplete(r, s)
        PROVE  TypeOK'
    <2>1. NoContext \in Context
      BY DEF NoContext, Context
    <2> QED
      BY <1>3, <2>1 DEF BeginComplete, RequestState
  <1>4. CASE PatchRead(r)
    <2> DEFINE found == row[request[r].saga]
    <2>1. CASE found = NoRow
      BY <1>4, <2>1, <1>0 DEF PatchRead
    <2>2. CASE found # NoRow
      <3>1. request[r].saga \in Sagas /\ request[r].context \in Context /\ found \in SagaRow
            /\ request[r].kind = "patch" /\ request[r].entity = NoRow
        BY <1>4, <2>2 DEF PatchRead, RequestState, NewRequest, DoneRequest
      <3> DEFINE merged == OverRow(request[r].context, found)
      <3>2. merged \in Context
        BY <3>1 DEF OverRow, Given, Context, SagaRow
      <3> HIDE DEF merged
      <3>3. [request[r] EXCEPT !.pc = "reread", !.context = merged] \in RequestState
        <4> DEFINE Reading == [pc : {"read"}, kind : {"patch"}, saga : Sagas,
                               context : Context, entity : {NoRow}]
                   Rereading == [pc : {"reread"}, kind : {"patch", "complete"}, saga : Sagas,
                                 context : Context, entity : {NoRow}]
        <4>1. request[r] \in Reading
          BY <1>4 DEF PatchRead, RequestState, NewRequest, DoneRequest
        <4>2. [request[r] EXCEPT !.pc = "reread", !.context = merged] \in Rereading
          BY <3>2, <4>1
        <4>3. Rereading \subseteq RequestState
          BY DEF RequestState
        <4> QED
          BY <4>2, <4>3
      <3>4. request' = [request EXCEPT ![r] = [request[r] EXCEPT !.pc = "reread",
                                                                !.context = merged]]
        BY <1>4, <2>2 DEF PatchRead, merged
      <3> QED
        BY <1>4, <3>3, <3>4 DEF PatchRead
    <2> QED
      BY <2>1, <2>2
  <1>5. CASE UpdateContextRead(r)
    <2> DEFINE found == row[request[r].saga]
    <2>1. CASE found = NoRow \/ request[r].context = NoContext
      BY <1>5, <2>1, <1>0 DEF UpdateContextRead
    <2>2. CASE ~(found = NoRow \/ request[r].context = NoContext)
      <3>1. request[r].saga \in Sagas /\ request[r].context \in Context /\ found \in SagaRow
            /\ request[r].kind \in Kinds
        BY <1>5, <2>2, RequestCases DEF UpdateContextRead, InFlight
      <3>2. MergeContext(found, request[r].context) \in SagaRow
        BY <3>1, ContextKeepsRow
      <3>3. [request[r] EXCEPT !.pc = "save",
                               !.entity = MergeContext(found, request[r].context)] \in RequestState
        BY <1>5, <3>2, RequestHolding DEF UpdateContextRead, InFlight
      <3> QED
        BY <1>5, <2>2, <3>3 DEF UpdateContextRead
    <2> QED
      BY <2>1, <2>2
  <1>6. CASE CompleteRead(r)
    <2> DEFINE found == row[request[r].saga]
    <2>1. CASE found = NoRow \/ found.status # "started"
      BY <1>6, <2>1, <1>0 DEF CompleteRead
    <2>2. CASE ~(found = NoRow \/ found.status # "started")
      <3>1. request[r].saga \in Sagas /\ request[r].context \in Context /\ found \in SagaRow
            /\ request[r].kind \in Kinds
        BY <1>6, <2>2, RequestCases DEF CompleteRead, InFlight
      <3>2. MarkCompleted(found) \in SagaRow
        BY <3>1, MarksKeepRow DEF FailureTypes
      <3>3. [request[r] EXCEPT !.pc = "save", !.entity = MarkCompleted(found)] \in RequestState
        BY <1>6, <3>2, RequestHolding DEF CompleteRead, InFlight
      <3> QED
        BY <1>6, <2>2, <3>3 DEF CompleteRead
    <2> QED
      BY <2>1, <2>2
  <1>7. CASE RequestSave(r)
    <2>1. request[r].saga \in Sagas /\ request[r].entity \in SagaRow
      BY <1>7, RequestCases DEF RequestSave, InFlight
    <2>2. row' \in [Sagas -> SagaRow \cup {NoRow}]
      BY <1>7, <2>1, SaveKeepsTable DEF RequestSave
    <2> QED
      BY <1>7, <2>2, <1>0 DEF RequestSave
  <1>8. CASE RequestAborts(r)
    BY <1>8, <1>0 DEF RequestAborts
  <1> QED
    BY <1>1, <1>2, <1>3, <1>4, <1>5, <1>6, <1>7, <1>8 DEF BeginRequest, RequestStep

LEMMA EventStepKeepsType ==
    ASSUME TypeOK, NEW e \in Events,
           PublishFailure(e) \/ AutoCommit(e) \/ Redeliver(e)
    PROVE  TypeOK'
  BY DEF TypeOK, PublishFailure, AutoCommit, Redeliver

LEMMA NextKeepsType == TypeOK /\ [Next]_vars => TypeOK'
  <1> SUFFICES ASSUME TypeOK, [Next]_vars PROVE TypeOK'
    OBVIOUS
  <1>1. CASE UNCHANGED vars
    BY <1>1 DEF vars, TypeOK
  <1>2. CASE Next
    BY <1>2, WorkerStepKeepsType, RequestStepKeepsType, EventStepKeepsType DEF Next
  <1> QED
    BY <1>1, <1>2

(* Whatever the surroundings do, no handler of the coordinator and no worker
   leaves a variable outside its type: the local rows they save are whole. *)
THEOREM TypeCorrect == Spec => []TypeOK
  BY InitTypeOK, NextKeepsType, PTL DEF Spec

-----------------------------------------------------------------------------
(***************************************************************************)
(* What a client has registered.  Every handler and every method of the    *)
(* worker writes back a copy of the whole row; each copy is made of the    *)
(* row as it was read, so one made of a row that names a warehouse names   *)
(* one too.                                                                *)
(***************************************************************************)
Fields == {"warehouse", "delivery"}

Names(entity, field) == entity # NoRow /\ entity[field] # None

LEMMA CopiesKeepNames ==
    ASSUME NEW saga \in SagaRow, NEW context \in Context, NEW step \in FailureTypes,
           NEW field \in Fields, saga[field] # None
    PROVE  /\ Names(MergeContext(saga, context), field)
           /\ Names(MarkCompleted(saga), field)
           /\ Names(MarkFailed(saga, step), field)
           /\ Names(MarkCompensating(saga, step), field)
  <1>1. /\ MergeContext(saga, context) # NoRow
        /\ MarkCompleted(saga) # NoRow
        /\ MarkFailed(saga, step) # NoRow
        /\ MarkCompensating(saga, step) # NoRow
    BY MarksKeepRow, ContextKeepsRow, SagaConstants
  <1>2. CASE field = "warehouse"
    BY <1>1, <1>2
    DEF Names, SagaRow, MergeContext, Given, MarkCompleted, MarkFailed, MarkCompensating
  <1>3. CASE field = "delivery"
    BY <1>1, <1>3
    DEF Names, SagaRow, MergeContext, Given, MarkCompleted, MarkFailed, MarkCompensating
  <1> QED
    BY <1>2, <1>3 DEF Fields

(* Enough for a step: what it writes, and what it leaves with a handler or a
   worker about to write, names one. *)
LEMMA RegisteredMoves ==
    ASSUME NEW s \in Sagas, NEW field \in Fields, Registered(s, field),
           row'[s] = row[s] \/ Names(row'[s], field),
           \A r \in Requests :
              \/ request'[r] = request[r]
              \/ request'[r].pc = "save" /\ request'[r].saga = s => Names(request'[r].entity, field),
           \A w \in Workers :
              \/ worker'[w] = worker[w]
              \/ worker'[w].pc \in {"triggerSave", "failSave"} /\ worker'[w].saga = s
                    => Names(worker'[w].entity, field)
    PROVE  Registered(s, field)'
  BY DEF Registered, Names

LEMMA RequestKeepsRegistered ==
    ASSUME TypeOK, NEW s \in Sagas, NEW field \in Fields, Registered(s, field),
           NEW r \in Requests, BeginRequest(r) \/ RequestStep(r) \/ RequestAborts(r),
           ~ \E context \in Context : BeginCreate(r, s, context)
    PROVE  Registered(s, field)'
  <1> DEFINE t == request[r].saga
             found == row[t]
  <1>0. /\ request \in [Requests -> RequestState] /\ row \in [Sagas -> SagaRow \cup {NoRow}]
        /\ DoneRequest.pc # "save"
    BY DEF TypeOK, DoneRequest
  <1>1. ASSUME NEW u \in Sagas, NEW context \in Context, BeginCreate(r, u, context)
        PROVE  Registered(s, field)'
    <2>1. u # s
      BY <1>1
    <2>2. UNCHANGED <<row, worker>> /\ request'[r].saga = u
          /\ \A q \in Requests \ {r} : request'[q] = request[q]
      BY <1>0, <1>1 DEF BeginCreate
    <2> QED
      BY <2>1, <2>2, RegisteredMoves
  <1>2. CASE \/ \E u \in Sagas, context \in Context : BeginPatch(r, u, context)
             \/ \E u \in Sagas : BeginComplete(r, u)
             \/ PatchRead(r) \/ RequestAborts(r)
    <2>1. UNCHANGED <<row, worker>> /\ request'[r].pc # "save"
          /\ \A q \in Requests \ {r} : request'[q] = request[q]
      <3>1. CASE \/ \E u \in Sagas, context \in Context : BeginPatch(r, u, context)
                 \/ \E u \in Sagas : BeginComplete(r, u)
        BY <1>0, <3>1 DEF BeginPatch, BeginComplete
      <3>2. CASE PatchRead(r)
        <4>1. request[r] \in [pc : {"read"}, kind : {"patch"}, saga : Sagas,
                              context : Context, entity : {NoRow}]
          BY <1>0, <3>2 DEF PatchRead, RequestState, NewRequest, DoneRequest
        <4> QED
          BY <1>0, <3>2, <4>1 DEF PatchRead
      <3>3. CASE RequestAborts(r)
        BY <1>0, <3>3 DEF RequestAborts
      <3> QED
        BY <1>2, <3>1, <3>2, <3>3
    <2> QED
      BY <2>1, RegisteredMoves
  <1>3. CASE UpdateContextRead(r) \/ CompleteRead(r)
    <2>1. UNCHANGED <<row, worker>> /\ \A q \in Requests \ {r} : request'[q] = request[q]
      BY <1>0, <1>3 DEF UpdateContextRead, CompleteRead
    <2>2. InFlight(r)
      BY <1>3 DEF UpdateContextRead, CompleteRead, InFlight
    <2>3. t \in Sagas /\ request[r].context \in Context
      BY <1>0, <2>2, RequestCases
    <2>4. \/ request'[r].pc # "save"
          \/ /\ found # NoRow /\ request'[r].saga = t
             /\ \/ request'[r].entity = MergeContext(found, request[r].context)
                \/ request'[r].entity = MarkCompleted(found)
      <3>1. request[r] \in [pc : {"reread"}, kind : {"patch", "complete"}, saga : Sagas,
                            context : Context, entity : {NoRow}]
        BY <1>0, <1>3 DEF UpdateContextRead, CompleteRead, RequestState, NewRequest, DoneRequest
      <3> QED
        BY <1>0, <1>3, <3>1 DEF UpdateContextRead, CompleteRead
    <2>5. request'[r].pc = "save" /\ request'[r].saga = s => Names(request'[r].entity, field)
      <3> SUFFICES ASSUME request'[r].pc = "save", request'[r].saga = s
                   PROVE  Names(request'[r].entity, field)
        OBVIOUS
      <3>1. t = s /\ found \in SagaRow /\ found[field] # None
        BY <1>0, <2>3, <2>4 DEF Registered
      <3>2. "delivery.failed" \in FailureTypes
        BY DEF FailureTypes
      <3> QED
        BY <2>3, <2>4, <3>1, <3>2, CopiesKeepNames
    <2> QED
      BY <2>1, <2>5, RegisteredMoves
  <1>4. CASE RequestSave(r)
    <2>1. UNCHANGED worker /\ request'[r].pc # "save"
          /\ \A q \in Requests \ {r} : request'[q] = request[q]
      BY <1>0, <1>4 DEF RequestSave
    <2>2. t \in Sagas /\ request[r].entity \in SagaRow
      BY <1>0, <1>4, RequestCases DEF RequestSave, InFlight
    <2>3. row'[s] = row[s] \/ (t = s /\ row'[s] = request[r].entity)
      BY <1>0, <1>4, <2>2 DEF RequestSave, Save
    <2>4. t = s => Names(request[r].entity, field)
      BY <1>4, <2>2, SagaConstants DEF Registered, RequestSave, Names
    <2> QED
      BY <2>1, <2>3, <2>4, RegisteredMoves
  <1> QED
    BY <1>1, <1>2, <1>3, <1>4 DEF BeginRequest, RequestStep

LEMMA WorkerKeepsRegistered ==
    ASSUME TypeOK, NEW s \in Sagas, NEW field \in Fields, Registered(s, field),
           NEW w \in Workers, WorkerStep(w) \/ HandlerRaises(w) \/ Crash(w)
    PROVE  Registered(s, field)'
  <1> DEFINE t == worker[w].saga
             found == row[t]
  <1>0. /\ worker \in [Workers -> WorkerState] /\ row \in [Sagas -> SagaRow \cup {NoRow}]
        /\ IdleWorker.pc \notin {"triggerSave", "failSave"}
    BY DEF TypeOK, IdleWorker
  <1>1. CASE \/ \E e \in Events : Fetch(w, e)
             \/ HandleRead(w) \/ UnassignCourier(w) \/ ReleaseInventory(w) \/ CancelShipment(w)
             \/ HandlerRaises(w) \/ Crash(w)
    <2>1. UNCHANGED <<row, request>> /\ \A v \in Workers \ {w} : worker'[v] = worker[v]
      BY <1>0, <1>1 DEF Fetch, HandleRead, UnassignCourier, ReleaseInventory, CancelShipment,
                        HandlerRaises, Crash, Goto, Return
    <2>2. worker'[w].pc \notin {"triggerSave", "failSave"}
      <3>1. ASSUME NEW e \in Events, Fetch(w, e) PROVE worker'[w].pc \in {"idle", "read"}
        BY <1>0, <3>1 DEF Fetch, IdleWorker
      <3>2. ASSUME Return(w) PROVE worker'[w].pc = "idle"
        BY <1>0, <3>2 DEF Return, IdleWorker
      <3>3. ASSUME NEW pc, Goto(w, pc) PROVE worker'[w].pc = pc
        <4>1. worker[w] = [pc |-> worker[w].pc, saga |-> t,
                           type |-> worker[w].type, entity |-> worker[w].entity]
          BY <1>0 DEF WorkerState, IdleWorker
        <4> QED
          BY <1>0, <3>3, <4>1 DEF Goto
      <3> QED
        BY <1>1, <3>1, <3>2, <3>3
        DEF HandleRead, UnassignCourier, ReleaseInventory, CancelShipment, HandlerRaises, Crash
    <2> QED
      BY <2>1, <2>2, RegisteredMoves
  <1>2. CASE TriggerRead(w) \/ FailRead(w)
    <2>1. UNCHANGED <<row, request>> /\ \A v \in Workers \ {w} : worker'[v] = worker[v]
      BY <1>0, <1>2 DEF TriggerRead, FailRead, Return
    <2>2. /\ t \in Sagas /\ worker[w].type \in FailureTypes
          /\ worker[w] = [pc |-> worker[w].pc, saga |-> t,
                          type |-> worker[w].type, entity |-> worker[w].entity]
      BY <1>0, <1>2, WorkerCases DEF TriggerRead, FailRead
    <2>3. \/ worker'[w].pc = "idle"
          \/ /\ found # NoRow /\ worker'[w].saga = t
             /\ \/ worker'[w].entity = MarkCompensating(found, worker[w].type)
                \/ worker'[w].entity = MarkFailed(found, worker[w].type)
      BY <1>0, <1>2, <2>2 DEF TriggerRead, FailRead, Return, IdleWorker
    <2>4. worker'[w].pc \in {"triggerSave", "failSave"} /\ worker'[w].saga = s
            => Names(worker'[w].entity, field)
      <3> SUFFICES ASSUME worker'[w].pc # "idle", worker'[w].saga = s
                   PROVE  Names(worker'[w].entity, field)
        OBVIOUS
      <3>1. t = s /\ found \in SagaRow /\ found[field] # None
        BY <1>0, <2>2, <2>3 DEF Registered
      <3>2. NoContext \in Context
        BY DEF NoContext, Context
      <3> QED
        BY <2>2, <2>3, <3>1, <3>2, CopiesKeepNames
    <2> QED
      BY <2>1, <2>4, RegisteredMoves
  <1>3. CASE TriggerSave(w) \/ FailSave(w)
    <2>1. UNCHANGED request /\ \A v \in Workers \ {w} : worker'[v] = worker[v]
      BY <1>0, <1>3 DEF TriggerSave, FailSave, Goto, Return
    <2>2. /\ t \in Sagas /\ worker[w].entity \in SagaRow /\ worker[w].type \in FailureTypes
          /\ worker[w] = [pc |-> worker[w].pc, saga |-> t,
                          type |-> worker[w].type, entity |-> worker[w].entity]
      BY <1>0, <1>3, WorkerCases DEF TriggerSave, FailSave
    <2>3. worker'[w].pc \notin {"triggerSave", "failSave"}
      BY <1>0, <1>3, <2>2, FirstCallIsACall DEF TriggerSave, FailSave, Goto, Return, IdleWorker
    <2>4. row'[s] = row[s] \/ (t = s /\ row'[s] = worker[w].entity)
      BY <1>0, <1>3, <2>2 DEF TriggerSave, FailSave, Save
    <2>5. t = s => Names(worker[w].entity, field)
      BY <1>3, <2>2, SagaConstants DEF Registered, TriggerSave, FailSave, Names
    <2> QED
      BY <2>1, <2>3, <2>4, <2>5, RegisteredMoves
  <1> QED
    BY <1>1, <1>2, <1>3 DEF WorkerStep

(* A registered warehouse or delivery stays on the row for any overlap of
   updates, retries, failures and instances: the only copies that can take it
   off are those that were about to be saved when it was registered and the
   fresh entity of another POST.  fail_saga keeps what is registered while the
   strategy works on an older row, because it reads the row again. *)
THEOREM RegisteredContextStays == Spec => ContextSurvives
  <1>1. ASSUME TypeOK, [Next]_vars, NEW s \in Sagas, NEW field \in Fields, Registered(s, field)
        PROVE  \/ Registered(s, field)'
               \/ \E r \in Requests, context \in Context : BeginCreate(r, s, context)
    <2>1. CASE \/ UNCHANGED vars
               \/ \E e \in Events : PublishFailure(e) \/ AutoCommit(e) \/ Redeliver(e)
      <3>1. UNCHANGED <<row, worker, request>>
        BY <2>1 DEF vars, PublishFailure, AutoCommit, Redeliver
      <3> QED
        BY <1>1, <3>1 DEF Registered
    <2>2. ASSUME NEW w \in Workers, WorkerStep(w) \/ HandlerRaises(w) \/ Crash(w)
          PROVE  Registered(s, field)'
      BY <1>1, <2>2, WorkerKeepsRegistered
    <2>3. ASSUME NEW r \in Requests, BeginRequest(r) \/ RequestStep(r) \/ RequestAborts(r),
                 ~ \E context \in Context : BeginCreate(r, s, context)
          PROVE  Registered(s, field)'
      BY <1>1, <2>3, RequestKeepsRegistered
    <2> QED
      BY <1>1, <2>1, <2>2, <2>3 DEF Next
  <1>2. TypeOK /\ [Next]_vars =>
          [\A s \in Sagas, field \in {"warehouse", "delivery"} :
              Registered(s, field) =>
                  \/ Registered(s, field)'
                  \/ \E r \in Requests, context \in Context : BeginCreate(r, s, context)]_vars
    BY <1>1 DEF Fields
  <1> QED
    BY <1>2, TypeCorrect, PTL DEF Spec, ContextSurvives

-----------------------------------------------------------------------------
(***************************************************************************)
(* A status of failed is copied about: a PATCH may read it and write it    *)
(* back later.  The invariant follows every copy: the row, the entity a    *)
(* handler is about to save, and the worker between its last command and   *)
(* fail_saga.                                                              *)
(***************************************************************************)
CancelOf(s) == [kind |-> "cancel", saga |-> s, target |-> None]

HandlersCopyCancelled ==
    \A r \in Requests :
        request[r].pc = "save" /\ request[r].entity.status = "failed"
          => Published(CancelOf(request[r].saga))

WorkersCancelFirst ==
    \A w \in Workers :
        /\ worker[w].pc = "triggerSave" => worker[w].entity.status = "compensating"
        /\ worker[w].pc \in {"failRead", "failSave"} => Published(CancelOf(worker[w].saga))

CancelledBeforeFailed ==
    FailedMeansCancelled /\ HandlersCopyCancelled /\ WorkersCancelFirst

LEMMA CancelIsACommand ==
    ASSUME NEW s \in Sagas PROVE CancelOf(s) \in Command
  BY DEF CancelOf, Command

LEMMA InitCancelled == Init => CancelledBeforeFailed
  BY SagaConstants
  DEF Init, CancelledBeforeFailed, HandlersCopyCancelled, WorkersCancelFirst, FailedMeansCancelled, Status, NewRequest, IdleWorker

(* Topics only grow, so a published cancellation stays published. *)
LEMMA CommandsOnlyGrow ==
    ASSUME TypeOK, [Next]_vars
    PROVE  \A c \in Command : Published(c) => Published(c)'
  <1>1. CASE \E kind, s, target : Publish(kind, s, target)
    BY <1>1, PublishKeepsTopics DEF TypeOK, Published
  <1>2. CASE UNCHANGED commands
    BY <1>2 DEF Published
  <1> QED
    BY <1>1, <1>2
    DEF Next, vars, WorkerStep, RequestStep, BeginRequest, Fetch, HandleRead, TriggerRead,
        TriggerSave, UnassignCourier, ReleaseInventory, CancelShipment, FailRead, FailSave,
        HandlerRaises, Crash, BeginCreate, BeginPatch, BeginComplete, PatchRead,
        UpdateContextRead, CompleteRead, RequestSave, RequestAborts, PublishFailure,
        AutoCommit, Redeliver

LEMMA CancellationStays ==
    ASSUME TypeOK, [Next]_vars, NEW s \in Sagas, Published(CancelOf(s))
    PROVE  Published(CancelOf(s))'
  BY CommandsOnlyGrow, CancelIsACommand DEF Published, CancelOf

LEMMA SaveCancelled ==
    ASSUME TypeOK, [Next]_vars, FailedMeansCancelled,
           NEW s \in Sagas, NEW entity \in SagaRow, Save(s, entity),
           entity.status = "failed" => Published(CancelOf(s))
    PROVE  FailedMeansCancelled'
  <1> SUFFICES ASSUME NEW t \in Sagas, Status(t)' = "failed"
               PROVE  Published(CancelOf(t))'
    BY DEF FailedMeansCancelled, CancelOf
  <1>1. CASE row'[t] = row[t]
    <2>1. Published(CancelOf(t))
      BY <1>1 DEF FailedMeansCancelled, Status, CancelOf
    <2> QED
      BY <2>1, CancellationStays
  <1>2. CASE row'[t] # row[t]
    <2>1. t = s /\ row'[t] = entity
      BY <1>2 DEF Save, TypeOK
    <2>2. Published(CancelOf(s))
      BY <2>1, SagaConstants DEF Status
    <2> QED
      BY <2>1, <2>2, CancellationStays
  <1> QED
    BY <1>1, <1>2

(* A step that leaves the table alone keeps the invariant of the table. *)
LEMMA SameTableCancelled ==
    ASSUME TypeOK, [Next]_vars, FailedMeansCancelled, UNCHANGED row
    PROVE  FailedMeansCancelled'
  BY CancellationStays DEF FailedMeansCancelled, Status, CancelOf

LEMMA SameHandlersCancelled ==
    ASSUME TypeOK, [Next]_vars, HandlersCopyCancelled, UNCHANGED request
    PROVE  HandlersCopyCancelled'
  <1> SUFFICES ASSUME NEW r \in Requests, request[r].pc = "save",
                      request[r].entity.status = "failed"
               PROVE  Published(CancelOf(request[r].saga))'
    BY DEF HandlersCopyCancelled, Published, CancelOf
  <1>1. request[r].saga \in Sagas
    BY RequestCases DEF TypeOK, InFlight
  <1>2. Published(CancelOf(request[r].saga))
    BY DEF HandlersCopyCancelled
  <1>3. Published(CancelOf(request[r].saga))' = (commands'[CancelOf(request[r].saga)] > 0)
    BY DEF Published, CancelOf
  <1> QED
    BY <1>1, <1>2, <1>3, CommandsOnlyGrow, CancelIsACommand DEF Published

(* Only the worker that takes the step has to be looked at. *)
LEMMA OtherWorkersCancelFirst ==
    ASSUME TypeOK, [Next]_vars, WorkersCancelFirst, NEW w \in Workers,
           \A v \in Workers \ {w} : worker'[v] = worker[v],
           /\ worker'[w].pc = "triggerSave" => worker'[w].entity.status = "compensating"
           /\ worker'[w].pc \in {"failRead", "failSave"}
                => commands'[CancelOf(worker'[w].saga)] > 0
    PROVE  WorkersCancelFirst'
  <1> SUFFICES ASSUME NEW v \in Workers \ {w}
               PROVE  /\ worker'[v].pc = "triggerSave" => worker'[v].entity.status = "compensating"
                      /\ worker'[v].pc \in {"failRead", "failSave"}
                           => commands'[CancelOf(worker'[v].saga)] > 0
    BY DEF WorkersCancelFirst, Published, CancelOf
  <1>1. worker[v].pc \in {"failRead", "failSave"} => worker[v].saga \in Sagas
    BY WorkerCases DEF TypeOK
  <1> QED
    BY <1>1, CommandsOnlyGrow, CancelIsACommand DEF WorkersCancelFirst, Published

LEMMA SameWorkersCancelFirst ==
    ASSUME TypeOK, [Next]_vars, WorkersCancelFirst, UNCHANGED worker
    PROVE  WorkersCancelFirst'
  <1> SUFFICES ASSUME NEW v \in Workers
               PROVE  /\ worker'[v].pc = "triggerSave" => worker'[v].entity.status = "compensating"
                      /\ worker'[v].pc \in {"failRead", "failSave"}
                           => commands'[CancelOf(worker'[v].saga)] > 0
    BY DEF WorkersCancelFirst, Published, CancelOf
  <1>1. worker[v].pc \in {"failRead", "failSave"} => worker[v].saga \in Sagas
    BY WorkerCases DEF TypeOK
  <1> QED
    BY <1>1, CommandsOnlyGrow, CancelIsACommand DEF WorkersCancelFirst, Published

LEMMA WorkerKeepsCancelled ==
    ASSUME TypeOK, [Next]_vars, CancelledBeforeFailed, NEW w \in Workers,
           WorkerStep(w) \/ HandlerRaises(w) \/ Crash(w)
    PROVE  CancelledBeforeFailed'
  <1> USE DEF CancelledBeforeFailed
  <1>1. ASSUME NEW e \in Events, Fetch(w, e) PROVE CancelledBeforeFailed'
    <2>1. WorkersCancelFirst'
      BY <1>1, OtherWorkersCancelFirst DEF Fetch, TypeOK, IdleWorker
    <2> QED
      BY <1>1, <2>1, SameTableCancelled, SameHandlersCancelled DEF Fetch
  <1>2. CASE HandleRead(w) \/ HandlerRaises(w) \/ Crash(w)
    <2>1. worker'[w].pc \in {"idle", "triggerRead"}
      BY <1>2 DEF HandleRead, HandlerRaises, Crash, Return, Goto, TypeOK, WorkerState, IdleWorker
    <2>2. \A v \in Workers \ {w} : worker'[v] = worker[v]
      BY <1>2 DEF HandleRead, HandlerRaises, Crash, Return, Goto, TypeOK
    <2>3. WorkersCancelFirst'
      BY <2>1, <2>2, OtherWorkersCancelFirst
    <2> QED
      BY <1>2, <2>3, SameTableCancelled, SameHandlersCancelled DEF HandleRead, HandlerRaises, Crash
  <1>3. CASE TriggerRead(w)
    <2> DEFINE found == row[worker[w].saga]
    <2>1. /\ worker'[w].pc \in {"idle", "triggerSave"}
          /\ worker'[w].pc = "triggerSave" => worker'[w].entity.status = "compensating"
      <3>1. CASE found = NoRow \/ found.status \in {"completed", "failed"}
        BY <1>3, <3>1 DEF TriggerRead, Return, TypeOK, IdleWorker
      <3>2. CASE ~(found = NoRow \/ found.status \in {"completed", "failed"})
        <4>1. found \in SagaRow
          BY <1>3, <3>2, WorkerCases DEF TriggerRead, TypeOK
        <4>2. MarkCompensating(found, worker[w].type).status = "compensating"
          BY <4>1 DEF MarkCompensating, SagaRow
        <4>3. worker'[w].pc = "triggerSave"
              /\ worker'[w].entity = MarkCompensating(found, worker[w].type)
          BY <1>3, <3>2 DEF TriggerRead, TypeOK, WorkerState, IdleWorker
        <4> QED
          BY <4>2, <4>3
      <3> QED
        BY <3>1, <3>2
    <2>2. \A v \in Workers \ {w} : worker'[v] = worker[v]
      BY <1>3 DEF TriggerRead, Return, TypeOK
    <2>3. WorkersCancelFirst'
      BY <2>1, <2>2, OtherWorkersCancelFirst
    <2> QED
      BY <1>3, <2>3, SameTableCancelled, SameHandlersCancelled DEF TriggerRead
  <1>4. CASE TriggerSave(w)
    <2>1. worker[w].saga \in Sagas /\ worker[w].entity \in SagaRow
          /\ FirstCall(worker[w].type) \in {"unassign", "release", "cancel"}
      BY <1>4, WorkerCases, FirstCallIsACall DEF TriggerSave, TypeOK
    <2>2. worker[w].entity.status = "compensating"
      BY <1>4 DEF TriggerSave, WorkersCancelFirst
    <2>3. FailedMeansCancelled'
      BY <1>4, <2>1, <2>2, SaveCancelled DEF TriggerSave
    <2>4. worker'[w].pc \in {"idle", "unassign", "release", "cancel"}
      BY <1>4, <2>1 DEF TriggerSave, Return, Goto, TypeOK, IdleWorker, WorkerState
    <2>5. \A v \in Workers \ {w} : worker'[v] = worker[v]
      BY <1>4 DEF TriggerSave, Return, Goto, TypeOK
    <2>6. WorkersCancelFirst'
      BY <2>4, <2>5, OtherWorkersCancelFirst
    <2> QED
      BY <1>4, <2>3, <2>6, SameHandlersCancelled DEF TriggerSave
  <1>5. CASE UnassignCourier(w) \/ ReleaseInventory(w)
    <2>1. worker'[w].pc \in {"release", "cancel"}
      BY <1>5 DEF UnassignCourier, ReleaseInventory, Goto, TypeOK, WorkerState, IdleWorker
    <2>2. \A v \in Workers \ {w} : worker'[v] = worker[v]
      BY <1>5 DEF UnassignCourier, ReleaseInventory, Goto, TypeOK
    <2>3. WorkersCancelFirst'
      BY <2>1, <2>2, OtherWorkersCancelFirst
    <2> QED
      BY <1>5, <2>3, SameTableCancelled, SameHandlersCancelled DEF UnassignCourier, ReleaseInventory
  <1>6. CASE CancelShipment(w)
    <2>1. worker[w].saga \in Sagas
      BY <1>6, WorkerCases DEF CancelShipment, TypeOK
    <2>2. commands'[CancelOf(worker[w].saga)] > 0
      BY <1>6, <2>1, PublishKeepsTopics, CancelIsACommand DEF CancelShipment, CancelOf, TypeOK
    <2>3. worker'[w].pc = "failRead" /\ worker'[w].saga = worker[w].saga
      BY <1>6 DEF CancelShipment, Goto, TypeOK, WorkerState, IdleWorker
    <2>4. \A v \in Workers \ {w} : worker'[v] = worker[v]
      BY <1>6 DEF CancelShipment, Goto, TypeOK
    <2>5. WorkersCancelFirst'
      BY <2>2, <2>3, <2>4, OtherWorkersCancelFirst
    <2> QED
      BY <1>6, <2>5, SameTableCancelled, SameHandlersCancelled DEF CancelShipment
  <1>7. CASE FailRead(w)
    <2>1. worker[w].saga \in Sagas /\ commands[CancelOf(worker[w].saga)] > 0
      BY <1>7, WorkerCases DEF FailRead, TypeOK, WorkersCancelFirst, Published
    <2>2. worker'[w].pc = "idle" \/ (worker'[w].pc = "failSave" /\ worker'[w].saga = worker[w].saga)
      <3>1. CASE row[worker[w].saga] = NoRow
        BY <1>7, <3>1 DEF FailRead, Return, TypeOK, IdleWorker
      <3>2. CASE row[worker[w].saga] # NoRow
        <4> DEFINE entity == MarkFailed(row[worker[w].saga], worker[w].type)
        <4> HIDE DEF entity
        <4>1. worker' = [worker EXCEPT ![w].pc = "failSave", ![w].entity = entity]
          BY <1>7, <3>2 DEF FailRead, entity
        <4> QED
          BY <4>1 DEF TypeOK, WorkerState, IdleWorker
      <3> QED
        BY <3>1, <3>2
    <2>3. \A v \in Workers \ {w} : worker'[v] = worker[v]
      BY <1>7 DEF FailRead, Return, TypeOK
    <2>4. WorkersCancelFirst'
      BY <1>7, <2>1, <2>2, <2>3, OtherWorkersCancelFirst DEF FailRead
    <2> QED
      BY <1>7, <2>4, SameTableCancelled, SameHandlersCancelled DEF FailRead
  <1>8. CASE FailSave(w)
    <2>1. worker[w].saga \in Sagas /\ worker[w].entity \in SagaRow
      BY <1>8, WorkerCases DEF FailSave, TypeOK
    <2>2. Published(CancelOf(worker[w].saga))
      BY <1>8 DEF FailSave, WorkersCancelFirst
    <2>3. FailedMeansCancelled'
      BY <1>8, <2>1, <2>2, SaveCancelled DEF FailSave
    <2>4. WorkersCancelFirst'
      BY <1>8, OtherWorkersCancelFirst DEF FailSave, Return, TypeOK, IdleWorker
    <2> QED
      BY <1>8, <2>3, <2>4, SameHandlersCancelled DEF FailSave
  <1> QED
    BY <1>1, <1>2, <1>3, <1>4, <1>5, <1>6, <1>7, <1>8 DEF WorkerStep

(* A handler saves a status of failed only if it read one. *)
LEMMA RequestKeepsCancelled ==
    ASSUME TypeOK, [Next]_vars, CancelledBeforeFailed, NEW r \in Requests,
           BeginRequest(r) \/ RequestStep(r) \/ RequestAborts(r)
    PROVE  CancelledBeforeFailed'
  <1> USE DEF CancelledBeforeFailed
  <1>1. FailedMeansCancelled'
    <2>1. CASE RequestSave(r)
      <3>1. request[r].saga \in Sagas /\ request[r].entity \in SagaRow
        BY <2>1, RequestCases DEF RequestSave, InFlight, TypeOK
      <3>2. request[r].entity.status = "failed" => Published(CancelOf(request[r].saga))
        BY <2>1 DEF RequestSave, HandlersCopyCancelled
      <3> QED
        BY <2>1, <3>1, <3>2, SaveCancelled DEF RequestSave
    <2>2. CASE UNCHANGED row
      BY <2>2, SameTableCancelled
    <2> QED
      BY <2>1, <2>2
      DEF BeginRequest, RequestStep, BeginCreate, BeginPatch, BeginComplete, PatchRead,
          UpdateContextRead, CompleteRead, RequestAborts
  <1>2. UNCHANGED worker
    BY DEF BeginRequest, RequestStep, BeginCreate, BeginPatch, BeginComplete, PatchRead,
           UpdateContextRead, CompleteRead, RequestSave, RequestAborts
  <1>3. WorkersCancelFirst'
    BY <1>2, SameWorkersCancelFirst
  <1>4. ASSUME NEW q \in Requests \ {r}, request'[q].pc = "save",
               request'[q].entity.status = "failed"
        PROVE  commands'[CancelOf(request'[q].saga)] > 0
    <2>1. request'[q] = request[q]
      BY <1>4
      DEF BeginRequest, RequestStep, BeginCreate, BeginPatch, BeginComplete, PatchRead,
          UpdateContextRead, CompleteRead, RequestSave, RequestAborts, TypeOK
    <2>2. request[q].saga \in Sagas
      BY <1>4, <2>1, RequestCases DEF InFlight, TypeOK
    <2> QED
      BY <1>4, <2>1, <2>2, CommandsOnlyGrow, CancelIsACommand DEF HandlersCopyCancelled, Published
  <1>5. ASSUME request'[r].pc = "save", request'[r].entity.status = "failed"
        PROVE  commands'[CancelOf(request'[r].saga)] > 0
    <2>1. ASSUME NEW s \in Sagas, NEW context \in Context, BeginCreate(r, s, context)
          PROVE  FALSE
      BY <1>5, <2>1 DEF BeginCreate, NewEntity, TypeOK
    <2>2. CASE UpdateContextRead(r)
      <3> DEFINE found == row[request[r].saga]
                 entity == MergeContext(found, request[r].context)
      <3>1. found # NoRow /\ request[r].context # NoContext
        BY <1>5, <2>2 DEF UpdateContextRead, DoneRequest, NewRequest, TypeOK
      <3>2. request[r].saga \in Sagas /\ found \in SagaRow
        BY <2>2, <3>1, RequestCases DEF UpdateContextRead, InFlight, TypeOK
      <3>3. entity.status = found.status
        BY <3>2 DEF MergeContext, SagaRow
      <3>4. request'[r].entity = entity /\ request'[r].saga = request[r].saga
        <4> HIDE DEF entity
        <4>1. request' = [request EXCEPT ![r] = [request[r] EXCEPT !.pc = "save", !.entity = entity]]
          BY <2>2, <3>1 DEF UpdateContextRead, entity
        <4> QED
          BY <4>1, <2>2, RequestCases DEF TypeOK, RequestState, NewRequest, DoneRequest, UpdateContextRead, InFlight
      <3>5. Published(CancelOf(request[r].saga))
        BY <1>5, <3>1, <3>2, <3>3, <3>4 DEF FailedMeansCancelled, Status, CancelOf
      <3> QED
        BY <3>2, <3>4, <3>5, CommandsOnlyGrow, CancelIsACommand DEF Published
    <2>3. CASE CompleteRead(r)
      <3> DEFINE found == row[request[r].saga]
                 entity == MarkCompleted(found)
      <3>1. ~(found = NoRow \/ found.status # "started")
        BY <1>5, <2>3 DEF CompleteRead, DoneRequest, NewRequest, TypeOK
      <3>2. found \in SagaRow
        BY <2>3, <3>1, RequestCases DEF CompleteRead, InFlight, TypeOK
      <3>3. entity.status = "completed"
        BY <3>2 DEF MarkCompleted, SagaRow
      <3>4. request'[r].entity = entity
        <4> HIDE DEF entity
        <4>1. request' = [request EXCEPT ![r] = [request[r] EXCEPT !.pc = "save", !.entity = entity]]
          BY <2>3, <3>1 DEF CompleteRead, entity
        <4> QED
          BY <4>1, <2>3, RequestCases DEF TypeOK, RequestState, NewRequest, DoneRequest, CompleteRead, InFlight
      <3> QED
        BY <1>5, <3>3, <3>4
    <2>4. ASSUME NEW s \in Sagas, NEW context \in Context,
                 BeginPatch(r, s, context) \/ BeginComplete(r, s)
          PROVE  FALSE
      BY <1>5, <2>4 DEF BeginPatch, BeginComplete, TypeOK
    <2>5. CASE PatchRead(r)
      <3>1. request'[r].pc \in {"done", "reread"}
        BY <2>5 DEF PatchRead, TypeOK, RequestState, DoneRequest, NewRequest
      <3> QED
        BY <1>5, <3>1
    <2>6. CASE RequestSave(r) \/ RequestAborts(r)
      BY <1>5, <2>6 DEF RequestSave, RequestAborts, DoneRequest, NewRequest, TypeOK
    <2>7. ASSUME NEW s \in Sagas, BeginComplete(r, s) PROVE FALSE
      BY <1>5, <2>7 DEF BeginComplete, TypeOK
    <2> QED
      BY <2>1, <2>2, <2>3, <2>4, <2>5, <2>6, <2>7 DEF BeginRequest, RequestStep
  <1>6. HandlersCopyCancelled'
    BY <1>4, <1>5 DEF HandlersCopyCancelled, Published, CancelOf
  <1> QED
    BY <1>1, <1>3, <1>6

LEMMA EventKeepsCancelled ==
    ASSUME TypeOK, [Next]_vars, CancelledBeforeFailed,
           UNCHANGED <<row, worker, request, commands>>
    PROVE  CancelledBeforeFailed'
  BY SameTableCancelled, SameHandlersCancelled, SameWorkersCancelFirst DEF CancelledBeforeFailed

LEMMA NextKeepsCancelled ==
    TypeOK /\ CancelledBeforeFailed /\ [Next]_vars => CancelledBeforeFailed'
  <1> SUFFICES ASSUME TypeOK, CancelledBeforeFailed, [Next]_vars
               PROVE  CancelledBeforeFailed'
    OBVIOUS
  <1>1. CASE UNCHANGED vars
    BY <1>1, EventKeepsCancelled DEF vars
  <1>2. CASE \E e \in Events : PublishFailure(e) \/ AutoCommit(e) \/ Redeliver(e)
    BY <1>2, EventKeepsCancelled DEF PublishFailure, AutoCommit, Redeliver
  <1>3. CASE \E w \in Workers : WorkerStep(w) \/ HandlerRaises(w) \/ Crash(w)
    BY <1>3, WorkerKeepsCancelled
  <1>4. CASE \E r \in Requests : BeginRequest(r) \/ RequestStep(r) \/ RequestAborts(r)
    BY <1>4, RequestKeepsCancelled
  <1> QED
    BY <1>1, <1>2, <1>3, <1>4 DEF Next

(* However the surroundings behave and however many instances run, a saga
   is on record as failed only after its shipment's cancellation was sent. *)
THEOREM FailedSagasAreCancelled == Spec => []FailedMeansCancelled
  <1>1. Spec => []CancelledBeforeFailed
    BY InitCancelled, NextKeepsCancelled, TypeCorrect, PTL DEF Spec
  <1>2. CancelledBeforeFailed => FailedMeansCancelled
    BY DEF CancelledBeforeFailed
  <1> QED
    BY <1>1, <1>2, PTL

-----------------------------------------------------------------------------
(***************************************************************************)
(* What the failed status promises where no client updates a saga beside   *)
(* or after the report of its failure and none posts a saga twice.  Any    *)
(* number of instances may run, updates of one saga may overlap, calls may *)
(* raise, instances may stop and events may come again.                    *)
(***************************************************************************)
NoLateUpdates == Env \cap {"overlap", "repost"} = {}

Serves(r, s, kinds) == InFlight(r) /\ request[r].saga = s /\ request[r].kind \in kinds

Updates(r, s) == Serves(r, s, {"patch", "complete"})

Keeps(old, new) ==
    /\ old.warehouse # None => new.warehouse # None
    /\ old.delivery # None => new.delivery # None

CreatesAlone(r, s) ==
    Serves(r, s, {"create"}) =>
        /\ row[s] = NoRow
        /\ request[r].entity.status = "started"
        /\ \A q \in Requests : Serves(q, s, {"create"}) => q = r

UpdatesBeforeFailure(r, s) ==
    Updates(r, s) =>
        /\ \A e \in Events : e.saga = s => events[e] = "absent"
        /\ \A w \in Workers : worker[w].saga # s
        /\ row[s] # NoRow => row[s].status \in {"started", "completed"}

SavesEarlyCopy(r, s) ==
    Updates(r, s) /\ request[r].pc = "save" =>
        row[s] # NoRow /\ request[r].entity.status \in {"started", "completed"}

ClientOK(r, s) == CreatesAlone(r, s) /\ UpdatesBeforeFailure(r, s) /\ SavesEarlyCopy(r, s)

(* The calls of the strategy a worker is past. *)
Done(pc) ==
    {kind \in {"unassign", "release", "cancel"} :
        \/ kind = "unassign" /\ pc \in {"release", "cancel", "failRead", "failSave"}
        \/ kind = "release" /\ pc \in {"cancel", "failRead", "failSave"}
        \/ kind = "cancel" /\ pc \in {"failRead", "failSave"}}

HoldsRow(w) == worker[w].pc \notin {"idle", "read", "triggerRead"}

(* Another instance may write the status or the failure of the saga, never *)
(* its warehouse or delivery, so a worker's copy names what the row names. *)
HoldsCopy(w, s) ==
    worker[w].saga = s /\ HoldsRow(w) =>
        /\ row[s] # NoRow
        /\ worker[w].entity = IF worker[w].pc = "failSave"
                              THEN MarkFailed(row[s], worker[w].type)
                              ELSE MarkCompensating(row[s], worker[w].type)
        /\ \A c \in Owed(s, MarkFailed(row[s], worker[w].type)) :
              c.kind \in Done(worker[w].pc) => Published(c)

FailedOK(s) ==
    Status(s) = "failed" =>
        row[s].failedStep \in FailureTypes /\ \A c \in Owed(s, row[s]) : Published(c)

(* The inductive invariant behind FailedMeansCompensated. *)
CopyInv ==
    /\ TypeOK
    /\ \A s \in Sagas, r \in Requests : ClientOK(r, s)
    /\ \A s \in Sagas, w \in Workers : HoldsCopy(w, s)
    /\ \A s \in Sagas : FailedOK(s)

(* The commands a saga's failure calls for, one by one. *)
Calls(s, saga, c) ==
    /\ c.saga = s
    /\ \/ c.kind = "unassign" /\ saga.failedStep = "delivery.failed" /\ c.target = saga.delivery
       \/ /\ c.kind = "release" /\ saga.failedStep # "inventory.insufficient"
          /\ c.target = saga.warehouse
       \/ c.kind = "cancel"

LEMMA OwedCommands ==
    ASSUME NEW s \in Sagas, NEW saga \in SagaRow, saga.failedStep \in FailureTypes
    PROVE  /\ Owed(s, saga) \subseteq Command
           /\ \A c \in Command : c \in Owed(s, saga) <=> Calls(s, saga, c)
  <1> DEFINE step == saga.failedStep
  <1>1. saga.delivery \in Deliveries \cup {None} /\ saga.warehouse \in Warehouses \cup {None}
    BY DEF SagaRow
  <1>2. Strategy(step) \subseteq {"unassign", "release", "cancel"}
    BY DEF Strategy, FailureTypes
  <1>3. /\ "unassign" \in Strategy(step) <=> step = "delivery.failed"
        /\ "release" \in Strategy(step) <=> step # "inventory.insufficient"
        /\ "cancel" \in Strategy(step)
    BY DEF Strategy, FailureTypes
  <1>4. /\ CommandOf("unassign", s, saga) = [kind |-> "unassign", saga |-> s, target |-> saga.delivery]
        /\ CommandOf("release", s, saga) = [kind |-> "release", saga |-> s, target |-> saga.warehouse]
        /\ CommandOf("cancel", s, saga) = [kind |-> "cancel", saga |-> s, target |-> None]
    BY DEF CommandOf
  <1>5. \A c : c \in Owed(s, saga) <=>
           /\ \E kind \in Strategy(step) : c = CommandOf(kind, s, saga)
           /\ c.kind = "cancel" \/ c.target # None
    BY DEF Owed
  <1> HIDE DEF step
  <1>6. \A c : c \in Owed(s, saga) <=>
           \/ /\ step = "delivery.failed" /\ saga.delivery # None
              /\ c = [kind |-> "unassign", saga |-> s, target |-> saga.delivery]
           \/ /\ step # "inventory.insufficient" /\ saga.warehouse # None
              /\ c = [kind |-> "release", saga |-> s, target |-> saga.warehouse]
           \/ c = [kind |-> "cancel", saga |-> s, target |-> None]
    <2> TAKE c
    <2>1. ASSUME c \in Owed(s, saga)
          PROVE  \/ /\ step = "delivery.failed" /\ saga.delivery # None
                    /\ c = [kind |-> "unassign", saga |-> s, target |-> saga.delivery]
                 \/ /\ step # "inventory.insufficient" /\ saga.warehouse # None
                    /\ c = [kind |-> "release", saga |-> s, target |-> saga.warehouse]
                 \/ c = [kind |-> "cancel", saga |-> s, target |-> None]
      <3>1. PICK kind \in Strategy(step) : c = CommandOf(kind, s, saga)
        BY <1>5, <2>1
      <3>2. c.kind = "cancel" \/ c.target # None
        BY <1>5, <2>1
      <3>3. CASE kind = "unassign"
        BY <1>3, <1>4, <3>1, <3>2, <3>3
      <3>4. CASE kind = "release"
        BY <1>3, <1>4, <3>1, <3>2, <3>4
      <3>5. CASE kind = "cancel"
        BY <1>4, <3>1, <3>5
      <3> QED
        BY <1>2, <3>3, <3>4, <3>5
    <2>2. ASSUME step = "delivery.failed", saga.delivery # None,
                 c = [kind |-> "unassign", saga |-> s, target |-> saga.delivery]
          PROVE  c \in Owed(s, saga)
      BY <1>3, <1>4, <1>5, <2>2
    <2>3. ASSUME step # "inventory.insufficient", saga.warehouse # None,
                 c = [kind |-> "release", saga |-> s, target |-> saga.warehouse]
          PROVE  c \in Owed(s, saga)
      BY <1>3, <1>4, <1>5, <2>3
    <2>4. ASSUME c = [kind |-> "cancel", saga |-> s, target |-> None]
          PROVE  c \in Owed(s, saga)
      BY <1>3, <1>4, <1>5, <2>4
    <2> QED
      BY <2>1, <2>2, <2>3, <2>4
  <1>7. Owed(s, saga) \subseteq Command
    BY <1>1, <1>6 DEF Command
  <1>8. ASSUME NEW c \in Command
        PROVE  c \in Owed(s, saga) <=> Calls(s, saga, c)
    <2>1. CASE c \in [kind : {"unassign"}, saga : Sagas, target : Deliveries]
      <3>1. c = [kind |-> "unassign", saga |-> c.saga, target |-> c.target] /\ c.target # None
        BY <2>1, SagaConstants
      <3> QED
        BY <1>6, <3>1 DEF Calls, step
    <2>2. CASE c \in [kind : {"release"}, saga : Sagas, target : Warehouses]
      <3>1. c = [kind |-> "release", saga |-> c.saga, target |-> c.target] /\ c.target # None
        BY <2>2, SagaConstants
      <3> QED
        BY <1>6, <3>1 DEF Calls, step
    <2>3. CASE c \in [kind : {"cancel"}, saga : Sagas, target : {None}]
      <3>1. c = [kind |-> "cancel", saga |-> c.saga, target |-> None]
        BY <2>3
      <3> QED
        BY <1>6, <3>1 DEF Calls
    <2> QED
      BY <2>1, <2>2, <2>3 DEF Command
  <1> QED
    BY <1>7, <1>8

(* What the marks of the entity change, and what they leave alone. *)
LEMMA MarkedRow ==
    ASSUME NEW saga \in SagaRow, NEW step \in FailureTypes
    PROVE  /\ MarkCompleted(saga).status = "completed"
           /\ MarkCompleted(MarkCompleted(saga)) = MarkCompleted(saga)
           /\ Keeps(saga, MarkCompleted(saga))
           /\ MarkCompensating(saga, step).status = "compensating"
           /\ MarkCompensating(saga, step).failedStep = step
           /\ MarkCompensating(saga, step).warehouse = saga.warehouse
           /\ MarkCompensating(saga, step).delivery = saga.delivery
           /\ Keeps(saga, MarkCompensating(saga, step))
           /\ MarkFailed(saga, step).status = "failed"
           /\ MarkFailed(saga, step).failedStep = step
           /\ MarkFailed(saga, step).warehouse = saga.warehouse
           /\ MarkFailed(saga, step).delivery = saga.delivery
  BY DEF SagaRow, MarkCompleted, MarkCompensating, MarkFailed, Keeps

LEMMA InitCopyInv == Init => CopyInv
  <1> SUFFICES ASSUME Init PROVE CopyInv
    OBVIOUS
  <1>1. \A r \in Requests : ~InFlight(r)
    BY DEF Init, InFlight, NewRequest
  <1>2. \A s \in Sagas, r \in Requests : ClientOK(r, s)
    BY <1>1
    DEF ClientOK, CreatesAlone, UpdatesBeforeFailure, SavesEarlyCopy, Serves, Updates
  <1>3. \A s \in Sagas, w \in Workers : HoldsCopy(w, s)
    BY DEF Init, IdleWorker, HoldsCopy, HoldsRow
  <1>4. \A s \in Sagas : FailedOK(s)
    BY DEF Init, FailedOK, Status
  <1> QED
    BY <1>2, <1>3, <1>4, InitTypeOK DEF CopyInv

(* The clients: what they serve, and what the row is meanwhile. *)
LEMMA SameClients ==
    ASSUME CopyInv, UNCHANGED <<row, request>>,
           \A e \in Events : events[e] = "absent" => events'[e] = "absent",
           \A w \in Workers, r \in Requests, s \in Sagas :
               Updates(r, s) => worker'[w].saga # s
    PROVE  (\A s \in Sagas, r \in Requests : ClientOK(r, s))'
  BY DEF CopyInv, ClientOK, CreatesAlone, UpdatesBeforeFailure, SavesEarlyCopy, Updates, Serves, InFlight

LEMMA ClientMoves ==
    ASSUME CopyInv, NEW r \in Requests, UNCHANGED <<row, events, worker>>,
           \A q \in Requests \ {r} : request'[q] = request[q],
           \/ request'[r].pc = "done"
           \/ /\ InFlight(r)
              /\ request[r].kind \in {"patch", "complete"}
              /\ request'[r].kind = request[r].kind
              /\ request'[r].saga = request[r].saga
              /\ request'[r].pc = "save" =>
                   /\ row[request[r].saga] # NoRow
                   /\ request'[r].entity.status \in {"started", "completed"}
    PROVE  (\A s \in Sagas, q \in Requests : ClientOK(q, s))'
  <1> SUFFICES ASSUME NEW s \in Sagas, NEW q \in Requests PROVE ClientOK(q, s)'
    OBVIOUS
  <1>1. \A p \in Requests :
           /\ Serves(p, s, {"create"})' => Serves(p, s, {"create"}) /\ p # r
           /\ Updates(p, s)' => Updates(p, s)
    BY DEF Serves, Updates, InFlight
  <1>2. ClientOK(q, s)
    BY DEF CopyInv
  <1>3. CreatesAlone(q, s)'
    BY <1>1, <1>2 DEF ClientOK, CreatesAlone
  <1>4. UpdatesBeforeFailure(q, s)'
    BY <1>1, <1>2 DEF ClientOK, UpdatesBeforeFailure
  <1>5. SavesEarlyCopy(q, s)'
    <2>1. CASE q = r
      BY <1>1, <2>1 DEF SavesEarlyCopy, Updates, Serves, InFlight
    <2>2. CASE q # r
      BY <1>1, <1>2, <2>2 DEF ClientOK, SavesEarlyCopy
    <2> QED
      BY <2>1, <2>2
  <1> QED
    BY <1>3, <1>4, <1>5 DEF ClientOK

LEMMA ClientBegins ==
    ASSUME NoLateUpdates, CopyInv, NEW r \in Requests, BeginRequest(r)
    PROVE  (\A s \in Sagas, q \in Requests : ClientOK(q, s))'
  <1> SUFFICES ASSUME NEW s \in Sagas, NEW q \in Requests PROVE ClientOK(q, s)'
    OBVIOUS
  <1>0. request \in [Requests -> RequestState] /\ ClientOK(q, s)
    BY DEF CopyInv, TypeOK
  <1>1. ~InFlight(r)
    BY DEF BeginRequest, BeginCreate, BeginPatch, BeginComplete, InFlight
  <1>2. ASSUME NEW t \in Sagas, NEW context \in Context, BeginCreate(r, t, context)
        PROVE  ClientOK(q, s)'
    <2>1. /\ row[t] = NoRow
          /\ \A p \in Requests : ~Serves(p, t, {"create"})
      BY <1>2 DEF BeginCreate, NoLateUpdates, NoneInFlight, Serves
    <2>2. /\ request'[r].pc = "save" /\ request'[r].saga = t /\ request'[r].kind = "create"
          /\ request'[r].entity.status = "started"
          /\ \A p \in Requests \ {r} : request'[p] = request[p]
      BY <1>0, <1>2 DEF BeginCreate, NewEntity
    <2>3. \A p \in Requests :
             /\ Serves(p, s, {"create"})' => Serves(p, s, {"create"}) \/ (p = r /\ s = t)
             /\ Updates(p, s)' => Updates(p, s) /\ p # r
      BY <2>2, <1>1 DEF Serves, Updates, InFlight
    <2>4. UNCHANGED <<row, events, worker>>
      BY <1>2 DEF BeginCreate
    <2>5. CreatesAlone(q, s)'
      BY <1>0, <1>1, <2>1, <2>2, <2>3, <2>4 DEF ClientOK, CreatesAlone, Serves
    <2>6. UpdatesBeforeFailure(q, s)'
      BY <1>0, <2>3, <2>4 DEF ClientOK, UpdatesBeforeFailure
    <2>7. SavesEarlyCopy(q, s)'
      BY <1>0, <2>2, <2>3, <2>4 DEF ClientOK, SavesEarlyCopy
    <2> QED
      BY <2>5, <2>6, <2>7 DEF ClientOK
  <1>3. ASSUME NEW t \in Sagas,
               (\E context \in Context : BeginPatch(r, t, context)) \/ BeginComplete(r, t)
        PROVE  ClientOK(q, s)'
    <2>1. NoFailureOf(t)
      BY <1>3 DEF BeginPatch, BeginComplete, NoLateUpdates
    <2>2. /\ request'[r].pc \in {"read", "reread"} /\ request'[r].saga = t
          /\ request'[r].kind \in {"patch", "complete"}
          /\ \A p \in Requests \ {r} : request'[p] = request[p]
      BY <1>0, <1>3 DEF BeginPatch, BeginComplete
    <2>3. \A p \in Requests :
             /\ Serves(p, s, {"create"})' => Serves(p, s, {"create"}) /\ p # r
             /\ Updates(p, s)' => Updates(p, s) \/ (p = r /\ s = t)
      BY <2>2, <1>1 DEF Serves, Updates, InFlight
    <2>4. UNCHANGED <<row, events, worker>>
      BY <1>3 DEF BeginPatch, BeginComplete
    <2>5. CreatesAlone(q, s)'
      BY <1>0, <2>2, <2>3, <2>4 DEF ClientOK, CreatesAlone
    <2>6. UpdatesBeforeFailure(q, s)'
      BY <1>0, <2>1, <2>3, <2>4 DEF ClientOK, UpdatesBeforeFailure, NoFailureOf
    <2>7. SavesEarlyCopy(q, s)'
      <3>1. CASE q = r
        BY <2>2, <3>1 DEF SavesEarlyCopy
      <3>2. CASE q # r
        BY <1>0, <2>2, <2>4, <3>2 DEF ClientOK, SavesEarlyCopy, Updates, Serves, InFlight
      <3> QED
        BY <3>1, <3>2
    <2> QED
      BY <2>5, <2>6, <2>7 DEF ClientOK
  <1> QED
    BY <1>2, <1>3 DEF BeginRequest

LEMMA ClientReads ==
    ASSUME CopyInv, NEW r \in Requests,
           PatchRead(r) \/ UpdateContextRead(r) \/ CompleteRead(r) \/ RequestAborts(r)
    PROVE  (\A s \in Sagas, q \in Requests : ClientOK(q, s))'
  <1> DEFINE s == request[r].saga
             found == row[s]
  <1>0. request \in [Requests -> RequestState] /\ row \in [Sagas -> SagaRow \cup {NoRow}]
    BY DEF CopyInv, TypeOK
  <1>1. InFlight(r) /\ s \in Sagas
    BY <1>0, RequestCases DEF PatchRead, UpdateContextRead, CompleteRead, RequestAborts, InFlight
  <1>2. UNCHANGED <<row, events, worker>>
    BY DEF PatchRead, UpdateContextRead, CompleteRead, RequestAborts
  <1>3. \A q \in Requests \ {r} : request'[q] = request[q]
    BY <1>0 DEF PatchRead, UpdateContextRead, CompleteRead, RequestAborts
  <1>4. ClientOK(r, s)
    BY <1>1 DEF CopyInv
  <1>5. CASE request' = [request EXCEPT ![r] = DoneRequest]
    <2>1. request'[r].pc = "done"
      BY <1>0, <1>5 DEF DoneRequest, NewRequest
    <2> QED
      BY <1>2, <1>3, <2>1, ClientMoves
  <1>6. CASE PatchRead(r) /\ found # NoRow
    <2> DEFINE merged == OverRow(request[r].context, found)
    <2> HIDE DEF merged
    <2>1. request' = [request EXCEPT ![r] = [request[r] EXCEPT !.pc = "reread", !.context = merged]]
      BY <1>6 DEF PatchRead, merged
    <2>2. request[r].kind = "patch"
      BY <1>0, <1>6 DEF PatchRead, RequestState, NewRequest, DoneRequest
    <2>3. request'[r].pc = "reread" /\ request'[r].kind = request[r].kind /\ request'[r].saga = s
      BY <1>0, <1>1, <2>1, RequestCases
    <2> QED
      BY <1>1, <1>2, <1>3, <2>2, <2>3, ClientMoves
  <1>7. CASE UpdateContextRead(r) /\ ~(found = NoRow \/ request[r].context = NoContext)
    <2> DEFINE entity == MergeContext(found, request[r].context)
    <2>1. found \in SagaRow /\ request[r].kind = "patch"
      BY <1>0, <1>1, <1>7 DEF UpdateContextRead
    <2>2. entity.status = found.status
      BY <2>1 DEF MergeContext, SagaRow
    <2>3. found.status \in {"started", "completed"}
      BY <1>1, <1>4, <1>7, <2>1 DEF ClientOK, UpdatesBeforeFailure, Updates, Serves
    <2> HIDE DEF entity
    <2>4. request' = [request EXCEPT ![r] = [request[r] EXCEPT !.pc = "save", !.entity = entity]]
      BY <1>7 DEF UpdateContextRead, entity
    <2>5. /\ request'[r].kind = request[r].kind /\ request'[r].saga = s
          /\ request'[r].entity = entity
      BY <1>0, <1>1, <2>4, RequestCases
    <2> QED
      BY <1>1, <1>2, <1>3, <1>7, <2>1, <2>2, <2>3, <2>5, ClientMoves
  <1>8. CASE CompleteRead(r) /\ ~(found = NoRow \/ found.status # "started")
    <2> DEFINE entity == MarkCompleted(found)
    <2>1. entity.status = "completed"
      BY <1>0, <1>1, <1>8 DEF MarkCompleted, SagaRow
    <2> HIDE DEF entity
    <2>2. request' = [request EXCEPT ![r] = [request[r] EXCEPT !.pc = "save", !.entity = entity]]
      BY <1>8 DEF CompleteRead, entity
    <2>3. /\ request'[r].kind = request[r].kind /\ request'[r].saga = s
          /\ request'[r].entity = entity
      BY <1>0, <1>1, <2>2, RequestCases
    <2>4. request[r].kind = "complete"
      BY <1>8 DEF CompleteRead
    <2> QED
      BY <1>1, <1>2, <1>3, <1>8, <2>1, <2>3, <2>4, ClientMoves
  <1> QED
    BY <1>5, <1>6, <1>7, <1>8 DEF PatchRead, UpdateContextRead, CompleteRead, RequestAborts

(***************************************************************************)
(* What a step that is not theirs leaves to the workers and the sagas.     *)
(***************************************************************************)
LEMMA MarksAgree ==
    ASSUME NEW old \in SagaRow, NEW new \in SagaRow, NEW step \in FailureTypes,
           new.warehouse = old.warehouse, new.delivery = old.delivery
    PROVE  /\ MarkFailed(new, step) = MarkFailed(old, step)
           /\ MarkCompensating(new, step) = MarkCompensating(old, step)
  <1>1. ASSUME NEW a \in SagaRow, NEW b \in SagaRow,
               a.status = b.status, a.warehouse = b.warehouse,
               a.delivery = b.delivery, a.failedStep = b.failedStep
        PROVE  a = b
    <2>1. \A saga \in SagaRow :
             saga = [status |-> saga.status, warehouse |-> saga.warehouse,
                     delivery |-> saga.delivery, failedStep |-> saga.failedStep]
      BY DEF SagaRow
    <2> QED
      BY <1>1, <2>1
  <1>2. \A saga \in SagaRow :
           MarkFailed(saga, step) \in SagaRow /\ MarkCompensating(saga, step) \in SagaRow
    BY MarksKeepRow
  <1>3. MarkFailed(new, step) = MarkFailed(old, step)
    <2>1. /\ MarkFailed(new, step).status = MarkFailed(old, step).status
          /\ MarkFailed(new, step).warehouse = MarkFailed(old, step).warehouse
          /\ MarkFailed(new, step).delivery = MarkFailed(old, step).delivery
          /\ MarkFailed(new, step).failedStep = MarkFailed(old, step).failedStep
      BY MarkedRow
    <2> QED
      BY <1>1, <1>2, <2>1
  <1>4. MarkCompensating(new, step) = MarkCompensating(old, step)
    <2>1. /\ MarkCompensating(new, step).status = MarkCompensating(old, step).status
          /\ MarkCompensating(new, step).warehouse = MarkCompensating(old, step).warehouse
          /\ MarkCompensating(new, step).delivery = MarkCompensating(old, step).delivery
          /\ MarkCompensating(new, step).failedStep = MarkCompensating(old, step).failedStep
      BY MarkedRow
    <2> QED
      BY <1>1, <1>2, <2>1
  <1> QED
    BY <1>3, <1>4

SameContext(s) ==
    /\ row[s] # NoRow /\ row'[s] \in SagaRow
    /\ row'[s].warehouse = row[s].warehouse
    /\ row'[s].delivery = row[s].delivery

LEMMA HoldingStays ==
    ASSUME CopyInv, TypeOK', [Next]_vars, NEW w \in Workers, NEW s \in Sagas,
           worker'[w] = worker[w],
           worker[w].saga = s /\ HoldsRow(w) => row'[s] = row[s] \/ SameContext(s)
    PROVE  HoldsCopy(w, s)'
  <1> DEFINE type == worker[w].type
             owed == Owed(s, MarkFailed(row[s], type))
  <1>0. /\ row \in [Sagas -> SagaRow \cup {NoRow}] /\ worker[w] \in WorkerState
        /\ HoldsCopy(w, s)
    BY DEF CopyInv, TypeOK
  <1> SUFFICES ASSUME worker[w].saga = s, HoldsRow(w)
               PROVE  /\ row'[s] # NoRow
                      /\ worker[w].entity = IF worker[w].pc = "failSave"
                                            THEN MarkFailed(row'[s], type)
                                            ELSE MarkCompensating(row'[s], type)
                      /\ \A c \in Owed(s, MarkFailed(row'[s], type)) :
                            c.kind \in Done(worker[w].pc) => commands'[c] > 0
    BY DEF HoldsCopy, HoldsRow, Published
  <1>1. type \in FailureTypes /\ row[s] \in SagaRow /\ row'[s] \in SagaRow
    BY <1>0, WorkerCases DEF HoldsCopy, HoldsRow, SameContext
  <1>2. /\ MarkFailed(row'[s], type) = MarkFailed(row[s], type)
        /\ MarkCompensating(row'[s], type) = MarkCompensating(row[s], type)
    BY <1>1, MarksAgree DEF SameContext
  <1>3. MarkFailed(row[s], type) \in SagaRow /\ MarkFailed(row[s], type).failedStep \in FailureTypes
    BY <1>1, MarksKeepRow, MarkedRow
  <1>4. owed \subseteq Command
    BY <1>3, OwedCommands
  <1>5. \A c \in owed : c.kind \in Done(worker[w].pc) => commands'[c] > 0
    <2>1. \A c \in owed : c.kind \in Done(worker[w].pc) => Published(c)
      BY <1>0 DEF HoldsCopy
    <2>2. \A c \in Command : Published(c) => commands'[c] > 0
      BY CommandsOnlyGrow DEF CopyInv, Published
    <2> QED
      BY <1>4, <2>1, <2>2
  <1>6. row'[s] # NoRow
    BY <1>1, SagaConstants
  <1> QED
    BY <1>0, <1>2, <1>5, <1>6 DEF HoldsCopy

LEMMA FailureStays ==
    ASSUME CopyInv, [Next]_vars, NEW s \in Sagas, row'[s] = row[s]
    PROVE  FailedOK(s)'
  <1> SUFFICES ASSUME Status(s) = "failed"
               PROVE  /\ row[s].failedStep \in FailureTypes
                      /\ \A c \in Owed(s, row[s]) : commands'[c] > 0
    BY DEF FailedOK, Status, Published
  <1>1. /\ row[s] \in SagaRow /\ row[s].failedStep \in FailureTypes
        /\ \A c \in Owed(s, row[s]) : Published(c)
    BY DEF CopyInv, TypeOK, FailedOK, Status
  <1>2. \A c \in Command : Published(c) => commands'[c] > 0
    BY CommandsOnlyGrow DEF CopyInv, Published
  <1>3. Owed(s, row[s]) \subseteq Command
    BY <1>1, OwedCommands
  <1> QED
    BY <1>1, <1>2, <1>3

LEMMA ClientSaves ==
    ASSUME CopyInv, TypeOK', [Next]_vars, NEW r \in Requests, RequestSave(r)
    PROVE  CopyInv'
  <1> DEFINE t == request[r].saga
             entity == request[r].entity
             kind == request[r].kind
  <1>0. request \in [Requests -> RequestState] /\ row \in [Sagas -> SagaRow \cup {NoRow}]
    BY DEF CopyInv, TypeOK
  <1>1. InFlight(r) /\ t \in Sagas /\ entity \in SagaRow /\ kind \in Kinds /\ request[r].pc = "save"
    BY <1>0, RequestCases DEF RequestSave, InFlight
  <1>2. UNCHANGED <<events, worker, commands>>
    BY DEF RequestSave
  <1>3. /\ request'[r].pc = "done"
        /\ \A q \in Requests \ {r} : request'[q] = request[q]
    BY <1>0 DEF RequestSave, DoneRequest, NewRequest
  <1>4. ClientOK(r, t)
    BY <1>1 DEF CopyInv
  <1>5. \A q \in Requests, s \in Sagas :
           /\ Serves(q, s, {"create"})' => Serves(q, s, {"create"}) /\ q # r
           /\ Updates(q, s)' => Updates(q, s) /\ q # r
    BY <1>3 DEF Serves, Updates, InFlight
  <1>6. \/ row' = row
        \/ row'[t] = entity /\ \A s \in Sagas \ {t} : row'[s] = row[s]
    BY <1>0, <1>1 DEF RequestSave, Save
  <1>7. \/ Serves(r, t, {"create"}) /\ row[t] = NoRow /\ entity.status = "started"
        \/ /\ Updates(r, t) /\ row[t] # NoRow
           /\ row[t].status \in {"started", "completed"}
           /\ entity.status \in {"started", "completed"}
    BY <1>1, <1>4
    DEF ClientOK, CreatesAlone, UpdatesBeforeFailure, SavesEarlyCopy, Serves, Updates, Kinds
  <1>8. entity.status \in {"started", "completed"} /\ entity # NoRow
    BY <1>1, <1>7, SagaConstants
  <1>9. \A s \in Sagas, q \in Requests : ClientOK(q, s)'
    <2> SUFFICES ASSUME NEW s \in Sagas, NEW q \in Requests PROVE ClientOK(q, s)'
      OBVIOUS
    <2>1. ClientOK(q, s)
      BY DEF CopyInv
    <2>2. SavesEarlyCopy(q, s)'
      BY <1>3, <1>5, <1>6, <1>8, <2>1 DEF ClientOK, SavesEarlyCopy
    <2>3. UpdatesBeforeFailure(q, s)'
      BY <1>2, <1>5, <1>6, <1>8, <2>1 DEF ClientOK, UpdatesBeforeFailure
    <2>4. CreatesAlone(q, s)'
      <3>1. CASE row'[s] = row[s]
        BY <1>3, <1>5, <2>1, <3>1 DEF ClientOK, CreatesAlone
      <3>2. CASE row'[s] # row[s]
        <4>1. s = t
          BY <1>6, <3>2
        <4>2. \A p \in Requests : Serves(p, t, {"create"}) => p = r
          BY <1>1, <1>4, <1>7 DEF CopyInv, ClientOK, CreatesAlone
        <4> QED
          BY <1>5, <4>1, <4>2 DEF CreatesAlone
      <3> QED
        BY <3>1, <3>2
    <2> QED
      BY <2>2, <2>3, <2>4 DEF ClientOK
  <1>10. \A s \in Sagas, w \in Workers : HoldsCopy(w, s)'
    <2> SUFFICES ASSUME NEW s \in Sagas, NEW w \in Workers PROVE HoldsCopy(w, s)'
      OBVIOUS
    <2>1. ASSUME worker[w].saga = s, HoldsRow(w) PROVE row'[s] = row[s]
      <3>1. CASE s = t
        BY <1>4, <1>7, <2>1, <3>1 DEF CopyInv, HoldsCopy, ClientOK, UpdatesBeforeFailure
      <3>2. CASE s # t
        BY <1>6, <3>2
      <3> QED
        BY <3>1, <3>2
    <2> QED
      BY <1>2, <2>1, HoldingStays
  <1>11. \A s \in Sagas : FailedOK(s)'
    <2> SUFFICES ASSUME NEW s \in Sagas PROVE FailedOK(s)'
      OBVIOUS
    <2>1. CASE row'[s] = row[s]
      BY <2>1, FailureStays
    <2>2. CASE row'[s] # row[s]
      <3>1. row'[s] = entity
        BY <1>6, <2>2
      <3> QED
        BY <1>8, <3>1 DEF FailedOK, Status
    <2> QED
      BY <2>1, <2>2
  <1> QED
    BY <1>9, <1>10, <1>11 DEF CopyInv

(* A step that changes neither the table nor a worker. *)
LEMMA SameHoldings ==
    ASSUME CopyInv, TypeOK', [Next]_vars, UNCHANGED <<row, worker>>
    PROVE  /\ (\A s \in Sagas, w \in Workers : HoldsCopy(w, s))'
           /\ (\A s \in Sagas : FailedOK(s))'
  <1>1. ASSUME NEW s \in Sagas, NEW w \in Workers PROVE HoldsCopy(w, s)'
    BY HoldingStays
  <1>2. ASSUME NEW s \in Sagas PROVE FailedOK(s)'
    BY FailureStays
  <1> QED
    BY <1>1, <1>2

LEMMA ClientsKeepCopyInv ==
    ASSUME NoLateUpdates, CopyInv, TypeOK', [Next]_vars, NEW r \in Requests,
           BeginRequest(r) \/ RequestStep(r) \/ RequestAborts(r)
    PROVE  CopyInv'
  <1>1. CASE RequestSave(r)
    BY <1>1, ClientSaves
  <1>2. CASE BeginRequest(r)
    <2>1. UNCHANGED <<row, worker>>
      BY <1>2 DEF BeginRequest, BeginCreate, BeginPatch, BeginComplete
    <2> QED
      BY <1>2, <2>1, ClientBegins, SameHoldings DEF CopyInv
  <1>3. CASE PatchRead(r) \/ UpdateContextRead(r) \/ CompleteRead(r) \/ RequestAborts(r)
    <2>1. UNCHANGED <<row, worker>>
      BY <1>3 DEF PatchRead, UpdateContextRead, CompleteRead, RequestAborts
    <2> QED
      BY <1>3, <2>1, ClientReads, SameHoldings DEF CopyInv
  <1> QED
    BY <1>1, <1>2, <1>3 DEF RequestStep

LEMMA EventsKeepCopyInv ==
    ASSUME NoLateUpdates, CopyInv, TypeOK', [Next]_vars, NEW e \in Events,
           PublishFailure(e) \/ AutoCommit(e) \/ Redeliver(e)
    PROVE  CopyInv'
  <1>1. UNCHANGED <<row, worker, request>>
    BY DEF PublishFailure, AutoCommit, Redeliver
  <1>2. \A s \in Sagas, r \in Requests : ClientOK(r, s)'
    <2> SUFFICES ASSUME NEW s \in Sagas, NEW r \in Requests PROVE ClientOK(r, s)'
      OBVIOUS
    <2>1. ClientOK(r, s)
      BY DEF CopyInv
    <2>2. CreatesAlone(r, s)' /\ SavesEarlyCopy(r, s)'
      BY <1>1, <2>1 DEF ClientOK, CreatesAlone, SavesEarlyCopy, Serves, Updates, InFlight
    <2>3. UpdatesBeforeFailure(r, s)'
      <3> SUFFICES ASSUME Updates(r, s), NEW d \in Events, d.saga = s PROVE events'[d] = "absent"
        BY <1>1, <2>1 DEF ClientOK, UpdatesBeforeFailure, Updates, Serves, InFlight
      <3>1. events[d] = "absent" /\ events \in [Events -> {"absent", "queued", "fetched"}]
        BY <2>1 DEF ClientOK, UpdatesBeforeFailure, CopyInv, TypeOK
      <3>2. PublishFailure(e) => d # e
        BY DEF PublishFailure, NoLateUpdates, NoneInFlight, Updates, Serves, Kinds
      <3> QED
        BY <3>1, <3>2 DEF PublishFailure, AutoCommit, Redeliver
    <2> QED
      BY <2>2, <2>3 DEF ClientOK
  <1> QED
    BY <1>1, <1>2, SameHoldings DEF CopyInv

(***************************************************************************)
(* The steps of a worker: what the other workers hold stays as it was.     *)
(***************************************************************************)
LEMMA WorkerMoves ==
    ASSUME CopyInv, TypeOK', [Next]_vars, NEW w \in Workers, UNCHANGED <<row, request>>,
           \A e \in Events : events[e] = "absent" => events'[e] = "absent",
           \A v \in Workers \ {w} : worker'[v] = worker[v],
           worker'[w].saga \in {worker[w].saga, NoSaga},
           (\A s \in Sagas : HoldsCopy(w, s))'
    PROVE  CopyInv'
  <1>1. ASSUME NEW v \in Workers, NEW r \in Requests, NEW s \in Sagas, Updates(r, s)
        PROVE  worker'[v].saga # s
    <2>1. worker[v].saga # s
      BY <1>1 DEF CopyInv, ClientOK, UpdatesBeforeFailure
    <2> QED
      BY <2>1, SagaConstants
  <1>2. (\A s \in Sagas, r \in Requests : ClientOK(r, s))'
    BY <1>1, SameClients
  <1>3. ASSUME NEW s \in Sagas, NEW v \in Workers PROVE HoldsCopy(v, s)'
    <2>1. CASE v = w
      BY <2>1
    <2>2. CASE v # w
      BY <2>2, HoldingStays
    <2> QED
      BY <2>1, <2>2
  <1>4. ASSUME NEW s \in Sagas PROVE FailedOK(s)'
    BY FailureStays
  <1> QED
    BY <1>2, <1>3, <1>4 DEF CopyInv

LEMMA FetchKeepsCopyInv ==
    ASSUME CopyInv, TypeOK', [Next]_vars, NEW w \in Workers, NEW e \in Events, Fetch(w, e)
    PROVE  CopyInv'
  <1>0. /\ worker \in [Workers -> WorkerState]
        /\ events \in [Events -> {"absent", "queued", "fetched"}]
    BY DEF CopyInv, TypeOK
  <1>1. UNCHANGED <<row, request, commands>> /\ events[e] = "queued"
    BY DEF Fetch
  <1>2. /\ worker'[w].pc \in {"idle", "read"} /\ worker'[w].saga \in {e.saga, NoSaga}
        /\ \A v \in Workers \ {w} : worker'[v] = worker[v]
    BY <1>0 DEF Fetch, IdleWorker
  <1>3. \A d \in Events : events[d] = "absent" => events'[d] = "absent"
    BY <1>0 DEF Fetch
  <1>4. ASSUME NEW v \in Workers, NEW r \in Requests, NEW s \in Sagas, Updates(r, s)
        PROVE  worker'[v].saga # s
    <2>1. worker[v].saga # s /\ e.saga # s
      BY <1>1, <1>4 DEF CopyInv, ClientOK, UpdatesBeforeFailure
    <2> QED
      BY <1>2, <2>1, SagaConstants
  <1>5. (\A s \in Sagas, r \in Requests : ClientOK(r, s))'
    BY <1>1, <1>3, <1>4, SameClients
  <1>6. ASSUME NEW s \in Sagas, NEW v \in Workers PROVE HoldsCopy(v, s)'
    <2>1. CASE v = w
      BY <1>2, <2>1 DEF HoldsCopy, HoldsRow
    <2>2. CASE v # w
      BY <1>1, <1>2, <2>2, HoldingStays
    <2> QED
      BY <2>1, <2>2
  <1>7. ASSUME NEW s \in Sagas PROVE FailedOK(s)'
    BY <1>1, FailureStays
  <1> QED
    BY <1>5, <1>6, <1>7 DEF CopyInv

(* The steps that only look, or give up. *)
LEMMA LookKeepsCopyInv ==
    ASSUME CopyInv, TypeOK', [Next]_vars, NEW w \in Workers,
           HandleRead(w) \/ TriggerRead(w) \/ FailRead(w) \/ HandlerRaises(w) \/ Crash(w)
    PROVE  CopyInv'
  <1> DEFINE t == worker[w].saga
             type == worker[w].type
             found == row[t]
  <1>0. /\ worker \in [Workers -> WorkerState] /\ row \in [Sagas -> SagaRow \cup {NoRow}]
        /\ events \in [Events -> {"absent", "queued", "fetched"}]
    BY DEF CopyInv, TypeOK
  <1>1. /\ UNCHANGED <<row, request, commands>>
        /\ \A d \in Events : events[d] = "absent" => events'[d] = "absent"
    BY <1>0 DEF HandleRead, TriggerRead, FailRead, HandlerRaises, Crash
  <1>2. \A v \in Workers \ {w} : worker'[v] = worker[v]
    BY <1>0 DEF HandleRead, TriggerRead, FailRead, HandlerRaises, Crash, Return, Goto
  <1>3. t \in Sagas /\ type \in FailureTypes
    BY <1>0, WorkerCases DEF HandleRead, TriggerRead, FailRead, HandlerRaises, Crash
  <1>4. CASE Return(w) \/ Goto(w, "triggerRead")
    <2>1. /\ worker'[w].pc \in {"idle", "triggerRead"}
          /\ worker'[w].saga \in {t, NoSaga}
      BY <1>0, <1>4 DEF Return, Goto, WorkerState, IdleWorker
    <2>2. (\A s \in Sagas : HoldsCopy(w, s))'
      BY <2>1 DEF HoldsCopy, HoldsRow
    <2> QED
      BY <1>1, <1>2, <2>1, <2>2, WorkerMoves
  <1>5. CASE TriggerRead(w) /\ ~(found = NoRow \/ found.status \in {"completed", "failed"})
    <2> DEFINE entity == MarkCompensating(found, type)
    <2> HIDE DEF entity
    <2>1. worker' = [worker EXCEPT ![w].pc = "triggerSave", ![w].entity = entity]
      BY <1>5 DEF TriggerRead, entity
    <2>2. /\ worker'[w].pc = "triggerSave" /\ worker'[w].saga = t
          /\ worker'[w].type = type /\ worker'[w].entity = entity
      BY <1>0, <2>1 DEF WorkerState, IdleWorker
    <2>3. \A kind : kind \notin Done("triggerSave")
      BY DEF Done
    <2>4. ASSUME NEW s \in Sagas PROVE HoldsCopy(w, s)'
      BY <1>1, <1>5, <2>2, <2>3 DEF HoldsCopy, entity
    <2> QED
      BY <1>1, <1>2, <2>2, <2>4, WorkerMoves
  <1>6. CASE FailRead(w) /\ found # NoRow
    <2> DEFINE entity == MarkFailed(found, type)
    <2>1. \A c \in Owed(t, MarkFailed(found, type)) :
             c.kind \in Done("failRead") => commands'[c] > 0
      BY <1>1, <1>3, <1>6 DEF FailRead, CopyInv, HoldsCopy, HoldsRow, Published
    <2>2. Done("failSave") = Done("failRead")
      BY DEF Done
    <2> HIDE DEF entity
    <2>3. worker' = [worker EXCEPT ![w].pc = "failSave", ![w].entity = entity]
      BY <1>6 DEF FailRead, entity
    <2>4. /\ worker'[w].pc = "failSave" /\ worker'[w].saga = t
          /\ worker'[w].type = type /\ worker'[w].entity = entity
      BY <1>0, <2>3 DEF WorkerState, IdleWorker
    <2>5. ASSUME NEW s \in Sagas PROVE HoldsCopy(w, s)'
      BY <1>1, <1>6, <2>1, <2>2, <2>4 DEF HoldsCopy, Published, entity
    <2> QED
      BY <1>1, <1>2, <2>4, <2>5, WorkerMoves
  <1> QED
    BY <1>4, <1>5, <1>6 DEF HandleRead, TriggerRead, FailRead, HandlerRaises, Crash

(* One call of the strategy: its command, if one is owed, is published. *)
LEMMA CallKeepsCopyInv ==
    ASSUME CopyInv, TypeOK', [Next]_vars, NEW w \in Workers,
           worker[w].pc \in {"unassign", "release", "cancel"},
           NEW next \in {"release", "cancel", "failRead"}, Goto(w, next),
           UNCHANGED <<row, events, request>>,
           Done(next) \subseteq Done(worker[w].pc) \cup {worker[w].pc},
           \A c \in Command :
               Calls(worker[w].saga, MarkFailed(row[worker[w].saga], worker[w].type), c)
                 /\ c.kind = worker[w].pc => commands'[c] > 0
    PROVE  CopyInv'
  <1> DEFINE t == worker[w].saga
             type == worker[w].type
             failed == MarkFailed(row[t], type)
  <1>0. /\ worker \in [Workers -> WorkerState] /\ row \in [Sagas -> SagaRow \cup {NoRow}]
    BY DEF CopyInv, TypeOK
  <1>1. t \in Sagas /\ type \in FailureTypes
    BY <1>0, WorkerCases
  <1>2. HoldsCopy(w, t) /\ HoldsRow(w)
    BY <1>1 DEF CopyInv, HoldsRow
  <1>3. row[t] \in SagaRow
    BY <1>0, <1>1, <1>2 DEF HoldsCopy
  <1>4. failed \in SagaRow /\ failed.failedStep \in FailureTypes
    BY <1>1, <1>3, MarksKeepRow, MarkedRow
  <1>5. /\ worker'[w].pc = next /\ worker'[w].saga = t
        /\ worker'[w].type = type /\ worker'[w].entity = worker[w].entity
        /\ \A v \in Workers \ {w} : worker'[v] = worker[v]
    BY <1>0 DEF Goto, WorkerState, IdleWorker
  <1>6. ASSUME NEW c \in Owed(t, failed), c.kind \in Done(next) PROVE commands'[c] > 0
    <2>1. c \in Command /\ Calls(t, failed, c)
      BY <1>1, <1>4, OwedCommands
    <2>2. CASE c.kind = worker[w].pc
      BY <2>1, <2>2
    <2>3. CASE c.kind \in Done(worker[w].pc)
      <3>1. Published(c)
        BY <1>2, <2>3 DEF HoldsCopy
      <3> QED
        BY <2>1, <3>1, CommandsOnlyGrow DEF CopyInv, Published
    <2> QED
      BY <1>6, <2>2, <2>3
  <1>7. ASSUME NEW s \in Sagas PROVE HoldsCopy(w, s)'
    BY <1>2, <1>5, <1>6 DEF HoldsCopy, Published
  <1> QED
    BY <1>5, <1>7, WorkerMoves

LEMMA StrategyKeepsCopyInv ==
    ASSUME CopyInv, TypeOK', [Next]_vars, NEW w \in Workers,
           UnassignCourier(w) \/ ReleaseInventory(w) \/ CancelShipment(w)
    PROVE  CopyInv'
  <1> DEFINE t == worker[w].saga
             type == worker[w].type
             failed == MarkFailed(row[t], type)
             entity == worker[w].entity
  <1>0. /\ worker \in [Workers -> WorkerState] /\ row \in [Sagas -> SagaRow \cup {NoRow}]
        /\ commands \in [Command -> Nat]
    BY DEF CopyInv, TypeOK
  <1>1. /\ t \in Sagas /\ type \in FailureTypes
        /\ worker[w].pc \in {"unassign", "release", "cancel"}
    BY <1>0, WorkerCases DEF UnassignCourier, ReleaseInventory, CancelShipment
  <1>2. row[t] \in SagaRow /\ entity = MarkCompensating(row[t], type)
    BY <1>0, <1>1 DEF CopyInv, HoldsCopy, HoldsRow
  <1>3. entity.delivery = failed.delivery /\ entity.warehouse = failed.warehouse
    BY <1>1, <1>2, MarkedRow
  <1>4. \A c \in Command :
           /\ c.kind = "unassign" =>
                c = [kind |-> "unassign", saga |-> c.saga, target |-> c.target] /\ c.target # None
           /\ c.kind = "release" =>
                c = [kind |-> "release", saga |-> c.saga, target |-> c.target] /\ c.target # None
           /\ c.kind = "cancel" => c = [kind |-> "cancel", saga |-> c.saga, target |-> None]
    BY SagaConstants DEF Command
  <1> HIDE DEF failed, entity
  <1>5. CASE UnassignCourier(w)
    <2>1. /\ worker[w].pc = "unassign" /\ Goto(w, "release") /\ UNCHANGED <<row, events, request>>
      BY <1>5 DEF UnassignCourier
    <2>2. ASSUME NEW c \in Command, Calls(t, failed, c), c.kind = "unassign"
          PROVE  commands'[c] > 0
      <3>1. c = [kind |-> "unassign", saga |-> t, target |-> entity.delivery] /\ entity.delivery # None
        BY <1>3, <1>4, <2>2 DEF Calls
      <3>2. Publish("unassign", t, entity.delivery)
        BY <1>5, <3>1 DEF UnassignCourier, entity
      <3> QED
        BY <1>0, <3>1, <3>2, PublishKeepsTopics
    <2>3. Done("release") \subseteq Done("unassign") \cup {"unassign"}
      BY DEF Done
    <2> QED
      BY <2>1, <2>2, <2>3, CallKeepsCopyInv DEF failed
  <1>6. CASE ReleaseInventory(w)
    <2>1. /\ worker[w].pc = "release" /\ Goto(w, "cancel") /\ UNCHANGED <<row, events, request>>
      BY <1>6 DEF ReleaseInventory
    <2>2. ASSUME NEW c \in Command, Calls(t, failed, c), c.kind = "release"
          PROVE  commands'[c] > 0
      <3>1. c = [kind |-> "release", saga |-> t, target |-> entity.warehouse] /\ entity.warehouse # None
        BY <1>3, <1>4, <2>2 DEF Calls
      <3>2. Publish("release", t, entity.warehouse)
        BY <1>6, <3>1 DEF ReleaseInventory, entity
      <3> QED
        BY <1>0, <3>1, <3>2, PublishKeepsTopics
    <2>3. Done("cancel") \subseteq Done("release") \cup {"release"}
      BY DEF Done
    <2> QED
      BY <2>1, <2>2, <2>3, CallKeepsCopyInv DEF failed
  <1>7. CASE CancelShipment(w)
    <2>1. /\ worker[w].pc = "cancel" /\ Goto(w, "failRead") /\ UNCHANGED <<row, events, request>>
      BY <1>7 DEF CancelShipment
    <2>2. ASSUME NEW c \in Command, Calls(t, failed, c), c.kind = "cancel"
          PROVE  commands'[c] > 0
      <3>1. c = [kind |-> "cancel", saga |-> t, target |-> None]
        BY <1>4, <2>2 DEF Calls
      <3>2. Publish("cancel", t, None)
        BY <1>7 DEF CancelShipment
      <3> QED
        BY <1>0, <3>1, <3>2, PublishKeepsTopics
    <2>3. Done("failRead") \subseteq Done("cancel") \cup {"cancel"}
      BY DEF Done
    <2> QED
      BY <2>1, <2>2, <2>3, CallKeepsCopyInv DEF failed
  <1> QED
    BY <1>5, <1>6, <1>7

(***************************************************************************)
(* The two saves of a worker.  Every other worker at the saga holds a copy *)
(* with the same warehouse and delivery, and no client is at the saga.     *)
(***************************************************************************)
LEMMA WorkerSaveKeepsCopyInv ==
    ASSUME CopyInv, TypeOK', [Next]_vars, NEW w \in Workers,
           NEW t \in Sagas, worker[w].saga = t, row[t] # NoRow,
           UNCHANGED <<events, request>>,
           \A s \in Sagas \ {t} : row'[s] = row[s],
           row'[t] = row[t] \/ SameContext(t),
           \A v \in Workers \ {w} : worker'[v] = worker[v],
           worker'[w].saga \in {t, NoSaga},
           (\A s \in Sagas : HoldsCopy(w, s))',
           FailedOK(t)'
    PROVE  CopyInv'
  <1>1. ASSUME NEW s \in Sagas, NEW r \in Requests PROVE ClientOK(r, s)'
    <2>1. ClientOK(r, s)
      BY DEF CopyInv
    <2>2. CASE s = t
      <3>1. \A q \in Requests : ~Serves(q, t, {"create"}) /\ ~Updates(q, t)
        BY DEF CopyInv, ClientOK, CreatesAlone, UpdatesBeforeFailure
      <3>2. \A q \in Requests : ~Serves(q, s, {"create"})' /\ ~Updates(q, s)'
        BY <2>2, <3>1 DEF Serves, Updates, InFlight
      <3> QED
        BY <3>2 DEF ClientOK, CreatesAlone, UpdatesBeforeFailure, SavesEarlyCopy
    <2>3. CASE s # t
      <3>1. row'[s] = row[s]
        BY <2>3
      <3>2. CreatesAlone(r, s)' /\ SavesEarlyCopy(r, s)'
        BY <2>1, <3>1 DEF ClientOK, CreatesAlone, SavesEarlyCopy, Serves, Updates, InFlight
      <3>3. UpdatesBeforeFailure(r, s)'
        <4> SUFFICES ASSUME Updates(r, s), NEW v \in Workers PROVE worker'[v].saga # s
          BY <2>1, <3>1 DEF ClientOK, UpdatesBeforeFailure, Updates, Serves, InFlight
        <4>1. worker[v].saga # s
          BY <2>1 DEF ClientOK, UpdatesBeforeFailure
        <4> QED
          BY <2>3, <4>1, SagaConstants
      <3> QED
        BY <3>2, <3>3 DEF ClientOK
    <2> QED
      BY <2>2, <2>3
  <1>2. ASSUME NEW s \in Sagas, NEW v \in Workers PROVE HoldsCopy(v, s)'
    <2>1. CASE v = w
      BY <2>1
    <2>2. CASE v # w
      BY <2>2, HoldingStays
    <2> QED
      BY <2>1, <2>2
  <1>3. ASSUME NEW s \in Sagas PROVE FailedOK(s)'
    <2>1. CASE s = t
      BY <2>1
    <2>2. CASE s # t
      BY <2>2, FailureStays
    <2> QED
      BY <2>1, <2>2
  <1> QED
    BY <1>1, <1>2, <1>3 DEF CopyInv

LEMMA TriggerSaveKeepsCopyInv ==
    ASSUME CopyInv, TypeOK', [Next]_vars, NEW w \in Workers, TriggerSave(w)
    PROVE  CopyInv'
  <1> DEFINE type == worker[w].type
             entity == worker[w].entity
  <1>0. /\ worker \in [Workers -> WorkerState] /\ row \in [Sagas -> SagaRow \cup {NoRow}]
    BY DEF CopyInv, TypeOK
  <1>1. worker[w].saga \in Sagas /\ type \in FailureTypes /\ entity \in SagaRow
    BY <1>0, WorkerCases DEF TriggerSave
  <1> PICK t \in Sagas : t = worker[w].saga
    BY <1>1
  <1>2. row[t] # NoRow /\ row[t] \in SagaRow /\ entity = MarkCompensating(row[t], type)
    BY <1>0, <1>1 DEF CopyInv, HoldsCopy, HoldsRow, TriggerSave
  <1>3. /\ entity.status = "compensating"
        /\ entity.warehouse = row[t].warehouse /\ entity.delivery = row[t].delivery
    BY <1>1, <1>2, MarkedRow
  <1>4. UNCHANGED <<events, request, commands>>
    BY DEF TriggerSave
  <1>5. CASE ~Admitted(entity)
    <2>1. row' = row /\ Return(w)
      BY <1>5 DEF TriggerSave, Save
    <2>2. /\ worker'[w].pc = "idle" /\ worker'[w].saga = NoSaga
          /\ \A v \in Workers \ {w} : worker'[v] = worker[v]
      BY <1>0, <2>1 DEF Return, IdleWorker
    <2>3. (\A s \in Sagas : HoldsCopy(w, s))'
      BY <2>2 DEF HoldsCopy, HoldsRow
    <2> QED
      BY <1>4, <2>1, <2>2, <2>3, WorkerMoves
  <1>6. CASE Admitted(entity)
    <2> DEFINE first == FirstCall(type)
    <2>1. row'[t] = entity /\ \A s \in Sagas \ {t} : row'[s] = row[s]
      BY <1>0, <1>1, <1>6 DEF TriggerSave, Save
    <2>2. SameContext(t)
      BY <1>1, <1>2, <1>3, <2>1 DEF SameContext
    <2>3. first \in {"unassign", "release", "cancel"}
      BY <1>1, FirstCallIsACall
    <2>4. ASSUME NEW c \in Command, Calls(t, MarkFailed(entity, type), c)
          PROVE  c.kind \notin Done(first)
      <3>1. MarkFailed(entity, type).failedStep = type
        BY <1>1, MarkedRow
      <3> QED
        BY <1>1, <2>4, <3>1 DEF Calls, Done, FirstCall, FailureTypes
    <2>5. Owed(t, MarkFailed(entity, type)) \subseteq Command
          /\ \A c \in Owed(t, MarkFailed(entity, type)) : Calls(t, MarkFailed(entity, type), c)
      <3>1. MarkFailed(entity, type) \in SagaRow /\ MarkFailed(entity, type).failedStep \in FailureTypes
        BY <1>1, MarksKeepRow, MarkedRow
      <3> QED
        BY <1>1, <3>1, OwedCommands
    <2>6. MarkCompensating(entity, type) = entity
      <3> HIDE DEF entity
      <3> QED
        BY <1>1, <1>2, <1>3, MarksAgree
    <2> HIDE DEF first
    <2>7. /\ worker'[w].pc = first /\ worker'[w].saga = t
          /\ worker'[w].type = type /\ worker'[w].entity = entity
          /\ \A v \in Workers \ {w} : worker'[v] = worker[v]
      BY <1>0, <1>1, <1>6 DEF TriggerSave, Goto, WorkerState, IdleWorker, first
    <2>8. entity # NoRow
      BY <1>1, SagaConstants
    <2>9. ASSUME NEW s \in Sagas PROVE HoldsCopy(w, s)'
      BY <2>1, <2>3, <2>4, <2>5, <2>6, <2>7, <2>8 DEF HoldsCopy
    <2>10. FailedOK(t)'
      BY <1>3, <2>1, <2>8 DEF FailedOK, Status
    <2> QED
      BY <1>1, <1>2, <1>4, <2>1, <2>2, <2>7, <2>9, <2>10, WorkerSaveKeepsCopyInv
  <1> QED
    BY <1>5, <1>6

LEMMA FailSaveKeepsCopyInv ==
    ASSUME CopyInv, TypeOK', [Next]_vars, NEW w \in Workers, FailSave(w)
    PROVE  CopyInv'
  <1> DEFINE type == worker[w].type
             entity == worker[w].entity
  <1>0. /\ worker \in [Workers -> WorkerState] /\ row \in [Sagas -> SagaRow \cup {NoRow}]
    BY DEF CopyInv, TypeOK
  <1>1. worker[w].saga \in Sagas /\ type \in FailureTypes /\ entity \in SagaRow
    BY <1>0, WorkerCases DEF FailSave
  <1> PICK t \in Sagas : t = worker[w].saga
    BY <1>1
  <1>2. /\ row[t] # NoRow /\ row[t] \in SagaRow /\ entity = MarkFailed(row[t], type)
        /\ \A c \in Owed(t, entity) : c.kind \in Done("failSave") => Published(c)
    BY <1>0, <1>1 DEF CopyInv, HoldsCopy, HoldsRow, FailSave
  <1>3. /\ entity.failedStep = type
        /\ entity.warehouse = row[t].warehouse /\ entity.delivery = row[t].delivery
    BY <1>1, <1>2, MarkedRow
  <1>4. UNCHANGED <<events, request, commands>>
    BY DEF FailSave
  <1>5. /\ row'[t] = row[t] \/ row'[t] = entity
        /\ \A s \in Sagas \ {t} : row'[s] = row[s]
    BY <1>0, <1>1 DEF FailSave, Save
  <1>6. row'[t] = row[t] \/ SameContext(t)
    BY <1>1, <1>2, <1>3, <1>5 DEF SameContext
  <1>7. \A c \in Owed(t, entity) : Published(c)
    <2>1. Owed(t, entity) \subseteq Command
      BY <1>1, <1>3, OwedCommands
    <2>2. \A c \in Command : c.kind \in Done("failSave")
      BY DEF Done, Command
    <2> QED
      BY <1>2, <2>1, <2>2
  <1>8. FailedOK(t)'
    <2>1. CASE row'[t] = row[t]
      BY <1>1, <2>1, FailureStays
    <2>2. CASE row'[t] = entity
      BY <1>1, <1>3, <1>4, <1>7, <2>2 DEF FailedOK, Published
    <2> QED
      BY <1>5, <2>1, <2>2
  <1>9. /\ worker'[w].pc = "idle" /\ worker'[w].saga = NoSaga
        /\ \A v \in Workers \ {w} : worker'[v] = worker[v]
    BY <1>0 DEF FailSave, Return, IdleWorker
  <1>10. (\A s \in Sagas : HoldsCopy(w, s))'
    BY <1>9 DEF HoldsCopy, HoldsRow
  <1> QED
    BY <1>1, <1>2, <1>4, <1>5, <1>6, <1>8, <1>9, <1>10, WorkerSaveKeepsCopyInv

LEMMA NextKeepsCopyInv == NoLateUpdates /\ CopyInv /\ [Next]_vars => CopyInv'
  <1> SUFFICES ASSUME NoLateUpdates, CopyInv, [Next]_vars PROVE CopyInv'
    OBVIOUS
  <1>1. TypeOK'
    BY NextKeepsType DEF CopyInv
  <1>2. CASE UNCHANGED vars
    <2>1. UNCHANGED <<row, events, worker, request, commands>>
      BY <1>2 DEF vars
    <2>2. \A w \in Workers, r \in Requests, s \in Sagas : Updates(r, s) => worker'[w].saga # s
      BY <2>1 DEF CopyInv, ClientOK, UpdatesBeforeFailure
    <2> QED
      BY <1>1, <2>1, <2>2, SameClients, SameHoldings DEF CopyInv
  <1>3. ASSUME NEW w \in Workers, WorkerStep(w) \/ HandlerRaises(w) \/ Crash(w)
        PROVE  CopyInv'
    BY <1>1, <1>3, FetchKeepsCopyInv, LookKeepsCopyInv, StrategyKeepsCopyInv,
       TriggerSaveKeepsCopyInv, FailSaveKeepsCopyInv DEF WorkerStep
  <1>4. ASSUME NEW r \in Requests, BeginRequest(r) \/ RequestStep(r) \/ RequestAborts(r)
        PROVE  CopyInv'
    BY <1>1, <1>4, ClientsKeepCopyInv
  <1>5. ASSUME NEW e \in Events, PublishFailure(e) \/ AutoCommit(e) \/ Redeliver(e)
        PROVE  CopyInv'
    BY <1>1, <1>5, EventsKeepCopyInv
  <1> QED
    BY <1>2, <1>3, <1>4, <1>5 DEF Next

LEMMA CopiesAreTrue ==
    ASSUME NoLateUpdates PROVE Spec => []CopyInv
  <1>1. CopyInv /\ [Next]_vars => CopyInv'
    BY NextKeepsCopyInv
  <1> QED
    BY <1>1, InitCopyInv, PTL DEF Spec

(***************************************************************************)
(* A saga is recorded as failed only after every command its failure calls *)
(* for is on its topic, for the warehouse and the delivery the row names:  *)
(* with any number of instances racing, raising and stopping in the middle *)
(* of the strategy, as long as no client updates a saga beside or after    *)
(* the report of its failure and none posts one twice.                     *)
(***************************************************************************)
THEOREM FailedSagasAreCompensated ==
    ASSUME NoLateUpdates PROVE Spec => []FailedMeansCompensated
  <1>1. CopyInv => FailedMeansCompensated
    BY DEF CopyInv, FailedOK, FailedMeansCompensated
  <1> QED
    BY <1>1, CopiesAreTrue, PTL
=============================================================================
