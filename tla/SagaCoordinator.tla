--------------------------- MODULE SagaCoordinator ---------------------------
(***************************************************************************)
(* The saga coordinator: the saga_instances table, the compensation worker *)
(* of every running instance of the service, the HTTP handlers that write  *)
(* the table, the failure-event topics the workers consume and the command *)
(* topics they publish to.                                                 *)
(*                                                                         *)
(* Every database statement and every publish is one step: the code awaits *)
(* between them, and the worker, the handlers and other instances of the   *)
(* service interleave there.                                               *)
(***************************************************************************)
EXTENDS Naturals

CONSTANTS
    Sagas,            \* saga identifiers, the correlation_id of the events
    Warehouses,       \* warehouse identifiers a client may register
    Deliveries,       \* delivery identifiers a client may register
    Workers,          \* one compensation worker per running instance
    Events,           \* the failure events that may be reported
    Requests,         \* HTTP requests; each is served once
    RequestKinds,     \* the operations those requests call
    Env,              \* what the surroundings may do, see EnvOptions
    CheckedStatuses,  \* the statuses the CHECK constraint of the table admits
    MaxCopies,        \* copies of a command one publish_command may leave
    None,             \* the absent warehouse_id, delivery_id or failed_step
    NoSaga,           \* the absent correlation_id
    NoRow             \* the result of a SELECT that finds nothing

(***************************************************************************)
(* overlap    a PATCH may overlap or follow the report of a failure        *)
(* parallel   requests that update one saga may overlap each other         *)
(* repost     a POST may name a saga that exists already (a client retry)  *)
(* error      a database or broker call may raise                          *)
(* crash      an instance may stop in the middle of a handler              *)
(* redeliver  an uncommitted event may be delivered again                  *)
(***************************************************************************)
EnvOptions == {"overlap", "parallel", "repost", "error", "crash", "redeliver"}

SagaStatus == {"started", "completed", "failed", "compensating"}
FailureTypes == {"inventory.insufficient", "delivery.failed", "courier.unassigned"}
Kinds == {"create", "patch", "complete"}

SagaRow == [status     : SagaStatus,
            warehouse  : Warehouses \cup {None},
            delivery   : Deliveries \cup {None},
            failedStep : FailureTypes \cup {None}]

Context == [warehouse : Warehouses \cup {None}, delivery : Deliveries \cup {None}]

Command ==
    [kind : {"unassign"}, saga : Sagas, target : Deliveries]
        \cup [kind : {"release"}, saga : Sagas, target : Warehouses]
        \cup [kind : {"cancel"}, saga : Sagas, target : {None}]

ASSUME SagaConstants ==
    /\ None \notin Warehouses \cup Deliveries \cup FailureTypes
    /\ NoSaga \notin Sagas
    /\ NoRow \notin SagaRow
    /\ Events \subseteq [saga : Sagas \cup {NoSaga}, type : FailureTypes]
    /\ RequestKinds \subseteq Kinds
    /\ Env \subseteq EnvOptions
    /\ MaxCopies \in Nat \ {0}

VARIABLES
    row,       \* the saga_instances table
    events,    \* the failure events: absent, queued, or fetched and uncommitted
    worker,    \* the local state of each compensation worker
    request,   \* the local state of each HTTP handler
    commands   \* how many copies of each command its topic holds

vars == <<row, events, worker, request, commands>>

NoContext == [warehouse |-> None, delivery |-> None]

IdleWorker == [pc |-> "idle", saga |-> NoSaga, type |-> None, entity |-> NoRow]

NewRequest == [pc |-> "new", kind |-> None, saga |-> NoSaga,
               context |-> NoContext, entity |-> NoRow]

DoneRequest == [NewRequest EXCEPT !.pc = "done"]

Init ==
    /\ row = [s \in Sagas |-> NoRow]
    /\ events = [e \in Events |-> "absent"]
    /\ worker = [w \in Workers |-> IdleWorker]
    /\ request = [r \in Requests |-> NewRequest]
    /\ commands = [c \in Command |-> 0]

-----------------------------------------------------------------------------
(***************************************************************************)
(* The repository's UPSERT.  It replaces the whole mutable part of the row *)
(* and is refused when the CHECK constraint does not admit the status.     *)
(***************************************************************************)
Admitted(entity) == entity.status \in CheckedStatuses

Save(s, entity) ==
    row' = IF Admitted(entity) THEN [row EXCEPT ![s] = entity] ELSE row

NewEntity(context) ==
    [status |-> "started", warehouse |-> context.warehouse,
     delivery |-> context.delivery, failedStep |-> None]

MarkCompleted(entity) == [entity EXCEPT !.status = "completed"]

MarkFailed(entity, step) ==
    [entity EXCEPT !.status = "failed", !.failedStep = step]

(* A slip: the two assignments of mark_compensating are swapped. *)
MarkCompensatingSwapped(entity, step) ==
    [entity EXCEPT !.status = step, !.failedStep = "compensating"]

(* A slip: mark_compensating leaves the status as it was. *)
MarkCompensatingInMemory(entity, step) == [entity EXCEPT !.failedStep = step]

MarkCompensating(entity, step) ==
    [entity EXCEPT !.status = "compensating", !.failedStep = step]

(* An identifier that is given replaces the stored one. *)
Given(id, stored) == IF id # None THEN id ELSE stored

OverRow(context, entity) ==
    [warehouse |-> Given(context.warehouse, entity.warehouse),
     delivery  |-> Given(context.delivery, entity.delivery)]

MergeContext(entity, context) ==
    [entity EXCEPT !.warehouse = Given(context.warehouse, entity.warehouse),
                   !.delivery = Given(context.delivery, entity.delivery)]

-----------------------------------------------------------------------------
(* The HTTP handlers. *)

InFlight(r) == request[r].pc \notin {"new", "done"}

NoneInFlight(s, kinds) ==
    \A r \in Requests : InFlight(r) /\ request[r].saga = s => request[r].kind \notin kinds

(* No failure of s is reported, being handled or already handled. *)
NoFailureOf(s) ==
    /\ \A e \in Events : e.saga = s => events[e] = "absent"
    /\ \A w \in Workers : worker[w].saga # s
    /\ row[s] # NoRow => row[s].status = "started"

BeginCreate(r, s, context) ==
    /\ "create" \in RequestKinds
    /\ request[r].pc = "new"
    /\ "repost" \in Env \/ (row[s] = NoRow /\ NoneInFlight(s, {"create"}))
    /\ request' = [request EXCEPT ![r] =
                     [pc |-> "save", kind |-> "create", saga |-> s,
                      context |-> context, entity |-> NewEntity(context)]]
    /\ UNCHANGED <<row, events, worker, commands>>

BeginPatch(r, s, context) ==
    /\ "patch" \in RequestKinds
    /\ request[r].pc = "new"
    /\ "overlap" \in Env \/ NoFailureOf(s)
    /\ "parallel" \in Env \/ NoneInFlight(s, {"patch", "complete"})
    /\ request' = [request EXCEPT ![r] =
                     [pc |-> "read", kind |-> "patch", saga |-> s,
                      context |-> context, entity |-> NoRow]]
    /\ UNCHANGED <<row, events, worker, commands>>

BeginComplete(r, s) ==
    /\ "complete" \in RequestKinds
    /\ request[r].pc = "new"
    /\ "overlap" \in Env \/ NoFailureOf(s)
    /\ "parallel" \in Env \/ NoneInFlight(s, {"patch"})
    /\ request' = [request EXCEPT ![r] =
                     [pc |-> "reread", kind |-> "complete", saga |-> s,
                      context |-> NoContext, entity |-> NoRow]]
    /\ UNCHANGED <<row, events, worker, commands>>

(* The handler's own get: 404, or the DTO merged over what was read. *)
PatchRead(r) ==
    LET found == row[request[r].saga]
    IN  /\ request[r].pc = "read"
        /\ request' = [request EXCEPT ![r] =
             IF found = NoRow
             THEN DoneRequest
             ELSE [request[r] EXCEPT !.pc = "reread",
                                     !.context = OverRow(request[r].context, found)]]
        /\ UNCHANGED <<row, events, worker, commands>>

(* The get of update_context: the values merged above go into a new copy,
   which is saved if there was a value at all, whatever the DTO named. *)
UpdateContextRead(r) ==
    LET found == row[request[r].saga]
    IN  /\ request[r].pc = "reread" /\ request[r].kind = "patch"
        /\ request' = [request EXCEPT ![r] =
             IF found = NoRow \/ request[r].context = NoContext
             THEN DoneRequest
             ELSE [request[r] EXCEPT !.pc = "save", !.entity = MergeContext(found, request[r].context)]]
        /\ UNCHANGED <<row, events, worker, commands>>

(* The get of complete_saga, which the service offers and no handler of the
   repository calls: nothing is written unless the saga is STARTED. *)
CompleteRead(r) ==
    LET found == row[request[r].saga]
    IN  /\ request[r].pc = "reread" /\ request[r].kind = "complete"
        /\ request' = [request EXCEPT ![r] =
             IF found = NoRow \/ found.status # "started"
             THEN DoneRequest
             ELSE [request[r] EXCEPT !.pc = "save", !.entity = MarkCompleted(found)]]
        /\ UNCHANGED <<row, events, worker, commands>>

RequestSave(r) ==
    /\ request[r].pc = "save"
    /\ Save(request[r].saga, request[r].entity)
    /\ request' = [request EXCEPT ![r] = DoneRequest]
    /\ UNCHANGED <<events, worker, commands>>

(* A database call raises, or the instance stops: the request is answered
   with an error or not at all, and what it had not yet written is lost. *)
RequestAborts(r) ==
    /\ Env \cap {"error", "crash"} # {}
    /\ InFlight(r)
    /\ request' = [request EXCEPT ![r] = DoneRequest]
    /\ UNCHANGED <<row, events, worker, commands>>

-----------------------------------------------------------------------------
(* The failure-event topics: a consumer group with automatic commits. *)

PublishFailure(e) ==
    /\ events[e] = "absent"
    /\ "overlap" \in Env \/ NoneInFlight(e.saga, Kinds)
    /\ events' = [events EXCEPT ![e] = "queued"]
    /\ UNCHANGED <<row, worker, request, commands>>

(* The offset of a fetched event is committed in the background, whether or
   not its handler has returned. *)
AutoCommit(e) ==
    /\ events[e] = "fetched"
    /\ events' = [events EXCEPT ![e] = "absent"]
    /\ UNCHANGED <<row, worker, request, commands>>

Redeliver(e) ==
    /\ "redeliver" \in Env
    /\ events[e] = "fetched"
    /\ events' = [events EXCEPT ![e] = "queued"]
    /\ UNCHANGED <<row, worker, request, commands>>

-----------------------------------------------------------------------------
(* The compensation worker. *)

(* A partition has one consumer, which takes its events in order; only a
   rebalance lets a second instance take an event while it is handled. *)
MayBeTaken(e) ==
    "redeliver" \in Env
        \/ \A v \in Workers : worker[v].saga = e.saga => worker[v].type # e.type

(* run takes the next event; one without a correlation_id is skipped. *)
Fetch(w, e) ==
    /\ worker[w].pc = "idle"
    /\ events[e] = "queued"
    /\ MayBeTaken(e)
    /\ events' = [events EXCEPT ![e] = "fetched"]
    /\ worker' = [worker EXCEPT ![w] =
                    IF e.saga = NoSaga
                    THEN IdleWorker
                    ELSE [pc |-> "read", saga |-> e.saga, type |-> e.type, entity |-> NoRow]]
    /\ UNCHANGED <<row, request, commands>>

Return(w) == worker' = [worker EXCEPT ![w] = IdleWorker]

Goto(w, pc) == worker' = [worker EXCEPT ![w].pc = pc]

(* A slip: "compensating" missing from the statuses that end the handler. *)
HandleReadResuming(w) ==
    LET found == row[worker[w].saga]
    IN  /\ worker[w].pc = "read"
        /\ IF found = NoRow \/ found.status \in {"completed", "failed"}
           THEN Return(w)
           ELSE Goto(w, "triggerRead")
        /\ UNCHANGED <<row, events, request, commands>>

(* _handle_failure_event: the status check that decides whether to act. *)
HandleRead(w) ==
    LET found == row[worker[w].saga]
    IN  /\ worker[w].pc = "read"
        /\ IF found = NoRow \/ found.status \in {"completed", "compensating", "failed"}
           THEN Return(w)
           ELSE Goto(w, "triggerRead")
        /\ UNCHANGED <<row, events, request, commands>>

(* trigger_compensation reads the row again and refuses a finished saga. *)
TriggerRead(w) ==
    LET found == row[worker[w].saga]
    IN  /\ worker[w].pc = "triggerRead"
        /\ IF found = NoRow \/ found.status \in {"completed", "failed"}
           THEN Return(w)
           ELSE worker' = [worker EXCEPT ![w].pc = "triggerSave",
                                         ![w].entity = MarkCompensating(found, worker[w].type)]
        /\ UNCHANGED <<row, events, request, commands>>

(* A slip: courier.unassigned handled like inventory.insufficient. *)
FirstCallForgettingStock(type) ==
    IF type = "delivery.failed" THEN "unassign" ELSE "cancel"

(* The first call of the strategy that _execute_compensation_strategy
   selects; each strategy is a suffix of unassign, release, cancel. *)
FirstCall(type) ==
    CASE type = "delivery.failed" -> "unassign"
      [] type = "courier.unassigned" -> "release"
      [] type = "inventory.insufficient" -> "cancel"

TriggerSave(w) ==
    /\ worker[w].pc = "triggerSave"
    /\ Save(worker[w].saga, worker[w].entity)
    /\ IF Admitted(worker[w].entity)
       THEN Goto(w, FirstCall(worker[w].type))
       ELSE Return(w)
    /\ UNCHANGED <<events, request, commands>>

Publish(kind, s, target) ==
    LET c == [kind |-> kind, saga |-> s, target |-> target]
    IN  \E n \in 1 .. MaxCopies : commands' = [commands EXCEPT ![c] = @ + n]

(* _compensate_delivery: skipped without a delivery_id. *)
UnassignCourier(w) ==
    LET saga == worker[w].entity
    IN  /\ worker[w].pc = "unassign"
        /\ IF saga.delivery = None
           THEN UNCHANGED commands
           ELSE Publish("unassign", worker[w].saga, saga.delivery)
        /\ Goto(w, "release")
        /\ UNCHANGED <<row, events, request>>

(* A slip: a saga without a warehouse_id ends the strategy. *)
ReleaseInventoryOrGiveUp(w) ==
    LET saga == worker[w].entity
    IN  /\ worker[w].pc = "release"
        /\ IF saga.warehouse = None
           THEN Goto(w, "failRead") /\ UNCHANGED commands
           ELSE Goto(w, "cancel") /\ Publish("release", worker[w].saga, saga.warehouse)
        /\ UNCHANGED <<row, events, request>>

(* _compensate_inventory: skipped without a warehouse_id. *)
ReleaseInventory(w) ==
    LET saga == worker[w].entity
    IN  /\ worker[w].pc = "release"
        /\ IF saga.warehouse = None
           THEN UNCHANGED commands
           ELSE Publish("release", worker[w].saga, saga.warehouse)
        /\ Goto(w, "cancel")
        /\ UNCHANGED <<row, events, request>>

(* _compensate_shipment. *)
CancelShipment(w) ==
    /\ worker[w].pc = "cancel"
    /\ Publish("cancel", worker[w].saga, None)
    /\ Goto(w, "failRead")
    /\ UNCHANGED <<row, events, request>>

(* A slip: fail_saga refuses a saga whose status is not COMPENSATING. *)
FailReadIfCompensating(w) ==
    LET found == row[worker[w].saga]
    IN  /\ worker[w].pc = "failRead"
        /\ IF found = NoRow \/ found.status # "compensating"
           THEN Return(w)
           ELSE worker' = [worker EXCEPT ![w].pc = "failSave",
                                         ![w].entity = MarkFailed(found, worker[w].type)]
        /\ UNCHANGED <<row, events, request, commands>>

(* A slip: fail_saga marks the row the strategy was given. *)
FailGivenRow(w) ==
    LET found == row[worker[w].saga]
    IN  /\ worker[w].pc = "failRead"
        /\ IF found = NoRow
           THEN Return(w)
           ELSE worker' = [worker EXCEPT ![w].pc = "failSave",
                                         ![w].entity = MarkFailed(worker[w].entity, worker[w].type)]
        /\ UNCHANGED <<row, events, request, commands>>

(* fail_saga: get, mark_failed whatever the status, save. *)
FailRead(w) ==
    LET found == row[worker[w].saga]
    IN  /\ worker[w].pc = "failRead"
        /\ IF found = NoRow
           THEN Return(w)
           ELSE worker' = [worker EXCEPT ![w].pc = "failSave",
                                         ![w].entity = MarkFailed(found, worker[w].type)]
        /\ UNCHANGED <<row, events, request, commands>>

FailSave(w) ==
    /\ worker[w].pc = "failSave"
    /\ Save(worker[w].saga, worker[w].entity)
    /\ Return(w)
    /\ UNCHANGED <<events, request, commands>>

(* A call raises: run logs the exception and goes on with the next event. *)
HandlerRaises(w) ==
    /\ "error" \in Env
    /\ worker[w].pc # "idle"
    /\ Return(w)
    /\ UNCHANGED <<row, events, request, commands>>

(* The instance stops in the middle of a handler and is started again: an
   event whose offset was not committed is delivered once more. *)
Crash(w) ==
    LET e == [saga |-> worker[w].saga, type |-> worker[w].type]
    IN  /\ "crash" \in Env
        /\ worker[w].pc # "idle"
        /\ Return(w)
        /\ events' = [events EXCEPT ![e] = IF @ = "fetched" THEN "queued" ELSE @]
        /\ UNCHANGED <<row, request, commands>>

-----------------------------------------------------------------------------
WorkerStep(w) ==
    \/ \E e \in Events : Fetch(w, e)
    \/ HandleRead(w)
    \/ TriggerRead(w)
    \/ TriggerSave(w)
    \/ UnassignCourier(w)
    \/ ReleaseInventory(w)
    \/ CancelShipment(w)
    \/ FailRead(w)
    \/ FailSave(w)

RequestStep(r) ==
    \/ PatchRead(r)
    \/ UpdateContextRead(r)
    \/ CompleteRead(r)
    \/ RequestSave(r)

BeginRequest(r) ==
    \E s \in Sagas :
        \/ \E context \in Context : BeginCreate(r, s, context) \/ BeginPatch(r, s, context)
        \/ BeginComplete(r, s)

Next ==
    \/ \E w \in Workers : WorkerStep(w) \/ HandlerRaises(w) \/ Crash(w)
    \/ \E r \in Requests : BeginRequest(r) \/ RequestStep(r) \/ RequestAborts(r)
    \/ \E e \in Events : PublishFailure(e) \/ AutoCommit(e) \/ Redeliver(e)

Spec == Init /\ [][Next]_vars

(* The event loop runs every task that is ready, so a handler that has begun
   and a worker with an event to take go on; nothing makes a client or the
   surroundings act. *)
Fairness ==
    /\ \A w \in Workers : WF_vars(WorkerStep(w))
    /\ \A r \in Requests : WF_vars(RequestStep(r))

LiveSpec == Spec /\ Fairness

-----------------------------------------------------------------------------
(* The local variables a handler and a worker hold at each of their awaits. *)
RequestState ==
    {NewRequest, DoneRequest}
        \cup [pc : {"read"}, kind : {"patch"}, saga : Sagas,
              context : Context, entity : {NoRow}]
        \cup [pc : {"reread"}, kind : {"patch", "complete"}, saga : Sagas,
              context : Context, entity : {NoRow}]
        \cup [pc : {"save"}, kind : Kinds, saga : Sagas,
              context : Context, entity : SagaRow]

WorkerState ==
    {IdleWorker}
        \cup [pc : {"read", "triggerRead"}, saga : Sagas,
              type : FailureTypes, entity : {NoRow}]
        \cup [pc : {"triggerSave", "unassign", "release", "cancel", "failRead", "failSave"},
              saga : Sagas, type : FailureTypes, entity : SagaRow]

(* Every variable ranges over the values its code can hold, so no handler
   reaches a save without a whole row to write. *)
TypeOK ==
    /\ row \in [Sagas -> SagaRow \cup {NoRow}]
    /\ events \in [Events -> {"absent", "queued", "fetched"}]
    /\ worker \in [Workers -> WorkerState]
    /\ request \in [Requests -> RequestState]
    /\ commands \in [Command -> Nat]

(***************************************************************************)
(* The compensation table of the documentation: the commands each failure  *)
(* calls for, less those whose resource the saga never recorded.           *)
(***************************************************************************)
Strategy(type) ==
    CASE type = "delivery.failed" -> {"unassign", "release", "cancel"}
      [] type = "courier.unassigned" -> {"release", "cancel"}
      [] type = "inventory.insufficient" -> {"cancel"}

CommandOf(kind, s, saga) ==
    [kind |-> kind, saga |-> s,
     target |-> CASE kind = "unassign" -> saga.delivery
                  [] kind = "release" -> saga.warehouse
                  [] kind = "cancel" -> None]

Owed(s, saga) ==
    {c \in {CommandOf(kind, s, saga) : kind \in Strategy(saga.failedStep)} :
        c.kind = "cancel" \/ c.target # None}

Published(c) == commands[c] > 0

Status(s) == IF row[s] = NoRow THEN "absent" ELSE row[s].status

(***************************************************************************)
(* A saga is recorded as failed only after the command that cancels its    *)
(* shipment is on its topic, whatever crashes, raises, races or is retried *)
(* between trigger_compensation and fail_saga.                             *)
(***************************************************************************)
FailedMeansCancelled ==
    \A s \in Sagas :
        Status(s) = "failed" => Published([kind |-> "cancel", saga |-> s, target |-> None])

(***************************************************************************)
(* A saga recorded as failed has had every command its failure calls for   *)
(* published, for the warehouse and the delivery its row names.            *)
(***************************************************************************)
FailedMeansCompensated ==
    \A s \in Sagas :
        Status(s) = "failed" => \A c \in Owed(s, row[s]) : Published(c)

(***************************************************************************)
(* One saga is compensated once: no command of it is published by a second *)
(* run of the strategy, so a topic holds at most the copies one publish    *)
(* leaves.                                                                 *)
(***************************************************************************)
CompensatedOnce == \A c \in Command : commands[c] <= MaxCopies

(***************************************************************************)
(* A warehouse or delivery that is on the row, and on every copy a handler *)
(* or the worker is about to write back, stays there whatever overlaps     *)
(* from then on: a worker whose strategy runs on an older row included.    *)
(* Only a second POST of the saga can take it off.                         *)
(***************************************************************************)
Registered(s, field) ==
    /\ row[s] # NoRow /\ row[s][field] # None
    /\ \A r \in Requests :
          request[r].pc = "save" /\ request[r].saga = s => request[r].entity[field] # None
    /\ \A w \in Workers :
          worker[w].pc \in {"triggerSave", "failSave"} /\ worker[w].saga = s =>
              worker[w].entity[field] # None

ContextSurvives ==
    [][\A s \in Sagas, field \in {"warehouse", "delivery"} :
          Registered(s, field) =>
              \/ Registered(s, field)'
              \/ \E r \in Requests, context \in Context : BeginCreate(r, s, context)]_vars

(***************************************************************************)
(* A create request that reaches its INSERT puts the saga in the table.    *)
(***************************************************************************)
CreationIsRecorded ==
    \A r \in Requests, s \in Sagas :
        (request[r].pc = "save" /\ request[r].kind = "create" /\ request[r].saga = s)
            ~> (Status(s) # "absent")

(***************************************************************************)
(* A failure that meets a started saga ends in its compensation, unless a  *)
(* client completes it, whatever is reported, retried or overlaps from     *)
(* then on.  There is no such promise where an update of the saga is about *)
(* to save a copy it read before: that copy may say compensating, and the  *)
(* worker ignores the failure of a saga that is compensating already.      *)
(***************************************************************************)
NoUpdateSaves(s) ==
    \A r \in Requests :
        request[r].pc = "save" /\ request[r].saga = s => request[r].kind = "create"

FailureIsCompensated ==
    \A e \in Events :
        e.saga # NoSaga =>
          (events[e] = "queued" /\ Status(e.saga) = "started" /\ NoUpdateSaves(e.saga))
              ~> (Status(e.saga) \in {"failed", "completed"})

(***************************************************************************)
(* Guaranteed compensation: once handlers stop being interrupted, a saga   *)
(* whose compensation has begun is compensated to the end.                 *)
(***************************************************************************)
InterruptionsCease == <>[][~ \E w \in Workers : HandlerRaises(w) \/ Crash(w)]_vars

CompensationFinishes ==
    InterruptionsCease =>
        \A s \in Sagas : (Status(s) = "compensating") ~> (Status(s) = "failed")

(***************************************************************************)
(* The life of each saga, read off the table and the command topics.       *)
(***************************************************************************)
PlanOf(s) ==
    IF Status(s) \in {"compensating", "failed"}
    THEN {c.kind : c \in Owed(s, row[s])}
    ELSE {}

SentOf(s) == {c.kind : c \in {d \in Command : d.saga = s /\ Published(d)}}

Lifecycle == INSTANCE SagaLifecycle WITH
    status <- [s \in Sagas |-> Status(s)],
    plan <- [s \in Sagas |-> PlanOf(s)],
    sent <- [s \in Sagas |-> SentOf(s)]

(* The coordinator implements the life its documentation describes. *)
ImplementsLifecycle == Lifecycle!Spec
=============================================================================
