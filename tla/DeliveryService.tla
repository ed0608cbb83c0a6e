--------------------------- MODULE DeliveryService ---------------------------
(***************************************************************************)
(* The delivery service: the couriers and deliveries tables, the HTTP      *)
(* handlers that write them and the worker that undoes a delivery when the *)
(* saga coordinator sends courier.unassign.                                *)
(*                                                                         *)
(* A handler awaits between its SELECTs and its write, so each of them is  *)
(* a step; pc names the statement a handler is about to run.  The first    *)
(* SELECT is taken together with the arrival of the request.  The events a *)
(* handler publishes after its write change nothing here and are left out. *)
(***************************************************************************)
EXTENDS Naturals, Sequences

CONSTANTS
    Couriers,         \* courier identifiers, uuid4
    Deliveries,       \* delivery identifiers, uuid4
    Requests,         \* HTTP handlers that can be running at the same time
    CheckedStatuses,  \* the statuses ck_delivery_status admits
    QueueLimit,       \* bound on the commands waiting in delivery.commands
    MaxStops,         \* bound on the stops of the service
    None,             \* no courier, no identifier
    NoRow             \* the result of a SELECT that finds nothing

DeliveryStatus == {"assigned", "in_transit", "delivered", "confirmed"}

Delivery == [courier : Couriers, status : DeliveryStatus]

ASSUME DeliveryConstants ==
    /\ None \notin Couriers \cup Deliveries
    /\ Couriers \cap Deliveries = {}
    /\ NoRow \notin Delivery
    /\ QueueLimit \in Nat \ {0}
    /\ MaxStops \in Nat

VARIABLES
    couriers,    \* the couriers table: the identifiers it holds
    deliveries,  \* the deliveries table
    issued,      \* the identifiers uuid4 has given out
    request,     \* the local state of each running handler
    commands,    \* the topic delivery.commands: the deliveries to unassign
    worker,      \* the local state of the command worker
    dropped,     \* deliveries whose command raised or was lost in a stop
    stops        \* how often the service was stopped

vars == <<couriers, deliveries, issued, request, commands, worker, dropped, stops>>

Stored == {d \in Deliveries : deliveries[d] # NoRow}

IdleRequest == [pc |-> "idle", id |-> None, entity |-> NoRow, courier |-> None]

IdleWorker == [pc |-> "idle", id |-> None]

Init ==
    /\ couriers = {}
    /\ deliveries = [d \in Deliveries |-> NoRow]
    /\ issued = {}
    /\ request = [r \in Requests |-> IdleRequest]
    /\ commands = <<>>
    /\ worker = IdleWorker
    /\ dropped = {}
    /\ stops = 0

-----------------------------------------------------------------------------
(* The entity and the operations of the service that change it. *)

UpdateStatus(entity, status) == [entity EXCEPT !.status = status]

(* A slip: the status of shipments is written to a delivery. *)
MarkDeliveredAsCompleted(entity) == UpdateStatus(entity, "completed")

MarkDelivered(entity) == UpdateStatus(entity, "delivered")

(* What update_entity_from_dto can make of a row: actual_arrival delivers  *)
(* it whatever status the body carries.                                    *)
UpdateEntityFromDto(entity) ==
    {entity, MarkDelivered(entity)} \cup {UpdateStatus(entity, s) : s \in DeliveryStatus}

(* The results of the service's operations, empty when they refuse.        *)
MarkAsReceived(entity) == IF entity.status = "delivered" THEN {} ELSE {entity}

MarkAsReadyForDelivery(entity) == {entity}

MarkAsInTransit(entity) ==
    IF entity.status = "delivered" THEN {} ELSE {UpdateStatus(entity, "in_transit")}

MarkAsDelivered(entity) == {MarkDelivered(entity)}

MarkAsCompleted(entity) ==
    IF entity.status = "delivered" THEN {UpdateStatus(entity, "confirmed")} ELSE {}

ReassignCourier(entity) ==
    IF entity.status \in {"delivered", "confirmed"}
    THEN {} ELSE {[entity EXCEPT !.courier = c] : c \in Couriers}

-----------------------------------------------------------------------------
(* The tables. *)

(* A slip: the foreign key is created ON DELETE CASCADE or dropped. *)
ErasableWithoutKey(c) == TRUE

(* ON DELETE RESTRICT. *)
Erasable(c) == \A d \in Stored : deliveries[d].courier # c

(* The foreign key and the CHECK constraint. *)
Storable(entity) == entity.courier \in couriers /\ entity.status \in CheckedStatuses

SaveRow(d, entity) ==
    deliveries' = IF Storable(entity) THEN [deliveries EXCEPT ![d] = entity] ELSE deliveries

DeleteRow(d) == deliveries' = [deliveries EXCEPT ![d] = NoRow]

SaveCourierRow(c) == couriers' = couriers \cup {c}

DeleteCourierRow(c) == couriers' = IF Erasable(c) THEN couriers \ {c} ELSE couriers

-----------------------------------------------------------------------------
(* The handlers of deliveries. *)

Await(r, pc, id, entity) ==
    request' = [request EXCEPT ![r] =
                   [pc |-> pc, id |-> id, entity |-> entity, courier |-> None]]

Finish(r) == request' = [request EXCEPT ![r] = IdleRequest]

Tables == <<couriers, deliveries>>
Others == <<commands, worker, dropped, stops>>

CreateDelivery(r) ==
    /\ request[r].pc = "idle"
    /\ \E d \in Deliveries \ issued, c \in couriers, s \in DeliveryStatus :
          /\ issued' = issued \cup {d}
          /\ Await(r, "save", d, [courier |-> c, status |-> s])
    /\ UNCHANGED <<Tables, Others>>

UpdateDelivery(r) ==
    /\ request[r].pc = "idle"
    /\ \E d \in Stored : \E entity \in UpdateEntityFromDto(deliveries[d]) :
          \/ Await(r, "update", d, entity)
          \/ \E c \in Couriers \ {entity.courier} :
                request' = [request EXCEPT ![r] =
                    [pc |-> "lookup", id |-> d, entity |-> entity, courier |-> c]]
    /\ UNCHANGED <<Tables, issued, Others>>

LookupCourier(r) ==
    /\ request[r].pc = "lookup"
    /\ LET q == request[r] IN
          IF q.courier \in couriers
          THEN Await(r, "update", q.id, [q.entity EXCEPT !.courier = q.courier])
          ELSE Finish(r)
    /\ UNCHANGED <<Tables, issued, Others>>

(* A slip: update saves without looking for the row first. *)
ServiceUpdateUnchecked(r) ==
    /\ request[r].pc = "update"
    /\ Await(r, "save", request[r].id, request[r].entity)
    /\ UNCHANGED <<Tables, issued, Others>>

ServiceUpdate(r) ==
    /\ request[r].pc = "update"
    /\ IF request[r].id \in Stored
       THEN Await(r, "save", request[r].id, request[r].entity)
       ELSE Finish(r)
    /\ UNCHANGED <<Tables, issued, Others>>

SaveDelivery(r) ==
    /\ request[r].pc = "save"
    /\ SaveRow(request[r].id, request[r].entity)
    /\ Finish(r)
    /\ UNCHANGED <<couriers, issued, Others>>

DeleteDelivery(r) ==
    /\ request[r].pc = "idle"
    /\ \E d \in Stored : Await(r, "delete", d, NoRow)
    /\ UNCHANGED <<Tables, issued, Others>>

ServiceDelete(r) ==
    /\ request[r].pc = "delete"
    /\ IF request[r].id \in Stored THEN Await(r, "erase", request[r].id, NoRow) ELSE Finish(r)
    /\ UNCHANGED <<Tables, issued, Others>>

EraseDelivery(r) ==
    /\ request[r].pc = "erase"
    /\ DeleteRow(request[r].id)
    /\ Finish(r)
    /\ UNCHANGED <<couriers, issued, Others>>

StartDelivery(r) ==
    /\ request[r].pc = "idle"
    /\ \E d \in Stored : Await(r, "start", d, NoRow)
    /\ UNCHANGED <<Tables, issued, Others>>

(* mark_as_in_transit reads the delivery again and then saves it. *)
StartRead(r) ==
    /\ request[r].pc = "start"
    /\ LET d == request[r].id IN
          \/ /\ d \in Stored
             /\ \E entity \in MarkAsInTransit(deliveries[d]) : Await(r, "save", d, entity)
          \/ /\ d \in Stored => MarkAsInTransit(deliveries[d]) = {}
             /\ Finish(r)
    /\ UNCHANGED <<Tables, issued, Others>>

CompleteDelivery(r) ==
    /\ request[r].pc = "idle"
    /\ \E d \in Stored : Await(r, "update", d, MarkDelivered(deliveries[d]))
    /\ UNCHANGED <<Tables, issued, Others>>

(* The operations of DeliveryService no handler calls yet. *)
ServiceCall(r) ==
    /\ request[r].pc = "idle"
    /\ \E d \in Stored :
          \E entity \in UNION {MarkAsReceived(deliveries[d]),
                               MarkAsReadyForDelivery(deliveries[d]),
                               MarkAsDelivered(deliveries[d]),
                               MarkAsCompleted(deliveries[d]),
                               ReassignCourier(deliveries[d])} :
             Await(r, "save", d, entity)
    /\ UNCHANGED <<Tables, issued, Others>>

-----------------------------------------------------------------------------
(* The handlers of couriers. *)

CreateCourier(r) ==
    /\ request[r].pc = "idle"
    /\ \E c \in Couriers \ issued :
          /\ issued' = issued \cup {c}
          /\ Await(r, "save_courier", c, NoRow)
    /\ UNCHANGED <<Tables, Others>>

UpdateCourier(r) ==
    /\ request[r].pc = "idle"
    /\ \E c \in couriers : Await(r, "update_courier", c, NoRow)
    /\ UNCHANGED <<Tables, issued, Others>>

ServiceUpdateCourier(r) ==
    /\ request[r].pc = "update_courier"
    /\ IF request[r].id \in couriers
       THEN Await(r, "save_courier", request[r].id, NoRow)
       ELSE Finish(r)
    /\ UNCHANGED <<Tables, issued, Others>>

(* The operation of CourierService no handler calls yet. *)
UpdateContactInfo(r) ==
    /\ request[r].pc = "idle"
    /\ \E c \in couriers : Await(r, "save_courier", c, NoRow)
    /\ UNCHANGED <<Tables, issued, Others>>

SaveCourier(r) ==
    /\ request[r].pc = "save_courier"
    /\ SaveCourierRow(request[r].id)
    /\ Finish(r)
    /\ UNCHANGED <<deliveries, issued, Others>>

DeleteCourier(r) ==
    /\ request[r].pc = "idle"
    /\ \E c \in couriers : Await(r, "delete_courier", c, NoRow)
    /\ UNCHANGED <<Tables, issued, Others>>

ServiceDeleteCourier(r) ==
    /\ request[r].pc = "delete_courier"
    /\ IF request[r].id \in couriers
       THEN Await(r, "erase_courier", request[r].id, NoRow)
       ELSE Finish(r)
    /\ UNCHANGED <<Tables, issued, Others>>

EraseCourier(r) ==
    /\ request[r].pc = "erase_courier"
    /\ DeleteCourierRow(request[r].id)
    /\ Finish(r)
    /\ UNCHANGED <<deliveries, issued, Others>>

(* A statement raises, or the client goes away and its handler is cancelled. *)
RequestAborts(r) ==
    /\ request[r].pc # "idle"
    /\ Finish(r)
    /\ UNCHANGED <<Tables, issued, Others>>

-----------------------------------------------------------------------------
(* The command worker. *)

Unchanged == <<couriers, issued, request, stops>>

(* The coordinator sends the command, or sends it again after a timeout. *)
PublishUnassign ==
    /\ Len(commands) < QueueLimit
    /\ \E d \in issued \cap Deliveries : commands' = Append(commands, d)
    /\ UNCHANGED <<deliveries, worker, dropped, Unchanged>>

TakeCommand ==
    /\ worker.pc = "idle"
    /\ commands # <<>>
    /\ worker' = [pc |-> "delete", id |-> Head(commands)]
    /\ commands' = Tail(commands)
    /\ UNCHANGED <<deliveries, dropped, Unchanged>>

(* A slip: a delivery that is on the road is kept. *)
UnassignReadUnlessMoving ==
    /\ worker.pc = "delete"
    /\ worker' = IF worker.id \in Stored /\ deliveries[worker.id].status # "in_transit"
                 THEN [worker EXCEPT !.pc = "erase"] ELSE IdleWorker
    /\ UNCHANGED <<deliveries, commands, dropped, Unchanged>>

(* DeliveryNotFoundError is caught: the delivery is gone already. *)
UnassignRead ==
    /\ worker.pc = "delete"
    /\ worker' = IF worker.id \in Stored THEN [worker EXCEPT !.pc = "erase"] ELSE IdleWorker
    /\ UNCHANGED <<deliveries, commands, dropped, Unchanged>>

UnassignErase ==
    /\ worker.pc = "erase"
    /\ DeleteRow(worker.id)
    /\ worker' = IdleWorker
    /\ UNCHANGED <<commands, dropped, Unchanged>>

(* Any other error is logged and the loop takes the next command. *)
WorkerRaises ==
    /\ worker.pc # "idle"
    /\ dropped' = dropped \cup {worker.id}
    /\ worker' = IdleWorker
    /\ UNCHANGED <<deliveries, commands, Unchanged>>

(* The service stops and starts again.  Its handlers are lost; a command   *)
(* that was taken is lost too, or delivered again if its offset was not    *)
(* committed.                                                              *)
Restart ==
    /\ stops < MaxStops
    /\ stops' = stops + 1
    /\ request' = [r \in Requests |-> IdleRequest]
    /\ worker' = IdleWorker
    /\ IF worker.pc = "idle"
       THEN UNCHANGED <<commands, dropped>>
       ELSE \/ commands' = <<worker.id>> \o commands /\ UNCHANGED dropped
            \/ dropped' = dropped \cup {worker.id} /\ UNCHANGED commands
    /\ UNCHANGED <<couriers, deliveries, issued>>

-----------------------------------------------------------------------------
DeliveryHandler(r) ==
    \/ CreateDelivery(r) \/ UpdateDelivery(r) \/ LookupCourier(r) \/ ServiceUpdate(r)
    \/ SaveDelivery(r) \/ DeleteDelivery(r) \/ ServiceDelete(r) \/ EraseDelivery(r)
    \/ StartDelivery(r) \/ StartRead(r) \/ CompleteDelivery(r) \/ ServiceCall(r)

CourierHandler(r) ==
    \/ CreateCourier(r) \/ UpdateCourier(r) \/ ServiceUpdateCourier(r)
    \/ UpdateContactInfo(r) \/ SaveCourier(r) \/ DeleteCourier(r)
    \/ ServiceDeleteCourier(r) \/ EraseCourier(r)

Worker == TakeCommand \/ UnassignRead \/ UnassignErase

Next ==
    \/ \E r \in Requests : DeliveryHandler(r) \/ CourierHandler(r) \/ RequestAborts(r)
    \/ PublishUnassign
    \/ Worker
    \/ WorkerRaises
    \/ Restart

Spec == Init /\ [][Next]_vars

(* The event loop gives the worker's task its turn; nobody has to send a   *)
(* request.                                                                *)
LiveSpec == Spec /\ WF_vars(Worker)

-----------------------------------------------------------------------------
RequestState ==
    [pc : {"idle"}, id : {None}, entity : {NoRow}, courier : {None}]
        \cup [pc : {"update", "save"}, id : Deliveries, entity : Delivery, courier : {None}]
        \cup [pc : {"lookup"}, id : Deliveries, entity : Delivery, courier : Couriers]
        \cup [pc : {"start", "delete", "erase"}, id : Deliveries, entity : {NoRow}, courier : {None}]
        \cup [pc : {"update_courier", "save_courier", "delete_courier", "erase_courier"},
              id : Couriers, entity : {NoRow}, courier : {None}]

WorkerState == {IdleWorker} \cup [pc : {"delete", "erase"}, id : Deliveries]

(* Every variable has its type; a request holds the row its step needs.    *)
TypeOK ==
    /\ couriers \subseteq Couriers
    /\ deliveries \in [Deliveries -> Delivery \cup {NoRow}]
    /\ issued \subseteq Couriers \cup Deliveries
    /\ request \in [Requests -> RequestState]
    /\ commands \in Seq(Deliveries)
    /\ worker \in WorkerState
    /\ dropped \subseteq Deliveries
    /\ stops \in 0 .. MaxStops

(* Whoever deletes a courier while deliveries are created, reassigned and  *)
(* saved from stale copies: a stored delivery has a stored courier, so the *)
(* JOIN of every SELECT finds it.                                          *)
CourierOfDelivery == \A d \in Stored : deliveries[d].courier \in couriers

(* No row and nobody past the last look at it: x was deleted for good.     *)
Gone(x) ==
    /\ x \in issued
    /\ x \notin Stored \cup couriers
    /\ \A r \in Requests : request[r].pc \in {"save", "save_courier"} => request[r].id # x

(* A delivery the saga undid, or a courier that was removed, does not come *)
(* back: only a save that was already past its check can undo a DELETE.    *)
DeletedStaysDeleted ==
    [][\A x \in Couriers \cup Deliveries : Gone(x) => Gone(x)']_vars

Ordered(d) ==
    \/ worker.pc # "idle" /\ worker.id = d
    \/ \E i \in DOMAIN commands : commands[i] = d

(* A courier.unassign command that reached the topic takes its delivery    *)
(* away, whatever its status and whoever writes it, unless the error was   *)
(* logged or the service stopped.                                          *)
UnassignTakesEffect ==
    \A d \in Deliveries : Ordered(d) ~> deliveries[d] = NoRow \/ d \in dropped
=============================================================================
