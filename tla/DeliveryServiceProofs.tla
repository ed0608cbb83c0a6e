----------------------- MODULE DeliveryServiceProofs -----------------------
(***************************************************************************)
(* Theorems about the delivery service, for any number of couriers,        *)
(* deliveries, handlers and stops, and for any statuses the CHECK          *)
(* constraint admits.                                                      *)
(***************************************************************************)
EXTENDS DeliveryService, TLAPS

LEMMA StatusKeepsDelivery ==
    ASSUME NEW entity \in Delivery, NEW status \in DeliveryStatus
    PROVE  UpdateStatus(entity, status) \in Delivery
  BY DEF UpdateStatus, Delivery

LEMMA MarksKeepDelivery ==
    ASSUME NEW entity \in Delivery
    PROVE  /\ MarkDelivered(entity) \in Delivery
           /\ UpdateEntityFromDto(entity) \subseteq Delivery
           /\ MarkAsReceived(entity) \subseteq Delivery
           /\ MarkAsReadyForDelivery(entity) \subseteq Delivery
           /\ MarkAsInTransit(entity) \subseteq Delivery
           /\ MarkAsDelivered(entity) \subseteq Delivery
           /\ MarkAsCompleted(entity) \subseteq Delivery
  <1>1. /\ "delivered" \in DeliveryStatus
        /\ "confirmed" \in DeliveryStatus
        /\ "in_transit" \in DeliveryStatus
    BY DEF DeliveryStatus
  <1>2. \A s \in DeliveryStatus : UpdateStatus(entity, s) \in Delivery
    BY StatusKeepsDelivery
  <1>3. MarkDelivered(entity) \in Delivery
    BY <1>1, <1>2 DEF MarkDelivered
  <1> QED
    BY <1>1, <1>2, <1>3
    DEF UpdateEntityFromDto, MarkAsReceived, MarkAsReadyForDelivery, MarkAsInTransit,
        MarkAsDelivered, MarkAsCompleted

LEMMA CourierKeepsDelivery ==
    ASSUME NEW entity \in Delivery, NEW c \in Couriers
    PROVE  [entity EXCEPT !.courier = c] \in Delivery
  BY DEF Delivery

LEMMA ReassignKeepsDelivery ==
    ASSUME NEW entity \in Delivery
    PROVE  ReassignCourier(entity) \subseteq Delivery
  BY CourierKeepsDelivery DEF ReassignCourier

(* What a handler holds, by the statement it is about to run.              *)
LEMMA RequestCases ==
    ASSUME NEW q \in RequestState
    PROVE  /\ q.pc \in {"update", "save", "lookup"} => q.id \in Deliveries /\ q.entity \in Delivery
           /\ q.pc = "lookup" => q.courier \in Couriers
           /\ q.pc \in {"start", "delete", "erase"} => q.id \in Deliveries
           /\ q.pc \in {"update_courier", "save_courier", "delete_courier", "erase_courier"}
                => q.id \in Couriers
  BY DEF RequestState

LEMMA WorkerCases ==
    ASSUME worker \in WorkerState, worker.pc # "idle"
    PROVE  /\ worker.id \in Deliveries
           /\ worker.pc \in {"delete", "erase"}
  BY DEF WorkerState, IdleWorker

LEMMA StoredRows ==
    ASSUME TypeOK, NEW d \in Stored
    PROVE  d \in Deliveries /\ deliveries[d] \in Delivery
  BY DEF TypeOK, Stored

LEMMA AwaitKeepsRequests ==
    ASSUME TypeOK, NEW r \in Requests, NEW pc, NEW id, NEW entity,
           [pc |-> pc, id |-> id, entity |-> entity, courier |-> None] \in RequestState,
           Await(r, pc, id, entity)
    PROVE  request' \in [Requests -> RequestState]
  BY DEF TypeOK, Await

LEMMA AwaitDelivery ==
    ASSUME TypeOK, NEW r \in Requests, NEW pc \in {"update", "save"},
           NEW id \in Deliveries, NEW entity \in Delivery, Await(r, pc, id, entity)
    PROVE  request' \in [Requests -> RequestState]
  <1>1. [pc |-> pc, id |-> id, entity |-> entity, courier |-> None] \in RequestState
    BY DEF RequestState
  <1> QED
    BY <1>1, AwaitKeepsRequests

LEMMA AwaitIdentifier ==
    ASSUME TypeOK, NEW r \in Requests, NEW pc, NEW id, Await(r, pc, id, NoRow),
           \/ pc \in {"start", "delete", "erase"} /\ id \in Deliveries
           \/ /\ pc \in {"update_courier", "save_courier", "delete_courier", "erase_courier"}
              /\ id \in Couriers
    PROVE  request' \in [Requests -> RequestState]
  <1>1. [pc |-> pc, id |-> id, entity |-> NoRow, courier |-> None] \in RequestState
    BY DEF RequestState
  <1> QED
    BY <1>1, AwaitKeepsRequests

LEMMA FinishKeepsRequests ==
    ASSUME TypeOK, NEW r \in Requests, Finish(r)
    PROVE  request' \in [Requests -> RequestState]
  <1>1. IdleRequest \in RequestState
    BY DEF IdleRequest, RequestState
  <1> QED
    BY <1>1 DEF TypeOK, Finish

LEMMA SaveRowKeepsTable ==
    ASSUME TypeOK, NEW d \in Deliveries, NEW entity \in Delivery, SaveRow(d, entity)
    PROVE  deliveries' \in [Deliveries -> Delivery \cup {NoRow}]
  BY DEF TypeOK, SaveRow

LEMMA DeleteRowKeepsTable ==
    ASSUME TypeOK, NEW d, DeleteRow(d)
    PROVE  deliveries' \in [Deliveries -> Delivery \cup {NoRow}]
  BY DEF TypeOK, DeleteRow

-----------------------------------------------------------------------------
LEMMA InitTypeOK == Init => TypeOK
  <1> SUFFICES ASSUME Init PROVE TypeOK
    OBVIOUS
  <1>1. IdleRequest \in RequestState
    BY DEF IdleRequest, RequestState
  <1>2. IdleWorker \in WorkerState
    BY DEF WorkerState
  <1>3. commands \in Seq(Deliveries)
    BY DEF Init
  <1>4. stops \in 0 .. MaxStops
    BY DeliveryConstants DEF Init
  <1> QED
    BY <1>1, <1>2, <1>3, <1>4 DEF Init, TypeOK

(* A handler of deliveries changes the tables of couriers and commands not *)
(* at all.                                                                 *)
LEMMA DeliveryHandlerTypeOK ==
    ASSUME TypeOK, NEW r \in Requests, DeliveryHandler(r)
    PROVE  TypeOK'
  <1>1. ASSUME CreateDelivery(r) PROVE TypeOK'
    <2>1. PICK d \in Deliveries, c \in couriers, s \in DeliveryStatus :
             /\ issued' = issued \cup {d}
             /\ Await(r, "save", d, [courier |-> c, status |-> s])
      BY <1>1 DEF CreateDelivery
    <2>2. [courier |-> c, status |-> s] \in Delivery
      BY DEF TypeOK, Delivery
    <2>3. request' \in [Requests -> RequestState]
      BY <2>1, <2>2, AwaitDelivery
    <2> QED
      BY <1>1, <2>1, <2>3 DEF CreateDelivery, TypeOK, Tables, Others
  <1>2. ASSUME UpdateDelivery(r) PROVE TypeOK'
    <2>0. PICK d \in Stored : \E entity \in UpdateEntityFromDto(deliveries[d]) :
             \/ Await(r, "update", d, entity)
             \/ \E c \in Couriers \ {entity.courier} :
                   request' = [request EXCEPT ![r] =
                       [pc |-> "lookup", id |-> d, entity |-> entity, courier |-> c]]
      BY <1>2 DEF UpdateDelivery
    <2>1. PICK entity \in UpdateEntityFromDto(deliveries[d]) :
             \/ Await(r, "update", d, entity)
             \/ \E c \in Couriers \ {entity.courier} :
                   request' = [request EXCEPT ![r] =
                       [pc |-> "lookup", id |-> d, entity |-> entity, courier |-> c]]
      BY <2>0
    <2>2. d \in Deliveries /\ entity \in Delivery
      BY <2>1, StoredRows, MarksKeepDelivery
    <2>3. request' \in [Requests -> RequestState]
      <3>1. CASE Await(r, "update", d, entity)
        BY <2>2, <3>1, AwaitDelivery
      <3>2. CASE \E c \in Couriers \ {entity.courier} :
                    request' = [request EXCEPT ![r] =
                        [pc |-> "lookup", id |-> d, entity |-> entity, courier |-> c]]
        <4>1. PICK c \in Couriers :
                 request' = [request EXCEPT ![r] =
                     [pc |-> "lookup", id |-> d, entity |-> entity, courier |-> c]]
          BY <3>2
        <4>2. [pc |-> "lookup", id |-> d, entity |-> entity, courier |-> c] \in RequestState
          BY <2>2 DEF RequestState
        <4> QED
          BY <4>1, <4>2 DEF TypeOK
      <3> QED
        BY <2>1, <3>1, <3>2
    <2> QED
      BY <1>2, <2>3 DEF UpdateDelivery, TypeOK, Tables, Others
  <1>3. ASSUME LookupCourier(r) PROVE TypeOK'
    <2>1. /\ request[r].id \in Deliveries
          /\ request[r].entity \in Delivery
          /\ request[r].courier \in Couriers
      BY <1>3, RequestCases DEF LookupCourier, TypeOK
    <2>2. [request[r].entity EXCEPT !.courier = request[r].courier] \in Delivery
      BY <2>1, CourierKeepsDelivery
    <2>3. request' \in [Requests -> RequestState]
      BY <1>3, <2>1, <2>2, AwaitDelivery, FinishKeepsRequests DEF LookupCourier
    <2> QED
      BY <1>3, <2>3 DEF LookupCourier, TypeOK, Tables, Others
  <1>4. ASSUME ServiceUpdate(r) PROVE TypeOK'
    <2>1. request[r].id \in Deliveries /\ request[r].entity \in Delivery
      BY <1>4, RequestCases DEF ServiceUpdate, TypeOK
    <2>2. request' \in [Requests -> RequestState]
      BY <1>4, <2>1, AwaitDelivery, FinishKeepsRequests DEF ServiceUpdate
    <2> QED
      BY <1>4, <2>2 DEF ServiceUpdate, TypeOK, Tables, Others
  <1>5. ASSUME SaveDelivery(r) PROVE TypeOK'
    <2>1. request[r].id \in Deliveries /\ request[r].entity \in Delivery
      BY <1>5, RequestCases DEF SaveDelivery, TypeOK
    <2>2. deliveries' \in [Deliveries -> Delivery \cup {NoRow}]
      BY <1>5, <2>1, SaveRowKeepsTable DEF SaveDelivery
    <2>3. request' \in [Requests -> RequestState]
      BY <1>5, FinishKeepsRequests DEF SaveDelivery
    <2> QED
      BY <1>5, <2>2, <2>3 DEF SaveDelivery, TypeOK, Others
  <1>6. ASSUME DeleteDelivery(r) PROVE TypeOK'
    <2>1. request' \in [Requests -> RequestState]
      BY <1>6, StoredRows, AwaitIdentifier DEF DeleteDelivery
    <2> QED
      BY <1>6, <2>1 DEF DeleteDelivery, TypeOK, Tables, Others
  <1>7. ASSUME ServiceDelete(r) PROVE TypeOK'
    <2>1. request' \in [Requests -> RequestState]
      BY <1>7, StoredRows, AwaitIdentifier, FinishKeepsRequests DEF ServiceDelete
    <2> QED
      BY <1>7, <2>1 DEF ServiceDelete, TypeOK, Tables, Others
  <1>8. ASSUME EraseDelivery(r) PROVE TypeOK'
    <2>1. deliveries' \in [Deliveries -> Delivery \cup {NoRow}]
      BY <1>8, DeleteRowKeepsTable DEF EraseDelivery
    <2>2. request' \in [Requests -> RequestState]
      BY <1>8, FinishKeepsRequests DEF EraseDelivery
    <2> QED
      BY <1>8, <2>1, <2>2 DEF EraseDelivery, TypeOK, Others
  <1>9. ASSUME StartDelivery(r) PROVE TypeOK'
    <2>1. request' \in [Requests -> RequestState]
      BY <1>9, StoredRows, AwaitIdentifier DEF StartDelivery
    <2> QED
      BY <1>9, <2>1 DEF StartDelivery, TypeOK, Tables, Others
  <1>10. ASSUME StartRead(r) PROVE TypeOK'
    <2>1. \/ Finish(r)
          \/ \E d \in Stored : \E entity \in MarkAsInTransit(deliveries[d]) :
                Await(r, "save", d, entity)
      BY <1>10 DEF StartRead
    <2>2. request' \in [Requests -> RequestState]
      BY <2>1, StoredRows, MarksKeepDelivery, AwaitDelivery, FinishKeepsRequests
    <2> QED
      BY <1>10, <2>2 DEF StartRead, TypeOK, Tables, Others
  <1>11. ASSUME CompleteDelivery(r) PROVE TypeOK'
    <2>1. request' \in [Requests -> RequestState]
      BY <1>11, StoredRows, MarksKeepDelivery, AwaitDelivery DEF CompleteDelivery
    <2> QED
      BY <1>11, <2>1 DEF CompleteDelivery, TypeOK, Tables, Others
  <1>12. ASSUME ServiceCall(r) PROVE TypeOK'
    <2>1. PICK d \in Stored : \E entity \in UNION {MarkAsReceived(deliveries[d]),
                                                   MarkAsReadyForDelivery(deliveries[d]),
                                                   MarkAsDelivered(deliveries[d]),
                                                   MarkAsCompleted(deliveries[d]),
                                                   ReassignCourier(deliveries[d])} :
             Await(r, "save", d, entity)
      BY <1>12 DEF ServiceCall
    <2>2. d \in Deliveries /\ deliveries[d] \in Delivery
      BY StoredRows
    <2>3. PICK entity \in Delivery : Await(r, "save", d, entity)
      BY <2>1, <2>2, MarksKeepDelivery, ReassignKeepsDelivery
    <2>4. request' \in [Requests -> RequestState]
      BY <2>2, <2>3, AwaitDelivery
    <2> QED
      BY <1>12, <2>4 DEF ServiceCall, TypeOK, Tables, Others
  <1> QED
    BY <1>1, <1>2, <1>3, <1>4, <1>5, <1>6, <1>7, <1>8, <1>9, <1>10, <1>11, <1>12
    DEF DeliveryHandler

LEMMA CourierHandlerTypeOK ==
    ASSUME TypeOK, NEW r \in Requests, CourierHandler(r)
    PROVE  TypeOK'
  <1>1. ASSUME CreateCourier(r) PROVE TypeOK'
    <2>1. PICK c \in Couriers : issued' = issued \cup {c} /\ Await(r, "save_courier", c, NoRow)
      BY <1>1 DEF CreateCourier
    <2>2. request' \in [Requests -> RequestState]
      BY <2>1, AwaitIdentifier
    <2> QED
      BY <1>1, <2>1, <2>2 DEF CreateCourier, TypeOK, Tables, Others
  <1>2. ASSUME \/ UpdateCourier(r) \/ ServiceUpdateCourier(r) \/ UpdateContactInfo(r)
               \/ DeleteCourier(r) \/ ServiceDeleteCourier(r)
        PROVE TypeOK'
    <2>1. /\ \/ Finish(r)
             \/ \E c \in couriers, pc \in {"update_courier", "save_courier",
                                           "delete_courier", "erase_courier"} :
                   Await(r, pc, c, NoRow)
          /\ UNCHANGED <<Tables, issued, Others>>
      BY <1>2 DEF UpdateCourier, ServiceUpdateCourier, UpdateContactInfo, DeleteCourier,
                  ServiceDeleteCourier
    <2>2. couriers \subseteq Couriers
      BY DEF TypeOK
    <2>3. request' \in [Requests -> RequestState]
      BY <2>1, <2>2, AwaitIdentifier, FinishKeepsRequests
    <2> QED
      BY <2>1, <2>3 DEF TypeOK, Tables, Others
  <1>3. ASSUME SaveCourier(r) PROVE TypeOK'
    <2>1. request[r].id \in Couriers
      BY <1>3, RequestCases DEF SaveCourier, TypeOK
    <2>2. couriers' \subseteq Couriers
      BY <1>3, <2>1 DEF SaveCourier, SaveCourierRow, TypeOK
    <2>3. request' \in [Requests -> RequestState]
      BY <1>3, FinishKeepsRequests DEF SaveCourier
    <2> QED
      BY <1>3, <2>2, <2>3 DEF SaveCourier, TypeOK, Others
  <1>4. ASSUME EraseCourier(r) PROVE TypeOK'
    <2>1. couriers' \subseteq Couriers
      BY <1>4 DEF EraseCourier, DeleteCourierRow, TypeOK
    <2>2. request' \in [Requests -> RequestState]
      BY <1>4, FinishKeepsRequests DEF EraseCourier
    <2> QED
      BY <1>4, <2>1, <2>2 DEF EraseCourier, TypeOK, Others
  <1> QED
    BY <1>1, <1>2, <1>3, <1>4 DEF CourierHandler

LEMMA WorkerTypeOK ==
    ASSUME TypeOK, Worker \/ WorkerRaises \/ PublishUnassign
    PROVE  TypeOK'
  <1>1. ASSUME TakeCommand PROVE TypeOK'
    <2>1. Head(commands) \in Deliveries /\ Tail(commands) \in Seq(Deliveries)
      BY <1>1 DEF TakeCommand, TypeOK
    <2>2. worker' \in WorkerState
      BY <1>1, <2>1 DEF TakeCommand, WorkerState
    <2> QED
      BY <1>1, <2>1, <2>2 DEF TakeCommand, TypeOK, Unchanged
  <1>2. ASSUME UnassignRead PROVE TypeOK'
    <2>1. worker \in WorkerState /\ worker.pc = "delete"
      BY <1>2 DEF UnassignRead, TypeOK
    <2>2. [worker EXCEPT !.pc = "erase"] \in WorkerState /\ IdleWorker \in WorkerState
      BY <2>1 DEF WorkerState, IdleWorker
    <2>3. worker' \in WorkerState
      BY <1>2, <2>2 DEF UnassignRead
    <2> QED
      BY <1>2, <2>3 DEF UnassignRead, TypeOK, Unchanged
  <1>3. ASSUME UnassignErase PROVE TypeOK'
    <2>1. deliveries' \in [Deliveries -> Delivery \cup {NoRow}]
      BY <1>3, DeleteRowKeepsTable DEF UnassignErase
    <2> QED
      BY <1>3, <2>1 DEF UnassignErase, TypeOK, WorkerState, Unchanged
  <1>4. ASSUME WorkerRaises PROVE TypeOK'
    <2>1. worker.id \in Deliveries
      BY <1>4, WorkerCases DEF WorkerRaises, TypeOK
    <2> QED
      BY <1>4, <2>1 DEF WorkerRaises, TypeOK, WorkerState, Unchanged
  <1>5. ASSUME PublishUnassign PROVE TypeOK'
    <2>1. PICK d \in issued \cap Deliveries : commands' = Append(commands, d)
      BY <1>5 DEF PublishUnassign
    <2>2. commands' \in Seq(Deliveries)
      BY <2>1 DEF TypeOK
    <2> QED
      BY <1>5, <2>2 DEF PublishUnassign, TypeOK, Unchanged
  <1> QED
    BY <1>1, <1>2, <1>3, <1>4, <1>5 DEF Worker

LEMMA RestartTypeOK ==
    ASSUME TypeOK, Restart
    PROVE  TypeOK'
  <1>1. request' \in [Requests -> RequestState]
    <2>1. IdleRequest \in RequestState
      BY DEF IdleRequest, RequestState
    <2> QED
      BY <2>1 DEF Restart
  <1>2. commands' \in Seq(Deliveries) /\ dropped' \subseteq Deliveries
    <2>1. CASE worker.pc = "idle"
      BY <2>1 DEF Restart, TypeOK
    <2>2. CASE worker.pc # "idle"
      <3>1. worker.id \in Deliveries /\ commands \in Seq(Deliveries)
        BY <2>2, WorkerCases DEF TypeOK
      <3>2. <<worker.id>> \o commands \in Seq(Deliveries)
        BY <3>1
      <3> QED
        BY <2>2, <3>1, <3>2 DEF Restart, TypeOK
    <2> QED
      BY <2>1, <2>2
  <1>3. stops' \in 0 .. MaxStops
    BY DeliveryConstants DEF Restart, TypeOK
  <1>4. worker' \in WorkerState
    BY DEF Restart, WorkerState
  <1> QED
    BY <1>1, <1>2, <1>3, <1>4 DEF Restart, TypeOK

LEMMA NextTypeOK == TypeOK /\ [Next]_vars => TypeOK'
  <1> SUFFICES ASSUME TypeOK, [Next]_vars PROVE TypeOK'
    OBVIOUS
  <1>1. ASSUME NEW r \in Requests, DeliveryHandler(r) PROVE TypeOK'
    BY <1>1, DeliveryHandlerTypeOK
  <1>2. ASSUME NEW r \in Requests, CourierHandler(r) PROVE TypeOK'
    BY <1>2, CourierHandlerTypeOK
  <1>3. ASSUME NEW r \in Requests, RequestAborts(r) PROVE TypeOK'
    <2>1. request' \in [Requests -> RequestState]
      BY <1>3, FinishKeepsRequests DEF RequestAborts
    <2> QED
      BY <1>3, <2>1 DEF RequestAborts, TypeOK, Tables, Others
  <1>4. CASE Worker \/ WorkerRaises \/ PublishUnassign
    BY <1>4, WorkerTypeOK
  <1>5. CASE Restart
    BY <1>5, RestartTypeOK
  <1>6. CASE UNCHANGED vars
    BY <1>6 DEF vars, TypeOK
  <1> QED
    BY <1>1, <1>2, <1>3, <1>4, <1>5, <1>6 DEF Next

(* Every state of the delivery service has the types of its tables, of the *)
(* local state of its handlers and of its worker.                          *)
THEOREM DeliveryTypes == Spec => []TypeOK
  BY InitTypeOK, NextTypeOK, PTL DEF Spec

-----------------------------------------------------------------------------
(* What a step does to the tables, seen from outside: nothing, one save,   *)
(* one delete, of either table.                                            *)
SaveStep(r) == request[r].pc = "save" /\ SaveRow(request[r].id, request[r].entity)

SaveCourierStep(r) == request[r].pc = "save_courier" /\ SaveCourierRow(request[r].id)

LEMMA TableSteps ==
    ASSUME [Next]_vars
    PROVE  \/ UNCHANGED <<couriers, deliveries>>
           \/ UNCHANGED couriers /\ \E r \in Requests : SaveStep(r)
           \/ UNCHANGED couriers /\ \E d : DeleteRow(d)
           \/ UNCHANGED deliveries /\ \E r \in Requests : SaveCourierStep(r)
           \/ UNCHANGED deliveries /\ \E c : DeleteCourierRow(c)
  <1>1. ASSUME NEW r \in Requests, DeliveryHandler(r)
        PROVE  /\ UNCHANGED couriers
               /\ UNCHANGED deliveries \/ SaveStep(r) \/ \E d : DeleteRow(d)
    <2>1. CASE SaveDelivery(r)
      BY <2>1 DEF SaveDelivery, SaveStep
    <2>2. CASE EraseDelivery(r)
      BY <2>2 DEF EraseDelivery
    <2>3. CASE ~SaveDelivery(r) /\ ~EraseDelivery(r)
      BY <1>1, <2>3
      DEF DeliveryHandler, CreateDelivery, UpdateDelivery, LookupCourier, ServiceUpdate,
          DeleteDelivery, ServiceDelete, StartDelivery, StartRead, CompleteDelivery,
          ServiceCall, Tables
    <2> QED
      BY <2>1, <2>2, <2>3
  <1>2. ASSUME NEW r \in Requests, CourierHandler(r)
        PROVE  /\ UNCHANGED deliveries
               /\ UNCHANGED couriers \/ SaveCourierStep(r) \/ \E c : DeleteCourierRow(c)
    <2>1. CASE SaveCourier(r)
      BY <2>1 DEF SaveCourier, SaveCourierStep
    <2>2. CASE EraseCourier(r)
      BY <2>2 DEF EraseCourier
    <2>3. CASE ~SaveCourier(r) /\ ~EraseCourier(r)
      BY <1>2, <2>3
      DEF CourierHandler, CreateCourier, UpdateCourier, ServiceUpdateCourier,
          UpdateContactInfo, DeleteCourier, ServiceDeleteCourier, Tables
    <2> QED
      BY <2>1, <2>2, <2>3
  <1>3. ASSUME NEW r \in Requests, RequestAborts(r) PROVE UNCHANGED <<couriers, deliveries>>
    BY <1>3 DEF RequestAborts, Tables
  <1>4. ASSUME Worker PROVE UNCHANGED couriers /\ (UNCHANGED deliveries \/ \E d : DeleteRow(d))
    BY <1>4 DEF Worker, TakeCommand, UnassignRead, UnassignErase, Unchanged
  <1>5. ASSUME PublishUnassign \/ WorkerRaises \/ Restart \/ UNCHANGED vars
        PROVE  UNCHANGED <<couriers, deliveries>>
    BY <1>5 DEF PublishUnassign, WorkerRaises, Restart, vars, Unchanged
  <1> QED
    BY <1>1, <1>2, <1>3, <1>4, <1>5 DEF Next

LEMMA NextCourier == TypeOK /\ CourierOfDelivery /\ [Next]_vars => CourierOfDelivery'
  <1> SUFFICES ASSUME TypeOK, CourierOfDelivery, [Next]_vars, NEW d \in Stored'
               PROVE  deliveries'[d].courier \in couriers'
    BY DEF CourierOfDelivery
  <1>0. d \in Deliveries /\ deliveries'[d] # NoRow
    BY DEF Stored
  <1>1. CASE UNCHANGED <<couriers, deliveries>>
    BY <1>0, <1>1 DEF CourierOfDelivery, Stored
  <1>2. CASE UNCHANGED couriers /\ \E r \in Requests : SaveStep(r)
    BY <1>0, <1>2 DEF CourierOfDelivery, Stored, SaveStep, SaveRow, Storable, TypeOK
  <1>3. CASE UNCHANGED couriers /\ \E x : DeleteRow(x)
    BY <1>0, <1>3 DEF CourierOfDelivery, Stored, DeleteRow, TypeOK
  <1>4. CASE UNCHANGED deliveries /\ \E r \in Requests : SaveCourierStep(r)
    BY <1>0, <1>4 DEF CourierOfDelivery, Stored, SaveCourierStep, SaveCourierRow
  <1>5. CASE UNCHANGED deliveries /\ \E c : DeleteCourierRow(c)
    BY <1>0, <1>5 DEF CourierOfDelivery, Stored, DeleteCourierRow, Erasable
  <1> QED
    BY <1>1, <1>2, <1>3, <1>4, <1>5, TableSteps

(* Whatever courier is deleted while deliveries are created, reassigned    *)
(* and saved from stale copies, the courier of a stored delivery is        *)
(* stored: the foreign key of the deliveries table closes what the checks  *)
(* of the handlers leave open.                                             *)
THEOREM DeliveriesHaveCouriers == Spec => []CourierOfDelivery
  <1>1. Init => CourierOfDelivery
    BY DEF Init, CourierOfDelivery, Stored
  <1> QED
    BY <1>1, NextCourier, DeliveryTypes, PTL DEF Spec

-----------------------------------------------------------------------------
LEMMA AwaitMoves ==
    ASSUME TypeOK, NEW r \in Requests, NEW pc, NEW id, NEW entity, Await(r, pc, id, entity),
           NEW q \in Requests
    PROVE  \/ request'[q] = request[q]
           \/ request'[q].pc = pc /\ request'[q].id = id
  BY DEF TypeOK, Await

LEMMA FinishMoves ==
    ASSUME TypeOK, NEW r \in Requests, Finish(r), NEW q \in Requests
    PROVE  request'[q] = request[q] \/ request'[q].pc = "idle"
  BY DEF TypeOK, Finish, IdleRequest

(* A handler that is about to save has just seen its row, or has just made *)
(* its identifier, or was about to save already.                           *)
Seen(q) ==
    \/ request'[q] = request[q]
    \/ request'[q].pc \notin {"save", "save_courier"}
    \/ request'[q].id \in Stored \cup couriers
    \/ request'[q].id \notin issued

LEMMA DeliveryHandlerSees ==
    ASSUME TypeOK, NEW r \in Requests, DeliveryHandler(r), NEW q \in Requests
    PROVE  Seen(q)
  <1>1. CASE CreateDelivery(r)
    <2>1. PICK d \in Deliveries \ issued, c \in couriers, s \in DeliveryStatus :
             Await(r, "save", d, [courier |-> c, status |-> s])
      BY <1>1 DEF CreateDelivery
    <2> QED
      BY <2>1, AwaitMoves DEF Seen
  <1>2. CASE UpdateDelivery(r)
    <2>1. PICK d \in Stored, entity \in UNION {UpdateEntityFromDto(deliveries[e]) : e \in Stored} :
             \/ Await(r, "update", d, entity)
             \/ \E c \in Couriers \ {entity.courier} :
                   request' = [request EXCEPT ![r] =
                       [pc |-> "lookup", id |-> d, entity |-> entity, courier |-> c]]
      BY <1>2 DEF UpdateDelivery
    <2>2. CASE Await(r, "update", d, entity)
      BY <2>2, AwaitMoves DEF Seen
    <2>3. CASE \E c \in Couriers \ {entity.courier} :
                  request' = [request EXCEPT ![r] =
                      [pc |-> "lookup", id |-> d, entity |-> entity, courier |-> c]]
      BY <2>3 DEF Seen, TypeOK
    <2> QED
      BY <2>1, <2>2, <2>3
  <1>3. CASE LookupCourier(r) \/ ServiceUpdate(r)
    <2>1. \/ Finish(r)
          \/ \E entity : Await(r, "update", request[r].id, entity)
          \/ request[r].id \in Stored /\ \E entity : Await(r, "save", request[r].id, entity)
      BY <1>3 DEF LookupCourier, ServiceUpdate
    <2> QED
      BY <2>1, AwaitMoves, FinishMoves DEF Seen
  <1>4. CASE SaveDelivery(r) \/ EraseDelivery(r)
    BY <1>4, FinishMoves DEF SaveDelivery, EraseDelivery, Seen
  <1>5. CASE DeleteDelivery(r) \/ StartDelivery(r) \/ CompleteDelivery(r) \/ ServiceDelete(r)
    <2>1. Finish(r) \/ \E pc \in {"delete", "erase", "start", "update"} :
                          \E d, entity : Await(r, pc, d, entity)
      BY <1>5 DEF DeleteDelivery, StartDelivery, CompleteDelivery, ServiceDelete
    <2> QED
      BY <2>1, AwaitMoves, FinishMoves DEF Seen
  <1>6. CASE StartRead(r) \/ ServiceCall(r)
    <2>1. Finish(r) \/ \E d \in Stored : \E entity : Await(r, "save", d, entity)
      BY <1>6 DEF StartRead, ServiceCall
    <2> QED
      BY <2>1, AwaitMoves, FinishMoves DEF Seen
  <1> QED
    BY <1>1, <1>2, <1>3, <1>4, <1>5, <1>6 DEF DeliveryHandler

LEMMA CourierHandlerSees ==
    ASSUME TypeOK, NEW r \in Requests, CourierHandler(r), NEW q \in Requests
    PROVE  Seen(q)
  <1>1. CASE CreateCourier(r)
    <2>1. PICK c \in Couriers \ issued : Await(r, "save_courier", c, NoRow)
      BY <1>1 DEF CreateCourier
    <2> QED
      BY <2>1, AwaitMoves DEF Seen
  <1>2. CASE ~CreateCourier(r)
    <2>1. Finish(r) \/ \E pc : \E c \in couriers : Await(r, pc, c, NoRow)
      BY <1>2
      DEF CourierHandler, UpdateCourier, ServiceUpdateCourier, UpdateContactInfo, SaveCourier,
          DeleteCourier, ServiceDeleteCourier, EraseCourier
    <2> QED
      BY <2>1, AwaitMoves, FinishMoves DEF Seen
  <1> QED
    BY <1>1, <1>2

LEMMA IssuedGrows ==
    ASSUME [Next]_vars
    PROVE  issued \subseteq issued'
  <1>1. ASSUME NEW r \in Requests, DeliveryHandler(r) PROVE issued \subseteq issued'
    BY <1>1
    DEF DeliveryHandler, CreateDelivery, UpdateDelivery, LookupCourier, ServiceUpdate,
        SaveDelivery, DeleteDelivery, ServiceDelete, EraseDelivery, StartDelivery, StartRead,
        CompleteDelivery, ServiceCall
  <1>2. ASSUME NEW r \in Requests, CourierHandler(r) PROVE issued \subseteq issued'
    BY <1>2
    DEF CourierHandler, CreateCourier, UpdateCourier, ServiceUpdateCourier, UpdateContactInfo,
        SaveCourier, DeleteCourier, ServiceDeleteCourier, EraseCourier
  <1>3. ASSUME Worker \/ PublishUnassign \/ WorkerRaises \/ Restart \/ UNCHANGED vars
        PROVE  issued \subseteq issued'
    BY <1>3
    DEF Worker, TakeCommand, UnassignRead, UnassignErase, PublishUnassign, WorkerRaises,
        Restart, vars, Unchanged
  <1> QED
    BY <1>1, <1>2, <1>3 DEF Next, RequestAborts

LEMMA NextSees ==
    ASSUME TypeOK, [Next]_vars, NEW q \in Requests
    PROVE  Seen(q)
  <1>1. ASSUME NEW r \in Requests, RequestAborts(r) PROVE Seen(q)
    BY <1>1, FinishMoves DEF RequestAborts, Seen
  <1>2. ASSUME Worker \/ PublishUnassign \/ WorkerRaises \/ UNCHANGED vars
        PROVE  Seen(q)
    BY <1>2
    DEF Worker, TakeCommand, UnassignRead, UnassignErase, PublishUnassign, WorkerRaises,
        vars, Unchanged, Seen
  <1>3. ASSUME Restart PROVE Seen(q)
    BY <1>3 DEF Restart, IdleRequest, Seen
  <1> QED
    BY <1>1, <1>2, <1>3, DeliveryHandlerSees, CourierHandlerSees DEF Next

LEMMA NextKeepsGone ==
    ASSUME TypeOK, [Next]_vars, NEW x \in Couriers \cup Deliveries, Gone(x)
    PROVE  Gone(x)'
  <1>1. x \in issued'
    BY IssuedGrows DEF Gone
  <1>2. x \notin Stored' \cup couriers'
    <2>1. CASE UNCHANGED <<couriers, deliveries>>
      BY <2>1 DEF Gone, Stored
    <2>2. CASE UNCHANGED couriers /\ \E r \in Requests : SaveStep(r)
      BY <2>2 DEF Gone, Stored, SaveStep, SaveRow, TypeOK
    <2>3. CASE UNCHANGED couriers /\ \E d : DeleteRow(d)
      BY <2>3 DEF Gone, Stored, DeleteRow, TypeOK
    <2>4. CASE UNCHANGED deliveries /\ \E r \in Requests : SaveCourierStep(r)
      BY <2>4 DEF Gone, Stored, SaveCourierStep, SaveCourierRow
    <2>5. CASE UNCHANGED deliveries /\ \E c : DeleteCourierRow(c)
      BY <2>5 DEF Gone, Stored, DeleteCourierRow
    <2> QED
      BY <2>1, <2>2, <2>3, <2>4, <2>5, TableSteps
  <1>3. ASSUME NEW r \in Requests, request'[r].pc \in {"save", "save_courier"}
        PROVE  request'[r].id # x
    BY <1>3, NextSees DEF Gone, Seen
  <1> QED
    BY <1>1, <1>2, <1>3 DEF Gone

(* A delivery the saga undid, or a courier that was removed, does not come *)
(* back: every save but those already past their check sees the row first. *)
THEOREM DeliveriesStayDeleted == Spec => DeletedStaysDeleted
  <1>1. TypeOK /\ [Next]_vars => [\A x \in Couriers \cup Deliveries : Gone(x) => Gone(x)']_vars
    BY NextKeepsGone
  <1> QED
    BY <1>1, DeliveryTypes, PTL DEF Spec, DeletedStaysDeleted
=============================================================================
