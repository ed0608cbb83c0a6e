------------------------------- MODULE MCSaga -------------------------------
(* Small instances of the saga coordinator. *)
EXTENDS SagaCoordinator

(* Every failure of every saga, and one event nobody gave a correlation_id. *)
AllEvents ==
    [saga : Sagas, type : FailureTypes]
        \cup [saga : {NoSaga}, type : {"delivery.failed"}]

(* Two failures that a saga can meet one after the other. *)
CourierAndDelivery == [saga : Sagas, type : {"courier.unassigned", "delivery.failed"}]

(* The failure of one topic. *)
CourierOnly == [saga : Sagas, type : {"courier.unassigned"}]

(* The failure that calls for every command. *)
DeliveryOnly == [saga : Sagas, type : {"delivery.failed"}]
=============================================================================
