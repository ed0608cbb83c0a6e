----------------------- MODULE ShipmentServiceProofs -----------------------
(***************************************************************************)
(* Theorems about the shipment service, for any number of shipments,       *)
(* items, handlers and stops, any amounts, and whether or not a stored     *)
(* shipment can be read back.                                              *)
(***************************************************************************)
EXTENDS ShipmentService, TLAPS

LEMMA QuantityKeepsItem ==
    ASSUME NEW entity \in Item, NEW n \in Quantity
    PROVE  /\ entity.quantity \in Quantity
           /\ [entity EXCEPT !.quantity = n] \in Item
           /\ [entity EXCEPT !.quantity = n].quantity = n
  BY DEF Item

LEMMA QuantityIsInt == Quantity \subseteq Int
  BY ShipmentConstants DEF Quantity

(* What a handler holds, by the statement it is about to run.              *)
LEMMA RequestCases ==
    ASSUME NEW q \in RequestState
    PROVE  /\ q.pc \in {"update", "save"} => q.id \in Shipments /\ q.entity \in ShipmentStatus
           /\ q.pc \in {"update_item", "save_item"} =>
                /\ q.id \in Items
                /\ q.entity \in Item
                /\ q.set \in BOOLEAN
                /\ q.change \in Int
                /\ q \in [pc : {"update_item", "save_item"}, id : Items, entity : Item,
                          set : BOOLEAN, change : Int]
           /\ q.pc = "erase" => q.id \in Shipments
           /\ q.pc = "erase_item" => q.id \in Items
  <1>1. CASE q = IdleRequest
    BY <1>1 DEF IdleRequest
  <1>2. CASE q \in [pc : {"update", "save"}, id : Shipments, entity : ShipmentStatus,
                    set : {FALSE}, change : {0}]
    BY <1>2
  <1>3. CASE q \in [pc : {"update_item", "save_item"}, id : Items, entity : Item,
                    set : BOOLEAN, change : Int]
    BY <1>3
  <1>4. CASE q \in [pc : {"erase"}, id : Shipments, entity : {NoRow}, set : {FALSE}, change : {0}]
    BY <1>4
  <1>5. CASE q \in [pc : {"erase_item"}, id : Items, entity : {NoRow}, set : {FALSE}, change : {0}]
    BY <1>5
  <1> QED
    BY <1>1, <1>2, <1>3, <1>4, <1>5 DEF RequestState

LEMMA ItemSaveKeepsState ==
    ASSUME NEW q \in [pc : {"update_item", "save_item"}, id : Items, entity : Item,
                      set : BOOLEAN, change : Int]
    PROVE  [q EXCEPT !.pc = "save_item"] \in
              [pc : {"update_item", "save_item"}, id : Items, entity : Item,
               set : BOOLEAN, change : Int]
  OBVIOUS

LEMMA StoredItemRows ==
    ASSUME TypeOK, NEW x \in StoredItems
    PROVE  x \in Items /\ items[x] \in Item
  BY DEF TypeOK, StoredItems

LEMMA ReadableIsStored == Readable \subseteq Stored /\ Stored \subseteq Shipments
  BY DEF Readable, Stored

LEMMA AwaitKeepsRequests ==
    ASSUME TypeOK, NEW r \in Requests, NEW pc, NEW id, NEW entity, Await(r, pc, id, entity),
           \/ pc \in {"update", "save"} /\ id \in Shipments /\ entity \in ShipmentStatus
           \/ pc = "save_item" /\ id \in Items /\ entity \in Item
           \/ pc = "erase" /\ id \in Shipments /\ entity = NoRow
           \/ pc = "erase_item" /\ id \in Items /\ entity = NoRow
    PROVE  request' \in [Requests -> RequestState]
  <1>1. [pc |-> pc, id |-> id, entity |-> entity, set |-> FALSE, change |-> 0] \in RequestState
    BY DEF RequestState
  <1> QED
    BY <1>1 DEF Await, TypeOK

LEMMA FinishKeepsRequests ==
    ASSUME TypeOK, NEW r \in Requests, Finish(r)
    PROVE  request' \in [Requests -> RequestState]
  <1>1. IdleRequest \in RequestState
    BY DEF IdleRequest, RequestState
  <1> QED
    BY <1>1 DEF TypeOK, Finish

LEMMA AwaitItemKeepsTypes ==
    ASSUME TypeOK, NEW r \in Requests, NEW pc \in {"update_item", "save_item"},
           NEW x \in StoredItems, NEW n \in Quantity, NEW set \in BOOLEAN, NEW change \in Int,
           AwaitItem(r, pc, x, n, set, change)
    PROVE  /\ request' \in [Requests -> RequestState]
           /\ ledger' \in [Items -> Int]
  <1>1. x \in Items /\ [items[x] EXCEPT !.quantity = n] \in Item
    BY StoredItemRows, QuantityKeepsItem
  <1>2. [pc |-> pc, id |-> x, entity |-> [items[x] EXCEPT !.quantity = n],
         set |-> set, change |-> change] \in RequestState
    BY <1>1 DEF RequestState
  <1>3. request' \in [Requests -> RequestState]
    BY <1>2 DEF AwaitItem, TypeOK
  <1>4. ledger' \in [Items -> Int]
    BY <1>1 DEF AwaitItem, TypeOK
  <1> QED
    BY <1>3, <1>4

LEMMA DeleteRowKeepsTypes ==
    ASSUME TypeOK, NEW s, DeleteRow(s)
    PROVE  /\ shipments' \in [Shipments -> ShipmentStatus \cup {NoRow}]
           /\ items' \in [Items -> Item \cup {NoRow}]
           /\ ledger' \in [Items -> Int]
  <1>1. shipments' \in [Shipments -> ShipmentStatus \cup {NoRow}]
    BY DEF DeleteRow, TypeOK
  <1>2. items' \in [Items -> Item \cup {NoRow}]
    BY DEF DeleteRow, TypeOK
  <1>3. ledger' \in [Items -> Int]
    <2> DEFINE lost == {x \in StoredItems : items[x].shipment = s}
    <2>1. ledger' = [x \in Items |-> IF x \in lost THEN 0 ELSE ledger[x]]
      BY DEF DeleteRow
    <2>2. \A x \in Items : ledger[x] \in Int
      BY DEF TypeOK
    <2> HIDE DEF lost
    <2> QED
      BY <2>1, <2>2
  <1> QED
    BY <1>1, <1>2, <1>3

LEMMA SaveItemRowKeepsTypes ==
    ASSUME TypeOK, NEW r \in Requests, request[r].pc = "save_item",
           SaveItemRow(request[r].id, request[r])
    PROVE  /\ items' \in [Items -> Item \cup {NoRow}]
           /\ ledger' \in [Items -> Int]
  <1>1. /\ request[r].id \in Items
        /\ request[r].entity \in Item
        /\ request[r].change \in Int
    BY RequestCases DEF TypeOK
  <1>2. request[r].entity.quantity \in Int
    BY <1>1, QuantityKeepsItem, QuantityIsInt DEF Item
  <1>3. ledger[request[r].id] \in Int
    BY <1>1 DEF TypeOK
  <1>4. Entered(request[r].id, request[r]) \in Int
    BY <1>1, <1>2, <1>3 DEF Entered
  <1> QED
    BY <1>1, <1>4 DEF SaveItemRow, TypeOK

-----------------------------------------------------------------------------
LEMMA InitTypeOK == Init => TypeOK
  <1> SUFFICES ASSUME Init PROVE TypeOK
    OBVIOUS
  <1>1. IdleRequest \in RequestState
    BY DEF RequestState
  <1>2. commands \in Seq(Shipments) /\ stops \in 0 .. MaxStops
    BY ShipmentConstants DEF Init
  <1> QED
    BY <1>1, <1>2 DEF Init, TypeOK

LEMMA ShipmentHandlerTypeOK ==
    ASSUME TypeOK, NEW r \in Requests, ShipmentHandler(r)
    PROVE  TypeOK'
  <1>1. ASSUME CreateShipment(r) PROVE TypeOK'
    <2>1. PICK s \in Shipments : issued' = issued \cup {s} /\ Await(r, "save", s, "created")
      BY <1>1 DEF CreateShipment
    <2>2. request' \in [Requests -> RequestState]
      BY <2>1, AwaitKeepsRequests DEF ShipmentStatus
    <2> QED
      BY <1>1, <2>1, <2>2 DEF CreateShipment, TypeOK, Tables, Others
  <1>2. ASSUME NEW status \in ShipmentStatus, UpdateStatus(r, status) PROVE TypeOK'
    <2>1. request' \in [Requests -> RequestState]
      BY <1>2, ReadableIsStored, AwaitKeepsRequests DEF UpdateStatus
    <2> QED
      BY <1>2, <2>1 DEF UpdateStatus, TypeOK, Tables, Others
  <1>3. ASSUME UpdateShipment(r) \/ ServiceUpdate(r) \/ DeleteShipment(r) PROVE TypeOK'
    <2>1. request[r].pc = "update" =>
            request[r].id \in Shipments /\ request[r].entity \in ShipmentStatus
      BY RequestCases DEF TypeOK
    <2>2. request' \in [Requests -> RequestState]
      BY <1>3, <2>1, ReadableIsStored, AwaitKeepsRequests, FinishKeepsRequests
      DEF UpdateShipment, ServiceUpdate, DeleteShipment
    <2> QED
      BY <1>3, <2>2 DEF UpdateShipment, ServiceUpdate, DeleteShipment, TypeOK, Tables, Others
  <1>4. ASSUME SaveShipment(r) PROVE TypeOK'
    <2>1. request[r].id \in Shipments /\ request[r].entity \in ShipmentStatus
      BY <1>4, RequestCases DEF SaveShipment, TypeOK
    <2>2. shipments' \in [Shipments -> ShipmentStatus \cup {NoRow}]
      BY <1>4, <2>1 DEF SaveShipment, SaveRow, TypeOK
    <2>3. request' \in [Requests -> RequestState]
      BY <1>4, FinishKeepsRequests DEF SaveShipment
    <2> QED
      BY <1>4, <2>2, <2>3 DEF SaveShipment, TypeOK, Others
  <1>5. ASSUME EraseShipment(r) PROVE TypeOK'
    <2>1. request' \in [Requests -> RequestState]
      BY <1>5, FinishKeepsRequests DEF EraseShipment
    <2> QED
      BY <1>5, <2>1, DeleteRowKeepsTypes DEF EraseShipment, TypeOK, Others
  <1> QED
    BY <1>1, <1>2, <1>3, <1>4, <1>5
    DEF ShipmentHandler, MarkReceived, MarkReady, MarkInTransit, MarkDelivered, MarkCompleted,
        ShipmentStatus

LEMMA ItemHandlerTypeOK ==
    ASSUME TypeOK, NEW r \in Requests, ItemHandler(r)
    PROVE  TypeOK'
  <1>1. ASSUME CreateItem(r) PROVE TypeOK'
    <2>1. PICK x \in Items, entity \in Item :
             /\ issued' = issued \cup {x}
             /\ Await(r, "save_item", x, entity)
             /\ ledger' = [ledger EXCEPT ![x] = entity.quantity]
      BY <1>1 DEF CreateItem
    <2>2. request' \in [Requests -> RequestState]
      BY <2>1, AwaitKeepsRequests
    <2>3. entity.quantity \in Int
      BY QuantityIsInt DEF Item
    <2>4. ledger' \in [Items -> Int]
      BY <2>1, <2>3 DEF TypeOK
    <2> QED
      BY <1>1, <2>1, <2>2, <2>4 DEF CreateItem, TypeOK, Rows, Others
  <1>2. ASSUME \/ UpdateItem(r) \/ IncreaseQuantity(r) \/ DecreaseQuantity(r) \/ UpdateWeight(r)
        PROVE  TypeOK'
    <2>1. \A x \in StoredItems : items[x].quantity \in Quantity
      BY StoredItemRows, QuantityKeepsItem DEF Item
    <2>2. \E x \in StoredItems, pc \in {"update_item", "save_item"}, n \in Quantity,
             set \in BOOLEAN, change \in Int : AwaitItem(r, pc, x, n, set, change)
      <3>1. CASE UpdateItem(r)
        <4>1. PICK x \in StoredItems :
                 \/ \E n \in Quantity : AwaitItem(r, "update_item", x, n, TRUE, 0)
                 \/ AwaitItem(r, "update_item", x, items[x].quantity, FALSE, 0)
          BY <3>1 DEF UpdateItem
        <4>2. items[x].quantity \in Quantity /\ 0 \in Int
          BY <2>1
        <4>3. \E n \in Quantity, set \in BOOLEAN : AwaitItem(r, "update_item", x, n, set, 0)
          BY <4>1, <4>2
        <4> QED
          BY <4>2, <4>3
      <3>2. CASE IncreaseQuantity(r)
        <4>1. PICK x \in StoredItems, amount \in Amounts :
                 /\ items[x].quantity + amount \in Quantity
                 /\ AwaitItem(r, "save_item", x, items[x].quantity + amount, FALSE, amount)
          BY <3>2 DEF IncreaseQuantity
        <4>2. amount \in Int
          BY ShipmentConstants
        <4> QED
          BY <4>1, <4>2
      <3>3. CASE DecreaseQuantity(r)
        <4>1. PICK x \in StoredItems, amount \in Amounts :
                 /\ items[x].quantity - amount \in Quantity
                 /\ AwaitItem(r, "save_item", x, items[x].quantity - amount, FALSE, 0 - amount)
          BY <3>3 DEF DecreaseQuantity
        <4>2. 0 - amount \in Int
          BY ShipmentConstants
        <4> QED
          BY <4>1, <4>2
      <3>4. CASE UpdateWeight(r)
        <4>1. PICK x \in StoredItems : AwaitItem(r, "save_item", x, items[x].quantity, FALSE, 0)
          BY <3>4 DEF UpdateWeight
        <4>2. items[x].quantity \in Quantity /\ 0 \in Int
          BY <2>1
        <4> QED
          BY <4>1, <4>2
      <3> QED
        BY <1>2, <3>1, <3>2, <3>3, <3>4
    <2>3. request' \in [Requests -> RequestState] /\ ledger' \in [Items -> Int]
      BY <2>2, AwaitItemKeepsTypes
    <2> QED
      BY <1>2, <2>3
      DEF UpdateItem, IncreaseQuantity, DecreaseQuantity, UpdateWeight, TypeOK, Rows, Others
  <1>3. ASSUME ServiceUpdateItem(r) PROVE TypeOK'
    <2>1. ASSUME request' = [request EXCEPT ![r].pc = "save_item"]
          PROVE  request' \in [Requests -> RequestState]
      <3>1. request[r] \in RequestState /\ request[r].pc = "update_item"
        BY <1>3 DEF ServiceUpdateItem, TypeOK
      <3>2. [request[r] EXCEPT !.pc = "save_item"] \in RequestState
        <4>1. request[r] \in [pc : {"update_item", "save_item"}, id : Items, entity : Item,
                              set : BOOLEAN, change : Int]
          BY <3>1, RequestCases
        <4>2. [request[r] EXCEPT !.pc = "save_item"] \in
                [pc : {"update_item", "save_item"}, id : Items, entity : Item,
                 set : BOOLEAN, change : Int]
          BY <4>1, ItemSaveKeepsState
        <4> QED
          BY <4>2 DEF RequestState
      <3> QED
        BY <2>1, <3>2 DEF TypeOK
    <2>2. request' \in [Requests -> RequestState]
      BY <1>3, <2>1, FinishKeepsRequests DEF ServiceUpdateItem
    <2> QED
      BY <1>3, <2>2 DEF ServiceUpdateItem, TypeOK, Tables, Others
  <1>4. ASSUME SaveItem(r) PROVE TypeOK'
    <2>1. items' \in [Items -> Item \cup {NoRow}] /\ ledger' \in [Items -> Int]
      BY <1>4, SaveItemRowKeepsTypes DEF SaveItem
    <2>2. request' \in [Requests -> RequestState]
      BY <1>4, FinishKeepsRequests DEF SaveItem
    <2> QED
      BY <1>4, <2>1, <2>2 DEF SaveItem, TypeOK, Others
  <1>5. ASSUME DeleteItem(r) PROVE TypeOK'
    <2>1. request' \in [Requests -> RequestState]
      BY <1>5, StoredItemRows, AwaitKeepsRequests DEF DeleteItem
    <2> QED
      BY <1>5, <2>1 DEF DeleteItem, TypeOK, Tables, Others
  <1>6. ASSUME EraseItem(r) PROVE TypeOK'
    <2>1. request' \in [Requests -> RequestState]
      BY <1>6, FinishKeepsRequests DEF EraseItem
    <2>2. items' \in [Items -> Item \cup {NoRow}]
      BY <1>6 DEF EraseItem, DeleteItemRow, TypeOK
    <2>3. ledger' \in [Items -> Int]
      <3>1. ledger' = [ledger EXCEPT ![request[r].id] = 0] /\ 0 \in Int
        BY <1>6 DEF EraseItem, DeleteItemRow
      <3> QED
        BY <3>1 DEF TypeOK
    <2> QED
      BY <1>6, <2>1, <2>2, <2>3 DEF EraseItem, TypeOK, Others
  <1> QED
    BY <1>1, <1>2, <1>3, <1>4, <1>5, <1>6 DEF ItemHandler

LEMMA WorkerTypeOK ==
    ASSUME TypeOK, Worker \/ WorkerRaises \/ PublishCancel
    PROVE  TypeOK'
  <1>1. ASSUME TakeCommand PROVE TypeOK'
    <2>1. Head(commands) \in Shipments /\ Tail(commands) \in Seq(Shipments)
      BY <1>1 DEF TakeCommand, TypeOK
    <2> QED
      BY <1>1, <2>1 DEF TakeCommand, TypeOK, Tables
  <1>2. ASSUME CancelShipment PROVE TypeOK'
    BY <1>2, DeleteRowKeepsTypes DEF CancelShipment, TypeOK
  <1>3. ASSUME WorkerRaises PROVE TypeOK'
    BY <1>3 DEF WorkerRaises, TypeOK, Tables
  <1>4. ASSUME PublishCancel PROVE TypeOK'
    <2>1. PICK s \in Shipments : commands' = Append(commands, s)
      BY <1>4 DEF PublishCancel
    <2>2. commands' \in Seq(Shipments)
      BY <2>1 DEF TypeOK
    <2> QED
      BY <1>4, <2>2 DEF PublishCancel, TypeOK, Tables
  <1> QED
    BY <1>1, <1>2, <1>3, <1>4 DEF Worker

LEMMA RestartTypeOK ==
    ASSUME TypeOK, Restart
    PROVE  TypeOK'
  <1>1. request' \in [Requests -> RequestState]
    BY DEF Restart, RequestState
  <1>2. commands' \in Seq(Shipments) /\ dropped' \subseteq Shipments
    <2>1. CASE worker = None
      BY <2>1 DEF Restart, TypeOK
    <2>2. CASE worker # None
      <3>1. worker \in Shipments /\ commands \in Seq(Shipments)
        BY <2>2 DEF TypeOK
      <3>2. <<worker>> \o commands \in Seq(Shipments)
        BY <3>1
      <3> QED
        BY <2>2, <3>1, <3>2 DEF Restart, TypeOK
    <2> QED
      BY <2>1, <2>2
  <1>3. stops' \in 0 .. MaxStops
    BY ShipmentConstants DEF Restart, TypeOK
  <1> QED
    BY <1>1, <1>2, <1>3 DEF Restart, TypeOK, Tables

LEMMA NextTypeOK == TypeOK /\ [Next]_vars => TypeOK'
  <1> SUFFICES ASSUME TypeOK, [Next]_vars PROVE TypeOK'
    OBVIOUS
  <1>1. ASSUME NEW r \in Requests, ShipmentHandler(r) PROVE TypeOK'
    BY <1>1, ShipmentHandlerTypeOK
  <1>2. ASSUME NEW r \in Requests, ItemHandler(r) PROVE TypeOK'
    BY <1>2, ItemHandlerTypeOK
  <1>3. ASSUME NEW r \in Requests, RequestAborts(r) PROVE TypeOK'
    <2>1. request' \in [Requests -> RequestState]
      BY <1>3, FinishKeepsRequests DEF RequestAborts
    <2> QED
      BY <1>3, <2>1 DEF RequestAborts, TypeOK, Tables, Others
  <1>4. CASE Worker \/ WorkerRaises \/ PublishCancel
    BY <1>4, WorkerTypeOK
  <1>5. CASE Restart
    BY <1>5, RestartTypeOK
  <1>6. CASE UNCHANGED vars
    BY <1>6 DEF vars, TypeOK
  <1> QED
    BY <1>1, <1>2, <1>3, <1>4, <1>5, <1>6 DEF Next

(* Every state of the shipment service has the types of its tables, of the *)
(* local state of its handlers and of its worker.                          *)
THEOREM ShipmentTypes == Spec => []TypeOK
  BY InitTypeOK, NextTypeOK, PTL DEF Spec

-----------------------------------------------------------------------------
(* What a step does to the tables, seen from outside: nothing, one save,   *)
(* one delete, of either table.                                            *)
SaveStep(r) ==
    /\ request[r].pc = "save"
    /\ SaveRow(request[r].id, request[r].entity)
    /\ UNCHANGED items

SaveItemStep(r) ==
    /\ request[r].pc = "save_item"
    /\ SaveItemRow(request[r].id, request[r])
    /\ UNCHANGED shipments

LEMMA TableSteps ==
    ASSUME [Next]_vars
    PROVE  \/ UNCHANGED <<shipments, items>>
           \/ \E r \in Requests : SaveStep(r)
           \/ \E s : DeleteRow(s)
           \/ \E r \in Requests : SaveItemStep(r)
           \/ UNCHANGED shipments /\ \E x : DeleteItemRow(x)
  <1>1. ASSUME NEW r \in Requests, ShipmentHandler(r)
        PROVE  UNCHANGED <<shipments, items>> \/ SaveStep(r) \/ \E s : DeleteRow(s)
    <2>1. CASE SaveShipment(r)
      BY <2>1 DEF SaveShipment, SaveStep
    <2>2. CASE EraseShipment(r)
      BY <2>2 DEF EraseShipment
    <2>3. CASE ~SaveShipment(r) /\ ~EraseShipment(r)
      BY <1>1, <2>3
      DEF ShipmentHandler, CreateShipment, UpdateShipment, ServiceUpdate, MarkReceived,
          MarkReady, MarkInTransit, MarkDelivered, MarkCompleted, UpdateStatus,
          DeleteShipment, Tables
    <2> QED
      BY <2>1, <2>2, <2>3
  <1>2. ASSUME NEW r \in Requests, ItemHandler(r)
        PROVE  /\ UNCHANGED shipments
               /\ UNCHANGED items \/ SaveItemStep(r) \/ \E x : DeleteItemRow(x)
    <2>1. CASE SaveItem(r)
      BY <2>1 DEF SaveItem, SaveItemStep
    <2>2. CASE EraseItem(r)
      BY <2>2 DEF EraseItem
    <2>3. CASE ~SaveItem(r) /\ ~EraseItem(r)
      BY <1>2, <2>3
      DEF ItemHandler, CreateItem, UpdateItem, ServiceUpdateItem, IncreaseQuantity,
          DecreaseQuantity, UpdateWeight, DeleteItem, Tables, Rows
    <2> QED
      BY <2>1, <2>2, <2>3
  <1>3. ASSUME NEW r \in Requests, RequestAborts(r) PROVE UNCHANGED <<shipments, items>>
    BY <1>3 DEF RequestAborts, Tables
  <1>4. ASSUME Worker PROVE UNCHANGED <<shipments, items>> \/ \E s : DeleteRow(s)
    BY <1>4 DEF Worker, TakeCommand, CancelShipment, Tables
  <1>5. ASSUME PublishCancel \/ WorkerRaises \/ Restart \/ UNCHANGED vars
        PROVE  UNCHANGED <<shipments, items>>
    BY <1>5 DEF PublishCancel, WorkerRaises, Restart, vars, Tables
  <1> QED
    BY <1>1, <1>2, <1>3, <1>4, <1>5 DEF Next

LEMMA SaveKeepsStored ==
    ASSUME TypeOK, NEW r \in Requests, SaveStep(r)
    PROVE  Stored \subseteq Stored' /\ Stored' \subseteq Stored \cup {request[r].id}
  <1>1. request[r].id \in Shipments /\ request[r].entity \in ShipmentStatus
    BY RequestCases DEF SaveStep, TypeOK
  <1>2. request[r].entity # NoRow
    BY <1>1, ShipmentConstants
  <1> QED
    BY <1>1, <1>2 DEF SaveStep, SaveRow, Stored, TypeOK

LEMMA NextItems == TypeOK /\ ItemsHaveShipment /\ [Next]_vars => ItemsHaveShipment'
  <1> SUFFICES ASSUME TypeOK, ItemsHaveShipment, [Next]_vars, NEW x \in StoredItems'
               PROVE  items'[x].shipment \in Stored'
    BY DEF ItemsHaveShipment
  <1>0. x \in Items /\ items'[x] # NoRow
    BY DEF StoredItems
  <1>1. CASE UNCHANGED <<shipments, items>>
    BY <1>0, <1>1 DEF ItemsHaveShipment, Stored, StoredItems
  <1>2. CASE \E r \in Requests : SaveStep(r)
    BY <1>0, <1>2, SaveKeepsStored DEF ItemsHaveShipment, SaveStep, StoredItems
  <1>3. CASE \E s : DeleteRow(s)
    <2>1. PICK s : DeleteRow(s)
      BY <1>3
    <2>2. items'[x] = items[x] /\ x \in StoredItems /\ items[x].shipment # s
      BY <1>0, <2>1 DEF DeleteRow, StoredItems
    <2>3. items[x].shipment \in Stored
      BY <2>2 DEF ItemsHaveShipment
    <2> QED
      BY <2>1, <2>2, <2>3 DEF DeleteRow, Stored, TypeOK
  <1>4. CASE \E r \in Requests : SaveItemStep(r)
    BY <1>0, <1>4 DEF ItemsHaveShipment, Stored, StoredItems, SaveItemStep, SaveItemRow, TypeOK
  <1>5. CASE UNCHANGED shipments /\ \E y : DeleteItemRow(y)
    BY <1>0, <1>5 DEF ItemsHaveShipment, Stored, StoredItems, DeleteItemRow, TypeOK
  <1> QED
    BY <1>1, <1>2, <1>3, <1>4, <1>5, TableSteps

(* Whatever shipment is cancelled while items of it are created or saved   *)
(* from stale copies, an item on record belongs to a shipment on record:   *)
(* the router does not look for the shipment, the foreign key does.        *)
THEOREM ItemsBelongSomewhere == Spec => []ItemsHaveShipment
  <1>1. Init => ItemsHaveShipment
    BY DEF Init, ItemsHaveShipment, StoredItems
  <1> QED
    BY <1>1, NextItems, ShipmentTypes, PTL DEF Spec

-----------------------------------------------------------------------------
LEMMA AwaitMoves ==
    ASSUME TypeOK, NEW r \in Requests, NEW pc, NEW id, NEW entity, Await(r, pc, id, entity),
           NEW q \in Requests
    PROVE  \/ request'[q] = request[q]
           \/ request'[q].pc = pc /\ request'[q].id = id
  BY DEF TypeOK, Await

LEMMA AwaitItemMoves ==
    ASSUME TypeOK, NEW r \in Requests, NEW pc, NEW x, NEW n, NEW set, NEW change,
           AwaitItem(r, pc, x, n, set, change), NEW q \in Requests
    PROVE  \/ request'[q] = request[q]
           \/ request'[q].pc = pc /\ request'[q].id = x
  BY DEF TypeOK, AwaitItem

LEMMA FinishMoves ==
    ASSUME TypeOK, NEW r \in Requests, Finish(r), NEW q \in Requests
    PROVE  request'[q] = request[q] \/ request'[q].pc = "idle"
  BY DEF TypeOK, Finish, IdleRequest

(* The handlers that open an item, all with a read of the row.             *)
Opens(r) ==
    \E x \in StoredItems, pc \in {"update_item", "save_item"}, n \in Quantity,
       set \in BOOLEAN, change \in Int :
       /\ AwaitItem(r, pc, x, n, set, change)
       /\ ~set => n = items[x].quantity + change

LEMMA ItemReadersOpen ==
    ASSUME TypeOK, NEW r \in Requests,
           UpdateItem(r) \/ IncreaseQuantity(r) \/ DecreaseQuantity(r) \/ UpdateWeight(r)
    PROVE  Opens(r)
  <1>1. \A x \in StoredItems : items[x].quantity \in Quantity /\ items[x].quantity \in Int
    BY StoredItemRows, QuantityIsInt DEF Item
  <1>2. ASSUME NEW x \in StoredItems, NEW pc \in {"update_item", "save_item"},
               AwaitItem(r, pc, x, items[x].quantity, FALSE, 0)
        PROVE  Opens(r)
    <2>1. items[x].quantity = items[x].quantity + 0 /\ 0 \in Int
      BY <1>1
    <2> QED
      BY <1>1, <1>2, <2>1 DEF Opens
  <1>3. ASSUME NEW x \in StoredItems, NEW n \in Quantity,
               AwaitItem(r, "update_item", x, n, TRUE, 0)
        PROVE  Opens(r)
    <2>1. 0 \in Int
      OBVIOUS
    <2> QED
      BY <1>3, <2>1 DEF Opens
  <1>4. CASE UpdateItem(r)
    BY <1>2, <1>3, <1>4 DEF UpdateItem
  <1>5. CASE UpdateWeight(r)
    BY <1>2, <1>5 DEF UpdateWeight
  <1>6. CASE IncreaseQuantity(r)
    <2>1. PICK x \in StoredItems, amount \in Amounts :
             /\ items[x].quantity + amount \in Quantity
             /\ AwaitItem(r, "save_item", x, items[x].quantity + amount, FALSE, amount)
      BY <1>6 DEF IncreaseQuantity
    <2>2. amount \in Int
      BY ShipmentConstants
    <2> QED
      BY <2>1, <2>2 DEF Opens
  <1>7. CASE DecreaseQuantity(r)
    <2>1. PICK x \in StoredItems, amount \in Amounts :
             /\ items[x].quantity - amount \in Quantity
             /\ AwaitItem(r, "save_item", x, items[x].quantity - amount, FALSE, 0 - amount)
      BY <1>7 DEF DecreaseQuantity
    <2>2. amount \in Int /\ 0 - amount \in Int
      BY ShipmentConstants
    <2>3. items[x].quantity - amount = items[x].quantity + (0 - amount)
      BY <1>1, <2>2
    <2> QED
      BY <2>1, <2>2, <2>3 DEF Opens
  <1> QED
    BY <1>4, <1>5, <1>6, <1>7

(* A handler that is about to save has just seen its row, or has just made *)
(* its identifier, or was about to save already.                           *)
Seen(q) ==
    \/ request'[q] = request[q]
    \/ request'[q].pc \notin {"save", "save_item"}
    \/ request'[q].id \in Stored \cup StoredItems
    \/ request'[q].id \notin issued

LEMMA ShipmentHandlerSees ==
    ASSUME TypeOK, NEW r \in Requests, ShipmentHandler(r), NEW q \in Requests
    PROVE  Seen(q)
  <1>1. CASE CreateShipment(r)
    <2>1. PICK s \in Shipments \ issued : Await(r, "save", s, "created")
      BY <1>1 DEF CreateShipment
    <2> QED
      BY <2>1, AwaitMoves DEF Seen
  <1>2. CASE ~CreateShipment(r)
    <2>1. \/ Finish(r)
          \/ \E pc : \E s \in Stored : \E entity : Await(r, pc, s, entity)
      BY <1>2, ReadableIsStored
      DEF ShipmentHandler, UpdateShipment, ServiceUpdate, MarkReceived, MarkReady,
          MarkInTransit, MarkDelivered, MarkCompleted, UpdateStatus, SaveShipment,
          DeleteShipment, EraseShipment
    <2> QED
      BY <2>1, AwaitMoves, FinishMoves DEF Seen
  <1> QED
    BY <1>1, <1>2

LEMMA ItemHandlerSees ==
    ASSUME TypeOK, NEW r \in Requests, ItemHandler(r), NEW q \in Requests
    PROVE  Seen(q)
  <1>1. CASE CreateItem(r)
    <2>1. PICK x \in Items \ issued : \E entity : Await(r, "save_item", x, entity)
      BY <1>1 DEF CreateItem
    <2> QED
      BY <2>1, AwaitMoves DEF Seen
  <1>2. CASE UpdateItem(r) \/ IncreaseQuantity(r) \/ DecreaseQuantity(r) \/ UpdateWeight(r)
    BY <1>2, ItemReadersOpen, AwaitItemMoves DEF Opens, Seen
  <1>3. CASE ServiceUpdateItem(r)
    <2>1. CASE request[r].id \in StoredItems
      <3>1. request' = [request EXCEPT ![r].pc = "save_item"]
        BY <1>3, <2>1 DEF ServiceUpdateItem
      <3>2. request[r] \in [pc : {"update_item", "save_item"}, id : Items, entity : Item,
                            set : BOOLEAN, change : Int]
        BY <1>3, RequestCases DEF ServiceUpdateItem, TypeOK
      <3>3. [request[r] EXCEPT !.pc = "save_item"].id = request[r].id
        BY <3>2
      <3>4. request'[q] = request[q] \/ request'[q].id = request[r].id
        BY <3>1, <3>3 DEF TypeOK
      <3> QED
        BY <2>1, <3>4 DEF Seen
    <2>2. CASE request[r].id \notin StoredItems
      BY <1>3, <2>2, FinishMoves DEF ServiceUpdateItem, Seen
    <2> QED
      BY <2>1, <2>2
  <1>4. CASE SaveItem(r) \/ DeleteItem(r) \/ EraseItem(r)
    <2>1. Finish(r) \/ \E x : Await(r, "erase_item", x, NoRow)
      BY <1>4 DEF SaveItem, DeleteItem, EraseItem
    <2> QED
      BY <2>1, AwaitMoves, FinishMoves DEF Seen
  <1> QED
    BY <1>1, <1>2, <1>3, <1>4 DEF ItemHandler

LEMMA NextSees ==
    ASSUME TypeOK, [Next]_vars, NEW q \in Requests
    PROVE  Seen(q)
  <1>1. ASSUME NEW r \in Requests, RequestAborts(r) PROVE Seen(q)
    BY <1>1, FinishMoves DEF RequestAborts, Seen
  <1>2. ASSUME Worker \/ PublishCancel \/ WorkerRaises \/ UNCHANGED vars PROVE Seen(q)
    BY <1>2 DEF Worker, TakeCommand, CancelShipment, PublishCancel, WorkerRaises, vars, Seen
  <1>3. ASSUME Restart PROVE Seen(q)
    BY <1>3 DEF Restart, IdleRequest, Seen
  <1> QED
    BY <1>1, <1>2, <1>3, ShipmentHandlerSees, ItemHandlerSees DEF Next

LEMMA IssuedGrows ==
    ASSUME [Next]_vars
    PROVE  issued \subseteq issued'
  <1>1. ASSUME NEW r \in Requests, ShipmentHandler(r) \/ ItemHandler(r) \/ RequestAborts(r)
        PROVE  issued \subseteq issued'
    BY <1>1
    DEF ShipmentHandler, CreateShipment, UpdateShipment, ServiceUpdate, MarkReceived, MarkReady,
        MarkInTransit, MarkDelivered, MarkCompleted, UpdateStatus, SaveShipment,
        DeleteShipment, EraseShipment, ItemHandler, CreateItem, UpdateItem, ServiceUpdateItem,
        IncreaseQuantity, DecreaseQuantity, UpdateWeight, SaveItem, DeleteItem, EraseItem,
        RequestAborts
  <1>2. ASSUME Worker \/ PublishCancel \/ WorkerRaises \/ Restart \/ UNCHANGED vars
        PROVE  issued \subseteq issued'
    BY <1>2
    DEF Worker, TakeCommand, CancelShipment, PublishCancel, WorkerRaises, Restart, vars
  <1> QED
    BY <1>1, <1>2 DEF Next

LEMMA NextKeepsGone ==
    ASSUME TypeOK, [Next]_vars, NEW x \in Shipments \cup Items, Gone(x)
    PROVE  Gone(x)'
  <1>1. x \in issued'
    BY IssuedGrows DEF Gone
  <1>2. x \notin Stored' \cup StoredItems'
    <2>1. CASE UNCHANGED <<shipments, items>>
      BY <2>1 DEF Gone, Stored, StoredItems
    <2>2. CASE \E r \in Requests : SaveStep(r)
      <3>1. PICK r \in Requests : SaveStep(r)
        BY <2>2
      <3>2. request[r].id # x
        BY <3>1 DEF SaveStep, Gone
      <3> QED
        BY <3>1, <3>2, SaveKeepsStored DEF Gone, SaveStep, StoredItems
    <2>3. CASE \E s : DeleteRow(s)
      BY <2>3 DEF Gone, Stored, StoredItems, DeleteRow, TypeOK
    <2>4. CASE \E r \in Requests : SaveItemStep(r)
      BY <2>4 DEF Gone, Stored, StoredItems, SaveItemStep, SaveItemRow, TypeOK
    <2>5. CASE UNCHANGED shipments /\ \E y : DeleteItemRow(y)
      BY <2>5 DEF Gone, Stored, StoredItems, DeleteItemRow, TypeOK
    <2> QED
      BY <2>1, <2>2, <2>3, <2>4, <2>5, TableSteps
  <1>3. ASSUME NEW r \in Requests, request'[r].pc \in {"save", "save_item"}
        PROVE  request'[r].id # x
    BY <1>3, NextSees DEF Gone, Seen
  <1> QED
    BY <1>1, <1>2, <1>3 DEF Gone

(* A shipment the saga cancelled, or an item that went with it, does not   *)
(* come back: every save but those already past their check sees the row   *)
(* first.                                                                  *)
THEOREM ShipmentsStayDeleted == Spec => DeletedStaysDeleted
  <1>1. TypeOK /\ [Next]_vars => [\A x \in Shipments \cup Items : Gone(x) => Gone(x)']_vars
    BY NextKeepsGone
  <1> QED
    BY <1>1, ShipmentTypes, PTL DEF Spec, DeletedStaysDeleted

-----------------------------------------------------------------------------
(***************************************************************************)
(* The quantities.  While an item has an account, at most one request has  *)
(* it open, and what that request will write is the account after it; an   *)
(* identifier nobody was given has neither a row nor a reader.             *)
(***************************************************************************)
Busy(r, x) == request[r].pc \in {"update_item", "save_item"} /\ request[r].id = x

KnownItem(x) == x \in StoredItems \/ (\E r \in Requests : Busy(r, x)) => x \in issued

RowAddsUp(x) == ledger[x] # 0 /\ x \in StoredItems => items[x].quantity = ledger[x]

OneReader(x) == ledger[x] # 0 => \A q, r \in Requests : Busy(q, x) /\ Busy(r, x) => q = r

ReaderAddsUp(x) ==
    ledger[x] # 0 =>
        \A r \in Requests : Busy(r, x) /\ ~request[r].set =>
            request[r].entity.quantity = ledger[x] + request[r].change

Account(x) == KnownItem(x) /\ RowAddsUp(x) /\ OneReader(x) /\ ReaderAddsUp(x)

Accounts == \A x \in Items : Account(x)

LEMMA InitAccounts == Init => Accounts
  <1> SUFFICES ASSUME Init, NEW x \in Items PROVE Account(x)
    BY DEF Accounts
  <1>1. \A r \in Requests : ~Busy(r, x)
    BY DEF Init, IdleRequest, Busy
  <1>2. x \notin StoredItems
    BY DEF Init, StoredItems
  <1> QED
    BY <1>1, <1>2 DEF Account, KnownItem, RowAddsUp, OneReader, ReaderAddsUp

(* A step that opens and writes nothing: it may end requests, and remove   *)
(* an item together with its account.                                      *)
Quiet(x) ==
    /\ issued \subseteq issued'
    /\ \/ items'[x] = items[x] /\ ledger'[x] = ledger[x]
       \/ items'[x] = NoRow /\ ledger'[x] = 0
    /\ \A q \in Requests : Busy(q, x)' => request'[q] = request[q]

LEMMA QuietKeepsAccount ==
    ASSUME NEW x \in Items, Account(x), Quiet(x)
    PROVE  Account(x)'
  <1>1. \A q \in Requests : Busy(q, x)' => Busy(q, x) /\ request'[q] = request[q]
    BY DEF Quiet, Busy
  <1>2. KnownItem(x)'
    BY <1>1 DEF Quiet, Account, KnownItem, StoredItems
  <1>3. RowAddsUp(x)'
    BY DEF Quiet, Account, RowAddsUp, StoredItems
  <1>4. OneReader(x)'
    BY <1>1 DEF Quiet, Account, OneReader
  <1>5. ReaderAddsUp(x)'
    BY <1>1 DEF Quiet, Account, ReaderAddsUp
  <1> QED
    BY <1>2, <1>3, <1>4, <1>5 DEF Account

LEMMA DeleteIsQuiet ==
    ASSUME TypeOK, NEW x \in Items
    PROVE  /\ \A s : DeleteRow(s) =>
                \/ items'[x] = items[x] /\ ledger'[x] = ledger[x]
                \/ items'[x] = NoRow /\ ledger'[x] = 0
           /\ \A y : DeleteItemRow(y) =>
                \/ items'[x] = items[x] /\ ledger'[x] = ledger[x]
                \/ items'[x] = NoRow /\ ledger'[x] = 0
  BY DEF TypeOK, DeleteRow, DeleteItemRow

LEMMA ShipmentHandlerIsQuiet ==
    ASSUME TypeOK, NEW x \in Items, NEW r \in Requests, ShipmentHandler(r), [Next]_vars
    PROVE  Quiet(x)
  <1>1. Finish(r) \/ \E pc \in {"save", "update", "erase"} : \E id, entity : Await(r, pc, id, entity)
    BY DEF ShipmentHandler, CreateShipment, UpdateShipment, ServiceUpdate, MarkReceived,
           MarkReady, MarkInTransit, MarkDelivered, MarkCompleted, UpdateStatus, SaveShipment,
           DeleteShipment, EraseShipment
  <1>2. UNCHANGED <<items, ledger>> \/ \E s : DeleteRow(s)
    BY DEF ShipmentHandler, CreateShipment, UpdateShipment, ServiceUpdate, MarkReceived,
           MarkReady, MarkInTransit, MarkDelivered, MarkCompleted, UpdateStatus, SaveShipment,
           DeleteShipment, EraseShipment, Tables
  <1>3. ASSUME NEW q \in Requests, Busy(q, x)' PROVE request'[q] = request[q]
    BY <1>1, <1>3, AwaitMoves, FinishMoves DEF Busy
  <1> QED
    BY <1>2, <1>3, DeleteIsQuiet, IssuedGrows DEF Quiet

LEMMA SurroundingsAreQuiet ==
    ASSUME TypeOK, NEW x \in Items, [Next]_vars,
           \/ Worker \/ PublishCancel \/ WorkerRaises \/ Restart \/ UNCHANGED vars
           \/ \E r \in Requests : RequestAborts(r)
    PROVE  Quiet(x)
  <1>1. UNCHANGED <<items, ledger>> \/ \E s : DeleteRow(s)
    BY DEF Worker, TakeCommand, CancelShipment, PublishCancel, WorkerRaises, Restart, vars,
           RequestAborts, Tables
  <1>2. ASSUME NEW q \in Requests, Busy(q, x)' PROVE request'[q] = request[q]
    <2>1. CASE Worker \/ PublishCancel \/ WorkerRaises \/ UNCHANGED vars
      BY <2>1 DEF Worker, TakeCommand, CancelShipment, PublishCancel, WorkerRaises, vars
    <2>2. CASE Restart
      BY <1>2, <2>2 DEF Restart, IdleRequest, Busy
    <2>3. CASE \E r \in Requests : RequestAborts(r)
      BY <1>2, <2>3, FinishMoves DEF RequestAborts, Busy
    <2> QED
      BY <2>1, <2>2, <2>3
  <1> QED
    BY <1>1, <1>2, DeleteIsQuiet, IssuedGrows DEF Quiet

LEMMA CreateItemKeepsAccount ==
    ASSUME TypeOK, NEW x \in Items, Account(x), NEW r \in Requests, CreateItem(r)
    PROVE  Account(x)'
  <1>1. PICK y \in Items \ issued, entity \in Item :
           /\ issued' = issued \cup {y}
           /\ Await(r, "save_item", y, entity)
           /\ ledger' = [ledger EXCEPT ![y] = entity.quantity]
    BY DEF CreateItem
  <1>2. items' = items
    BY DEF CreateItem, Rows
  <1>3. /\ request'[r].pc = "save_item"
        /\ request'[r].id = y
        /\ request'[r].entity = entity
        /\ request'[r].change = 0
        /\ \A q \in Requests : q # r => request'[q] = request[q]
    BY <1>1 DEF Await, TypeOK
  <1>4. CASE x # y
    <2>1. ledger'[x] = ledger[x]
      BY <1>1, <1>4 DEF TypeOK
    <2>2. \A q \in Requests : Busy(q, x)' => request'[q] = request[q]
      BY <1>3, <1>4 DEF Busy
    <2> QED
      BY <1>1, <1>2, <2>1, <2>2, QuietKeepsAccount DEF Quiet
  <1>5. CASE x = y
    <2>1. x \notin StoredItems /\ \A q \in Requests : ~Busy(q, x)
      BY <1>1, <1>5 DEF Account, KnownItem
    <2>2. x \notin StoredItems'
      BY <1>2, <2>1 DEF StoredItems
    <2>3. \A q \in Requests : Busy(q, x)' => q = r
      BY <1>3, <2>1 DEF Busy
    <2>4. ledger'[x] = entity.quantity /\ entity.quantity \in Int
      BY <1>1, <1>5, QuantityIsInt DEF TypeOK, Item
    <2>5. entity.quantity = ledger'[x] + request'[r].change
      BY <1>3, <2>4
    <2>6. KnownItem(x)'
      BY <1>1, <1>5 DEF KnownItem
    <2>7. RowAddsUp(x)' /\ OneReader(x)'
      BY <2>2, <2>3 DEF RowAddsUp, OneReader
    <2>8. ReaderAddsUp(x)'
      BY <1>3, <2>3, <2>5 DEF ReaderAddsUp
    <2> QED
      BY <2>6, <2>7, <2>8 DEF Account
  <1> QED
    BY <1>4, <1>5

LEMMA OpenKeepsAccount ==
    ASSUME TypeOK, NEW x \in Items, Account(x), NEW r \in Requests, Opens(r),
           request[r].pc = "idle", UNCHANGED <<items, issued>>
    PROVE  Account(x)'
  <1>1. PICK y \in StoredItems, pc \in {"update_item", "save_item"}, n \in Quantity,
             set \in BOOLEAN, change \in Int :
           /\ AwaitItem(r, pc, y, n, set, change)
           /\ ~set => n = items[y].quantity + change
    BY DEF Opens
  <1>2. y \in Items /\ [items[y] EXCEPT !.quantity = n].quantity = n
    BY StoredItemRows, QuantityKeepsItem
  <1>3. /\ request'[r].id = y
        /\ request'[r].entity = [items[y] EXCEPT !.quantity = n]
        /\ request'[r].set = set
        /\ request'[r].change = change
        /\ \A q \in Requests : q # r => request'[q] = request[q]
    BY <1>1 DEF AwaitItem, TypeOK
  <1>4. request'[r].entity.quantity = n
    BY <1>2, <1>3
  <1>5. ledger' = IF Open(y) THEN [ledger EXCEPT ![y] = 0] ELSE ledger
    BY <1>1 DEF AwaitItem
  <1>6. CASE x # y
    <2>1. ledger'[x] = ledger[x]
      BY <1>5, <1>6 DEF TypeOK
    <2>2. \A q \in Requests : Busy(q, x)' => request'[q] = request[q]
      BY <1>3, <1>6 DEF Busy
    <2> QED
      BY <2>1, <2>2, QuietKeepsAccount DEF Quiet
  <1>7. CASE x = y
    <2>1. KnownItem(x)'
      BY <1>7 DEF Account, KnownItem
    <2>2. CASE Open(y)
      <3>1. ledger'[x] = 0
        BY <1>2, <1>5, <1>7, <2>2 DEF TypeOK
      <3> QED
        BY <2>1, <3>1 DEF Account, RowAddsUp, OneReader, ReaderAddsUp
    <2>3. CASE ~Open(y)
      <3>1. ledger'[x] = ledger[x]
        BY <1>5, <2>3
      <3>2. \A q \in Requests : ~Busy(q, x)
        BY <1>7, <2>3 DEF Open, Busy
      <3>3. \A q \in Requests : Busy(q, x)' => q = r
        BY <1>3, <3>2 DEF Busy
      <3>4. RowAddsUp(x)' /\ OneReader(x)'
        BY <3>1, <3>3 DEF Account, RowAddsUp, OneReader, StoredItems
      <3>5. ReaderAddsUp(x)'
        <4>1. ASSUME ledger'[x] # 0, ~set PROVE n = ledger'[x] + change
          BY <1>1, <1>7, <3>1, <4>1 DEF Account, RowAddsUp
        <4> QED
          BY <1>3, <1>4, <3>3, <4>1 DEF ReaderAddsUp
      <3> QED
        BY <2>1, <3>4, <3>5 DEF Account
    <2> QED
      BY <2>2, <2>3
  <1> QED
    BY <1>6, <1>7

(* The second read of an update changes nothing but the statement.         *)
LEMMA ServiceUpdateItemKeepsAccount ==
    ASSUME TypeOK, NEW x \in Items, Account(x), NEW r \in Requests, ServiceUpdateItem(r)
    PROVE  Account(x)'
  <1>1. UNCHANGED <<items, ledger, issued>>
    BY DEF ServiceUpdateItem, Tables
  <1>2. CASE request[r].id \in StoredItems
    <2>1. request' = [request EXCEPT ![r].pc = "save_item"]
      BY <1>2 DEF ServiceUpdateItem
    <2>2. request[r] \in [pc : {"update_item", "save_item"}, id : Items, entity : Item,
                          set : BOOLEAN, change : Int]
      BY RequestCases DEF ServiceUpdateItem, TypeOK
    <2>3. /\ [request[r] EXCEPT !.pc = "save_item"].id = request[r].id
          /\ [request[r] EXCEPT !.pc = "save_item"].entity = request[r].entity
          /\ [request[r] EXCEPT !.pc = "save_item"].set = request[r].set
          /\ [request[r] EXCEPT !.pc = "save_item"].change = request[r].change
      BY <2>2
    <2>4. request'[r] = [request[r] EXCEPT !.pc = "save_item"]
      BY <2>1 DEF TypeOK
    <2>5. \A q \in Requests : q # r => request'[q] = request[q]
      BY <2>1 DEF TypeOK
    <2>6. \A q \in Requests : /\ request'[q].id = request[q].id
                              /\ request'[q].entity = request[q].entity
                              /\ request'[q].set = request[q].set
                              /\ request'[q].change = request[q].change
      BY <2>3, <2>4, <2>5
    <2>7. \A q \in Requests : Busy(q, x)' => Busy(q, x)
      BY <2>5, <2>6 DEF Busy, ServiceUpdateItem
    <2>8. KnownItem(x)' /\ RowAddsUp(x)' /\ OneReader(x)'
      BY <1>1, <2>7 DEF Account, KnownItem, RowAddsUp, OneReader, StoredItems
    <2>9. ReaderAddsUp(x)'
      BY <1>1, <2>6, <2>7 DEF Account, ReaderAddsUp
    <2> QED
      BY <2>8, <2>9 DEF Account
  <1>3. CASE request[r].id \notin StoredItems
    <2>1. \A q \in Requests : Busy(q, x)' => request'[q] = request[q]
      BY <1>3, FinishMoves DEF ServiceUpdateItem, Busy
    <2> QED
      BY <1>1, <2>1, QuietKeepsAccount DEF Quiet
  <1> QED
    BY <1>2, <1>3

(* The only reader of an item with an account writes the account.          *)
LEMMA SaveItemKeepsAccount ==
    ASSUME TypeOK, NEW x \in Items, Account(x), NEW r \in Requests, SaveItem(r)
    PROVE  Account(x)'
  <1> DEFINE y == request[r].id
             entity == request[r].entity
  <1>1. /\ y \in Items
        /\ entity.quantity \in Int
        /\ request[r].change \in Int
    BY RequestCases, QuantityIsInt DEF SaveItem, TypeOK, Item
  <1>2. issued' = issued
    BY DEF SaveItem
  <1>3. \A q \in Requests : Busy(q, x)' => request'[q] = request[q]
    BY FinishMoves DEF SaveItem, Busy
  <1>4. CASE items'[x] = items[x] /\ ledger'[x] = ledger[x]
    BY <1>2, <1>3, <1>4, QuietKeepsAccount DEF Quiet
  <1>5. CASE ~(items'[x] = items[x] /\ ledger'[x] = ledger[x])
    <2>1. x = y /\ items'[x] = entity /\ ledger'[x] = Entered(y, request[r])
      BY <1>1, <1>5 DEF SaveItem, SaveItemRow, TypeOK
    <2>2. Busy(r, x)
      BY <2>1 DEF SaveItem, Busy
    <2>3. request'[r].pc = "idle"
      BY DEF SaveItem, Finish, IdleRequest, TypeOK
    <2>4. \A q \in Requests : Busy(q, x)' => Busy(q, x) /\ request'[q] = request[q] /\ q # r
      BY <1>3, <2>3 DEF Busy
    <2>5. KnownItem(x)'
      BY <1>2, <2>2 DEF Account, KnownItem
    <2>6. CASE ledger[x] = 0
      <3>1. ledger'[x] = 0
        BY <2>1, <2>6 DEF Entered
      <3> QED
        BY <2>5, <3>1 DEF Account, RowAddsUp, OneReader, ReaderAddsUp
    <2>7. CASE ledger[x] # 0
      <3>1. \A q \in Requests : ~Busy(q, x)'
        BY <2>2, <2>4, <2>7 DEF Account, OneReader
      <3>2. ledger'[x] = IF request[r].set THEN entity.quantity ELSE ledger[x] + request[r].change
        BY <2>1, <2>7 DEF Entered
      <3>3. ~request[r].set => entity.quantity = ledger[x] + request[r].change
        BY <2>2, <2>7 DEF Account, ReaderAddsUp
      <3>4. items'[x].quantity = ledger'[x]
        BY <2>1, <3>2, <3>3
      <3> QED
        BY <2>5, <3>1, <3>4 DEF Account, RowAddsUp, OneReader, ReaderAddsUp
    <2> QED
      BY <2>6, <2>7
  <1> QED
    BY <1>4, <1>5

LEMMA NextAccounts == TypeOK /\ Accounts /\ [Next]_vars => Accounts'
  <1> SUFFICES ASSUME TypeOK, [Next]_vars, NEW x \in Items, Account(x) PROVE Account(x)'
    BY DEF Accounts
  <1>1. ASSUME NEW r \in Requests, ShipmentHandler(r) PROVE Account(x)'
    BY <1>1, ShipmentHandlerIsQuiet, QuietKeepsAccount
  <1>2. ASSUME NEW r \in Requests, CreateItem(r) PROVE Account(x)'
    BY <1>2, CreateItemKeepsAccount
  <1>3. ASSUME NEW r \in Requests,
               UpdateItem(r) \/ IncreaseQuantity(r) \/ DecreaseQuantity(r) \/ UpdateWeight(r)
        PROVE  Account(x)'
    <2>1. request[r].pc = "idle" /\ UNCHANGED <<items, issued>>
      BY <1>3 DEF UpdateItem, IncreaseQuantity, DecreaseQuantity, UpdateWeight, Rows
    <2> QED
      BY <1>3, <2>1, ItemReadersOpen, OpenKeepsAccount
  <1>4. ASSUME NEW r \in Requests, ServiceUpdateItem(r) PROVE Account(x)'
    BY <1>4, ServiceUpdateItemKeepsAccount
  <1>5. ASSUME NEW r \in Requests, SaveItem(r) PROVE Account(x)'
    BY <1>5, SaveItemKeepsAccount
  <1>6. ASSUME NEW r \in Requests, DeleteItem(r) \/ EraseItem(r) PROVE Account(x)'
    <2>1. Finish(r) \/ \E y : Await(r, "erase_item", y, NoRow)
      BY <1>6 DEF DeleteItem, EraseItem
    <2>2. \A q \in Requests : Busy(q, x)' => request'[q] = request[q]
      BY <2>1, AwaitMoves, FinishMoves DEF Busy
    <2>3. UNCHANGED <<items, ledger>> \/ \E y : DeleteItemRow(y)
      BY <1>6 DEF DeleteItem, EraseItem, Tables
    <2> QED
      BY <2>2, <2>3, DeleteIsQuiet, IssuedGrows, QuietKeepsAccount DEF Quiet
  <1>7. ASSUME \/ Worker \/ PublishCancel \/ WorkerRaises \/ Restart \/ UNCHANGED vars
               \/ \E r \in Requests : RequestAborts(r)
        PROVE  Account(x)'
    BY <1>7, SurroundingsAreQuiet, QuietKeepsAccount
  <1> QED
    BY <1>1, <1>2, <1>3, <1>4, <1>5, <1>6, <1>7 DEF Next, ItemHandler

(* An item that never two requests had open at once holds exactly what its *)
(* requests asked for, however requests on other items, refusals, aborted  *)
(* handlers, restarts and cancelled shipments come in between.             *)
THEOREM QuantitiesAddUp == Spec => []QuantityAddsUp
  <1>1. Spec => []Accounts
    BY InitAccounts, NextAccounts, ShipmentTypes, PTL DEF Spec
  <1>2. Accounts => QuantityAddsUp
    BY DEF Accounts, Account, RowAddsUp, QuantityAddsUp, StoredItems
  <1> QED
    BY <1>1, <1>2, PTL
=============================================================================
