--------------------------- MODULE ShipmentService ---------------------------
(***************************************************************************)
(* The shipment service: the shipments and items tables, the HTTP handlers *)
(* that write them and the worker that deletes a shipment when the saga    *)
(* coordinator sends shipment.cancel.                                      *)
(*                                                                         *)
(* Every statement is a step and pc names the one a handler is about to    *)
(* run; the first SELECT of a handler is taken together with the arrival   *)
(* of its request.  ledger is a history variable: what the quantity of an  *)
(* item should be, kept as long as no two requests have the item open.     *)
(* Every route publishes its event after the write; that changes nothing   *)
(* here, not even when it raises, and is left out.                         *)
(***************************************************************************)
EXTENDS Integers, Sequences

CONSTANTS
    Shipments,        \* shipment identifiers, uuid4
    Items,            \* item identifiers, uuid4
    Requests,         \* HTTP handlers that can be running at the same time
    CheckedStatuses,  \* the statuses ck_shipment_status admits
    RowsReadBack,     \* whether _row_to_entity can rebuild a Shipment from its row
    MaxQuantity,      \* the largest value of the INTEGER column
    Amounts,          \* bound: the amounts requests add and take away
    QueueLimit,       \* bound on the commands waiting in shipment.commands
    MaxStops,         \* bound on the stops of the service
    None,             \* no identifier
    NoRow             \* the result of a SELECT that finds nothing

ShipmentStatus == {"created", "received", "ready_for_delivery", "in_transit",
                   "delivered", "completed"}

(* Quantity refuses anything below one. *)
Quantity == 1 .. MaxQuantity

Item == [shipment : Shipments, quantity : Quantity]

ASSUME ShipmentConstants ==
    /\ None \notin Shipments \cup Items
    /\ Shipments \cap Items = {}
    /\ NoRow \notin ShipmentStatus \cup Item
    /\ RowsReadBack \in BOOLEAN
    /\ MaxQuantity \in Nat \ {0}
    /\ Amounts \subseteq Int
    /\ QueueLimit \in Nat \ {0}
    /\ MaxStops \in Nat

VARIABLES
    shipments,  \* the shipments table: the status of each row
    items,      \* the items table
    issued,     \* the identifiers uuid4 has given out
    request,    \* the local state of each running handler
    commands,   \* the topic shipment.commands: the shipments to cancel
    worker,     \* the shipment the command worker is cancelling
    dropped,    \* shipments whose command raised or was lost in a stop
    stops,      \* how often the service was stopped
    ledger      \* the account of each item; 0 when none is kept

vars == <<shipments, items, issued, request, commands, worker, dropped, stops, ledger>>

Stored == {s \in Shipments : shipments[s] # NoRow}
StoredItems == {x \in Items : items[x] # NoRow}

(* The shipments a get returns: it raises when the row is no Shipment.     *)
Readable == IF RowsReadBack THEN Stored ELSE {}

(* set is TRUE when the request says what the quantity shall be, and       *)
(* change is what it adds to it when it does not.                          *)
IdleRequest == [pc |-> "idle", id |-> None, entity |-> NoRow, set |-> FALSE, change |-> 0]

Init ==
    /\ shipments = [s \in Shipments |-> NoRow]
    /\ items = [x \in Items |-> NoRow]
    /\ issued = {}
    /\ request = [r \in Requests |-> IdleRequest]
    /\ commands = <<>>
    /\ worker = None
    /\ dropped = {}
    /\ stops = 0
    /\ ledger = [x \in Items |-> 0]

-----------------------------------------------------------------------------
(* The tables. *)

SaveRow(s, status) ==
    shipments' = IF status \in CheckedStatuses THEN [shipments EXCEPT ![s] = status] ELSE shipments

(* A slip: the foreign key has no ON DELETE CASCADE and is not enforced. *)
DeleteRowOnly(s) ==
    /\ shipments' = [shipments EXCEPT ![s] = NoRow]
    /\ UNCHANGED <<items, ledger>>

(* ON DELETE CASCADE: the items of the shipment go with it. *)
DeleteRow(s) ==
    LET lost == {x \in StoredItems : items[x].shipment = s} IN
       /\ shipments' = [shipments EXCEPT ![s] = NoRow]
       /\ items' = [x \in Items |-> IF x \in lost THEN NoRow ELSE items[x]]
       /\ ledger' = [x \in Items |-> IF x \in lost THEN 0 ELSE ledger[x]]

(* The account after a request wrote the item. *)
Entered(x, q) ==
    IF ledger[x] = 0 THEN 0 ELSE IF q.set THEN q.entity.quantity ELSE ledger[x] + q.change

(* The foreign key refuses an item of a shipment that is not there. *)
SaveItemRow(x, q) ==
    IF q.entity.shipment \in Stored
    THEN /\ items' = [items EXCEPT ![x] = q.entity]
         /\ ledger' = [ledger EXCEPT ![x] = Entered(x, q)]
    ELSE UNCHANGED <<items, ledger>>

DeleteItemRow(x) ==
    /\ items' = [items EXCEPT ![x] = NoRow]
    /\ ledger' = [ledger EXCEPT ![x] = 0]

-----------------------------------------------------------------------------
(* The handlers of shipments. *)

Await(r, pc, id, entity) ==
    request' = [request EXCEPT ![r] =
                   [pc |-> pc, id |-> id, entity |-> entity, set |-> FALSE, change |-> 0]]

Finish(r) == request' = [request EXCEPT ![r] = IdleRequest]

Tables == <<shipments, items, ledger>>
Others == <<commands, worker, dropped, stops>>

CreateShipment(r) ==
    /\ request[r].pc = "idle"
    /\ \E s \in Shipments \ issued :
          /\ issued' = issued \cup {s}
          /\ Await(r, "save", s, "created")
    /\ UNCHANGED <<Tables, Others>>

(* update_entity_from_dto keeps the status or takes the one of the body. *)
UpdateShipment(r) ==
    /\ request[r].pc = "idle"
    /\ \E s \in Readable, status \in ShipmentStatus : Await(r, "update", s, status)
    /\ UNCHANGED <<Tables, issued, Others>>

(* A slip: update saves without looking for the row first. *)
ServiceUpdateUnchecked(r) ==
    /\ request[r].pc = "update"
    /\ Await(r, "save", request[r].id, request[r].entity)
    /\ UNCHANGED <<Tables, issued, Others>>

ServiceUpdate(r) ==
    /\ request[r].pc = "update"
    /\ IF request[r].id \in Readable
       THEN Await(r, "save", request[r].id, request[r].entity)
       ELSE Finish(r)
    /\ UNCHANGED <<Tables, issued, Others>>

(* update_status reads the row and saves it: no transition is refused. *)
UpdateStatus(r, status) ==
    /\ request[r].pc = "idle"
    /\ \E s \in Readable : Await(r, "save", s, status)
    /\ UNCHANGED <<Tables, issued, Others>>

MarkReceived(r) == UpdateStatus(r, "received")
MarkReady(r) == UpdateStatus(r, "ready_for_delivery")
MarkInTransit(r) == UpdateStatus(r, "in_transit")

(* A slip: a status that is none of ShipmentStatus. *)
MarkDeliveredAsArrived(r) == UpdateStatus(r, "arrived")

MarkDelivered(r) == UpdateStatus(r, "delivered")
MarkCompleted(r) == UpdateStatus(r, "completed")

SaveShipment(r) ==
    /\ request[r].pc = "save"
    /\ SaveRow(request[r].id, request[r].entity)
    /\ Finish(r)
    /\ UNCHANGED <<items, ledger, issued, Others>>

DeleteShipment(r) ==
    /\ request[r].pc = "idle"
    /\ \E s \in Readable : Await(r, "erase", s, NoRow)
    /\ UNCHANGED <<Tables, issued, Others>>

(* A DELETE that finds nothing raises and is answered with 404. *)
EraseShipment(r) ==
    /\ request[r].pc = "erase"
    /\ DeleteRow(request[r].id)
    /\ Finish(r)
    /\ UNCHANGED <<issued, Others>>

-----------------------------------------------------------------------------
(* The handlers of items. *)

Open(x) == \E r \in Requests : request[r].pc \in {"update_item", "save_item"} /\ request[r].id = x

(* Whoever reads an item another request has open ends its account. *)
AwaitItem(r, pc, x, quantity, set, change) ==
    /\ request' = [request EXCEPT ![r] =
                      [pc |-> pc, id |-> x,
                       entity |-> [items[x] EXCEPT !.quantity = quantity],
                       set |-> set, change |-> change]]
    /\ ledger' = IF Open(x) THEN [ledger EXCEPT ![x] = 0] ELSE ledger

Rows == <<shipments, items>>

(* The router takes the shipment from the path without looking for it. *)
CreateItem(r) ==
    /\ request[r].pc = "idle"
    /\ \E x \in Items \ issued, entity \in Item :
          /\ issued' = issued \cup {x}
          /\ Await(r, "save_item", x, entity)
          /\ ledger' = [ledger EXCEPT ![x] = entity.quantity]
    /\ UNCHANGED <<Rows, Others>>

(* A new quantity, or only a new name or weight. *)
UpdateItem(r) ==
    /\ request[r].pc = "idle"
    /\ \E x \in StoredItems :
          \/ \E n \in Quantity : AwaitItem(r, "update_item", x, n, TRUE, 0)
          \/ AwaitItem(r, "update_item", x, items[x].quantity, FALSE, 0)
    /\ UNCHANGED <<Rows, issued, Others>>

ServiceUpdateItem(r) ==
    /\ request[r].pc = "update_item"
    /\ IF request[r].id \in StoredItems
       THEN request' = [request EXCEPT ![r].pc = "save_item"]
       ELSE Finish(r)
    /\ UNCHANGED <<Tables, issued, Others>>

(* A slip: the amount takes the place of the quantity. *)
IncreaseQuantityReplacing(r) ==
    /\ request[r].pc = "idle"
    /\ \E x \in StoredItems, amount \in Amounts :
          /\ amount \in Quantity
          /\ AwaitItem(r, "save_item", x, amount, FALSE, amount)
    /\ UNCHANGED <<Rows, issued, Others>>

IncreaseQuantity(r) ==
    /\ request[r].pc = "idle"
    /\ \E x \in StoredItems, amount \in Amounts :
          LET n == items[x].quantity + amount IN
             /\ n \in Quantity
             /\ AwaitItem(r, "save_item", x, n, FALSE, amount)
    /\ UNCHANGED <<Rows, issued, Others>>

(* Neither a negative result nor the zero that passes the service's check  *)
(* becomes a Quantity.                                                     *)
DecreaseQuantity(r) ==
    /\ request[r].pc = "idle"
    /\ \E x \in StoredItems, amount \in Amounts :
          LET n == items[x].quantity - amount IN
             /\ n \in Quantity
             /\ AwaitItem(r, "save_item", x, n, FALSE, 0 - amount)
    /\ UNCHANGED <<Rows, issued, Others>>

UpdateWeight(r) ==
    /\ request[r].pc = "idle"
    /\ \E x \in StoredItems : AwaitItem(r, "save_item", x, items[x].quantity, FALSE, 0)
    /\ UNCHANGED <<Rows, issued, Others>>

SaveItem(r) ==
    /\ request[r].pc = "save_item"
    /\ SaveItemRow(request[r].id, request[r])
    /\ Finish(r)
    /\ UNCHANGED <<shipments, issued, Others>>

DeleteItem(r) ==
    /\ request[r].pc = "idle"
    /\ \E x \in StoredItems : Await(r, "erase_item", x, NoRow)
    /\ UNCHANGED <<Tables, issued, Others>>

EraseItem(r) ==
    /\ request[r].pc = "erase_item"
    /\ DeleteItemRow(request[r].id)
    /\ Finish(r)
    /\ UNCHANGED <<shipments, issued, Others>>

(* A statement raises, or the client goes away and its handler is cancelled. *)
RequestAborts(r) ==
    /\ request[r].pc # "idle"
    /\ Finish(r)
    /\ UNCHANGED <<Tables, issued, Others>>

-----------------------------------------------------------------------------
(* The command worker. *)

(* The coordinator sends the command, or sends it again after a timeout. *)
PublishCancel ==
    /\ Len(commands) < QueueLimit
    /\ \E s \in issued \cap Shipments : commands' = Append(commands, s)
    /\ UNCHANGED <<Tables, issued, request, worker, dropped, stops>>

TakeCommand ==
    /\ worker = None
    /\ commands # <<>>
    /\ worker' = Head(commands)
    /\ commands' = Tail(commands)
    /\ UNCHANGED <<Tables, issued, request, dropped, stops>>

(* A slip: a shipment that has left is not cancelled any more. *)
CancelUnlessMoving ==
    /\ worker # None
    /\ IF shipments[worker] = "in_transit" THEN UNCHANGED Tables ELSE DeleteRow(worker)
    /\ worker' = None
    /\ UNCHANGED <<issued, request, commands, dropped, stops>>

(* One DELETE; ShipmentNotFoundError is caught: it is gone already. *)
CancelShipment ==
    /\ worker # None
    /\ DeleteRow(worker)
    /\ worker' = None
    /\ UNCHANGED <<issued, request, commands, dropped, stops>>

(* Any other error is logged and the loop takes the next command. *)
WorkerRaises ==
    /\ worker # None
    /\ dropped' = dropped \cup {worker}
    /\ worker' = None
    /\ UNCHANGED <<Tables, issued, request, commands, stops>>

(* The service stops and starts again.  Its handlers are lost; a command   *)
(* that was taken is lost too, or delivered again if its offset was not    *)
(* committed.                                                              *)
Restart ==
    /\ stops < MaxStops
    /\ stops' = stops + 1
    /\ request' = [r \in Requests |-> IdleRequest]
    /\ worker' = None
    /\ IF worker = None
       THEN UNCHANGED <<commands, dropped>>
       ELSE \/ commands' = <<worker>> \o commands /\ UNCHANGED dropped
            \/ dropped' = dropped \cup {worker} /\ UNCHANGED commands
    /\ UNCHANGED <<Tables, issued>>

-----------------------------------------------------------------------------
ShipmentHandler(r) ==
    \/ CreateShipment(r) \/ UpdateShipment(r) \/ ServiceUpdate(r) \/ MarkReceived(r)
    \/ MarkReady(r) \/ MarkInTransit(r) \/ MarkDelivered(r) \/ MarkCompleted(r)
    \/ SaveShipment(r) \/ DeleteShipment(r) \/ EraseShipment(r)

ItemHandler(r) ==
    \/ CreateItem(r) \/ UpdateItem(r) \/ ServiceUpdateItem(r) \/ IncreaseQuantity(r)
    \/ DecreaseQuantity(r) \/ UpdateWeight(r) \/ SaveItem(r) \/ DeleteItem(r) \/ EraseItem(r)

Worker == TakeCommand \/ CancelShipment

Next ==
    \/ \E r \in Requests : ShipmentHandler(r) \/ ItemHandler(r) \/ RequestAborts(r)
    \/ PublishCancel
    \/ Worker
    \/ WorkerRaises
    \/ Restart

Spec == Init /\ [][Next]_vars

(* The event loop gives the worker's task its turn; nobody has to send a   *)
(* request.                                                                *)
LiveSpec == Spec /\ WF_vars(Worker)

-----------------------------------------------------------------------------
RequestState ==
    {IdleRequest}
        \cup [pc : {"update", "save"}, id : Shipments, entity : ShipmentStatus,
              set : {FALSE}, change : {0}]
        \cup [pc : {"update_item", "save_item"}, id : Items, entity : Item,
              set : BOOLEAN, change : Int]
        \cup [pc : {"erase"}, id : Shipments, entity : {NoRow}, set : {FALSE}, change : {0}]
        \cup [pc : {"erase_item"}, id : Items, entity : {NoRow}, set : {FALSE}, change : {0}]

(* Every variable has its type; a request holds the row its step needs.    *)
TypeOK ==
    /\ shipments \in [Shipments -> ShipmentStatus \cup {NoRow}]
    /\ items \in [Items -> Item \cup {NoRow}]
    /\ issued \subseteq Shipments \cup Items
    /\ request \in [Requests -> RequestState]
    /\ commands \in Seq(Shipments)
    /\ worker \in Shipments \cup {None}
    /\ dropped \subseteq Shipments
    /\ stops \in 0 .. MaxStops
    /\ ledger \in [Items -> Int]

(* A shipment may be cancelled while items of it are created or saved from *)
(* stale copies: an item on record belongs to a shipment on record.        *)
ItemsHaveShipment == \A x \in StoredItems : items[x].shipment \in Stored

(* No row and nobody past the last look at it: x was deleted for good.     *)
Gone(x) ==
    /\ x \in issued
    /\ x \notin Stored \cup StoredItems
    /\ \A r \in Requests : request[r].pc \in {"save", "save_item"} => request[r].id # x

(* A shipment the saga cancelled, or an item that was deleted with it or   *)
(* alone, does not come back: only a save that was already past its check  *)
(* can undo a DELETE.                                                      *)
DeletedStaysDeleted ==
    [][\A x \in Shipments \cup Items : Gone(x) => Gone(x)']_vars

(* An item that never two requests had open at once holds exactly what its *)
(* requests asked for; failed, refused and interrupted ones count nothing. *)
QuantityAddsUp ==
    \A x \in StoredItems : ledger[x] # 0 => items[x].quantity = ledger[x]

Ordered(s) == worker = s \/ \E i \in DOMAIN commands : commands[i] = s

(* A shipment.cancel command that reached the topic removes its shipment,  *)
(* whatever its status and whoever writes it, unless the error was logged  *)
(* or the service stopped.                                                 *)
CancelTakesEffect ==
    \A s \in Shipments : Ordered(s) ~> shipments[s] = NoRow \/ s \in dropped
=============================================================================
