-------------------------- MODULE WarehouseService --------------------------
(***************************************************************************)
(* The warehouse service: the warehouses and inventory_records tables, the *)
(* HTTP handlers that write them and the worker that gives the stock of a  *)
(* shipment back when the saga coordinator sends inventory.release.        *)
(*                                                                         *)
(* As in DeliveryService every statement is a step, pc names the one a     *)
(* handler is about to run, and the first SELECT of a handler is taken     *)
(* together with the arrival of its request.  The events published after   *)
(* the writes change nothing here and are left out.                        *)
(***************************************************************************)
EXTENDS Naturals, Sequences

CONSTANTS
    Warehouses,     \* warehouse identifiers, uuid4
    Records,        \* inventory record identifiers, uuid4
    Shipments,      \* shipment identifiers, given by the clients
    Requests,       \* HTTP handlers that can be running at the same time
    AskedStatuses,  \* bound: the statuses the bodies of the requests carry
    QueueLimit,     \* bound on the commands waiting in inventory.commands
    MaxStops,       \* bound on the stops of the service
    None,           \* no identifier
    NoRow           \* the result of a SELECT that finds nothing

InventoryStatus == {"received", "stored", "ready_for_delivery", "shipped"}

InventoryRecord == [shipment : Shipments, warehouse : Warehouses, status : InventoryStatus]

ASSUME WarehouseConstants ==
    /\ None \notin Warehouses \cup Records \cup Shipments
    /\ Warehouses \cap Records = {}
    /\ NoRow \notin InventoryRecord
    /\ AskedStatuses \subseteq InventoryStatus
    /\ QueueLimit \in Nat \ {0}
    /\ MaxStops \in Nat

VARIABLES
    warehouses,  \* the warehouses table: the identifiers it holds
    records,     \* the inventory_records table
    issued,      \* the identifiers uuid4 has given out
    request,     \* the local state of each running handler
    commands,    \* the topic inventory.commands: the shipments to release
    worker,      \* the local state of the command worker
    skipped,     \* records whose release raised and was logged
    dropped,     \* shipments whose command raised or was lost in a stop
    stops        \* how often the service was stopped

vars == <<warehouses, records, issued, request, commands, worker, skipped, dropped, stops>>

Stored == {x \in Records : records[x] # NoRow}

IdleRequest == [pc |-> "idle", id |-> None, entity |-> NoRow]

IdleWorker == [pc |-> "idle", shipment |-> None, todo |-> {}, id |-> None, entity |-> NoRow]

Init ==
    /\ warehouses = {}
    /\ records = [x \in Records |-> NoRow]
    /\ issued = {}
    /\ request = [r \in Requests |-> IdleRequest]
    /\ commands = <<>>
    /\ worker = IdleWorker
    /\ skipped = {}
    /\ dropped = {}
    /\ stops = 0

-----------------------------------------------------------------------------
(* The entity and the tables. *)

(* A slip: the enumeration's constant is named as in the table's comment.  *)
UpdateStatusReserved(entity, status) == [entity EXCEPT !.status = "reserved"]

UpdateStatus(entity, status) == [entity EXCEPT !.status = status]

(* A slip: shipped stock may be put back. *)
MayBecomeAnything(entity, status) == TRUE

MayBecome(entity, status) == entity.status = "shipped" => status = "shipped"

(* The foreign key refuses a record without a warehouse. *)
SaveRow(x, entity) ==
    records' = IF entity.warehouse \in warehouses THEN [records EXCEPT ![x] = entity] ELSE records

DeleteRow(x) == records' = [records EXCEPT ![x] = NoRow]

SaveWarehouseRow(w) == warehouses' = warehouses \cup {w} /\ UNCHANGED records

(* A slip: the foreign key has no ON DELETE CASCADE and is not enforced. *)
DeleteWarehouseRowOnly(w) == warehouses' = warehouses \ {w} /\ UNCHANGED records

(* ON DELETE CASCADE: the records of the warehouse go with it. *)
DeleteWarehouseRow(w) ==
    /\ warehouses' = warehouses \ {w}
    /\ records' = [x \in Records |->
                     IF x \in Stored /\ records[x].warehouse = w THEN NoRow ELSE records[x]]

-----------------------------------------------------------------------------
(* The handlers of inventory records. *)

Await(r, pc, id, entity) ==
    request' = [request EXCEPT ![r] = [pc |-> pc, id |-> id, entity |-> entity]]

Finish(r) == request' = [request EXCEPT ![r] = IdleRequest]

Tables == <<warehouses, records>>
Others == <<commands, worker, skipped, dropped, stops>>

(* A body without a status gives a received record. *)
CreateRecord(r) ==
    /\ request[r].pc = "idle"
    /\ \E x \in Records \ issued,
          entity \in [shipment : Shipments, warehouse : Warehouses,
                      status : AskedStatuses \cup {"received"}] :
          /\ issued' = issued \cup {x}
          /\ Await(r, "save", x, entity)
    /\ UNCHANGED <<Tables, Others>>

(* A record of another warehouse and a body without a status are refused.  *)
(* The entity of the request holds the status the client asks for.         *)
UpdateRecord(r) ==
    /\ request[r].pc = "idle"
    /\ \E x \in Stored, s \in AskedStatuses :
          Await(r, "update", x, UpdateStatus(records[x], s))
    /\ UNCHANGED <<Tables, issued, Others>>

(* A slip: update_status saves the record the handler read. *)
UpdateStatusBlindly(r) ==
    /\ request[r].pc = "update"
    /\ LET q == request[r] IN Await(r, "save", q.id, q.entity)
    /\ UNCHANGED <<Tables, issued, Others>>

(* The service reads the record again. *)
UpdateStatusRead(r) ==
    /\ request[r].pc = "update"
    /\ LET q == request[r] IN
          IF q.id \in Stored /\ MayBecome(records[q.id], q.entity.status)
          THEN Await(r, "save", q.id, UpdateStatus(records[q.id], q.entity.status))
          ELSE Finish(r)
    /\ UNCHANGED <<Tables, issued, Others>>

SaveRecord(r) ==
    /\ request[r].pc = "save"
    /\ SaveRow(request[r].id, request[r].entity)
    /\ Finish(r)
    /\ UNCHANGED <<warehouses, issued, Others>>

DeleteRecord(r) ==
    /\ request[r].pc = "idle"
    /\ \E x \in Stored : Await(r, "delete", x, NoRow)
    /\ UNCHANGED <<Tables, issued, Others>>

ServiceDelete(r) ==
    /\ request[r].pc = "delete"
    /\ IF request[r].id \in Stored THEN Await(r, "erase", request[r].id, NoRow) ELSE Finish(r)
    /\ UNCHANGED <<Tables, issued, Others>>

EraseRecord(r) ==
    /\ request[r].pc = "erase"
    /\ DeleteRow(request[r].id)
    /\ Finish(r)
    /\ UNCHANGED <<warehouses, issued, Others>>

-----------------------------------------------------------------------------
(* The handlers of warehouses. *)

CreateWarehouse(r) ==
    /\ request[r].pc = "idle"
    /\ \E w \in Warehouses \ issued :
          /\ issued' = issued \cup {w}
          /\ Await(r, "save_warehouse", w, NoRow)
    /\ UNCHANGED <<Tables, Others>>

UpdateWarehouse(r) ==
    /\ request[r].pc = "idle"
    /\ \E w \in warehouses : Await(r, "update_warehouse", w, NoRow)
    /\ UNCHANGED <<Tables, issued, Others>>

ServiceUpdateWarehouse(r) ==
    /\ request[r].pc = "update_warehouse"
    /\ IF request[r].id \in warehouses
       THEN Await(r, "save_warehouse", request[r].id, NoRow)
       ELSE Finish(r)
    /\ UNCHANGED <<Tables, issued, Others>>

(* The operation of WarehouseService no handler calls yet. *)
UpdateLocation(r) ==
    /\ request[r].pc = "idle"
    /\ \E w \in warehouses : Await(r, "save_warehouse", w, NoRow)
    /\ UNCHANGED <<Tables, issued, Others>>

SaveWarehouse(r) ==
    /\ request[r].pc = "save_warehouse"
    /\ SaveWarehouseRow(request[r].id)
    /\ Finish(r)
    /\ UNCHANGED <<issued, Others>>

DeleteWarehouse(r) ==
    /\ request[r].pc = "idle"
    /\ \E w \in warehouses : Await(r, "delete_warehouse", w, NoRow)
    /\ UNCHANGED <<Tables, issued, Others>>

ServiceDeleteWarehouse(r) ==
    /\ request[r].pc = "delete_warehouse"
    /\ IF request[r].id \in warehouses
       THEN Await(r, "erase_warehouse", request[r].id, NoRow)
       ELSE Finish(r)
    /\ UNCHANGED <<Tables, issued, Others>>

EraseWarehouse(r) ==
    /\ request[r].pc = "erase_warehouse"
    /\ DeleteWarehouseRow(request[r].id)
    /\ Finish(r)
    /\ UNCHANGED <<issued, Others>>

(* A statement raises, or the client goes away and its handler is cancelled. *)
RequestAborts(r) ==
    /\ request[r].pc # "idle"
    /\ Finish(r)
    /\ UNCHANGED <<Tables, issued, Others>>

-----------------------------------------------------------------------------
(* The command worker. *)

Unchanged == <<warehouses, issued, request, stops>>

(* The coordinator sends the command, or sends it again after a timeout. *)
PublishRelease ==
    /\ Len(commands) < QueueLimit
    /\ \E s \in Shipments : commands' = Append(commands, s)
    /\ UNCHANGED <<records, worker, skipped, dropped, Unchanged>>

TakeCommand ==
    /\ worker.pc = "idle"
    /\ commands # <<>>
    /\ worker' = [IdleWorker EXCEPT !.pc = "list", !.shipment = Head(commands)]
    /\ commands' = Tail(commands)
    /\ UNCHANGED <<records, skipped, dropped, Unchanged>>

ListRecords ==
    /\ worker.pc = "list"
    /\ LET found == {x \in Stored : records[x].shipment = worker.shipment} IN
          worker' = [worker EXCEPT !.pc = "loop", !.todo = found]
    /\ UNCHANGED <<records, commands, skipped, dropped, Unchanged>>

(* A slip: a record that cannot be released ends the loop. *)
ReleaseReadOrGiveUp ==
    /\ worker.pc = "loop"
    /\ \E x \in worker.todo :
          worker' = IF x \in Stored /\ MayBecome(records[x], "received")
                    THEN [worker EXCEPT !.pc = "save", !.id = x,
                                        !.entity = UpdateStatus(records[x], "received")]
                    ELSE [worker EXCEPT !.todo = {}]
    /\ UNCHANGED <<records, commands, skipped, dropped, Unchanged>>

(* update_status of the next record; a record that is gone or shipped is   *)
(* logged and the loop goes on.                                            *)
ReleaseRead ==
    /\ worker.pc = "loop"
    /\ \E x \in worker.todo :
          worker' = IF x \in Stored /\ MayBecome(records[x], "received")
                    THEN [worker EXCEPT !.pc = "save", !.id = x,
                                        !.entity = UpdateStatus(records[x], "received")]
                    ELSE [worker EXCEPT !.todo = @ \ {x}]
    /\ UNCHANGED <<records, commands, skipped, dropped, Unchanged>>

ReleaseSave ==
    /\ worker.pc = "save"
    /\ SaveRow(worker.id, worker.entity)
    /\ worker' = [IdleWorker EXCEPT !.pc = "loop", !.shipment = worker.shipment,
                                    !.todo = worker.todo \ {worker.id}]
    /\ UNCHANGED <<commands, skipped, dropped, Unchanged>>

(* The read or the write of one record raises: logged, next record. *)
ReleaseRaises ==
    /\ \E x \in worker.todo :
          /\ worker.pc = "save" => x = worker.id
          /\ skipped' = skipped \cup {x}
          /\ worker' = [IdleWorker EXCEPT !.pc = "loop", !.shipment = worker.shipment,
                                          !.todo = worker.todo \ {x}]
    /\ UNCHANGED <<records, commands, dropped, Unchanged>>

ReleaseDone ==
    /\ worker.pc = "loop"
    /\ worker.todo = {}
    /\ worker' = IdleWorker
    /\ UNCHANGED <<records, commands, skipped, dropped, Unchanged>>

(* The SELECT of the list raises: the command is logged and given up. *)
ListRaises ==
    /\ worker.pc = "list"
    /\ dropped' = dropped \cup {worker.shipment}
    /\ worker' = IdleWorker
    /\ UNCHANGED <<records, commands, skipped, Unchanged>>

(* The service stops and starts again.  Its handlers are lost; a command   *)
(* that was taken is lost too, or delivered again if its offset was not    *)
(* committed.                                                              *)
Restart ==
    /\ stops < MaxStops
    /\ stops' = stops + 1
    /\ request' = [r \in Requests |-> IdleRequest]
    /\ worker' = IdleWorker
    /\ IF worker.pc = "idle"
       THEN UNCHANGED <<commands, dropped>>
       ELSE \/ commands' = <<worker.shipment>> \o commands /\ UNCHANGED dropped
            \/ dropped' = dropped \cup {worker.shipment} /\ UNCHANGED commands
    /\ UNCHANGED <<warehouses, records, issued, skipped>>

-----------------------------------------------------------------------------
RecordHandler(r) ==
    \/ CreateRecord(r) \/ UpdateRecord(r) \/ UpdateStatusRead(r) \/ SaveRecord(r)
    \/ DeleteRecord(r) \/ ServiceDelete(r) \/ EraseRecord(r)

WarehouseHandler(r) ==
    \/ CreateWarehouse(r) \/ UpdateWarehouse(r) \/ ServiceUpdateWarehouse(r)
    \/ UpdateLocation(r) \/ SaveWarehouse(r) \/ DeleteWarehouse(r)
    \/ ServiceDeleteWarehouse(r) \/ EraseWarehouse(r)

Worker == TakeCommand \/ ListRecords \/ ReleaseRead \/ ReleaseSave \/ ReleaseDone

Next ==
    \/ \E r \in Requests : RecordHandler(r) \/ WarehouseHandler(r) \/ RequestAborts(r)
    \/ PublishRelease
    \/ Worker
    \/ ReleaseRaises
    \/ ListRaises
    \/ Restart

Spec == Init /\ [][Next]_vars

(* The event loop gives the worker's task its turn; nobody has to send a   *)
(* request.                                                                *)
LiveSpec == Spec /\ WF_vars(Worker)

-----------------------------------------------------------------------------
RequestState ==
    [pc : {"idle"}, id : {None}, entity : {NoRow}]
        \cup [pc : {"update", "save"}, id : Records, entity : InventoryRecord]
        \cup [pc : {"delete", "erase"}, id : Records, entity : {NoRow}]
        \cup [pc : {"update_warehouse", "save_warehouse", "delete_warehouse", "erase_warehouse"},
              id : Warehouses, entity : {NoRow}]

WorkerState ==
    {IdleWorker}
        \cup [pc : {"list", "loop"}, shipment : Shipments, todo : SUBSET Records,
              id : {None}, entity : {NoRow}]
        \cup [pc : {"save"}, shipment : Shipments, todo : SUBSET Records,
              id : Records, entity : InventoryRecord]

(* Every variable has its type; a request and the worker hold the row      *)
(* their step needs.                                                       *)
TypeOK ==
    /\ warehouses \subseteq Warehouses
    /\ records \in [Records -> InventoryRecord \cup {NoRow}]
    /\ issued \subseteq Warehouses \cup Records
    /\ request \in [Requests -> RequestState]
    /\ commands \in Seq(Shipments)
    /\ worker \in WorkerState
    /\ skipped \subseteq Records
    /\ dropped \subseteq Shipments
    /\ stops \in 0 .. MaxStops

(* A warehouse may be deleted while records of it are created, updated or  *)
(* released from stale copies: stock that is on record lies in a warehouse *)
(* that is on record.                                                      *)
StockHasWarehouse == \A x \in Stored : records[x].warehouse \in warehouses

RecordWriters(x) ==
    {request[r].entity : r \in {q \in Requests : request[q].pc = "save" /\ request[q].id = x}}
        \cup (IF worker.pc = "save" /\ worker.id = x THEN {worker.entity} ELSE {})

(* No row and nobody past the last look at it: x was deleted for good.     *)
Gone(x) ==
    /\ x \in issued
    /\ x \notin Stored \cup warehouses
    /\ RecordWriters(x) = {}
    /\ \A r \in Requests : request[r].pc = "save_warehouse" => request[r].id # x

(* A record or a warehouse that was removed, a record by the CASCADE of    *)
(* its warehouse included, does not come back: only a save that was past   *)
(* its check can undo a DELETE.                                            *)
DeletedStaysDeleted ==
    [][\A x \in Warehouses \cup Records : Gone(x) => Gone(x)']_vars

(* Shipped stock, with no writer left that read it before it was shipped.  *)
Dispatched(x) ==
    /\ x \in Stored /\ records[x].status = "shipped"
    /\ \A entity \in RecordWriters(x) : entity.status = "shipped"

(* What has left the warehouse is never put back, by a client or by the    *)
(* release that races the dispatch; it can only be removed.                *)
ShippedIsFinal ==
    [][\A x \in Records : Dispatched(x) => (Dispatched(x) \/ x \notin Stored)']_vars

Queued(s) == \E i \in DOMAIN commands : commands[i] = s

(* The release of a shipment reaches every record it has while the command *)
(* waits, whichever of them are deleted, shipped or refused on the way,    *)
(* unless the failure of the record or of the command was logged or the    *)
(* service stopped.                                                        *)
ReleaseReachesAll ==
    \A x \in Records, s \in Shipments :
        Queued(s) /\ x \in Stored /\ records[x].shipment = s
            ~> \/ x \notin Stored
               \/ records[x].status \in {"received", "shipped"}
               \/ x \in skipped
               \/ s \in dropped
=============================================================================
