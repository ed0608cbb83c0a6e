----------------------- MODULE WarehouseServiceProofs -----------------------
(***************************************************************************)
(* Theorems about the warehouse service, for any number of warehouses,     *)
(* records, shipments, handlers and stops.                                 *)
(***************************************************************************)
EXTENDS WarehouseService, TLAPS

LEMMA UpdateStatusKeepsRecord ==
    ASSUME NEW entity \in InventoryRecord, NEW status \in InventoryStatus
    PROVE  /\ UpdateStatus(entity, status) \in InventoryRecord
           /\ UpdateStatus(entity, status).status = status
  BY DEF UpdateStatus, InventoryRecord

(* What a handler holds, by the statement it is about to run.              *)
LEMMA RequestCases ==
    ASSUME NEW q \in RequestState
    PROVE  /\ q.pc \in {"update", "save"} =>
                /\ q.id \in Records
                /\ q.entity \in InventoryRecord
                /\ q.entity.status \in InventoryStatus
           /\ q.pc \in {"delete", "erase"} => q.id \in Records
           /\ q.pc \in {"update_warehouse", "save_warehouse",
                        "delete_warehouse", "erase_warehouse"} => q.id \in Warehouses
  BY DEF RequestState, InventoryRecord

LEMMA WorkerCases ==
    ASSUME worker \in WorkerState
    PROVE  /\ worker.pc # "idle" => worker.shipment \in Shipments
           /\ worker.todo \subseteq Records
           /\ worker.pc = "save" => worker.id \in Records /\ worker.entity \in InventoryRecord
           /\ worker.pc = "list" \/ worker.pc = "loop" => worker.id = None /\ worker.entity = NoRow
           /\ worker = [pc |-> worker.pc, shipment |-> worker.shipment, todo |-> worker.todo,
                        id |-> worker.id, entity |-> worker.entity]
  BY DEF WorkerState, IdleWorker

LEMMA StoredRows ==
    ASSUME TypeOK, NEW x \in Stored
    PROVE  x \in Records /\ records[x] \in InventoryRecord
  BY DEF TypeOK, Stored

LEMMA AwaitRecord ==
    ASSUME TypeOK, NEW r \in Requests, NEW pc \in {"update", "save"},
           NEW id \in Records, NEW entity \in InventoryRecord, Await(r, pc, id, entity)
    PROVE  request' \in [Requests -> RequestState]
  <1>1. [pc |-> pc, id |-> id, entity |-> entity] \in RequestState
    BY DEF RequestState
  <1> QED
    BY <1>1 DEF Await, TypeOK

LEMMA AwaitIdentifier ==
    ASSUME TypeOK, NEW r \in Requests, NEW pc, NEW id, Await(r, pc, id, NoRow),
           \/ pc \in {"delete", "erase"} /\ id \in Records
           \/ /\ pc \in {"update_warehouse", "save_warehouse",
                         "delete_warehouse", "erase_warehouse"}
              /\ id \in Warehouses
    PROVE  request' \in [Requests -> RequestState]
  <1>1. [pc |-> pc, id |-> id, entity |-> NoRow] \in RequestState
    BY DEF RequestState
  <1> QED
    BY <1>1 DEF Await, TypeOK

LEMMA FinishKeepsRequests ==
    ASSUME TypeOK, NEW r \in Requests, Finish(r)
    PROVE  request' \in [Requests -> RequestState]
  <1>1. IdleRequest \in RequestState
    BY DEF IdleRequest, RequestState
  <1> QED
    BY <1>1 DEF TypeOK, Finish

LEMMA RowsKeepTables ==
    ASSUME TypeOK
    PROVE  /\ \A x \in Records, entity \in InventoryRecord :
                SaveRow(x, entity) => records' \in [Records -> InventoryRecord \cup {NoRow}]
           /\ \A x : DeleteRow(x) => records' \in [Records -> InventoryRecord \cup {NoRow}]
           /\ \A w \in Warehouses : SaveWarehouseRow(w) =>
                /\ warehouses' \subseteq Warehouses
                /\ records' \in [Records -> InventoryRecord \cup {NoRow}]
           /\ \A w : DeleteWarehouseRow(w) =>
                /\ warehouses' \subseteq Warehouses
                /\ records' \in [Records -> InventoryRecord \cup {NoRow}]
  BY DEF TypeOK, SaveRow, DeleteRow, SaveWarehouseRow, DeleteWarehouseRow

-----------------------------------------------------------------------------
LEMMA InitTypeOK == Init => TypeOK
  <1> SUFFICES ASSUME Init PROVE TypeOK
    OBVIOUS
  <1>1. IdleRequest \in RequestState
    BY DEF IdleRequest, RequestState
  <1>2. IdleWorker \in WorkerState
    BY DEF WorkerState
  <1>3. commands \in Seq(Shipments) /\ stops \in 0 .. MaxStops
    BY WarehouseConstants DEF Init
  <1> QED
    BY <1>1, <1>2, <1>3 DEF Init, TypeOK

LEMMA RecordHandlerTypeOK ==
    ASSUME TypeOK, NEW r \in Requests, RecordHandler(r)
    PROVE  TypeOK'
  <1>1. ASSUME CreateRecord(r) PROVE TypeOK'
    <2>1. PICK x \in Records, entity \in [shipment : Shipments, warehouse : Warehouses,
                                          status : AskedStatuses \cup {"received"}] :
             issued' = issued \cup {x} /\ Await(r, "save", x, entity)
      BY <1>1 DEF CreateRecord
    <2>2. entity \in InventoryRecord
      BY WarehouseConstants DEF InventoryRecord, InventoryStatus
    <2>3. request' \in [Requests -> RequestState]
      BY <2>1, <2>2, AwaitRecord
    <2> QED
      BY <1>1, <2>1, <2>3 DEF CreateRecord, TypeOK, Tables, Others
  <1>2. ASSUME UpdateRecord(r) PROVE TypeOK'
    <2>1. PICK x \in Stored, s \in AskedStatuses :
             Await(r, "update", x, UpdateStatus(records[x], s))
      BY <1>2 DEF UpdateRecord
    <2>2. x \in Records /\ UpdateStatus(records[x], s) \in InventoryRecord
      BY StoredRows, UpdateStatusKeepsRecord, WarehouseConstants
    <2>3. request' \in [Requests -> RequestState]
      BY <2>1, <2>2, AwaitRecord
    <2> QED
      BY <1>2, <2>3 DEF UpdateRecord, TypeOK, Tables, Others
  <1>3. ASSUME UpdateStatusRead(r) PROVE TypeOK'
    <2>1. request[r].id \in Records /\ request[r].entity.status \in InventoryStatus
      BY <1>3, RequestCases DEF UpdateStatusRead, TypeOK
    <2>2. request[r].id \in Stored =>
            UpdateStatus(records[request[r].id], request[r].entity.status) \in InventoryRecord
      BY <2>1, StoredRows, UpdateStatusKeepsRecord
    <2>3. request' \in [Requests -> RequestState]
      BY <1>3, <2>1, <2>2, AwaitRecord, FinishKeepsRequests DEF UpdateStatusRead
    <2> QED
      BY <1>3, <2>3 DEF UpdateStatusRead, TypeOK, Tables, Others
  <1>4. ASSUME SaveRecord(r) PROVE TypeOK'
    <2>1. request[r].id \in Records /\ request[r].entity \in InventoryRecord
      BY <1>4, RequestCases DEF SaveRecord, TypeOK
    <2>2. records' \in [Records -> InventoryRecord \cup {NoRow}]
      BY <1>4, <2>1, RowsKeepTables DEF SaveRecord
    <2>3. request' \in [Requests -> RequestState]
      BY <1>4, FinishKeepsRequests DEF SaveRecord
    <2> QED
      BY <1>4, <2>2, <2>3 DEF SaveRecord, TypeOK, Others
  <1>5. ASSUME DeleteRecord(r) \/ ServiceDelete(r) PROVE TypeOK'
    <2>1. request' \in [Requests -> RequestState]
      BY <1>5, StoredRows, AwaitIdentifier, FinishKeepsRequests DEF DeleteRecord, ServiceDelete
    <2> QED
      BY <1>5, <2>1 DEF DeleteRecord, ServiceDelete, TypeOK, Tables, Others
  <1>6. ASSUME EraseRecord(r) PROVE TypeOK'
    <2>1. records' \in [Records -> InventoryRecord \cup {NoRow}]
      BY <1>6, RowsKeepTables DEF EraseRecord
    <2>2. request' \in [Requests -> RequestState]
      BY <1>6, FinishKeepsRequests DEF EraseRecord
    <2> QED
      BY <1>6, <2>1, <2>2 DEF EraseRecord, TypeOK, Others
  <1> QED
    BY <1>1, <1>2, <1>3, <1>4, <1>5, <1>6 DEF RecordHandler

LEMMA WarehouseHandlerTypeOK ==
    ASSUME TypeOK, NEW r \in Requests, WarehouseHandler(r)
    PROVE  TypeOK'
  <1>1. ASSUME CreateWarehouse(r) PROVE TypeOK'
    <2>1. PICK w \in Warehouses : issued' = issued \cup {w} /\ Await(r, "save_warehouse", w, NoRow)
      BY <1>1 DEF CreateWarehouse
    <2>2. request' \in [Requests -> RequestState]
      BY <2>1, AwaitIdentifier
    <2> QED
      BY <1>1, <2>1, <2>2 DEF CreateWarehouse, TypeOK, Tables, Others
  <1>2. ASSUME \/ UpdateWarehouse(r) \/ ServiceUpdateWarehouse(r) \/ UpdateLocation(r)
               \/ DeleteWarehouse(r) \/ ServiceDeleteWarehouse(r)
        PROVE TypeOK'
    <2>1. /\ \/ Finish(r)
             \/ \E w \in warehouses, pc \in {"update_warehouse", "save_warehouse",
                                             "delete_warehouse", "erase_warehouse"} :
                   Await(r, pc, w, NoRow)
          /\ UNCHANGED <<Tables, issued, Others>>
      BY <1>2 DEF UpdateWarehouse, ServiceUpdateWarehouse, UpdateLocation, DeleteWarehouse,
                  ServiceDeleteWarehouse
    <2>2. warehouses \subseteq Warehouses
      BY DEF TypeOK
    <2>3. request' \in [Requests -> RequestState]
      BY <2>1, <2>2, AwaitIdentifier, FinishKeepsRequests
    <2> QED
      BY <2>1, <2>3 DEF TypeOK, Tables, Others
  <1>3. ASSUME SaveWarehouse(r) PROVE TypeOK'
    <2>1. request[r].id \in Warehouses
      BY <1>3, RequestCases DEF SaveWarehouse, TypeOK
    <2>2. warehouses' \subseteq Warehouses /\ records' \in [Records -> InventoryRecord \cup {NoRow}]
      BY <1>3, <2>1, RowsKeepTables DEF SaveWarehouse
    <2>3. request' \in [Requests -> RequestState]
      BY <1>3, FinishKeepsRequests DEF SaveWarehouse
    <2> QED
      BY <1>3, <2>2, <2>3 DEF SaveWarehouse, TypeOK, Others
  <1>4. ASSUME EraseWarehouse(r) PROVE TypeOK'
    <2>1. warehouses' \subseteq Warehouses /\ records' \in [Records -> InventoryRecord \cup {NoRow}]
      BY <1>4, RowsKeepTables DEF EraseWarehouse
    <2>2. request' \in [Requests -> RequestState]
      BY <1>4, FinishKeepsRequests DEF EraseWarehouse
    <2> QED
      BY <1>4, <2>1, <2>2 DEF EraseWarehouse, TypeOK, Others
  <1> QED
    BY <1>1, <1>2, <1>3, <1>4 DEF WarehouseHandler

LEMMA WorkerTypeOK ==
    ASSUME TypeOK, Worker \/ ReleaseRaises \/ ListRaises \/ PublishRelease
    PROVE  TypeOK'
  <1> USE WorkerCases
  <1>0. \A s \in Shipments, todo \in SUBSET Records :
          [IdleWorker EXCEPT !.pc = "loop", !.shipment = s, !.todo = todo] \in WorkerState
    BY DEF WorkerState, IdleWorker
  <1>1. ASSUME TakeCommand PROVE TypeOK'
    <2>1. Head(commands) \in Shipments /\ Tail(commands) \in Seq(Shipments)
      BY <1>1 DEF TakeCommand, TypeOK
    <2>2. worker' \in WorkerState
      BY <1>1, <2>1 DEF TakeCommand, WorkerState, IdleWorker
    <2> QED
      BY <1>1, <2>1, <2>2 DEF TakeCommand, TypeOK, Unchanged
  <1>2. ASSUME ListRecords PROVE TypeOK'
    <2>1. worker \in WorkerState /\ worker.pc = "list"
      BY <1>2 DEF ListRecords, TypeOK
    <2>2. {x \in Stored : records[x].shipment = worker.shipment} \in SUBSET Records
      BY DEF Stored
    <2>3. worker' \in WorkerState
      BY <1>2, <2>1, <2>2 DEF ListRecords, WorkerState, IdleWorker
    <2> QED
      BY <1>2, <2>3 DEF ListRecords, TypeOK, Unchanged
  <1>3. ASSUME ReleaseRead PROVE TypeOK'
    <2>1. worker \in WorkerState /\ worker.pc = "loop"
      BY <1>3 DEF ReleaseRead, TypeOK
    <2>2. PICK x \in worker.todo :
             worker' = IF x \in Stored /\ MayBecome(records[x], "received")
                       THEN [worker EXCEPT !.pc = "save", !.id = x,
                                           !.entity = UpdateStatus(records[x], "received")]
                       ELSE [worker EXCEPT !.todo = worker.todo \ {x}]
      BY <1>3 DEF ReleaseRead
    <2>3. worker.todo \ {x} \in SUBSET Records /\ x \in Records
      BY <2>1
    <2>4. x \in Stored => UpdateStatus(records[x], "received") \in InventoryRecord
      BY StoredRows, UpdateStatusKeepsRecord DEF InventoryStatus
    <2>5. worker' \in WorkerState
      BY <2>1, <2>2, <2>3, <2>4 DEF WorkerState, IdleWorker
    <2> QED
      BY <1>3, <2>5 DEF ReleaseRead, TypeOK, Unchanged
  <1>4. ASSUME ReleaseSave PROVE TypeOK'
    <2>1. worker.id \in Records /\ worker.entity \in InventoryRecord /\ worker.shipment \in Shipments
      BY <1>4 DEF ReleaseSave, TypeOK
    <2>2. records' \in [Records -> InventoryRecord \cup {NoRow}]
      BY <1>4, <2>1, RowsKeepTables DEF ReleaseSave
    <2>3. worker.todo \ {worker.id} \in SUBSET Records
      BY DEF TypeOK
    <2>4. worker' \in WorkerState
      BY <1>0, <1>4, <2>1, <2>3 DEF ReleaseSave
    <2> QED
      BY <1>4, <2>2, <2>4 DEF ReleaseSave, TypeOK, Unchanged
  <1>5. ASSUME ReleaseDone PROVE TypeOK'
    BY <1>5 DEF ReleaseDone, TypeOK, WorkerState, Unchanged
  <1>6. ASSUME ReleaseRaises PROVE TypeOK'
    <2>1. PICK x \in worker.todo :
             /\ skipped' = skipped \cup {x}
             /\ worker' = [IdleWorker EXCEPT !.pc = "loop", !.shipment = worker.shipment,
                                             !.todo = worker.todo \ {x}]
      BY <1>6 DEF ReleaseRaises
    <2>2. x \in Records /\ worker.todo \ {x} \in SUBSET Records
      BY DEF TypeOK
    <2>3. worker.shipment \in Shipments
      BY <2>1 DEF TypeOK, WorkerState, IdleWorker
    <2>4. worker' \in WorkerState
      BY <1>0, <2>1, <2>2, <2>3
    <2> QED
      BY <1>6, <2>1, <2>2, <2>4 DEF ReleaseRaises, TypeOK, Unchanged
  <1>7. ASSUME ListRaises PROVE TypeOK'
    <2>1. worker.shipment \in Shipments
      BY <1>7 DEF ListRaises, TypeOK
    <2> QED
      BY <1>7, <2>1 DEF ListRaises, TypeOK, WorkerState, Unchanged
  <1>8. ASSUME PublishRelease PROVE TypeOK'
    <2>1. PICK s \in Shipments : commands' = Append(commands, s)
      BY <1>8 DEF PublishRelease
    <2>2. commands' \in Seq(Shipments)
      BY <2>1 DEF TypeOK
    <2> QED
      BY <1>8, <2>2 DEF PublishRelease, TypeOK, Unchanged
  <1> QED
    BY <1>1, <1>2, <1>3, <1>4, <1>5, <1>6, <1>7, <1>8 DEF Worker

LEMMA RestartTypeOK ==
    ASSUME TypeOK, Restart
    PROVE  TypeOK'
  <1>1. request' \in [Requests -> RequestState]
    <2>1. IdleRequest \in RequestState
      BY DEF IdleRequest, RequestState
    <2> QED
      BY <2>1 DEF Restart
  <1>2. commands' \in Seq(Shipments) /\ dropped' \subseteq Shipments
    <2>1. CASE worker.pc = "idle"
      BY <2>1 DEF Restart, TypeOK
    <2>2. CASE worker.pc # "idle"
      <3>1. worker.shipment \in Shipments /\ commands \in Seq(Shipments)
        BY <2>2, WorkerCases DEF TypeOK
      <3>2. <<worker.shipment>> \o commands \in Seq(Shipments)
        BY <3>1
      <3> QED
        BY <2>2, <3>1, <3>2 DEF Restart, TypeOK
    <2> QED
      BY <2>1, <2>2
  <1>3. stops' \in 0 .. MaxStops
    BY WarehouseConstants DEF Restart, TypeOK
  <1>4. worker' \in WorkerState
    BY DEF Restart, WorkerState
  <1> QED
    BY <1>1, <1>2, <1>3, <1>4 DEF Restart, TypeOK

LEMMA NextTypeOK == TypeOK /\ [Next]_vars => TypeOK'
  <1> SUFFICES ASSUME TypeOK, [Next]_vars PROVE TypeOK'
    OBVIOUS
  <1>1. ASSUME NEW r \in Requests, RecordHandler(r) PROVE TypeOK'
    BY <1>1, RecordHandlerTypeOK
  <1>2. ASSUME NEW r \in Requests, WarehouseHandler(r) PROVE TypeOK'
    BY <1>2, WarehouseHandlerTypeOK
  <1>3. ASSUME NEW r \in Requests, RequestAborts(r) PROVE TypeOK'
    <2>1. request' \in [Requests -> RequestState]
      BY <1>3, FinishKeepsRequests DEF RequestAborts
    <2> QED
      BY <1>3, <2>1 DEF RequestAborts, TypeOK, Tables, Others
  <1>4. CASE Worker \/ ReleaseRaises \/ ListRaises \/ PublishRelease
    BY <1>4, WorkerTypeOK
  <1>5. CASE Restart
    BY <1>5, RestartTypeOK
  <1>6. CASE UNCHANGED vars
    BY <1>6 DEF vars, TypeOK
  <1> QED
    BY <1>1, <1>2, <1>3, <1>4, <1>5, <1>6 DEF Next

(* Every state of the warehouse service has the types of its tables, of    *)
(* the local state of its handlers and of its worker.                      *)
THEOREM WarehouseTypes == Spec => []TypeOK
  BY InitTypeOK, NextTypeOK, PTL DEF Spec

-----------------------------------------------------------------------------
(* What a step does to the tables, seen from outside: nothing, one save,   *)
(* one delete, of either table.                                            *)
SaveStep(x) == x \in Records /\ \E entity \in RecordWriters(x) : SaveRow(x, entity)

SaveWarehouseStep(r) == request[r].pc = "save_warehouse" /\ SaveWarehouseRow(request[r].id)

LEMMA WriterSaves ==
    ASSUME TypeOK
    PROVE  /\ \A r \in Requests : request[r].pc = "save" /\ SaveRow(request[r].id, request[r].entity)
                => \E x : SaveStep(x)
           /\ worker.pc = "save" /\ SaveRow(worker.id, worker.entity) => \E x : SaveStep(x)
  <1>1. ASSUME NEW r \in Requests, request[r].pc = "save",
               SaveRow(request[r].id, request[r].entity)
        PROVE  SaveStep(request[r].id)
    <2>1. request[r].id \in Records
      BY <1>1, RequestCases DEF TypeOK
    <2>2. request[r].entity \in RecordWriters(request[r].id)
      BY <1>1 DEF RecordWriters
    <2> QED
      BY <1>1, <2>1, <2>2 DEF SaveStep
  <1>2. ASSUME worker.pc = "save", SaveRow(worker.id, worker.entity)
        PROVE  SaveStep(worker.id)
    <2>1. worker.id \in Records
      BY <1>2, WorkerCases DEF TypeOK
    <2>2. worker.entity \in RecordWriters(worker.id)
      BY <1>2 DEF RecordWriters
    <2> QED
      BY <1>2, <2>1, <2>2 DEF SaveStep
  <1> QED
    BY <1>1, <1>2

LEMMA TableSteps ==
    ASSUME TypeOK, [Next]_vars
    PROVE  \/ UNCHANGED <<warehouses, records>>
           \/ UNCHANGED warehouses /\ \E x : SaveStep(x)
           \/ UNCHANGED warehouses /\ \E x : DeleteRow(x)
           \/ \E r \in Requests : SaveWarehouseStep(r)
           \/ \E w : DeleteWarehouseRow(w)
  <1>1. ASSUME NEW r \in Requests, RecordHandler(r)
        PROVE  /\ UNCHANGED warehouses
               /\ \/ UNCHANGED records
                  \/ \E x : SaveStep(x)
                  \/ \E x : DeleteRow(x)
    <2>1. CASE SaveRecord(r)
      BY <2>1, WriterSaves DEF SaveRecord
    <2>2. CASE EraseRecord(r)
      BY <2>2 DEF EraseRecord
    <2>3. CASE ~SaveRecord(r) /\ ~EraseRecord(r)
      BY <1>1, <2>3
      DEF RecordHandler, CreateRecord, UpdateRecord, UpdateStatusRead, DeleteRecord,
          ServiceDelete, Tables
    <2> QED
      BY <2>1, <2>2, <2>3
  <1>2. ASSUME NEW r \in Requests, WarehouseHandler(r)
        PROVE  \/ UNCHANGED <<warehouses, records>>
               \/ SaveWarehouseStep(r)
               \/ \E w : DeleteWarehouseRow(w)
    <2>1. CASE SaveWarehouse(r)
      BY <2>1 DEF SaveWarehouse, SaveWarehouseStep
    <2>2. CASE EraseWarehouse(r)
      BY <2>2 DEF EraseWarehouse
    <2>3. CASE ~SaveWarehouse(r) /\ ~EraseWarehouse(r)
      BY <1>2, <2>3
      DEF WarehouseHandler, CreateWarehouse, UpdateWarehouse, ServiceUpdateWarehouse,
          UpdateLocation, DeleteWarehouse, ServiceDeleteWarehouse, Tables
    <2> QED
      BY <2>1, <2>2, <2>3
  <1>3. ASSUME NEW r \in Requests, RequestAborts(r) PROVE UNCHANGED <<warehouses, records>>
    BY <1>3 DEF RequestAborts, Tables
  <1>4. ASSUME Worker
        PROVE  UNCHANGED warehouses /\ (UNCHANGED records \/ \E x : SaveStep(x))
    BY <1>4, WriterSaves
    DEF Worker, TakeCommand, ListRecords, ReleaseRead, ReleaseSave, ReleaseDone, Unchanged
  <1>5. ASSUME PublishRelease \/ ReleaseRaises \/ ListRaises \/ Restart \/ UNCHANGED vars
        PROVE  UNCHANGED <<warehouses, records>>
    BY <1>5 DEF PublishRelease, ReleaseRaises, ListRaises, Restart, vars, Unchanged
  <1> QED
    BY <1>1, <1>2, <1>3, <1>4, <1>5 DEF Next

LEMMA NextStock == TypeOK /\ StockHasWarehouse /\ [Next]_vars => StockHasWarehouse'
  <1> SUFFICES ASSUME TypeOK, StockHasWarehouse, [Next]_vars, NEW x \in Stored'
               PROVE  records'[x].warehouse \in warehouses'
    BY DEF StockHasWarehouse
  <1>0. x \in Records /\ records'[x] # NoRow
    BY DEF Stored
  <1>1. CASE UNCHANGED <<warehouses, records>>
    BY <1>0, <1>1 DEF StockHasWarehouse, Stored
  <1>2. CASE UNCHANGED warehouses /\ \E y : SaveStep(y)
    BY <1>0, <1>2 DEF StockHasWarehouse, Stored, SaveStep, SaveRow, TypeOK
  <1>3. CASE UNCHANGED warehouses /\ \E y : DeleteRow(y)
    BY <1>0, <1>3 DEF StockHasWarehouse, Stored, DeleteRow, TypeOK
  <1>4. CASE \E r \in Requests : SaveWarehouseStep(r)
    BY <1>0, <1>4 DEF StockHasWarehouse, Stored, SaveWarehouseStep, SaveWarehouseRow
  <1>5. CASE \E w : DeleteWarehouseRow(w)
    BY <1>0, <1>5 DEF StockHasWarehouse, Stored, DeleteWarehouseRow
  <1> QED
    BY <1>1, <1>2, <1>3, <1>4, <1>5, TableSteps

(* Whatever warehouse is deleted while records are created, updated or     *)
(* released from stale copies, stock on record lies in a warehouse on      *)
(* record: the foreign key and its CASCADE close what the handlers leave   *)
(* open.                                                                   *)
THEOREM StockIsSomewhere == Spec => []StockHasWarehouse
  <1>1. Init => StockHasWarehouse
    BY DEF Init, StockHasWarehouse, Stored
  <1> QED
    BY <1>1, NextStock, WarehouseTypes, PTL DEF Spec

-----------------------------------------------------------------------------
LEMMA AwaitMoves ==
    ASSUME TypeOK, NEW r \in Requests, NEW pc, NEW id, NEW entity, Await(r, pc, id, entity),
           NEW q \in Requests
    PROVE  \/ request'[q] = request[q]
           \/ request'[q].pc = pc /\ request'[q].id = id /\ request'[q].entity = entity
  BY DEF TypeOK, Await

LEMMA FinishMoves ==
    ASSUME TypeOK, NEW r \in Requests, Finish(r), NEW q \in Requests
    PROVE  request'[q] = request[q] \/ request'[q].pc = "idle"
  BY DEF TypeOK, Finish, IdleRequest

(* A new writer of x: it made x itself, or it has just read x and may      *)
(* write what it is about to write.                                        *)
MayWrite(x, entity) ==
    \/ x \notin issued /\ x \in issued'
    \/ x \in Stored /\ MayBecome(records[x], entity.status)

Seen(q) ==
    \/ request'[q] = request[q]
    \/ request'[q].pc \notin {"save", "save_warehouse"}
    \/ request'[q].pc = "save" /\ MayWrite(request'[q].id, request'[q].entity)
    \/ request'[q].pc = "save_warehouse" /\ (request'[q].id \in warehouses \/ request'[q].id \notin issued)

LEMMA RecordHandlerSees ==
    ASSUME TypeOK, NEW r \in Requests, RecordHandler(r), NEW q \in Requests
    PROVE  Seen(q)
  <1>1. CASE CreateRecord(r)
    <2>1. PICK x \in Records \ issued :
             issued' = issued \cup {x} /\ \E entity : Await(r, "save", x, entity)
      BY <1>1 DEF CreateRecord
    <2> QED
      BY <2>1, AwaitMoves DEF Seen, MayWrite
  <1>2. CASE UpdateStatusRead(r)
    <2> DEFINE status == request[r].entity.status
               x == request[r].id
    <2>1. CASE x \in Stored /\ MayBecome(records[x], status)
      <3>1. status \in InventoryStatus /\ records[x] \in InventoryRecord
        BY <1>2, <2>1, RequestCases, StoredRows DEF UpdateStatusRead, TypeOK
      <3>2. UpdateStatus(records[x], status).status = status
        BY <3>1, UpdateStatusKeepsRecord
      <3>3. Await(r, "save", x, UpdateStatus(records[x], status))
        BY <1>2, <2>1 DEF UpdateStatusRead
      <3>4. MayWrite(x, UpdateStatus(records[x], status))
        BY <2>1, <3>2 DEF MayWrite
      <3> HIDE DEF x, status
      <3> QED
        BY <3>3, <3>4, AwaitMoves DEF Seen
    <2>2. CASE ~(x \in Stored /\ MayBecome(records[x], status))
      BY <1>2, <2>2, FinishMoves DEF UpdateStatusRead, Seen
    <2> QED
      BY <2>1, <2>2
  <1>3. CASE UpdateRecord(r) \/ SaveRecord(r) \/ DeleteRecord(r) \/ ServiceDelete(r) \/ EraseRecord(r)
    <2>1. Finish(r) \/ \E pc \in {"update", "delete", "erase"} :
                          \E x, entity : Await(r, pc, x, entity)
      BY <1>3 DEF UpdateRecord, SaveRecord, DeleteRecord, ServiceDelete, EraseRecord
    <2> QED
      BY <2>1, AwaitMoves, FinishMoves DEF Seen
  <1> QED
    BY <1>1, <1>2, <1>3 DEF RecordHandler

LEMMA WarehouseHandlerSees ==
    ASSUME TypeOK, NEW r \in Requests, WarehouseHandler(r), NEW q \in Requests
    PROVE  Seen(q)
  <1>1. CASE CreateWarehouse(r)
    <2>1. PICK w \in Warehouses \ issued : Await(r, "save_warehouse", w, NoRow)
      BY <1>1 DEF CreateWarehouse
    <2> QED
      BY <2>1, AwaitMoves DEF Seen
  <1>2. CASE ~CreateWarehouse(r)
    <2>1. Finish(r) \/ \E pc \in {"update_warehouse", "save_warehouse",
                                  "delete_warehouse", "erase_warehouse"} :
                          \E w \in warehouses : Await(r, pc, w, NoRow)
      BY <1>2
      DEF WarehouseHandler, UpdateWarehouse, ServiceUpdateWarehouse, UpdateLocation,
          SaveWarehouse, DeleteWarehouse, ServiceDeleteWarehouse, EraseWarehouse
    <2> QED
      BY <2>1, AwaitMoves, FinishMoves DEF Seen
  <1> QED
    BY <1>1, <1>2

LEMMA NextSees ==
    ASSUME TypeOK, [Next]_vars, NEW q \in Requests
    PROVE  Seen(q)
  <1>1. ASSUME NEW r \in Requests, RequestAborts(r) PROVE Seen(q)
    BY <1>1, FinishMoves DEF RequestAborts, Seen
  <1>2. ASSUME Worker \/ PublishRelease \/ ReleaseRaises \/ ListRaises \/ UNCHANGED vars
        PROVE  Seen(q)
    BY <1>2
    DEF Worker, TakeCommand, ListRecords, ReleaseRead, ReleaseSave, ReleaseDone,
        PublishRelease, ReleaseRaises, ListRaises, vars, Unchanged, Seen
  <1>3. ASSUME Restart PROVE Seen(q)
    BY <1>3 DEF Restart, IdleRequest, Seen
  <1> QED
    BY <1>1, <1>2, <1>3, RecordHandlerSees, WarehouseHandlerSees DEF Next

LEMMA WorkerSees ==
    ASSUME TypeOK, [Next]_vars, worker'.pc = "save"
    PROVE  \/ worker' = worker
           \/ MayWrite(worker'.id, worker'.entity)
  <1>1. CASE ReleaseRead
    <2>1. PICK x \in worker.todo :
             worker' = IF x \in Stored /\ MayBecome(records[x], "received")
                       THEN [worker EXCEPT !.pc = "save", !.id = x,
                                           !.entity = UpdateStatus(records[x], "received")]
                       ELSE [worker EXCEPT !.todo = worker.todo \ {x}]
      BY <1>1 DEF ReleaseRead
    <2>2. worker.pc = "loop" /\ worker \in WorkerState
      BY <1>1 DEF ReleaseRead, TypeOK
    <2>3. /\ x \in Stored /\ MayBecome(records[x], "received")
          /\ worker' = [worker EXCEPT !.pc = "save", !.id = x,
                                      !.entity = UpdateStatus(records[x], "received")]
      BY <2>1, <2>2 DEF WorkerState, IdleWorker
    <2>4. worker'.id = x /\ worker'.entity = UpdateStatus(records[x], "received")
      BY <2>2, <2>3 DEF WorkerState, IdleWorker
    <2>5. UpdateStatus(records[x], "received").status = "received"
      BY <2>3, StoredRows, UpdateStatusKeepsRecord DEF InventoryStatus
    <2> QED
      BY <2>3, <2>4, <2>5 DEF MayWrite
  <1>2. CASE ListRecords
    <2>1. worker.pc = "list" /\ worker \in WorkerState
      BY <1>2 DEF ListRecords, TypeOK
    <2>2. worker'.pc = "loop"
      BY <1>2, <2>1 DEF ListRecords, WorkerState, IdleWorker
    <2> QED
      BY <2>2
  <1>3. CASE TakeCommand \/ ReleaseSave \/ ReleaseDone \/ ReleaseRaises \/ ListRaises \/ Restart
    <2>1. CASE TakeCommand
      BY <2>1 DEF TakeCommand, IdleWorker
    <2>2. CASE ReleaseSave
      BY <2>2 DEF ReleaseSave, IdleWorker
    <2>3. CASE ReleaseRaises
      BY <2>3 DEF ReleaseRaises, IdleWorker
    <2>4. CASE ReleaseDone \/ ListRaises \/ Restart
      BY <2>4 DEF ReleaseDone, ListRaises, Restart, IdleWorker
    <2> QED
      BY <1>3, <2>1, <2>2, <2>3, <2>4
  <1>4. CASE PublishRelease \/ UNCHANGED vars
    BY <1>4 DEF PublishRelease, vars
  <1>5. ASSUME NEW r \in Requests, RecordHandler(r) \/ WarehouseHandler(r) \/ RequestAborts(r)
        PROVE  worker' = worker
    BY <1>5
    DEF RecordHandler, CreateRecord, UpdateRecord, UpdateStatusRead, SaveRecord, DeleteRecord,
        ServiceDelete, EraseRecord, WarehouseHandler, CreateWarehouse, UpdateWarehouse,
        ServiceUpdateWarehouse, UpdateLocation, SaveWarehouse, DeleteWarehouse,
        ServiceDeleteWarehouse, EraseWarehouse, RequestAborts, Others
  <1> QED
    BY <1>1, <1>2, <1>3, <1>4, <1>5 DEF Next, Worker

(* Who may write a record after a step: those who might before, those who  *)
(* made it, and those who have just read it.                               *)
LEMMA NextWriters ==
    ASSUME TypeOK, [Next]_vars, NEW x, NEW entity \in RecordWriters(x)'
    PROVE  entity \in RecordWriters(x) \/ MayWrite(x, entity)
  <1>1. CASE \E r \in Requests : /\ request'[r].pc = "save" /\ request'[r].id = x
                                 /\ request'[r].entity = entity
    <2>1. PICK r \in Requests : /\ request'[r].pc = "save" /\ request'[r].id = x
                                /\ request'[r].entity = entity
      BY <1>1
    <2>2. request'[r] = request[r] \/ MayWrite(x, entity)
      BY <2>1, NextSees DEF Seen
    <2>3. request'[r] = request[r] => entity \in RecordWriters(x)
      BY <2>1 DEF RecordWriters
    <2> QED
      BY <2>2, <2>3
  <1>2. CASE worker'.pc = "save" /\ worker'.id = x /\ worker'.entity = entity
    BY <1>2, WorkerSees DEF RecordWriters
  <1> QED
    BY <1>1, <1>2 DEF RecordWriters

LEMMA IssuedGrows ==
    ASSUME [Next]_vars
    PROVE  issued \subseteq issued'
  <1>1. ASSUME NEW r \in Requests, RecordHandler(r) \/ WarehouseHandler(r) \/ RequestAborts(r)
        PROVE  issued \subseteq issued'
    BY <1>1
    DEF RecordHandler, CreateRecord, UpdateRecord, UpdateStatusRead, SaveRecord, DeleteRecord,
        ServiceDelete, EraseRecord, WarehouseHandler, CreateWarehouse, UpdateWarehouse,
        ServiceUpdateWarehouse, UpdateLocation, SaveWarehouse, DeleteWarehouse,
        ServiceDeleteWarehouse, EraseWarehouse, RequestAborts
  <1>2. ASSUME Worker \/ PublishRelease \/ ReleaseRaises \/ ListRaises \/ Restart \/ UNCHANGED vars
        PROVE  issued \subseteq issued'
    BY <1>2
    DEF Worker, TakeCommand, ListRecords, ReleaseRead, ReleaseSave, ReleaseDone,
        PublishRelease, ReleaseRaises, ListRaises, Restart, vars, Unchanged
  <1> QED
    BY <1>1, <1>2 DEF Next

LEMMA NextKeepsGone ==
    ASSUME TypeOK, [Next]_vars, NEW x \in Warehouses \cup Records, Gone(x)
    PROVE  Gone(x)'
  <1>1. x \in issued'
    BY IssuedGrows DEF Gone
  <1>2. x \notin Stored' \cup warehouses'
    <2>1. CASE UNCHANGED <<warehouses, records>>
      BY <2>1 DEF Gone, Stored
    <2>2. CASE UNCHANGED warehouses /\ \E y : SaveStep(y)
      BY <2>2 DEF Gone, Stored, SaveStep, SaveRow, TypeOK
    <2>3. CASE UNCHANGED warehouses /\ \E y : DeleteRow(y)
      BY <2>3 DEF Gone, Stored, DeleteRow, TypeOK
    <2>4. CASE \E r \in Requests : SaveWarehouseStep(r)
      BY <2>4 DEF Gone, Stored, SaveWarehouseStep, SaveWarehouseRow
    <2>5. CASE \E w : DeleteWarehouseRow(w)
      BY <2>5 DEF Gone, Stored, DeleteWarehouseRow
    <2> QED
      BY <2>1, <2>2, <2>3, <2>4, <2>5, TableSteps
  <1>3. RecordWriters(x)' = {}
    BY NextWriters DEF Gone, MayWrite
  <1>4. ASSUME NEW r \in Requests, request'[r].pc = "save_warehouse"
        PROVE  request'[r].id # x
    BY <1>4, NextSees DEF Gone, Seen
  <1> QED
    BY <1>1, <1>2, <1>3, <1>4 DEF Gone

(* A record or a warehouse that was removed does not come back, not even   *)
(* through a release that had listed the record: every writer but those    *)
(* already past their read sees the row first.                             *)
THEOREM StockStaysDeleted == Spec => DeletedStaysDeleted
  <1>1. TypeOK /\ [Next]_vars => [\A x \in Warehouses \cup Records : Gone(x) => Gone(x)']_vars
    BY NextKeepsGone
  <1> QED
    BY <1>1, WarehouseTypes, PTL DEF Spec, DeletedStaysDeleted

-----------------------------------------------------------------------------
(* uuid4 gave out the identifier of every record that is stored or that    *)
(* somebody is about to store.                                             *)
Known == \A x \in Records : x \in Stored \/ RecordWriters(x) # {} => x \in issued

LEMMA InitKnown == Init => Known
  <1> SUFFICES ASSUME Init, NEW x \in Records PROVE x \notin Stored /\ RecordWriters(x) = {}
    BY DEF Known
  <1>1. \A r \in Requests : request[r].pc = "idle"
    BY DEF Init, IdleRequest
  <1>2. worker.pc = "idle"
    BY DEF Init, IdleWorker
  <1> QED
    BY <1>1, <1>2 DEF Init, Stored, RecordWriters

LEMMA NextKnown == TypeOK /\ Known /\ [Next]_vars => Known'
  <1> SUFFICES ASSUME TypeOK, Known, [Next]_vars, NEW x \in Records,
                      x \in Stored' \/ RecordWriters(x)' # {}
               PROVE  x \in issued'
    BY DEF Known
  <1>1. CASE RecordWriters(x)' # {}
    <2>1. PICK entity \in RecordWriters(x)' : TRUE
      BY <1>1
    <2>2. entity \in RecordWriters(x) \/ MayWrite(x, entity)
      BY NextWriters
    <2> QED
      BY <2>2, IssuedGrows DEF Known, MayWrite
  <1>2. CASE x \in Stored'
    <2>1. x \in Stored \/ RecordWriters(x) # {}
      <3>1. CASE UNCHANGED <<warehouses, records>>
        BY <1>2, <3>1 DEF Stored
      <3>2. CASE UNCHANGED warehouses /\ \E y : SaveStep(y)
        BY <1>2, <3>2 DEF Stored, SaveStep, SaveRow, TypeOK
      <3>3. CASE UNCHANGED warehouses /\ \E y : DeleteRow(y)
        BY <1>2, <3>3 DEF Stored, DeleteRow, TypeOK
      <3>4. CASE \E r \in Requests : SaveWarehouseStep(r)
        BY <1>2, <3>4 DEF Stored, SaveWarehouseStep, SaveWarehouseRow
      <3>5. CASE \E w : DeleteWarehouseRow(w)
        BY <1>2, <3>5 DEF Stored, DeleteWarehouseRow
      <3> QED
        BY <3>1, <3>2, <3>3, <3>4, <3>5, TableSteps
    <2> QED
      BY <2>1, IssuedGrows DEF Known
  <1> QED
    BY <1>1, <1>2

LEMMA NextKeepsDispatched ==
    ASSUME TypeOK, Known, [Next]_vars, NEW x \in Records, Dispatched(x), x \in Stored'
    PROVE  Dispatched(x)'
  <1>1. records'[x].status = "shipped"
    <2>1. CASE UNCHANGED <<warehouses, records>>
      BY <2>1 DEF Dispatched
    <2>2. CASE UNCHANGED warehouses /\ \E y : SaveStep(y)
      BY <2>2 DEF Dispatched, Stored, SaveStep, SaveRow, TypeOK
    <2>3. CASE UNCHANGED warehouses /\ \E y : DeleteRow(y)
      BY <2>3 DEF Dispatched, Stored, DeleteRow, TypeOK
    <2>4. CASE \E r \in Requests : SaveWarehouseStep(r)
      BY <2>4 DEF Dispatched, SaveWarehouseStep, SaveWarehouseRow
    <2>5. CASE \E w : DeleteWarehouseRow(w)
      BY <2>5 DEF Dispatched, Stored, DeleteWarehouseRow
    <2> QED
      BY <2>1, <2>2, <2>3, <2>4, <2>5, TableSteps
  <1>2. ASSUME NEW entity \in RecordWriters(x)' PROVE entity.status = "shipped"
    BY NextWriters DEF Dispatched, Known, MayWrite, MayBecome
  <1> QED
    BY <1>1, <1>2 DEF Dispatched

(* Stock that has left is never put back, neither by a client nor by the   *)
(* release that races the dispatch.                                        *)
THEOREM ShippedStaysShipped == Spec => ShippedIsFinal
  <1>1. Spec => []Known
    BY InitKnown, NextKnown, WarehouseTypes, PTL DEF Spec
  <1>2. TypeOK /\ Known /\ [Next]_vars =>
          [\A x \in Records : Dispatched(x) => (Dispatched(x) \/ x \notin Stored)']_vars
    BY NextKeepsDispatched
  <1> QED
    BY <1>1, <1>2, WarehouseTypes, PTL DEF Spec, ShippedIsFinal
=============================================================================
