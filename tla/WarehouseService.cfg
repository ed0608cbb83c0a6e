\* One warehouse with two records of one shipment, two handlers beside the worker.
\* A service nobody calls rests: identifiers and stops run out in a small instance.
CHECK_DEADLOCK FALSE
SPECIFICATION LiveSpec
CONSTANTS
    Warehouses = {w1}
    Records = {x1, x2}
    Shipments = {s1}
    Requests = {r1, r2}
    AskedStatuses = {"stored", "shipped"}
    QueueLimit = 1
    MaxStops = 1
    None = None
    NoRow = NoRow
INVARIANTS TypeOK StockHasWarehouse
PROPERTIES DeletedStaysDeleted ShippedIsFinal ReleaseReachesAll
