\* One shipment with one item, two handlers beside the command worker.
\* The statuses and the row conversion are those the code needs, not the ones it has:
\* with ck_shipment_status or RowsReadBack = FALSE no shipment is ever served.
\* A service nobody calls rests: identifiers and stops run out in a small instance.
CHECK_DEADLOCK FALSE
SPECIFICATION LiveSpec
CONSTANTS
    Shipments = {s1}
    Items = {i1}
    Requests = {r1, r2}
    CheckedStatuses = {"created", "received", "ready_for_delivery", "in_transit", "delivered", "completed"}
    RowsReadBack = TRUE
    MaxQuantity = 3
    Amounts = {1, 2}
    QueueLimit = 1
    MaxStops = 1
    None = None
    NoRow = NoRow
INVARIANTS TypeOK ItemsHaveShipment QuantityAddsUp
PROPERTIES DeletedStaysDeleted CancelTakesEffect
