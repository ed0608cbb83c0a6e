\* One delivery, two couriers and two handlers beside the command worker.
\* The statuses are the ones the code writes; with those of ck_delivery_status
\* in its place no delivery is ever stored.
\* A service nobody calls rests: identifiers and stops run out in a small instance.
CHECK_DEADLOCK FALSE
SPECIFICATION LiveSpec
CONSTANTS
    Couriers = {c1, c2}
    Deliveries = {d1}
    Requests = {r1, r2}
    CheckedStatuses = {"assigned", "in_transit", "delivered", "confirmed"}
    QueueLimit = 1
    MaxStops = 1
    None = None
    NoRow = NoRow
INVARIANTS TypeOK CourierOfDelivery
PROPERTIES DeletedStaysDeleted UnassignTakesEffect
