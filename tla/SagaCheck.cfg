\* The statuses the migration's CHECK admits; nothing fails, nothing overlaps.
SPECIFICATION LiveSpec
CONSTANTS
    Sagas = {s1}
    Warehouses = {w1}
    Deliveries = {d1}
    Workers = {k1}
    Events <- DeliveryOnly
    Requests = {r1, r2}
    RequestKinds = {"create", "patch"}
    Env = {}
    CheckedStatuses = {"STARTED", "COMPENSATING", "COMPLETED", "FAILED", "CANCELLED"}
    MaxCopies = 1
    None = None
    NoSaga = NoSaga
    NoRow = NoRow
PROPERTIES CreationIsRecorded
