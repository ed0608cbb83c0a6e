\* One instance that may stop in a handler and start again.
SPECIFICATION LiveSpec
CONSTANTS
    Sagas = {s1}
    Warehouses = {w1}
    Deliveries = {d1}
    Workers = {k1}
    Events <- CourierAndDelivery
    Requests = {r1, r2}
    RequestKinds = {"create", "patch"}
    Env = {"crash"}
    CheckedStatuses = {"started", "completed", "failed", "compensating"}
    MaxCopies = 1
    None = None
    NoSaga = NoSaga
    NoRow = NoRow
PROPERTIES CompensationFinishes
