\* Two instances; failures on two topics; clients finish their requests first.
SPECIFICATION Spec
CONSTANTS
    Sagas = {s1}
    Warehouses = {w1}
    Deliveries = {d1}
    Workers = {k1, k2}
    Events <- CourierAndDelivery
    Requests = {r1}
    RequestKinds = {"create", "patch"}
    Env = {}
    CheckedStatuses = {"started", "completed", "failed", "compensating"}
    MaxCopies = 1
    None = None
    NoSaga = NoSaga
    NoRow = NoRow
INVARIANTS CompensatedOnce
