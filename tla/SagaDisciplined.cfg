\* One instance; clients finish their requests before a failure is reported.
SPECIFICATION Spec
CONSTANTS
    Sagas = {s1}
    Warehouses = {w1, w2}
    Deliveries = {d1}
    Workers = {k1}
    Events <- AllEvents
    Requests = {r1, r2, r3}
    RequestKinds = {"create", "patch", "complete"}
    Env = {"error", "crash", "redeliver"}
    CheckedStatuses = {"started", "completed", "failed", "compensating"}
    MaxCopies = 2
    None = None
    NoSaga = NoSaga
    NoRow = NoRow
INVARIANTS TypeOK FailedMeansCompensated CompensatedOnce
PROPERTIES ImplementsLifecycle
