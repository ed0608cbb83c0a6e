\* One instance; a PATCH may arrive while or after a failure is reported.
SPECIFICATION Spec
CONSTANTS
    Sagas = {s1}
    Warehouses = {w1}
    Deliveries = {d1}
    Workers = {k1}
    Events <- CourierAndDelivery
    Requests = {r1, r2}
    RequestKinds = {"create", "patch"}
    Env = {"overlap"}
    CheckedStatuses = {"started", "completed", "failed", "compensating"}
    MaxCopies = 1
    None = None
    NoSaga = NoSaga
    NoRow = NoRow
INVARIANTS FailedMeansCompensated
