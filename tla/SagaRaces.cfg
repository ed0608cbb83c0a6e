\* Two instances and three requests: updates, retried POSTs, redelivered failures overlap freely.
SPECIFICATION LiveSpec
CONSTANTS
    Sagas = {s1}
    Warehouses = {w1}
    Deliveries = {}
    Workers = {k1, k2}
    Events <- CourierOnly
    Requests = {r1, r2, r3}
    RequestKinds = {"create", "patch", "complete"}
    Env = {"overlap", "parallel", "repost", "redeliver"}
    CheckedStatuses = {"started", "completed", "failed", "compensating"}
    MaxCopies = 1
    None = None
    NoSaga = NoSaga
    NoRow = NoRow
INVARIANTS FailedMeansCancelled
PROPERTIES ContextSurvives FailureIsCompensated
