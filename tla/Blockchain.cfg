\* Two instances share the counter and the table; two events, one fault.
\* TakesIds is what the service needs; a uuid.UUID does not take another one, and with
\* FALSE no transaction is ever sent.
\* Nothing is left to do when every event is recorded and settled.
CHECK_DEADLOCK FALSE
SPECIFICATION LiveSpec
CONSTANTS
    Events = {e1, e2}
    Instances = {i1, i2}
    Monitors = {i1}
    Required = 1
    BatchSize = 3
    TakesIds = TRUE
    MaxFaults = 1
    None = None
INVARIANTS TypeOK SentIsRecorded NoGap ConfirmedIsDeep
PROPERTIES PendingIsSettled ConfirmedIsAnnounced
