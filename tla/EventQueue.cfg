SPECIFICATION LiveSpec
CONSTANTS
    Messages = {m, bad}
    Unreadable = {bad}
    EventTopics = {"shipment", "delivery"}
    CommandTopics = {"delivery.commands"}
    Consumers = {"first", "second", "commands"}
    TopicsOf <- TwoWorkersAndOne
    MaxPublished = 2
    MaxStarts = 3
    MaxClears = 1
CHECK_DEADLOCK FALSE
INVARIANTS TypeOK RunsUntilAnotherEnds
PROPERTIES IsTopicLog AllIsRead
