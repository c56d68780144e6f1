SPECIFICATION Spec
CONSTANTS
    l1 = l1
    Listeners = {l1}
    Limit = 4
    QueueSize = 2
    MaxLines = 5
INVARIANT SubscribersAreServed
CHECK_DEADLOCK FALSE
