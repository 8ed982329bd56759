\* One session: three items between the peers, buffers of one item.
SPECIFICATION Spec
CONSTANTS
    MaxPages = 10
    MaxNotices = 1
    Capacity = 1
    MaxSaid = 3
CHECK_DEADLOCK FALSE
INVARIANTS
    TypeOK
    ChildrenReaped
    StreamsAreFaithful
    InterceptorInStep
PROPERTIES
    NobodyWaitsForTheDead
    MessagesArrive
