\* One client more than the limit of connections, one request more than the
\* limit of requests, and a queue of one job.
SPECIFICATION FairSpec
CONSTANTS
    Session = {s1, s2}
    WsClient = {s1}
    MaxConnCount = 1
    MaxRequestCount = 1
    MaxQueueSize = 1
    MaxRequests = 2
    MaxPublished = 2
CHECK_DEADLOCK FALSE
INVARIANTS
    LimitsHold
    ReceivedInOrder
PROPERTIES
    MessagesDelivered
    FailedReleased
