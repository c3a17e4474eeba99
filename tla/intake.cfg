SPECIFICATION FairSpec
CONSTANTS
    alert_a = alert_a
    alert_b = alert_b
    Alerts = {alert_a, alert_b}
    Consumers = {orch_a, orch_b}
    NoOwner = nobody
    BatchSize = 2
    Ttl = 1
    ClaimIdle = 2
    BusyTimeout = 1
    Feeds <- TwoMessages
    MaxStops = 1
INVARIANTS
    TypeOK
PROPERTIES
    LeasesHold DeliveryHolds AllAcked
CHECK_DEADLOCK FALSE
