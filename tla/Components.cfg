CONSTANTS
    Blueprint = {"b1", "b2"}
    Pdu = {"p1", "p2"}
    Nobody = "nobody"
    Thread = {w1, w2}
    Cluster = {"k1", "k2"}
    NoTopology = NoTopology
    Nothing = Nothing
    MaxStops = 1
SPECIFICATION ComponentsSpec
INVARIANTS
    LocksFollow
    TopologyAgrees
    MonitoringFollows
    ChartsFollow
    AccountsFollow
    PluginsFollow
    RightsFollow
    CoreAgrees
    Edges5GAgree
    WorkersAgree
    RecordsFollow
CHECK_DEADLOCK FALSE
