SPECIFICATION FairSpec
CONSTANTS
    Kinds = {"filesystem", "k8s_event", "flux_notification"}
    Results <- mcResults
    ChanSize = 1
    Writers = {w1, w2}
    MaxLen = 2
    MaxResults = 4
INVARIANTS
    Delivery
    OutputTellsResult
PROPERTIES
    ImplementsSink
    Progress
