SPECIFICATION FairSpec
CONSTANTS
    None = None
    Keys <- MCKeys
    Targets <- MCTargets
    Jobs <- MCKeys
    Metrics <- MCMetrics
    Offered <- MCOffered
    Internal = {"up"}
    MaxChanges = 2
    Static = {}
    Rules = {}
    Series <- MCSeries
    Base <- MCBase
    MaxLabelCount = 2
    UseGKE = FALSE
    StaticLabels <- MCStaticLabels
PROPERTIES LookupSucceeds TargetsConverge NegativeKept TypeFixed
