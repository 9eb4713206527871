SPECIFICATION Spec
CONSTANTS
    Devices = {d1, d2}
    LayerNum = 2
    MaxRounds = 2
INVARIANTS
    TypeOK
    WeightsMatchRouting
    DevicesAgree
    FreshLayersUpdated
PROPERTY RoundsEnd
