SPECIFICATION DriversSpec
CONSTANT MaxVer = 2
INVARIANT TornOnlyBy
PROPERTY PublishesFreshSamples
