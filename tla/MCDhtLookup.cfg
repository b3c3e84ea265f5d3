\* Eight peers that know three others each, two changes under a lookup.
SPECIFICATION Spec
CONSTANTS
    Network <- Net8
    Rebuilt <- Net3
    Newcomers <- Two
    Targets <- Wanted
    Dist <- XorDistance
    K = 3
    Alpha = 2
    MaxHops = 3
    MaxChurn = 2
INVARIANTS
    NoPeerTwice
    BudgetHolds
    AddedPeersStayUnknown
PROPERTIES
    LookupsEndWithTheirNetwork
