\* Two ranks, two layers.
CONSTANTS
    Ranks = {1, 2}
    Layers = 2
    Setups <- MCSetups
SPECIFICATION Spec
INVARIANTS
    ReadsOwnLayer
    CollectivesAgree
    SpansMatch
PROPERTY EveryLayerEnds
