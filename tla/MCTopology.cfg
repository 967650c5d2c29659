SPECIFICATION TopologySpec
CONSTANTS
    None = None
    Members <- ThreeMembers
    MaxRelationships = 3
    MaxGen = 4
INVARIANTS
    TopologyInv
    CompositionIsLoadable
PROPERTIES
    TopologyGenerationNotices
