SPECIFICATION ReadinessSpec
CONSTANTS
    b1 = b1  b2 = b2  m1 = m1  d1 = d1
    None = None
    Ttl = 1
    Boots <- TwoBoots
    Members <- OneMember
    Kind <- AllNodes
    DomainsOf <- OneDomain
    Structures = {"relationship"}
    Envelopes = {"power"}
    Contracts <- SomeContracts
SYMMETRY Symmetry
INVARIANTS
    
    CountedMembersHaveAuthority
    ReadySummaryIsClean

    
