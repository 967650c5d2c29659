SPECIFICATION DomainsSpec
CONSTANTS
    d1 = d1  d2 = d2  d3 = d3
    m1 = m1  m2 = m2
    Domains <- ThreeDomains
    MemberKeys <- TwoMembers
    MaxFailureDomains = 3
    MaxDomainGen = 5
SYMMETRY Symmetry
INVARIANTS
    DomainsInv
    

    
