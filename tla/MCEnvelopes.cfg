SPECIFICATION EnvelopesSpec
CONSTANTS
    b1 = b1  p1 = p1  z1 = z1
    None = None
    Rack = Rack
    Ttl = 1
    MaxGen = 2
    Boots <- OneBoot
    PowerDomains <- OneDomain
    Zones <- OneZone
    Limits <- SomeLimits
    Draws <- SomeDraws

    
    
PROPERTIES
    HeadroomNeverRevives
