CONSTANTS
    RequestTime = 1
    ExpireTime = 2
    AddressBits = 4
    Ip <- AllIp
    Link <- AllLinks
    Networks <- TwoNetworks
    Gateway <- GatewayOf
    Routers <- ThreeRouters
    FixedRoutes <- FirstRoutes
    Routes <- DefaultAndDirect
    Senders = {"a", "c"}
    Destinations = {5}
    Ttls = {1, 2}
    TableSize = 2
    MaxSends = 2
    MaxLosses = 1
    Side <- TwoSides
    Ttl = 3
SPECIFICATION SitesSpec
INVARIANTS CacheIsTrue EveryMappingExpires LongestPrefix FramesGoToNextHop DeliveredAsRouted
PROPERTIES SomethingArrives SegmentsGetThrough
