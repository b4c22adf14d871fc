CONSTANTS
    RequestTime = 1
    ExpireTime = 2
    AddressBits = 3
    Routers <- OneRouter
    FixedRoutes <- NoRoutes
    Ip <- FiveIp
    Link <- TwoLinks
    Networks <- OneNetwork
    Gateway <- GatewayOf
    Routes <- DefaultAndDirect
    Senders = {"a"}
    Destinations = {5, 6}
    Ttls = {2}
    TableSize = 2
    MaxSends = 3
    MaxLosses = 0
SPECIFICATION Spec
INVARIANT FramesGoToNextHop
