CONSTANTS
    Half = 4
    Capacity = 3
    StreamLength = 8
    PeerIsn = 6
    PeerMay = {}
SPECIFICATION FairSpec
INVARIANTS InOrder AckIsHonest WindowIsAccepted
PROPERTIES WindowNeverShrinks StreamIsDelivered
