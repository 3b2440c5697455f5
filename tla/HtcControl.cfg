\* A WLAN and an endpoint ping load against four targets; an odd credit count.
SPECIFICATION FairSpec
CONSTANTS
    Loads <- MCLoads
    Mapped = {HTT_DATA, PKTLOG, WMI, BE, BK}
    WMI = WMI
    BE = BE
    BK = BK
    HTT_DATA = HTT_DATA
    HTT_DATA2 = HTT_DATA2
    PKTLOG = PKTLOG
    TotalCredits = 7
    EndpointMax = 5
    NoService = NoService
    NoEndpoint = NoEndpoint
    NoMessage = NoMessage
INVARIANTS
    HandOver
    EndpointsAgree
PROPERTIES
    LoadCompletes
