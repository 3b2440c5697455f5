\* Three packets on the WMI endpoint, over an ample, a very large or a short pipe,
\* or on the HTT endpoint, where packet 1 is put when it is issued.
SPECIFICATION FairSpec
CONSTANTS
    s1 = s1
    s2 = s2
    Senders = {s1, s2}
    Tasklets = {ce}
    Reporters = {rx}
    Workers = {wk}
    Packets <- ThreePackets
    OwnerOf <- OwnersOfThree
    Need <- ThreeLengths
    AutoPm = {2}
    RuntimePut = {1}
    TxAlloc = 2
    TxCreditsPerMaxMsg = 2
    Conns <- AllConns
    NoPkt = NoPkt
INVARIANTS
    SingleDrainer
    OnePlace
    CreditsConserved
    PmBalanced
PROPERTIES
    ImplementsService
    EventuallyCompleted
\* All packets are sent in the end, and then nothing happens any more.
CHECK_DEADLOCK FALSE
