\* A ring of four slots kept at three buffers, on one CPU and on two.
SPECIFICATION FairSpec
CONSTANTS
    Size = 4
    FillLevel = 3
    NBufs = 3
    MaxInds = 1
    MaxDrift = 1
    CpuChoices = {FALSE, TRUE}
INVARIANTS
    SingleRefiller
    BuffersAccounted
    QuietAfterDetach
PROPERTIES
    HungryIsFed
\* After htt_rx_detach nothing happens any more.
CHECK_DEADLOCK FALSE
