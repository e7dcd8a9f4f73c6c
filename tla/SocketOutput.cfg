CHECK_DEADLOCK FALSE
SPECIFICATION FairSpec
CONSTANTS
    challenge = challenge
    small = small
    medium = medium
    large = large
    Packets <- MCPackets
    Challenge <- challenge
    Size <- MCSize
    BufferSize = 3
    KernelSize = 2
INVARIANTS FlagInv WholeFrames PacketInv
PROPERTIES EverythingIsSent ClosedLeaves
