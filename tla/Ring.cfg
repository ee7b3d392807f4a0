\* Two slots and two-bit indices: six sends wrap the indices and reuse every slot.
CONSTANTS
    Frames = {f1, f2, bad}
    Undecodable = {bad}
    Garbage = Garbage
    Capacity = 2
    IndexMod = 4
    MaxSends = 6
SPECIFICATION FairSpec
INVARIANTS InOrder HeldPayloadStable
PROPERTIES ImplementsChannel EverySentFrameIsSeen
CHECK_DEADLOCK FALSE
