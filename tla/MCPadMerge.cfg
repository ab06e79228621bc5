SPECIFICATION Spec
CONSTANTS
    Threads = {t1, t2}
    Users = {u1}
    Pads <- MCPads
    MaxChanges = 3
INVARIANT SamePacketSamePad
PROPERTIES
    EitherDeviceDrives
    PacketTracksState
