CONSTANTS
    Asset = {a1, a2}
    Stop = {s1, s2, s3}
    Patch = {p1}
    MaxMessages = 3
SPECIFICATION DowntimeSpec
SYMMETRY Symmetry
CHECK_DEADLOCK FALSE
INVARIANTS
    DowntimeTypeOK
    MessagesFollowLifecycle
    LiveStopMeansDown
    MachinesComeBack
