\* Two interfaces share three frames; queues hold two.
SPECIFICATION Spec
CONSTANTS
    Frames = {f1, f2, f3}
    NumIfaces = 2
    Depth = 2
    Payload = {ip, ptp}
    Tapped = {ptp}
    NoFrame = NoFrame
    NoData = NoData
SYMMETRY FrameSymmetry
INVARIANTS TypeOK FrameConservation NoLostWakeup
PROPERTIES NoOverwriteInFlight ImplementsChannel
