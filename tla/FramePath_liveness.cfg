\* Two interfaces share two frames; no symmetry, since liveness is checked.
SPECIFICATION FairSpec
CONSTANTS
    Frames = {f1, f2}
    NumIfaces = 2
    Depth = 2
    Payload = {ip, ptp}
    Tapped = {ptp}
    NoFrame = NoFrame
    NoData = NoData
PROPERTIES EveryFrameTaken InboxProcessed
