\* An application task resolves a name while the poll task polls.
SPECIFICATION Spec
CONSTANTS
    Threads = {app, poll, event}
    PollThread = poll
    EventThread = event
    Resolvers = {app}
    MaxFrames = 0
    MaxOwned = 1
    NumIfaces = 2
    Nobody = Nobody
INVARIANTS CoreExclusive
