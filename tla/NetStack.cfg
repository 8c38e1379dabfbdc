\* One thread of each kind; the application and the callbacks of the poll task
\* resolve names; a listener owns two sockets.  More EtherTypes than slots.  Any
\* call of init and attach that can fail may.
SPECIFICATION StackSpec
CONSTANTS
    Threads = {app, poll, event}
    PollThread = poll
    EventThread = event
    Resolvers = {app, poll}
    MaxFrames = 1
    MaxOwned = 2
    NumIfaces = 2
    Nobody = Nobody
    Types = {1, 2, 3}
    Cbs = {1, 2}
    L2_TAP_SLOTS = 2
    Concurrent = FALSE
    Retries = FALSE
    Faults = {"nvs", "evt", "lock", "task", "mac", "input", "handler"}
    MaxEvents = 2
INVARIANTS
    SectionsExclusive NoCircularWait CallbacksUnlocked
    TableIsMap CalledAsRegistered
    ObjectsBeforeUse IpReportsAgree LinkInSync
PROPERTIES IpAnnounced
