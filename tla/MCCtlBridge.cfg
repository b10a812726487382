SPECIFICATION FairSpec
CONSTANTS
    Readers = {r1, r2}
    NSlots = 1
    Units = {u1, u2}
    SeqMod = 6
    StartSeqs <- WrapStart
    QueueMax = 1
    MaxCalls = 2
    None = None
INVARIANTS
    TypeOK
    ReplyMatchesCall
    SlotOwnership
    NoLostWakeup
PROPERTIES
    AcceptedReplyReturned
    RequestReturns
