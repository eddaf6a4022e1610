SPECIFICATION FairSpec
CONSTANTS
    a = a
    b = b
    a1 = a1
    a2 = a2
    b1 = b1
    t1 = t1
    t2 = t2
    None = None
    Clients <- MCClients
    Handlers <- MCHandlers
    ClientOf <- MCClientOf
    Senders = {t1, t2}
    SendsTo <- MCSendsTo
    Capacity = 1
INVARIANTS
    TypeOK
    ReceiverOutlivesSenders
    LockSound
    OnlineListCurrent
PROPERTIES
    HandlersSettle
CHECK_DEADLOCK FALSE
