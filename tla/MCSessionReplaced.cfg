SPECIFICATION FairSpec
CONSTANTS
    a = a
    b = b
    a1 = a1
    a2 = a2
    b1 = b1
    t1 = t1
    None = None
    Clients <- MCClients
    Handlers <- MCHandlers
    ClientOf <- MCClientOf
    Senders = {t1}
    SendsTo <- MCSendsTo
    Capacity = 2
PROPERTIES
    OldMakesWayForNew
CHECK_DEADLOCK FALSE
