SPECIFICATION FairSpec
CONSTANTS
    p1 = p1  p2 = p2  c1 = c1  c2 = c2  pkt = pkt  null = null
    NoThread = NoThread
    NoItem = NoItem
    Producers <- MCProducers
    Consumers <- MCConsumers
    Items <- MCItems
    QUEUE_MAX = 2
INVARIANTS TypeOK NoLostWakeup
PROPERTY ImplementsFifo DequeueReturns
