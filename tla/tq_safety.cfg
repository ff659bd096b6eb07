\* Every proposer at any time, with any argument.
CONSTANTS
    Nodes = {n1, n2}
    Queues = {k1, k2}
    Tasks = {t1, t2, t3}
    MaxStep = 1
    MaxLen = 3
    n1 = n1
    n2 = n2
    k1 = k1
    k2 = k2
    t1 = t1
    t2 = t2
    t3 = t3
SYMMETRY Symmetry
SPECIFICATION Spec
INVARIANT OneRunningTask
INVARIANT TaskHistoryFillsLen
PROPERTY CommittedStaysPut
PROPERTY PreemptIsAtomic
PROPERTY ImplementsTaskQueueSpec
