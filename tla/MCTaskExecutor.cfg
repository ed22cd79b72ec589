SPECIFICATION DrivenSpec
CONSTANTS
    TaskSlotCount = 2
    RegSlotCount = 2
    MaxGen = 2
INVARIANTS
    TypeOK
    NoLostWakeup
    QueueConsistent
    QuiescenceExact
    SlotsConserved
    PayloadsExact
PROPERTIES
    LifecycleSpec
    IdentitiesAdvance
    RunnablePolled
    WaiterWoken
