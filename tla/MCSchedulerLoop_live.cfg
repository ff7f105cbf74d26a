SPECIFICATION Spec
INVARIANTS
    TypeOK
PROPERTIES
    SignalStops
    EveryTickServed
CHECK_DEADLOCK FALSE
