SPECIFICATION CallSpec
CONSTANTS
    ObjectSeq <- MCObjectSeq
    NamePrefixes <- MCNamePrefixes
    Extra <- MCExtra
    MaxChanges = 3
    MaxBus = 2
    MaxUsed = 2
INVARIANTS
    TypeOK
    FollowsBluez
    HeldStaysAttached
    ChangesArrive
    OnlyHeldLinger
    UsedStaysAttached
PROPERTIES
    CallsAreAtomic
    CallEnds
CHECK_DEADLOCK FALSE
