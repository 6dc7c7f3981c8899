CONSTANTS
    Quarter = 2
    Backlog = 8
    NoAddress = NoAddress
SPECIFICATION Spec
INVARIANTS FlagsHonest RingWordOwn
PROPERTY EveryWordStored
