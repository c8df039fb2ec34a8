SPECIFICATION FairSpec
CONSTANT PRIORITIES = 6
INVARIANTS TypeOK HeapOrdered IndexExact TopRight
PROPERTY RepairEnds
