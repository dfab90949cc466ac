CONSTANTS
  Elem = {a, b}
  Zero = zero
  MaxLength = 3
  AllocMayFail = TRUE
  Words = 10
  MaxPast = 1
SPECIFICATION IteratorSpec
INVARIANTS TypeOK EveryEntryOnce
PROPERTIES ListUntilCrash HasNextHonest
CHECK_DEADLOCK FALSE
