SPECIFICATION Spec
CONSTANTS
  Actors = {worker, api}
  Times = {5, 8, 9, 11}
  Tick = 2
  Merchants = {m1, m2}
  Hour = 4
  FiveMinutes = 2
  MaxEvents = 3
INVARIANTS TypeOK NoPaymentLost PunctualWindowIsFull TornReadsAgree SkewIsExplained
CHECK_DEADLOCK FALSE
SYMMETRY Symmetry
