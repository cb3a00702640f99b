SPECIFICATION Spec
CONSTANTS
  Lines = {l1, l2}
  IcWidth = 2
  UcWidth = 3
  CfsPerCycle = 2
  Capacity = 3
  Settings <- MCSettings
  NoLine = NoLine
INVARIANTS TypeOK OffPathUntilRecovered RedirectMeetsWaitingFetch RecoveryIsScheduled WaitEnds NothingAfterBarrier
PROPERTIES FetchGoesOn
