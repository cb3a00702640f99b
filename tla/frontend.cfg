SPECIFICATION SpecLoop
CONSTANTS
  Addrs <- MCAddrs
  LineSize = 4
  QueueSize = 2
  Ways = 2
  Programs <- MCPrograms
  MaxFlight = 3
  NoWindow = NoWindow
INVARIANTS FoundStaysFound ServedFromItsStart
PROPERTIES WarmsUp
