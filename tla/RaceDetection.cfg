CONSTANTS
  t1 = t1
  t2 = t2
  t3 = t3
  a1 = a1
  a2 = a2
  r = r
  w = w
  here = here
  Threads <- TwoThreads
  Addrs <- OneAddress
  Reads <- ReadIds
  Writes <- WriteIds
  Locations <- OneLocation
  minimal_regions = FALSE
  sampling_rate = 2
  delay = TRUE
  decay = 50
  MaxOpens = 3
  MaxDecays = 1
  SizeMax = 16
  MaxTrace = 5
  Slices = 2
SPECIFICATION WatchedSpec
SYMMETRY ThreadSymmetry
INVARIANTS CloseListsExact OpenUntilClosed RaceSound NoMissedRace OfflineExact
CHECK_DEADLOCK FALSE
