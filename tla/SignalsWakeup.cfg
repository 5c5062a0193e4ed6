\* One worker exits just before the daemon sleeps.
SPECIFICATION FairSpec
CONSTANTS
  Kids = {k1}
  Slots = 1
  Faults = {}
  NoKid = NoKid
PROPERTIES CorpsesBuried
CHECK_DEADLOCK FALSE
