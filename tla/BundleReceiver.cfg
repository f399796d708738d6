SPECIFICATION FairSpec
CONSTANTS
  main = main
  other = other
  flat = flat
  again = again
  chained = chained
  single = single
  None = None
  Repos = {main, other}
  Requests <- Calls
  Wanted <- WantedByCall
  Publications <- Publishers
  Path <- PathOf
  Packets <- PacketsOf
  Parity <- ParityOf
  Chained <- ChainedOf
INVARIANTS
  TypeOK
  NoLostWakeup
  AnswersAreWhole
PROPERTIES
  EveryRequestSettles
