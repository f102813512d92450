\* Two keys, three places, every fault; one change of profile.
SPECIFICATION FairSpec
CONSTANTS
  k1 = k1  k2 = k2  p1 = p1  p2 = p2  a1 = a1  a2 = a2  b1 = b1
  None = None
  Keys = {k1, k2}
  Places = {a1, a2, b1}
  Owner <- MCOwner
  Home = a1
  Big = {k1}
  Uses <- MCUses
  MaxGenerations = 1
  MaxListings = 2
  MaxWrites = 1
INVARIANTS NothingHalfDone QueueIsTrue ListedIsHere
PROPERTIES LosesOnlyWhatWasAsked QuitGoesOn
CHECK_DEADLOCK FALSE
