SPECIFICATION FairSpec
CONSTANTS
  Names <- MCNames
  Fix <- MCFix
  Dids <- MCNames
  Zones <- DnsZones
  a = a
  b = b
  c = c
  rawB = rawB
  Nil = Nil
INVARIANTS TypeOK NoRecursion NothingLost
PROPERTIES ImplementsPointerResolution EndsNearer ResolutionEnds
