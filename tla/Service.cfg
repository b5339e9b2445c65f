SPECIFICATION FairSpec
CONSTANTS
  Dids = {d1, d2}
  PtrLists <- Lists
  EpLists <- EndpointLists
  d1 = d1
  d2 = d2
  p = p
  q = q
  e1 = e1
  e2 = e2
  Nil = Nil
INVARIANTS TypeOK VerifiedIsConfirmed EverythingAnswered EndpointsAccounted ErrorMeansNothing
PROPERTY RequestAnswered
