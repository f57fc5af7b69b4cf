CONSTANTS
  ann = ann  bob = bob  cat = cat  p1 = p1  p2 = p2  r1 = r1  r2 = r2
  User = {ann, bob}
  Post = {p1}
  Req = {r1, r2}
  AuthorOf <- ByAnn
  NoUser = NoUser
  FollowsChange = TRUE
  Faults = TRUE
  MaxVersion = 2
SPECIFICATION FairSpec
INVARIANTS
  TypeOK
  QuietCacheIsFresh
PROPERTIES
  DeletedFades
