CONSTANTS
  ann = ann  bob = bob  cat = cat  p1 = p1  p2 = p2  r1 = r1  r2 = r2
  User = {ann, bob}
  Post = {p1}
  Req = {r1, r2}
  AuthorOf <- ByAnn
  NoUser = NoUser
  FollowsChange = FALSE
  Faults = FALSE
  MaxVersion = 1
SPECIFICATION Spec
INVARIANTS
  DeletedIsGone
