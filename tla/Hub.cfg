CONSTANTS
  ann = ann  bob = bob  p1 = p1  p2 = p2  c1 = c1  c2 = c2
  post = post  resync = resync
  User = {ann, bob}
  Publisher = {p1, p2}
  Stream = {c1, c2}
  userOf <- OneUser
  Event = {post}
  Resync = resync
  Capacity = 1
SPECIFICATION FairSpec
INVARIANTS
  TypeOK
  SendsGoToOpenChannels
  LossIsSignalledAlone
PROPERTIES
  PublishEnds
  LeaversGo
