CONSTANTS
  ann = ann  bob = bob  cat = cat  r1 = r1  r2 = r2  r3 = r3
  User = {ann, bob}
  Req = {r1, r2}
  Nobody = Nobody  NoRow = NoRow  NoScan = NoScan
  Asked = {"follow", "block", "mute"}
  MaxNotes = 2
  PoolSizes = {3}
SPECIFICATION Spec
SYMMETRY Symmetry
INVARIANTS
  BlockExcludesFollow
