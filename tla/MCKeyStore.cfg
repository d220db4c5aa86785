SPECIFICATION Spec
CONSTANTS
  g1 = g1
  Admins = {a1, a2}
  Requests = {r1, r2}
  Gateways = {g1}
  GatewayOf <- MCGatewayOf
  Names = {n1, n2}
  Draws = {d1, d2}
  Inodes = {i1, i2}
  MaxKeys = 1
  NoDraw = NoDraw
  NoInode = NoInode
  NoName = NoName
  NoCaller = NoCaller
SYMMETRY Symmetry
INVARIANTS
  DecidedOnCurrent
PROPERTIES
  NoLostUpdate
  UpgradeKeepsSecret
