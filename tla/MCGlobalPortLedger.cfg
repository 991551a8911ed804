SPECIFICATION Spec
CONSTANTS
  inb = inb
  qc = qc
  h1 = h1
  h2 = h2
  Ports = {p1, p2}
  Owners = {inb, qc}
  XrayInbounds = {inb}
  QuickConfigs = {qc}
  Keys <- MCKeys
  Clients = {c1, c2}
  MaxVersion = 5
  NoOwner = NoOwner
  NoClient = NoClient
  NoPort = NoPort
  NoKey = NoKey
  Available = Available
  Quarantined = Quarantined
SYMMETRY Symmetry
INVARIANTS TypeOK RowDecodes ReferencesCovered OwnerHoldsRow DecisionsHold
PROPERTIES VersionGuardsFacts ImplementsOwnership
CHECK_DEADLOCK FALSE
