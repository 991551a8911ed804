SPECIFICATION Spec
CONSTANTS
  o1 = o1
  o2 = o2
  n = n
  w = w
  m = m
  i1 = i1
  i2 = i2
  Orders = {o1, o2}
  Row <- OneRow
  Discounted = {o1}
  Legacy = {o1}
  MaxUses = 2
  Instances = {i1, i2}
  Workers = {w, m, n}
  Maintenance = {m, n}
  Home <- TwoInstances
  MaxEvents = 1
  None = None
INVARIANTS TypeOK CompletedMeansGranted DiscountAccounted
PROPERTIES GrantedOnceUnlessOvertaken SettledStaysSettled PaidOrderServed
CHECK_DEADLOCK FALSE
