\* Two users with two session ids, two of whose records have the same key; two
\* turns, one expiry, any proposals.
CONSTANTS
  Users = {u1, u2}
  SessionIds = {s1, s2}
  Keys = {k1, k2, both}
  KeyOf <- ColonKeys
  Asking <- Askers
  Items = {due, late, others}
  Owner <- Catalog
  Eligible = {due, others}
  NoItem = NoItem
  Unknown = Unknown
  Turns = {1, 2}
  MaxProposals = 2
  MaxExpiries = 1
  Orders <- SmallOrders
  Products <- SmallProducts
  Policies <- SmallPolicies
  Today = 40
  NoDate = NoDate
  u1 = u1  u2 = u2  s1 = s1  s2 = s2  k1 = k1  k2 = k2  both = both
  due = due  late = late  others = others
SPECIFICATION FairSpec
INVARIANTS RefundsAreDue RefundsAccountedFor TurnsRemembered
PROPERTIES RefundNeedsRequest SessionsApart TurnsEnd
CHECK_DEADLOCK FALSE
