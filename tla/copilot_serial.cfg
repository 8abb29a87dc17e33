\* One client that waits for each response, no crash: the abstract review gate.
CONSTANTS
  Sessions = {s1, s2}
  Requests = {r1}
  Actions = {a1, a2}
  Docs = {d1}
  s1 = s1  s2 = s2  r1 = r1  r2 = r2  a1 = a1  a2 = a2  d1 = d1  d2 = d2
  NoSession = NoSession  NoAction = NoAction  NoDoc = NoDoc  NoCall = NoCall
  Kinds = {"create_note", "search"}
  KnownIds = {TRUE, FALSE}
  Scopes = {"current", "selected"}
  OneAtATime = TRUE
  MaxCrashes = 0
  MaxAttempts = 3
SPECIFICATION Spec
INVARIANTS PendingIsOpen
PROPERTIES GateSpec
SYMMETRY Symmetry
