\* A confirmation behind a parked chat: is every execution recorded?
CONSTANTS
  Sessions = {s1}
  Requests = {r1, r2}
  Actions = {a1}
  Docs = {}
  s1 = s1  s2 = s2  r1 = r1  r2 = r2  a1 = a1  a2 = a2  d1 = d1  d2 = d2
  NoSession = NoSession  NoAction = NoAction  NoDoc = NoDoc  NoCall = NoCall
  Kinds = {"project_write"}
  KnownIds = {TRUE}
  Scopes = {"current"}
  OneAtATime = FALSE
  MaxCrashes = 0
  MaxAttempts = 2
SPECIFICATION Spec
INVARIANTS ExecutionsRecorded
