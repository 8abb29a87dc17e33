\* Two documents indexed side by side beside chats: every request ends.
CONSTANTS
  Sessions = {s1}
  Requests = {r1, r2}
  Actions = {}
  Docs = {d1, d2}
  s1 = s1  s2 = s2  r1 = r1  r2 = r2  a1 = a1  a2 = a2  d1 = d1  d2 = d2
  NoSession = NoSession  NoAction = NoAction  NoDoc = NoDoc  NoCall = NoCall
  Kinds = {}
  KnownIds = {TRUE}
  Scopes = {"current"}
  OneAtATime = FALSE
  MaxCrashes = 0
  MaxAttempts = 1
SPECIFICATION FairSpec
PROPERTIES RequestsFinish
