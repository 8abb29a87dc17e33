\* Two jobs and two endpoints that change while the jobs call them.
CONSTANTS
  Videos = {v1, v2}
  Endpoints = {e1, e2}
  AnyVideo = AnyVideo
  Callback = Callback
  Filters = {{"completed"}}
  Assets = {a1}
  MaxEdits = 2
  v1 = v1  v2 = v2  e1 = e1  e2 = e2  a1 = a1
SPECIFICATION FairSpec
INVARIANTS CalledOnceInOrder EventsMatchPoll
PROPERTIES StaleOnlyAfterEdit JobsEnd
CHECK_DEADLOCK FALSE
