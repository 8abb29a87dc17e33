\* One evaluation of the shared service beside one autonomous run.
CONSTANTS
  Traces = {x1, x2}
  Ids = {p1, p2}
  Texts = {t1, t2}
  Harmless = {t1}
  NoText = NoText
  Drafts <- FewDrafts
  Jobs = {e1, q1}
  Stores = {Shared, q1}
  Shared = Shared
  StoreOf <- Saves
  Autos = {q1}
  Goals <- FewGoals
  NoGoal = NoGoal
  Requests = {1, 4}
  MaxBeside = 1
  e1 = e1  q1 = q1  x1 = x1  x2 = x2  p1 = p1  p2 = p2  t1 = t1  t2 = t2
SPECIFICATION AutoSpec
INVARIANTS ReviewsKept CandidatesApproved RunStatusTrue
PROPERTY RunsEnd
