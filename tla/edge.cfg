\* Two requests of one session and one user, one action, two documents.
CONSTANTS
  Requests = {r1, r2}
  Sessions = {s1}
  Users = {u1}
  Actions = {a1}
  Docs = {d1, d2}
  ChunksOf <- Sizes
  NoSession = NoSession
  NoAction = NoAction
  NoDoc = NoDoc
  NoContext = NoContext
  Global = Global
  Deployments <- ChatOpen
  MaxAttempts = 2
  MaxAborts = 1
  MaxArrivals = 5
  r1 = r1  r2 = r2  d1 = d1  d2 = d2
SPECIFICATION Spec
INVARIANTS RepeatsExplained AuditTrue ProposalKept WholeUnlessBroken BudgetKept
SYMMETRY Isolates
