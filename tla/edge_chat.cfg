\* The same with all three limits in force, as wrangler.toml has them (50, 50, 100).
CONSTANTS
  Requests = {r1, r2}
  Sessions = {s1}
  Users = {u1}
  Actions = {a1}
  Docs = {d1, d2}
  ChunksOf <- Sizes
  NoSession = NoSession
  NoAction = NoAction
  NoDoc = NoDoc
  NoContext = NoContext
  Global = Global
  Deployments <- AsShipped
  MaxAttempts = 2
  MaxAborts = 1
  MaxArrivals = 3
  r1 = r1  r2 = r2  d1 = d1  d2 = d2
SPECIFICATION Spec
INVARIANT ChatServed
SYMMETRY Isolates
