\* Two requests at work on a catalogue of at most two rows, seeded anew when empty.
CONSTANTS
  Requests = {r1, r2}
  Callers = {ed, boss, guest}
  NoCaller = NoCaller
  Role <- RoleOf
  Team <- TeamOf
  Teams = {fin, gro}
  Owners = {fin, gro}
  Names = {n1, n2}
  MaxId = 4
  NoRow = NoRow
  Unread = Unread
  Same = Same
  NewRows <- FewRows
  Patches <- FewPatches
  SeedRows <- TwoSeeds
  SeedEdges <- OneEdge
  r1 = r1  r2 = r2  ed = ed  boss = boss  guest = guest  fin = fin  gro = gro  n1 = n1  n2 = n2
SPECIFICATION Spec
INVARIANTS CatalogueConsistent RepliesTrue
PROPERTIES PolicyHolds
SYMMETRY Threads
