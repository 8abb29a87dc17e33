\* Two turns of two users who share a session id; up to two of three agents.
CONSTANTS
  Users = {u1, u2}
  SessionIds = {s}
  Turns = {1, 2}
  Agents = {"return_agent", "payment_agent", "escalation_agent"}
  MaxSelected = 2
  Outputs <- FewOutputs
  NoUser = NoUser
  u1 = u1
  u2 = u2
SPECIFICATION FairSpec
INVARIANTS TicketsAreProposed ResultsFollowPlan EscalationsHandled TurnsRemembered
PROPERTIES SessionsApart TurnsEnd
CHECK_DEADLOCK FALSE
