SPECIFICATION Spec
CONSTANTS
  Users = {u1}
  Apps = {a1}
  Group = g1
  Everyone = Everyone
  Restrictions <- OpenOrGroup
  BuiltIn = BuiltIn
  None = None
  Requests = {r1, r2}
  MaxRequests = 2
  MaxClients = 3
  MaxTokens = 3
  MaxCodes = 2
  MaxEvents = 2
SYMMETRY Symmetry
CHECK_DEADLOCK FALSE
INVARIANTS TypeOK CodeSpentOnce AppKnowsItsClient RemovedUsersStayOut
