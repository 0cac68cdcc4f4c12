SPECIFICATION Spec
CONSTANTS
  Blank = Blank
  None = None
  Users = {u1, u2}
  Groups = {g1}
  Admin = admin
  Names = {ann, bob}
  Requests = {r1, r2}
  MaxRequests = 5
SYMMETRY Symmetry
CHECK_DEADLOCK FALSE
INVARIANTS TypeOK NamesHaveMailboxes
PROPERTIES TokensSpent
