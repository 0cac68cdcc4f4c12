SPECIFICATION Spec
CONSTANTS
  a1 = a1  a2 = a2  r1 = r1  r2 = r2  blog = blog  shop = shop  naked = naked  None = None
  Bare = naked
  Title <- Titles
  CustomDomain = TRUE
  Foreign = {}
  Commands <- AllCommands
  MaxCommands = 3
  MaxRestarts = 1
  Apps = {a1, a2}
  Locations = {blog, shop, naked}
  Ports = {p1}
  Requests = {r1, r2}
SYMMETRY Symmetry
CHECK_DEADLOCK FALSE
INVARIANTS TypeOK EveryAppHasItsMailbox TasksHaveRows
