SPECIFICATION FairSpec
CHECK_DEADLOCK FALSE
CONSTANTS
  Users = {u1, u2}
  Orgs = {o1, o2}
  Tokens = {k1}
  MaxEvents = 4
  Worlds = {"outside", "faults"}
  None = None
INVARIANTS ReadyIsOwn OutgoingErased
PROPERTY Resolves
