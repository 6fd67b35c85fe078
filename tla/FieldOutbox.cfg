SPECIFICATION FieldFairSpec
CONSTANTS
  Actors = {a1}
  FieldOrgs = {o1, o2}
  Tabs = {t1, t2}
  MaxCommands = 2
  Fleet <- MCFleet
  NoScope = NoScope
INVARIANTS CausalOrder ErasedStaysErased NoSilentLoss
PROPERTY FlushEnds
