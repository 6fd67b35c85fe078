SPECIFICATION QSpec
CONSTANTS
    MaxRev = 2
    Links = {l1, l2}
    Requests = {q1, q2}
    Nobody = Nobody
SYMMETRY Symmetry
CHECK_DEADLOCK FALSE
INVARIANTS CommittedIsChosen OneAnswer
