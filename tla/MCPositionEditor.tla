-------------------------- MODULE MCPositionEditor --------------------------
(* PositionEditor for TLC: the catalogue completes the design "p" of other  *)
(* people to "o", and leaves every other design as it is.  Six tabs: a      *)
(* window others edit too with a hasty user and slow reloads, the same with *)
(* a patient one, one whose measurements are confirmed, a new window, a     *)
(* copy of one with a hasty user, and a copy of one with a patient one.     *)
EXTENDS PositionEditor

MCResolve == [d \in Designs |-> IF d = "p" THEN "o" ELSE d]

World(mode, slow, away, measures, impatient, draws, edits, others, visits) ==
    [mode |-> mode, slow |-> slow, away |-> away, measures |-> measures,
     impatient |-> impatient, draws |-> draws, edits |-> edits, saves |-> 2,
     others |-> others, visits |-> visits, reloads |-> 1]

MCWorlds ==
    {World("row", TRUE, TRUE, FALSE, TRUE, {"a"}, 1, 1, 1),
     World("row", FALSE, FALSE, FALSE, FALSE, {"a"}, 1, 1, 2),
     World("row", TRUE, FALSE, TRUE, FALSE, {"a"}, 1, 0, 1),
     World("new", TRUE, TRUE, FALSE, TRUE, {"a", "b"}, 3, 0, 1),
     World("copy", TRUE, TRUE, TRUE, TRUE, {"a"}, 1, 0, 1),
     World("copy", FALSE, FALSE, FALSE, FALSE, {"a"}, 1, 0, 2)}

=============================================================================
