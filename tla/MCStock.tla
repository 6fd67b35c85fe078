------------------------------ MODULE MCStock ------------------------------
(* Stock for TLC: two bars and a kit at most, and two plans that compete    *)
(* for them and lock them in opposite orders.                               *)
EXTENDS Stock

Need(k, i, n) == [kind |-> k, item |-> i, needed |-> n]
Made(needs, r, u) == [needs |-> needs, remnant |-> r, unmapped |-> u]

MCRouting == <<"CUT", "HARDWARE">>
MCPlans == {Made(<<Need("BAR", "bar", 1), Need("HARDWARE_KIT", "kit", 1)>>, TRUE, FALSE),
            Made(<<Need("HARDWARE_KIT", "kit", 1), Need("BAR", "bar", 2)>>, FALSE, FALSE)}
MCOrdered == [i \in Items |-> 4]
MCReceipts == {[key |-> 1, item |-> "bar", good |-> 2, confirm |-> FALSE]}
MCCorrections == {[type |-> "RETURN", item |-> "kit", quantity |-> 1],
                  [type |-> "SCRAP", item |-> "bar", quantity |-> 1]}

=============================================================================
