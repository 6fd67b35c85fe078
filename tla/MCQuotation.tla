---------------------------- MODULE MCQuotation ----------------------------
(* Links and requests are interchangeable.                                  *)
EXTENDS Quotation, TLC

Symmetry == Permutations(Links) \cup Permutations(Requests)

=============================================================================
