----------------------------- MODULE MCBilling -----------------------------
(* Small instances of Billing for TLC. *)
EXTENDS Billing, TLC

CONSTANTS n1

\* A hotel of 4.00: a full charge and a discount on it.
MCEntries == {[node |-> n1, kind |-> "charge", amount |-> 400],
              [node |-> n1, kind |-> "adjust", amount |-> -100]}

MCCost == [n \in Nodes |-> 400]

Symmetry == Permutations(Workers) \cup Permutations(LineIds) \cup Permutations(Refs)
            \cup Permutations(Keys)
=============================================================================
