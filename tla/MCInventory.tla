----------------------------- MODULE MCInventory -----------------------------
(* The instances of the inventory that TLC checks. *)
EXTENDS Inventory

CONSTANTS dishwasher, salt

OneModel == [d \in Devices |-> dishwasher]
SaltRule == [k \in Keys |-> {salt}]

-----------------------------------------------------------------------------
(* An appliance is replaced by another of its model. *)

CONSTANTS former, latter

\* Bound: the account lists one of the two at a time, and keeps the second.
Replacements ==
    {b \in [Devices -> {"new", "bound", "gone"}] :
        <<b[former], b[latter]>> \in {<<"bound", "new">>, <<"gone", "new">>, <<"gone", "bound">>}}

ReplaceSpec ==
    /\ Init /\ bond \in Replacements
    /\ [][Next /\ bond' \in Replacements]_vars
    /\ Fairness
=============================================================================
