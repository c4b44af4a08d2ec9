-------------------------- MODULE MCVariationEditor --------------------------
(* Editors for TLC: "row" edits a row, "new" creates one.                   *)
EXTENDS VariationEditor, TLC

CONSTANTS i1, i2

(* Saving and deleting with two editors, and testing in one, whose row may  *)
(* be of version 0.                                                         *)
Storing == [editors |-> {"row", "new"}, calls |-> {"save", "delete"},
            langs |-> {"toml"}, old |-> {}, changes |-> 2]
Trying == [editors |-> {"row"}, calls |-> {"test"},
           langs |-> {"toml", "json"}, old |-> {i1}, changes |-> 1]
AllSetups == {Storing, Trying}

Symmetry == Permutations(Requests)

MCIds == {i1, i2}
MCTarget == [e \in Editors |-> IF e = "row" THEN i1 ELSE None]
=============================================================================
