-------------------------- MODULE MCEditingVersions --------------------------
(* An instance of EditingVersions for TLC: texts of one, two and three units. *)
EXTENDS EditingVersions

CONSTANTS e1, t1, t2, blank, essay

TabOfFirst == [e \in Editors |-> IF e = e1 THEN t1 ELSE t2]

Lengths == [x \in Texts |-> IF x = blank THEN 1 ELSE IF x = essay THEN 2 ELSE 3]
=============================================================================
