-------------------------- MODULE MCEditingSession --------------------------
(* Instances of EditingSession for TLC. *)
EXTENDS EditingSession

CONSTANTS e1, t1, t2, blank, essay, poem

\* The first editor has the tab t1, the others share t2.
TabOfFirst == [e \in Editors |-> IF e = e1 THEN t1 ELSE t2]

OneTab == [e \in Editors |-> t1]

\* The texts are one, two and three units long.
Lengths == [x \in Texts |-> IF x = blank THEN 1 ELSE IF x = essay THEN 2 ELSE 3]
=============================================================================
