--------------------------- MODULE MCAccountMail ---------------------------
(* Instances of AccountMail for TLC. *)
EXTENDS AccountMail, TLC

Alike == {p @@ q : p \in Permutations(Tokens),
                  q \in Permutations(Addresses \ {FirstAddress})}
=============================================================================
