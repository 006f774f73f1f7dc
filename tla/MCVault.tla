------------------------------ MODULE MCVault ------------------------------
(* Vault with two jobs at once, and either a connection with two secrets, so *)
(* that the first may be written and the second not, or two connections with *)
(* one, so that one may be a copy of the other.                              *)
EXTENDS Vault, TLC

Symmetry == Permutations(Conns) \cup Permutations(Jobs)

\* Bound: once both identifiers are given, the second secret is nowhere.
OneSecretEach ==
  fresh = {} => \A c \in Conns : /\ file.names[c] \cup Typed(ui.typed) \subseteq {1}
                                 /\ kept[c][2] = Nothing /\ session[c][2] = 0
=============================================================================
