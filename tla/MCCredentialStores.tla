------------------------- MODULE MCCredentialStores -------------------------
(* CredentialStores on small instances; each cfg gives the constants. *)
EXTENDS CredentialStores, TLC

Symmetric == Permutations(Request)
=============================================================================
