------------------------ MODULE MCScopeImplications ------------------------
(* Every table over a few scopes. *)
EXTENDS ScopeImplications
=============================================================================
