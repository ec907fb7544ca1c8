-------------------------- MODULE MCBrowserSession --------------------------
(* BrowserSession on small instances; each cfg gives the constants. *)
EXTENDS BrowserSession, TLC

Symmetric == Permutations(Ids) \cup Permutations(Tabs)
=============================================================================
