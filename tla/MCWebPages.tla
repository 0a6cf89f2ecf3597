----------------------------- MODULE MCWebPages -----------------------------
(* Two accounts with a policy each; the vault knows one more.                *)
EXTENDS WebPages, TLC

MCOwned == "alice" :> {"pa"} @@ "bob" :> {"pb"}
MCPurse == "alice" :> 1 @@ "bob" :> 0
=============================================================================
