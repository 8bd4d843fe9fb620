---------------------------- MODULE MCMcpBridge -----------------------------
(* Two buttons that share an id, a label OCR can read, and a control the
   walk does not reach; one element is kept.                              *)
EXTENDS McpBridge, TLC
CONSTANTS ok1, ok2, label, menu

MCControl == {ok1, ok2, label, menu}
MCIdent == (ok1 :> "a:ok") @@ (ok2 :> "a:ok") @@ (label :> "n:label") @@ (menu :> "a:menu")
MCTier == (ok1 :> 0) @@ (ok2 :> 0) @@ (label :> 3) @@ (menu :> 0)
MCOrder == (label :> 1) @@ (ok1 :> 2) @@ (menu :> 3) @@ (ok2 :> 4)
MCFilters == {MCControl, {label}}
=============================================================================
