----------------------------- MODULE PanelParts -----------------------------
(***************************************************************************)
(* The nineteen components of the panel's pages that MCPanelEditors runs   *)
(* side by side, and the one that takes the steps of a behaviour.          *)
(***************************************************************************)
Parts == {"settings", "xray", "routing", "balancer", "dns", "tests", "codec", "outform", "inform", "indialog",
          "instats", "inpage", "cledit", "cllist", "nodes", "groups", "logs", "notices", "sensors"}

VARIABLE part
=============================================================================
