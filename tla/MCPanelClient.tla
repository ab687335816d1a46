--------------------------- MODULE MCPanelClient ---------------------------
(* TLC instance of PanelClient. *)
EXTENDS PanelClient

CONSTANTS m0, m1, near, far
=============================================================================
