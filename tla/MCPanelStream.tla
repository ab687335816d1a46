--------------------------- MODULE MCPanelStream ---------------------------
(* TLC instance of PanelStream. *)
EXTENDS PanelStream

CONSTANTS m0, m1, near, far

\* The near and the far panel of an alliance see each other's calls.
Across == [p \in {near, far} |-> IF p = near THEN far ELSE near]

\* Two publications of records can overtake each other on the head referee's
\* stream, which shows both panels; a panel's stream has one and a change of the
\* panel type besides; the FMS API's is about the match infos alone.
Infos == [referee |-> 1, head |-> 1, fms |-> 3]
Writes == [referee |-> 1, head |-> 2, fms |-> 0]
=============================================================================
