---------------------------- MODULE MCPanelLink ----------------------------
(* TLC instance of PanelLink. *)
EXTENDS PanelLink

CONSTANTS m1, r1

\* One record, published again and again: the first time it has a command for
\* the referee panel and one for red's scoring panel.  Bypass requests fill the
\* referee panel's channel all the time.
LinkRecords ==
  {[BlankRecord(m1) EXCEPT !.hr.field = "count",
                           !.panels["red"]["far"].climb.autoSubmitted = TRUE,
                           !.panels["red"]["far"].climb.autoClimb[1] = "level1"]}
Listed == [match |-> m1, teams |-> [s \in {r1} |-> 254]]
LinkInfos == {Listed}
=============================================================================
