---------------------------- MODULE MCCheesyLink ----------------------------
(* TLC instances of CheesyLink. *)
EXTENDS CheesyLink

CONSTANTS m1, m2, r1, r2, r3

With(m, minor, major, near) ==
  [BlankRecord(m) EXCEPT !.hr.fouls["red"] = [minor |-> minor, major |-> major],
                         !.panels["red"]["near"].fouls["red"]["minor"] = near]

\* Auto calls of both panels of an alliance, submitted or not, and the same card
\* at every station.
Called(near, nearIn, far, farIn, card) ==
  [BlankRecord(m1) EXCEPT !.panels["red"]["near"].climb.autoClimb[1] = near,
                          !.panels["red"]["near"].climb.autoSubmitted = nearIn,
                          !.panels["red"]["far"].climb.autoClimb[1] = far,
                          !.panels["red"]["far"].climb.autoSubmitted = farIn,
                          !.hr.cards = [s \in Station |-> card]]
Calls == {"nothing", "level1"}

\* Corrections of a mixed list, calls that come to agree in either order or are
\* taken back, and a card.
LinkRecords ==
  {With(m1, 0, 0, -1), With(m1, 2, 1, -1), With(m1, 1, 2, 0), With(m1, 0, 1, 1)}
  \cup {Called(near, TRUE, far, TRUE, "none") : near \in Calls, far \in Calls}
  \cup {Called("level1", TRUE, far, FALSE, "yellow") : far \in Calls}
  \cup {Called(near, FALSE, "nothing", TRUE, "red") : near \in Calls}

\* r2 is listed without a team, and r3 not at all.
Listed == [match |-> m1,
           teams |-> [s \in Station |-> CASE s = r1 -> 254 [] s = r2 -> 0 [] s = r3 -> NotListed]]
NoInfos == {}
=============================================================================
