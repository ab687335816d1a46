------------------------------ MODULE MatchStore ------------------------------
(***************************************************************************)
(* What the repository promises about the record of a match, one atomic     *)
(* step per call: a call changes its own part of the record and leaves the  *)
(* rest, a match that is completed and a warning that is given stay so, the *)
(* deadline of a warning is set once, and only a redo clears the record.    *)
(***************************************************************************)
EXTENDS Naturals

CONSTANTS Match, Panel, Entry, Unset, Missing

VARIABLES
  table,           \* the record of each match
  completedIndex   \* matches that count as completed

vars == <<table, completedIndex>>

Head == [calls : Entry \cup {Unset}, fieldState : {"match", "count", "reset"},
         given : BOOLEAN, expires : Nat]

Blank == [completed |-> FALSE, hr |-> Unset, panels |-> [p \in Panel |-> Unset]]

Init == table = [m \in Match |-> Missing] /\ completedIndex = {}

\* A match that has no record gets a blank one.
Create(m) ==
  /\ table[m] = Missing
  /\ table' = [table EXCEPT ![m] = Blank]
  /\ UNCHANGED completedIndex

Submit(m, p) ==
  /\ table[m] # Missing
  /\ \E e \in Entry : table' = [table EXCEPT ![m].panels[p] = e]
  /\ UNCHANGED completedIndex

\* The head referee's step: never takes the warning back, never moves the
\* deadline of a warning that was given before.
Decide(m) ==
  LET old == table[m].hr
      new == table'[m].hr
  IN  /\ table[m] # Missing
      /\ table' = [table EXCEPT ![m].hr = new]
      /\ new \in Head /\ new.calls # Unset
      /\ new.given <=> new.expires # 0
      /\ old # Unset /\ old.given => new.given /\ new.expires = old.expires
      /\ UNCHANGED completedIndex

\* Cheesy Arena's signal: the field state and nothing else.
Signal(m) ==
  LET old == table[m].hr
      new == table'[m].hr
  IN  /\ table[m] # Missing
      /\ table' = [table EXCEPT ![m].hr = new]
      /\ new \in Head
      /\ IF old = Unset THEN new.calls = Unset /\ ~new.given /\ new.expires = 0
         ELSE new.calls = old.calls /\ new.given = old.given /\ new.expires = old.expires
      /\ UNCHANGED completedIndex

Complete(m) ==
  /\ table[m] # Missing
  /\ table' = [table EXCEPT ![m].completed = TRUE]
  /\ completedIndex' = completedIndex \cup {m}

\* A redo of the match: a blank record that still counts if it did before.
Reset(m) ==
  /\ table' = [table EXCEPT ![m] = Blank]
  /\ UNCHANGED completedIndex

Next ==
  \E m \in Match :
    \/ Create(m)
    \/ \E p \in Panel : Submit(m, p)
    \/ Decide(m)
    \/ Signal(m)
    \/ Complete(m)
    \/ Reset(m)

Spec == Init /\ [][Next]_vars
=============================================================================
