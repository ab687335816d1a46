----------------------------- MODULE FieldMonitor -----------------------------
(***************************************************************************)
(* fms/cheesy/client.rs: run_field_monitor, which follows Cheesy Arena's    *)
(* match through one websocket, reports it, marks matches completed and     *)
(* resets the record of a match that is redone; and, beside it,             *)
(* run_field_status_monitor, which writes the field signal into the record  *)
(* of the match that was last reported.                                     *)
(*                                                                         *)
(* Cheesy Arena is external: its match goes through the states the code     *)
(* names, each change is announced in a message of one of the kinds the     *)
(* code parses, and a new connection is told the current values.            *)
(*                                                                         *)
(* A record is reduced to its completed flag and to whether it holds        *)
(* entries of the referees; a record that is missing counts as blank        *)
(* (ArenaRepository has the details of the calls).                          *)
(***************************************************************************)
EXTENDS Naturals, Sequences

CONSTANTS
  Match,     \* the ids of Cheesy Arena's matches, and Idle
  Idle,      \* id 0: a test match, or none
  None,      \* no match id
  MaxWire,   \* bound: Cheesy Arena takes no step while this many messages wait
  MaxCredit  \* bound: returns of one match to PreMatch that led to no reset

ASSUME MonitorAssumption ==
  /\ Idle \in Match /\ None \notin Match
  /\ MaxWire \in Nat \ {0} /\ MaxCredit \in Nat \ {0}

\* Teleop stands for every state these tasks do not ask about: the pause too.
State == {"pre", "auto", "teleop", "post"}
Blank == [completed |-> FALSE, entries |-> FALSE]

VARIABLES
  arena,      \* Cheesy Arena: the match it has loaded and its state
  wire,       \* messages on their way to the field monitor
  online,     \* the field monitor is connected
  acc,        \* its Accumulator
  todo,       \* what is left to do of its FieldMessageEffect
  mcopy,      \* the record it holds while marking, or None
  info,       \* match_info_rx: the match and state last reported
  spc,        \* where the status monitor stands: "next", "get" or "insert"
  target,     \* the match it writes to
  scopy,      \* the record it holds
  records,    \* the MATCH_STATE records
  played,     \* scheduled matches that ever reached PostMatch (history)
  finished,   \* matches that reached PostMatch and did not come back (history)
  credit,     \* returns to PreMatch that no reset was tried for so far (history)
  redo,       \* the loaded match was discarded: "no", "owed" a reset, "done" or "failed" (history)
  gap         \* messages were lost since the match started (history)

monitor == <<online, acc, todo, mcopy>>
status == <<spc, target, scopy>>
history == <<played, finished, credit, redo, gap>>
vars == <<arena, wire, monitor, info, status, records, history>>

NoEffect == [report |-> FALSE, completed |-> None, reset |-> None]
FreshAccumulator ==
  [match |-> Idle, state |-> "pre", completed |-> None, pending |-> None,
   cycle |-> FALSE, estimate |-> FALSE]
NoInfo == [match |-> None, state |-> "pre"]

Init ==
  /\ arena = [match |-> Idle, state |-> "pre"]
  /\ wire = <<>> /\ online = FALSE
  /\ acc = FreshAccumulator
  /\ todo = NoEffect /\ mcopy = None
  /\ info = NoInfo
  /\ spc = "next" /\ target = None /\ scopy = Blank
  /\ records = [m \in Match |-> Blank]
  /\ played = {} /\ finished = {} /\ credit = [m \in Match |-> 0]
  /\ redo = "no" /\ gap = TRUE

-----------------------------------------------------------------------------
(* Cheesy Arena and the referees.                                          *)

ArenaStatus(a) == [type |-> "arenaStatus", match |-> a.match, state |-> a.state]
MatchLoad(a) == [type |-> "matchLoad", match |-> a.match]
MatchTime(a) == [type |-> "matchTime", state |-> a.state]
\* Whether it holds a cycle time that can be parsed.
EventStatus(known) == [type |-> "eventStatus", cycle |-> known]

\* Cheesy Arena takes a step and announces it; nobody hears it while offline.
Announce(news) ==
  /\ Len(wire) < MaxWire
  /\ wire' = IF online THEN wire \o news ELSE wire
  /\ UNCHANGED <<monitor, info, status, records>>

\* Either message tells a change of state.
Turn(to) ==
  /\ arena' = [arena EXCEPT !.state = to]
  /\ \E m \in {ArenaStatus(arena'), MatchTime(arena')} : Announce(<<m>>)

\* Match m stands in PreMatch again after a play of it had finished.
Return(m) ==
  /\ finished' = finished \ {m}
  /\ IF m \in finished
     THEN credit[m] < MaxCredit /\ credit' = [credit EXCEPT ![m] = @ + 1]
     ELSE UNCHANGED credit

\* Another match, after a commit or while none is under way.
Load(m) ==
  /\ arena.state \in {"pre", "post"} /\ m # arena.match
  /\ arena' = [match |-> m, state |-> "pre"]
  /\ Announce(<<MatchLoad(arena'), ArenaStatus(arena')>>)
  /\ Return(m)
  /\ redo' = "no"
  /\ UNCHANGED <<played, gap>>

\* The cycle time is announced when a match starts.
Start ==
  /\ arena.state = "pre"
  /\ arena' = [arena EXCEPT !.state = "auto"]
  /\ \E m \in {ArenaStatus(arena'), MatchTime(arena')}, known \in BOOLEAN :
       Announce(<<m, EventStatus(known)>>)
  /\ redo' = "no" /\ gap' = ~online
  /\ UNCHANGED <<played, finished, credit>>

Teleop == arena.state = "auto" /\ Turn("teleop") /\ UNCHANGED history

\* The match ends or is aborted.
Finish ==
  /\ arena.state \in {"auto", "teleop"}
  /\ Turn("post")
  /\ played' = played \cup ({arena.match} \ {Idle})
  /\ finished' = finished \cup ({arena.match} \ {Idle})
  /\ UNCHANGED <<credit, redo, gap>>

\* "Discard Results": the same match, to be played again.
Discard ==
  /\ arena.state = "post"
  /\ Turn("pre")
  /\ Return(arena.match)
  /\ redo' = "owed"
  /\ UNCHANGED <<played, gap>>

\* A referee's fouls, cards and calls, from the start of the match on.
Enter ==
  /\ arena.match # Idle /\ arena.state \in {"auto", "teleop", "post"}
  /\ records' = [records EXCEPT ![arena.match].entries = TRUE]
  /\ UNCHANGED <<arena, wire, monitor, info, status, history>>

\* The websocket closes and comes back; a new connection is told everything.
Drop ==
  /\ online /\ todo = NoEffect
  /\ online' = FALSE /\ wire' = <<>> /\ gap' = TRUE
  /\ UNCHANGED <<arena, acc, todo, mcopy, info, status, records, played, finished, credit, redo>>

Connect ==
  /\ ~online
  /\ online' = TRUE
  /\ wire' = <<ArenaStatus(arena), MatchLoad(arena), MatchTime(arena)>>
  /\ UNCHANGED <<arena, acc, todo, mcopy, info, status, records, history>>

-----------------------------------------------------------------------------
(* The Accumulator.                                                        *)

\* Fault: a matchTime leaves the state to the next arenaStatus.
MergedIgnoringTime(a, m) ==
  CASE m.type = "arenaStatus" -> [a EXCEPT !.match = m.match, !.state = m.state]
    [] m.type = "matchLoad" -> [a EXCEPT !.match = m.match]
    [] m.type = "matchTime" -> a
    [] m.type = "eventStatus" -> [a EXCEPT !.cycle = m.cycle]

Merged(a, m) ==
  CASE m.type = "arenaStatus" -> [a EXCEPT !.match = m.match, !.state = m.state]
    [] m.type = "matchLoad" -> [a EXCEPT !.match = m.match]
    [] m.type = "matchTime" -> [a EXCEPT !.state = m.state]
    [] m.type = "eventStatus" -> [a EXCEPT !.cycle = m.cycle]

\* Fault: a test match completes too.
CompletesIdle(a) == a.state = "post" /\ a.completed # a.match

Completes(a) == a.match # Idle /\ a.state = "post" /\ a.completed # a.match

\* check_match_completed.
AfterCompleted(a) ==
  LET b == IF a.state = "auto" THEN [a EXCEPT !.estimate = FALSE] ELSE a
  IN  IF Completes(a)
      THEN [b EXCEPT !.completed = a.match, !.estimate = IF a.cycle THEN TRUE ELSE @]
      ELSE b

\* Fault: whatever match was armed.
ResetsAnyArmed(a) == a.match # Idle /\ a.state = "pre" /\ a.pending # None

Resets(a) == a.match # Idle /\ a.state = "pre" /\ a.pending = a.match

\* Fault: armed only together with the completion, once per match.
AfterResetArmedOnce(a) ==
  IF a.match # Idle /\ a.state = "post" /\ a.pending = None /\ a.completed # a.match
  THEN [a EXCEPT !.pending = a.match]
  ELSE IF Resets(a) THEN [a EXCEPT !.pending = None]
  ELSE a

\* check_match_reset.
AfterReset(a) ==
  IF a.match # Idle /\ a.state = "post" THEN [a EXCEPT !.pending = a.match]
  ELSE IF Resets(a) THEN [a EXCEPT !.pending = None]
  ELSE a

\* Fault: a match that is loaded is checked too, with the state of the last one.
CheckedOnLoad(type) == type \in {"arenaStatus", "matchLoad", "matchTime"}

\* The kinds of message that check for completion and reset.
Checked(type) == type \in {"arenaStatus", "matchTime"}

\* process_field_message: no await, one step.
Process ==
  LET m == Head(wire)
      a == Merged(acc, m)
      b == AfterCompleted(a)
  IN  /\ online /\ todo = NoEffect /\ wire # <<>>
      /\ wire' = Tail(wire)
      /\ acc' = IF Checked(m.type) THEN AfterReset(b) ELSE a
      /\ todo' = [report |-> m.type # "eventStatus",
                  completed |-> IF Checked(m.type) /\ Completes(a) THEN a.match ELSE None,
                  reset |-> IF Checked(m.type) /\ Resets(b) THEN a.match ELSE None]
      /\ UNCHANGED <<arena, online, mcopy, info, status, records, history>>

-----------------------------------------------------------------------------
(* The effects of a message, in the order run_field_monitor awaits them.    *)

\* publish_match_info: persisted, published and put into the watch channel.
Report ==
  /\ todo.report
  /\ info' = [match |-> acc.match, state |-> acc.state]
  /\ todo' = [todo EXCEPT !.report = FALSE]
  /\ UNCHANGED <<arena, wire, online, acc, mcopy, status, records, history>>

\* mark_match_completed: read, set the flag, write back whole.
MarkRead ==
  /\ ~todo.report /\ todo.completed # None /\ mcopy = None
  /\ mcopy' = [records[todo.completed] EXCEPT !.completed = TRUE]
  /\ UNCHANGED <<arena, wire, online, acc, todo, info, status, records, history>>

MarkWrite ==
  /\ mcopy # None
  /\ records' = [records EXCEPT ![todo.completed] = mcopy]
  /\ mcopy' = None /\ todo' = [todo EXCEPT !.completed = None]
  /\ UNCHANGED <<arena, wire, online, acc, info, status, history>>

\* Either of its two awaits fails; that is logged, and the match not marked again.
MarkFails ==
  /\ ~todo.report /\ todo.completed # None
  /\ mcopy' = None /\ todo' = [todo EXCEPT !.completed = None]
  /\ UNCHANGED <<arena, wire, online, acc, info, status, records, history>>

AtReset == ~todo.report /\ todo.completed = None /\ todo.reset # None

TryReset(outcome) ==
  /\ AtReset
  /\ todo' = NoEffect
  /\ credit' = [credit EXCEPT ![todo.reset] = IF @ > 0 THEN @ - 1 ELSE 0]
  /\ redo' = IF redo = "owed" /\ todo.reset = arena.match THEN outcome ELSE redo
  /\ UNCHANGED <<arena, wire, online, acc, mcopy, info, status, played, finished, gap>>

\* The record of a redone match is written over with a default one ...
Reset ==
  /\ TryReset("done")
  /\ records' = [records EXCEPT ![todo.reset] = Blank]

\* ... or the write fails, which is logged: the accumulator is no longer armed, so
\* nothing tries again.
ResetFails == TryReset("failed") /\ UNCHANGED records

-----------------------------------------------------------------------------
(* The field status monitor: update_field_state_from_fms of the match that  *)
(* was last reported, on each signal, and on each report once a signal has  *)
(* been heard. Cheesy Arena repeats the signal all the time, so that when   *)
(* it happens is left open.                                                *)

Wake ==
  /\ spc = "next" /\ info.match \in Match \ {Idle}
  /\ spc' = "get" /\ target' = info.match
  /\ UNCHANGED <<arena, wire, monitor, info, scopy, records, history>>

StatusRead ==
  /\ spc = "get"
  /\ scopy' = records[target]
  /\ spc' = "insert"
  /\ UNCHANGED <<arena, wire, monitor, info, target, records, history>>

StatusWrite ==
  /\ spc = "insert"
  /\ records' = [records EXCEPT ![target] = scopy]
  /\ spc' = "next" /\ target' = None /\ scopy' = Blank
  /\ UNCHANGED <<arena, wire, monitor, info, history>>

\* An error of either is logged.
StatusFails ==
  /\ spc # "next"
  /\ spc' = "next" /\ target' = None /\ scopy' = Blank
  /\ UNCHANGED <<arena, wire, monitor, info, records, history>>

\* The server stops and starts again.
Restart ==
  /\ online' = FALSE /\ wire' = <<>> /\ gap' = TRUE
  /\ acc' = FreshAccumulator /\ todo' = NoEffect /\ mcopy' = None
  /\ info' = NoInfo
  /\ spc' = "next" /\ target' = None /\ scopy' = Blank
  /\ UNCHANGED <<arena, records, played, finished, credit, redo>>

Next ==
  \/ \E m \in Match : Load(m)
  \/ Start \/ Teleop \/ Finish \/ Discard
  \/ Enter \/ Drop \/ Connect
  \/ Process \/ Report \/ MarkRead \/ MarkWrite \/ MarkFails \/ Reset \/ ResetFails
  \/ Wake \/ StatusRead \/ StatusWrite \/ StatusFails
  \/ Restart

Spec == Init /\ [][Next]_vars

-----------------------------------------------------------------------------
(* Properties.                                                             *)

Record == [completed : BOOLEAN, entries : BOOLEAN]
Scheduled == Match \ {Idle}
Message ==
  [type : {"arenaStatus"}, match : Match, state : State]
    \cup [type : {"matchLoad"}, match : Match]
    \cup [type : {"matchTime"}, state : State]
    \cup [type : {"eventStatus"}, cycle : BOOLEAN]

\* Only scheduled matches are marked, reset and written to.
TypeOK ==
  /\ arena \in [match : Match, state : State]
  /\ wire \in Seq(Message)
  /\ online \in BOOLEAN
  /\ acc \in [match : Match, state : State, completed : Scheduled \cup {None},
             pending : Scheduled \cup {None}, cycle : BOOLEAN, estimate : BOOLEAN]
  /\ todo \in [report : BOOLEAN, completed : Scheduled \cup {None}, reset : Scheduled \cup {None}]
  /\ mcopy \in Record \cup {None} /\ (mcopy # None => todo.completed # None)
  /\ info \in [match : Match \cup {None}, state : State]
  /\ spc \in {"next", "get", "insert"}
  /\ target \in Scheduled \cup {None} /\ (spc = "next" <=> target = None)
  /\ scopy \in Record
  /\ records \in [Match -> Record]
  /\ played \subseteq Scheduled /\ finished \subseteq played
  /\ credit \in [Match -> 0..MaxCredit]
  /\ redo \in {"no", "owed", "done", "failed"} /\ gap \in BOOLEAN

\* Every message Cheesy Arena sent has been worked off.
CaughtUp == online /\ wire = <<>> /\ todo = NoEffect

\* However messages, drops and restarts come between, what RefLink reports in
\* the end is the match Cheesy Arena has loaded, in its state (client.rs:87-112,
\* 325-333).
InfoIsCurrent == CaughtUp => info = arena

\* No match counts as completed that never reached PostMatch, in particular not
\* the one that was loaded right after (client.rs:118-123).
CompletedWasPlayed == \A m \in Match : records[m].completed => m \in played

\* The monitor only sets out to wipe a record when its match stood in PreMatch again after a play of
\* it, once for each time (client.rs:141-147).
ResetOnlyReplayed == AtReset => credit[todo.reset] > 0

\* "This accumulator processes every field message in order, so it can't miss
\* it": the monitor sets out to reset every discarded match, whatever happens
\* between, as long as no message is lost (client.rs:148-152).  That the write
\* then succeeds is not said: DiscardedIsReset fails.
RedoIsNoticed == CaughtUp /\ ~gap /\ arena.match # Idle => redo # "owed"

\* Said but not so, of a match that is replayed (no run checks it):
\* client.rs:120-122: "the deadline is set the instant a match reaches PostMatch".
EstimateAtPost ==
  CaughtUp /\ ~gap /\ acc.match # Idle /\ acc.state = "post" => acc.estimate

\* Said but not so, when the database refuses the write (no run checks it):
\* client.rs:144-147, "mirror that by wiping our copy too".
DiscardedIsReset == CaughtUp /\ ~gap /\ arena.match # Idle => redo \notin {"owed", "failed"}

\* client.rs:141-147: a redo wipes our copy, which "otherwise leaves stale
\* fouls/cards/climb calls sitting around for the redo".
RedoLeavesNoEntries ==
  CaughtUp /\ ~gap /\ spc = "next" /\ redo = "done" => ~records[arena.match].entries
=============================================================================
