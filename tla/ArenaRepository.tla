--------------------------- MODULE ArenaRepository ---------------------------
(***************************************************************************)
(* The MATCH_STATE repository of the server: one record per match in Redis, *)
(* a "completed" search index next to it, and the calls the gRPC streams    *)
(* and the two Cheesy Arena monitors make on it.                            *)
(*                                                                         *)
(* Every call is an async function that reads a record, changes the copy it *)
(* holds, writes the copy back whole and then publishes it on the event     *)
(* bus.  Nothing orders two calls: each await is a point where any other    *)
(* task may run, so get, insert and publish are steps of their own here.    *)
(*                                                                         *)
(* A record is abstracted to what the calls tell apart: `completed', the    *)
(* head referee's state `hr' and one slot per near/far panel.  Fouls,       *)
(* cards, votes and climb calls are the opaque values of Entry.             *)
(***************************************************************************)
EXTENDS Integers, FiniteSets

CONSTANTS
  Match,               \* match ids that occur, NoMatch among them
  NoMatch,             \* match id 0: Cheesy Arena has no match loaded
  Panel,               \* the near/far referee panels
  Entry,               \* what a referee can have entered, as opaque values
  Unset,               \* an absent protobuf message
  Missing,             \* a key that reads back as "no record"
  RefereeStream,       \* one incoming task per RefereeStream connection
  HeadStream,          \* one incoming task per HeadRefereeStream connection
  Viewer,              \* outgoing halves of the streams: they only read
  FieldMonitor,        \* run_field_monitor
  FieldStatusMonitor,  \* run_field_status_monitor
  FmsOp,               \* which of "field", "complete", "reset" Cheesy triggers
  MatchRotations,      \* CONFIG.match_rotations
  MaxCalls,            \* bound: distinct calls in a behaviour (see InBound; each may recur)
  MaxFaults,           \* bound: failed or cancelled calls, and restarts
  MaxClock             \* bound: seconds that pass

ASSUME MatchAssumption == NoMatch \in Match
ASSUME AbsentAssumption ==
  /\ Unset \notin Entry
  /\ Unset \notin [calls : Entry \cup {Unset}, fieldState : {"match", "count", "reset"},
                   given : BOOLEAN, expires : Nat]
  /\ Missing \notin [completed : BOOLEAN,
                     hr : [calls : Entry \cup {Unset}, fieldState : {"match", "count", "reset"},
                           given : BOOLEAN, expires : Nat] \cup {Unset},
                     panels : [Panel -> Entry \cup {Unset}]]
ASSUME BoundsAssumption ==
  MaxCalls \in Nat /\ MaxFaults \in Nat /\ MaxClock \in Nat /\ MatchRotations \in Nat

Task == RefereeStream \cup HeadStream \cup Viewer \cup {FieldMonitor, FieldStatusMonitor}

FieldState == {"match", "count", "reset"}
HeadInput == [calls : Entry, fieldState : FieldState, given : BOOLEAN]
HeadState == [calls : Entry \cup {Unset}, fieldState : FieldState, given : BOOLEAN, expires : Nat]
Record == [completed : BOOLEAN, hr : HeadState \cup {Unset}, panels : [Panel -> Entry \cup {Unset}]]

\* MatchStateRecord { match_id, ..Default::default() }: the id is the key.
DefaultRecord == [completed |-> FALSE, hr |-> Unset, panels |-> [p \in Panel |-> Unset]]
DefaultHead == [calls |-> Unset, fieldState |-> "match", given |-> FALSE, expires |-> 0]

PanelCall == [op : {"panel"}, match : Match, panel : Panel, state : Entry]
\* A panel type without a slot: the record is written back as it was read.
OtherPanelCall == [op : {"other"}, match : Match]
HeadCall == [op : {"head"}, match : Match, state : HeadInput]
FieldCall == [op : {"field"}, match : Match \ {NoMatch}, state : FieldState]
FmsCall == [op : {"complete", "reset"}, match : Match \ {NoMatch}]
ViewCall == [op : {"view"}, match : Match]
RepositoryCall == PanelCall \cup OtherPanelCall \cup HeadCall \cup FieldCall \cup FmsCall \cup ViewCall

\* The locals of a task that executes no call.
NoCall == [op |-> "view", match |-> NoMatch]

VARIABLES
  table,           \* the MATCH_STATE hash: what `get' of each id returns
  completedIndex,  \* ids that carry the "completed" search index
  pc,              \* where each task stands in its repository call
  call,            \* the call it is executing
  copy,            \* the record it read or is about to write
  seen,            \* last record published per match since the process started
  clock,           \* seconds since some epoch
  issued,          \* distinct calls begun so far (history)
  faults           \* failures so far (bound)

vars == <<table, completedIndex, pc, call, copy, seen, clock, issued, faults>>

Init ==
  /\ table = [m \in Match |-> Missing]
  /\ completedIndex = {}
  /\ pc = [t \in Task |-> "idle"]
  /\ call = [t \in Task |-> NoCall]
  /\ copy = [t \in Task |-> DefaultRecord]
  /\ seen = [m \in Match |-> Missing]
  /\ clock = 0
  /\ issued = {}
  /\ faults = 0

-----------------------------------------------------------------------------
(* What each call does to the record it read.                              *)

WarningSeconds == 120

WasGiven(hr) == hr # Unset /\ hr.given

\* Faults of update_head_referee_state that the runs must tell from it: a
\* deadline in the past, a client that can take the warning back without its
\* deadline, and a deadline that every update moves.
HeadAfterWrongSign(input, hr, now) ==
  [calls |-> input.calls, fieldState |-> input.fieldState, given |-> input.given,
   expires |-> IF input.given THEN now - WarningSeconds ELSE 0]
HeadAfterNotSticky(input, hr, now) ==
  [calls |-> input.calls, fieldState |-> input.fieldState, given |-> input.given,
   expires |-> IF WasGiven(hr) THEN hr.expires
               ELSE IF input.given THEN now + WarningSeconds ELSE 0]
HeadAfterMoving(input, hr, now) ==
  LET given == input.given \/ WasGiven(hr)
  IN  [calls |-> input.calls, fieldState |-> input.fieldState, given |-> given,
       expires |-> IF given THEN now + WarningSeconds ELSE 0]

\* update_head_referee_state: the warning is sticky and its deadline is kept.
HeadAfter(input, hr, now) ==
  LET given == input.given \/ WasGiven(hr)
  IN  [calls |-> input.calls,
       fieldState |-> input.fieldState,
       given |-> given,
       expires |-> IF ~given THEN 0
                   ELSE IF WasGiven(hr) THEN hr.expires
                   ELSE now + WarningSeconds]

\* update_field_state_from_fms: hr.unwrap_or_default() with a new field_state.
FieldAfter(fieldState, hr) ==
  [(IF hr = Unset THEN DefaultHead ELSE hr) EXCEPT !.fieldState = fieldState]

\* Fault: a panel's state written to every slot.
UpdatedEverySlot(c, r, now) ==
  CASE c.op = "panel" -> [r EXCEPT !.panels = [p \in Panel |-> c.state]]
    [] c.op = "head" -> [r EXCEPT !.hr = HeadAfter(c.state, r.hr, now)]
    [] c.op = "field" -> [r EXCEPT !.hr = FieldAfter(c.state, r.hr)]
    [] c.op = "other" -> r
    [] OTHER -> [r EXCEPT !.completed = TRUE]

Updated(c, r, now) ==
  CASE c.op = "panel" -> [r EXCEPT !.panels[c.panel] = c.state]
    [] c.op = "head" -> [r EXCEPT !.hr = HeadAfter(c.state, r.hr, now)]
    [] c.op = "field" -> [r EXCEPT !.hr = FieldAfter(c.state, r.hr)]
    [] c.op = "other" -> r
    [] OTHER -> [r EXCEPT !.completed = TRUE]

\* Fault: an all-default record read back as a record.
PersistedAlways(m, r) == r

\* A record whose protobuf fields all have default values encodes to zero
\* bytes, and __get_record reads zero bytes as "the key doesn't exist".
\* match_id is such a field, so this happens for match 0 only.
Persisted(m, r) == IF m = NoMatch /\ r = DefaultRecord THEN Missing ELSE r

\* Faults of the index: kept in step with the flag, or written for new keys only.
IndexAfterRetracted(m, r) ==
  IF r.completed THEN completedIndex \cup {m} ELSE completedIndex \ {m}
IndexAfterNewKeyOnly(m, r) ==
  completedIndex \cup (IF r.completed /\ table[m] = Missing THEN {m} ELSE {})

\* The index key is written for completed records only and never deleted.
IndexAfter(m, r) == completedIndex \cup (IF r.completed THEN {m} ELSE {})

\* Fault: only what the streams write is published.
AnnouncedForStreams(t) ==
  IF call[t].op \in {"panel", "head"} THEN copy[t] ELSE seen[call[t].match]

\* What is published is the copy that was written.
Announced(t) == copy[t]

\* count_matches, compute_rotation.
MatchesPassed == Cardinality({m \in completedIndex : table[m] # Missing})
Rotation ==
  LET remainder == MatchesPassed % MatchRotations
  IN  IF MatchRotations = 0 \/ (MatchesPassed > 0 /\ remainder = 0) THEN 0
      ELSE MatchRotations - remainder

-----------------------------------------------------------------------------
(* Starting a call.                                                        *)

\* Any MaxCalls calls, or one call and the completion of every match.
InBound(calls) ==
  Cardinality(calls) <= MaxCalls \/ Cardinality({c \in calls : c.op # "complete"}) <= 1

\* A fresh call starts with get_match_state, except the redo reset, which
\* writes a default record straight away.
Begin(t, c) ==
  /\ pc[t] = "idle"
  /\ InBound(issued \cup {c})
  /\ pc' = [pc EXCEPT ![t] = IF c.op = "reset" THEN "insert" ELSE "get"]
  /\ call' = [call EXCEPT ![t] = c]
  /\ copy' = [copy EXCEPT ![t] = DefaultRecord]
  /\ issued' = issued \cup {c}
  /\ UNCHANGED <<table, completedIndex, seen, clock, faults>>

\* The client's own match_id decides where its state is written.
UpdatePanelState(t) ==
  t \in RefereeStream /\ \E c \in PanelCall \cup OtherPanelCall : Begin(t, c)
UpdateHeadRefereeState(t) == t \in HeadStream /\ \E c \in HeadCall : Begin(t, c)
GetMatchState(t) == t \in Viewer /\ \E c \in ViewCall : Begin(t, c)

\* Both monitors skip match 0 (client.rs:128, 154, 490, 508).
UpdateFieldStateFromFms(t) ==
  t = FieldStatusMonitor /\ "field" \in FmsOp /\ \E c \in FieldCall : Begin(t, c)
MarkCompletedOrReset(t) ==
  t = FieldMonitor /\ \E c \in FmsCall : c.op \in FmsOp /\ Begin(t, c)

-----------------------------------------------------------------------------
(* The awaits inside a call.                                               *)

\* The call returns, and its locals go with it.
Return(t) ==
  /\ pc' = [pc EXCEPT ![t] = "idle"]
  /\ call' = [call EXCEPT ![t] = NoCall]
  /\ copy' = [copy EXCEPT ![t] = DefaultRecord]

\* table.get: a hit is changed in the same step (no await in between); the
\* first miss creates a default record, a second one is an error.
Get(t) ==
  LET m == call[t].match
      hit == table[m] # Missing
  IN  /\ pc[t] \in {"get", "reget"}
      /\ \/ /\ hit /\ call[t].op # "view"
            /\ pc' = [pc EXCEPT ![t] = "insert"]
            /\ copy' = [copy EXCEPT ![t] = Updated(call[t], table[m], clock)]
            /\ UNCHANGED call
         \/ /\ hit /\ call[t].op = "view"
            /\ Return(t)
         \/ /\ ~hit /\ pc[t] = "get"
            /\ pc' = [pc EXCEPT ![t] = "create"]
            /\ UNCHANGED <<call, copy>>
         \/ /\ ~hit /\ pc[t] = "reget"
            /\ Return(t)
      /\ UNCHANGED <<table, completedIndex, seen, clock, issued, faults>>

\* table.insert: one pipeline sets the index key and the data key.
Insert(t) ==
  LET m == call[t].match
  IN  /\ pc[t] \in {"create", "insert"}
      /\ table' = [table EXCEPT ![m] = Persisted(m, copy[t])]
      /\ completedIndex' = IndexAfter(m, copy[t])
      /\ pc' = [pc EXCEPT ![t] = IF pc[t] = "create" THEN "announceNew" ELSE "announce"]
      /\ UNCHANGED <<call, copy, seen, clock, issued, faults>>

\* bus.publish after the insert's await has returned.
Publish(t) ==
  /\ pc[t] \in {"announceNew", "announce"}
  /\ seen' = [seen EXCEPT ![call[t].match] = Announced(t)]
  /\ \/ pc[t] = "announceNew" /\ pc' = [pc EXCEPT ![t] = "reget"] /\ UNCHANGED <<call, copy>>
     \/ pc[t] = "announce" /\ Return(t)
  /\ UNCHANGED <<table, completedIndex, clock, issued, faults>>

\* A database error, or a client that goes away while its stream is suspended
\* at an await: the call ends where it stands.
Fault(t) ==
  /\ pc[t] # "idle"
  /\ faults < MaxFaults
  /\ faults' = faults + 1
  /\ Return(t)
  /\ UNCHANGED <<table, completedIndex, seen, clock, issued>>

\* The server process stops and starts again: only Redis survives.
Restart ==
  /\ faults < MaxFaults
  /\ faults' = faults + 1
  /\ pc' = [t \in Task |-> "idle"]
  /\ call' = [t \in Task |-> NoCall]
  /\ copy' = [t \in Task |-> DefaultRecord]
  /\ seen' = [m \in Match |-> Missing]
  /\ UNCHANGED <<table, completedIndex, clock, issued>>

Tick ==
  /\ clock < MaxClock
  /\ clock' = clock + 1
  /\ UNCHANGED <<table, completedIndex, pc, call, copy, seen, issued, faults>>

TaskStep(t) ==
  \/ UpdatePanelState(t)
  \/ UpdateHeadRefereeState(t)
  \/ GetMatchState(t)
  \/ UpdateFieldStateFromFms(t)
  \/ MarkCompletedOrReset(t)
  \/ Get(t)
  \/ Insert(t)
  \/ Publish(t)
  \/ Fault(t)

Next == (\E t \in Task : TaskStep(t)) \/ Restart \/ Tick

Spec == Init /\ [][Next]_vars

-----------------------------------------------------------------------------
(* Calls that never overlap.  The code does not enforce this; it is the     *)
(* assumption under which its comments hold, and SerialSpec states it.      *)

AtMostOneBusy == \A t, u \in Task : pc[t] # "idle" /\ pc[u] # "idle" => t = u
SerialNext == Next /\ AtMostOneBusy'
SerialSpec == Init /\ [][SerialNext]_vars
-----------------------------------------------------------------------------
(* Properties.                                                             *)

TypeOK ==
  /\ table \in [Match -> Record \cup {Missing}]
  /\ completedIndex \subseteq Match
  /\ pc \in [Task -> {"idle", "get", "reget", "create", "announceNew", "insert", "announce"}]
  /\ call \in [Task -> RepositoryCall]
  /\ copy \in [Task -> Record]
  /\ seen \in [Match -> Record \cup {Missing}]
  /\ clock \in Nat
  /\ issued \subseteq RepositoryCall
  /\ faults \in Nat

\* The head referee's countdown is shown from the deadline alone: wherever a
\* record travels (table, in-flight copies, published events) a warning that
\* was given has a deadline, and no deadline is left behind without a warning,
\* whichever calls interleave (repository.rs:87-101).
DeadlineIffGiven(hr) == hr # Unset => (hr.given <=> hr.expires # 0)
WarningHasDeadline ==
  /\ \A m \in Match : table[m] # Missing => DeadlineIffGiven(table[m].hr)
  /\ \A m \in Match : seen[m] # Missing => DeadlineIffGiven(seen[m].hr)
  /\ \A t \in Task : DeadlineIffGiven(copy[t].hr)

\* A record that says "completed" is one count_matches counts, even when its
\* flag was carried into the table by a stale copy (repository.rs:31-34).
CompletedIsCounted ==
  /\ \A m \in Match : table[m] # Missing /\ table[m].completed => m \in completedIndex
  /\ completedIndex \subseteq {m \in Match : table[m] # Missing}

\* All that record r of match m holds of the referees came with one of calls.
Entered(m, r, calls) ==
  /\ \A p \in Panel : r.panels[p] # Unset =>
       [op |-> "panel", match |-> m, panel |-> p, state |-> r.panels[p]] \in calls
  /\ r.hr # Unset /\ r.hr.calls # Unset =>
       \E c \in calls : c.op = "head" /\ c.match = m /\ c.state.calls = r.hr.calls

\* What a referee enters reaches the slot of that panel in that match and no
\* other, whatever is in flight (repository.rs:67-77, 103).
EntriesStayInTheirSlot ==
  \A m \in Match : table[m] # Missing => Entered(m, table[m], issued)

\* "There is no record to attach" anything to when no match is loaded: no
\* call, not even a panel that still sends match_id 0, ever stores a record
\* for match 0 (client.rs:487-489, table.rs:113-116).
IdleMatchStaysEmpty == table[NoMatch] = Missing

\* The announced rotation counts down by one for every newly completed match
\* and never moves otherwise: no replay, stale write, restart or failure makes
\* it skip or repeat (repository.rs:138-152).
RotationCountsDown ==
  [][Rotation' = IF completedIndex' = completedIndex \/ MatchRotations = 0 THEN Rotation
                 ELSE IF Rotation = 0 THEN MatchRotations - 1
                 ELSE Rotation - 1]_vars

Store == INSTANCE MatchStore WITH Match <- Match, Panel <- Panel, Entry <- Entry, Unset <- Unset,
                                 Missing <- Missing, table <- table, completedIndex <- completedIndex

\* With calls that do not overlap the repository is the store its comments
\* describe: sticky completion and warning, a deadline set once, one slot per
\* call (repository.rs:32, 87-90, 107-112).
ImplementsMatchStore == Store!Spec

\* Once no call is in flight, the last event a subscriber got for a match is
\* the record in the table (sync.rs:101: "panel updates are processed in the
\* order they happened").
SubscribersUpToDate ==
  (\A t \in Task : pc[t] = "idle") =>
    \A m \in Match \ {NoMatch} : seen[m] # Missing => seen[m] = table[m]
=============================================================================
