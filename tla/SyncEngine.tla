------------------------------ MODULE SyncEngine ------------------------------
(***************************************************************************)
(* fms/cheesy/sync.rs: the task that turns published MatchStateRecords and  *)
(* fire-once requests into Cheesy Arena commands, on three bounded channels *)
(* (the referee panel and one scoring panel per alliance).                  *)
(*                                                                         *)
(* The task's own variables are private, so one event may be worked off in  *)
(* several steps: take it, send the field signal, adjust the fouls one by   *)
(* one, diff cards and climbs, send the commands.  A send waits while its   *)
(* channel is full, and nothing else of the task runs meanwhile.            *)
(*                                                                         *)
(* Absent protobuf messages are their default values here: merge_fouls and  *)
(* panel_climb_state treat the two alike.                                   *)
(***************************************************************************)
EXTENDS Integers, Sequences, FiniteSets

CONSTANTS
  Match,        \* match ids
  NoMatchYet,   \* current_match_id = None
  Station,      \* the alliance stations that hold cards
  Team,         \* team numbers; 0 is none
  NotListed,    \* a station the match info does not list
  Position,     \* the stations of one alliance, 1..3 in the code
  Records,      \* the MatchStateRecords that are published
  Infos,        \* the FmsMatchInfos the field monitor reports
  NoInfo,       \* match_info_rx still holds None
  FirstInfo,    \* what match_info_rx holds when the first record arrives
  Requests,     \* the stations to bypass, and "commit"
  Capacity,     \* of each command channel, 64 in the code
  MaxWaiting    \* bound: published records not yet taken

Alliance == {"red", "blue"}
Side == {"near", "far"}
Kind == {"minor", "major"}
Card == {"none", "yellow", "red"}
FieldState == {"match", "count", "reset"}
Channel == {"referee", "red", "blue"}
AutoCall == {"unspecified", "nothing", "level1"}
EndgameCall == AutoCall \cup {"level2", "level3"}

Fouls == [Alliance -> [Kind -> Int]]
Climb == [autoSubmitted : BOOLEAN, autoClimb : [Position -> AutoCall],
          endgameSubmitted : BOOLEAN, endgameClimb : [Position -> EndgameCall]]
Record == [match : Match,
           hr : [fouls : Fouls, cards : [Station -> Card], field : FieldState],
           panels : [Alliance -> [Side -> [fouls : Fouls, climb : Climb]]]]
\* teams: what the match has at each station; a station without a team is listed
\* with team 0.
Info == [match : Match, teams : [Station -> Team \cup {0, NotListed}]]

ASSUME SyncAssumption ==
  /\ Records \subseteq Record /\ Records # {}
  /\ Infos \subseteq Info /\ NoInfo \notin Info /\ FirstInfo \in Info \cup {NoInfo}
  /\ NoMatchYet \notin Match /\ 0 \notin Team /\ NotListed \notin Team \cup {0}
  /\ Requests \subseteq Station \cup {"commit"}
  /\ Capacity \in Nat \ {0} /\ MaxWaiting \in Nat
  /\ IsFiniteSet(Station) /\ IsFiniteSet(Position) /\ Position = 1..Cardinality(Position)

VARIABLES
  inbox,         \* state_rx: records published and not yet taken
  requests,      \* bypass_rx and commit_rx: stations to bypass, and "commit"
  matchInfo,     \* match_info_rx
  pc,            \* "select", "relay", "fouls" or "stopped"
  rec,           \* the record in hand
  before,        \* the record handled before it (history)
  currentMatch, lastField, lastSent, ledger, prev,
  outbox,        \* commands built and not yet sent
  chan,          \* the command channels
  closed,        \* channels whose panel task has ended
  shutdown,      \* the shutdown broadcast has been sent
  hostOk         \* the configured host makes a websocket URL; it does not change

trackers == <<currentMatch, lastField, lastSent, ledger, prev>>
hand == <<rec, before>>
engine == <<pc, hand, trackers, outbox>>
env == <<inbox, requests, matchInfo, shutdown, hostOk>>
vars == <<env, engine, chan, closed>>

NoFouls == [a \in Alliance |-> [k \in Kind |-> 0]]
NoCards == [s \in Station |-> "none"]
NoClimb == [autoSubmitted |-> FALSE, autoClimb |-> [p \in Position |-> "unspecified"],
            endgameSubmitted |-> FALSE, endgameClimb |-> [p \in Position |-> "unspecified"]]
NoPanels == [a \in Alliance |-> [s \in Side |-> NoClimb]]
BlankRecord(m) ==
  [match |-> m,
   hr |-> [fouls |-> NoFouls, cards |-> NoCards, field |-> "match"],
   panels |-> [a \in Alliance |-> [s \in Side |-> [fouls |-> NoFouls, climb |-> NoClimb]]]]

Init ==
  /\ inbox = <<>> /\ requests = {}
  /\ shutdown = FALSE /\ hostOk \in BOOLEAN
  /\ pc = "select"
  /\ rec = BlankRecord(CHOOSE m \in Match : TRUE) /\ before = rec
  /\ matchInfo = FirstInfo
  /\ currentMatch = NoMatchYet
  /\ lastField = "match"
  /\ lastSent = [fouls |-> NoFouls, cards |-> NoCards]
  /\ ledger = [a \in Alliance |-> <<>>]
  /\ prev = NoPanels
  /\ outbox = <<>>
  /\ chan = [c \in Channel |-> <<>>]
  /\ closed = {}

-----------------------------------------------------------------------------
(* combine_match_state                                                     *)

Higher(x, y) == IF x >= y THEN x ELSE y

MergeFouls(combined, fouls) ==
  [a \in Alliance |-> [k \in Kind |-> Higher(combined[a][k], fouls[a][k])]]

\* Fault: the panel that spoke last decides, whatever it counts.
CombinedFoulsOfOnePanel(r) == r.panels["red"]["near"].fouls

\* The highest count any of the five panels reports, and never below zero.
CombinedFouls(r) ==
  LET panel(a, s) == r.panels[a][s].fouls
      one == MergeFouls(NoFouls, r.hr.fouls)
      two == MergeFouls(one, panel("red", "near"))
      three == MergeFouls(two, panel("red", "far"))
      four == MergeFouls(three, panel("blue", "near"))
  IN  MergeFouls(four, panel("blue", "far"))

\* Cards come from the head referee alone.
CombinedCards(r) == r.hr.cards

ClimbOf(r) == [a \in Alliance |-> [s \in Side |-> r.panels[a][s].climb]]

-----------------------------------------------------------------------------
(* The commands.                                                           *)

To(c, body) == [to |-> c, body |-> body]

FieldCommand(f) ==
  CASE f = "count" -> <<To("referee", [type |-> "signalVolunteers"])>>
    [] f = "reset" -> <<To("referee", [type |-> "signalReset"])>>
    [] OTHER -> <<>>

\* diff_commands walks the four counters in this order.
FoulOrder == <<<<"red", "minor">>, <<"red", "major">>, <<"blue", "minor">>, <<"blue", "major">>>>

\* ledger.iter().rposition: where the last foul of this kind stands.
PositionsOf(fouls, k) == {i \in DOMAIN fouls : fouls[i] = k}
\* Fault: the last foul of the list, whatever its kind.
LastOfAny(fouls, k) == Len(fouls)
LastOf(fouls, k) == CHOOSE i \in PositionsOf(fouls, k) : \A j \in PositionsOf(fouls, k) : j <= i
\* A position of the list as Cheesy Arena counts, from zero; the fault sends it as is.
WireIndexFromOne(at) == at
WireIndex(at) == at - 1
Without(fouls, i) ==
  [j \in 1..(Len(fouls) - 1) |-> IF j < i THEN fouls[j] ELSE fouls[j + 1]]

\* The elements of a sequence at the given positions, in order: a SelectSeq that
\* is not recursive.
Nth(at, n) == CHOOSE i \in at : Cardinality({j \in at : j <= i}) = n
Kept(s, at) == [n \in 1..Cardinality(at) |-> s[Nth(at, n)]]

\* The sequence <<f(x) : x in the sequence order>>, kept where keep(x) holds.
CommandsFor(order, keep(_), f(_)) ==
  LET kept == Kept(order, {i \in DOMAIN order : keep(order[i])})
  IN  [n \in DOMAIN kept |-> f(kept[n])]

StationOrder == CHOOSE o \in [1..Cardinality(Station) -> Station] : \A i, j \in DOMAIN o : o[i] = o[j] => i = j
PositionOrder == [i \in 1..Cardinality(Position) |-> i]

\* Fault: a card that is taken back is not sent.
CardCommandsGivenOnly(old, new, info) ==
  LET changed(s) == old[s] # new[s] /\ new[s] # "none" /\ info # NoInfo /\ info.teams[s] # NotListed
      command(s) == To("referee", [type |-> "card", team |-> info.teams[s], card |-> new[s]])
  IN  CommandsFor(StationOrder, changed, command)

\* push_card_command: dropped when no match info is there yet, or when it
\* does not list the station.  The team is that of the loaded match, 0 at a
\* station without one.
CardCommands(old, new, info) ==
  LET changed(s) == old[s] # new[s] /\ info # NoInfo /\ info.teams[s] # NotListed
      command(s) == To("referee", [type |-> "card", team |-> info.teams[s], card |-> new[s]])
  IN  CommandsFor(StationOrder, changed, command)

\* push_auto_tower_commands, push_endgame_tower_commands
TowerCommands(a, type, climb) ==
  LET called(p) == climb[p] # "unspecified"
      command(p) == To(a, [type |-> type, position |-> p, status |-> climb[p]])
  IN  CommandsFor(PositionOrder, called, command)

\* Faults: every submitted call is sent again, or only its first submission.
AutoSubmitted(old, new) == new.autoSubmitted
AutoFirstSubmitted(old, new) == new.autoSubmitted /\ ~old.autoSubmitted

AutoChanged(old, new) ==
  new.autoSubmitted /\ <<new.autoSubmitted, new.autoClimb>> # <<old.autoSubmitted, old.autoClimb>>
EndgameChanged(old, new) ==
  new.endgameSubmitted
    /\ <<new.endgameSubmitted, new.endgameClimb>> # <<old.endgameSubmitted, old.endgameClimb>>

\* push_alliance_climb_commands: near before far, auto before endgame.
ClimbCommands(a, old, new) ==
  LET auto(s) == IF AutoChanged(old[s], new[s])
                 THEN TowerCommands(a, "autoTower", new[s].autoClimb) ELSE <<>>
      endgame(s) == IF EndgameChanged(old[s], new[s])
                    THEN TowerCommands(a, "endgame", new[s].endgameClimb) ELSE <<>>
  IN  auto("near") \o auto("far") \o endgame("near") \o endgame("far")

-----------------------------------------------------------------------------
(* The rest of the server and Cheesy Arena.                                *)

Publish(r) ==
  /\ Len(inbox) < MaxWaiting
  /\ inbox' = Append(inbox, r)
  /\ UNCHANGED <<requests, matchInfo, shutdown, hostOk, engine, chan, closed>>

\* toggle_bypass and commit_and_post: two queues the loop selects from.  At
\* most one request of each kind waits at a time here.
Request(q) ==
  /\ q \notin requests
  /\ requests' = requests \cup {q}
  /\ UNCHANGED <<inbox, matchInfo, shutdown, hostOk, engine, chan, closed>>

ReportMatch(i) ==
  /\ matchInfo' = i
  /\ i # matchInfo
  /\ UNCHANGED <<inbox, requests, shutdown, hostOk, engine, chan, closed>>

\* A connected panel task takes the next command.
Take(c) ==
  /\ c \notin closed
  /\ chan[c] # <<>>
  /\ chan' = [chan EXCEPT ![c] = Tail(@)]
  /\ UNCHANGED <<env, engine, closed>>

NotifyShutdown ==
  /\ ~shutdown
  /\ shutdown' = TRUE
  /\ UNCHANGED <<inbox, requests, matchInfo, hostOk, engine, chan, closed>>

\* A panel task ends and drops its receiver, and what the channel held: told to
\* by the broadcast, or because it has no URL to connect to.
ClosePanel(c) ==
  /\ shutdown \/ ~hostOk
  /\ c \notin closed
  /\ closed' = closed \cup {c}
  /\ chan' = [chan EXCEPT ![c] = <<>>]
  /\ UNCHANGED <<env, engine>>

-----------------------------------------------------------------------------
(* The loop of run().                                                      *)

Selecting == pc = "select" /\ outbox = <<>>

OnBypass ==
  /\ Selecting
  /\ \E s \in requests \cap Station :
       /\ outbox' = <<To("referee", [type |-> "toggleBypass", station |-> s])>>
       /\ requests' = requests \ {s}
  /\ UNCHANGED <<inbox, matchInfo, shutdown, hostOk, pc, hand, trackers, chan, closed>>

OnCommit ==
  /\ Selecting
  /\ "commit" \in requests
  /\ outbox' = <<To("referee", [type |-> "commitAndPost"]), To("red", [type |-> "commitMatch"]),
                 To("blue", [type |-> "commitMatch"])>>
  /\ requests' = requests \ {"commit"}
  /\ UNCHANGED <<inbox, matchInfo, shutdown, hostOk, pc, hand, trackers, chan, closed>>

\* A record of another match resets every tracker first (reset_trackers);
\* then a changed field state is signalled.
OnRecord ==
  LET r == Head(inbox)
      other == currentMatch # r.match
      field == IF other THEN "match" ELSE lastField
  IN  /\ Selecting
      /\ inbox # <<>>
      /\ inbox' = Tail(inbox)
      /\ rec' = r /\ before' = rec
      /\ currentMatch' = r.match
      /\ lastSent' = IF other THEN [fouls |-> NoFouls, cards |-> NoCards] ELSE lastSent
      /\ ledger' = IF other THEN [a \in Alliance |-> <<>>] ELSE ledger
      /\ prev' = IF other THEN NoPanels ELSE prev
      /\ lastField' = r.hr.field
      /\ outbox' = IF r.hr.field # field THEN FieldCommand(r.hr.field) ELSE <<>>
      /\ pc' = "relay"
      /\ UNCHANGED <<requests, matchInfo, shutdown, hostOk, chan, closed>>

\* The field signal is sent (or was dropped): diff the combined state.
StartDiff ==
  /\ pc = "relay" /\ outbox = <<>>
  /\ pc' = "fouls"
  /\ UNCHANGED <<env, hand, trackers, outbox, chan, closed>>

Settled(a, k) == lastSent.fouls[a][k] = CombinedFouls(rec)[a][k]

\* One turn of a loop in push_foul_deltas.
AdjustFoul(i) ==
  LET a == FoulOrder[i][1]
      k == FoulOrder[i][2]
      sent == lastSent.fouls[a][k]
      at == LastOf(ledger[a], k)
      push(body) == outbox' = Append(outbox, To("referee", body))
  IN  /\ pc = "fouls"
      /\ ~Settled(a, k)
      /\ \A j \in 1..(i - 1) : Settled(FoulOrder[j][1], FoulOrder[j][2])
      /\ \/ /\ sent < CombinedFouls(rec)[a][k]
            /\ lastSent' = [lastSent EXCEPT !.fouls[a][k] = sent + 1]
            /\ ledger' = [ledger EXCEPT ![a] = Append(@, k)]
            /\ push([type |-> "addFoul", alliance |-> a, kind |-> k])
         \/ /\ sent > CombinedFouls(rec)[a][k]
            /\ lastSent' = [lastSent EXCEPT !.fouls[a][k] = sent - 1]
            /\ IF PositionsOf(ledger[a], k) = {}
               THEN UNCHANGED <<ledger, outbox>>
               ELSE /\ ledger' = [ledger EXCEPT ![a] = Without(@, at)]
                    /\ push([type |-> "deleteFoul", alliance |-> a, index |-> WireIndex(at)])
      /\ UNCHANGED <<env, pc, hand, currentMatch, lastField, prev, chan, closed>>

\* Cards and climbs, once the fouls are settled.
FinishDiff ==
  /\ pc = "fouls"
  /\ \A a \in Alliance, k \in Kind : Settled(a, k)
  /\ outbox' = outbox \o CardCommands(lastSent.cards, CombinedCards(rec), matchInfo)
                      \o ClimbCommands("red", prev["red"], ClimbOf(rec)["red"])
                      \o ClimbCommands("blue", prev["blue"], ClimbOf(rec)["blue"])
  /\ lastSent' = [lastSent EXCEPT !.cards = CombinedCards(rec)]
  /\ prev' = ClimbOf(rec)
  /\ pc' = "select"
  /\ UNCHANGED <<env, hand, currentMatch, lastField, ledger, chan, closed>>

\* Fault: a send waits for more than the place it takes.
HasSpareRoom(c) == Len(chan[c]) + 1 < Capacity
HasRoom(c) == Len(chan[c]) < Capacity

\* cmd_tx.send(..).await: waits for room; on a closed channel the rest of the
\* batch for that channel is dropped.
Send ==
  LET c == Head(outbox).to
      elsewhere == {i \in DOMAIN outbox : outbox[i].to # c}
  IN  /\ pc \in {"select", "relay"}
      /\ outbox # <<>>
      /\ \/ /\ c \notin closed
            /\ HasRoom(c)
            /\ chan' = [chan EXCEPT ![c] = Append(@, Head(outbox).body)]
            /\ outbox' = Tail(outbox)
         \/ /\ c \in closed
            /\ outbox' = Kept(outbox, elsewhere)
            /\ UNCHANGED chan
      /\ UNCHANGED <<env, pc, hand, trackers, closed>>

OnShutdown ==
  /\ Selecting
  /\ shutdown
  /\ pc' = "stopped"
  /\ UNCHANGED <<env, hand, trackers, outbox, chan, closed>>

Diff == StartDiff \/ (\E i \in 1..4 : AdjustFoul(i)) \/ FinishDiff

Next ==
  \/ \E r \in Records : Publish(r)
  \/ \E q \in Requests : Request(q)
  \/ \E i \in Infos : ReportMatch(i)
  \/ \E c \in Channel : Take(c) \/ ClosePanel(c)
  \/ NotifyShutdown
  \/ OnBypass \/ OnCommit \/ OnRecord
  \/ Diff \/ Send
  \/ OnShutdown

Spec == Init /\ [][Next]_vars

-----------------------------------------------------------------------------
(* Properties.                                                             *)

FoulCount(fouls, k) == Cardinality(PositionsOf(fouls, k))

TypeOK ==
  /\ inbox \in Seq(Records)
  /\ requests \subseteq Requests
  /\ matchInfo \in Info \cup {NoInfo}
  /\ shutdown \in BOOLEAN /\ hostOk \in BOOLEAN
  /\ pc \in {"select", "relay", "fouls", "stopped"}
  /\ rec \in Record /\ before \in Record
  /\ currentMatch \in Match \cup {NoMatchYet}
  /\ lastField \in FieldState
  /\ lastSent \in [fouls : [Alliance -> [Kind -> Nat]], cards : [Station -> Card]]
  /\ ledger \in [Alliance -> Seq(Kind)]
  /\ prev \in [Alliance -> [Side -> Climb]]
  /\ closed \subseteq Channel

\* The ledger holds, per alliance and kind, as many fouls as last_sent says
\* were sent, through any sequence of corrections, match switches and negative
\* client counts; so rposition always finds the foul to delete and the "out of
\* sync" warning of push_foul_deltas is never reached (sync.rs:217-227).
LedgerMatchesSent ==
  \A a \in Alliance, k \in Kind : FoulCount(ledger[a], k) = lastSent.fouls[a][k]

\* Publishing a record again, as every reconnecting client's resend and every
\* create-on-miss does, sends Cheesy Arena nothing (sync.rs:442, 179-194).
ResendIsSilent ==
  rec = before =>
    \A i \in DOMAIN outbox : outbox[i].body.type \in {"toggleBypass", "commitAndPost", "commitMatch"}
=============================================================================
