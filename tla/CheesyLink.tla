------------------------------ MODULE CheesyLink ------------------------------
(***************************************************************************)
(* The sync engine together with the far end of its channels: the panel     *)
(* tasks that write commands to Cheesy Arena's websockets, and as much of   *)
(* Cheesy Arena as its commands address.  Cheesy Arena is external; it is   *)
(* modelled from how sync.rs and client.rs use it.                          *)
(***************************************************************************)
EXTENDS SyncEngine, SequencesExt

CONSTANTS
  FirstMatch,  \* the match Cheesy Arena has loaded at the start
  MaxLosses,   \* bound: commands lost in a failing websocket write
  MaxRedos,    \* bound: "Discard Results" in Cheesy Arena
  MaxLoads     \* bound: further matches loaded

ASSUME LinkAssumption ==
  /\ FirstMatch \in Match
  /\ MaxLosses \in Nat /\ MaxRedos \in Nat /\ MaxLoads \in Nat

VARIABLES
  loaded,   \* Cheesy Arena's current match
  known,    \* matches loaded so far: clients write under these ids only
  fouls,    \* its foul list of each alliance
  cards,    \* the card it shows for each team
  tower,    \* the auto tower status of each station
  losses, redos, loads

cheesy == <<fouls, cards, tower>>
bounds == <<losses, redos, loads>>
linkVars == <<vars, loaded, known, cheesy, bounds>>

EmptyLists == [a \in Alliance |-> <<>>]
NoTower == [a \in Alliance |-> [p \in Position |-> "unspecified"]]

LinkInit ==
  /\ Init /\ hostOk
  /\ loaded = FirstMatch /\ known = {FirstMatch}
  /\ fouls = EmptyLists
  /\ cards = [t \in Team |-> "none"]
  /\ tower = NoTower
  /\ losses = 0 /\ redos = 0 /\ loads = 0

\* What a command does at the other end; a card of team 0 is nobody's.
Applied(c, m) ==
  /\ fouls' = CASE m.type = "addFoul" -> [fouls EXCEPT ![m.alliance] = Append(@, m.kind)]
                [] m.type = "deleteFoul" /\ m.index < Len(fouls[m.alliance]) ->
                     [fouls EXCEPT ![m.alliance] = RemoveAt(@, m.index + 1)]
                [] OTHER -> fouls
  /\ cards' = IF m.type = "card" /\ m.team \in Team THEN [cards EXCEPT ![m.team] = m.card] ELSE cards
  /\ tower' = IF m.type = "autoTower" THEN [tower EXCEPT ![c][m.position] = m.status] ELSE tower

\* cmd_rx.recv() and write.send(): the command reaches Cheesy Arena ...
Deliver(c) ==
  /\ Take(c)
  /\ Applied(c, Head(chan[c]))
  /\ UNCHANGED <<loaded, known, bounds>>

\* ... or the write fails after the command has left the channel.
Lose(c) ==
  /\ losses < MaxLosses
  /\ losses' = losses + 1
  /\ Take(c)
  /\ UNCHANGED <<loaded, known, cheesy, redos, loads>>

\* A client or the field monitor publishes a record of a match it has seen.
PublishKnown(r) ==
  /\ r.match \in known
  /\ Publish(r)
  /\ UNCHANGED <<loaded, known, cheesy, bounds>>

\* "Discard Results": Cheesy Arena clears the match it is about to replay, and
\* run_field_monitor publishes a default record under the same id.
Redo ==
  /\ redos < MaxRedos
  /\ redos' = redos + 1
  /\ fouls' = EmptyLists
  /\ cards' = [t \in Team |-> "none"]
  /\ tower' = NoTower
  /\ Publish(BlankRecord(loaded))
  /\ UNCHANGED <<loaded, known, losses, loads>>

\* Cheesy Arena loads another match and starts it with empty lists.
Load(m) ==
  /\ loads < MaxLoads
  /\ loads' = loads + 1
  /\ m # loaded
  /\ loaded' = m
  /\ known' = known \cup {m}
  /\ fouls' = EmptyLists
  /\ cards' = [t \in Team |-> "none"]
  /\ tower' = NoTower
  /\ UNCHANGED <<vars, losses, redos>>

\* The field monitor reports the match that is loaded.
Report(i) ==
  /\ i.match = loaded
  /\ ReportMatch(i)
  /\ UNCHANGED <<loaded, known, cheesy, bounds>>

EngineStep ==
  /\ OnBypass \/ OnCommit \/ OnRecord \/ Diff \/ Send
  /\ UNCHANGED <<loaded, known, cheesy, bounds>>

Ask(q) ==
  /\ Request(q)
  /\ UNCHANGED <<loaded, known, cheesy, bounds>>

\* One match, commands that all arrive.
LinkNext ==
  \/ \E r \in Records : PublishKnown(r)
  \/ \E q \in Requests : Ask(q)
  \/ \E c \in Channel : Deliver(c)
  \/ EngineStep

LinkSpec == LinkInit /\ [][LinkNext]_linkVars

\* Besides, commands are lost and matches are replayed and loaded.
DisturbedNext ==
  \/ LinkNext
  \/ \E c \in Channel : Lose(c)
  \/ \E i \in Infos : Report(i)
  \/ \E m \in Match : Load(m)
  \/ Redo

DisturbedSpec == LinkInit /\ [][DisturbedNext]_linkVars

-----------------------------------------------------------------------------
(* Properties.                                                             *)

\* Everything published has been worked off and delivered.
Quiet ==
  /\ inbox = <<>> /\ outbox = <<>> /\ pc = "select"
  /\ \A c \in Channel : chan[c] = <<>>

\* A deleteFoul that reaches Cheesy Arena names a foul of its list (sync.rs:23-27,
\* 420-423: no "deleteFoul commands into an already-empty list").
DeleteHitsAFoul ==
  [][\A c \in Channel :
       Deliver(c) /\ Head(chan[c]).type = "deleteFoul" =>
         Head(chan[c]).index < Len(fouls[Head(chan[c]).alliance])]_linkVars

\* Once everything has been delivered, Cheesy Arena lists exactly the fouls the
\* panels agree on: the highest count any panel reports (sync.rs:59-61).
FoulsShown ==
  Quiet /\ currentMatch # NoMatchYet =>
    \A a \in Alliance, k \in Kind : FoulCount(fouls[a], k) = CombinedFouls(rec)[a][k]

\* ... and each listed team carries the card of the head referee (sync.rs:63-66).
CardsShown ==
  Quiet /\ matchInfo # NoInfo =>
    \A s \in Station : matchInfo.teams[s] \in Team => cards[matchInfo.teams[s]] = rec.hr.cards[s]

\* ... and an auto call both panels of an alliance have submitted alike is the
\* one that counts, in whatever order they got there (sync.rs:95-103).
AgreedClimbShown ==
  Quiet => \A a \in Alliance, p \in Position :
    LET near == rec.panels[a]["near"].climb
        far == rec.panels[a]["far"].climb
        call == near.autoClimb[p]
    IN  near.autoSubmitted /\ far.autoSubmitted /\ far.autoClimb[p] = call /\ call # "unspecified"
          => tower[a][p] = call

\* Said but not so, when a record of an earlier match comes late (no run checks
\* it): sync.rs:420-421: the trackers reset "right along with" Cheesy Arena loading a
\* new match.
ResetOnlyWithLoad ==
  [][currentMatch # NoMatchYet /\ currentMatch' # currentMatch => currentMatch' = loaded]_linkVars
=============================================================================
