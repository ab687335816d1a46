----------------------------- MODULE PanelStream -----------------------------
(***************************************************************************)
(* The outgoing half of the streams that show a client the match: the       *)
(* referee panel's, the head referee's and the FMS API's match info.        *)
(*                                                                         *)
(* A panel's stream subscribes to the event bus, reads where things stand   *)
(* from the database and then serves its events, each of which may take     *)
(* further reads; with_heartbeat wraps it, drops a value equal to the last  *)
(* one and, at each tick, reads everything again on the side, without       *)
(* touching the copies the event branch holds.  The FMS API's stream reads  *)
(* first, subscribes then and has no heartbeat.                             *)
(*                                                                         *)
(* The writers are what ArenaRepository and FieldMonitor model: they store  *)
(* first and publish later, and a publication may come late, out of order   *)
(* or never.  What a panel entered is the number of the write; the head     *)
(* referee's presence is Presence's, and that a reader creates and          *)
(* announces the record it misses is ArenaRepository's.  A database error   *)
(* is not passed on: what was to be read is taken for missing.              *)
(***************************************************************************)
EXTENDS FiniteSets, Integers, Sequences

CONSTANTS
  Match,      \* match ids
  Idle,       \* match 0, of the default match info
  Panel,      \* the panel types that have a slot in the record
  Partner,    \* the panel across the field, per panel
  Type,       \* the panel types the client of this stream may take
  Unset,      \* no panel type yet, no publication under way
  MaxInfos,   \* bound, per API: reports of the field monitor
  MaxWrites,  \* bound, per API: writes of records
  MaxMoves,   \* bound: panel types a client sends
  MaxFaults   \* bound: errors, lost publications, lost connections

\* The APIs a stream can belong to.
Route == {"referee", "head", "fms"}

ASSUME StreamAssumption ==
  /\ Idle \in Match
  /\ Partner \in [Panel -> Panel] /\ Type \subseteq Panel
  /\ Unset \notin Panel /\ Unset \notin [match : Match, rev : Nat]
  /\ MaxInfos \in [Route -> Nat] /\ MaxWrites \in [Route -> Nat]
  /\ MaxMoves \in Nat /\ MaxFaults \in Nat

Info == [match : Match, rev : Nat]
Calls == [Panel -> Nat]
Record == [match : Match, calls : Calls]
Response == [info : Info, calls : Calls, rotation : Nat]

NoCalls == [p \in Panel |-> 0]
DefaultInfo == [match |-> Idle, rev |-> 0]

VARIABLES
  stored,       \* the current match info in the database
  reporting,    \* a match info that is persisted and not yet published
  records,      \* per match, the number of the last write to each panel's slot
  completed,    \* completed matches, which give the rotation
  unpublished,  \* records stored and not yet published
  owner,        \* the match each write was for (history)
  route,        \* which API the stream belongs to
  pc,           \* where the event branch stands
  fmsRx,        \* its queue of match infos
  stateRx,      \* its queue of records
  fms,          \* its copy of the match info
  state,        \* its copy of the record
  rotation,     \* its copy of the rotation
  panel,        \* its copy of the panel type
  watch,        \* the panel type the client last sent, and whether it is news
  closed,       \* the incoming task has ended and dropped its sender
  resync,       \* where a heartbeat's resync stands
  fresh,        \* the match info and the record it has read
  last,         \* the value with_heartbeat compares with
  shown,        \* the last response the client received
  infos, writes, moves, faults   \* bounds

env == <<stored, reporting, records, completed, unpublished, owner, infos, writes>>
copies == <<fms, state, rotation, panel>>
wire == <<last, shown>>
heart == <<resync, fresh>>
client == <<watch, closed, moves>>
vars == <<env, route, pc, fmsRx, stateRx, copies, client, heart, wire, faults>>

Nothing == [info |-> DefaultInfo, calls |-> NoCalls, rotation |-> 0]
NoRecord == [match |-> Idle, calls |-> NoCalls]
NoWatch == [panel |-> Unset, news |-> FALSE]

Init ==
  /\ stored = DefaultInfo /\ reporting = Unset
  /\ records = [m \in Match |-> NoCalls]
  /\ completed = {} /\ unpublished = {}
  /\ owner = <<>>
  /\ route \in Route
  /\ pc = "open"
  /\ fmsRx = <<>> /\ stateRx = <<>>
  /\ fms = DefaultInfo /\ state = NoRecord /\ rotation = 0 /\ panel = Unset
  /\ watch = NoWatch /\ closed = FALSE
  /\ resync = "off" /\ fresh = [info |-> DefaultInfo, state |-> NoRecord]
  /\ last = Unset /\ shown = Nothing
  /\ infos = 0 /\ writes = 0 /\ moves = 0 /\ faults = 0

-----------------------------------------------------------------------------
(* The writers and the bus.                                                *)

CanFail == faults < MaxFaults
Subscribed == pc \notin {"open", "unsubscribed"}

\* publish_match_info: persists, and publishes whether or not that worked.
Persist(m) ==
  LET info == [match |-> m, rev |-> infos + 1]
  IN  /\ reporting = Unset /\ infos < MaxInfos[route]
      /\ infos' = infos + 1
      /\ reporting' = info
      /\ \/ stored' = info /\ UNCHANGED faults
         \/ CanFail /\ faults' = faults + 1 /\ UNCHANGED stored
      /\ UNCHANGED <<records, completed, unpublished, owner, writes, route, pc, fmsRx, stateRx,
                     copies, client, heart, wire>>

Announce ==
  /\ reporting # Unset
  /\ reporting' = Unset
  /\ fmsRx' = IF Subscribed THEN Append(fmsRx, reporting) ELSE fmsRx
  /\ UNCHANGED <<stored, records, completed, unpublished, owner, infos, writes, route, pc, stateRx,
                 copies, client, heart, wire, faults>>

\* update_match_state stores a record: of a panel, or of a completed match.
Write(m) ==
  /\ writes < MaxWrites[route]
  /\ writes' = writes + 1
  /\ owner' = Append(owner, m)
  /\ \/ \E p \in Panel : records' = [records EXCEPT ![m][p] = writes + 1] /\ UNCHANGED completed
     \/ completed' = completed \cup {m} /\ UNCHANGED records
  /\ unpublished' = unpublished \cup {[match |-> m, calls |-> records'[m]]}
  /\ UNCHANGED <<stored, reporting, infos, route, pc, fmsRx, stateRx, copies, client, heart, wire,
                 faults>>

\* Its publication, unless the task that stored it is gone by then.
Publish(r) ==
  /\ unpublished' = unpublished \ {r}
  /\ \/ stateRx' = (IF Subscribed /\ route # "fms" THEN Append(stateRx, r) ELSE stateRx)
        /\ UNCHANGED faults
     \/ CanFail /\ faults' = faults + 1 /\ UNCHANGED stateRx
  /\ UNCHANGED <<stored, reporting, records, completed, owner, infos, writes, route, pc, fmsRx,
                 copies, client, heart, wire>>

-----------------------------------------------------------------------------
(* The client's side: messages on the request stream, and its connection.   *)

\* A message names the panel type; the incoming task passes it on.
SendPanel(p) ==
  /\ route = "referee" /\ ~closed /\ moves < MaxMoves
  /\ moves' = moves + 1
  /\ watch' = [panel |-> p, news |-> TRUE]
  /\ UNCHANGED <<env, route, pc, fmsRx, stateRx, copies, closed, heart, wire, faults>>

\* The incoming task ends on an error while responses still flow.
HalfClose ==
  /\ route = "referee" /\ ~closed /\ CanFail
  /\ faults' = faults + 1
  /\ closed' = TRUE
  /\ UNCHANGED <<env, route, pc, fmsRx, stateRx, copies, watch, moves, heart, wire>>

\* The connection is lost and the client opens a new stream: nothing of the old
\* one is kept but what the client shows.
Reconnect ==
  /\ CanFail /\ pc # "open"
  /\ faults' = faults + 1
  /\ pc' = "open"
  /\ fmsRx' = <<>> /\ stateRx' = <<>>
  /\ fms' = DefaultInfo /\ state' = NoRecord /\ rotation' = 0 /\ panel' = Unset
  /\ watch' = [panel |-> watch.panel, news |-> watch.panel # Unset] /\ closed' = FALSE
  /\ resync' = "off" /\ fresh' = [info |-> DefaultInfo, state |-> NoRecord]
  /\ last' = Unset
  /\ UNCHANGED <<env, route, moves, shown>>

-----------------------------------------------------------------------------
(* Reading and showing.                                                    *)

\* A read that ends with the value, or fails and ends with what stands for it.
Read(copy, value, missing) ==
  \/ copy = value /\ UNCHANGED faults
  \/ CanFail /\ faults' = faults + 1 /\ copy = missing

\* Fault: the match that is being played taken for a completed one.
RotationOfFinished == Cardinality(completed) - 1

\* compute_rotation, as far as the streams go: a number derived from the
\* completed matches.
Rotation == Cardinality(completed)

\* partner_panel_state: a panel sees the calls of its partner, the head referee
\* those of all.
Visible(p, type) == route = "head" \/ (route = "referee" /\ type # Unset /\ p = Partner[type])

build_response(info, r, type, rot) ==
  [info |-> info,
   calls |-> [p \in Panel |-> IF Visible(p, type) THEN r.calls[p] ELSE 0],
   rotation |-> rot]

\* A value the event branch yields reaches the client if it is news.
Yield(value) == last' = value /\ shown' = IF last = value THEN shown ELSE value

\* The event branch is polled only while no resync is awaited.
Polled == resync = "off"

-----------------------------------------------------------------------------
(* Opening a stream.                                                       *)

\* The panels' streams subscribe before they read ...
Subscribe ==
  /\ route # "fms" /\ pc = "open"
  /\ pc' = "info"
  /\ UNCHANGED <<env, route, fmsRx, stateRx, copies, client, heart, wire, faults>>

ReadInfo ==
  /\ pc = "info"
  /\ Read(fms', stored, DefaultInfo)
  /\ pc' = "state"
  /\ UNCHANGED <<env, route, fmsRx, stateRx, state, rotation, panel, client, heart, wire>>

\* Fault: the two the other way round.
ReadInitialLast ==
  /\ route = "fms"
  /\ \/ pc = "open" /\ pc' = "subscribed" /\ UNCHANGED <<fms, faults>>
     \/ pc = "subscribed" /\ Read(fms', stored, DefaultInfo) /\ pc' = "first"
  /\ UNCHANGED <<env, route, fmsRx, stateRx, state, rotation, panel, client, heart, wire>>

\* ... the FMS API's reads before it subscribes.
ReadInitial ==
  /\ route = "fms"
  /\ \/ pc = "open" /\ Read(fms', stored, DefaultInfo) /\ pc' = "unsubscribed"
     \/ pc = "unsubscribed" /\ pc' = "first" /\ UNCHANGED <<fms, faults>>
  /\ UNCHANGED <<env, route, fmsRx, stateRx, state, rotation, panel, client, heart, wire>>

\* A database that holds no match info yet is not shown.
FirstInfo ==
  /\ route = "fms" /\ pc = "first"
  /\ shown' = IF fms = DefaultInfo THEN shown ELSE [Nothing EXCEPT !.info = fms]
  /\ pc' = "serve"
  /\ UNCHANGED <<env, route, fmsRx, stateRx, copies, client, heart, last, faults>>

ShowInfo ==
  /\ route = "fms" /\ pc = "serve" /\ fmsRx # <<>>
  /\ fms' = Head(fmsRx)
  /\ fmsRx' = Tail(fmsRx)
  /\ shown' = [Nothing EXCEPT !.info = Head(fmsRx)]
  /\ UNCHANGED <<env, route, pc, stateRx, state, rotation, panel, client, heart, last, faults>>

-----------------------------------------------------------------------------
(* The event branch of a panel's stream.                                   *)

\* get_match_state, with the answer on its way while a resync is awaited.
ReadState ==
  /\ pc = "state"
  /\ Read(state', [match |-> fms.match, calls |-> records[fms.match]],
                  [match |-> fms.match, calls |-> NoCalls])
  /\ pc' = "rotation"
  /\ UNCHANGED <<env, route, fmsRx, stateRx, fms, rotation, panel, client, heart, wire>>

\* compute_rotation (the old value if it fails), and the response that was
\* waiting for it.
YieldResponse ==
  /\ pc = "rotation" /\ Polled
  /\ Read(rotation', Rotation, rotation)
  /\ Yield(build_response(fms, state, panel, rotation'))
  /\ pc' = "serve"
  /\ UNCHANGED <<env, route, fmsRx, stateRx, fms, state, panel, client, heart>>

\* Fault: the record is kept over a change of match.
OnInfoKeeps ==
  /\ route # "fms" /\ pc = "serve" /\ Polled /\ fmsRx # <<>>
  /\ fms' = Head(fmsRx)
  /\ fmsRx' = Tail(fmsRx)
  /\ Yield(build_response(Head(fmsRx), state, panel, rotation))
  /\ UNCHANGED <<env, route, pc, stateRx, state, rotation, panel, client, heart, faults>>

\* A match info: shown at once, or, of a new match, when its record is read.
OnInfo ==
  /\ route # "fms" /\ pc = "serve" /\ Polled /\ fmsRx # <<>>
  /\ fms' = Head(fmsRx)
  /\ fmsRx' = Tail(fmsRx)
  /\ \/ /\ Head(fmsRx).match # fms.match
        /\ pc' = "state"
        /\ UNCHANGED wire
     \/ /\ Head(fmsRx).match = fms.match
        /\ Yield(build_response(Head(fmsRx), state, panel, rotation))
        /\ UNCHANGED pc
  /\ UNCHANGED <<env, route, stateRx, state, rotation, panel, client, heart, faults>>

\* A record counts if it is that of the stream's match.
OnRecord ==
  /\ pc = "serve" /\ Polled /\ stateRx # <<>>
  /\ stateRx' = Tail(stateRx)
  /\ IF Head(stateRx).match = fms.match
     THEN state' = Head(stateRx) /\ pc' = "rotation"
     ELSE UNCHANGED <<state, pc>>
  /\ UNCHANGED <<env, route, fmsRx, fms, rotation, panel, client, heart, wire, faults>>

\* panel_type_rx.changed(): at once, and with an error, when the sender is gone.
OnPanel ==
  /\ route = "referee" /\ pc = "serve" /\ Polled
  /\ watch.news \/ closed
  /\ watch' = [watch EXCEPT !.news = FALSE]
  /\ panel' = watch.panel
  /\ Yield(build_response(fms, state, watch.panel, rotation))
  /\ UNCHANGED <<env, route, pc, fmsRx, stateRx, fms, state, rotation, closed, moves, heart, faults>>

-----------------------------------------------------------------------------
(* The heartbeat.                                                          *)

Tick ==
  /\ route # "fms" /\ last # Unset /\ Polled
  /\ resync' = "info"
  /\ UNCHANGED <<env, route, pc, fmsRx, stateRx, copies, client, fresh, wire, faults>>

ResyncInfo ==
  /\ resync = "info"
  /\ Read(fresh', [info |-> stored, state |-> NoRecord], [info |-> DefaultInfo, state |-> NoRecord])
  /\ resync' = "state"
  /\ UNCHANGED <<env, route, pc, fmsRx, stateRx, copies, client, wire>>

ResyncState ==
  /\ resync = "state"
  /\ Read(fresh', [fresh EXCEPT !.state = [match |-> fresh.info.match, calls |-> records[fresh.info.match]]],
                  fresh)
  /\ resync' = "yield"
  /\ UNCHANGED <<env, route, pc, fmsRx, stateRx, copies, client, wire>>

\* Fault: a tick that only says the last value again.
BeatLast ==
  /\ resync = "yield"
  /\ shown' = last /\ UNCHANGED last
  /\ fresh' = [info |-> DefaultInfo, state |-> NoRecord]
  /\ resync' = "off"
  /\ UNCHANGED <<env, route, pc, fmsRx, stateRx, copies, client, faults>>

\* A tick is sent whether or not it is news.
Beat ==
  /\ resync = "yield"
  /\ \E rot \in {Rotation, 0} :
       /\ Read(rot, Rotation, 0)
       /\ last' = build_response(fresh.info, fresh.state, watch.panel, rot)
  /\ shown' = last'
  /\ fresh' = [info |-> DefaultInfo, state |-> NoRecord]
  /\ resync' = "off"
  /\ UNCHANGED <<env, route, pc, fmsRx, stateRx, copies, client>>

-----------------------------------------------------------------------------
Environment ==
  \/ \E m \in Match : Persist(m) \/ Write(m)
  \/ Announce
  \/ \E r \in unpublished : Publish(r)
  \/ \E p \in Type : SendPanel(p)
  \/ HalfClose
  \/ Reconnect

Opening == Subscribe \/ ReadInfo \/ ReadInitial \/ FirstInfo
Resync == ResyncInfo \/ ResyncState \/ Beat

Next ==
  \/ Environment
  \/ Opening
  \/ ReadState
  \/ YieldResponse
  \/ OnInfo
  \/ OnRecord
  \/ OnPanel
  \/ ShowInfo
  \/ Tick
  \/ Resync

\* tokio runs the stream's task as long as somebody reads the responses; select!
\* picks at random among the branches that are ready, the ticker among them.
Progress ==
  /\ WF_vars(Opening) /\ WF_vars(ReadState) /\ WF_vars(Resync) /\ WF_vars(ShowInfo)
  /\ SF_vars(YieldResponse) /\ SF_vars(OnInfo) /\ SF_vars(OnRecord) /\ SF_vars(OnPanel)
  /\ SF_vars(Tick)

Spec == Init /\ [][Next]_vars
FairSpec == Spec /\ Progress

-----------------------------------------------------------------------------
(* Properties.                                                             *)

TypeOK ==
  /\ stored \in Info /\ reporting \in Info \cup {Unset}
  /\ records \in [Match -> Calls]
  /\ completed \subseteq Match
  /\ unpublished \subseteq Record
  /\ owner \in Seq(Match) /\ Len(owner) = writes
  /\ route \in Route
  /\ pc \in {"open", "info", "state", "rotation", "serve", "unsubscribed", "first"}
  /\ fmsRx \in Seq(Info) /\ stateRx \in Seq(Record)
  /\ fms \in Info /\ state \in Record /\ rotation \in Nat /\ panel \in Panel \cup {Unset}
  /\ watch \in [panel : Panel \cup {Unset}, news : BOOLEAN] /\ closed \in BOOLEAN
  /\ resync \in {"off", "info", "state", "yield"}
  /\ fresh \in [info : Info, state : Record]
  /\ last \in Response \cup {Unset} /\ shown \in Response
  /\ infos \in Nat /\ writes \in Nat /\ moves \in Nat /\ faults \in Nat

\* A client is never shown, under one match, what a referee entered for another
\* one: not when matches change between the reads of a stream, when a record of
\* the old match is still queued, nor when a tick overtakes the event branch
\* (referee_panel/api.rs:113-138, head_referee/api.rs:93-118).
ShownOfItsMatch ==
  \A p \in Panel : shown.calls[p] # 0 => owner[shown.calls[p]] = shown.info.match

\* Once nothing is written any more, a panel's stream shows what is stored and
\* keeps showing it, whatever publication was lost, late or overtaken and
\* whichever reads failed before (events.rs:109-111: "a periodic tick is still
\* correct even if every prior event was somehow missed").
Stored == build_response(stored, [match |-> stored.match, calls |-> records[stored.match]],
                         watch.panel, Rotation)
ShowsWhatIsStored == route # "fms" => <>[](shown = Stored \/ closed)

\* Once the FMS API's stream, which reads before it subscribes, has shown its
\* first match info, it never shows an older one after a newer one
\* (fms/api.rs:37-49).  Over a reconnect it may: a match info that could not be
\* persisted is published, and the next stream reads the one before it.
InfoNeverGoesBack ==
  [][route = "fms" /\ pc = "serve" => shown'.info.rev >= shown.info.rev]_vars

\* Said but not so (no run checks it): the same when only the incoming task has
\* ended: "only genuine changes and
\* heartbeat ticks reach the client" (events.rs:111-113), so what a tick has
\* repaired stays repaired.
RepairLasts == route # "fms" => <>[](shown = Stored)
=============================================================================
