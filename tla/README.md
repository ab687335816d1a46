# RefLink in TLA+

RefLink connects the referees' tablets at an FRC field with Cheesy Arena, the field
management system. The server (Rust, tokio, tonic) keeps one record per match in Redis,
pushes it to the tablets over gRPC streams, follows Cheesy Arena over websockets and
relays the referees' decisions to it as commands. This directory holds the TLA+ modules
of its concurrent core, on the server and on the tablets, the TLC models that check them
and the TLAPS proofs about them. Paths below are relative to the repository; `cheesy/`
stands for `server/src/modules/fms/cheesy/`.

## The system

| Component | State | Operations | Talks to |
|---|---|---|---|
| match state repository (`arena/repository.rs`) | the `MATCH_STATE` hash and the `completed` index in Redis | read, create on miss, write a panel's, the head referee's or the field state, mark completed, count, rotation | Redis; publishes on the event bus |
| table (`database/src/table.rs`) | Redis keys: records, and index keys beside them | insert, get, get by index, list ids, remove, one by one or in batches | Redis |
| event bus, heartbeat (`core/events.rs`) | one unbounded queue per subscriber | publish, subscribe, `with_heartbeat` | everything |
| referee panel stream (`referee_panel/api.rs`) | `connected_panel`, the stream's copy of match and info | one task consumes messages and writes, one stream yields responses | repository, presence, bus |
| presence (`referee_panel/presence.rs`) | connections per panel | connect, disconnect, snapshot, publish | bus |
| head referee stream (`head_referee/api.rs`) | the stream's copies | as above, and two fire-once requests | repository, presence, bus |
| field monitor (`cheesy/client.rs`) | the accumulator | merge a message, report, complete, reset a redone match, reconnect | Cheesy Arena, repository, bus, a watch channel |
| field status monitor (`cheesy/client.rs`) | the last field signal | write the signal into the record of the reported match | Cheesy Arena, repository, the watch channel |
| sync engine (`cheesy/sync.rs`) | trackers of what was sent, a foul ledger | diff a published record into commands, relay requests | bus; three channels of 64 |
| authenticated panels (`cheesy/client.rs`) | a login, a websocket | relay commands, reconnect with back-off | the channels, Cheesy Arena |
| FMS API (`fms/api.rs`) | a subscription | stored match info, then each published one; no heartbeat | repository, bus |
| health (`health/api.rs`) | none | a heartbeat around an empty source | |
| shutdown, wiring, scheduler (`core/`) | a broadcast | end all tasks | everything |
| one-way client streams (`client/lib/helpers/reconnecting_stream.dart`) | a subscription, two timers, a retry count, the reported connection | open, receive, give up, retry, close | match info and health routes |
| panel providers (`client/lib/providers/*_panel_provider.dart`, `panel_id_provider.dart`, `reconnecting_bidirectional_stream.dart`) | what was entered, the match it is for, both in local storage; a connection | log in and out, edit and send the whole state, reset on a new match, restore, reconnect and announce | the panel routes |
| auto climb column (`client/lib/views/referee/auto_phase_layout/auto_climb_column.dart`) | the partner's call last reacted to | tap, adopt the partner's call | the panel provider |

What is hard here: every write is a read-modify-write over awaits that nothing
serialises; an event is published some time after the write it tells of; several
tasks follow the same match at different speeds (the monitors, the engine,
each client); commands are fire-once diffs against what was sent before; links
come and go, with or without an error; an edit is never acknowledged, so the tablet
has to know when to send it again; and a match may be replayed under the same id.

What makes the parts correct: the repository must not lose or misplace what a
referee entered nor forget that a match was played; what Cheesy Arena shows must
be what the referees agree on once everything has been delivered; a redo starts
clean; a client sees what is stored, and never one match's calls under another; the
head referee sees which panels are there; what a referee entered reaches the record
of its match and no other, over outages and restarts; a shutdown ends all tasks.

## Modules

| Module | Models | Of it |
|---|---|---|
| `ArenaRepository` | `arena/repository.rs`, the callers in the streams and the monitors | the calls of any number of tasks, interleaved at every await; failures, cancellation, restart |
| `MatchStore` | what the repository's comments promise | the abstract specification: one atomic step per call |
| `Table` | `table.rs` | its calls command by command: pipelines that break off, scans that are no snapshot, lifetimes |
| `SyncEngine` | `cheesy/sync.rs` | the select loop, the diffs, sends on bounded channels, shutdown |
| `PanelLink` | `run_authenticated_panel` | extends `SyncEngine` by the tasks that take its commands; refines it |
| `CheesyLink` | as much of Cheesy Arena as the commands address | extends `SyncEngine` by delivery, loss, redo, load |
| `Presence` | `presence.rs`, the streams' use of it, `events.rs` | counts, torn snapshots, publication, subscription, heartbeat |
| `FieldMonitor` | `run_field_monitor`, its accumulator, and the field status monitor's write | completion and redo detection against a replaying, reconnecting Cheesy Arena |
| `PanelStream` | the outgoing halves of the panel, head referee and match info streams, `with_heartbeat` | the copies a stream holds, its queues, reads that fail, ticks that read on the side |
| `PanelClient` | the referee's panel provider, its storage, `reconnecting_bidirectional_stream.dart` | logins, edits, resets, restores and announcements over outages, restarts and redos |
| `ReconnectingStream` | `reconnecting_stream.dart`, `health/api.rs` | timers, back-off, the reported connection |
| `*_proofs` of `ArenaRepository`, `Table`, `SyncEngine`, `Presence`, `FieldMonitor`, `PanelStream`, `PanelClient` | | theorems and their proofs |
| `EngineLinks_proofs` | | theorems about `PanelLink` and `CheesyLink` |
| `MC*` | | model values and the sets of records TLC uses |

`PROJECT.json` maps every definition to the lines it models and lists the hazards.

### How state and actions correspond to the code

*ArenaRepository.* `table[m]` is what `get` returns for an id; `pc`, `call` and
`copy` are where a task stands in its call and its locals. `Get`, `Insert` and
`Publish` are the three kinds of await (or the publish that follows one) in
`get_match_state` and `update_match_state`; the first miss goes through `create`,
`announceNew` and `reget`. `Updated` is what each call does to the record between
its read and its write, without an await. Fouls, cards, votes and climb calls are
opaque entries; what the calls treat differently (the completed flag, field state,
warning, deadline, the slot) is kept. `Persisted` is the encoding that reads as
missing: a default record of match 0. The index key and the data key are set in
one step here (`Table` takes the pipeline apart); an error that
is returned although Redis has done the write is a `Fault` after `Insert`.
`seen[m]` is the last event a subscriber has received.

*Table.* A key is a pair of an id and a slot, `Data` or an index. `present`, `mortal`
and `bytes` are Redis: which keys there are, which have a lifetime and what the data
keys hold; a record that encodes to no bytes reads as missing. An insert is one step,
since nothing of it depends on a reply; when the connection breaks it, or a deletion,
leaves a prefix of its pipeline (`IsPrefix`: a data key only behind its index keys).
A scan takes two steps, and in between `sure` loses the keys that go and `maybe` gains
those that come: it returns all of `sure` and any of `maybe`. A broken connection ends
every call, for all share one connection. `promised`, `written` and `steady` are
history variables.

*SyncEngine.* One action per branch of the select. The branch for a record is
worked off in steps (`OnRecord`, `StartDiff`, `AdjustFoul` per foul, `FinishDiff`)
because its sends may wait; the task's variables are private, so only the sends
interleave with others. `outbox` holds commands built and not yet accepted. A station
that is listed without a team has team number 0, and a card for it is sent with that number;
`NotListed` is a station the match info does not name. `hostOk` says whether the configured
host makes a URL: if not, the panel tasks return at once. `before` is a history variable.

*PanelLink.* `link[c]` is where a panel task stands in `run_authenticated_panel`.
`Relay` is the engine's `Take` together with the start of the write, whose failure
loses the command. Shutdown is listened for while connecting, while relaying and in the back-off,
not during the login or a write. `delay` doubles up to its limit. A task that ends,
at the shutdown or because its host makes no URL (`NoUrl`), drops its receiver (`ClosePanel`).

*CheesyLink.* `Deliver` is a panel task that takes a command and writes it;
`Lose` takes it and fails. `fouls`, `cards` and `tower` are Cheesy Arena's, as
the command types of `messages.rs` address them: `deleteFoul` by position from
zero. Cheesy Arena is external and modelled from how the code uses it.

*Presence.* A stream's incoming task is a small program: leave the old panel,
publish, join the new, publish. A snapshot reads its four (here two) panels one
by one, since the map locks per entry. A viewer subscribes, reads, and then
serves its queue; while a resync reads, the event stream is not polled, as in
`with_heartbeat`. `raced` records that two publications overlapped.

*FieldMonitor.* `arena` is Cheesy Arena's match; `Turn` announces a change in an
arenaStatus or a matchTime message. `Process` is `process_field_message`; its effects
are awaited one by one afterwards (`Report`, `MarkRead`/`MarkWrite`, `Reset`), and
`StatusRead`/`StatusWrite` may come between. A completion, a reset or a status write
that fails is logged and forgotten (`MarkFails`, `ResetFails`, `StatusFails`). Teleop
stands for every state the two tasks do not ask about. `played`, `finished`, `credit`,
`redo` and `gap` are history variables that say what Cheesy Arena did.

*PanelStream.* `env` is the database and the publications: a match info is persisted
and then published, a record is stored and published later, out of order or never.
`pc` is where the event branch stands, `fms`, `state`, `rotation` and `panel` are its
copies, `fmsRx` and `stateRx` its queues. `Read` gives what is stored or, on an error, the value the
code falls back to. The resync of a tick reads on the side into `fresh`; meanwhile the
event branch is not polled (`Polled`). Calls are the numbers of the writes that made
them, so that `owner` can say which match each was for. The three routes share the
module; `route` never changes.

*PanelClient.* What was entered is the set of the edits that are in it, `Blank` is a
request without a state. "waiting" stands for idle and pre-match, "playing" for every
later phase. The stream and the provider of its responses (`shown`) exist from the splash page on;
`RefereePanel` (`matchId`, `state`) is built by `Login`, from what is shown by then, and
is gone with `Logout` and `Restart`. The server is reduced to the match that is on (`arena`), the
panels' slots (`slot`), a task per stream that takes up requests and writes them in a
read and a write (`TakeUp`, `Finish`), calls of others that write back what they read
(`OtherReads`, `OtherWrites`), and a stream that tells its events in order (`news`) or, with a tick,
what is stored ahead of them (`Heartbeat`), which is what `PanelStream` shows; a read that
fails tells the default. `link` is what the client believes, `stream` what is true. When a
stream ends, the server's task for it may still work off some of what was under way
(`late`). The listener of a response runs before the response goes to storage: the app may
be killed in between (`unsaved`). `made`, `told`, `wiped`, `carried` and `strayed` are
history variables; the last names edits that were in storage while the match changed and
nobody was logged in.

*ReconnectingStream.* `pc` is where the client stands, `alive` what the open stream is
worth. `ScheduleReconnect` is the one place where the timers are cancelled and the delay
is chosen. `Shifted` is the shift as it is compiled to JavaScript, the client being
built for the web too. `known` says whether a match info is stored and can be read when
a stream opens, which then has it to tell (`tells`). `HealthEnds` is `with_heartbeat`
around an empty source.

Operators marked as faults (`HeadAfterNotSticky`, `LastOfAny`, ...) are plausible
bugs of the definition they precede; putting one in its place must break the
property it is paired with in `PROJECT.json`.

## Runs

| Run (module, cfg) | Shows | Bounds |
|---|---|---|
| `races` (`MCArenaRepository`, `ArenaRepository_races`) | under any interleaving, with a failed call or a restart: a warning and its deadline are never separated, what completes is counted, entries reach their slot, match 0 stays empty, the rotation counts down and wraps around | 3 matches and match 0, two panel streams, the head referee, a viewer, both monitors; any 2 distinct calls, or one call and the completion of all three matches, each by any of its tasks any number of times; 2 entries, a failure or a restart, one second; 1.4 million states |
| `serial` (`ArenaRepository_serial`) | without overlap: refines `MatchStore`, subscribers are up to date | one match and match 0, one panel, the other callers as above, 3 distinct calls, two entries, one second; 214 000 states |
| `link` (`MCPanelLink`, `PanelLink_link`) | the panel tasks refine `SyncEngine`; all tasks end at shutdown; records are worked off | the referee panel's connection breaks at will, the others' do not; channels of 1, a delay of at most 2, the request of one station, a host that makes a URL or none; 72 000 states |
| `deliver` (`MCCheesyLink`, `CheesyLink_deliver`) | ledger and counters agree, repeated records are silent; fouls, cards and agreed climb calls arrive; `deleteFoul` always hits | 12 records of one match, negative counts among them; three stations, of which one lists a team, one team 0 and one is not listed; channels of 1; commits in between; 1.7 million states |
| `presence` (`MCPresence`, `Presence_reconnect`) | counts, views, repair by heartbeat | 2 connections, 2 panels and another type, 1 viewer |
| `follow` (`MCFieldMonitor`, `FieldMonitor_follow`) | the report is current, only played matches complete, only replayed ones are reset, and of each of those the reset is begun | 2 matches and idle, two announcements under way, one unanswered replay per match; drops, restarts and failing writes at will; 11.6 million states |
| `redo` (`FieldMonitor_redo`, violation) | a redone match keeps its old entries | as above, one announcement under way |
| `table` (`MCTable`, `Table_races`) | stored records are indexed, removals are complete, answers are complete | 2 ids, 2 indexes, 2 clients, batches of 2, 3 calls, one broken connection; 2.3 million states |
| `shows` (`MCPanelStream`, `PanelStream_shows`) | a client never sees one match's calls under another, and in the end sees what is stored | 2 matches, 2 panels, one fault; the panel's stream with a match info, a write and a panel type that is sent, the head referee's with a match info and two writes, the FMS API's with three match infos; 639 000 states |
| `settles` (`MCPanelClient`, `PanelClient_settles`) | entries stay with their match, a waiting panel is blank; the last thing the server took up is what the panel shows, and that is the match that is on | any match loaded at the start; 2 panel types, one edit, 2 loads, starts, redos or calls of others, one fault or restart, 2 logins; 4.1 million states |
| `watch` (`MCReconnectingStream`, `ReconnectingStream_watch`) | an outage is noticed, and the match info comes back | both routes, outages without limit, a match info stored or not, a limit of 16 s, retry counts up to 34; 3 300 states |
| `health` (`ReconnectingStream_health`, violation) | the health stream never reports a connection | as above, the health route |

Why the bounds are enough. The races of the repository are between two calls on one
record; each of the two may be repeated, before, between and after, by its own task or
by another of its kind, and three tasks may be busy with them at once. With rotations of
two, the completion of three matches passes zero and the wrap-around; disabled rotations
are left to the theorem `RotationIsCountdown`. Channels of one place are full as often
as possible, and only one unreliable connection is needed for the engine to wait on one
panel while the others work. Two connections suffice for every pairwise overlap of
joins, leaves and snapshots. With two announcements under way Cheesy Arena is ahead of
the monitor by two changes of state, which coalesce or not, and the effects of a message
take several steps during which it goes on. Two clients on two ids with two indexes give
the table every pairing of an insert, a removal and a search, and a batch of two a
pipeline that can break between ids and between indexes. What is stored at the start and
one match info are an old and a new value; two writes let one publication of a record
overtake the other, which is run on the head referee's stream, whose event branch is the
panel's but for the panel type; a second fault only repeats the first for what a stream
ends up with, since each is repaired from the same stored values. In `PanelClient` every
match and phase is a possible start, so two turns are any two consecutive changes of the
match that is on: a start and a redo, or a redo and a load. Two logins are one before
and one after a change that nobody saw. 34 retries are past the width of a shift. What a
theorem covers (below) does not depend on these bounds at all.

`CHECK_DEADLOCK FALSE` appears where the modelled part really stops: when all tasks
have ended at a shutdown (`link`), when the calls, writes or turns of the bound are used
up (`table`, `shows`, `settles`), and when a stream has been closed (`watch`, `health`).

### Fairness

`PanelLink!TasksRun`: a task with work in hand, or with a send that has room, is
scheduled by tokio (weak fairness); `select!` picks at random among ready branches, so
a branch that is ready again and again is taken (strong fairness, for records, the
shutdown and a panel task that is sometimes in a state in which it listens). Logins and
writes have no timeout in the code (`client.rs:606`, `644`), so that they return is no
fairness of the program; `Answers` is a premise of the liveness properties instead, and
`Reachable`, that connections come up again and again, one of `RecordsAreHandled`.

`PanelStream!Progress`: the stream's task runs while somebody reads the responses;
`select!` serves its ready branches and the ticker. `Presence!FairSpec`: the ticker fires
and a resync reads on; nothing is assumed of connections or events.

`PanelClient!Progress`: timers fire, the task of a stream that lives works off its
requests, the server repeats itself; nothing is assumed of the referee, the match or the
network, whose faults are bounded. `ReconnectingStream!Progress`: timers fire, an open
call returns or fails, an end or error reaches the subscription, and a stream that is
well delivers what it has read at its start; that the network holds (`Steady`) and that
there is a match info to read (`known`) are premises of `OutageIsNoticed`. Without a
stored match info the stream tells nothing (`fms/api.rs:37`), and the client opens it
anew every eight seconds and more, without ever being connected.

### What the violations show

1. `redo`: a field signal, or the report published just before the reset, has woken the field
   status monitor; its read-modify-write straddles the reset and restores the entries.
2. `health`: `with_heartbeat` ends with its source, and the health route's source is
   empty. The stream ends before its first tick, so `isConnected` is never true.

Said in the repository and not so, without a run of their own. The definitions are in
the modules; TLC finds each violated in a few minutes at most under the cfg named, with
the change named:

| Definition | Cfg | What happens |
|---|---|---|
| `SubscribersUpToDate` | `ArenaRepository_races`, no faults | two writers store in one order and publish in the other; the engine relays the older state until the next change (`sync.rs:101`) |
| `ResetOnlyWithLoad` of `CheesyLink` | `CheesyLink_deliver` with `DisturbedSpec`, records of two matches, `MaxLoads = 1` | a panel that still writes under the old id makes the engine reset its trackers (`sync.rs:420`) |
| `EstimateAtPost` of `FieldMonitor` | `FieldMonitor_follow` | `completed_match_id` keeps the id of a redone match, which gets no estimate and is not completed again (`client.rs:120`) |
| `RepairLasts` of `PanelStream` | `PanelStream_shows` | after the incoming task has ended a repaired value is replaced by the stream's old copy until the next tick (`events.rs:111`) |
| `OnlyFailuresReconnect` of `ReconnectingStream` | `ReconnectingStream_watch` | the match info route has no heartbeat: eight seconds without a change and the client gives the stream up (`reconnecting_stream.dart:27`) |
| `BackoffGrows` of `ReconnectingStream` | `ReconnectingStream_watch` | beyond 31 attempts the delay is one second again (`reconnecting_stream.dart:141`) |
| `DiscardedIsReset` of `FieldMonitor` | `FieldMonitor_follow` | a reset that fails in the database is only logged, and what armed it is cleared (`client.rs:144`, `391`) |
| `RedoStartsClean` of `PanelClient` | `PanelClient_settles` | an edit under way when the record is wiped is written after the wipe, and the panel's own reset sends no state (`client.rs:143`) |

Besides: a referee who logs in while a match is played gets what storage holds of
whichever match was entered last, and it is sent under the new id
(`referee_panel_provider.dart:82`, against its comment at 96): the exception in
`EntriesOfTheirMatch` is this case. The head referee's provider does not send again on a
new connection (`reconnecting_bidirectional_stream.dart:12`). Comments in `sync.rs:263`
and in the client call `field_state` one-way, which `repository.rs:83` has given up.
`DeleteHitsAFoul` fails when `Lose` or `Redo` is allowed: a command lost in a failing
write is not sent again, and a redo leaves the trackers as they were. `CardsShown` takes
that no team is listed at two stations, which nothing in `client.rs` checks: `sync.rs`
would send that team both stations' cards. `InfoNeverGoesBack` holds on one connection
only: a match info that could not be persisted is published all the same, and a client
that reconnects reads the one before it (`client.rs:325`, `fms/api.rs:37`). The
bidirectional stream sets `_retryCount` to zero with each connection, which succeeds
without a server, so that its delay stays at a second.

## Proofs

tlapm checks the following for every value of the constants, from the assumptions
the modules name (`MatchAssumption`, `AbsentAssumption` and `BoundsAssumption`;
`PresenceAssumption`; `SyncAssumption`, `PanelAssumption`, `LinkAssumption`;
`TableAssumption`; `MonitorAssumption`; `StreamAssumption`; `ClientAssumption`).

- `ArenaRepository_proofs`. `TypeCorrect` and `WarningKeepsDeadline` from
  `WarningInv == TypeOK /\ WarningHasDeadline`: a head state that keeps the old deadline is
  one only if the old one had a deadline, and the invariant speaks of copies in flight
  and published records as well, because a stale copy becomes the table's record.
  `IdleMatchHasNoRecord` and `CompletedMatchesAreCounted` from `IndexInv`: a call for match 0
  never holds anything but a default record and never gets as far as a changed copy,
  since that takes a hit; and the index names existing records only.
  `EntriesReachTheirSlot` from `EntriesInv`: what the table holds, what copies hold and the
  call a task executes all come from calls that were issued. `RotationIsCountdown`: the
  index grows by at most one match a step, and lemmas on division with remainder say
  what that does to the rotation. `SerialImplementsStore`: the refinement of `MatchStore`,
  with failures and restarts, from an invariant that says that a copy which is about to be written
  is the record it was read from with one part changed. `SerialKeepsSubscribers`: without
  failures, what was announced last is what is stored.
- `Presence_proofs`. `CountsAreRight`: in each step the set of holders of a panel gains or
  loses exactly the task that moves (cardinality lemmas), and a holder that leaves was
  counted, so the saturating subtraction never saturates. `EventsAreEnough`, from
  `EventsInv`: while no count has changed under a publish, one task at most has something to
  tell, it tells what is so, and a viewer's newest event or its view is the actual
  availability whenever nobody has. Publications that overlap (`raced`) are excluded: after
  those only the heartbeat puts a view right.
- `SyncEngine_proofs`. `LedgerIsRight`: `LedgerMatchesSent` is inductive relative to
  `TypeOK`. The last foul of a kind exists if there is one, an added foul counts once, and
  taking out position `i` keeps the others (a bijection). The combined counts start at
  zero and only grow while they are merged, so a counter that is decremented was
  positive and the ledger has a foul of that kind. `ResendsAreSilent`, from `ResendInv`:
  between two records the trackers are those of the record in hand, and before the first
  one those of a blank record, which is what a reset makes of them; so an equal record
  finds nothing to adjust whether or not it is taken for one of another match. Lemmas say
  what the walks over cards and climbs send: one command for each change, and no other.
- `EngineLinks_proofs`, panel tasks. `PanelsImplementEngine`: each step of the panel tasks
  is a step of `SyncEngine` or leaves its variables alone, the return on a host without a URL
  included; `LedgerIsRightWithPanels` follows by
  the refinement. `PanelTypeCorrect`: the back-off stays within its limits.
- `EngineLinks_proofs`, Cheesy Arena. `LedgerIsRightDisturbed`: lost commands, redos and
  match loads do not disturb the ledger, whatever Cheesy Arena's own list has become.
  For one match with commands that all arrive, the four properties of delivery rest on one
  notion: `Pending`, the commands in a channel and then those in the outbox lead, step by
  step of a relation, from what Cheesy Arena has to what the engine believes. Sending
  moves a command from the second part to the first, delivery takes the first step, and each
  turn of the engine adds commands together with the change they stand for. For fouls
  (`FoulsInv`) the relation demands that a foul to delete is there, and the end is the
  ledger: `FoulsArrive` and `DeletesHit`. For cards (`CardsInv`) the end carries
  what was last sent, and a station without a command had its card already:
  `CardsArrive`, provided no team is listed twice (`TeamsOnce`). For climbs
  (`TowersInv`) a panel that changed its calls sends them all, so whichever speaks last
  repeats a call both have made: `AgreedClimbsArrive`.
- `Table_proofs`, from `Inv == TypeOK /\ CallInv` and, on top of it, `PromiseInv` and
  `ScanInv`. `RecordsAreIndexed`: a data key goes in behind its index keys and out before or
  with them. `RemovalIsComplete`: what is neither among the keys of a removal nor written
  meanwhile was gone when the scan began. `AnswersAreComplete`: a record listed throughout
  stays in `sure` for every scan, and its key in what was found.
- `FieldMonitor_proofs`, from `MonitorInv == TypeOK /\ PlayedInv /\ ToldInv`. `ReportIsCurrent`:
  what the accumulator, the message on the way and the effects under way say together is
  what Cheesy Arena last announced. `CompletedMatchesWerePlayed`: a message that makes the
  monitor check for completion carries the match and its state together. `ResetsAreOwed` and
  `RedosAreNoticed`, from `ResetInv`: there is a course of the accumulator along the queue
  (a witness, since how messages combine is not a function of the last one) that ends
  in what Cheesy Arena has, in which every reset is paid for by a replay, and which holds
  a reset for each replay still owed. It is the attempt that is proved: whether the write
  succeeds is the database's.
- `PanelStream_proofs`, from an invariant with one conjunct for each place a call can be
  in: in a record (`RecordsEntered`), on its way, in a queue, in a copy, in what a tick
  has read, or shown. `CallsAreOfTheirMatch` follows. `InfosOnlyAdvance`, from `FmsInv`:
  the queue is in the order of the reports and nothing in it is older than what the
  client has: the stream reads storage before it subscribes (`fms/api.rs:37`), and a report is
  stored before it is published, so what the queue takes is no older than what was read.
- `PanelClient_proofs`, from `ClientInv`. Storage holds edits of the last response's match, of the
  last stored response's too, or strays, or nothing; what the provider shows was taken from it
  or entered for that match; a request, on the stream or with the task of an earlier one, carries
  edits of its own match; so does a record, and what any call has read of it. `RecordsHoldTheirMatch` and `WaitingPanelsAreBlank` follow.

Each of these invariants was checked by TLC on the run of its property before it was
proved. Every safety invariant and every action property the passing runs check is
stated by a theorem.

Only model-checked: the liveness properties `ShutdownStopsAll`, `RecordsAreHandled`,
`HeartbeatRepairs`, `ShowsWhatIsStored`, `LatestIsTold`, `FollowsMatch` and
`OutageIsNoticed`. Liveness under fairness and what a recursive definition computes are
beyond the prover. `SyncEngine` picks its commands with `Kept`, which is `SelectSeq` without the
recursion, for that reason.

## Not modelled

The head referee's provider: it is built when a widget first asks for it, and whether its
listener hears a change while no widget watches it is decided by Riverpod, a library. The same
holds of the referee's provider after a logout, which the model takes to be gone until the
next login; a request it still sends then names no panel, and changes no slot
(`OtherReads`, `OtherWrites`).

The client's widgets, routing, settings and the column that lets one panel adopt
the other's climb calls; the scheduler, whose jobs have no implementor;
configuration, logging, the wire formats and generated code. In the modelled parts: the
mapping of listed teams to stations (formatting), the station data and the phase that
`map_match_phase` computes, the connection status event (nothing stores it and no
client opens its route), the accept loop and `with_shutdown`, the cached signal of the field
status monitor (any signal is possible instead), and a panel type that is none of the
four in `update_panel_state`, which writes the record back as it was. The shutdown is
modelled from `ShutdownNotifier::notify` on; nothing in the repository calls that today
(`server.rs:28` is commented out). The client's one-sided failures, an upstream that is
wedged while responses keep coming, are left out: nothing in the client notices them.

## Plan

What is left, in the order of importance: the four delivery properties over a load of
another match, for which the trackers' reset and Cheesy Arena's have to meet; the agreement of
the two panels' climb calls; the field status monitor's cached signal composed with the
head referee's, the engine and Cheesy Arena.
