------------------------------ MODULE PanelLink ------------------------------
(***************************************************************************)
(* The sync engine with the three tasks that take its commands to Cheesy    *)
(* Arena (run_authenticated_panel): log in, connect, relay commands until   *)
(* the connection drops, wait and start over.                               *)
(*                                                                         *)
(* Connecting, waiting for a command and backing off are awaited together   *)
(* with the shutdown broadcast.  The login and the write of a command are   *)
(* not, and neither has a timeout.                                          *)
(*                                                                         *)
(* This module says when SyncEngine's Take and ClosePanel happen; that it   *)
(* adds nothing to them is the property ImplementsEngine.                   *)
(***************************************************************************)
EXTENDS SyncEngine

CONSTANTS
  Unreliable,  \* the channels whose connections and writes may fail
  Slow         \* the largest back-off delay, 10 seconds

ASSUME PanelAssumption == Unreliable \subseteq Channel /\ Slow \in Nat \ {0}

VARIABLES
  link,   \* where each panel task stands
  delay   \* its next back-off delay, in seconds

LinkState == {"login", "connecting", "up", "writing", "backoff", "ended"}
panelVars == <<vars, link, delay>>

PanelInit ==
  /\ Init
  /\ link = [c \in Channel |-> "login"]
  /\ delay = [c \in Channel |-> 1]

Moves(c, from, to) == link[c] = from /\ link' = [link EXCEPT ![c] = to]

-----------------------------------------------------------------------------
(* One panel task.                                                         *)

\* login() returns; without a cookie the task connects all the same.
LoggedIn(c) ==
  /\ hostOk
  /\ Moves(c, "login", "connecting")
  /\ UNCHANGED <<vars, delay>>

Connects(c) ==
  /\ Moves(c, "connecting", "up")
  /\ delay' = [delay EXCEPT ![c] = 1]
  /\ UNCHANGED vars

ConnectFails(c) ==
  /\ c \in Unreliable
  /\ Moves(c, "connecting", "backoff")
  /\ UNCHANGED <<vars, delay>>

\* cmd_rx.recv() took a command; it is out of the channel before it is written.
Relay(c) ==
  /\ Moves(c, "up", "writing")
  /\ Take(c)
  /\ UNCHANGED delay

Written(c) ==
  /\ Moves(c, "writing", "up")
  /\ UNCHANGED <<vars, delay>>

\* Fault: a failing write ends the task.
WriteFailsReturns(c) ==
  /\ c \in Unreliable
  /\ Moves(c, "writing", "ended")
  /\ closed' = closed \cup {c}
  /\ chan' = [chan EXCEPT ![c] = <<>>]
  /\ UNCHANGED <<env, engine, delay>>

\* The write failed and the command with it: nothing puts it back.
WriteFails(c) ==
  /\ c \in Unreliable
  /\ Moves(c, "writing", "backoff")
  /\ UNCHANGED <<vars, delay>>

\* Cheesy Arena closes the connection, or reading from it fails.
Disconnected(c) ==
  /\ c \in Unreliable
  /\ Moves(c, "up", "backoff")
  /\ UNCHANGED <<vars, delay>>

\* Fault: the back-off has no limit.
DoubledForever(d) == 2 * d
Doubled(d) == IF 2 * d < Slow THEN 2 * d ELSE Slow

Retry(c) ==
  /\ Moves(c, "backoff", "login")
  /\ delay' = [delay EXCEPT ![c] = Doubled(@)]
  /\ UNCHANGED vars

Ends(c) ==
  /\ link' = [link EXCEPT ![c] = "ended"]
  /\ closed' = closed \cup {c}
  /\ chan' = [chan EXCEPT ![c] = <<>>]
  /\ UNCHANGED <<env, engine, delay>>

\* After the login: the configured host makes no URL, and the task returns for good.
NoUrl(c) ==
  /\ ~hostOk
  /\ link[c] = "login"
  /\ Ends(c)

\* Fault: only a connected panel listens to the shutdown broadcast.
PanelShutdownWhenUp(c) ==
  /\ shutdown
  /\ link[c] = "up"
  /\ Ends(c)

PanelShutdown(c) ==
  /\ shutdown
  /\ link[c] \in {"connecting", "up", "backoff"}
  /\ Ends(c)

\* The sync engine has returned and dropped its senders.
EngineGone(c) ==
  /\ pc = "stopped"
  /\ link[c] = "up" /\ chan[c] = <<>>
  /\ Ends(c)

PanelTask(c) ==
  \/ LoggedIn(c) \/ NoUrl(c) \/ Connects(c) \/ ConnectFails(c)
  \/ Relay(c) \/ Written(c) \/ WriteFails(c) \/ Disconnected(c)
  \/ Retry(c) \/ PanelShutdown(c) \/ EngineGone(c)

EngineTask ==
  /\ OnBypass \/ OnCommit \/ OnRecord \/ Diff \/ Send \/ OnShutdown
  /\ UNCHANGED <<link, delay>>

Others ==
  /\ \/ \E r \in Records : Publish(r)
     \/ \E q \in Requests : Request(q)
     \/ \E i \in Infos : ReportMatch(i)
     \/ NotifyShutdown
  /\ UNCHANGED <<link, delay>>

PanelNext == (\E c \in Channel : PanelTask(c)) \/ EngineTask \/ Others

\* Tasks are scheduled, and select! picks among its ready branches at random:
\* a branch that is ready again and again is taken in the end.  (Weak fairness
\* is assumed where it is enough for the properties.)
TasksRun ==
  /\ WF_panelVars(Diff /\ UNCHANGED <<link, delay>>)
  /\ WF_panelVars(Send /\ UNCHANGED <<link, delay>>)
  /\ SF_panelVars(OnRecord /\ UNCHANGED <<link, delay>>)
  /\ SF_panelVars(OnShutdown /\ UNCHANGED <<link, delay>>)
  /\ \A c \in Unreliable : WF_panelVars(Retry(c)) /\ SF_panelVars(PanelShutdown(c))
  /\ \A c \in Channel \ Unreliable : WF_panelVars(PanelShutdown(c))

PanelSpec == PanelInit /\ [][PanelNext]_panelVars
FairPanelSpec == PanelSpec /\ TasksRun

\* What only Cheesy Arena and the network can give: an answer, good or bad, to
\* every login and every write, and
Answers ==
  \A c \in Channel : WF_panelVars(LoggedIn(c) \/ NoUrl(c) \/ Written(c) \/ WriteFails(c))
\* ... and connections that come up again and again and are up for long enough
\* to take a command, however often they break.
Reachable ==
  /\ \A c \in Unreliable : SF_panelVars(Connects(c)) /\ SF_panelVars(Relay(c))
  /\ \A c \in Channel \ Unreliable : WF_panelVars(Connects(c)) /\ WF_panelVars(Relay(c))

-----------------------------------------------------------------------------
(* Properties.                                                             *)

PanelTypeOK ==
  /\ TypeOK
  /\ link \in [Channel -> LinkState]
  /\ delay \in [Channel -> 1..Slow]

\* The panel tasks do to the engine's channels what SyncEngine allows: they
\* take commands, and drop a channel only after the shutdown broadcast or when
\* the host makes no URL, so that with a host that does the engine throws no
\* command away while the server runs, whatever breaks.
ImplementsEngine == Spec

\* After the shutdown broadcast the engine and all panel tasks return, even
\* when a full channel blocks the engine and no connection ever comes up: the
\* panels go first and their dropped receivers release it.  It takes a Cheesy
\* Arena that answers logins and writes (client.rs:606, 644).
ShutdownStopsAll ==
  Answers => (shutdown ~> pc = "stopped" /\ closed = Channel)

\* While connections come up again, every published record is worked off, no
\* matter how often they break and which requests compete with it.  With a host
\* that makes no URL they are worked off into dropped channels.
RecordsAreHandled ==
  Answers /\ Reachable => (inbox # <<>> ~> inbox = <<>> \/ shutdown)
=============================================================================
