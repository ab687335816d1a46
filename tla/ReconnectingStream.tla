-------------------------- MODULE ReconnectingStream --------------------------
(***************************************************************************)
(* The client's one-way streams: a gRPC stream that is opened anew when it   *)
(* fails, ends or falls silent, after a delay that doubles, and the         *)
(* connection state that is reported of it.                                 *)
(*                                                                         *)
(* There are two.  The match info's begins with the match info that is      *)
(* stored, if there is one and it can be read, and then has one whenever     *)
(* Cheesy Arena changes it; it is the one route that repeats nothing.  The health stream, whose connection state    *)
(* the app bar shows, is a heartbeat around a source without events.        *)
(***************************************************************************)
EXTENDS Integers

CONSTANTS
  Routes,      \* the streams that are looked at: "matchInfo", "health"
  MaxDelay,    \* the longest delay: 16 seconds, in units of the first one
  MaxRetries   \* bound: attempts counted; beyond the width of a shift all are alike

ASSUME StreamAssumption ==
  /\ Routes \subseteq {"matchInfo", "health"}
  /\ MaxDelay \in Nat \ {0} /\ MaxRetries \in Nat \ {0}

VARIABLES
  route,      \* which stream this is
  reachable,  \* the server can be reached (the network's state)
  known,      \* a match info is stored and the database answers
  pc,         \* "off", "opening", "open", "waiting" for the retry timer
  alive,      \* of an open stream: "ok", "broken", or "silent" without an error
  tells,      \* a first message is on its way: the match info that is stored
  heard,      \* it has delivered something
  armed,      \* the liveness timer is running
  connected,  \* the reported state
  retries,    \* _retryCount
  delay,      \* the delay that was last chosen
  closed      \* close() has been called

vars == <<route, reachable, known, pc, alive, tells, heard, armed, connected, retries, delay, closed>>

Init ==
  /\ route \in Routes
  /\ reachable \in BOOLEAN
  /\ known \in BOOLEAN
  /\ pc = "off" /\ alive = "ok" /\ tells = FALSE /\ heard = FALSE /\ armed = FALSE
  /\ connected = FALSE /\ retries = 0 /\ delay = 1 /\ closed = FALSE

\* The network comes and goes; an open stream breaks with it or falls silent.
Network ==
  /\ reachable' = ~reachable
  /\ alive' \in (IF reachable /\ pc = "open" /\ alive = "ok" THEN {"broken", "silent"} ELSE {alive})
  /\ UNCHANGED <<route, known, pc, tells, heard, armed, connected, retries, delay, closed>>

\* Cheesy Arena is reached for the first time, or the database fails and recovers.
Database ==
  /\ known' = ~known
  /\ UNCHANGED <<route, reachable, pc, alive, tells, heard, armed, connected, retries, delay, closed>>

\* A single stream is wedged while the network is fine.
Wedge ==
  /\ pc = "open" /\ alive = "ok"
  /\ alive' = "silent"
  /\ UNCHANGED <<route, reachable, known, pc, tells, heard, armed, connected, retries, delay, closed>>

\* 1 << n where it is compiled to JavaScript: a shift by more than 31 places is
\* zero.  (What exceeds every delay is capped, to stay within TLC's integers.)
Shifted(n) == IF n > 31 THEN 0 ELSE IF n > 29 THEN 2^29 ELSE 2^n
Clamp(n) == IF n < 1 THEN 1 ELSE IF n > MaxDelay THEN MaxDelay ELSE n

\* _scheduleReconnect: cancels the subscription and both timers.
ScheduleReconnect ==
  /\ pc' = "waiting" /\ armed' = FALSE
  /\ alive' = "ok" /\ tells' = FALSE /\ heard' = FALSE
  /\ delay' = Clamp(Shifted(retries))
  /\ retries' = IF retries < MaxRetries THEN retries + 1 ELSE retries

Listen ==
  /\ pc = "off" /\ ~closed
  /\ pc' = "opening"
  /\ UNCHANGED <<route, reachable, known, alive, tells, heard, armed, connected, retries, delay, closed>>

\* _createStream() has returned: the call has begun, whether or not there is a
\* server.  Nothing looks at closed here.
Opened ==
  /\ pc = "opening"
  /\ pc' = "open" /\ heard' = FALSE /\ armed' = TRUE
  /\ alive' \in (IF reachable THEN {"ok"} ELSE {"broken", "silent"})
  /\ tells' = (route = "matchInfo" /\ reachable /\ known)
  /\ UNCHANGED <<route, reachable, known, connected, retries, delay, closed>>

OpenFails ==
  /\ pc = "opening" /\ ~reachable
  /\ IF closed THEN pc' = "off" /\ UNCHANGED <<alive, tells, heard, armed, retries, delay>>
               ELSE ScheduleReconnect
  /\ connected' = FALSE
  /\ UNCHANGED <<route, reachable, known, closed>>

\* with_heartbeat polls an empty source, which is ready with its end at once,
\* before the first two seconds are over: it stops, and so does the stream.
HealthEnds ==
  /\ route = "health" /\ pc = "open" /\ alive = "ok"
  /\ alive' = "broken"
  /\ UNCHANGED <<route, reachable, known, pc, tells, heard, armed, connected, retries, delay, closed>>

\* The match info that was read when the stream began, if any, and then each one
\* that is published.
Data ==
  /\ route = "matchInfo" /\ pc = "open" /\ alive = "ok" /\ ~closed
  /\ heard' = TRUE /\ connected' = TRUE /\ retries' = 0 /\ armed' = TRUE
  /\ tells' = FALSE
  /\ UNCHANGED <<route, reachable, known, pc, alive, delay, closed>>

\* Fault: the state is still reported while the next attempt is made.
LostUnreported ==
  /\ pc = "open" /\ alive = "broken" /\ ~closed
  /\ ScheduleReconnect
  /\ UNCHANGED <<route, reachable, known, connected, closed>>

\* onError and onDone.
Lost ==
  /\ pc = "open" /\ alive = "broken" /\ ~closed
  /\ ScheduleReconnect
  /\ connected' = FALSE
  /\ UNCHANGED <<route, reachable, known, closed>>

\* _handleStaleConnection, when nothing has come for eight seconds: from a
\* stream that is silent, or of a match info that has not changed or that there
\* is none of.
Stale ==
  /\ armed /\ pc = "open" /\ ~closed
  /\ alive = "silent" \/ (alive = "ok" /\ route = "matchInfo" /\ ~tells)
  /\ ScheduleReconnect
  /\ connected' = FALSE
  /\ UNCHANGED <<route, reachable, known, closed>>

Retry ==
  /\ pc = "waiting"
  /\ pc' = "opening"
  /\ UNCHANGED <<route, reachable, known, alive, tells, heard, armed, connected, retries, delay, closed>>

\* close() cancels the timers and the subscription there is; a stream that is
\* being opened comes after it.
Close ==
  /\ ~closed
  /\ closed' = TRUE /\ connected' = FALSE /\ armed' = FALSE
  /\ pc' = IF pc = "opening" THEN pc ELSE "off"
  /\ alive' = "ok" /\ tells' = FALSE /\ heard' = FALSE
  /\ UNCHANGED <<route, reachable, known, retries, delay>>

Client == Opened \/ OpenFails \/ HealthEnds \/ Data \/ Lost \/ Stale \/ Retry
Next == Network \/ Database \/ Wedge \/ Listen \/ Client \/ Close

\* Timers fire, the event loop turns and what a stream has read when it began
\* arrives while it is well; nothing is assumed of what is published later.
Progress ==
  /\ WF_vars(Listen) /\ WF_vars(Opened \/ OpenFails) /\ WF_vars(Retry)
  /\ WF_vars(HealthEnds) /\ WF_vars(Lost) /\ WF_vars(~(alive = "ok" /\ heard) /\ Stale)
  /\ WF_vars(tells /\ Data)

Spec == Init /\ [][Next]_vars
FairSpec == Spec /\ Progress

-----------------------------------------------------------------------------
(* Properties.                                                             *)

\* A stream that has broken or fallen silent is noticed, and while the server is
\* reached, streams hold and a stored match info can be read, the match info is
\* there time and again (reconnecting_stream.dart:27-32, 123-133).  A database
\* without one has the client reconnect for ever, without ever being connected.
Steady == reachable /\ ~closed /\ alive # "silent"
OutageIsNoticed ==
  /\ (connected /\ alive # "ok") ~> ~connected
  /\ route = "matchInfo" /\ <>[](Steady /\ known) => []<>connected

\* "it's an always-empty source with everything coming from the heartbeat tick's
\* resync" (health/api.rs:25-27): while the server is reached the health stream,
\* too, is connected.
HealthIsReported == route = "health" /\ <>[]Steady => []<>connected

\* Two more that the code does not keep (no run checks them).
\* "The server heartbeats at least every HEARTBEAT_INTERVAL on every stream it
\* serves" (reconnecting_stream.dart:27): only a stream that has failed is
\* given up.
OnlyFailuresReconnect == [][pc = "open" /\ pc' = "waiting" => alive # "ok"]_vars

\* "Exponential backoff: 1s, 2s, 4s, 8s... up to maxRetryDelay"
\* (reconnecting_stream.dart:141): while nothing is heard, the delay never
\* goes down.
BackoffGrows ==
  [][retries' > retries => delay' >= (IF retries = 0 THEN 1 ELSE delay)]_vars
=============================================================================
