----------------------------- MODULE PanelClient -----------------------------
(***************************************************************************)
(* A referee's tablet: the provider that owns what its referee has entered, *)
(* its local storage, and the bidirectional stream that is opened anew when *)
(* it breaks or falls silent.                                               *)
(*                                                                         *)
(* The stream and the provider of its responses run from the splash page    *)
(* on; the provider of the entries is built when somebody logs in as a      *)
(* panel, with what the responses say by then.  The panel is the only place *)
(* that knows what its referee entered: the server sends back the match and *)
(* its phase, never the panel's own state.  Each edit sends the whole state;*)
(* sending does not buffer, and what is under way when a stream ends may be *)
(* lost, or may still be written by the server's task for that stream while *)
(* the next stream is already open.                                         *)
(*                                                                         *)
(* The server's side is what the other modules show: a stream tells its     *)
(* events in order, and a tick tells what is stored ahead of events that    *)
(* are still queued (PanelStream); a write reads the record, waits, and     *)
(* writes back all of it, or fails without an answer (ArenaRepository).     *)
(***************************************************************************)
EXTENDS FiniteSets, Integers, Sequences

CONSTANTS
  Match,      \* match ids
  Idle,       \* match 0, of a default response
  Panel,      \* panel types
  Out,        \* nobody is logged in
  MaxEdits,   \* bound: what a referee enters
  MaxTurns,   \* bound: loads, starts and redos of a match, calls of other tablets
  MaxFaults,  \* bound: broken or silent streams, failed reads, restarts of the app
  MaxLogins   \* bound: logins

ASSUME ClientAssumption ==
  /\ Idle \in Match /\ Out \notin Panel
  /\ MaxEdits \in Nat /\ MaxTurns \in Nat /\ MaxFaults \in Nat /\ MaxLogins \in Nat

\* What a response says of the match; "waiting" stands for idle and pre-match,
\* "playing" for every later phase.
Phase == {"waiting", "playing"}
Shown == [match : Match, phase : Phase]
DefaultShown == [match |-> Idle, phase |-> "waiting"]
Blank == {0}   \* no state: nothing entered yet, and none in the request

VARIABLES
  arena,       \* the match of the server and its phase
  slot,        \* per match and panel, what the record holds
  other,       \* another panel's write under way: the record as it was read, or none
  panel,       \* the panel type logged in, or Out
  shown,       \* the last response
  matchId,     \* the match the panel enters for
  state,       \* what has been entered
  saved,       \* the entered state in local storage
  savedShown,  \* the last response in local storage
  unsaved,     \* the last response is not in local storage yet
  link,        \* what the client believes: "up", or "down" until the retry timer fires
  armed,       \* the liveness timer is running
  stream,      \* what the stream is: "new" until its first response, "open",
               \* "broken", or "silent" without an error
  sent,        \* requests under way on it, the first perhaps being written
  late,        \* per earlier stream, the requests that its task still writes
  news,        \* responses under way, oldest first
  made,        \* per edit, the match and the panel it was made for (history)
  told,        \* the last request the stream's task has taken up (history)
  wiped,       \* edits that a redo has taken out of a record (history)
  carried,     \* edits taken along to another panel type (history)
  strayed,     \* edits in storage while the match changed unseen (history)
  turns, faults, logins  \* bounds

arenaVars == <<arena, turns, wiped>>
provider == <<panel, shown, matchId, state, saved, savedShown, unsaved, made, carried, strayed, logins>>
wire == <<link, armed, stream, sent, late, news, told>>
vars == <<arenaVars, slot, other, provider, wire, faults>>

\* The app is started for the first time, whatever the server has loaded.
Init ==
  /\ arena \in Shown /\ slot = [m \in Match |-> [p \in Panel |-> {}]] /\ other = {}
  /\ panel = Out /\ shown = DefaultShown /\ matchId = Idle /\ state = Blank
  /\ saved = Blank /\ savedShown = DefaultShown /\ unsaved = FALSE
  /\ link = "down" /\ armed = FALSE /\ stream = "broken"
  /\ sent = <<>> /\ late = <<>> /\ news = <<>>
  /\ made = <<>> /\ told = {} /\ wiped = {} /\ carried = {} /\ strayed = {}
  /\ turns = 0 /\ faults = 0 /\ logins = 0

-----------------------------------------------------------------------------
(* The match.                                                              *)

Alive == stream \in {"new", "open"}
CanFail == faults < MaxFaults

\* The match changes, and an open stream has one more event to tell.
Turn(next) ==
  /\ turns < MaxTurns
  /\ turns' = turns + 1
  /\ arena' = next
  /\ news' = IF Alive THEN Append(news, next) ELSE news
  /\ UNCHANGED <<other, provider, link, armed, stream, sent, late, told, faults>>

Load(m) ==
  /\ m # arena.match
  /\ Turn([match |-> m, phase |-> "waiting"])
  /\ UNCHANGED <<slot, wiped>>

Start ==
  /\ arena.phase = "waiting"
  /\ Turn([arena EXCEPT !.phase = "playing"])
  /\ UNCHANGED <<slot, wiped>>

\* The match is to be played again under its id: the field monitor reports it
\* waiting and resets its record.  (Match 0, a test match, it only reports.)
Redo ==
  /\ arena.phase = "playing" /\ arena.match # Idle
  /\ Turn([arena EXCEPT !.phase = "waiting"])
  /\ wiped' = wiped \cup UNION {slot[arena.match][p] : p \in Panel}
  /\ slot' = [slot EXCEPT ![arena.match] = [p \in Panel |-> {}]]

-----------------------------------------------------------------------------
(* The server's tasks.  A request carries the record as the task has read   *)
(* it: nothing, until the task takes the request up.                        *)

Saying(m, p, s) == [match |-> m, panel |-> p, state |-> s, read |-> {}]
Begun(request) == request.read # {}

\* The task of a stream, which has these requests left, takes the first up; a
\* request without a state writes nothing.
TakenUp(requests) ==
  LET r == Head(requests)
  IN  IF r.state = Blank THEN Tail(requests)
      ELSE <<[r EXCEPT !.read = {slot[r.match]}]>> \o Tail(requests)

\* It writes the record it has read, with its own slot changed; or the call
\* fails, which is only logged.
Written(r, record) == [record EXCEPT ![r.panel] = r.state]
Finished(r) ==
  \/ /\ \E record \in r.read : slot' = [slot EXCEPT ![r.match] = Written(r, record)]
     /\ UNCHANGED faults
  \/ CanFail /\ faults' = faults + 1 /\ UNCHANGED slot

TakeUp ==
  /\ Alive /\ sent # <<>> /\ ~Begun(Head(sent))
  /\ sent' = TakenUp(sent)
  /\ told' = {Head(sent)}
  /\ UNCHANGED <<arenaVars, slot, other, provider, link, armed, stream, late, news, faults>>

Finish ==
  /\ Alive /\ sent # <<>> /\ Begun(Head(sent))
  /\ Finished(Head(sent))
  /\ sent' = Tail(sent)
  /\ UNCHANGED <<arenaVars, other, provider, link, armed, stream, late, news, told>>

TakeUpLate(i) ==
  /\ late[i] # <<>> /\ ~Begun(Head(late[i]))
  /\ late' = [late EXCEPT ![i] = TakenUp(late[i])]
  /\ UNCHANGED <<arenaVars, slot, other, provider, link, armed, stream, sent, news, told, faults>>

FinishLate(i) ==
  /\ late[i] # <<>> /\ Begun(Head(late[i]))
  /\ Finished(Head(late[i]))
  /\ late' = [late EXCEPT ![i] = Tail(late[i])]
  /\ UNCHANGED <<arenaVars, other, provider, link, armed, stream, sent, news, told>>

\* A write of any other tablet, or of this one when nobody is logged in: the
\* slots of the record that are looked at here are written as they were read.
OtherReads(m) ==
  /\ other = {} /\ turns < MaxTurns
  /\ turns' = turns + 1
  /\ other' = {[match |-> m, record |-> slot[m]]}
  /\ UNCHANGED <<arena, wiped, slot, provider, wire, faults>>

OtherWrites ==
  /\ \E w \in other : slot' = [slot EXCEPT ![w.match] = w.record]
  /\ other' = {}
  /\ UNCHANGED <<arenaVars, provider, wire, faults>>

-----------------------------------------------------------------------------
(* The stream.                                                             *)

\* send() is ignored while the connection is down.
Send(request) == sent' = IF link = "up" THEN Append(sent, request) ELSE sent

\* Fault: a new connection starts with nothing.
AnnouncedNothing(m, p, s) == <<>>

\* onConnected, which the first login sets: the panel sends its state.
Announced(m, p, s) == IF p = Out THEN <<>> ELSE <<Saying(m, p, s)>>

\* A connection is good, or breaks or falls silent before its first response.
\* The first response tells where things stand, or, when that cannot be read,
\* the default.
Reached ==
  \/ stream' = "new" /\ news' = <<arena>> /\ UNCHANGED faults
  \/ /\ CanFail /\ faults' = faults + 1
     /\ \/ stream' = "new" /\ news' = <<DefaultShown>>
        \/ stream' \in {"broken", "silent"} /\ news' = <<>>

\* Fault: the liveness timer waits for the first response.
ConnectedUnwatched == link' = "up" /\ armed' = FALSE /\ Reached

\* _ensureConnected succeeds at once; whether there is a server shows later.
Connected == link' = "up" /\ armed' = TRUE /\ Reached

Connect ==
  /\ link = "down" /\ ~unsaved
  /\ Connected
  /\ sent' = Announced(matchId, panel, state)
  /\ told' = {}
  /\ UNCHANGED <<arenaVars, slot, other, provider, late>>

\* What the server's task had received before the stream ended it still writes.
Abandon ==
  \E n \in 0..Len(sent) :
    late' = IF n = 0 THEN late ELSE Append(late, SubSeq(sent, 1, n))

\* _handleDisconnect: closes the stream and starts the retry timer.
HandleDisconnect ==
  /\ link = "up" /\ ~unsaved
  /\ link' = "down" /\ armed' = FALSE /\ stream' = "broken"
  /\ Abandon
  /\ sent' = <<>> /\ news' = <<>>
  /\ UNCHANGED <<arenaVars, slot, other, provider, told>>

Disconnect == stream = "broken" /\ HandleDisconnect /\ UNCHANGED faults

\* The liveness timer: nothing for eight seconds, although the server repeats
\* itself every two (a slow network may do that to an open stream as well).
Stale ==
  /\ armed
  /\ HandleDisconnect
  /\ \/ stream = "silent" /\ UNCHANGED faults
     \/ Alive /\ CanFail /\ faults' = faults + 1

Fail ==
  /\ Alive /\ CanFail
  /\ faults' = faults + 1
  /\ stream' \in {"broken", "silent"}
  /\ UNCHANGED <<arenaVars, slot, other, provider, link, armed, sent, late, news, told>>

-----------------------------------------------------------------------------
(* The providers.                                                          *)

\* Fault: only another match id resets a panel.
ResetsOnMatchOnly(old, new) == old.match # new.match

\* What the listener of the responses takes for a new match.
Resets(old, new) ==
  \/ old.match # new.match
  \/ old.phase # new.phase /\ new.phase = "waiting"

\* Without anybody logged in there is no listener: what storage holds stays,
\* although the match it was entered for is over.
Unheard ==
  /\ strayed' = strayed \cup (saved \ Blank)
  /\ UNCHANGED <<matchId, state, saved, sent>>

\* _updateAndSend: what is entered, or its reset, is stored and sent.
UpdateAndSend(m, s) ==
  /\ state' = s /\ saved' = s
  /\ Send(Saying(m, panel, s))

\* Fault: a reset is not stored.
ResetUnstored(m) ==
  /\ matchId' = m /\ state' = Blank
  /\ Send(Saying(m, panel, Blank))
  /\ UNCHANGED <<saved, strayed>>

ResetPanel(m) == matchId' = m /\ UpdateAndSend(m, Blank) /\ UNCHANGED strayed

\* _updateState: the listener runs before the response goes to storage.
TakeResponse(new) ==
  /\ shown' = new /\ unsaved' = TRUE
  /\ \/ ~Resets(shown, new) /\ UNCHANGED <<matchId, state, saved, strayed, sent>>
     \/ Resets(shown, new) /\ panel = Out /\ Unheard
     \/ Resets(shown, new) /\ panel # Out /\ ResetPanel(new.match)
  /\ armed' = TRUE
  /\ UNCHANGED <<arenaVars, slot, other, panel, savedShown, made, carried, logins, link, late, told>>

Receive ==
  /\ Alive /\ ~unsaved /\ news # <<>>
  /\ TakeResponse(Head(news))
  /\ news' = Tail(news) /\ stream' = "open"
  /\ UNCHANGED faults

\* A tick tells what is stored, ahead of the queued events; or the default,
\* when that cannot be read.
Heartbeat ==
  /\ stream = "open" /\ ~unsaved
  /\ \/ TakeResponse(arena) /\ UNCHANGED faults
     \/ CanFail /\ faults' = faults + 1 /\ TakeResponse(DefaultShown)
  /\ UNCHANGED <<news, stream>>

SaveResponse ==
  /\ unsaved
  /\ savedShown' = shown
  /\ unsaved' = FALSE
  /\ UNCHANGED <<arenaVars, slot, other, panel, shown, matchId, state, saved, made, carried, strayed,
                 logins, wire, faults>>

\* The views let a referee enter something while a match is on.
Edit ==
  /\ panel # Out /\ ~unsaved /\ shown.phase = "playing" /\ Len(made) < MaxEdits
  /\ UpdateAndSend(matchId, (state \ Blank) \cup {Len(made) + 1})
  /\ made' = Append(made, [match |-> shown.match, panel |-> panel])
  /\ UNCHANGED <<arenaVars, slot, other, panel, shown, matchId, savedShown, unsaved, carried, strayed, logins,
                 link, armed, stream, late, news, told, faults>>

\* build() trusts the storage only while a match is on.
Restored == IF shown.phase = "waiting" THEN Blank ELSE saved

\* A panel id is entered: the provider is built, and does not touch storage.
Login(p) ==
  /\ panel = Out /\ ~unsaved /\ logins < MaxLogins
  /\ logins' = logins + 1
  /\ panel' = p /\ matchId' = shown.match /\ state' = Restored
  /\ carried' = carried \cup {n \in state' \ Blank : made[n].panel # p}
  /\ Send(Saying(matchId', p, state'))
  /\ UNCHANGED <<arenaVars, slot, other, shown, saved, savedShown, unsaved, made, strayed, link, armed, stream,
                 late, news, told, faults>>

LoggedOut == panel' = Out /\ matchId' = Idle /\ state' = Blank

\* The logout button clears the panel id and leads back to the splash page.
Logout ==
  /\ panel # Out /\ ~unsaved
  /\ LoggedOut
  /\ UNCHANGED <<arenaVars, slot, other, shown, saved, savedShown, unsaved, made, carried, strayed, logins,
                 wire, faults>>

\* The app is killed, between two writes to storage perhaps, and started again
\* with the splash page.
Restart ==
  /\ CanFail
  /\ LoggedOut
  /\ shown' = savedShown /\ unsaved' = FALSE
  /\ link' = "down" /\ armed' = FALSE /\ stream' = "broken"
  /\ Abandon
  /\ sent' = <<>> /\ news' = <<>> /\ told' = {}
  /\ faults' = faults + 1
  /\ UNCHANGED <<arenaVars, slot, other, saved, savedShown, made, carried, strayed, logins>>

-----------------------------------------------------------------------------
Next ==
  \/ \E m \in Match : Load(m)
  \/ Start \/ Redo
  \/ TakeUp \/ Finish
  \/ \E i \in DOMAIN late : TakeUpLate(i) \/ FinishLate(i)
  \/ \E m \in Match : OtherReads(m)
  \/ OtherWrites
  \/ Connect \/ Disconnect \/ Stale \/ Fail
  \/ Receive \/ Heartbeat \/ SaveResponse
  \/ Edit
  \/ \E p \in Panel : Login(p)
  \/ Logout \/ Restart

\* Timers fire and errors arrive, the server's task works off its requests, and
\* the server repeats itself, so that something arrives over a good stream again
\* and again; nothing is assumed of the referee, the match or the faults.
Progress ==
  /\ WF_vars(Connect \/ Disconnect \/ (armed /\ stream = "silent" /\ Stale))
  /\ WF_vars(TakeUp \/ Finish)
  /\ WF_vars(SaveResponse)
  /\ SF_vars(Receive \/ Heartbeat)

Spec == Init /\ [][Next]_vars
FairSpec == Spec /\ Progress

-----------------------------------------------------------------------------
(* Properties.                                                             *)

\* What a record holds of a panel was entered while that match was shown, and
\* on that panel unless somebody logged in as another one with it: whatever
\* was under way when the match changed, was stored when the app was killed,
\* or is written back by another call (referee_panel_provider.dart:82-104,
\* repository.rs:68-75).  Excepted are entries that were in storage while
\* nobody was logged in and the match changed: build() restores them for the
\* next match that is being played.
EntriesOfTheirMatch ==
  \A m \in Match, p \in Panel : \A n \in slot[m][p] :
    (made[n].match = m \/ n \in strayed) /\ (made[n].panel = p \/ n \in carried)

\* A panel that waits for a match is blank, whatever it had stored and
\* whichever way it got there (referee_panel_provider.dart:84-101).
WaitingIsBlank == shown.phase = "waiting" => state = Blank

\* Once the referee stops and the network holds, the last thing the server has
\* taken up is what the panel shows: the panel sends its state again on each
\* connection, so that neither an ignored send nor a lost one matters
\* (referee_panel_provider.dart:106-114).  Whether it stays in the record is up
\* to the server, which answers nothing.
LatestIsTold == <>[](panel # Out => told = {Saying(matchId, panel, state)})

\* However a stream ends, in an error or in silence, the panel ends up with the
\* match that is on (reconnecting_bidirectional_stream.dart:114-125).
FollowsMatch == <>[](shown = arena)

\* One that the code does not keep (no run checks it).
\* A panel that shows nothing for the match has left nothing of it in a record
\* that was reset for a redo, once all it sent has arrived (client.rs:143-147:
\* the reset is there because the state "otherwise leaves stale fouls/cards/
\* climb calls sitting around for the redo").
Settled ==
  stream = "open" /\ sent = <<>> /\ (\A i \in DOMAIN late : late[i] = <<>>) /\ other = {} /\ news = <<>>
    /\ shown = arena
RedoStartsClean ==
  Settled /\ state = Blank => \A p \in Panel : slot[arena.match][p] \cap wiped = {}
=============================================================================
