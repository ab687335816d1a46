------------------------------- MODULE Presence -------------------------------
(***************************************************************************)
(* Which referee panels are connected, as the head referee sees it.         *)
(*                                                                         *)
(* Every RefereeStream connection has an incoming task of its own that      *)
(* counts itself in and out of CONNECTED_PANELS and then publishes a        *)
(* snapshot of all panels.  A head referee's stream subscribes, reads a     *)
(* snapshot, applies the published ones in order, and every heartbeat       *)
(* derives the presence anew.  The tasks run on several threads: changing a *)
(* count, reading each panel of a snapshot and publishing it are steps that *)
(* other tasks' steps may come between.                                     *)
(***************************************************************************)
EXTENDS Integers, Sequences, FiniteSets

CONSTANTS
  Panel,     \* the four near/far panels
  Other,     \* any other PanelType: it is not counted
  None,      \* connected_panel = None
  Stream,    \* RefereeStream connections (a slot is used again after it ends)
  Viewer,    \* HeadRefereeStream connections
  MaxQueue   \* bound: no new message while a viewer has this many events waiting

ASSUME PresenceAssumption ==
  /\ Other \notin Panel /\ None \notin Panel \cup {Other}
  /\ IsFiniteSet(Stream) /\ Stream \cap Viewer = {}
  /\ MaxQueue \in Nat \ {0}

PanelType == Panel \cup {Other}
Snapshot == [Panel -> BOOLEAN]

VARIABLES
  count,      \* CONNECTED_PANELS; a panel without an entry counts 0
  pc,         \* where each incoming task stands
  connected,  \* its connected_panel
  claimed,    \* the panel type of the message it is handling
  reading,    \* per task: the panels its snapshot has still to read
  snap,       \* per task: the snapshot it reads
  viewer,     \* "off", "starting", "live" or "resync"
  queue,      \* per viewer: published snapshots not yet taken
  cached,     \* per viewer: panel_presence of its event stream
  shown,      \* per viewer: what the client was last sent
  raced       \* a count changed while another task was publishing (history)

tasks == <<count, pc, connected, claimed>>
reads == <<reading, snap>>
views == <<viewer, queue, cached, shown>>
vars == <<tasks, reads, views, raced>>

Nobody == [p \in Panel |-> FALSE]

Init ==
  /\ count = [p \in Panel |-> 0]
  /\ pc = [s \in Stream |-> "wait"]
  /\ connected = [s \in Stream |-> None]
  /\ claimed = [s \in Stream |-> None]
  /\ reading = [x \in Stream \cup Viewer |-> {}]
  /\ snap = [x \in Stream \cup Viewer |-> Nobody]
  /\ viewer = [v \in Viewer |-> "off"]
  /\ queue = [v \in Viewer |-> <<>>]
  /\ cached = [v \in Viewer |-> Nobody]
  /\ shown = [v \in Viewer |-> Nobody]
  /\ raced = FALSE

-----------------------------------------------------------------------------
(* Snapshots.                                                              *)

Actual == [p \in Panel |-> count[p] > 0]

\* A snapshot that has been used goes away with the variables that held it.
Forget(x) == snap' = [snap EXCEPT ![x] = Nobody]

StartReading(x) == reading' = [reading EXCEPT ![x] = Panel] /\ UNCHANGED snap

\* is_connected of one more panel.
ReadPanel(x, p) ==
  /\ p \in reading[x]
  /\ snap' = [snap EXCEPT ![x][p] = count[p] > 0]
  /\ reading' = [reading EXCEPT ![x] = @ \ {p}]
  /\ UNCHANGED <<tasks, views, raced>>

-----------------------------------------------------------------------------
(* The incoming task of a RefereeStream.                                   *)

Publishing(s) == pc[s] \in {"left", "joined", "ended"}
Overlaps(s) == \E t \in Stream \ {s} : Publishing(t)

\* Fault: a set of panels instead of a count.
CountAfterLeaveOfSet(n) == 0
CountAfterLeave(n) == IF n > 0 THEN n - 1 ELSE 0

\* A message that claims another panel than the last one; the first message
\* of a connection claims its first.  Other messages change nothing here.
Message(s, type) ==
  /\ pc[s] = "wait"
  /\ type # connected[s]
  /\ \A v \in Viewer : Len(queue[v]) < MaxQueue
  /\ claimed' = [claimed EXCEPT ![s] = type]
  /\ pc' = [pc EXCEPT ![s] = IF connected[s] = None THEN "join" ELSE "leave"]
  /\ UNCHANGED <<count, connected, reads, views, raced>>

\* The client closes the stream, or its disconnect is noticed, however late.
End(s) ==
  /\ pc[s] = "wait"
  /\ connected[s] # None
  /\ \A v \in Viewer : Len(queue[v]) < MaxQueue
  /\ pc' = [pc EXCEPT ![s] = "end"]
  /\ UNCHANGED <<count, connected, claimed, reads, views, raced>>

\* mark_disconnected of the previous panel, when switching or at the end.
MarkDisconnected(s) ==
  LET p == connected[s]
  IN  /\ pc[s] \in {"leave", "end"}
      /\ pc' = [pc EXCEPT ![s] = IF @ = "end" THEN "ended" ELSE "left"]
      /\ IF p \in Panel
         THEN /\ count' = [count EXCEPT ![p] = CountAfterLeave(@)]
              /\ StartReading(s)
              /\ raced' = (raced \/ Overlaps(s))
         ELSE UNCHANGED <<count, reads, raced>>
      /\ UNCHANGED <<connected, claimed, views>>

MarkConnected(s) ==
  LET p == claimed[s]
  IN  /\ pc[s] = "join"
      /\ pc' = [pc EXCEPT ![s] = "joined"]
      /\ IF p \in Panel
         THEN /\ count' = [count EXCEPT ![p] = @ + 1]
              /\ StartReading(s)
              /\ raced' = (raced \/ Overlaps(s))
         ELSE UNCHANGED <<count, reads, raced>>
      /\ UNCHANGED <<connected, claimed, views>>

\* Fault: a viewer that subscribes after it has read its first snapshot.
HearsOnceLive(v) == viewer[v] \in {"live", "resync"}
Hears(v) == viewer[v] # "off"

\* bus.publish, under the lock of the subscriber list, and on to the next
\* statement: an uncounted panel type has nothing to publish.
Publish(s) ==
  LET p == IF pc[s] = "joined" THEN claimed[s] ELSE connected[s]
  IN  /\ Publishing(s) /\ reading[s] = {}
      /\ queue' = IF p \in Panel
                  THEN [v \in Viewer |-> IF Hears(v) THEN Append(queue[v], snap[s]) ELSE queue[v]]
                  ELSE queue
      /\ pc' = [pc EXCEPT ![s] = IF @ = "left" THEN "join" ELSE "wait"]
      /\ connected' = [connected EXCEPT ![s] = CASE pc[s] = "joined" -> claimed[s]
                                                 [] pc[s] = "ended" -> None
                                                 [] OTHER -> @]
      /\ claimed' = IF pc[s] = "left" THEN claimed ELSE [claimed EXCEPT ![s] = None]
      /\ Forget(s)
      /\ UNCHANGED <<count, reading, viewer, cached, shown, raced>>

-----------------------------------------------------------------------------
(* A HeadRefereeStream.                                                    *)

Subscribe(v) ==
  /\ viewer[v] = "off"
  /\ viewer' = [viewer EXCEPT ![v] = "starting"]
  /\ StartReading(v)
  /\ UNCHANGED <<tasks, queue, cached, shown, raced>>

\* The first item of the stream.
Start(v) ==
  /\ viewer[v] = "starting" /\ reading[v] = {}
  /\ viewer' = [viewer EXCEPT ![v] = "live"]
  /\ cached' = [cached EXCEPT ![v] = snap[v]]
  /\ shown' = [shown EXCEPT ![v] = snap[v]]
  /\ Forget(v)
  /\ UNCHANGED <<tasks, reading, queue, raced>>

OnPresence(v) ==
  /\ viewer[v] = "live" /\ queue[v] # <<>>
  /\ queue' = [queue EXCEPT ![v] = Tail(@)]
  /\ cached' = [cached EXCEPT ![v] = Head(queue[v])]
  /\ shown' = [shown EXCEPT ![v] = Head(queue[v])]
  /\ UNCHANGED <<tasks, reads, viewer, raced>>

\* Any other event yields a response with the presence the stream has cached,
\* which may be older than the last heartbeat's.
OnOtherEvent(v) ==
  /\ viewer[v] = "live"
  /\ shown' = [shown EXCEPT ![v] = cached[v]]
  /\ UNCHANGED <<tasks, reads, viewer, queue, cached, raced>>

\* The ticker: the event stream is not polled until resync() is done.
Heartbeat(v) ==
  /\ viewer[v] = "live"
  /\ viewer' = [viewer EXCEPT ![v] = "resync"]
  /\ StartReading(v)
  /\ UNCHANGED <<tasks, queue, cached, shown, raced>>

\* Fault: a heartbeat that repeats what the event stream has.
ResyncedFromCache(v) == cached[v]
Resynced(v) == snap[v]

FinishResync(v) ==
  /\ viewer[v] = "resync" /\ reading[v] = {}
  /\ viewer' = [viewer EXCEPT ![v] = "live"]
  /\ shown' = [shown EXCEPT ![v] = Resynced(v)]
  /\ Forget(v)
  /\ UNCHANGED <<tasks, reading, queue, cached, raced>>

\* The client goes away: stream and receiver are dropped.
Close(v) ==
  /\ viewer[v] # "off"
  /\ viewer' = [viewer EXCEPT ![v] = "off"]
  /\ queue' = [queue EXCEPT ![v] = <<>>]
  /\ reading' = [reading EXCEPT ![v] = {}]
  /\ cached' = [cached EXCEPT ![v] = Nobody]
  /\ shown' = [shown EXCEPT ![v] = Nobody]
  /\ Forget(v)
  /\ UNCHANGED <<tasks, raced>>

-----------------------------------------------------------------------------
StreamStep(s) ==
  \/ \E type \in PanelType : Message(s, type)
  \/ End(s)
  \/ MarkDisconnected(s)
  \/ MarkConnected(s)
  \/ \E p \in Panel : ReadPanel(s, p)
  \/ Publish(s)

ViewerStep(v) ==
  \/ Subscribe(v)
  \/ \E p \in Panel : ReadPanel(v, p)
  \/ Start(v)
  \/ OnPresence(v)
  \/ OnOtherEvent(v)
  \/ Heartbeat(v)
  \/ FinishResync(v)
  \/ Close(v)

Next == (\E s \in Stream : StreamStep(s)) \/ (\E v \in Viewer : ViewerStep(v))

Spec == Init /\ [][Next]_vars

\* The ticker fires every HEARTBEAT_INTERVAL and select! serves it; a resync
\* that has begun reads on.
FairSpec ==
  /\ Spec
  /\ \A v \in Viewer :
       /\ WF_vars(Heartbeat(v)) /\ WF_vars(FinishResync(v))
       /\ WF_vars(\E p \in Panel : ReadPanel(v, p))

-----------------------------------------------------------------------------
(* Properties.                                                             *)

TypeOK ==
  /\ count \in [Panel -> Nat]
  /\ pc \in [Stream -> {"wait", "leave", "left", "join", "joined", "end", "ended"}]
  /\ connected \in [Stream -> PanelType \cup {None}]
  /\ claimed \in [Stream -> PanelType \cup {None}]
  /\ reading \in [Stream \cup Viewer -> SUBSET Panel]
  /\ snap \in [Stream \cup Viewer -> Snapshot]
  /\ viewer \in [Viewer -> {"off", "starting", "live", "resync"}]
  /\ queue \in [Viewer -> Seq(Snapshot)]
  /\ cached \in [Viewer -> Snapshot]
  /\ shown \in [Viewer -> Snapshot]
  /\ raced \in BOOLEAN

\* The panel a connection is counted for: its old one until it has left it,
\* its new one as soon as it has joined it.
Holds(s) ==
  CASE pc[s] \in {"wait", "leave", "end"} -> connected[s]
    [] pc[s] = "joined" -> claimed[s]
    [] OTHER -> None

\* A panel's count is the number of connections that hold it, whatever switches,
\* reconnects and belated disconnects interleave: a connected panel is never
\* cleared by an old connection, and a panel whose connections have all ended is
\* not counted any more (presence.rs:13-17).  That a connection does end is not
\* claimed.
CountsAreHolders ==
  \A p \in Panel : count[p] = Cardinality({s \in Stream : Holds(s) = p})

Quiet == \A s \in Stream : pc[s] = "wait"

\* As long as no two publishes overlapped, the events alone keep a head
\* referee's view right: what a subscriber missed before its first snapshot is
\* in that snapshot, and nothing after it is lost (head_referee/api.rs:78-84).
EventsKeepUp ==
  ~raced /\ Quiet => \A v \in Viewer : viewer[v] = "live" /\ queue[v] = <<>> => cached[v] = Actual

\* Even when publishes did overlap and left the cached presence wrong, the
\* heartbeat puts the view right (events.rs:109-111).
HeartbeatRepairs ==
  \A v \in Viewer :
    Quiet /\ viewer[v] = "live" ~> shown[v] = Actual \/ ~Quiet \/ viewer[v] = "off"
=============================================================================
