--------------------------- MODULE Presence_proofs ---------------------------
(***************************************************************************)
(* The panel counts of presence.rs are right in every behaviour, and the    *)
(* published events tell as much as the counts do; for any finite set of    *)
(* connections and any sets of panels and viewers.                          *)
(***************************************************************************)
EXTENDS Presence, FiniteSetTheorems, SequenceTheorems, TLAPS

-----------------------------------------------------------------------------
(* Types.                                                                  *)

LEMMA TypeInit == Init => TypeOK
<1> SUFFICES ASSUME Init PROVE TypeOK
  OBVIOUS
<1>1. Nobody \in Snapshot
  BY DEF Nobody, Snapshot
<1>2. raced \in BOOLEAN
  BY DEF Init
<1> QED BY <1>1, <1>2 DEF Init, TypeOK

LEMMA TypeReadPanel ==
  ASSUME TypeOK, NEW x \in Stream \cup Viewer, NEW p \in Panel, ReadPanel(x, p)
  PROVE  TypeOK'
<1>1. snap' \in [Stream \cup Viewer -> Snapshot]
  <2>1. (count[p] > 0) \in BOOLEAN
    BY DEF TypeOK
  <2>2. [snap[x] EXCEPT ![p] = count[p] > 0] \in Snapshot
    BY <2>1 DEF TypeOK, Snapshot
  <2> QED BY <2>2 DEF TypeOK, ReadPanel
<1>2. reading' \in [Stream \cup Viewer -> SUBSET Panel]
  BY DEF TypeOK, ReadPanel
<1> QED BY <1>1, <1>2 DEF TypeOK, ReadPanel, tasks, views

LEMMA TypeStream ==
  ASSUME TypeOK, NEW s \in Stream, StreamStep(s)
  PROVE  TypeOK'
<1>1. ASSUME NEW type \in PanelType, Message(s, type) PROVE TypeOK'
  BY <1>1 DEF TypeOK, Message, reads, views
<1>2. CASE End(s)
  BY <1>2 DEF TypeOK, End, reads, views
<1>3. CASE MarkDisconnected(s)
  <2>1. connected[s] \in Panel => count[connected[s]] \in Nat
    BY DEF TypeOK
  <2>2. count' \in [Panel -> Nat]
    BY <1>3, <2>1 DEF TypeOK, MarkDisconnected, CountAfterLeave
  <2>3. pc' \in [Stream -> {"wait", "leave", "left", "join", "joined", "end", "ended"}]
    BY <1>3 DEF TypeOK, MarkDisconnected
  <2>4. raced' \in BOOLEAN
    BY <1>3 DEF TypeOK, MarkDisconnected
  <2>5. reading' \in [Stream \cup Viewer -> SUBSET Panel] /\ snap' = snap
    BY <1>3 DEF TypeOK, MarkDisconnected, StartReading, reads
  <2> QED BY <1>3, <2>2, <2>3, <2>4, <2>5 DEF TypeOK, MarkDisconnected, views
<1>4. CASE MarkConnected(s)
  <2>1. claimed[s] \in Panel => count[claimed[s]] \in Nat
    BY DEF TypeOK
  <2>2. count' \in [Panel -> Nat]
    BY <1>4, <2>1 DEF TypeOK, MarkConnected
  <2>3. pc' \in [Stream -> {"wait", "leave", "left", "join", "joined", "end", "ended"}]
    BY <1>4 DEF TypeOK, MarkConnected
  <2>4. raced' \in BOOLEAN
    BY <1>4 DEF TypeOK, MarkConnected
  <2>5. reading' \in [Stream \cup Viewer -> SUBSET Panel] /\ snap' = snap
    BY <1>4 DEF TypeOK, MarkConnected, StartReading, reads
  <2> QED BY <1>4, <2>2, <2>3, <2>4, <2>5 DEF TypeOK, MarkConnected, views
<1>5. ASSUME NEW p \in Panel, ReadPanel(s, p) PROVE TypeOK'
  BY <1>5, TypeReadPanel
<1>6. CASE Publish(s)
  <2>1. snap[s] \in Snapshot /\ snap' \in [Stream \cup Viewer -> Snapshot]
    BY <1>6 DEF TypeOK, Publish, Forget, Nobody, Snapshot
  <2>2. queue' \in [Viewer -> Seq(Snapshot)]
    <3>1. \A v \in Viewer : Append(queue[v], snap[s]) \in Seq(Snapshot) /\ queue[v] \in Seq(Snapshot)
      BY <2>1 DEF TypeOK
    <3> QED BY <1>6, <3>1 DEF TypeOK, Publish
  <2>3. pc' \in [Stream -> {"wait", "leave", "left", "join", "joined", "end", "ended"}]
    BY <1>6 DEF TypeOK, Publish
  <2>4. connected' \in [Stream -> PanelType \cup {None}]
    BY <1>6 DEF TypeOK, Publish, Publishing
  <2>5. claimed' \in [Stream -> PanelType \cup {None}]
    BY <1>6 DEF TypeOK, Publish
  <2> QED BY <1>6, <2>1, <2>2, <2>3, <2>4, <2>5 DEF TypeOK, Publish
<1> QED BY <1>1, <1>2, <1>3, <1>4, <1>5, <1>6 DEF StreamStep

LEMMA TypeViewer ==
  ASSUME TypeOK, NEW v \in Viewer, ViewerStep(v)
  PROVE  TypeOK'
<1>0. Nobody \in Snapshot /\ snap[v] \in Snapshot /\ cached[v] \in Snapshot
  BY DEF TypeOK, Nobody, Snapshot
<1>1. CASE Subscribe(v)
  BY <1>1 DEF TypeOK, Subscribe, StartReading, tasks
<1>2. ASSUME NEW p \in Panel, ReadPanel(v, p) PROVE TypeOK'
  BY <1>2, TypeReadPanel
<1>3. CASE Start(v)
  BY <1>0, <1>3 DEF TypeOK, Start, Forget, tasks
<1>4. CASE OnPresence(v)
  <2>1. Head(queue[v]) \in Snapshot /\ Tail(queue[v]) \in Seq(Snapshot)
    BY <1>4 DEF TypeOK, OnPresence
  <2> QED BY <1>4, <2>1 DEF TypeOK, OnPresence, tasks, reads
<1>5. CASE OnOtherEvent(v)
  BY <1>0, <1>5 DEF TypeOK, OnOtherEvent, tasks, reads
<1>6. CASE Heartbeat(v)
  BY <1>6 DEF TypeOK, Heartbeat, StartReading, tasks
<1>7. CASE FinishResync(v)
  BY <1>0, <1>7 DEF TypeOK, FinishResync, Resynced, Forget, tasks
<1>8. CASE Close(v)
  BY <1>0, <1>8 DEF TypeOK, Close, Forget, tasks
<1> QED BY <1>1, <1>2, <1>3, <1>4, <1>5, <1>6, <1>7, <1>8 DEF ViewerStep

LEMMA TypeStep == TypeOK /\ [Next]_vars => TypeOK'
<1> SUFFICES ASSUME TypeOK, [Next]_vars PROVE TypeOK'
  OBVIOUS
<1>1. CASE UNCHANGED vars
  BY <1>1 DEF TypeOK, vars, tasks, reads, views
<1> QED BY <1>1, TypeStream, TypeViewer DEF Next

\* Counts, snapshots and queues keep their types.
THEOREM TypeCorrect == Spec => []TypeOK
BY TypeInit, TypeStep, PTL DEF Spec

-----------------------------------------------------------------------------
(* Counts.                                                                 *)

Holders(p) == {s \in Stream : Holds(s) = p}

LEMMA HoldersAreFinite ==
  ASSUME NEW p
  PROVE  IsFiniteSet(Holders(p)) /\ Cardinality(Holders(p)) \in Nat
<1>1. Holders(p) \subseteq Stream
  BY DEF Holders
<1>2. IsFiniteSet(Holders(p))
  BY <1>1, PresenceAssumption, FS_Subset
<1> QED BY <1>2, FS_CardinalityType

\* A step after which every connection holds the panel it held before.
LEMMA NobodyMoved ==
  ASSUME CountsAreHolders, UNCHANGED count,
         \A s \in Stream : \A p \in Panel : Holds(s)' = p <=> Holds(s) = p
  PROVE  CountsAreHolders'
<1>1. ASSUME NEW p \in Panel
      PROVE  {s \in Stream : Holds(s)' = p} = {s \in Stream : Holds(s) = p}
  BY <1>1
<1> QED BY <1>1 DEF CountsAreHolders

LEMMA CountMessage ==
  ASSUME TypeOK, CountsAreHolders, NEW s \in Stream, NEW type \in PanelType, Message(s, type)
  PROVE  CountsAreHolders'
<1>1. ASSUME NEW u \in Stream, NEW p \in Panel
      PROVE  Holds(u)' = p <=> Holds(u) = p
  <2>1. CASE u = s
    BY <2>1, PresenceAssumption DEF Message, Holds, TypeOK
  <2>2. CASE u # s
    BY <2>2 DEF Message, Holds, TypeOK
  <2> QED BY <2>1, <2>2
<1> QED BY <1>1, NobodyMoved DEF Message

LEMMA CountEnd ==
  ASSUME TypeOK, CountsAreHolders, NEW s \in Stream, End(s)
  PROVE  CountsAreHolders'
<1>1. ASSUME NEW u \in Stream, NEW p \in Panel
      PROVE  Holds(u)' = p <=> Holds(u) = p
  <2>1. CASE u = s
    BY <2>1 DEF End, Holds, TypeOK
  <2>2. CASE u # s
    BY <2>2 DEF End, Holds, TypeOK
  <2> QED BY <2>1, <2>2
<1> QED BY <1>1, NobodyMoved DEF End

LEMMA CountPublish ==
  ASSUME TypeOK, CountsAreHolders, NEW s \in Stream, Publish(s)
  PROVE  CountsAreHolders'
<1>1. ASSUME NEW u \in Stream, NEW p \in Panel
      PROVE  Holds(u)' = p <=> Holds(u) = p
  <2>1. CASE u = s
    BY <2>1, PresenceAssumption DEF Publish, Publishing, Holds, TypeOK
  <2>2. CASE u # s
    BY <2>2 DEF Publish, Holds, TypeOK
  <2> QED BY <2>1, <2>2
<1> QED BY <1>1, NobodyMoved DEF Publish

\* mark_connected: the panel has one holder more, every other one the same.
LEMMA CountMarkConnected ==
  ASSUME TypeOK, CountsAreHolders, NEW s \in Stream, MarkConnected(s)
  PROVE  CountsAreHolders'
<1> DEFINE q == claimed[s]
<1>1. ASSUME NEW u \in Stream, u # s PROVE Holds(u)' = Holds(u)
  BY <1>1 DEF MarkConnected, Holds, TypeOK
<1>2. Holds(s) = None /\ Holds(s)' = q
  BY DEF MarkConnected, Holds, TypeOK
<1>3. CASE q \notin Panel
  <2>1. UNCHANGED count
    BY <1>3 DEF MarkConnected
  <2>2. \A u \in Stream : \A p \in Panel : Holds(u)' = p <=> Holds(u) = p
    BY <1>1, <1>2, <1>3, PresenceAssumption
  <2> QED BY <2>1, <2>2, NobodyMoved
<1>4. CASE q \in Panel
  <2>1. count' = [count EXCEPT ![q] = @ + 1]
    BY <1>4 DEF MarkConnected
  <2>2. ASSUME NEW p \in Panel PROVE count'[p] = Cardinality({u \in Stream : Holds(u)' = p})
    <3>1. CASE p = q
      <4>1. {u \in Stream : Holds(u)' = p} = Holders(p) \cup {s}
        BY <1>1, <1>2, <3>1 DEF Holders
      <4>2. s \notin Holders(p)
        BY <1>2, PresenceAssumption DEF Holders
      <4>3. Cardinality(Holders(p) \cup {s}) = Cardinality(Holders(p)) + 1
        BY <4>2, HoldersAreFinite, FS_AddElement
      <4> QED BY <1>4, <2>1, <3>1, <4>1, <4>3 DEF CountsAreHolders, Holders, TypeOK
    <3>2. CASE p # q
      <4>1. {u \in Stream : Holds(u)' = p} = {u \in Stream : Holds(u) = p}
        BY <1>1, <1>2, <3>2, PresenceAssumption
      <4> QED BY <1>4, <2>1, <3>2, <4>1 DEF CountsAreHolders, TypeOK
    <3> QED BY <3>1, <3>2
  <2> QED BY <2>2 DEF CountsAreHolders
<1> QED BY <1>3, <1>4

\* mark_disconnected: one holder less.  The count is above zero, since the
\* connection itself holds the panel, so the entry is there to be decremented.
LEMMA CountMarkDisconnected ==
  ASSUME TypeOK, CountsAreHolders, NEW s \in Stream, MarkDisconnected(s)
  PROVE  CountsAreHolders'
<1> DEFINE q == connected[s]
<1>1. ASSUME NEW u \in Stream, u # s PROVE Holds(u)' = Holds(u)
  BY <1>1 DEF MarkDisconnected, Holds, TypeOK
<1>2. Holds(s) = q /\ Holds(s)' = None
  BY DEF MarkDisconnected, Holds, TypeOK
<1>3. CASE q \notin Panel
  <2>1. UNCHANGED count
    BY <1>3 DEF MarkDisconnected
  <2>2. \A u \in Stream : \A p \in Panel : Holds(u)' = p <=> Holds(u) = p
    BY <1>1, <1>2, <1>3, PresenceAssumption
  <2> QED BY <2>1, <2>2, NobodyMoved
<1>4. CASE q \in Panel
  <2>1. count' = [count EXCEPT ![q] = CountAfterLeave(@)]
    BY <1>4 DEF MarkDisconnected
  <2>2. ASSUME NEW p \in Panel PROVE count'[p] = Cardinality({u \in Stream : Holds(u)' = p})
    <3>1. CASE p = q
      <4>1. {u \in Stream : Holds(u)' = p} = Holders(p) \ {s}
        BY <1>1, <1>2, <3>1, PresenceAssumption DEF Holders
      <4>2. s \in Holders(p)
        BY <1>2, <3>1 DEF Holders
      <4>3. Cardinality(Holders(p) \ {s}) = Cardinality(Holders(p)) - 1
        BY <4>2, HoldersAreFinite, FS_RemoveElement
      <4>4. count[p] = Cardinality(Holders(p))
        BY DEF CountsAreHolders, Holders
      <4>5. Cardinality(Holders(p)) # 0
        BY <4>2, HoldersAreFinite, FS_EmptySet
      <4>6. count'[p] = count[p] - 1
        BY <1>4, <2>1, <3>1, <4>4, <4>5, HoldersAreFinite DEF CountAfterLeave, TypeOK
      <4> QED BY <4>1, <4>3, <4>4, <4>6
    <3>2. CASE p # q
      <4>1. {u \in Stream : Holds(u)' = p} = {u \in Stream : Holds(u) = p}
        BY <1>1, <1>2, <3>2, PresenceAssumption
      <4> QED BY <1>4, <2>1, <3>2, <4>1 DEF CountsAreHolders, TypeOK
    <3> QED BY <3>1, <3>2
  <2> QED BY <2>2 DEF CountsAreHolders
<1> QED BY <1>3, <1>4

LEMMA CountStep == TypeOK /\ CountsAreHolders /\ [Next]_vars => CountsAreHolders'
<1> SUFFICES ASSUME TypeOK, CountsAreHolders, [Next]_vars PROVE CountsAreHolders'
  OBVIOUS
<1>1. CASE UNCHANGED tasks
  BY <1>1, NobodyMoved DEF tasks, Holds
<1>2. ASSUME NEW s \in Stream, StreamStep(s) PROVE CountsAreHolders'
  BY <1>1, <1>2, CountMessage, CountEnd, CountMarkConnected, CountMarkDisconnected, CountPublish
     DEF StreamStep, ReadPanel
<1>3. ASSUME NEW v \in Viewer, ViewerStep(v) PROVE UNCHANGED tasks
  BY <1>3 DEF ViewerStep, Subscribe, ReadPanel, Start, OnPresence, OnOtherEvent, Heartbeat,
              FinishResync, Close
<1>4. CASE UNCHANGED vars
  BY <1>1, <1>4 DEF vars
<1> QED BY <1>1, <1>2, <1>3, <1>4 DEF Next

\* However switches, reconnects and belated disconnects of any number of
\* connections interleave, a panel counts as connected exactly while some
\* connection holds it (presence.rs:13-22).
THEOREM CountsAreRight == Spec => []CountsAreHolders
<1>1. Init => CountsAreHolders
  <2> SUFFICES ASSUME Init, NEW p \in Panel
               PROVE  count[p] = Cardinality({s \in Stream : Holds(s) = p})
    BY DEF CountsAreHolders
  <2>1. {s \in Stream : Holds(s) = p} = {}
    BY PresenceAssumption DEF Init, Holds
  <2> QED BY <2>1, FS_EmptySet DEF Init
<1> QED BY <1>1, CountStep, TypeCorrect, PTL DEF Spec

-----------------------------------------------------------------------------
(* Events.                                                                 *)

\* The panel whose change a task is publishing, and the tasks that are going
\* to put a snapshot on the bus.
PublishedPanel(s) == IF pc[s] = "joined" THEN claimed[s] ELSE connected[s]
Telling(s) == Publishing(s) /\ PublishedPanel(s) \in Panel

\* What x has read so far is what the counts say now.
Agrees(x) == \A p \in Panel \ reading[x] : snap[x][p] = (count[p] > 0)

\* The newest presence a viewer has been told, taken by it or not.
Newest(v) == IF queue[v] = <<>> THEN cached[v] ELSE queue[v][Len(queue[v])]

\* Nothing is on its way to v that it does not have: a viewer that is still
\* reading its first snapshot has that, unless an event has overtaken it.
UpToDate(v) ==
  IF viewer[v] = "starting" /\ queue[v] = <<>> THEN Agrees(v) ELSE Newest(v) = Actual

OneTells == \A s, t \in Stream : Telling(s) /\ Telling(t) => s = t
TellsTheTruth == \A s \in Stream : Telling(s) => Agrees(s)
ViewersUpToDate ==
  (\A s \in Stream : ~Telling(s)) => \A v \in Viewer : Hears(v) => UpToDate(v)
DeafHasNoQueue == \A v \in Viewer : ~Hears(v) => queue[v] = <<>>

\* The strengthening of EventsKeepUp.  While no count has changed under a
\* publish, one task at most has something to tell, and it tells what is so.
EventsInv ==
  /\ DeafHasNoQueue
  /\ ~raced => OneTells /\ TellsTheTruth /\ ViewersUpToDate

LEMMA EventsInit == Init => EventsInv
<1> SUFFICES ASSUME Init PROVE EventsInv
  OBVIOUS
<1>1. \A s \in Stream : ~Telling(s)
  BY DEF Init, Telling, Publishing
<1>2. \A v \in Viewer : ~Hears(v) /\ queue[v] = <<>>
  BY DEF Init, Hears
<1> QED BY <1>1, <1>2 DEF EventsInv, DeafHasNoQueue, OneTells, TellsTheTruth, ViewersUpToDate

\* A step of a task that leaves counts, reads and views alone, and neither
\* starts nor ends a publish.
LEMMA EventsSilentTask ==
  ASSUME EventsInv, UNCHANGED <<count, reads, views, raced>>,
         \A s \in Stream : Telling(s)' <=> Telling(s)
  PROVE  EventsInv'
<1>1. DeafHasNoQueue'
  BY DEF EventsInv, DeafHasNoQueue, Hears, views
<1>2. ASSUME ~raced PROVE OneTells' /\ TellsTheTruth' /\ ViewersUpToDate'
  <2>1. \A x : Agrees(x)' = Agrees(x)
    BY DEF Agrees, reads
  <2>2. \A v : Hears(v)' = Hears(v) /\ UpToDate(v)' = UpToDate(v)
    BY <2>1 DEF Hears, UpToDate, Newest, Actual, views
  <2>3. OneTells' /\ TellsTheTruth'
    BY <1>2, <2>1 DEF EventsInv, OneTells, TellsTheTruth
  <2>4. ViewersUpToDate'
    BY <1>2, <2>2 DEF EventsInv, ViewersUpToDate
  <2> QED BY <2>3, <2>4
<1> QED BY <1>1, <1>2 DEF EventsInv

LEMMA EventsMessage ==
  ASSUME TypeOK, EventsInv, NEW s \in Stream, NEW type \in PanelType, Message(s, type)
  PROVE  EventsInv'
<1>1. ASSUME NEW t \in Stream PROVE Telling(t)' <=> Telling(t)
  <2>1. CASE t = s
    BY <2>1 DEF Message, Telling, Publishing, TypeOK
  <2>2. CASE t # s
    BY <2>2 DEF Message, Telling, Publishing, PublishedPanel, TypeOK
  <2> QED BY <2>1, <2>2
<1> QED BY <1>1, EventsSilentTask DEF Message

LEMMA EventsEnd ==
  ASSUME TypeOK, EventsInv, NEW s \in Stream, End(s)
  PROVE  EventsInv'
<1>1. ASSUME NEW t \in Stream PROVE Telling(t)' <=> Telling(t)
  <2>1. CASE t = s
    BY <2>1 DEF End, Telling, Publishing, TypeOK
  <2>2. CASE t # s
    BY <2>2 DEF End, Telling, Publishing, PublishedPanel, TypeOK
  <2> QED BY <2>1, <2>2
<1> QED BY <1>1, EventsSilentTask DEF End

\* A count changes: the task that changed it is the only one with something to
\* tell, it has read nothing yet, and no viewer has to be up to date until it
\* has told.
LEMMA EventsCountChange ==
  ASSUME EventsInv, NEW s \in Stream, Telling(s)', reading'[s] = Panel,
         \A t \in Stream \ {s} : Telling(t)' <=> Telling(t),
         raced' = (raced \/ Overlaps(s)), UNCHANGED views
  PROVE  EventsInv'
<1>1. DeafHasNoQueue'
  BY DEF EventsInv, DeafHasNoQueue, Hears, views
<1>2. ASSUME ~raced' PROVE OneTells' /\ TellsTheTruth' /\ ViewersUpToDate'
  <2>1. \A t \in Stream \ {s} : ~Telling(t)'
    BY <1>2 DEF Overlaps, Telling
  <2>2. Agrees(s)'
    BY DEF Agrees
  <2> QED BY <2>1, <2>2 DEF OneTells, TellsTheTruth, ViewersUpToDate
<1> QED BY <1>1, <1>2 DEF EventsInv

LEMMA EventsMarkDisconnected ==
  ASSUME TypeOK, EventsInv, NEW s \in Stream, MarkDisconnected(s)
  PROVE  EventsInv'
<1>1. \A t \in Stream \ {s} : Telling(t)' <=> Telling(t)
  BY DEF MarkDisconnected, Telling, Publishing, PublishedPanel, TypeOK
<1>2. pc'[s] \in {"left", "ended"} /\ connected' = connected /\ ~Publishing(s)
  BY DEF MarkDisconnected, Publishing, TypeOK
<1>3. CASE connected[s] \in Panel
  <2>1. Telling(s)'
    BY <1>2, <1>3 DEF Telling, Publishing, PublishedPanel
  <2>2. reading'[s] = Panel /\ raced' = (raced \/ Overlaps(s)) /\ UNCHANGED views
    BY <1>3 DEF MarkDisconnected, StartReading, TypeOK
  <2> QED BY <1>1, <2>1, <2>2, EventsCountChange
<1>4. CASE connected[s] \notin Panel
  <2>1. ~Telling(s) /\ ~Telling(s)'
    BY <1>2, <1>4 DEF Telling, PublishedPanel
  <2>2. UNCHANGED <<count, reads, views, raced>>
    BY <1>4 DEF MarkDisconnected
  <2> QED BY <1>1, <2>1, <2>2, EventsSilentTask
<1> QED BY <1>3, <1>4

LEMMA EventsMarkConnected ==
  ASSUME TypeOK, EventsInv, NEW s \in Stream, MarkConnected(s)
  PROVE  EventsInv'
<1>1. \A t \in Stream \ {s} : Telling(t)' <=> Telling(t)
  BY DEF MarkConnected, Telling, Publishing, PublishedPanel, TypeOK
<1>2. pc'[s] = "joined" /\ claimed' = claimed /\ ~Publishing(s)
  BY DEF MarkConnected, Publishing, TypeOK
<1>3. CASE claimed[s] \in Panel
  <2>1. Telling(s)'
    BY <1>2, <1>3 DEF Telling, Publishing, PublishedPanel
  <2>2. reading'[s] = Panel /\ raced' = (raced \/ Overlaps(s)) /\ UNCHANGED views
    BY <1>3 DEF MarkConnected, StartReading, TypeOK
  <2> QED BY <1>1, <2>1, <2>2, EventsCountChange
<1>4. CASE claimed[s] \notin Panel
  <2>1. ~Telling(s) /\ ~Telling(s)'
    BY <1>2, <1>4 DEF Telling, PublishedPanel
  <2>2. UNCHANGED <<count, reads, views, raced>>
    BY <1>4 DEF MarkConnected
  <2> QED BY <1>1, <2>1, <2>2, EventsSilentTask
<1> QED BY <1>3, <1>4

\* One more panel of a snapshot, read as it is now.
LEMMA EventsReadPanel ==
  ASSUME TypeOK, EventsInv, NEW x \in Stream \cup Viewer, NEW p \in Panel, ReadPanel(x, p)
  PROVE  EventsInv'
<1>1. DeafHasNoQueue'
  BY DEF ReadPanel, EventsInv, DeafHasNoQueue, Hears, views
<1>2. ASSUME NEW y \in Stream \cup Viewer, Agrees(y) PROVE Agrees(y)'
  <2>1. CASE y = x
    <3>1. reading'[x] = reading[x] \ {p} /\ snap'[x] = [snap[x] EXCEPT ![p] = count[p] > 0] /\ count' = count
      BY DEF ReadPanel, TypeOK, tasks
    <3>2. snap[x] \in Snapshot
      BY DEF TypeOK
    <3> QED BY <1>2, <2>1, <3>1, <3>2 DEF Agrees, Snapshot
  <2>2. CASE y # x
    BY <1>2, <2>2 DEF ReadPanel, Agrees, TypeOK, tasks
  <2> QED BY <2>1, <2>2
<1>3. \A s : Telling(s)' <=> Telling(s)
  BY DEF ReadPanel, Telling, Publishing, PublishedPanel, tasks
<1>4. \A v \in Viewer : Hears(v)' = Hears(v) /\ (UpToDate(v) => UpToDate(v)')
  BY <1>2 DEF ReadPanel, Hears, UpToDate, Newest, Actual, tasks, views
<1>5. ASSUME ~raced PROVE OneTells' /\ TellsTheTruth' /\ ViewersUpToDate'
  <2>1. OneTells' /\ TellsTheTruth'
    BY <1>2, <1>3, <1>5 DEF EventsInv, OneTells, TellsTheTruth
  <2>2. ViewersUpToDate'
    BY <1>3, <1>4, <1>5 DEF EventsInv, ViewersUpToDate
  <2> QED BY <2>1, <2>2
<1>6. raced' = raced
  BY DEF ReadPanel
<1> QED BY <1>1, <1>5, <1>6 DEF EventsInv

\* What the only task with something to tell puts on the bus is what is so,
\* and every viewer that hears has it as its newest.
LEMMA EventsPublish ==
  ASSUME TypeOK, EventsInv, NEW s \in Stream, Publish(s)
  PROVE  EventsInv'
<1>0. /\ viewer' = viewer /\ cached' = cached /\ count' = count /\ reading' = reading /\ raced' = raced
      /\ reading[s] = {} /\ Publishing(s)
  BY DEF Publish
<1>1. DeafHasNoQueue'
  BY <1>0 DEF EventsInv, DeafHasNoQueue, Hears, Publish
<1>2. ~Telling(s)'
  BY DEF Publish, Telling, Publishing, TypeOK
<1>3. \A t \in Stream \ {s} : Telling(t)' <=> Telling(t)
  BY DEF Publish, Telling, Publishing, PublishedPanel, TypeOK
<1>4. \A x \in (Stream \cup Viewer) \ {s} : Agrees(x)' <=> Agrees(x)
  BY DEF Publish, Forget, Agrees, TypeOK
<1>5. ASSUME ~raced PROVE OneTells' /\ TellsTheTruth'
  BY <1>2, <1>3, <1>4, <1>5 DEF EventsInv, OneTells, TellsTheTruth
<1>6. Actual' = Actual
  BY <1>0 DEF Actual
<1>7. ASSUME Telling(s), ~raced, NEW v \in Viewer, Hears(v)' PROVE UpToDate(v)'
  <2>1. snap[s] = Actual
    <3>1. Agrees(s)
      BY <1>7 DEF EventsInv, TellsTheTruth
    <3>2. snap[s] \in Snapshot
      BY DEF TypeOK
    <3> QED BY <1>0, <3>1, <3>2 DEF Agrees, Actual, Snapshot
  <2>2. PublishedPanel(s) \in Panel
    BY <1>7 DEF Telling
  <2>3. queue'[v] = Append(queue[v], snap[s])
    BY <1>0, <1>7, <2>2 DEF Publish, PublishedPanel, Hears
  <2>4. queue[v] \in Seq(Snapshot) /\ snap[s] \in Snapshot
    BY DEF TypeOK
  <2>5. queue'[v] # <<>> /\ queue'[v][Len(queue'[v])] = snap[s]
    BY <2>3, <2>4
  <2>6. Newest(v)' = Actual'
    BY <1>6, <2>1, <2>5 DEF Newest
  <2> QED BY <2>5, <2>6 DEF UpToDate
<1>8. ASSUME ~Telling(s), NEW v \in Viewer, UpToDate(v), Hears(v)' PROVE UpToDate(v)'
  <2>1. queue' = queue
    BY <1>0, <1>8 DEF Publish, Telling, PublishedPanel
  <2>2. v # s
    BY PresenceAssumption
  <2> QED BY <1>0, <1>4, <1>6, <1>8, <2>1, <2>2 DEF UpToDate, Newest
<1>9. ASSUME ~raced PROVE ViewersUpToDate'
  <2> SUFFICES ASSUME \A t \in Stream : ~Telling(t)', NEW v \in Viewer, Hears(v)' PROVE UpToDate(v)'
    BY DEF ViewersUpToDate
  <2>1. CASE Telling(s)
    BY <1>7, <1>9, <2>1
  <2>2. CASE ~Telling(s)
    <3>1. Hears(v)
      BY <1>0 DEF Hears
    <3>2. UpToDate(v)
      BY <1>3, <1>9, <2>2, <3>1 DEF EventsInv, ViewersUpToDate
    <3> QED BY <1>8, <2>2, <3>2
  <2> QED BY <2>1, <2>2
<1> QED BY <1>0, <1>1, <1>5, <1>9 DEF EventsInv

\* A step of a viewer touches no task and no other viewer: it has to be up to
\* date after it whenever it was, or had to be nothing, before it.
LEMMA EventsViewerStep ==
  ASSUME EventsInv, UNCHANGED <<tasks, raced>>, NEW v \in Viewer,
         \A x \in (Stream \cup Viewer) \ {v} : reading'[x] = reading[x] /\ snap'[x] = snap[x],
         \A w \in Viewer \ {v} : /\ viewer'[w] = viewer[w] /\ queue'[w] = queue[w]
                                 /\ cached'[w] = cached[w],
         ~Hears(v)' => queue'[v] = <<>>,
         Hears(v)' => UpToDate(v)' \/ (Hears(v) /\ (UpToDate(v) => UpToDate(v)'))
  PROVE  EventsInv'
<1>1. DeafHasNoQueue'
  BY DEF EventsInv, DeafHasNoQueue, Hears
<1>2. \A s : Telling(s)' <=> Telling(s)
  BY DEF Telling, Publishing, PublishedPanel, tasks
<1>3. \A x \in (Stream \cup Viewer) \ {v} : Agrees(x)' <=> Agrees(x)
  BY DEF Agrees, tasks
<1>4. \A s \in Stream : s # v
  BY PresenceAssumption
<1>5. \A w \in Viewer \ {v} : (Hears(w)' <=> Hears(w)) /\ (UpToDate(w)' <=> UpToDate(w))
  BY <1>3 DEF Hears, UpToDate, Newest, Actual, tasks
<1>6. ASSUME ~raced PROVE OneTells' /\ TellsTheTruth'
  BY <1>2, <1>3, <1>4, <1>6 DEF EventsInv, OneTells, TellsTheTruth
<1>7. ASSUME ~raced PROVE ViewersUpToDate'
  BY <1>2, <1>5, <1>7 DEF EventsInv, ViewersUpToDate
<1>8. raced' = raced
  OBVIOUS
<1> QED BY <1>1, <1>6, <1>7, <1>8 DEF EventsInv

\* Taking the first of a queue leaves the last one, which is what the viewer
\* has taken if none is left.
LEMMA LastStays ==
  ASSUME NEW S, NEW q \in Seq(S), q # <<>>
  PROVE  q[Len(q)] = IF Tail(q) = <<>> THEN Head(q) ELSE Tail(q)[Len(Tail(q))]
<1> DEFINE n == Len(q)
           t == Tail(q)
<1>1. n \in Nat /\ n # 0
  BY LenProperties, EmptySeq
<1>2. /\ Head(q) = q[1] /\ t \in Seq(S) /\ Len(t) = n - 1
      /\ \A i \in 1..Len(t) : t[i] = q[i + 1]
  BY HeadTailProperties
<1>3. t = <<>> <=> Len(t) = 0
  BY <1>2, EmptySeq
<1> HIDE DEF n, t
<1>4. CASE n = 1
  <2>1. t = <<>>
    BY <1>2, <1>3, <1>4
  <2> QED BY <1>2, <1>4, <2>1 DEF n, t
<1>5. CASE n # 1
  <2>1. t # <<>> /\ Len(t) \in 1..Len(t) /\ Len(t) + 1 = n
    BY <1>1, <1>2, <1>3, <1>5
  <2>2. t[Len(t)] = q[n]
    BY <1>2, <2>1
  <2> QED BY <2>1, <2>2 DEF n, t
<1> QED BY <1>4, <1>5

LEMMA EventsViewer ==
  ASSUME TypeOK, EventsInv, NEW v \in Viewer, ViewerStep(v)
  PROVE  EventsInv'
<1>0. queue[v] \in Seq(Snapshot) /\ cached[v] \in Snapshot /\ snap[v] \in Snapshot
  BY DEF TypeOK
<1>1. CASE Subscribe(v)
  <2>1. queue'[v] = queue[v] /\ queue[v] = <<>> /\ viewer'[v] = "starting" /\ reading'[v] = Panel
    BY <1>1 DEF Subscribe, StartReading, EventsInv, DeafHasNoQueue, Hears, TypeOK
  <2>2. UpToDate(v)'
    BY <2>1 DEF UpToDate, Agrees
  <2> QED BY <1>1, <2>1, <2>2, EventsViewerStep DEF Subscribe, StartReading, Hears, TypeOK
<1>2. ASSUME NEW p \in Panel, ReadPanel(v, p) PROVE EventsInv'
  BY <1>2, EventsReadPanel
<1>3. CASE Start(v)
  <2>1. /\ queue' = queue /\ viewer'[v] = "live" /\ cached'[v] = snap[v] /\ count' = count
        /\ reading[v] = {} /\ viewer[v] = "starting"
    BY <1>3 DEF Start, TypeOK, tasks
  <2>2. ASSUME Agrees(v) PROVE snap[v] = Actual
    BY <1>0, <2>1, <2>2 DEF Agrees, Actual, Snapshot
  <2>3. UpToDate(v) => UpToDate(v)'
    BY <2>1, <2>2 DEF UpToDate, Newest, Actual
  <2> QED BY <1>3, <2>1, <2>3, EventsViewerStep DEF Start, Forget, Hears, TypeOK
<1>4. CASE OnPresence(v)
  <2>1. /\ queue[v] # <<>> /\ queue'[v] = Tail(queue[v]) /\ cached'[v] = Head(queue[v])
        /\ viewer' = viewer /\ viewer[v] = "live" /\ count' = count
    BY <1>4 DEF OnPresence, TypeOK, tasks
  <2>2. Newest(v)' = Newest(v)
    BY <1>0, <2>1, LastStays DEF Newest
  <2>3. UpToDate(v) => UpToDate(v)'
    BY <2>1, <2>2 DEF UpToDate, Actual
  <2> QED BY <1>4, <2>1, <2>3, EventsViewerStep DEF OnPresence, Hears, TypeOK, reads
<1>5. CASE OnOtherEvent(v)
  <2>1. UpToDate(v) => UpToDate(v)'
    BY <1>5 DEF OnOtherEvent, UpToDate, Newest, Agrees, Actual, tasks, reads
  <2> QED BY <1>5, <2>1, EventsViewerStep DEF OnOtherEvent, Hears, TypeOK, reads
<1>6. CASE Heartbeat(v)
  <2>1. UpToDate(v) => UpToDate(v)'
    BY <1>6 DEF Heartbeat, UpToDate, Newest, Actual, TypeOK, tasks
  <2> QED BY <1>6, <2>1, EventsViewerStep DEF Heartbeat, StartReading, Hears, TypeOK
<1>7. CASE FinishResync(v)
  <2>1. UpToDate(v) => UpToDate(v)'
    BY <1>7 DEF FinishResync, UpToDate, Newest, Actual, TypeOK, tasks
  <2> QED BY <1>7, <2>1, EventsViewerStep DEF FinishResync, Forget, Hears, TypeOK
<1>8. CASE Close(v)
  BY <1>8, EventsViewerStep DEF Close, Forget, Hears, TypeOK
<1> QED BY <1>1, <1>2, <1>3, <1>4, <1>5, <1>6, <1>7, <1>8 DEF ViewerStep

LEMMA EventsStep == TypeOK /\ EventsInv /\ [Next]_vars => EventsInv'
<1> SUFFICES ASSUME TypeOK, EventsInv, [Next]_vars PROVE EventsInv'
  OBVIOUS
<1>1. ASSUME NEW s \in Stream, StreamStep(s) PROVE EventsInv'
  BY <1>1, EventsMessage, EventsEnd, EventsMarkDisconnected, EventsMarkConnected, EventsReadPanel,
     EventsPublish DEF StreamStep
<1>2. CASE UNCHANGED vars
  <2>1. \A s \in Stream : Telling(s)' <=> Telling(s)
    BY <1>2 DEF Telling, Publishing, PublishedPanel, vars, tasks
  <2> QED BY <1>2, <2>1, EventsSilentTask DEF vars, tasks
<1> QED BY <1>1, <1>2, EventsViewer DEF Next

\* While no two publishes have overlapped, a head referee's event stream alone
\* has the presence right as soon as the tasks rest and its queue is taken: what
\* it missed before its first snapshot is in that snapshot, and a snapshot that
\* was overtaken while it was read is corrected by the event that overtook it
\* (head_referee/api.rs:78-84, presence.rs:13-22).
THEOREM EventsAreEnough == Spec => []EventsKeepUp
<1>1. EventsInv => EventsKeepUp
  <2> SUFFICES ASSUME EventsInv, ~raced, Quiet, NEW v \in Viewer, viewer[v] = "live", queue[v] = <<>>
               PROVE  cached[v] = Actual
    BY DEF EventsKeepUp
  <2>1. \A s \in Stream : ~Telling(s)
    BY DEF Quiet, Telling, Publishing
  <2>2. Hears(v)
    BY DEF Hears
  <2>3. UpToDate(v)
    BY <2>1, <2>2 DEF EventsInv, ViewersUpToDate
  <2> QED BY <2>3 DEF UpToDate, Newest
<1> QED BY <1>1, EventsInit, EventsStep, TypeCorrect, PTL DEF Spec
=============================================================================
