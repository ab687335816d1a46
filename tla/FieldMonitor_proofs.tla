------------------------ MODULE FieldMonitor_proofs ------------------------
(***************************************************************************)
(* Theorems about the field monitor: what it reports once it has caught up  *)
(* is what Cheesy Arena shows, it completes played matches only, and it     *)
(* resets the matches that are replayed and no other.  For any matches, any *)
(* number of messages on their way and any number of lost connections,      *)
(* replays and restarts.                                                   *)
(***************************************************************************)
EXTENDS FieldMonitor, SequenceTheorems, TLAPS

-----------------------------------------------------------------------------
(* Types.                                                                  *)

\* The two ways to tell a change of state.
LEMMA TurnIsMessage ==
  ASSUME NEW a \in [match : Match, state : State], NEW m \in {ArenaStatus(a), MatchTime(a)}
  PROVE  /\ m \in Message /\ m.type \in {"arenaStatus", "matchTime"} /\ m.state = a.state
         /\ m.type = "arenaStatus" => m.match = a.match
<1>1. CASE m = ArenaStatus(a)
  BY <1>1 DEF ArenaStatus, Message
<1>2. CASE m = MatchTime(a)
  BY <1>2 DEF MatchTime, Message
<1> QED BY <1>1, <1>2

\* What Cheesy Arena announces in one go.
LEMMA NewsIsMessages ==
  ASSUME NEW a \in [match : Match, state : State]
  PROVE  ArenaStatus(a) \in Message /\ MatchLoad(a) \in Message /\ MatchTime(a) \in Message
BY DEF ArenaStatus, MatchLoad, MatchTime, Message

LEMMA EventStatusIsMessage == \A known \in BOOLEAN : EventStatus(known) \in Message
BY DEF Message, EventStatus

\* The longer queue, message by message.
LEMMA QueueOfOne ==
  ASSUME NEW w \in Seq(Message), NEW m \in Message
  PROVE  /\ w \o <<m>> \in Seq(Message) /\ Len(w \o <<m>>) = Len(w) + 1
         /\ \A i \in 1..Len(w) : (w \o <<m>>)[i] = w[i]
         /\ (w \o <<m>>)[Len(w) + 1] = m
<1>1. <<m>> \in Seq(Message) /\ Len(<<m>>) = 1 /\ <<m>>[1] = m
  OBVIOUS
<1> QED BY <1>1, ConcatProperties

LEMMA QueueOfTwo ==
  ASSUME NEW w \in Seq(Message), NEW m \in Message, NEW n \in Message
  PROVE  w \o <<m, n>> = (w \o <<m>>) \o <<n>>
<1> DEFINE s == <<m, n>>
           t == w \o <<m>>
<1>1. s \in Seq(Message) /\ Len(s) = 2 /\ s[1] = m /\ s[2] = n
  OBVIOUS
<1>2. w \in Seq(Message) /\ Len(w) \in Nat /\ t \in Seq(Message) /\ Len(t) = Len(w) + 1
  BY QueueOfOne, LenProperties
<1>3. /\ w \o s \in Seq(Message) /\ Len(w \o s) = Len(w) + 2
      /\ \A i \in 1..(Len(w) + 2) : (w \o s)[i] = IF i <= Len(w) THEN w[i] ELSE s[i - Len(w)]
  <2> HIDE DEF s, t
  <2>1. /\ w \o s \in Seq(Message) /\ Len(w \o s) = Len(w) + Len(s)
        /\ \A i \in 1..(Len(w) + Len(s)) :
             (w \o s)[i] = IF i <= Len(w) THEN w[i] ELSE s[i - Len(w)]
    BY <1>1, <1>2, ConcatProperties
  <2> QED BY <1>1, <2>1
<1>4. /\ t \o <<n>> \in Seq(Message) /\ Len(t \o <<n>>) = Len(w) + 2
      /\ \A i \in 1..(Len(w) + 1) : (t \o <<n>>)[i] = t[i]
      /\ (t \o <<n>>)[Len(w) + 2] = n
  <2> HIDE DEF s, t
  <2>1. Len(t) + 1 = Len(w) + 2
    BY <1>2
  <2> QED BY <1>2, <2>1, QueueOfOne
<1>5. (\A i \in 1..Len(w) : t[i] = w[i]) /\ t[Len(w) + 1] = m
  BY QueueOfOne
<1>6. ASSUME NEW i \in 1..(Len(w) + 2) PROVE (w \o s)[i] = (t \o <<n>>)[i]
  <2> HIDE DEF s, t
  <2>1. CASE i \in 1..Len(w)
    BY <1>2, <1>3, <1>4, <1>5, <2>1
  <2>2. CASE i = Len(w) + 1
    <3>1. i - Len(w) = 1 /\ ~(i <= Len(w))
      BY <1>2, <2>2
    <3> QED BY <1>1, <1>2, <1>3, <1>4, <1>5, <2>2, <3>1
  <2>3. CASE i = Len(w) + 2
    <3>1. i - Len(w) = 2 /\ ~(i <= Len(w))
      BY <1>2, <2>3
    <3> QED BY <1>1, <1>2, <1>3, <1>4, <2>3, <3>1
  <2>4. i \in 1..Len(w) \/ i = Len(w) + 1 \/ i = Len(w) + 2
    BY <1>2
  <2> QED BY <2>1, <2>2, <2>3, <2>4
<1> HIDE DEF s, t
<1>7. w \o s = t \o <<n>>
  BY <1>3, <1>4, <1>6, SeqEqual
<1> QED BY <1>7 DEF s, t

\* Whatever a step of Cheesy Arena announces, one message after the other.
LEMMA AnnouncedTypes ==
  ASSUME TypeOK, NEW m \in Message, NEW n \in Message
  PROVE  wire \o <<m>> \in Seq(Message) /\ wire \o <<m, n>> \in Seq(Message)
BY QueueOfOne, QueueOfTwo DEF TypeOK

\* What a monitor starts with, and starts with again.
LEMMA FreshTypes ==
  /\ FreshAccumulator \in [match : Match, state : State, completed : Scheduled \cup {None},
                          pending : Scheduled \cup {None}, cycle : BOOLEAN, estimate : BOOLEAN]
  /\ NoEffect \in [report : BOOLEAN, completed : Scheduled \cup {None}, reset : Scheduled \cup {None}]
  /\ NoInfo \in [match : Match \cup {None}, state : State]
  /\ Blank \in Record
BY MonitorAssumption DEF FreshAccumulator, NoEffect, NoInfo, Blank, Record, State

LEMMA TypeInit == Init => TypeOK
<1> SUFFICES ASSUME Init PROVE TypeOK
  OBVIOUS
<1>1. arena \in [match : Match, state : State] /\ credit \in [Match -> 0..MaxCredit]
  BY MonitorAssumption DEF Init, State
<1>2. records \in [Match -> Record]
  BY FreshTypes DEF Init
<1> QED BY <1>1, <1>2, FreshTypes, EmptySeq DEF Init, TypeOK, Scheduled

LEMMA ReturnTypes ==
  ASSUME TypeOK, NEW m \in Match, Return(m)
  PROVE  finished' \subseteq finished /\ credit' \in [Match -> 0..MaxCredit]
<1>1. credit \in [Match -> 0..MaxCredit] /\ MaxCredit \in Nat
  BY MonitorAssumption DEF TypeOK
<1>2. credit' \in [Match -> 0..MaxCredit]
  BY <1>1 DEF Return
<1> QED BY <1>2 DEF Return

\* Cheesy Arena's steps.
LEMMA TypeArena ==
  ASSUME TypeOK
  PROVE  /\ \A m \in Match : Load(m) => TypeOK'
         /\ Start => TypeOK'
         /\ Teleop => TypeOK'
         /\ Finish => TypeOK'
         /\ Discard => TypeOK'
<1>1. ASSUME NEW m \in Match, Load(m) PROVE TypeOK'
  <2>1. arena' \in [match : Match, state : State]
    BY <1>1 DEF Load, State
  <2>2. wire' \in Seq(Message)
    BY <1>1, <2>1, NewsIsMessages, AnnouncedTypes DEF Load, Announce, TypeOK
  <2> QED BY <1>1, <2>1, <2>2, ReturnTypes DEF Load, Announce, TypeOK, monitor, status
<1>2. ASSUME NEW to \in State, Turn(to), TypeOK
      PROVE  arena' \in [match : Match, state : State] /\ wire' \in Seq(Message)
  <2>1. arena' \in [match : Match, state : State]
    BY <1>2 DEF Turn, TypeOK
  <2>2. wire' \in Seq(Message)
    BY <1>2, <2>1, NewsIsMessages, AnnouncedTypes DEF Turn, Announce, TypeOK
  <2> QED BY <2>1, <2>2
<1>3. ASSUME Start PROVE TypeOK'
  <2>1. arena' \in [match : Match, state : State]
    BY <1>3 DEF Start, TypeOK, State
  <2>2. wire' \in Seq(Message)
    BY <1>3, <2>1, NewsIsMessages, EventStatusIsMessage, AnnouncedTypes DEF Start, Announce, TypeOK
  <2> QED BY <1>3, <2>1, <2>2 DEF Start, Announce, TypeOK, monitor, status
<1>4. ASSUME Teleop PROVE TypeOK'
  <2>1. arena' \in [match : Match, state : State] /\ wire' \in Seq(Message)
    BY <1>4, <1>2 DEF Teleop, State
  <2> QED BY <1>4, <2>1 DEF Teleop, Turn, Announce, TypeOK, monitor, status, history
<1>5. ASSUME Finish PROVE TypeOK'
  <2>1. arena' \in [match : Match, state : State] /\ wire' \in Seq(Message)
    BY <1>5, <1>2 DEF Finish, State
  <2> QED BY <1>5, <2>1 DEF Finish, Turn, Announce, TypeOK, monitor, status, Scheduled
<1>6. ASSUME Discard PROVE TypeOK'
  <2>1. arena' \in [match : Match, state : State] /\ wire' \in Seq(Message)
    BY <1>6, <1>2 DEF Discard, State
  <2>2. finished' \subseteq finished /\ credit' \in [Match -> 0..MaxCredit]
    BY <1>6, ReturnTypes DEF Discard, TypeOK
  <2> QED BY <1>6, <2>1, <2>2 DEF Discard, Turn, Announce, TypeOK, monitor, status
<1> QED BY <1>1, <1>3, <1>4, <1>5, <1>6

\* What the accumulator becomes, piece by piece.
LEMMA AccumulatorTypes ==
  ASSUME TypeOK, online, wire # <<>>
  PROVE  LET a == Merged(acc, Head(wire))
             b == AfterCompleted(a)
         IN  /\ Head(wire) \in Message /\ Tail(wire) \in Seq(Message)
             /\ a.match \in Match /\ a.state \in State
             /\ a.completed = acc.completed /\ a.pending = acc.pending
             /\ b.match = a.match /\ b.state = a.state /\ b.pending = a.pending
             /\ {a, b, AfterReset(b)} \subseteq
                  [match : Match, state : State, completed : Scheduled \cup {None},
                   pending : Scheduled \cup {None}, cycle : BOOLEAN, estimate : BOOLEAN]
             /\ AfterReset(b).match = a.match /\ AfterReset(b).state = a.state
<1> DEFINE Acc == [match : Match, state : State, completed : Scheduled \cup {None},
                   pending : Scheduled \cup {None}, cycle : BOOLEAN, estimate : BOOLEAN]
           m == Head(wire)
           a == Merged(acc, m)
           b == AfterCompleted(a)
<1>1. m \in Message /\ Tail(wire) \in Seq(Message)
  BY HeadTailProperties DEF TypeOK
<1>2. a \in Acc /\ a.completed = acc.completed /\ a.pending = acc.pending
  <2>1. acc \in Acc
    BY DEF TypeOK
  <2>2. \/ m.type = "arenaStatus" /\ m.match \in Match /\ m.state \in State
        \/ m.type = "matchLoad" /\ m.match \in Match
        \/ m.type = "matchTime" /\ m.state \in State
        \/ m.type = "eventStatus" /\ m.cycle \in BOOLEAN
    BY <1>1 DEF Message
  <2> HIDE DEF m
  <2>3. CASE m.type = "arenaStatus" /\ m.match \in Match /\ m.state \in State
    BY <2>1, <2>3 DEF Merged
  <2>4. CASE m.type = "matchLoad" /\ m.match \in Match
    BY <2>1, <2>4 DEF Merged
  <2>5. CASE m.type = "matchTime" /\ m.state \in State
    BY <2>1, <2>5 DEF Merged
  <2>6. CASE m.type = "eventStatus" /\ m.cycle \in BOOLEAN
    BY <2>1, <2>6 DEF Merged
  <2> QED BY <2>2, <2>3, <2>4, <2>5, <2>6
<1>3. b \in Acc /\ b.match = a.match /\ b.state = a.state /\ b.pending = a.pending
  BY <1>2 DEF AfterCompleted, Completes, Scheduled
<1>4. AfterReset(b) \in Acc /\ AfterReset(b).match = b.match /\ AfterReset(b).state = b.state
  BY <1>3 DEF AfterReset, Resets, Scheduled
<1> QED BY <1>1, <1>2, <1>3, <1>4

LEMMA TypeProcess ==
  ASSUME TypeOK, Process
  PROVE  TypeOK'
<1> DEFINE m == Head(wire)
           a == Merged(acc, m)
           b == AfterCompleted(a)
<1>1. /\ a.match \in Match
      /\ {a, b, AfterReset(b)} \subseteq
           [match : Match, state : State, completed : Scheduled \cup {None},
            pending : Scheduled \cup {None}, cycle : BOOLEAN, estimate : BOOLEAN]
      /\ b.match = a.match
  BY AccumulatorTypes DEF Process
<1>2. wire' \in Seq(Message)
  BY AccumulatorTypes DEF Process
<1>3. /\ acc' \in {a, AfterReset(b)}
      /\ todo' \in [report : BOOLEAN, completed : {None, a.match}, reset : {None, a.match}]
      /\ todo'.completed # None => Completes(a)
      /\ todo'.reset # None => Resets(b)
  BY DEF Process
<1>4. todo' \in [report : BOOLEAN, completed : Scheduled \cup {None}, reset : Scheduled \cup {None}]
  BY <1>1, <1>3 DEF Completes, Resets, Scheduled
<1>5. mcopy = None
  BY DEF Process, TypeOK, NoEffect
<1> QED BY <1>1, <1>2, <1>3, <1>4, <1>5 DEF Process, TypeOK, status, history

LEMMA TypeStep == TypeOK /\ [Next]_vars => TypeOK'
<1> SUFFICES ASSUME TypeOK, [Next]_vars PROVE TypeOK'
  OBVIOUS
<1>1. CASE Enter
  <2>1. arena.match \in Match /\ records[arena.match] \in Record
    BY DEF TypeOK
  <2>2. records' \in [Match -> Record]
    BY <1>1, <2>1 DEF Enter, TypeOK, Record
  <2> QED BY <1>1, <2>2 DEF Enter, TypeOK, monitor, status, history
<1>2. CASE Drop
  BY <1>2, EmptySeq DEF Drop, TypeOK, status
<1>3. CASE Connect
  <2>1. wire' \in Seq(Message)
    BY <1>3, NewsIsMessages DEF Connect, TypeOK
  <2> QED BY <1>3, <2>1 DEF Connect, TypeOK, status, history
<1>4. CASE Report
  <2>1. info' \in [match : Match \cup {None}, state : State]
    BY <1>4 DEF Report, TypeOK
  <2>2. /\ todo' \in [report : BOOLEAN, completed : Scheduled \cup {None},
                      reset : Scheduled \cup {None}]
        /\ todo'.completed = todo.completed
    BY <1>4 DEF Report, TypeOK
  <2> QED BY <1>4, <2>1, <2>2 DEF Report, TypeOK, status, history
<1>5. CASE MarkRead
  <2>1. mcopy' \in Record
    BY <1>5 DEF MarkRead, TypeOK, Record, Scheduled
  <2> QED BY <1>5, <2>1 DEF MarkRead, TypeOK, status, history
<1>6. CASE MarkWrite
  <2>1. todo' \in [report : BOOLEAN, completed : Scheduled \cup {None}, reset : Scheduled \cup {None}]
    BY <1>6 DEF MarkWrite, TypeOK
  <2>2. records' \in [Match -> Record] /\ mcopy' = None
    BY <1>6 DEF MarkWrite, TypeOK
  <2> QED BY <1>6, <2>1, <2>2 DEF MarkWrite, TypeOK, status, history
<1>7. CASE Reset \/ ResetFails
  <2>1. PICK outcome \in {"done", "failed"} : TryReset(outcome)
    BY <1>7 DEF Reset, ResetFails
  <2>2. todo.reset \in Match /\ todo.completed = None /\ mcopy = None
    BY <2>1 DEF TryReset, AtReset, TypeOK, Scheduled
  <2>3. credit' \in [Match -> 0..MaxCredit]
    BY <2>1, <2>2, MonitorAssumption DEF TryReset, TypeOK
  <2>4. records' \in [Match -> Record]
    <3>1. records \in [Match -> Record] /\ Blank \in Record
      BY DEF TypeOK, Record, Blank
    <3> QED BY <1>7, <3>1 DEF Reset, ResetFails
  <2>5. redo' \in {"no", "owed", "done", "failed"}
    BY <2>1 DEF TryReset, TypeOK
  <2> QED BY <2>1, <2>2, <2>3, <2>4, <2>5 DEF TryReset, TypeOK, NoEffect, Scheduled, status
<1>8. CASE Wake
  BY <1>8, MonitorAssumption DEF Wake, TypeOK, Scheduled, monitor, history
<1>9. CASE StatusRead
  BY <1>9 DEF StatusRead, TypeOK, Scheduled, monitor, history
<1>10. CASE StatusWrite
  BY <1>10 DEF StatusWrite, TypeOK, Scheduled, Record, Blank, monitor, history
<1>11. CASE Restart
  BY <1>11, MonitorAssumption, EmptySeq
     DEF Restart, TypeOK, FreshAccumulator, NoEffect, NoInfo, Record, Blank, Scheduled, State
<1>12. CASE MarkFails
  <2>1. todo' \in [report : BOOLEAN, completed : Scheduled \cup {None}, reset : Scheduled \cup {None}]
    BY <1>12 DEF MarkFails, TypeOK
  <2> QED BY <1>12, <2>1 DEF MarkFails, TypeOK, status, history
<1>13. CASE StatusFails
  BY <1>13 DEF StatusFails, TypeOK, Scheduled, Record, Blank, monitor, history
<1>14. CASE UNCHANGED vars
  BY <1>14 DEF vars, TypeOK, monitor, status, history
<1> QED
  BY <1>1, <1>2, <1>3, <1>4, <1>5, <1>6, <1>7, <1>8, <1>9, <1>10, <1>11, <1>12, <1>13, <1>14,
     TypeArena, TypeProcess
     DEF Next

\* Only scheduled matches are marked, reset and written to, and only matches
\* that were played count as finished (client.rs:128, 154, 490, 508).
THEOREM TypeCorrect == Spec => []TypeOK
BY TypeInit, TypeStep, PTL DEF Spec

-----------------------------------------------------------------------------
(* What a queue of messages tells.                                         *)

MatchTypes == {"arenaStatus", "matchLoad"}
StateTypes == {"arenaStatus", "matchTime"}

\* Position j holds the last of the first i messages whose type is in T; zero
\* if there is none.
Last(w, T, i, j) ==
  /\ j \in 0..i /\ (j # 0 => w[j].type \in T)
  /\ \A k \in (j + 1)..i : w[k].type \notin T

\* After i messages the accumulator that started with match f (state f) has x.
MatchIs(w, i, f, x) ==
  \E j \in 0..i : Last(w, MatchTypes, i, j) /\ x = IF j = 0 THEN f ELSE w[j].match
StateIs(w, i, f, x) ==
  \E j \in 0..i : Last(w, StateTypes, i, j) /\ x = IF j = 0 THEN f ELSE w[j].state

\* The messages of w take an accumulator with match f and state g to what Cheesy
\* Arena shows now, and by any of them that says PostMatch the accumulator
\* has a match that was played.
Told(w, f, g, a, p) ==
  /\ MatchIs(w, Len(w), f, a.match)
  /\ StateIs(w, Len(w), g, a.state)
  /\ \A i \in 1..Len(w) : w[i].type \in StateTypes /\ w[i].state = "post" =>
       \E x \in p \cup {Idle} : MatchIs(w, i, f, x)

LEMMA LastGrows ==
  ASSUME NEW w \in Seq(Message), NEW m \in Message, NEW T, NEW i \in 0..Len(w), NEW j,
         Last(w, T, i, j)
  PROVE  /\ Last(w \o <<m>>, T, i, j)
         /\ j # 0 => (w \o <<m>>)[j] = w[j]
<1> DEFINE v == w \o <<m>>
<1>1. Len(w) \in Nat /\ j \in 0..i
  BY LenProperties DEF Last
<1>2. \A k \in 1..Len(w) : v[k] = w[k]
  BY QueueOfOne
<1> HIDE DEF v
<1>3. \A k \in (j + 1)..i : k \in 1..Len(w)
  BY <1>1
<1>4. j # 0 => j \in 1..Len(w)
  BY <1>1
<1>5. Last(v, T, i, j) /\ (j # 0 => v[j] = w[j])
  BY <1>1, <1>2, <1>3, <1>4 DEF Last
<1> QED BY <1>5 DEF v

LEMMA LastNew ==
  ASSUME NEW w \in Seq(Message), NEW m \in Message, NEW T
  PROVE  /\ (w \o <<m>>)[Len(w) + 1] = m
         /\ m.type \in T => Last(w \o <<m>>, T, Len(w) + 1, Len(w) + 1)
         /\ m.type \notin T =>
              \A j : Last(w, T, Len(w), j) => Last(w \o <<m>>, T, Len(w) + 1, j)
<1> DEFINE v == w \o <<m>>
           n == Len(w)
<1>1. n \in Nat /\ v[n + 1] = m
  BY LenProperties, QueueOfOne
<1>2. m.type \in T => Last(v, T, n + 1, n + 1)
  <2> HIDE DEF v, n
  <2>1. (n + 1 + 1)..(n + 1) = {} /\ n + 1 \in 0..(n + 1)
    BY <1>1
  <2> QED BY <1>1, <2>1 DEF Last
<1>3. ASSUME m.type \notin T, NEW j, Last(w, T, n, j) PROVE Last(v, T, n + 1, j)
  <2>1. Last(v, T, n, j)
    BY <1>1, <1>3, LastGrows
  <2> HIDE DEF v, n
  <2>2. \A k \in (j + 1)..(n + 1) : k = n + 1 \/ k \in (j + 1)..n
    BY <1>1, <2>1 DEF Last
  <2> QED BY <1>1, <1>3, <2>1, <2>2 DEF Last
<1> QED BY <1>1, <1>2, <1>3

LEMMA LastTail ==
  ASSUME NEW w \in Seq(Message), w # <<>>, NEW T, NEW i \in 1..Len(w), NEW j, Last(w, T, i, j)
  PROVE  /\ j = 0 => Head(w).type \notin T /\ Last(Tail(w), T, i - 1, 0)
         /\ j = 1 => Head(w).type \in T /\ Head(w) = w[1] /\ Last(Tail(w), T, i - 1, 0)
         /\ j > 1 => Tail(w)[j - 1] = w[j] /\ Last(Tail(w), T, i - 1, j - 1)
<1> DEFINE v == Tail(w)
           h == Head(w)
<1>1. /\ h = w[1] /\ Len(v) = Len(w) - 1
      /\ \A k \in 1..Len(v) : v[k] = w[k + 1]
  BY HeadTailProperties
<1>2. Len(w) \in Nat /\ j \in 0..i
  BY LenProperties DEF Last
<1>3. \A k \in 1..(i - 1) : v[k] = w[k + 1]
  <2> HIDE DEF v
  <2> QED BY <1>1, <1>2
<1> HIDE DEF v, h
<1>4. CASE j = 0
  <2>1. \A k \in 1..i : w[k].type \notin T
    BY <1>4 DEF Last
  <2>2. \A k \in 1..(i - 1) : k + 1 \in 1..i
    BY <1>2
  <2>3. 1 \in 1..i /\ 0 \in 0..(i - 1)
    BY <1>2
  <2> QED BY <1>1, <1>3, <1>4, <2>1, <2>2, <2>3 DEF Last, v, h
<1>5. CASE j = 1
  <2>1. \A k \in 2..i : w[k].type \notin T
    BY <1>5 DEF Last
  <2>2. \A k \in 1..(i - 1) : k + 1 \in 2..i
    BY <1>2
  <2>3. 0 \in 0..(i - 1) /\ w[1].type \in T
    BY <1>2, <1>5 DEF Last
  <2> QED BY <1>1, <1>3, <1>5, <2>1, <2>2, <2>3 DEF Last, v, h
<1>6. CASE j > 1
  <2>1. /\ \A k \in (j + 1)..i : w[k].type \notin T
        /\ w[j].type \in T
    BY <1>6 DEF Last
  <2>2. \A k \in j..(i - 1) : k \in 1..(i - 1) /\ k + 1 \in (j + 1)..i
    BY <1>2, <1>6
  <2>3. /\ j - 1 \in 0..(i - 1) /\ j - 1 \in 1..(i - 1) /\ (j - 1) + 1 = j
    BY <1>2, <1>6
  <2>4. v[j - 1] = w[j]
    BY <1>3, <2>3
  <2> QED BY <1>3, <1>6, <2>1, <2>2, <2>3, <2>4 DEF Last, v
<1> QED BY <1>2, <1>4, <1>5, <1>6

LEMMA ToldOne ==
  ASSUME NEW w \in Seq(Message), NEW m \in Message, NEW f, NEW g, NEW a, NEW b, NEW p, NEW q,
         Told(w, f, g, a, p), p \subseteq q,
         IF m.type \in MatchTypes THEN m.match = b.match ELSE b.match = a.match,
         IF m.type \in StateTypes THEN m.state = b.state ELSE b.state = a.state,
         m.type \in StateTypes /\ m.state = "post" => b.match \in q \cup {Idle}
  PROVE  Told(w \o <<m>>, f, g, b, q)
<1> DEFINE v == w \o <<m>>
           n == Len(w)
<1>1. n \in Nat /\ Len(v) = n + 1 /\ v[n + 1] = m /\ n + 1 # 0
  BY LenProperties, QueueOfOne
<1>2. \A i \in 1..n : v[i] = w[i]
  BY QueueOfOne
<1>3. MatchIs(v, n + 1, f, b.match)
  <2>1. CASE m.type \in MatchTypes
    <3>1. Last(v, MatchTypes, n + 1, n + 1)
      BY <2>1, LastNew
    <3> HIDE DEF v, n
    <3> QED BY <1>1, <2>1, <3>1 DEF MatchIs
  <2>2. CASE m.type \notin MatchTypes
    <3>1. PICK j \in 0..n : Last(w, MatchTypes, n, j) /\ a.match = IF j = 0 THEN f ELSE w[j].match
      BY DEF Told, MatchIs
    <3>2. Last(v, MatchTypes, n + 1, j)
      BY <2>2, <3>1, LastNew
    <3> HIDE DEF v, n
    <3>3. j \in 0..(n + 1) /\ (j # 0 => v[j] = w[j])
      BY <1>1, <1>2
    <3> QED BY <2>2, <3>1, <3>2, <3>3 DEF MatchIs
  <2> QED BY <2>1, <2>2
<1>4. StateIs(v, n + 1, g, b.state)
  <2>1. CASE m.type \in StateTypes
    <3>1. Last(v, StateTypes, n + 1, n + 1)
      BY <2>1, LastNew
    <3> HIDE DEF v, n
    <3> QED BY <1>1, <2>1, <3>1 DEF StateIs
  <2>2. CASE m.type \notin StateTypes
    <3>1. PICK j \in 0..n : Last(w, StateTypes, n, j) /\ a.state = IF j = 0 THEN g ELSE w[j].state
      BY DEF Told, StateIs
    <3>2. Last(v, StateTypes, n + 1, j)
      BY <2>2, <3>1, LastNew
    <3> HIDE DEF v, n
    <3>3. j \in 0..(n + 1) /\ (j # 0 => v[j] = w[j])
      BY <1>1, <1>2
    <3> QED BY <2>2, <3>1, <3>2, <3>3 DEF StateIs
  <2> QED BY <2>1, <2>2
<1>5. ASSUME NEW i \in 1..(n + 1), v[i].type \in StateTypes, v[i].state = "post"
      PROVE  \E x \in q \cup {Idle} : MatchIs(v, i, f, x)
  <2>1. CASE i = n + 1
    <3> HIDE DEF v, n
    <3> QED BY <1>1, <1>3, <1>5, <2>1
  <2>2. CASE i \in 1..n
    <3>1. PICK x \in p \cup {Idle} : MatchIs(w, i, f, x)
      BY <1>2, <1>5, <2>2 DEF Told
    <3>2. PICK j \in 0..i : Last(w, MatchTypes, i, j) /\ x = IF j = 0 THEN f ELSE w[j].match
      BY <3>1 DEF MatchIs
    <3>3. Last(v, MatchTypes, i, j) /\ (j # 0 => v[j] = w[j])
      <4>1. i \in 0..Len(w)
        BY <1>1, <2>2
      <4> QED BY <3>2, <4>1, LastGrows
    <3> HIDE DEF v, n
    <3>4. MatchIs(v, i, f, x)
      BY <3>2, <3>3 DEF MatchIs
    <3> QED BY <3>1, <3>4
  <2>3. i = n + 1 \/ i \in 1..n
    BY <1>1
  <2> QED BY <2>1, <2>2, <2>3
<1> HIDE DEF v, n
<1>6. Told(v, f, g, b, q)
  BY <1>1, <1>3, <1>4, <1>5 DEF Told
<1> QED BY <1>6 DEF v

\* Working off the first message.
LEMMA MatchTail ==
  ASSUME NEW w \in Seq(Message), w # <<>>, NEW i \in 1..Len(w), NEW f, NEW x, MatchIs(w, i, f, x)
  PROVE  MatchIs(Tail(w), i - 1, IF Head(w).type \in MatchTypes THEN Head(w).match ELSE f, x)
<1> DEFINE v == Tail(w)
           h == Head(w)
<1>1. PICK j \in 0..i : Last(w, MatchTypes, i, j) /\ x = IF j = 0 THEN f ELSE w[j].match
  BY DEF MatchIs
<1>2. /\ j = 0 => h.type \notin MatchTypes /\ Last(v, MatchTypes, i - 1, 0)
      /\ j = 1 => h.type \in MatchTypes /\ h = w[1] /\ Last(v, MatchTypes, i - 1, 0)
      /\ j > 1 => v[j - 1] = w[j] /\ Last(v, MatchTypes, i - 1, j - 1)
  BY <1>1, LastTail
<1>3. i \in Nat /\ i >= 1
  BY LenProperties
<1> HIDE DEF v, h
<1>4. j \in {0, 1} => 0 \in 0..(i - 1)
  BY <1>3
<1>5. j > 1 => j - 1 \in 0..(i - 1) /\ j - 1 # 0 /\ j # 0
  BY <1>3
<1>6. MatchIs(v, i - 1, IF h.type \in MatchTypes THEN h.match ELSE f, x)
  BY <1>1, <1>2, <1>3, <1>4, <1>5 DEF MatchIs
<1> QED BY <1>6 DEF v, h

LEMMA StateTail ==
  ASSUME NEW w \in Seq(Message), w # <<>>, NEW i \in 1..Len(w), NEW g, NEW x, StateIs(w, i, g, x)
  PROVE  StateIs(Tail(w), i - 1, IF Head(w).type \in StateTypes THEN Head(w).state ELSE g, x)
<1> DEFINE v == Tail(w)
           h == Head(w)
<1>1. PICK j \in 0..i : Last(w, StateTypes, i, j) /\ x = IF j = 0 THEN g ELSE w[j].state
  BY DEF StateIs
<1>2. /\ j = 0 => h.type \notin StateTypes /\ Last(v, StateTypes, i - 1, 0)
      /\ j = 1 => h.type \in StateTypes /\ h = w[1] /\ Last(v, StateTypes, i - 1, 0)
      /\ j > 1 => v[j - 1] = w[j] /\ Last(v, StateTypes, i - 1, j - 1)
  BY <1>1, LastTail
<1>3. i \in Nat /\ i >= 1
  BY LenProperties
<1> HIDE DEF v, h
<1>4. j \in {0, 1} => 0 \in 0..(i - 1)
  BY <1>3
<1>5. j > 1 => j - 1 \in 0..(i - 1) /\ j - 1 # 0 /\ j # 0
  BY <1>3
<1>6. StateIs(v, i - 1, IF h.type \in StateTypes THEN h.state ELSE g, x)
  BY <1>1, <1>2, <1>3, <1>4, <1>5 DEF StateIs
<1> QED BY <1>6 DEF v, h

LEMMA ToldTail ==
  ASSUME NEW w \in Seq(Message), w # <<>>, NEW f, NEW g, NEW a, NEW p, Told(w, f, g, a, p)
  PROVE  Told(Tail(w), IF Head(w).type \in MatchTypes THEN Head(w).match ELSE f,
              IF Head(w).type \in StateTypes THEN Head(w).state ELSE g, a, p)
<1> DEFINE v == Tail(w)
           n == Len(w)
           ff == IF Head(w).type \in MatchTypes THEN Head(w).match ELSE f
           gg == IF Head(w).type \in StateTypes THEN Head(w).state ELSE g
<1>1. /\ n \in Nat \ {0} /\ Len(v) = n - 1 /\ n \in 1..n
      /\ \A k \in 1..(n - 1) : v[k] = w[k + 1]
  BY HeadTailProperties, EmptySeq
<1>2. MatchIs(v, n - 1, ff, a.match)
  BY <1>1, MatchTail DEF Told
<1>3. StateIs(v, n - 1, gg, a.state)
  BY <1>1, StateTail DEF Told
<1>4. ASSUME NEW k \in 1..(n - 1), v[k].type \in StateTypes, v[k].state = "post"
      PROVE  \E x \in p \cup {Idle} : MatchIs(v, k, ff, x)
  <2>1. k + 1 \in 1..n /\ (k + 1) - 1 = k
    BY <1>1
  <2>2. w[k + 1].type \in StateTypes /\ w[k + 1].state = "post"
    BY <1>1, <1>4
  <2>3. PICK x \in p \cup {Idle} : MatchIs(w, k + 1, f, x)
    BY <2>1, <2>2 DEF Told
  <2>4. MatchIs(v, (k + 1) - 1, ff, x)
    BY <2>1, <2>3, MatchTail
  <2> QED BY <2>1, <2>3, <2>4
<1> HIDE DEF v, n, ff, gg
<1>5. Told(v, ff, gg, a, p)
  BY <1>1, <1>2, <1>3, <1>4 DEF Told
<1> QED BY <1>5 DEF v, ff, gg

\* A new connection is told match and state before anything else.
LEMMA ToldOnConnect ==
  ASSUME NEW a \in [match : Match, state : State], NEW f, NEW g, NEW p,
         a.state = "post" => a.match \in p \cup {Idle}
  PROVE  Told(<<ArenaStatus(a), MatchLoad(a), MatchTime(a)>>, f, g, a, p)
<1> DEFINE w == <<ArenaStatus(a), MatchLoad(a), MatchTime(a)>>
<1>1. /\ Len(w) = 3
      /\ w[1].type = "arenaStatus" /\ w[1].match = a.match /\ w[1].state = a.state
      /\ w[2].type = "matchLoad" /\ w[2].match = a.match
      /\ w[3].type = "matchTime" /\ w[3].state = a.state
  BY DEF ArenaStatus, MatchLoad, MatchTime
<1> HIDE DEF w
<1>2. Last(w, MatchTypes, 1, 1) /\ Last(w, MatchTypes, 3, 2) /\ Last(w, StateTypes, 3, 3)
  <2>1. (1 + 1)..1 = {} /\ (2 + 1)..3 = {3} /\ (3 + 1)..3 = {}
    OBVIOUS
  <2> QED BY <1>1, <2>1 DEF Last, MatchTypes, StateTypes
<1>3. MatchIs(w, 1, f, a.match) /\ MatchIs(w, 3, f, a.match) /\ StateIs(w, 3, g, a.state)
  BY <1>1, <1>2 DEF MatchIs, StateIs
<1>4. \A i \in 1..3 : w[i].type \in StateTypes => i \in {1, 3} /\ w[i].state = a.state
  BY <1>1 DEF StateTypes
<1>5. Told(w, f, g, a, p)
  BY <1>1, <1>3, <1>4 DEF Told
<1> QED BY <1>5 DEF w

-----------------------------------------------------------------------------
(* The invariant.                                                          *)

\* Only played matches are completed, in the records, in what is about to be
\* done, and in the status monitor's copy.
PlayedInv ==
  /\ arena.state = "post" => arena.match \in played \cup {Idle}
  /\ todo.completed # None => todo.completed \in played
  /\ \A m \in Match : records[m].completed => m \in played
  /\ scopy.completed => target \in played

\* Something that will be reported waits, or the report is what the accumulator
\* has.
Reported ==
  \/ todo.report
  \/ info = [match |-> acc.match, state |-> acc.state]
  \/ \E i \in 1..Len(wire) : wire[i].type # "eventStatus"

ToldInv == online => Told(wire, acc.match, acc.state, arena, played) /\ Reported

MonitorInv == TypeOK /\ PlayedInv /\ ToldInv

\* What a step of Cheesy Arena leaves alone.
LEMMA AnnounceLeaves ==
  ASSUME PlayedInv, NEW news, Announce(news), played \subseteq played',
         arena'.state = "post" => arena'.match \in played' \cup {Idle}
  PROVE  PlayedInv'
BY DEF PlayedInv, Announce, monitor, status

LEMMA ReportedNews ==
  ASSUME TypeOK, NEW m \in Message, NEW n \in Message, m.type # "eventStatus",
         wire' \in {wire \o <<m>>, wire \o <<m, n>>}
  PROVE  Reported'
<1> DEFINE v == wire \o <<m>>
<1>1. wire \in Seq(Message) /\ Len(wire) \in Nat
  BY LenProperties DEF TypeOK
<1>2. v \in Seq(Message) /\ Len(v) = Len(wire) + 1 /\ v[Len(wire) + 1] = m
  BY <1>1, QueueOfOne
<1>3. wire' \in {v, v \o <<n>>}
  BY <1>1, QueueOfTwo
<1> HIDE DEF v
<1>4. Len(v) \in 1..Len(wire') /\ wire'[Len(v)] = m
  <2>1. CASE wire' = v
    BY <1>1, <1>2, <2>1
  <2>2. CASE wire' = v \o <<n>>
    <3>1. Len(v \o <<n>>) = Len(v) + 1 /\ \A i \in 1..Len(v) : (v \o <<n>>)[i] = v[i]
      BY <1>2, QueueOfOne
    <3> QED BY <1>1, <1>2, <2>2, <3>1
  <2> QED BY <1>3, <2>1, <2>2
<1> QED BY <1>4 DEF Reported

LEMMA TurnKeeps ==
  ASSUME MonitorInv, NEW to \in State, Turn(to), played \subseteq played',
         to = "post" => arena.match \in played' \cup {Idle}
  PROVE  PlayedInv' /\ ToldInv'
<1>1. arena' = [arena EXCEPT !.state = to]
  BY DEF Turn
<1>2. /\ arena' \in [match : Match, state : State]
      /\ arena'.match = arena.match /\ arena'.state = to
  BY <1>1 DEF MonitorInv, TypeOK
<1>3. PICK m \in {ArenaStatus(arena'), MatchTime(arena')} : Announce(<<m>>)
  BY DEF Turn
<1>4. PlayedInv'
  BY <1>2, <1>3, AnnounceLeaves DEF MonitorInv
<1>5. /\ m \in Message /\ m.type \in StateTypes /\ m.state = to
      /\ m.type \in MatchTypes => m.match = arena.match
      /\ m.type # "eventStatus"
  BY <1>2, <1>3, TurnIsMessage DEF StateTypes, MatchTypes
<1>6. ASSUME online PROVE ToldInv'
  <2>1. Told(wire, acc.match, acc.state, arena, played) /\ wire \in Seq(Message)
    BY <1>6 DEF MonitorInv, ToldInv, TypeOK
  <2>2. wire' = wire \o <<m>> /\ acc' = acc
    BY <1>3, <1>6 DEF Announce, monitor
  <2>3. Told(wire \o <<m>>, acc.match, acc.state, arena', played')
    BY <1>2, <1>5, <2>1, ToldOne
  <2>4. Reported'
    BY <1>5, <2>2, ReportedNews DEF MonitorInv
  <2> QED BY <2>2, <2>3, <2>4 DEF ToldInv
<1>7. ~online => ToldInv'
  BY <1>3 DEF Announce, monitor, ToldInv
<1> QED BY <1>4, <1>6, <1>7

LEMMA LoadKeeps ==
  ASSUME MonitorInv, NEW m \in Match, Load(m)
  PROVE  PlayedInv' /\ ToldInv'
<1>1. /\ arena' = [match |-> m, state |-> "pre"] /\ played' = played
      /\ Announce(<<MatchLoad(arena'), ArenaStatus(arena')>>)
  BY DEF Load
<1>2. arena' \in [match : Match, state : State] /\ arena'.match = m /\ arena'.state = "pre"
  BY <1>1 DEF State
<1>3. PlayedInv'
  BY <1>1, <1>2, AnnounceLeaves DEF MonitorInv
<1> DEFINE x == MatchLoad(arena')
           y == ArenaStatus(arena')
           mid == [match |-> m, state |-> arena.state]
<1>4. /\ x \in Message /\ x.type = "matchLoad" /\ x.match = m
      /\ y \in Message /\ y.type = "arenaStatus" /\ y.match = m /\ y.state = "pre"
  BY <1>2, NewsIsMessages DEF MatchLoad, ArenaStatus
<1>5. mid.match = m /\ mid.state = arena.state
  OBVIOUS
<1>6. ASSUME online PROVE ToldInv'
  <2>1. Told(wire, acc.match, acc.state, arena, played) /\ wire \in Seq(Message)
    BY <1>6 DEF MonitorInv, ToldInv, TypeOK
  <2>2. wire' = wire \o <<x, y>> /\ acc' = acc
    BY <1>1, <1>6 DEF Announce, monitor
  <2> HIDE DEF x, y, mid
  <2>3. Told(wire \o <<x>>, acc.match, acc.state, mid, played)
    <3>1. x.type \in MatchTypes /\ x.type \notin StateTypes
      BY <1>4 DEF MatchTypes, StateTypes
    <3> QED BY <1>4, <1>5, <2>1, <3>1, ToldOne
  <2>4. Told((wire \o <<x>>) \o <<y>>, acc.match, acc.state, arena', played)
    <3>1. y.type \in MatchTypes /\ y.type \in StateTypes
      BY <1>4 DEF MatchTypes, StateTypes
    <3>2. wire \o <<x>> \in Seq(Message)
      BY <1>4, <2>1, QueueOfOne
    <3> QED BY <1>2, <1>4, <2>3, <3>1, <3>2, ToldOne
  <2>5. wire \o <<x, y>> = (wire \o <<x>>) \o <<y>>
    BY <1>4, <2>1, QueueOfTwo
  <2>6. Reported'
    BY <1>4, <2>2, ReportedNews DEF MonitorInv
  <2> QED BY <1>1, <2>2, <2>4, <2>5, <2>6 DEF ToldInv
<1>7. ~online => ToldInv'
  BY <1>1 DEF Announce, monitor, ToldInv
<1> QED BY <1>3, <1>6, <1>7

LEMMA StartKeeps ==
  ASSUME MonitorInv, Start
  PROVE  PlayedInv' /\ ToldInv'
<1>1. arena' = [arena EXCEPT !.state = "auto"] /\ played' = played
  BY DEF Start
<1>2. /\ arena' \in [match : Match, state : State]
      /\ arena'.match = arena.match /\ arena'.state = "auto"
  BY <1>1 DEF MonitorInv, TypeOK, State
<1>3. PICK m \in {ArenaStatus(arena'), MatchTime(arena')}, known \in BOOLEAN :
        Announce(<<m, EventStatus(known)>>)
  BY DEF Start
<1>4. PlayedInv'
  BY <1>1, <1>2, <1>3, AnnounceLeaves DEF MonitorInv
<1> DEFINE e == EventStatus(known)
<1>5. /\ m \in Message /\ m.type \in StateTypes /\ m.state = "auto"
      /\ m.type \in MatchTypes => m.match = arena.match
      /\ m.type # "eventStatus"
      /\ e \in Message /\ e.type \notin StateTypes /\ e.type \notin MatchTypes
  BY <1>2, <1>3, TurnIsMessage, EventStatusIsMessage DEF EventStatus, StateTypes, MatchTypes
<1>6. ASSUME online PROVE ToldInv'
  <2>1. Told(wire, acc.match, acc.state, arena, played) /\ wire \in Seq(Message)
    BY <1>6 DEF MonitorInv, ToldInv, TypeOK
  <2>2. wire' = wire \o <<m, e>> /\ acc' = acc
    BY <1>3, <1>6 DEF Announce, monitor
  <2> HIDE DEF e
  <2>3. Told(wire \o <<m>>, acc.match, acc.state, arena', played)
    BY <1>2, <1>5, <2>1, ToldOne
  <2>4. wire \o <<m>> \in Seq(Message)
    BY <1>5, <2>1, QueueOfOne
  <2>5. Told((wire \o <<m>>) \o <<e>>, acc.match, acc.state, arena', played)
    BY <1>5, <2>3, <2>4, ToldOne
  <2>6. wire \o <<m, e>> = (wire \o <<m>>) \o <<e>>
    BY <1>5, <2>1, QueueOfTwo
  <2>7. Reported'
    BY <1>5, <2>2, ReportedNews DEF MonitorInv
  <2> QED BY <1>1, <2>2, <2>5, <2>6, <2>7 DEF ToldInv
<1>7. ~online => ToldInv'
  BY <1>3 DEF Announce, monitor, ToldInv
<1> QED BY <1>4, <1>6, <1>7

LEMMA MergedIs ==
  ASSUME TypeOK, NEW m \in Message
  PROVE  LET a == Merged(acc, m)
         IN  /\ a.match = IF m.type \in MatchTypes THEN m.match ELSE acc.match
             /\ a.state = IF m.type \in StateTypes THEN m.state ELSE acc.state
<1>1. \/ m.type = "arenaStatus"
      \/ m.type = "matchLoad"
      \/ m.type = "matchTime"
      \/ m.type = "eventStatus"
  BY DEF Message
<1>2. acc \in [match : Match, state : State, completed : Scheduled \cup {None},
               pending : Scheduled \cup {None}, cycle : BOOLEAN, estimate : BOOLEAN]
  BY DEF TypeOK
<1>3. CASE m.type = "arenaStatus"
  BY <1>2, <1>3 DEF Merged, MatchTypes, StateTypes
<1>4. CASE m.type = "matchLoad"
  BY <1>2, <1>4 DEF Merged, MatchTypes, StateTypes
<1>5. CASE m.type = "matchTime"
  BY <1>2, <1>5 DEF Merged, MatchTypes, StateTypes
<1>6. CASE m.type = "eventStatus"
  BY <1>2, <1>6 DEF Merged, MatchTypes, StateTypes
<1> QED BY <1>1, <1>3, <1>4, <1>5, <1>6

\* A message is processed: the accumulator follows the message, and a match that
\* completes is one the message says was played.
LEMMA ProcessKeeps ==
  ASSUME MonitorInv, Process
  PROVE  PlayedInv' /\ ToldInv'
<1> DEFINE m == Head(wire)
           a == Merged(acc, m)
           b == AfterCompleted(a)
<1>1. /\ TypeOK /\ online /\ wire # <<>> /\ wire \in Seq(Message)
      /\ Told(wire, acc.match, acc.state, arena, played) /\ Reported
      /\ online' = online /\ wire' = Tail(wire) /\ UNCHANGED <<arena, info, played, records>>
      /\ UNCHANGED <<scopy, target>>
  BY DEF MonitorInv, ToldInv, Process, TypeOK, status, history
<1>2. m \in Message /\ b.match = a.match /\ b.state = a.state
  BY <1>1, AccumulatorTypes
<1>3. /\ a.match = IF m.type \in MatchTypes THEN m.match ELSE acc.match
      /\ a.state = IF m.type \in StateTypes THEN m.state ELSE acc.state
  BY <1>1, <1>2, MergedIs
<1>4. acc'.match = a.match /\ acc'.state = a.state
  BY <1>1, AccumulatorTypes DEF Process
<1>5. Told(wire', acc'.match, acc'.state, arena, played)
  BY <1>1, <1>3, <1>4, ToldTail
<1>6. /\ todo'.report = (m.type # "eventStatus")
      /\ todo'.completed = IF Checked(m.type) /\ Completes(a) THEN a.match ELSE None
      /\ todo = NoEffect
  BY DEF Process
<1>7. Reported'
  <2>1. CASE m.type # "eventStatus"
    BY <1>6, <2>1 DEF Reported
  <2>2. CASE m.type = "eventStatus"
    <3>1. acc'.match = acc.match /\ acc'.state = acc.state
      BY <1>3, <1>4, <2>2 DEF MatchTypes, StateTypes
    <3>2. /\ m = wire[1] /\ Len(wire') = Len(wire) - 1 /\ Len(wire) \in Nat
          /\ \A i \in 1..Len(wire') : wire'[i] = wire[i + 1]
      BY <1>1, HeadTailProperties, LenProperties
    <3>3. CASE info = [match |-> acc.match, state |-> acc.state]
      BY <1>1, <3>1, <3>3 DEF Reported
    <3>4. ASSUME NEW i \in 1..Len(wire), wire[i].type # "eventStatus" PROVE Reported'
      <4>1. i # 1
        BY <2>2, <3>2, <3>4
      <4>2. i - 1 \in 1..Len(wire') /\ (i - 1) + 1 = i
        BY <3>2, <4>1
      <4>3. wire'[i - 1].type # "eventStatus"
        BY <3>2, <3>4, <4>2
      <4> QED BY <4>2, <4>3 DEF Reported
    <3>5. ~todo.report
      BY <1>6 DEF NoEffect
    <3> QED BY <1>1, <3>3, <3>4, <3>5 DEF Reported
  <2> QED BY <2>1, <2>2
<1>8. ASSUME Checked(m.type), Completes(a) PROVE a.match \in played
  <2>1. /\ m.type \in StateTypes /\ a.match # Idle /\ a.state = "post"
        /\ m = wire[1] /\ 1 \in 1..Len(wire)
    BY <1>1, <1>8, HeadTailProperties, EmptySeq DEF Checked, Completes, StateTypes
  <2>2. m.state = "post"
    BY <1>3, <2>1
  <2>3. PICK x \in played \cup {Idle} : MatchIs(wire, 1, acc.match, x)
    BY <1>1, <2>1, <2>2 DEF Told
  <2>4. MatchIs(Tail(wire), 1 - 1, a.match, x)
    BY <1>1, <1>3, <2>1, <2>3, MatchTail
  <2>5. 1 - 1 = 0 /\ 0..0 = {0}
    OBVIOUS
  <2>6. x = a.match
    BY <2>4, <2>5 DEF MatchIs
  <2> QED BY <2>1, <2>3, <2>6
<1>9. PlayedInv'
  BY <1>1, <1>6, <1>8 DEF PlayedInv, MonitorInv
<1> QED BY <1>1, <1>5, <1>7, <1>9 DEF ToldInv

LEMMA MonitorInit == Init => MonitorInv
BY TypeInit DEF Init, MonitorInv, PlayedInv, ToldInv, NoEffect, Blank

LEMMA MonitorStep == MonitorInv /\ [Next]_vars => MonitorInv'
<1> SUFFICES ASSUME MonitorInv, [Next]_vars PROVE MonitorInv'
  OBVIOUS
<1>1. TypeOK /\ TypeOK'
  BY TypeStep DEF MonitorInv
<1> SUFFICES PlayedInv' /\ ToldInv'
  BY <1>1 DEF MonitorInv
<1>2. CASE \E m \in Match : Load(m)
  BY <1>2, LoadKeeps
<1>3. CASE Start
  BY <1>3, StartKeeps
<1>4. CASE Teleop
  BY <1>4, TurnKeeps DEF Teleop, State, history
<1>5. CASE Finish
  BY <1>5, TurnKeeps DEF Finish, State
<1>6. CASE Discard
  BY <1>6, TurnKeeps DEF Discard, State
<1>7. CASE Enter
  <2>1. \A m \in Match : records'[m].completed = records[m].completed
    BY <1>1, <1>7 DEF Enter, TypeOK, Record
  <2> QED BY <1>7, <2>1 DEF Enter, MonitorInv, PlayedInv, ToldInv, Reported, monitor, status, history
<1>8. CASE Drop
  BY <1>8 DEF Drop, MonitorInv, PlayedInv, ToldInv, status
<1>9. CASE Connect
  <2>1. PlayedInv'
    BY <1>9 DEF Connect, MonitorInv, PlayedInv, status, history
  <2>2. Told(wire', acc.match, acc.state, arena, played)
    BY <1>1, <1>9, ToldOnConnect DEF Connect, MonitorInv, PlayedInv, TypeOK
  <2>3. Reported'
    <3>1. Len(wire') = 3 /\ wire'[1].type = "arenaStatus"
      BY <1>9 DEF Connect, ArenaStatus
    <3> QED BY <3>1 DEF Reported
  <2> QED BY <1>9, <2>1, <2>2, <2>3 DEF Connect, ToldInv, history
<1>10. CASE Process
  BY <1>10, ProcessKeeps
<1>11. CASE Report
  <2>1. todo'.completed = todo.completed
    BY <1>1, <1>11 DEF Report, TypeOK
  <2> QED BY <1>11, <2>1 DEF Report, MonitorInv, PlayedInv, ToldInv, Reported, status, history
<1>12. CASE MarkRead
  BY <1>12 DEF MarkRead, MonitorInv, PlayedInv, ToldInv, Reported, status, history
<1>13. CASE MarkWrite
  <2>1. todo.completed \in played /\ todo'.completed = None /\ todo'.report = todo.report
    BY <1>1, <1>13 DEF MarkWrite, TypeOK, MonitorInv, PlayedInv
  <2>2. \A m \in Match : records'[m].completed => m \in played
    BY <1>1, <1>13, <2>1 DEF MarkWrite, TypeOK, MonitorInv, PlayedInv
  <2> QED BY <1>13, <2>1, <2>2
          DEF MarkWrite, MonitorInv, PlayedInv, ToldInv, Reported, status, history
<1>14. CASE Reset \/ ResetFails
  <2>1. PICK outcome : TryReset(outcome)
    BY <1>14 DEF Reset, ResetFails
  <2>2. \A m \in Match : records'[m].completed => m \in played
    <3>1. /\ records \in [Match -> Record] /\ ~Blank.completed
          /\ \A m \in Match : records[m].completed => m \in played
      BY <1>1 DEF TypeOK, MonitorInv, PlayedInv, Blank
    <3>2. played' = played
      BY <2>1 DEF TryReset
    <3> QED BY <1>14, <3>1, <3>2 DEF Reset, ResetFails
  <2>3. ~todo.report /\ todo'.completed = None
    BY <2>1 DEF TryReset, AtReset, NoEffect
  <2> QED BY <2>1, <2>2, <2>3 DEF TryReset, MonitorInv, PlayedInv, ToldInv, Reported, status
<1>15. CASE Wake
  <2>1. ~scopy.completed \/ target \in played
    BY DEF MonitorInv, PlayedInv
  <2>2. spc = "next" => target = None
    BY <1>1 DEF TypeOK
  <2>3. None \notin played
    BY <1>1, MonitorAssumption DEF TypeOK, Scheduled
  <2> QED BY <1>15, <2>1, <2>2, <2>3
          DEF Wake, MonitorInv, PlayedInv, ToldInv, Reported, monitor, history
<1>16. CASE StatusRead
  <2>1. target \in Match
    BY <1>1, <1>16 DEF StatusRead, TypeOK, Scheduled
  <2> QED BY <1>16, <2>1
          DEF StatusRead, MonitorInv, PlayedInv, ToldInv, Reported, monitor, history
<1>17. CASE StatusWrite
  <2>1. \A m \in Match : records'[m].completed => m \in played
    BY <1>1, <1>17 DEF StatusWrite, TypeOK, MonitorInv, PlayedInv
  <2> QED BY <1>17, <2>1
          DEF StatusWrite, MonitorInv, PlayedInv, ToldInv, Reported, Blank, monitor, history
<1>18. CASE Restart
  BY <1>18 DEF Restart, MonitorInv, PlayedInv, ToldInv, NoEffect, Blank
<1>19. CASE UNCHANGED vars
  BY <1>19 DEF vars, MonitorInv, PlayedInv, ToldInv, Reported, monitor, status, history
<1>20. CASE MarkFails
  <2>1. todo'.completed = None /\ todo'.report = todo.report
    BY <1>1, <1>20 DEF MarkFails, TypeOK
  <2> QED BY <1>20, <2>1 DEF MarkFails, MonitorInv, PlayedInv, ToldInv, Reported, status, history
<1>21. CASE StatusFails
  BY <1>21 DEF StatusFails, MonitorInv, PlayedInv, ToldInv, Reported, Blank, monitor, history
<1> QED
  BY <1>2, <1>3, <1>4, <1>5, <1>6, <1>7, <1>8, <1>9, <1>10, <1>11, <1>12, <1>13, <1>14,
     <1>15, <1>16, <1>17, <1>18, <1>19, <1>20, <1>21
     DEF Next

LEMMA MonitorAlways == Spec => []MonitorInv
BY MonitorInit, MonitorStep, PTL DEF Spec

\* However many messages are under way and however often the connection is lost
\* and the server restarted: once all is worked off, the match and the state
\* that RefLink reports are Cheesy Arena's (client.rs:87-112, 325-333).
THEOREM ReportIsCurrent == Spec => []InfoIsCurrent
<1>1. MonitorInv => InfoIsCurrent
  <2> SUFFICES ASSUME MonitorInv, CaughtUp PROVE info = arena
    BY DEF InfoIsCurrent
  <2>1. /\ wire = <<>> /\ Len(wire) = 0 /\ 0..0 = {0}
        /\ Told(wire, acc.match, acc.state, arena, played) /\ Reported
        /\ ~todo.report /\ arena \in [match : Match, state : State]
    BY EmptySeq DEF CaughtUp, MonitorInv, ToldInv, TypeOK, NoEffect
  <2>2. arena.match = acc.match /\ arena.state = acc.state
    BY <2>1 DEF Told, MatchIs, StateIs
  <2>3. info = [match |-> acc.match, state |-> acc.state]
    BY <2>1 DEF Reported
  <2> QED BY <2>1, <2>2, <2>3
<1> QED BY <1>1, MonitorAlways, PTL

\* A match that is marked completed reached PostMatch: the state that completes
\* it never belongs to the match that was loaded before it (client.rs:118-123).
THEOREM CompletedMatchesWerePlayed == Spec => []CompletedWasPlayed
<1>1. MonitorInv => CompletedWasPlayed
  BY DEF MonitorInv, PlayedInv, CompletedWasPlayed
<1> QED BY <1>1, MonitorAlways, PTL

-----------------------------------------------------------------------------
(* Resets.                                                                 *)

\* What the accumulator is for a reset, and the resets it has asked for.
Heard == [match : Match, state : State, pending : Scheduled \cup {None}, resets : [Match -> Nat]]

\* y is x after message m, as Merged, AfterCompleted and AfterReset leave it.
Hears(x, m, y) ==
  LET checked == m.type \in StateTypes /\ y.match # Idle
      resets == checked /\ y.state = "pre" /\ x.pending = y.match
  IN  /\ y \in Heard
      /\ y.match = IF m.type \in MatchTypes THEN m.match ELSE x.match
      /\ y.state = IF m.type \in StateTypes THEN m.state ELSE x.state
      /\ y.pending = IF checked /\ y.state = "post" THEN y.match
                     ELSE IF resets THEN None ELSE x.pending
      /\ \A k \in Match :
           y.resets[k] = IF resets /\ k = y.match THEN x.resets[k] + 1 ELSE x.resets[k]

\* r[i] is the accumulator after the first i messages of w.
Course(w, r) ==
  /\ r \in [0..Len(w) -> Heard]
  /\ \A i \in 1..Len(w) : Hears(r[i - 1], w[i], r[i])

\* The resets of match m that x has asked for since o, with the one still to do.
One(b) == IF b THEN 1 ELSE 0
Due(x, o, t, m) == One(t = m) + x.resets[m] - o.resets[m]

\* The returns of a match pay for its resets; a play that has finished will pay
\* for the one that is armed.
Paid(x, o, t, c, f) ==
  \A m \in Match : /\ Due(x, o, t, m) <= c[m]
                   /\ Due(x, o, t, m) + One(x.pending = m) <= c[m] + One(m \in f)

Rises(x, y) == \A m \in Match : x.resets[m] <= y.resets[m]

Listens(w, r, t, c, f) ==
  /\ Course(w, r)
  /\ \A i \in 0..Len(w) : Paid(r[i], r[0], t, c, f)
  /\ \A i, j \in 0..Len(w) : i <= j => Rises(r[i], r[j])

\* x has heard what Cheesy Arena shows, and is armed if a match has finished.
Knows(x, a) ==
  /\ x.match = a.match /\ x.state = a.state
  /\ a.state = "post" /\ a.match # Idle => x.pending = a.match

\* The strengthening of ResetOnlyReplayed and RedoIsNoticed: along the messages
\* on their way every reset is paid for, and one that is owed is due.
ResetInv ==
  /\ ~online => todo = NoEffect
  /\ ~gap => online
  /\ arena.match # Idle => (arena.state = "post" <=> arena.match \in finished)
  /\ \E r : /\ Listens(wire, r, todo.reset, credit, finished)
            /\ r[0].match = acc.match /\ r[0].state = acc.state /\ r[0].pending = acc.pending
            /\ online => Knows(r[Len(wire)], arena)
            /\ ~gap /\ redo = "owed" /\ arena.match # Idle =>
                 Due(r[Len(wire)], r[0], todo.reset, arena.match) >= 1

LEMMA HearsSomething ==
  ASSUME NEW x \in Heard, NEW m \in Message
  PROVE  \E y : Hears(x, m, y)
<1> DEFINE f == IF m.type \in MatchTypes THEN m.match ELSE x.match
           s == IF m.type \in StateTypes THEN m.state ELSE x.state
           checked == m.type \in StateTypes /\ f # Idle
           resets == checked /\ s = "pre" /\ x.pending = f
           p == IF checked /\ s = "post" THEN f ELSE IF resets THEN None ELSE x.pending
           g == [k \in Match |-> IF resets /\ k = f THEN x.resets[k] + 1 ELSE x.resets[k]]
           y == [match |-> f, state |-> s, pending |-> p, resets |-> g]
<1>1. /\ m.type \in MatchTypes => m.match \in Match
      /\ m.type \in StateTypes => m.state \in State
  BY DEF Message, EventStatus, MatchTypes, StateTypes
<1>2. f \in Match /\ s \in State
  BY <1>1 DEF Heard
<1> HIDE DEF f, s
<1>3. p \in Scheduled \cup {None}
  BY <1>2 DEF Heard, Scheduled
<1>4. g \in [Match -> Nat]
  BY DEF Heard
<1> HIDE DEF p, g
<1>5. y \in Heard /\ y.match = f /\ y.state = s /\ y.pending = p /\ y.resets = g
  BY <1>2, <1>3, <1>4 DEF Heard
<1>6. \A k \in Match : g[k] = IF resets /\ k = f THEN x.resets[k] + 1 ELSE x.resets[k]
  BY DEF g
<1> HIDE DEF y
<1>7. Hears(x, m, y)
  BY <1>5, <1>6 DEF Hears, f, s, p
<1> QED BY <1>7

\* One more message, from a queue in which every reset is paid for.  Its own is
\* paid for if it tells of a match that is now finished if it says PostMatch,
\* and is not if it says PreMatch.
LEMMA PaidByNext ==
  ASSUME NEW x \in Heard, NEW o \in Heard, NEW m, NEW y, Hears(x, m, y),
         NEW t, NEW c \in [Match -> Nat], NEW f, Paid(x, o, t, c, f),
         m.type \in StateTypes /\ y.match # Idle =>
            (y.state = "post" => y.match \in f) /\ (y.state = "pre" => y.match \notin f)
  PROVE  Paid(y, o, t, c, f) /\ Rises(x, y)
<1>1. y \in Heard /\ x.resets \in [Match -> Nat] /\ y.resets \in [Match -> Nat] /\ o.resets \in [Match -> Nat]
  BY DEF Hears, Heard
<1> DEFINE checked == m.type \in StateTypes /\ y.match # Idle
           resets == checked /\ y.state = "pre" /\ x.pending = y.match
<1>2. Rises(x, y)
  <2> SUFFICES ASSUME NEW k \in Match PROVE x.resets[k] <= y.resets[k]
    BY DEF Rises
  <2>1. x.resets[k] \in Nat
    BY <1>1
  <2>2. y.resets[k] \in {x.resets[k], x.resets[k] + 1}
    BY DEF Hears
  <2> QED BY <2>1, <2>2
<1>3. ASSUME NEW k \in Match
      PROVE  /\ Due(y, o, t, k) <= c[k]
             /\ Due(y, o, t, k) + One(y.pending = k) <= c[k] + One(k \in f)
  <2>1. /\ x.resets[k] \in Nat /\ y.resets[k] \in Nat /\ o.resets[k] \in Nat /\ c[k] \in Nat
        /\ One(t = k) \in {0, 1} /\ One(k \in f) \in {0, 1}
    BY <1>1 DEF One
  <2>2. /\ Due(x, o, t, k) <= c[k]
        /\ Due(x, o, t, k) + One(x.pending = k) <= c[k] + One(k \in f)
    BY DEF Paid
  <2>3. CASE resets /\ k = y.match
    <3>1. y.resets[k] = x.resets[k] + 1 /\ y.pending # k /\ x.pending = k /\ k \notin f
      BY <2>3, MonitorAssumption DEF Hears
    <3> QED BY <2>1, <2>2, <3>1 DEF Due, One
  <2>4. CASE ~(resets /\ k = y.match)
    <3>1. y.resets[k] = x.resets[k]
      BY <2>4 DEF Hears
    <3>2. Due(y, o, t, k) = Due(x, o, t, k)
      BY <3>1 DEF Due
    <3>3. CASE y.pending # k \/ x.pending = k
      BY <2>1, <2>2, <3>2, <3>3 DEF One, Due
    <3>4. CASE y.pending = k /\ x.pending # k
      <4>1. k \in f
        BY <3>4, MonitorAssumption DEF Hears
      <4> QED BY <2>1, <2>2, <3>2, <4>1 DEF One, Due
    <3> QED BY <3>3, <3>4
  <2> QED BY <2>3, <2>4
<1> QED BY <1>2, <1>3 DEF Paid

LEMMA ListensStill ==
  ASSUME NEW w \in Seq(Message), NEW r, NEW t, NEW c \in [Match -> Nat], NEW f,
         Listens(w, r, t, c, f), NEW d \in [Match -> Nat], NEW g,
         \A k \in Match : c[k] <= d[k] /\ c[k] + One(k \in f) <= d[k] + One(k \in g)
  PROVE  Listens(w, r, t, d, g)
<1>1. ASSUME NEW i \in 0..Len(w) PROVE Paid(r[i], r[0], t, d, g)
  <2>1. Paid(r[i], r[0], t, c, f)
    BY <1>1 DEF Listens
  <2>2. r[i] \in Heard /\ r[0] \in Heard
    BY <1>1, LenProperties DEF Listens, Course
  <2>3. ASSUME NEW k \in Match
        PROVE  /\ Due(r[i], r[0], t, k) <= d[k]
               /\ Due(r[i], r[0], t, k) + One(r[i].pending = k) <= d[k] + One(k \in g)
    <3>1. /\ Due(r[i], r[0], t, k) \in Int
          /\ c[k] \in Nat /\ d[k] \in Nat
          /\ One(r[i].pending = k) \in Nat /\ One(k \in f) \in Nat /\ One(k \in g) \in Nat
      BY <2>2 DEF Due, One, Heard
    <3>2. /\ Due(r[i], r[0], t, k) <= c[k]
          /\ Due(r[i], r[0], t, k) + One(r[i].pending = k) <= c[k] + One(k \in f)
      BY <2>1 DEF Paid
    <3> QED BY <3>1, <3>2
  <2> QED BY <2>3 DEF Paid
<1> QED BY <1>1 DEF Listens

LEMMA ListensEnds ==
  ASSUME NEW w \in Seq(Message), NEW r, NEW t, NEW c, NEW f, Listens(w, r, t, c, f)
  PROVE  /\ r[0] \in Heard /\ r[Len(w)] \in Heard
         /\ Rises(r[0], r[Len(w)]) /\ Paid(r[0], r[0], t, c, f) /\ Paid(r[Len(w)], r[0], t, c, f)
<1>1. 0 \in 0..Len(w) /\ Len(w) \in 0..Len(w) /\ 0 <= Len(w)
  BY LenProperties
<1> QED BY <1>1 DEF Listens, Course

LEMMA ListensGrows ==
  ASSUME NEW w \in Seq(Message), NEW m \in Message, NEW r, NEW t,
         NEW c \in [Match -> Nat], NEW f, Listens(w, r, t, c, f),
         NEW y, Hears(r[Len(w)], m, y),
         m.type \in StateTypes /\ y.match # Idle =>
            (y.state = "post" => y.match \in f) /\ (y.state = "pre" => y.match \notin f)
  PROVE  /\ \E q : Listens(w \o <<m>>, q, t, c, f) /\ q[0] = r[0] /\ q[Len(w) + 1] = y
         /\ Rises(r[Len(w)], y)
<1> DEFINE n == Len(w)
           v == w \o <<m>>
<1>1. /\ n \in Nat /\ Len(v) = n + 1 /\ v[n + 1] = m
      /\ \A i \in 1..n : v[i] = w[i]
  BY QueueOfOne, LenProperties
<1>2. /\ r \in [0..n -> Heard]
      /\ \A i \in 1..n : Hears(r[i - 1], w[i], r[i])
      /\ \A i \in 0..n : Paid(r[i], r[0], t, c, f)
      /\ \A i, j \in 0..n : i <= j => Rises(r[i], r[j])
  BY DEF Listens, Course
<1>3. r[n] \in Heard /\ r[0] \in Heard /\ Paid(r[n], r[0], t, c, f)
  BY ListensEnds
<1>4. Hears(r[n], m, y)
  OBVIOUS
<1>5. y \in Heard
  BY DEF Hears
<1>6. Paid(y, r[0], t, c, f) /\ Rises(r[n], y)
  <2> HIDE DEF n
  <2> QED BY <1>3, <1>4, <1>5, PaidByNext
<1> DEFINE q == [i \in 0..(n + 1) |-> IF i = n + 1 THEN y ELSE r[i]]
<1> HIDE DEF n, v
<1>7. /\ q[n + 1] = y /\ q[0] = r[0] /\ (n + 1) - 1 = n /\ n + 1 \in 0..(n + 1)
      /\ \A i \in 0..n : q[i] = r[i]
      /\ \A i \in 1..n : i - 1 \in 0..n /\ i \in 0..n /\ i # n + 1
      /\ \A i \in 0..(n + 1) : i \in 0..n \/ i = n + 1
      /\ \A i \in 1..(n + 1) : i \in 1..n \/ i = n + 1
  BY <1>1
<1>8. q \in [0..(n + 1) -> Heard]
  BY <1>2, <1>5, <1>7
<1> HIDE DEF q
<1>9. Course(v, q)
  <2>1. ASSUME NEW i \in 1..(n + 1) PROVE Hears(q[i - 1], v[i], q[i])
    <3>1. CASE i \in 1..n
      BY <1>1, <1>2, <1>7, <3>1
    <3>2. CASE i = n + 1
      <4>1. q[i - 1] = r[n] /\ v[i] = m /\ q[i] = y
        BY <1>1, <1>7, <3>2
      <4> QED BY <1>4, <4>1
    <3> QED BY <1>7, <3>1, <3>2
  <2> QED BY <1>1, <1>8, <2>1 DEF Course
<1>10. \A i \in 0..(n + 1) : Paid(q[i], q[0], t, c, f)
  BY <1>2, <1>6, <1>7
<1>11. ASSUME NEW i \in 0..(n + 1), NEW j \in 0..(n + 1), i <= j PROVE Rises(q[i], q[j])
  <2>1. CASE j \in 0..n
    <3>1. i \in 0..n
      BY <1>1, <1>11, <2>1
    <3> QED BY <1>2, <1>7, <1>11, <2>1, <3>1
  <2>2. CASE j = n + 1 /\ i \in 0..n
    <3>1. Rises(r[i], r[n]) /\ r[i] \in Heard
      BY <1>1, <1>2, <2>2
    <3>2. ASSUME NEW k \in Match PROVE r[i].resets[k] <= y.resets[k]
      <4>1. r[i].resets[k] \in Nat /\ r[n].resets[k] \in Nat /\ y.resets[k] \in Nat
        BY <1>3, <1>5, <3>1 DEF Heard
      <4>2. r[i].resets[k] <= r[n].resets[k] /\ r[n].resets[k] <= y.resets[k]
        BY <1>6, <3>1 DEF Rises
      <4> QED BY <4>1, <4>2
    <3> QED BY <1>7, <2>2, <3>2 DEF Rises
  <2>3. CASE j = n + 1 /\ i = n + 1
    BY <1>5, <1>7, <2>3 DEF Rises, Heard
  <2> QED BY <1>7, <2>1, <2>2, <2>3
<1>12. Listens(v, q, t, c, f)
  BY <1>1, <1>9, <1>10, <1>11 DEF Listens
<1> QED BY <1>3, <1>4, <1>5, <1>6, <1>7, <1>12 DEF n, v

\* A step of Cheesy Arena, before it is announced.
LEMMA ReturnPays ==
  ASSUME TypeOK, NEW m \in Match, Return(m)
  PROVE  /\ credit' \in [Match -> Nat] /\ m \notin finished'
         /\ \A k \in Match : /\ credit[k] <= credit'[k]
                             /\ credit[k] + One(k \in finished) <= credit'[k] + One(k \in finished')
<1>1. credit \in [Match -> Nat] /\ finished' = finished \ {m}
  BY MonitorAssumption DEF TypeOK, Return
<1>2. \A k \in Match : credit'[k] = IF k = m /\ m \in finished THEN credit[k] + 1 ELSE credit[k]
  BY <1>1 DEF Return
<1>3. credit' \in [Match -> Nat]
  BY <1>1 DEF Return
<1>4. ASSUME NEW k \in Match
      PROVE  /\ credit[k] <= credit'[k]
             /\ credit[k] + One(k \in finished) <= credit'[k] + One(k \in finished')
  <2>1. credit[k] \in Nat
    BY <1>1
  <2> QED BY <1>1, <1>2, <2>1 DEF One
<1> QED BY <1>1, <1>3, <1>4

LEMMA FinishPays ==
  ASSUME TypeOK, Finish
  PROVE  /\ credit' = credit /\ credit \in [Match -> Nat]
         /\ \A k \in Match : /\ credit[k] <= credit'[k]
                             /\ credit[k] + One(k \in finished) <= credit'[k] + One(k \in finished')
<1>1. credit' = credit /\ credit \in [Match -> Nat] /\ finished \subseteq finished'
  BY MonitorAssumption DEF TypeOK, Finish
<1> QED BY <1>1 DEF One

\* One message on a change of state: it is paid for, and owed to nobody before
\* the reset it will lead to is due.
LEMMA TurnKeepsResets ==
  ASSUME TypeOK, ResetInv, NEW to \in State, Turn(to), gap' = gap,
         credit' \in [Match -> Nat],
         \A k \in Match : /\ credit[k] <= credit'[k]
                          /\ credit[k] + One(k \in finished) <= credit'[k] + One(k \in finished'),
         arena.match # Idle => (to = "post" <=> arena.match \in finished'),
         redo' = redo \/ (arena.state = "post" /\ to = "pre")
  PROVE  ResetInv'
<1>1. arena' = [arena EXCEPT !.state = to]
  BY DEF Turn
<1>2. /\ arena' \in [match : Match, state : State]
      /\ arena'.match = arena.match /\ arena'.state = to
  BY <1>1 DEF TypeOK
<1>3. PICK m \in {ArenaStatus(arena'), MatchTime(arena')} : Announce(<<m>>)
  BY DEF Turn
<1>4. UNCHANGED <<online, acc, todo>>
  BY <1>3 DEF Announce, monitor
<1>5. /\ m \in Message /\ m.type \in StateTypes /\ m.state = to
      /\ m.type \in MatchTypes => m.match = arena.match
  BY <1>2, <1>3, TurnIsMessage DEF StateTypes, MatchTypes
<1>6. PICK r : /\ Listens(wire, r, todo.reset, credit, finished)
               /\ r[0].match = acc.match /\ r[0].state = acc.state /\ r[0].pending = acc.pending
               /\ online => Knows(r[Len(wire)], arena)
               /\ ~gap /\ redo = "owed" /\ arena.match # Idle =>
                    Due(r[Len(wire)], r[0], todo.reset, arena.match) >= 1
  BY DEF ResetInv
<1>7. credit \in [Match -> Nat] /\ wire \in Seq(Message) /\ Len(wire) \in Nat
  BY MonitorAssumption, LenProperties DEF TypeOK
<1>8. Listens(wire, r, todo.reset, credit', finished')
  BY <1>6, <1>7, ListensStill
<1>9. ~online => ResetInv'
  <2> SUFFICES ASSUME ~online PROVE ResetInv'
    OBVIOUS
  <2>1. wire' = wire
    BY <1>3 DEF Announce
  <2>2. ~gap' => FALSE
    BY DEF ResetInv
  <2> QED BY <1>2, <1>4, <1>6, <1>8, <2>1, <2>2 DEF ResetInv
<1>10. ASSUME online PROVE ResetInv'
  <2> DEFINE n == Len(wire)
             v == wire \o <<m>>
  <2>1. wire' = v /\ Len(v) = n + 1
    BY <1>3, <1>5, <1>7, <1>10, QueueOfOne DEF Announce
  <2>2. Knows(r[n], arena)
    BY <1>6, <1>10
  <2>3. r[0] \in Heard /\ r[n] \in Heard /\ Rises(r[0], r[n])
    BY <1>6, <1>7, ListensEnds
  <2>4. PICK y : Hears(r[n], m, y)
    BY <1>5, <2>3, HearsSomething
  <2>5. y \in Heard /\ y.match = arena'.match /\ y.state = arena'.state
    BY <1>2, <1>5, <2>2, <2>4 DEF Hears, Knows
  <2>6. Rises(r[n], y) /\ \E q : Listens(v, q, todo.reset, credit', finished') /\ q[0] = r[0] /\ q[n + 1] = y
    BY <1>2, <1>5, <1>7, <1>8, <2>4, <2>5, ListensGrows
  <2>7. PICK q : Listens(v, q, todo.reset, credit', finished') /\ q[0] = r[0] /\ q[n + 1] = y
    BY <2>6
  <2> HIDE DEF n, v
  <2>8. Knows(y, arena')
    BY <1>2, <1>5, <2>4, <2>5 DEF Knows, Hears
  <2>9. ASSUME ~gap', redo' = "owed", arena'.match # Idle
        PROVE  Due(y, r[0], todo'.reset, arena'.match) >= 1
    <3> DEFINE k == arena.match
    <3>1. k \in Match /\ k # Idle /\ arena'.match = k /\ todo' = todo
      BY <1>2, <1>4, <2>9 DEF TypeOK
    <3> HIDE DEF k
    <3>2. /\ y.resets[k] \in Nat /\ r[n].resets[k] \in Nat /\ r[0].resets[k] \in Nat
          /\ y.resets[k] >= r[n].resets[k] /\ r[n].resets[k] >= r[0].resets[k]
          /\ One(todo.reset = k) \in Nat
      BY <2>3, <2>5, <2>6, <3>1 DEF Heard, Rises, One
    <3>3. CASE redo' = redo
      <4>1. Due(r[n], r[0], todo.reset, k) >= 1
        BY <1>6, <2>9, <3>1, <3>3 DEF k, n
      <4> QED BY <3>1, <3>2, <4>1 DEF Due
    <3>4. CASE arena.state = "post" /\ to = "pre"
      <4>1. r[n].pending = k
        BY <2>2, <3>1, <3>4 DEF Knows, k
      <4>2. y.resets[k] = r[n].resets[k] + 1
        BY <1>2, <1>5, <2>4, <2>5, <3>1, <3>4, <4>1 DEF Hears
      <4> QED BY <3>1, <3>2, <4>2 DEF Due
    <3> QED BY <3>3, <3>4
  <2> QED BY <1>2, <1>4, <1>6, <1>10, <2>1, <2>7, <2>8, <2>9 DEF ResetInv
<1> QED BY <1>9, <1>10

\* A match is loaded: nothing is checked before the message that tells its state.
LEMMA LoadKeepsResets ==
  ASSUME TypeOK, ResetInv, NEW k \in Match, Load(k)
  PROVE  ResetInv'
<1>1. /\ arena' = [match |-> k, state |-> "pre"] /\ redo' = "no" /\ gap' = gap
      /\ Announce(<<MatchLoad(arena'), ArenaStatus(arena')>>) /\ Return(k)
  BY DEF Load
<1>2. UNCHANGED <<online, acc, todo>>
  BY <1>1 DEF Announce, monitor
<1>3. PICK r : /\ Listens(wire, r, todo.reset, credit, finished)
               /\ r[0].match = acc.match /\ r[0].state = acc.state /\ r[0].pending = acc.pending
               /\ online => Knows(r[Len(wire)], arena)
  BY DEF ResetInv
<1>4. /\ credit \in [Match -> Nat] /\ wire \in Seq(Message) /\ Len(wire) \in Nat
      /\ credit' \in [Match -> Nat] /\ k \notin finished'
  BY <1>1, MonitorAssumption, LenProperties, ReturnPays DEF TypeOK
<1>5. Listens(wire, r, todo.reset, credit', finished')
  BY <1>1, <1>3, <1>4, ReturnPays, ListensStill
<1>6. ~online => ResetInv'
  <2> SUFFICES ASSUME ~online PROVE ResetInv'
    OBVIOUS
  <2>1. wire' = wire
    BY <1>1 DEF Announce
  <2> QED BY <1>1, <1>2, <1>3, <1>4, <1>5, <2>1 DEF ResetInv
<1>7. ASSUME online PROVE ResetInv'
  <2> DEFINE n == Len(wire)
             x == MatchLoad(arena')
             y == ArenaStatus(arena')
             v == wire \o <<x>>
  <2>1. /\ x \in Message /\ x.type = "matchLoad" /\ x.match = k
        /\ y \in Message /\ y.type = "arenaStatus" /\ y.match = k /\ y.state = "pre"
        /\ arena' \in [match : Match, state : State]
    <3>1. arena' \in [match : Match, state : State]
      BY <1>1 DEF State
    <3> QED BY <1>1, <3>1, NewsIsMessages DEF MatchLoad, ArenaStatus
  <2>2. wire' = wire \o <<x, y>>
    BY <1>1, <1>7 DEF Announce
  <2> HIDE DEF x, y
  <2>3. /\ v \in Seq(Message) /\ Len(v) = n + 1 /\ n \in Nat
        /\ wire' = v \o <<y>> /\ Len(v \o <<y>>) = n + 2
    <3>1. v \in Seq(Message) /\ Len(v) = n + 1
      BY <1>4, <2>1, QueueOfOne
    <3>2. wire' = v \o <<y>>
      BY <1>4, <2>1, <2>2, QueueOfTwo
    <3> HIDE DEF v, n
    <3>3. Len(v \o <<y>>) = Len(v) + 1
      BY <2>1, <3>1, QueueOfOne
    <3> QED BY <1>4, <3>1, <3>2, <3>3 DEF n
  <2>4. r[n] \in Heard /\ Knows(r[n], arena)
    BY <1>3, <1>5, <1>4, <1>7, ListensEnds
  <2>5. PICK z : Hears(r[n], x, z)
    BY <2>1, <2>4, HearsSomething
  <2>6. x.type \notin StateTypes /\ z.match = k
    BY <2>1, <2>5 DEF Hears, StateTypes, MatchTypes
  <2>7. /\ \E q : Listens(v, q, todo.reset, credit', finished') /\ q[0] = r[0] /\ q[n + 1] = z
        /\ Rises(r[n], z)
    BY <1>4, <1>5, <2>1, <2>5, <2>6, ListensGrows
  <2>8. PICK q : Listens(v, q, todo.reset, credit', finished') /\ q[0] = r[0] /\ q[n + 1] = z
    BY <2>7
  <2>9. q[Len(v)] = z /\ z \in Heard
    BY <2>3, <2>5, <2>8 DEF Hears
  <2>10. PICK u : Hears(z, y, u)
    BY <2>1, <2>9, HearsSomething
  <2>11. u.match = k /\ u.state = "pre"
    BY <2>1, <2>10 DEF Hears, StateTypes, MatchTypes
  <2> HIDE DEF v
  <2>12. /\ Hears(q[Len(v)], y, u)
         /\ y.type \in StateTypes /\ u.match # Idle =>
              (u.state = "post" => u.match \in finished') /\ (u.state = "pre" => u.match \notin finished')
    BY <1>4, <2>9, <2>10, <2>11
  <2>13. /\ \E s : Listens(v \o <<y>>, s, todo.reset, credit', finished') /\ s[0] = q[0] /\ s[Len(v) + 1] = u
         /\ Rises(q[Len(v)], u)
    BY <1>4, <2>1, <2>3, <2>8, <2>12, ListensGrows
  <2>14. PICK s : Listens(v \o <<y>>, s, todo.reset, credit', finished') /\ s[0] = q[0] /\ s[Len(v) + 1] = u
    BY <2>13
  <2>15. s[Len(wire')] = u /\ Knows(u, arena')
    BY <1>1, <2>3, <2>11, <2>14 DEF Knows
  <2> QED BY <1>1, <1>2, <1>3, <1>4, <1>7, <2>3, <2>8, <2>14, <2>15 DEF ResetInv
<1> QED BY <1>6, <1>7

LEMMA StartKeepsResets ==
  ASSUME TypeOK, ResetInv, Start
  PROVE  ResetInv'
<1>1. /\ arena.state = "pre" /\ arena' = [arena EXCEPT !.state = "auto"] /\ redo' = "no"
      /\ gap' = ~online /\ UNCHANGED <<finished, credit>>
  BY DEF Start
<1>2. PICK m \in {ArenaStatus(arena'), MatchTime(arena')}, known \in BOOLEAN :
        Announce(<<m, EventStatus(known)>>)
  BY DEF Start
<1>3. UNCHANGED <<online, acc, todo>>
  BY <1>2 DEF Announce, monitor
<1>4. PICK r : /\ Listens(wire, r, todo.reset, credit, finished)
               /\ r[0].match = acc.match /\ r[0].state = acc.state /\ r[0].pending = acc.pending
               /\ online => Knows(r[Len(wire)], arena)
  BY DEF ResetInv
<1>5. /\ arena' \in [match : Match, state : State]
      /\ arena'.match = arena.match /\ arena'.state = "auto"
  BY <1>1 DEF TypeOK, State
<1>6. credit \in [Match -> Nat] /\ wire \in Seq(Message) /\ Len(wire) \in Nat
  BY MonitorAssumption, LenProperties DEF TypeOK
<1>7. ~online => ResetInv'
  <2> SUFFICES ASSUME ~online PROVE ResetInv'
    OBVIOUS
  <2>1. wire' = wire
    BY <1>2 DEF Announce
  <2> QED BY <1>1, <1>3, <1>4, <1>5, <2>1 DEF ResetInv
<1>8. ASSUME online PROVE ResetInv'
  <2> DEFINE n == Len(wire)
             e == EventStatus(known)
             v == wire \o <<m>>
  <2>1. /\ m \in Message /\ m.type \in StateTypes /\ m.state = "auto"
        /\ m.type \in MatchTypes => m.match = arena.match
        /\ e \in Message /\ e.type \notin StateTypes /\ e.type \notin MatchTypes
    BY <1>5, <1>2, TurnIsMessage, EventStatusIsMessage DEF EventStatus, StateTypes, MatchTypes
  <2>2. wire' = wire \o <<m, e>>
    BY <1>2, <1>8 DEF Announce
  <2> HIDE DEF e
  <2>3. /\ v \in Seq(Message) /\ Len(v) = n + 1 /\ n \in Nat
        /\ wire' = v \o <<e>> /\ Len(v \o <<e>>) = n + 2
    <3>1. v \in Seq(Message) /\ Len(v) = n + 1
      BY <1>6, <2>1, QueueOfOne
    <3>2. wire' = v \o <<e>>
      BY <1>6, <2>1, <2>2, QueueOfTwo
    <3> HIDE DEF v, n
    <3>3. Len(v \o <<e>>) = Len(v) + 1
      BY <2>1, <3>1, QueueOfOne
    <3> QED BY <1>6, <3>1, <3>2, <3>3 DEF n
  <2>4. r[n] \in Heard /\ Knows(r[n], arena)
    BY <1>4, <1>6, <1>8, ListensEnds
  <2>5. PICK z : Hears(r[n], m, z)
    BY <2>1, <2>4, HearsSomething
  <2>6. z.match = arena.match /\ z.state = "auto"
    BY <2>1, <2>4, <2>5 DEF Hears, Knows
  <2>7. /\ \E q : Listens(v, q, todo.reset, credit, finished) /\ q[0] = r[0] /\ q[n + 1] = z
        /\ Rises(r[n], z)
    BY <1>4, <1>6, <2>1, <2>5, <2>6, ListensGrows
  <2>8. PICK q : Listens(v, q, todo.reset, credit, finished) /\ q[0] = r[0] /\ q[n + 1] = z
    BY <2>7
  <2>9. q[Len(v)] = z /\ z \in Heard
    BY <2>3, <2>5, <2>8 DEF Hears
  <2>10. PICK u : Hears(z, e, u)
    BY <2>1, <2>9, HearsSomething
  <2>11. u.match = arena.match /\ u.state = "auto"
    BY <2>1, <2>6, <2>10 DEF Hears
  <2> HIDE DEF v
  <2>12. /\ \E s : Listens(v \o <<e>>, s, todo.reset, credit, finished) /\ s[0] = q[0] /\ s[Len(v) + 1] = u
         /\ Rises(q[Len(v)], u)
    BY <1>6, <2>1, <2>3, <2>8, <2>9, <2>10, <2>11, ListensGrows
  <2>13. PICK s : Listens(v \o <<e>>, s, todo.reset, credit, finished) /\ s[0] = q[0] /\ s[Len(v) + 1] = u
    BY <2>12
  <2>14. s[Len(wire')] = u /\ Knows(u, arena')
    BY <1>5, <2>3, <2>11, <2>13 DEF Knows
  <2> QED BY <1>1, <1>3, <1>4, <1>5, <1>8, <2>3, <2>8, <2>13, <2>14 DEF ResetInv
<1> QED BY <1>7, <1>8

LEMMA ListensToNothing ==
  ASSUME NEW x \in Heard, NEW t, NEW c, NEW f, Paid(x, x, t, c, f)
  PROVE  \E r : Listens(<<>>, r, t, c, f) /\ r[0] = x
<1> DEFINE r == [i \in 0..0 |-> x]
<1>1. Len(<<>>) = 0 /\ 0..0 = {0} /\ 1..0 = {}
  OBVIOUS
<1>2. r \in [0..0 -> Heard] /\ r[0] = x
  OBVIOUS
<1> HIDE DEF r
<1>3. Rises(x, x)
  BY DEF Rises, Heard
<1>4. Listens(<<>>, r, t, c, f)
  BY <1>1, <1>2, <1>3 DEF Listens, Course
<1> QED BY <1>2, <1>4

LEMMA QueueOfThree ==
  ASSUME NEW x \in Message, NEW y \in Message, NEW z \in Message
  PROVE  <<x, y, z>> = ((<<>> \o <<x>>) \o <<y>>) \o <<z>>
<1> DEFINE v == <<x, y>>
           b == <<z>>
           d == <<x, y, z>>
<1>1. v = (<<>> \o <<x>>) \o <<y>>
  <2>1. <<>> \in Seq(Message) /\ v \in Seq(Message)
    OBVIOUS
  <2>2. <<>> \o v = v
    BY <2>1, ConcatEmptySeq
  <2> QED BY <2>1, <2>2, QueueOfTwo
<1>2. /\ v \in Seq(Message) /\ Len(v) = 2 /\ v[1] = x /\ v[2] = y
      /\ b \in Seq(Message) /\ Len(b) = 1 /\ b[1] = z
      /\ d \in Seq(Message) /\ Len(d) = 3 /\ d[1] = x /\ d[2] = y /\ d[3] = z
  OBVIOUS
<1> HIDE DEF v, b, d
<1>3. /\ v \o b \in Seq(Message) /\ Len(v \o b) = Len(v) + Len(b)
      /\ \A i \in 1..(Len(v) + Len(b)) :
           (v \o b)[i] = IF i <= Len(v) THEN v[i] ELSE b[i - Len(v)]
  BY <1>2, ConcatProperties
<1>4. \A i \in 1..3 : (v \o b)[i] = d[i]
  BY <1>2, <1>3
<1>5. v \o b = d
  BY <1>2, <1>3, <1>4, SeqEqual
<1> QED BY <1>1, <1>5 DEF b, d

\* A new connection tells match and state whatever the accumulator has.
LEMMA ConnectKeepsResets ==
  ASSUME TypeOK, ResetInv, Connect
  PROVE  ResetInv'
<1>1. /\ ~online /\ todo = NoEffect /\ gap /\ online'
      /\ UNCHANGED <<arena, acc, todo, credit, finished, gap, redo>>
      /\ wire' = <<ArenaStatus(arena), MatchLoad(arena), MatchTime(arena)>>
  BY DEF Connect, ResetInv, history
<1>2. PICK r : /\ Listens(wire, r, todo.reset, credit, finished)
               /\ r[0].match = acc.match /\ r[0].state = acc.state /\ r[0].pending = acc.pending
  BY DEF ResetInv
<1>3. /\ credit \in [Match -> Nat] /\ wire \in Seq(Message)
      /\ arena \in [match : Match, state : State]
      /\ arena.match # Idle => (arena.state = "post" => arena.match \in finished)
                               /\ (arena.state = "pre" => arena.match \notin finished)
  BY MonitorAssumption DEF TypeOK, ResetInv
<1>4. r[0] \in Heard /\ Paid(r[0], r[0], todo.reset, credit, finished)
  BY <1>2, <1>3, ListensEnds
<1> DEFINE x == ArenaStatus(arena)
           y == MatchLoad(arena)
           z == MatchTime(arena)
           t == todo.reset
<1>5. /\ x \in Message /\ x.type = "arenaStatus" /\ x.match = arena.match /\ x.state = arena.state
      /\ y \in Message /\ y.type = "matchLoad" /\ y.match = arena.match
      /\ z \in Message /\ z.type = "matchTime" /\ z.state = arena.state
  BY <1>3, NewsIsMessages DEF ArenaStatus, MatchLoad, MatchTime
<1>6. wire' = <<x, y, z>>
  BY <1>1
<1> HIDE DEF x, y, z, t
<1> DEFINE e == <<>>
           v == e \o <<x>>
           w == v \o <<y>>
<1>7. /\ e \in Seq(Message) /\ Len(e) = 0
      /\ v \in Seq(Message) /\ Len(v) = Len(e) + 1
      /\ w \in Seq(Message) /\ Len(w) = Len(v) + 1
      /\ wire' = w \o <<z>> /\ Len(w \o <<z>>) = Len(w) + 1
  <2>1. e \in Seq(Message) /\ Len(e) = 0
    OBVIOUS
  <2>2. wire' = w \o <<z>>
    BY <1>5, <1>6, QueueOfThree
  <2> HIDE DEF e
  <2>3. v \in Seq(Message) /\ Len(v) = Len(e) + 1
    BY <1>5, <2>1, QueueOfOne
  <2> HIDE DEF v
  <2>4. w \in Seq(Message) /\ Len(w) = Len(v) + 1
    BY <1>5, <2>3, QueueOfOne
  <2> HIDE DEF w
  <2> QED BY <1>5, <2>1, <2>2, <2>3, <2>4, QueueOfOne
<1>8. PICK r0 : Listens(e, r0, t, credit, finished) /\ r0[0] = r[0]
  BY <1>4, ListensToNothing DEF t
<1> HIDE DEF e
<1>9. PICK a : Hears(r0[Len(e)], x, a)
  BY <1>4, <1>5, <1>7, <1>8, HearsSomething
<1>10. /\ a.match = arena.match /\ a.state = arena.state /\ a \in Heard
       /\ arena.state = "post" /\ arena.match # Idle => a.pending = arena.match
  BY <1>5, <1>9 DEF Hears, StateTypes, MatchTypes
<1>11. x.type \in StateTypes /\ a.match # Idle =>
         (a.state = "post" => a.match \in finished) /\ (a.state = "pre" => a.match \notin finished)
  BY <1>3, <1>10
<1>12. /\ \E r1 : Listens(v, r1, t, credit, finished) /\ r1[0] = r0[0] /\ r1[Len(e) + 1] = a
       /\ Rises(r0[Len(e)], a)
  BY <1>3, <1>5, <1>7, <1>8, <1>9, <1>11, ListensGrows
<1> HIDE DEF v
<1>13. PICK r1 : Listens(v, r1, t, credit, finished) /\ r1[0] = r0[0] /\ r1[Len(v)] = a
  BY <1>7, <1>12
<1>14. PICK b : Hears(r1[Len(v)], y, b)
  BY <1>5, <1>10, <1>13, HearsSomething
<1>15. /\ b.match = arena.match /\ b.state = arena.state /\ b \in Heard /\ b.pending = a.pending
       /\ y.type \notin StateTypes
  BY <1>5, <1>10, <1>13, <1>14 DEF Hears, StateTypes, MatchTypes
<1>16. /\ \E r2 : Listens(w, r2, t, credit, finished) /\ r2[0] = r1[0] /\ r2[Len(v) + 1] = b
       /\ Rises(r1[Len(v)], b)
  BY <1>3, <1>5, <1>7, <1>13, <1>14, <1>15, ListensGrows
<1> HIDE DEF w
<1>17. PICK r2 : Listens(w, r2, t, credit, finished) /\ r2[0] = r1[0] /\ r2[Len(w)] = b
  BY <1>7, <1>16
<1>18. PICK d : Hears(r2[Len(w)], z, d)
  BY <1>5, <1>15, <1>17, HearsSomething
<1>19. /\ d.match = arena.match /\ d.state = arena.state
       /\ arena.state = "post" /\ arena.match # Idle => d.pending = arena.match
       /\ z.type \in StateTypes /\ d.match # Idle =>
            (d.state = "post" => d.match \in finished) /\ (d.state = "pre" => d.match \notin finished)
  BY <1>3, <1>5, <1>15, <1>17, <1>18 DEF Hears, StateTypes, MatchTypes
<1>20. /\ \E r3 : Listens(w \o <<z>>, r3, t, credit, finished) /\ r3[0] = r2[0] /\ r3[Len(w) + 1] = d
       /\ Rises(r2[Len(w)], d)
  BY <1>3, <1>5, <1>7, <1>17, <1>18, <1>19, ListensGrows
<1>21. PICK r3 : Listens(wire', r3, t, credit, finished) /\ r3[0] = r[0] /\ r3[Len(wire')] = d
  BY <1>7, <1>8, <1>13, <1>17, <1>20
<1>22. Knows(d, arena)
  BY <1>19 DEF Knows
<1> QED BY <1>1, <1>2, <1>3, <1>21, <1>22 DEF ResetInv, t

\* A message is taken from the queue: what it asked for is to be done.
LEMMA ListensTail ==
  ASSUME NEW w \in Seq(Message), w # <<>>, NEW r, NEW c, NEW f, Listens(w, r, None, c, f), NEW t,
         \A k \in Match : One(t = k) = r[1].resets[k] - r[0].resets[k]
  PROVE  /\ Hears(r[0], Head(w), r[1])
         /\ \E q : /\ Listens(Tail(w), q, t, c, f) /\ q[0] = r[1] /\ q[Len(Tail(w))] = r[Len(w)]
                   /\ \A k \in Match : Due(r[Len(w)], r[1], t, k) = Due(r[Len(w)], r[0], None, k)
<1> DEFINE n == Len(w)
           v == Tail(w)
           q == [i \in 0..(n - 1) |-> r[i + 1]]
<1>1. /\ n \in Nat \ {0} /\ v \in Seq(Message) /\ Len(v) = n - 1 /\ Head(w) = w[1]
      /\ \A i \in 1..(n - 1) : v[i] = w[i + 1]
  BY EmptySeq, HeadTailProperties
<1>2. /\ r \in [0..n -> Heard]
      /\ \A i \in 1..n : Hears(r[i - 1], w[i], r[i])
      /\ \A i \in 0..n : Paid(r[i], r[0], None, c, f)
      /\ \A i, j \in 0..n : i <= j => Rises(r[i], r[j])
  BY DEF Listens, Course
<1> HIDE DEF n, v
<1>3. /\ \A i \in 0..(n - 1) : q[i] = r[i + 1] /\ i + 1 \in 0..n
      /\ \A i \in 1..(n - 1) : i - 1 \in 0..(n - 1) /\ i \in 0..(n - 1) /\ i + 1 \in 1..n /\ (i + 1) - 1 = i
                               /\ (i - 1) + 1 = i
      /\ 0 \in 0..(n - 1) /\ 0 + 1 = 1 /\ n - 1 \in 0..(n - 1) /\ (n - 1) + 1 = n
      /\ 0 \in 0..n /\ 1 \in 0..n /\ 1 \in 1..n /\ 1 - 1 = 0 /\ n \in 0..n
      /\ \A i, j \in 0..(n - 1) : i <= j => i + 1 <= j + 1
  BY <1>1
<1>4. q \in [0..(n - 1) -> Heard] /\ q[0] = r[1] /\ q[n - 1] = r[n]
  BY <1>2, <1>3
<1> HIDE DEF q
<1>5. Hears(r[0], Head(w), r[1])
  BY <1>1, <1>2, <1>3
<1>6. Course(v, q)
  <2>1. ASSUME NEW i \in 1..(n - 1) PROVE Hears(q[i - 1], v[i], q[i])
    <3>1. Hears(r[(i + 1) - 1], w[i + 1], r[i + 1])
      BY <1>2, <1>3
    <3>2. q[i - 1] = r[(i + 1) - 1] /\ q[i] = r[i + 1] /\ v[i] = w[i + 1]
      BY <1>1, <1>3
    <3> QED BY <3>1, <3>2
  <2> QED BY <1>1, <1>4, <2>1 DEF Course
<1>7. ASSUME NEW i \in 0..n, NEW k \in Match
      PROVE  Due(r[i], r[1], t, k) = Due(r[i], r[0], None, k)
  <2>1. r[i].resets[k] \in Nat /\ r[1].resets[k] \in Nat /\ r[0].resets[k] \in Nat
    BY <1>2, <1>3 DEF Heard
  <2>2. One(None = k) = 0
    BY MonitorAssumption DEF One
  <2> QED BY <2>1, <2>2 DEF Due
<1>8. ASSUME NEW i \in 0..(n - 1) PROVE Paid(q[i], q[0], t, c, f)
  <2>1. Paid(r[i + 1], r[0], None, c, f) /\ i + 1 \in 0..n
    BY <1>2, <1>3
  <2>2. Paid(r[i + 1], r[1], t, c, f)
    BY <1>7, <2>1 DEF Paid
  <2> QED BY <1>3, <1>4, <2>2
<1>9. ASSUME NEW i \in 0..(n - 1), NEW j \in 0..(n - 1), i <= j PROVE Rises(q[i], q[j])
  BY <1>2, <1>3, <1>9
<1>10. Listens(v, q, t, c, f)
  BY <1>1, <1>6, <1>8, <1>9 DEF Listens
<1> QED BY <1>1, <1>3, <1>4, <1>5, <1>7, <1>10 DEF n, v

LEMMA ProcessKeepsResets ==
  ASSUME TypeOK, ResetInv, Process
  PROVE  ResetInv'
<1> DEFINE m == Head(wire)
           a == Merged(acc, m)
           b == AfterCompleted(a)
<1>1. /\ online /\ wire # <<>> /\ wire \in Seq(Message) /\ todo = NoEffect /\ wire' = Tail(wire)
      /\ UNCHANGED <<arena, online, credit, finished, redo, gap>>
  BY DEF Process, TypeOK, history
<1>2. PICK r : /\ Listens(wire, r, todo.reset, credit, finished)
               /\ r[0].match = acc.match /\ r[0].state = acc.state /\ r[0].pending = acc.pending
               /\ online => Knows(r[Len(wire)], arena)
               /\ ~gap /\ redo = "owed" /\ arena.match # Idle =>
                    Due(r[Len(wire)], r[0], todo.reset, arena.match) >= 1
  BY DEF ResetInv
<1>3. todo.reset = None
  BY <1>1 DEF NoEffect
<1>4. m \in Message /\ m = wire[1] /\ Len(wire) \in Nat \ {0}
  BY <1>1, HeadTailProperties, EmptySeq
<1>5. Hears(r[0], m, r[1]) /\ r[0] \in Heard /\ r[1] \in Heard
  <2>1. 1 \in 1..Len(wire) /\ 1 - 1 = 0 /\ 0 \in 0..Len(wire) /\ 1 \in 0..Len(wire)
    BY <1>4
  <2> HIDE DEF m
  <2> QED BY <1>2, <1>4, <2>1 DEF Listens, Course
<1>6. /\ a.match = r[1].match /\ a.state = r[1].state
      /\ b.match = a.match /\ b.state = a.state
      /\ a.pending = r[0].pending /\ b.pending = a.pending
      /\ b \in [match : Match, state : State, completed : Scheduled \cup {None},
                pending : Scheduled \cup {None}, cycle : BOOLEAN, estimate : BOOLEAN]
      /\ AfterReset(b).match = a.match /\ AfterReset(b).state = a.state
  <2>1. /\ a.match = IF m.type \in MatchTypes THEN m.match ELSE acc.match
        /\ a.state = IF m.type \in StateTypes THEN m.state ELSE acc.state
    BY <1>4, MergedIs
  <2> QED BY <1>1, <1>2, <1>5, <2>1, AccumulatorTypes DEF Hears
<1>7. /\ acc' = IF m.type \in StateTypes THEN AfterReset(b) ELSE a
      /\ todo'.reset = IF m.type \in StateTypes /\ Resets(b) THEN a.match ELSE None
  BY DEF Process, Checked, StateTypes
<1> HIDE DEF m, a, b
<1>8. acc'.match = r[1].match /\ acc'.state = r[1].state /\ acc'.pending = r[1].pending
  <2>1. AfterReset(b).pending = IF b.match # Idle /\ b.state = "post" THEN b.match
                                ELSE IF Resets(b) THEN None ELSE b.pending
    BY <1>6 DEF AfterReset
  <2> QED BY <1>5, <1>6, <1>7, <2>1 DEF Hears, Resets
<1>9. ASSUME NEW k \in Match PROVE One(todo'.reset = k) = r[1].resets[k] - r[0].resets[k]
  <2>1. r[0].resets[k] \in Nat /\ r[1].resets[k] \in Nat
    BY <1>5 DEF Heard
  <2>2. CASE m.type \in StateTypes /\ Resets(b)
    <3>1. r[1].resets[k] = IF k = a.match THEN r[0].resets[k] + 1 ELSE r[0].resets[k]
      BY <1>5, <1>6, <2>2 DEF Hears, Resets
    <3> QED BY <1>7, <2>1, <2>2, <3>1 DEF One
  <2>3. CASE ~(m.type \in StateTypes /\ Resets(b))
    <3>1. r[1].resets[k] = r[0].resets[k]
      BY <1>5, <1>6, <2>3 DEF Hears, Resets
    <3>2. todo'.reset # k
      BY <1>7, <2>3, MonitorAssumption
    <3> QED BY <2>1, <3>1, <3>2 DEF One
  <2> QED BY <2>2, <2>3
<1>10. PICK q : /\ Listens(Tail(wire), q, todo'.reset, credit, finished) /\ q[0] = r[1]
                /\ q[Len(Tail(wire))] = r[Len(wire)]
                /\ \A k \in Match : Due(r[Len(wire)], r[1], todo'.reset, k) = Due(r[Len(wire)], r[0], None, k)
  <2>1. Listens(wire, r, None, credit, finished)
    BY <1>2, <1>3
  <2> QED BY <1>1, <1>9, <2>1, ListensTail
<1>11. ~gap' /\ redo' = "owed" /\ arena'.match # Idle =>
         Due(q[Len(wire')], q[0], todo'.reset, arena'.match) >= 1
  <2>1. arena.match \in Match
    BY DEF TypeOK
  <2> QED BY <1>1, <1>2, <1>3, <1>10, <2>1
<1> QED BY <1>1, <1>2, <1>8, <1>10, <1>11 DEF ResetInv

\* A reset is tried: it is due no longer, and its return is used up.
LEMMA ResetKeepsResets ==
  ASSUME TypeOK, ResetInv, NEW outcome \in {"done", "failed"}, TryReset(outcome)
  PROVE  ResetInv'
<1> DEFINE u == todo.reset
           n == Len(wire)
<1>1. /\ todo' = NoEffect /\ todo'.reset = None /\ u \in Match \ {None} /\ u # Idle
      /\ UNCHANGED <<arena, wire, online, acc, finished, gap>>
      /\ wire \in Seq(Message) /\ credit \in [Match -> Nat]
  BY MonitorAssumption DEF TryReset, AtReset, NoEffect, TypeOK, Scheduled
<1>2. PICK r : /\ Listens(wire, r, u, credit, finished)
               /\ r[0].match = acc.match /\ r[0].state = acc.state /\ r[0].pending = acc.pending
               /\ online => Knows(r[n], arena)
               /\ ~gap /\ redo = "owed" /\ arena.match # Idle => Due(r[n], r[0], u, arena.match) >= 1
  BY DEF ResetInv
<1> HIDE DEF u, n
<1>3. r[0] \in Heard /\ Paid(r[0], r[0], u, credit, finished)
  BY <1>1, <1>2, ListensEnds
<1>4. credit[u] \in Nat /\ credit[u] > 0
  <2>1. Due(r[0], r[0], u, u) <= credit[u] /\ r[0].resets[u] \in Nat /\ credit[u] \in Nat
    BY <1>1, <1>3 DEF Paid, Heard
  <2> QED BY <2>1 DEF Due, One
<1>5. /\ credit' \in [Match -> Nat]
      /\ \A k \in Match : credit'[k] = IF k = u THEN credit[k] - 1 ELSE credit[k]
  <2>1. credit' = [credit EXCEPT ![u] = IF @ > 0 THEN @ - 1 ELSE 0]
    BY DEF TryReset, u
  <2> QED BY <1>1, <1>4, <2>1
<1>6. ASSUME NEW x \in Heard, NEW k \in Match
      PROVE  Due(x, r[0], None, k) = Due(x, r[0], u, k) - One(k = u)
  <2>1. x.resets[k] \in Nat /\ r[0].resets[k] \in Nat /\ k # None
    BY <1>3, MonitorAssumption DEF Heard
  <2> QED BY <2>1 DEF Due, One
<1>7. ASSUME NEW i \in 0..Len(wire) PROVE Paid(r[i], r[0], None, credit', finished)
  <2>1. Paid(r[i], r[0], u, credit, finished) /\ r[i] \in Heard
    BY <1>2 DEF Listens, Course
  <2> SUFFICES ASSUME NEW k \in Match
               PROVE  /\ Due(r[i], r[0], None, k) <= credit'[k]
                      /\ Due(r[i], r[0], None, k) + One(r[i].pending = k) <= credit'[k] + One(k \in finished)
    BY DEF Paid
  <2>2. /\ Due(r[i], r[0], u, k) <= credit[k]
        /\ Due(r[i], r[0], u, k) + One(r[i].pending = k) <= credit[k] + One(k \in finished)
    BY <2>1 DEF Paid
  <2>3. /\ Due(r[i], r[0], u, k) \in Int /\ credit[k] \in Nat
        /\ One(r[i].pending = k) \in Nat /\ One(k \in finished) \in Nat
    BY <1>1, <1>3, <2>1 DEF Due, One, Heard
  <2> QED BY <1>5, <1>6, <2>1, <2>2, <2>3 DEF One
<1>8. Listens(wire, r, None, credit', finished)
  BY <1>2, <1>7 DEF Listens
<1>9. ASSUME ~gap, redo' = "owed", arena.match # Idle
      PROVE  Due(r[n], r[0], None, arena.match) >= 1
  <2>1. redo = "owed" /\ arena.match # u /\ arena.match \in Match
    BY <1>9 DEF TryReset, u, TypeOK
  <2>2. r[n] \in Heard
    BY <1>1, <1>2, ListensEnds DEF n
  <2>3. Due(r[n], r[0], u, arena.match) >= 1 /\ Due(r[n], r[0], u, arena.match) \in Int
    BY <1>2, <1>3, <1>9, <2>1, <2>2 DEF Due, One, Heard
  <2> QED BY <1>6, <2>1, <2>2, <2>3 DEF One
<1> QED BY <1>1, <1>2, <1>8, <1>9 DEF ResetInv, n

\* The queue is gone, and with it what would have been heard.
LEMMA DropKeepsResets ==
  ASSUME TypeOK, ResetInv, Drop
  PROVE  ResetInv'
<1>1. /\ todo = NoEffect /\ gap' /\ ~online' /\ wire' = <<>>
      /\ UNCHANGED <<arena, acc, todo, credit, finished, redo>>
  BY DEF Drop
<1>2. PICK r : /\ Listens(wire, r, todo.reset, credit, finished)
               /\ r[0].match = acc.match /\ r[0].state = acc.state /\ r[0].pending = acc.pending
  BY DEF ResetInv
<1>3. r[0] \in Heard /\ Paid(r[0], r[0], todo.reset, credit, finished)
  BY <1>2, ListensEnds DEF TypeOK
<1>4. PICK q : Listens(<<>>, q, todo.reset, credit, finished) /\ q[0] = r[0]
  BY <1>3, ListensToNothing
<1> QED BY <1>1, <1>2, <1>4 DEF ResetInv

LEMMA NothingToListenTo ==
  ASSUME NEW c \in [Match -> Nat], NEW f
  PROVE  \E r : /\ Listens(<<>>, r, None, c, f)
                /\ r[0].match = Idle /\ r[0].state = "pre" /\ r[0].pending = None
<1> DEFINE z == [m \in Match |-> 0]
           x == [match |-> Idle, state |-> "pre", pending |-> None, resets |-> z]
<1>1. z \in [Match -> Nat] /\ \A k \in Match : z[k] = 0
  OBVIOUS
<1> HIDE DEF z
<1>2. /\ x \in Heard /\ x.pending = None /\ x.match = Idle /\ x.state = "pre"
      /\ \A k \in Match : x.resets[k] = 0
  BY <1>1, MonitorAssumption DEF Heard, State
<1> HIDE DEF x
<1>3. Paid(x, x, None, c, f)
  BY <1>2, MonitorAssumption DEF Paid, Due, One
<1>4. PICK r : Listens(<<>>, r, None, c, f) /\ r[0] = x
  BY <1>2, <1>3, ListensToNothing
<1> QED BY <1>2, <1>4

LEMMA RestartKeepsResets ==
  ASSUME TypeOK, ResetInv, Restart
  PROVE  ResetInv'
<1>1. /\ todo' = NoEffect /\ todo'.reset = None /\ gap' /\ ~online' /\ wire' = <<>>
      /\ acc'.match = Idle /\ acc'.state = "pre" /\ acc'.pending = None
      /\ UNCHANGED <<arena, credit, finished, redo>>
  BY DEF Restart, NoEffect, FreshAccumulator
<1>2. credit \in [Match -> Nat]
  BY MonitorAssumption DEF TypeOK
<1> QED BY <1>1, <1>2, NothingToListenTo DEF ResetInv

LEMMA ResetInit == Init => ResetInv
<1> SUFFICES ASSUME Init PROVE ResetInv
  OBVIOUS
<1>1. /\ todo = NoEffect /\ todo.reset = None /\ gap /\ ~online /\ wire = <<>>
      /\ acc.match = Idle /\ acc.state = "pre" /\ acc.pending = None /\ arena.match = Idle
  BY DEF Init, NoEffect, FreshAccumulator
<1>2. credit \in [Match -> Nat]
  BY DEF Init
<1> QED BY <1>1, <1>2, NothingToListenTo DEF ResetInv

\* A step that none of this depends on.
LEMMA ResetUntouched ==
  ASSUME ResetInv, UNCHANGED <<arena, wire, online, acc, credit, finished, redo, gap>>,
         todo'.reset = todo.reset, ~online => todo' = todo
  PROVE  ResetInv'
BY DEF ResetInv

LEMMA ResetStep == TypeOK /\ ResetInv /\ [Next]_vars => ResetInv'
<1> SUFFICES ASSUME TypeOK, ResetInv, [Next]_vars PROVE ResetInv'
  OBVIOUS
<1>1. credit \in [Match -> Nat] /\ arena.match \in Match /\ arena.state \in State
  BY MonitorAssumption DEF TypeOK
<1>2. CASE Teleop
  <2>1. Turn("teleop") /\ "teleop" \in State /\ UNCHANGED <<finished, credit, redo, gap>>
        /\ arena.state = "auto"
    BY <1>2 DEF Teleop, State, history
  <2>2. \A k \in Match : credit[k] <= credit'[k] /\ credit[k] + One(k \in finished) <= credit'[k] + One(k \in finished')
    BY <1>1, <2>1 DEF One
  <2>3. arena.match # Idle => arena.match \notin finished'
    BY <2>1 DEF ResetInv
  <2> QED BY <1>1, <2>1, <2>2, <2>3, TurnKeepsResets
<1>3. CASE Finish
  <2>1. Turn("post") /\ "post" \in State /\ UNCHANGED <<credit, redo, gap>>
        /\ (arena.match # Idle => arena.match \in finished')
    BY <1>3 DEF Finish, State
  <2> QED BY <1>1, <1>3, <2>1, FinishPays, TurnKeepsResets
<1>4. CASE Discard
  <2>1. Turn("pre") /\ "pre" \in State /\ UNCHANGED gap /\ Return(arena.match) /\ arena.state = "post"
    BY <1>4 DEF Discard, State
  <2> QED BY <1>1, <2>1, ReturnPays, TurnKeepsResets
<1>5. CASE Report
  <2>1. todo.report /\ todo'.reset = todo.reset
    BY <1>5 DEF Report, TypeOK
  <2>2. online
    BY <2>1 DEF ResetInv, NoEffect
  <2> QED BY <1>5, <2>1, <2>2, ResetUntouched DEF Report, history
<1>6. CASE MarkWrite \/ MarkFails
  <2>1. todo.completed # None /\ todo'.reset = todo.reset
    BY <1>6 DEF MarkWrite, MarkFails, TypeOK
  <2>2. online
    BY <2>1 DEF ResetInv, NoEffect
  <2> QED BY <1>6, <2>1, <2>2, ResetUntouched DEF MarkWrite, MarkFails, history
<1>7. CASE Enter \/ MarkRead \/ Wake \/ StatusRead \/ StatusWrite \/ StatusFails \/ UNCHANGED vars
  BY <1>7, ResetUntouched
     DEF Enter, MarkRead, Wake, StatusRead, StatusWrite, StatusFails, vars, monitor, status, history
<1>8. CASE Reset \/ ResetFails
  BY <1>8, ResetKeepsResets DEF Reset, ResetFails
<1> QED
  BY <1>2, <1>3, <1>4, <1>5, <1>6, <1>7, <1>8, LoadKeepsResets, StartKeepsResets, ConnectKeepsResets,
     ProcessKeepsResets, DropKeepsResets, RestartKeepsResets
     DEF Next

LEMMA ResetAlways == Spec => [](TypeOK /\ ResetInv)
<1>1. TypeOK /\ ResetInv /\ [Next]_vars => (TypeOK /\ ResetInv)'
  BY TypeStep, ResetStep
<1> QED BY <1>1, TypeInit, ResetInit, PTL DEF Spec

\* No record is wiped but for a return to PreMatch after a play, and no return
\* is used twice: not by a message that is told again on a new connection, by
\* an old PostMatch that another match is loaded behind, or after a restart
\* (client.rs:141-147).
THEOREM ResetsAreOwed == Spec => []ResetOnlyReplayed
<1>1. TypeOK /\ ResetInv => ResetOnlyReplayed
  <2> SUFFICES ASSUME TypeOK, ResetInv, AtReset PROVE credit[todo.reset] > 0
    BY DEF ResetOnlyReplayed
  <2> DEFINE u == todo.reset
  <2>1. u \in Match /\ credit \in [Match -> Nat] /\ wire \in Seq(Message)
    BY MonitorAssumption DEF AtReset, TypeOK, Scheduled
  <2>2. PICK r : Listens(wire, r, u, credit, finished)
    BY DEF ResetInv
  <2> HIDE DEF u
  <2>3. r[0] \in Heard /\ Paid(r[0], r[0], u, credit, finished)
    BY <2>1, <2>2, ListensEnds
  <2>4. Due(r[0], r[0], u, u) <= credit[u] /\ r[0].resets[u] \in Nat /\ credit[u] \in Nat
    BY <2>1, <2>3 DEF Paid, Heard
  <2>5. credit[u] > 0
    BY <2>4 DEF Due, One
  <2> QED BY <2>5 DEF u
<1> QED BY <1>1, ResetAlways, PTL

\* The monitor sets out to reset a match that is discarded while every message
\* arrives, once they are worked off, however many more changes were announced
\* behind it (client.rs:148-152); a write that fails then is its last try.
THEOREM RedosAreNoticed == Spec => []RedoIsNoticed
<1>1. TypeOK /\ ResetInv => RedoIsNoticed
  <2> SUFFICES ASSUME TypeOK, ResetInv, CaughtUp, ~gap, arena.match # Idle, redo = "owed" PROVE FALSE
    BY DEF RedoIsNoticed
  <2>1. wire = <<>> /\ Len(wire) = 0 /\ todo.reset = None /\ wire \in Seq(Message)
        /\ arena.match \in Match
    BY DEF CaughtUp, NoEffect, TypeOK
  <2>2. PICK r : /\ Listens(wire, r, todo.reset, credit, finished)
                 /\ Due(r[Len(wire)], r[0], todo.reset, arena.match) >= 1
    BY DEF ResetInv
  <2>3. r[0] \in Heard
    BY <2>1, <2>2, ListensEnds
  <2>4. r[0].resets[arena.match] \in Nat
    BY <2>1, <2>3 DEF Heard
  <2>5. None # arena.match
    BY <2>1, MonitorAssumption
  <2> QED BY <2>1, <2>2, <2>4, <2>5 DEF Due, One
<1> QED BY <1>1, ResetAlways, PTL
=============================================================================
