-------------------------- MODULE EngineLinks_proofs --------------------------
(***************************************************************************)
(* What is connected to the engine's channels leaves the engine alone, so   *)
(* everything proved of the engine holds with it as well.                   *)
(*                                                                         *)
(* PanelLink: the panel tasks only do to the channels what SyncEngine       *)
(* allows.  CheesyLink: whatever Cheesy Arena loads, replays or loses, the  *)
(* engine behaves as SyncEngine says; and in one match whose commands all   *)
(* arrive, Cheesy Arena ends up with the fouls, cards and climb calls of    *)
(* the last record.                                                        *)
(***************************************************************************)
EXTENDS PanelLink, CheesyLink, SyncEngine_proofs

-----------------------------------------------------------------------------
(* The panel tasks.                                                        *)

\* A task that has not ended still holds its receiver, and the engine returns
\* after the shutdown broadcast only.
TaskInv ==
  /\ link \in [Channel -> LinkState]
  /\ \A c \in Channel : c \in closed => link[c] = "ended"
  /\ pc = "stopped" => shutdown

LEMMA TaskInit == PanelInit => TaskInv
BY DEF PanelInit, Init, TaskInv, LinkState

LEMMA TaskMoves ==
  ASSUME TaskInv, NEW c \in Channel, PanelTask(c)
  PROVE  TaskInv' /\ [Next]_vars
<1>1. CASE Ends(c) /\ link[c] # "ended" /\ (shutdown \/ ~hostOk)
  <2>1. ClosePanel(c)
    BY <1>1 DEF Ends, ClosePanel, TaskInv
  <2>2. TaskInv'
    BY <1>1 DEF Ends, TaskInv, LinkState, env, engine
  <2> QED BY <2>1, <2>2 DEF Next
<1>2. CASE Relay(c)
  <2>1. TaskInv'
    BY <1>2 DEF Relay, Moves, Take, TaskInv, LinkState, env, engine
  <2> QED BY <1>2, <2>1 DEF Relay, Next
<1>3. CASE LoggedIn(c) \/ Connects(c) \/ ConnectFails(c) \/ Written(c) \/ WriteFails(c)
             \/ Disconnected(c) \/ Retry(c)
  <2>1. PICK from \in LinkState, to \in LinkState : Moves(c, from, to) /\ from # "ended" /\ UNCHANGED vars
    BY <1>3 DEF LoggedIn, Connects, ConnectFails, Written, WriteFails, Disconnected, Retry, LinkState
  <2>2. TaskInv'
    BY <2>1 DEF Moves, TaskInv, LinkState, vars, env, engine
  <2> QED BY <2>1, <2>2
<1>4. CASE PanelShutdown(c)
  BY <1>1, <1>4 DEF PanelShutdown
<1>5. CASE EngineGone(c)
  BY <1>1, <1>5 DEF EngineGone, TaskInv
<1>6. CASE NoUrl(c)
  BY <1>1, <1>6 DEF NoUrl
<1> QED BY <1>2, <1>3, <1>4, <1>5, <1>6 DEF PanelTask

LEMMA TaskStep == TaskInv /\ [PanelNext]_panelVars => TaskInv' /\ [Next]_vars
<1> SUFFICES ASSUME TaskInv, [PanelNext]_panelVars PROVE TaskInv' /\ [Next]_vars
  OBVIOUS
<1>1. CASE \E c \in Channel : PanelTask(c)
  BY <1>1, TaskMoves
<1>2. CASE EngineTask
  <2>1. Next
    BY <1>2 DEF EngineTask, Next
  <2>2. closed' = closed /\ shutdown' = shutdown /\ (pc' = "stopped" => pc = "stopped" \/ shutdown)
    BY <1>2 DEF EngineTask, OnBypass, OnCommit, OnRecord, Diff, StartDiff, AdjustFoul, FinishDiff,
                Send, OnShutdown, Selecting, env, trackers, hand
  <2>3. TaskInv'
    BY <1>2, <2>2 DEF EngineTask, TaskInv
  <2> QED BY <2>1, <2>3
<1>3. CASE Others
  <2>1. Next
    BY <1>3 DEF Others, Next
  <2>2. TaskInv'
    BY <1>3 DEF Others, Publish, Request, ReportMatch, NotifyShutdown, TaskInv, env, engine
  <2> QED BY <2>1, <2>2
<1>4. CASE UNCHANGED panelVars
  BY <1>4 DEF panelVars, TaskInv, vars, env, engine
<1> QED BY <1>1, <1>2, <1>3, <1>4 DEF PanelNext

\* Every behaviour of the engine with its panel tasks is one of SyncEngine:
\* a channel is dropped only after shutdown or when the host makes no URL,
\* whatever breaks before.
THEOREM PanelsImplementEngine == PanelSpec => ImplementsEngine
<1>1. PanelInit => Init
  BY DEF PanelInit
<1> QED BY <1>1, TaskInit, TaskStep, PTL DEF PanelSpec, ImplementsEngine, Spec

\* Hence the foul ledger is right however often connections break.
THEOREM LedgerIsRightWithPanels == PanelSpec => []LedgerMatchesSent
BY PanelsImplementEngine, LedgerIsRight, PTL DEF ImplementsEngine

\* The panel tasks keep their types too: the back-off delay stays between one
\* second and Slow.
DelayInv == delay \in [Channel -> 1..Slow]

LEMMA DelayInit == PanelInit => DelayInv
BY PanelAssumption DEF PanelInit, DelayInv

LEMMA DelayStep == DelayInv /\ [PanelNext]_panelVars => DelayInv'
<1> SUFFICES ASSUME DelayInv, [PanelNext]_panelVars PROVE DelayInv'
  OBVIOUS
<1>1. \A d \in 1..Slow : Doubled(d) \in 1..Slow
  BY PanelAssumption DEF Doubled
<1>2. CASE \E c \in Channel : PanelTask(c)
  BY <1>1, <1>2, PanelAssumption
     DEF PanelTask, LoggedIn, NoUrl, Connects, ConnectFails, Relay, Written, WriteFails, Disconnected, Retry,
         PanelShutdown, EngineGone, Ends, DelayInv
<1>3. CASE EngineTask \/ Others \/ UNCHANGED panelVars
  BY <1>3 DEF EngineTask, Others, panelVars, DelayInv
<1> QED BY <1>2, <1>3 DEF PanelNext

\* The panel tasks' variables and the engine's keep their types.
THEOREM PanelTypeCorrect == PanelSpec => []PanelTypeOK
<1>1. PanelSpec => []TypeOK
  BY PanelsImplementEngine, TypeCorrect, PTL DEF ImplementsEngine
<1>2. TaskInv /\ TypeOK /\ DelayInv => PanelTypeOK
  BY DEF TaskInv, DelayInv, PanelTypeOK
<1>3. PanelSpec => []TaskInv
  BY TaskInit, TaskStep, PTL DEF PanelSpec
<1>4. PanelSpec => []DelayInv
  BY DelayInit, DelayStep, PTL DEF PanelSpec
<1> QED BY <1>1, <1>2, <1>3, <1>4, PTL

-----------------------------------------------------------------------------
(* Cheesy Arena.                                                           *)

\* The blank record that a redo publishes is one of the published records.
BlanksPublished == \A m \in Match : BlankRecord(m) \in Records

LoadedInv == loaded \in Match

LEMMA LoadedInit == DisturbedSpec => Init /\ LoadedInv
BY LinkAssumption DEF DisturbedSpec, LinkInit, LoadedInv

LEMMA LoadedStep == LoadedInv /\ [DisturbedNext]_linkVars => LoadedInv'
BY DEF LoadedInv, DisturbedNext, LinkNext, PublishKnown, Deliver, Lose, EngineStep, Ask, Report, Load,
       Redo, linkVars

LEMMA DisturbedStep ==
  BlanksPublished /\ LoadedInv /\ [DisturbedNext]_linkVars => [Next]_vars
<1> SUFFICES ASSUME BlanksPublished, LoadedInv, [DisturbedNext]_linkVars PROVE [Next]_vars
  OBVIOUS
<1>1. CASE \E r \in Records : PublishKnown(r)
  BY <1>1 DEF PublishKnown, Next
<1>2. CASE \E c \in Channel : Deliver(c) \/ Lose(c)
  BY <1>2 DEF Deliver, Lose, Next
<1>3. CASE EngineStep
  BY <1>3 DEF EngineStep, Next
<1>4. CASE \E q \in Requests : Ask(q)
  BY <1>4 DEF Ask, Next
<1>5. CASE \E i \in Infos : Report(i)
  BY <1>5 DEF Report, Next
<1>6. CASE \E m \in Match : Load(m)
  BY <1>6 DEF Load
<1>7. CASE UNCHANGED linkVars
  BY <1>7 DEF linkVars
<1>8. CASE Redo
  BY <1>8 DEF Redo, Next, BlanksPublished, LoadedInv
<1> QED BY <1>1, <1>2, <1>3, <1>4, <1>5, <1>6, <1>7, <1>8 DEF DisturbedNext, LinkNext

\* The foul ledger is right even while commands are lost and matches are loaded
\* and replayed: all that can go wrong, goes wrong at the far end.
THEOREM LedgerIsRightDisturbed ==
  ASSUME BlanksPublished PROVE DisturbedSpec => []LedgerMatchesSent
<1>1. LoadedInv /\ [DisturbedNext]_linkVars => [Next]_vars
  BY DisturbedStep
<1>2. DisturbedSpec => Spec
  BY <1>1, LoadedInit, LoadedStep, PTL DEF DisturbedSpec, Spec
<1> QED BY <1>2, LedgerIsRight, PTL

-----------------------------------------------------------------------------
(* What a queue of commands does to what it is addressed to.               *)

\* R relates a command, a value before it and the value after it.  The commands
\* of q, taken in order, lead from x to y.
Runs(R, X, q, x, y) ==
  \E w \in [0..Len(q) -> X] :
    /\ w[0] = x /\ w[Len(q)] = y
    /\ \A i \in 1..Len(q) : <<q[i], w[i - 1], w[i]>> \in R

LEMMA RunsNothing ==
  ASSUME NEW R, NEW X, NEW x, NEW y
  PROVE  /\ x \in X => Runs(R, X, <<>>, x, x)
         /\ Runs(R, X, <<>>, x, y) => x = y
<1>1. Len(<<>>) = 0
  OBVIOUS
<1>2. ASSUME x \in X PROVE Runs(R, X, <<>>, x, x)
  <2> DEFINE w == [i \in 0..0 |-> x]
  <2>1. w \in [0..Len(<<>>) -> X] /\ w[0] = x /\ w[Len(<<>>)] = x
    BY <1>1, <1>2
  <2>2. \A i \in 1..Len(<<>>) : <<(<<>>)[i], w[i - 1], w[i]>> \in R
    BY <1>1
  <2> QED BY <2>1, <2>2 DEF Runs
<1> QED BY <1>1, <1>2 DEF Runs

LEMMA RunsHead ==
  ASSUME NEW R, NEW X, NEW B, NEW q \in Seq(B), q # <<>>, NEW x, NEW y, Runs(R, X, q, x, y)
  PROVE  \E z \in X : <<Head(q), x, z>> \in R /\ Runs(R, X, Tail(q), z, y)
<1>1. PICK w \in [0..Len(q) -> X] :
        w[0] = x /\ w[Len(q)] = y /\ \A i \in 1..Len(q) : <<q[i], w[i - 1], w[i]>> \in R
  BY DEF Runs
<1>2. /\ Len(q) \in Nat /\ Len(q) >= 1 /\ Head(q) = q[1] /\ Len(Tail(q)) = Len(q) - 1
      /\ \A i \in 1..(Len(q) - 1) : Tail(q)[i] = q[i + 1]
  BY HeadTailProperties, EmptySeq, LenProperties
<1> DEFINE n == Len(q) - 1
           v == [i \in 0..n |-> w[i + 1]]
<1>3. n \in Nat /\ n + 1 = Len(q) /\ Len(Tail(q)) = n
  BY <1>2
<1>4. v \in [0..Len(Tail(q)) -> X] /\ v[0] = w[1] /\ v[Len(Tail(q))] = y
  BY <1>1, <1>3
<1>5. \A i \in 1..Len(Tail(q)) : <<Tail(q)[i], v[i - 1], v[i]>> \in R
  <2> SUFFICES ASSUME NEW i \in 1..n PROVE <<Tail(q)[i], v[i - 1], v[i]>> \in R
    BY <1>3
  <2>1. i + 1 \in 1..Len(q) /\ (i + 1) - 1 = i /\ i - 1 \in 0..n /\ i \in 0..n /\ (i - 1) + 1 = i
    BY <1>3
  <2>2. <<q[i + 1], w[i], w[i + 1]>> \in R
    BY <1>1, <2>1
  <2> QED BY <1>2, <2>1, <2>2
<1>6. w[1] \in X /\ <<Head(q), x, w[1]>> \in R
  <2>1. 1 \in 1..Len(q) /\ 1 - 1 = 0 /\ 1 \in 0..Len(q)
    BY <1>2
  <2> QED BY <1>1, <1>2, <2>1
<1> QED BY <1>4, <1>5, <1>6 DEF Runs

LEMMA RunsConcat ==
  ASSUME NEW R, NEW X, NEW B, NEW p \in Seq(B), NEW q \in Seq(B), NEW x, NEW y, NEW z,
         Runs(R, X, p, x, y), Runs(R, X, q, y, z)
  PROVE  Runs(R, X, p \o q, x, z)
<1>1. PICK u \in [0..Len(p) -> X] :
        u[0] = x /\ u[Len(p)] = y /\ \A i \in 1..Len(p) : <<p[i], u[i - 1], u[i]>> \in R
  BY DEF Runs
<1>2. PICK v \in [0..Len(q) -> X] :
        v[0] = y /\ v[Len(q)] = z /\ \A i \in 1..Len(q) : <<q[i], v[i - 1], v[i]>> \in R
  BY DEF Runs
<1> DEFINE m == Len(p)
           n == Len(q)
           w == [i \in 0..(m + n) |-> IF i <= m THEN u[i] ELSE v[i - m]]
<1>3. m \in Nat /\ n \in Nat /\ Len(p \o q) = m + n
  BY LenProperties, ConcatProperties
<1>4. \A i \in 1..(m + n) : (p \o q)[i] = IF i <= m THEN p[i] ELSE q[i - m]
  BY ConcatProperties
<1> HIDE DEF m, n
<1>5. u \in [0..m -> X] /\ v \in [0..n -> X] /\ u[0] = x /\ u[m] = y /\ v[0] = y /\ v[n] = z
  BY <1>1, <1>2 DEF m, n
<1>6. w \in [0..(m + n) -> X]
  <2> SUFFICES ASSUME NEW i \in 0..(m + n) PROVE (IF i <= m THEN u[i] ELSE v[i - m]) \in X
    OBVIOUS
  <2>1. i <= m => i \in 0..m
    BY <1>3
  <2>2. ~(i <= m) => i - m \in 0..n
    BY <1>3
  <2> QED BY <1>5, <2>1, <2>2
<1>7. w[0] = x /\ w[m + n] = z
  <2>1. 0 \in 0..(m + n) /\ m + n \in 0..(m + n) /\ 0 <= m /\ (m + n <= m => n = 0) /\ (m + n) - m = n
    BY <1>3
  <2>2. w[m + n] = IF m + n <= m THEN u[m + n] ELSE v[n]
    BY <2>1
  <2>3. w[0] = x
    BY <1>5, <2>1
  <2>4. ASSUME m + n <= m PROVE u[m + n] = z
    <3>1. n = 0 /\ m + n = m
      BY <1>3, <2>1, <2>4
    <3> QED BY <1>5, <3>1
  <2> HIDE DEF w
  <2> QED BY <1>5, <2>2, <2>3, <2>4
<1>8. ASSUME NEW i \in 1..(m + n) PROVE <<(p \o q)[i], w[i - 1], w[i]>> \in R
  <2>1. CASE i <= m
    <3>1. i \in 1..m /\ i - 1 \in 0..(m + n) /\ i \in 0..(m + n) /\ i - 1 <= m
      BY <1>3, <2>1
    <3>2. (p \o q)[i] = p[i] /\ w[i - 1] = u[i - 1] /\ w[i] = u[i]
      BY <1>4, <2>1, <3>1
    <3> QED BY <1>1, <3>1, <3>2 DEF m
  <2>2. CASE i = m + 1
    <3>1. i - 1 = m /\ i - m = 1 /\ 1 \in 1..n /\ 1 - 1 = 0 /\ m \in 0..(m + n) /\ i \in 0..(m + n) /\ ~(i <= m) /\ m <= m
      BY <1>3, <2>2
    <3>2. (p \o q)[i] = q[1] /\ w[i - 1] = v[0] /\ w[i] = v[1]
      BY <1>4, <1>5, <3>1
    <3> QED BY <1>2, <3>1, <3>2 DEF n
  <2>3. CASE i > m + 1
    <3>1. /\ i - m \in 1..n /\ (i - 1) - m = (i - m) - 1 /\ i - 1 \in 0..(m + n) /\ i \in 0..(m + n)
          /\ ~(i <= m) /\ ~(i - 1 <= m)
      BY <1>3, <2>3
    <3>2. (p \o q)[i] = q[i - m] /\ w[i - 1] = v[(i - m) - 1] /\ w[i] = v[i - m]
      BY <1>4, <3>1
    <3> QED BY <1>2, <3>1, <3>2 DEF n
  <2>4. i <= m \/ i = m + 1 \/ i > m + 1
    BY <1>3
  <2> HIDE DEF w
  <2> QED BY <2>1, <2>2, <2>3, <2>4
<1> HIDE DEF w
<1> QED BY <1>3, <1>6, <1>7, <1>8 DEF Runs, m, n

LEMMA RunsOne ==
  ASSUME NEW R, NEW X, NEW b, NEW x \in X, NEW y \in X, <<b, x, y>> \in R
  PROVE  Runs(R, X, <<b>>, x, y)
<1> DEFINE w == [i \in 0..1 |-> IF i = 0 THEN x ELSE y]
<1>1. Len(<<b>>) = 1 /\ (<<b>>)[1] = b
  OBVIOUS
<1>2. w \in [0..1 -> X] /\ w[0] = x /\ w[1] = y
  OBVIOUS
<1>3. ASSUME NEW i \in 1..1 PROVE <<(<<b>>)[i], w[i - 1], w[i]>> \in R
  <2>1. i = 1 /\ i - 1 = 0
    OBVIOUS
  <2> QED BY <1>1, <1>2, <2>1
<1> HIDE DEF w
<1> QED BY <1>1, <1>2, <1>3 DEF Runs

\* Commands none of which changes x.
LEMMA RunsIdle ==
  ASSUME NEW R, NEW X, NEW B, NEW q \in Seq(B), NEW x \in X,
         \A i \in DOMAIN q : <<q[i], x, x>> \in R
  PROVE  Runs(R, X, q, x, x)
<1> DEFINE w == [i \in 0..Len(q) |-> x]
<1>1. Len(q) \in Nat /\ DOMAIN q = 1..Len(q)
  BY LenProperties
<1>2. w \in [0..Len(q) -> X] /\ w[0] = x /\ w[Len(q)] = x
  BY <1>1
<1>3. \A i \in 1..Len(q) : <<q[i], w[i - 1], w[i]>> \in R
  BY <1>1
<1> HIDE DEF w
<1> QED BY <1>2, <1>3 DEF Runs

\* Commands that each set one of the values to what it is in new, or none when
\* their key has no value.
Sets(R, K, V, q, key, new) ==
  \A i \in DOMAIN q :
    /\ key[i] \in K => new[key[i]] \in V
    /\ \A f \in [K -> V] : <<q[i], f, [f EXCEPT ![key[i]] = new[key[i]]]>> \in R
AfterSets(K, q, key, new, x) == [k \in K |-> IF \E i \in DOMAIN q : key[i] = k THEN new[k] ELSE x[k]]

LEMMA RunsSet ==
  ASSUME NEW R, NEW K, NEW V, NEW B, NEW q \in Seq(B), NEW x \in [K -> V], NEW new, NEW key,
         Sets(R, K, V, q, key, new)
  PROVE  /\ AfterSets(K, q, key, new, x) \in [K -> V]
         /\ Runs(R, [K -> V], q, x, AfterSets(K, q, key, new, x))
<1> DEFINE setBy(n, k) == \E i \in 1..n : key[i] = k
           w == [n \in 0..Len(q) |-> [k \in K |-> IF setBy(n, k) THEN new[k] ELSE x[k]]]
<1>1. Len(q) \in Nat /\ DOMAIN q = 1..Len(q)
  BY LenProperties
<1>2. w \in [0..Len(q) -> [K -> V]]
  <2> SUFFICES ASSUME NEW n \in 0..Len(q), NEW k \in K PROVE (IF setBy(n, k) THEN new[k] ELSE x[k]) \in V
    OBVIOUS
  <2>1. 1..n \subseteq DOMAIN q
    BY <1>1
  <2> QED BY <2>1 DEF Sets
<1>3. w[0] = x
  <2>1. \A k \in K : ~setBy(0, k)
    OBVIOUS
  <2>2. w[0] = [k \in K |-> x[k]]
    BY <1>1, <2>1
  <2> QED BY <2>2
<1>4. w[Len(q)] = AfterSets(K, q, key, new, x)
  BY <1>1 DEF AfterSets
<1>5. ASSUME NEW n \in 1..Len(q) PROVE <<q[n], w[n - 1], w[n]>> \in R
  <2>1. n - 1 \in 0..Len(q) /\ n \in 0..Len(q) /\ n \in DOMAIN q
    BY <1>1
  <2>2. \A k \in K : setBy(n, k) <=> setBy(n - 1, k) \/ key[n] = k
    <3>1. \A i \in 1..n : i \in 1..(n - 1) \/ i = n
      BY <1>1
    <3>2. \A i \in 1..(n - 1) : i \in 1..n
      BY <1>1
    <3> QED BY <1>1, <3>1, <3>2
  <2> HIDE DEF setBy
  <2>3. w[n] = [w[n - 1] EXCEPT ![key[n]] = new[key[n]]]
    BY <2>1, <2>2
  <2>4. w[n - 1] \in [K -> V]
    BY <1>2, <2>1
  <2> QED BY <2>1, <2>3, <2>4 DEF Sets
<1>6. Len(q) \in 0..Len(q)
  BY <1>1
<1> HIDE DEF w
<1> QED BY <1>2, <1>3, <1>4, <1>5, <1>6 DEF Runs

\* The outbox is written for all channels: a letter for c does what its body
\* does, and any other changes nothing.
ByLetter(c, R, X) ==
  {t \in Letter \X X \X X : IF t[1].to = c THEN <<t[1].body, t[2], t[3]>> \in R ELSE t[3] = t[2]}

\* The commands of channel c, first those in the channel and then those in the
\* outbox, lead from x to y.
Pending(q, out, c, R, X, x, y) ==
  \E mid \in X : Runs(R, X, q, x, mid) /\ Runs(ByLetter(c, R, X), X, out, mid, y)

LEMMA PendingTaken ==
  ASSUME NEW c, NEW R, NEW X, NEW B, NEW q \in Seq(B), NEW out, NEW x, NEW y,
         q # <<>>, Pending(q, out, c, R, X, x, y)
  PROVE  \E z \in X : <<Head(q), x, z>> \in R /\ Pending(Tail(q), out, c, R, X, z, y)
BY RunsHead DEF Pending

LEMMA PendingSent ==
  ASSUME NEW c, NEW R, NEW X, NEW B, NEW q \in Seq(B), NEW out \in Seq(Letter), NEW x, NEW y,
         out # <<>>, Pending(q, out, c, R, X, x, y), Head(out).to = c => Head(out).body \in B
  PROVE  Pending(IF Head(out).to = c THEN Append(q, Head(out).body) ELSE q, Tail(out), c, R, X, x, y)
<1>1. PICK mid \in X : Runs(R, X, q, x, mid) /\ Runs(ByLetter(c, R, X), X, out, mid, y)
  BY DEF Pending
<1>2. PICK z \in X : <<Head(out), mid, z>> \in ByLetter(c, R, X) /\ Runs(ByLetter(c, R, X), X, Tail(out), z, y)
  BY <1>1, RunsHead
<1>3. CASE Head(out).to = c
  <2>1. <<Head(out).body, mid, z>> \in R
    BY <1>2, <1>3 DEF ByLetter
  <2>2. Runs(R, X, <<Head(out).body>>, mid, z)
    BY <2>1, RunsOne
  <2>3. <<Head(out).body>> \in Seq(B) /\ Append(q, Head(out).body) = q \o <<Head(out).body>>
    BY <1>3
  <2>4. Runs(R, X, Append(q, Head(out).body), x, z)
    BY <1>1, <2>2, <2>3, RunsConcat
  <2> QED BY <1>2, <1>3, <2>4 DEF Pending
<1>4. CASE Head(out).to # c
  <2>1. z = mid
    BY <1>2, <1>4 DEF ByLetter
  <2> QED BY <1>1, <1>2, <1>4, <2>1 DEF Pending
<1> QED BY <1>3, <1>4

LEMMA PendingMore ==
  ASSUME NEW c, NEW R, NEW X, NEW q, NEW out \in Seq(Letter), NEW more \in Seq(Letter),
         NEW x, NEW y, NEW z,
         Pending(q, out, c, R, X, x, y), Runs(ByLetter(c, R, X), X, more, y, z)
  PROVE  Pending(q, out \o more, c, R, X, x, z)
BY RunsConcat DEF Pending

LEMMA PendingNothing ==
  ASSUME NEW c, NEW R, NEW X, NEW x, NEW y
  PROVE  /\ x \in X => Pending(<<>>, <<>>, c, R, X, x, x)
         /\ Pending(<<>>, <<>>, c, R, X, x, y) => x = y
BY RunsNothing DEF Pending

-----------------------------------------------------------------------------
(* One match, commands that all arrive.                                    *)

LEMMA LinkStep == [LinkNext]_linkVars => [Next]_vars
BY DEF LinkNext, PublishKnown, Ask, Deliver, EngineStep, linkVars, Next

LEMMA LinkIsEngine == LinkSpec => Spec
<1>1. LinkInit => Init
  BY DEF LinkInit
<1> QED BY <1>1, LinkStep, PTL DEF LinkSpec, Spec

OneMatch ==
  /\ closed = {} /\ matchInfo = FirstInfo /\ known = {FirstMatch}
  /\ \A i \in DOMAIN inbox : inbox[i].match = FirstMatch
  /\ currentMatch \in {NoMatchYet, FirstMatch}
  /\ currentMatch = NoMatchYet => ledger = EmptyLists

\* What the engine is known to satisfy in every behaviour.
EngineInv == TypeOK /\ LedgerMatchesSent /\ LettersInv /\ ResendInv

\* The first record resets trackers that are blank already, and no later one
\* resets them: the match stays the same.
LEMMA RecordKeepsTrackers ==
  ASSUME EngineInv, OneMatch, OnRecord
  PROVE  /\ UNCHANGED <<ledger, lastSent, prev>>
         /\ currentMatch' = FirstMatch
<1>1. Head(inbox).match = FirstMatch
  <2>1. 1 \in DOMAIN inbox /\ Head(inbox) = inbox[1]
    BY DEF EngineInv, TypeOK, OnRecord
  <2> QED BY <2>1 DEF OneMatch
<1>2. CASE currentMatch = FirstMatch
  BY <1>1, <1>2 DEF OnRecord
<1>3. CASE currentMatch = NoMatchYet
  <2>1. rec.match \in Match
    BY DEF EngineInv, TypeOK, Record
  <2>2. rec = BlankRecord(rec.match) /\ CaughtUp
    BY <1>3, <2>1, SyncAssumption DEF EngineInv, ResendInv
  <2>3. CombinedFouls(rec) = NoFouls /\ CombinedCards(rec) = NoCards /\ ClimbOf(rec) = NoPanels
    BY <2>2, BlankIsBlank
  <2>4. lastSent.cards = NoCards /\ prev = NoPanels
    BY <2>2, <2>3 DEF CaughtUp
  <2>5. lastSent.fouls = NoFouls
    <3>1. lastSent.fouls \in [Alliance -> [Kind -> Nat]]
      BY DEF EngineInv, TypeOK
    <3>2. \A a \in Alliance, k \in Kind : lastSent.fouls[a][k] = 0
      BY <2>2, <2>3 DEF CaughtUp, Settled, NoFouls
    <3> QED BY <3>1, <3>2 DEF NoFouls
  <2>6. lastSent = [fouls |-> NoFouls, cards |-> NoCards]
    BY <2>4, <2>5 DEF EngineInv, TypeOK
  <2>7. ledger = [a \in Alliance |-> <<>>]
    BY <1>3 DEF OneMatch, EmptyLists
  <2> QED BY <1>1, <2>4, <2>6, <2>7 DEF OnRecord
<1> QED BY <1>2, <1>3 DEF OneMatch

LEMMA OneMatchInit == LinkInit => OneMatch
BY DEF LinkInit, Init, OneMatch, EmptyLists

LEMMA OneMatchStep == EngineInv /\ OneMatch /\ [LinkNext]_linkVars => OneMatch'
<1> SUFFICES ASSUME EngineInv, OneMatch, [LinkNext]_linkVars PROVE OneMatch'
  OBVIOUS
<1>1. ASSUME NEW r \in Records, PublishKnown(r) PROVE OneMatch'
  <2>1. r.match = FirstMatch /\ inbox' = Append(inbox, r) /\ inbox \in Seq(Records)
    BY <1>1 DEF PublishKnown, Publish, OneMatch, EngineInv, TypeOK
  <2>2. \A i \in DOMAIN inbox' : inbox'[i].match = FirstMatch
    BY <2>1 DEF OneMatch
  <2> QED BY <1>1, <2>2 DEF PublishKnown, Publish, OneMatch, engine, trackers
<1>2. ASSUME NEW q \in Requests, Ask(q) PROVE OneMatch'
  BY <1>2 DEF Ask, Request, OneMatch, engine, trackers
<1>3. ASSUME NEW c \in Channel, Deliver(c) PROVE OneMatch'
  BY <1>3 DEF Deliver, Take, OneMatch, env, engine, trackers
<1>4. CASE EngineStep
  <2>1. CASE OnRecord
    <3>1. \A i \in DOMAIN inbox' : inbox'[i].match = FirstMatch
      <4>1. inbox \in Seq(Records) /\ inbox # <<>> /\ inbox' = Tail(inbox)
        BY <2>1 DEF EngineInv, TypeOK, OnRecord
      <4>2. ASSUME NEW i \in DOMAIN inbox' PROVE i + 1 \in DOMAIN inbox /\ inbox'[i] = inbox[i + 1]
        BY <4>1
      <4> QED BY <4>2 DEF OneMatch
    <3>2. FirstMatch # NoMatchYet
      BY SyncAssumption, LinkAssumption
    <3> QED BY <1>4, <2>1, <3>1, <3>2, RecordKeepsTrackers DEF EngineStep, OnRecord, OneMatch
  <2>2. CASE OnBypass \/ OnCommit \/ StartDiff \/ FinishDiff \/ Send
    BY <1>4, <2>2 DEF EngineStep, OnBypass, OnCommit, StartDiff, FinishDiff, Send, OneMatch, env, trackers
  <2>3. ASSUME NEW i \in 1..4, AdjustFoul(i) PROVE OneMatch'
    <3>1. pc = "fouls" /\ rec.match \in Match
      BY <2>3 DEF AdjustFoul, EngineInv, TypeOK, Record
    <3>2. currentMatch # NoMatchYet
      BY <3>1, SyncAssumption DEF EngineInv, ResendInv
    <3> QED BY <1>4, <2>3, <3>2 DEF EngineStep, AdjustFoul, OneMatch, env
  <2> QED BY <1>4, <2>1, <2>2, <2>3 DEF EngineStep, Diff
<1>5. CASE UNCHANGED linkVars
  BY <1>5 DEF linkVars, vars, OneMatch, env, engine, trackers
<1> QED BY <1>1, <1>2, <1>3, <1>4, <1>5 DEF LinkNext

\* Letters that are about neither fouls, cards nor climbs.
Aside == {l \in Letter : l.body.type \in Routine \cup {"signalVolunteers", "signalReset"}}

\* What a step does to the commands under way.
LEMMA LinkMoves ==
  ASSUME EngineInv, OneMatch, [LinkNext]_linkVars
  PROVE  \/ /\ UNCHANGED <<chan, cheesy, ledger, lastSent, prev>>
            /\ \E more \in Seq(Aside) : outbox' = outbox \o more
         \/ UNCHANGED cheesy /\ \E i \in 1..4 : AdjustFoul(i)
         \/ UNCHANGED cheesy /\ FinishDiff
         \/ UNCHANGED cheesy /\ Send
         \/ \E c \in Channel : Deliver(c)
<1> DEFINE Grows == /\ UNCHANGED <<chan, cheesy, ledger, lastSent, prev>>
                    /\ \E more \in Seq(Aside) : outbox' = outbox \o more
<1>1. outbox \in Seq(Letter)
  BY DEF EngineInv, LettersInv
<1>2. ASSUME UNCHANGED <<chan, cheesy, ledger, lastSent, prev, outbox>> PROVE Grows
  <2>1. outbox' = outbox \o <<>> /\ <<>> \in Seq(Aside)
    BY <1>1, <1>2
  <2> QED BY <1>2, <2>1
<1>3. ASSUME UNCHANGED <<chan, cheesy, ledger, lastSent, prev>>, outbox = <<>>, outbox' \in Seq(Aside) PROVE Grows
  <2>1. outbox' = outbox \o outbox'
    BY <1>3
  <2> QED BY <1>3, <2>1
<1>4. CASE \/ \E r \in Records : PublishKnown(r)
           \/ \E q \in Requests : Ask(q)
           \/ EngineStep /\ StartDiff
           \/ UNCHANGED linkVars
  BY <1>2, <1>4 DEF PublishKnown, Publish, Ask, Request, EngineStep, StartDiff, linkVars, vars, engine, trackers
<1>5. ASSUME NEW c \in Channel, NEW b \in BodyFor(c), b.type \in Routine \cup {"signalVolunteers", "signalReset"}
      PROVE  To(c, b) \in Aside
  <2>1. To(c, b) \in Letter /\ To(c, b).body = b
    BY LetterTo DEF To
  <2> QED BY <1>5, <2>1 DEF Aside
<1>6. /\ \A s \in Station : To("referee", [type |-> "toggleBypass", station |-> s]) \in Aside
      /\ To("referee", [type |-> "commitAndPost"]) \in Aside
      /\ To("referee", [type |-> "signalVolunteers"]) \in Aside
      /\ To("referee", [type |-> "signalReset"]) \in Aside
      /\ To("red", [type |-> "commitMatch"]) \in Aside
      /\ To("blue", [type |-> "commitMatch"]) \in Aside
  <2>1. "referee" \in Channel /\ "red" \in Channel /\ "blue" \in Channel
    BY DEF Channel
  <2>2. /\ \A s \in Station : [type |-> "toggleBypass", station |-> s] \in BodyFor("referee")
        /\ [type |-> "commitAndPost"] \in BodyFor("referee")
        /\ [type |-> "signalVolunteers"] \in BodyFor("referee")
        /\ [type |-> "signalReset"] \in BodyFor("referee")
        /\ [type |-> "commitMatch"] \in BodyFor("red")
        /\ [type |-> "commitMatch"] \in BodyFor("blue")
    BY DEF BodyFor, RefereeBody, PanelBody
  <2> QED BY <1>5, <2>1, <2>2 DEF Routine
<1>7. CASE EngineStep /\ OnBypass
  <2>1. PICK s \in Station : outbox' = <<To("referee", [type |-> "toggleBypass", station |-> s])>>
    BY <1>7 DEF OnBypass
  <2>2. outbox' \in Seq(Aside)
    BY <1>6, <2>1
  <2> QED BY <1>3, <1>7, <2>2 DEF EngineStep, OnBypass, Selecting, trackers
<1>8. CASE EngineStep /\ OnCommit
  <2>1. outbox' \in Seq(Aside)
    BY <1>6, <1>8 DEF OnCommit
  <2> QED BY <1>3, <1>8, <2>1 DEF EngineStep, OnCommit, Selecting, trackers
<1>9. CASE EngineStep /\ OnRecord
  <2>1. \A f : FieldCommand(f) \in Seq(Aside)
    BY <1>6 DEF FieldCommand
  <2>2. outbox' \in Seq(Aside) /\ outbox = <<>> /\ UNCHANGED <<chan, cheesy>>
    BY <1>9, <2>1 DEF EngineStep, OnRecord, Selecting
  <2> QED BY <1>3, <1>9, <2>2, RecordKeepsTrackers
<1> HIDE DEF Grows
<1>10. CASE EngineStep /\ (Diff \/ Send)
  BY <1>4, <1>10 DEF EngineStep, Diff
<1>11. CASE \E c \in Channel : Deliver(c)
  BY <1>11
<1> QED BY <1>4, <1>7, <1>8, <1>9, <1>10, <1>11 DEF LinkNext, EngineStep, Grows

LEMMA PendingAside ==
  ASSUME NEW c, NEW R, NEW X, NEW q, NEW out \in Seq(Letter), NEW more \in Seq(Letter), NEW x, NEW y \in X,
         Pending(q, out, c, R, X, x, y), \A i \in DOMAIN more : <<more[i], y, y>> \in ByLetter(c, R, X)
  PROVE  Pending(q, out \o more, c, R, X, x, y)
BY RunsIdle, PendingMore

\* Sending keeps what is under way, and so does delivering on another channel; a
\* delivery on the channel itself takes the first step.
LEMMA PendingStep ==
  ASSUME LettersInv, closed = {}, NEW c \in Channel, NEW R, NEW X, NEW x, NEW y,
         Pending(chan[c], outbox, c, R, X, x, y)
  PROVE  /\ Send => Pending(chan'[c], outbox', c, R, X, x, y)
         /\ \A d \in Channel : Deliver(d) /\ d # c => Pending(chan'[c], outbox', c, R, X, x, y)
         /\ Deliver(c) => \E z \in X : <<Head(chan[c]), x, z>> \in R /\ Pending(chan'[c], outbox', c, R, X, z, y)
<1>1. /\ chan[c] \in Seq(BodyFor(c)) /\ outbox \in Seq(Letter)
      /\ DOMAIN chan = Channel /\ chan = [d \in Channel |-> chan[d]]
  BY DEF LettersInv
<1>2. ASSUME Send PROVE Pending(chan'[c], outbox', c, R, X, x, y)
  <2>1. Head(outbox) \in Letter /\ outbox # <<>> /\ outbox' = Tail(outbox)
    BY <1>1, <1>2 DEF Send
  <2>2. Head(outbox).to \in Channel /\ Head(outbox).body \in BodyFor(Head(outbox).to)
    BY <2>1, LetterTo
  <2>3. chan'[c] = IF Head(outbox).to = c THEN Append(chan[c], Head(outbox).body) ELSE chan[c]
    BY <1>1, <1>2, <2>2 DEF Send
  <2> QED BY <1>1, <2>1, <2>2, <2>3, PendingSent
<1>3. ASSUME NEW d \in Channel, Deliver(d), d # c PROVE chan'[c] = chan[c] /\ outbox' = outbox
  BY <1>1, <1>3 DEF Deliver, Take, engine
<1>4. ASSUME Deliver(c)
      PROVE  \E z \in X : <<Head(chan[c]), x, z>> \in R /\ Pending(chan'[c], outbox', c, R, X, z, y)
  <2>1. chan[c] # <<>> /\ chan'[c] = Tail(chan[c]) /\ outbox' = outbox
    BY <1>1, <1>4 DEF Deliver, Take, engine
  <2>2. \E z \in X : <<Head(chan[c]), x, z>> \in R /\ Pending(Tail(chan[c]), outbox, c, R, X, z, y)
    BY <1>1, <2>1, PendingTaken
  <2> QED BY <2>1, <2>2
<1> QED BY <1>2, <1>3, <1>4

-----------------------------------------------------------------------------
(* Fouls.                                                                  *)

\* Taking a foul out of Cheesy Arena's list and out of the ledger is the same.
LEMMA RemoveAtIsWithout ==
  ASSUME NEW s \in Seq(Kind), NEW i \in 1..Len(s)
  PROVE  RemoveAt(s, i) = Without(s, i)
<1> DEFINE p == SubSeq(s, 1, i - 1)
           q == SubSeq(s, i + 1, Len(s))
<1>1. Len(s) \in Nat /\ i \in Nat /\ i >= 1 /\ i <= Len(s)
  BY LenProperties
<1>2. p \in Seq(Kind) /\ Len(p) = i - 1 /\ \A j \in 1..(i - 1) : p[j] = s[j]
  BY <1>1
<1>3. q \in Seq(Kind) /\ Len(q) = Len(s) - i /\ \A j \in 1..(Len(s) - i) : q[j] = s[i + j]
  BY <1>1
<1>4. RemoveAt(s, i) = p \o q
  BY DEF RemoveAt
<1> HIDE DEF p, q
<1>5. /\ p \o q \in Seq(Kind) /\ Len(p \o q) = Len(s) - 1
      /\ \A j \in 1..(Len(s) - 1) : (p \o q)[j] = IF j <= i - 1 THEN p[j] ELSE q[j - (i - 1)]
  <2>1. Len(p) + Len(q) = Len(s) - 1 /\ Len(p) = i - 1
    BY <1>1, <1>2, <1>3
  <2>2. /\ p \o q \in Seq(Kind) /\ Len(p \o q) = Len(p) + Len(q)
        /\ \A j \in 1..(Len(p) + Len(q)) : (p \o q)[j] = IF j <= Len(p) THEN p[j] ELSE q[j - Len(p)]
    BY <1>2, <1>3, ConcatProperties
  <2> QED BY <2>1, <2>2
<1>6. ASSUME NEW j \in 1..(Len(s) - 1) PROVE (p \o q)[j] = IF j < i THEN s[j] ELSE s[j + 1]
  <2>1. CASE j < i
    <3>1. j \in 1..(i - 1)
      BY <1>1, <2>1
    <3> QED BY <1>2, <1>5, <2>1, <3>1
  <2>2. CASE ~(j < i)
    <3>1. ~(j <= i - 1) /\ j - (i - 1) \in 1..(Len(s) - i) /\ i + (j - (i - 1)) = j + 1
      BY <1>1, <2>2
    <3> QED BY <1>3, <1>5, <2>2, <3>1
  <2> QED BY <2>1, <2>2
<1>7. p \o q = [j \in 1..(Len(s) - 1) |-> (p \o q)[j]]
  <2>1. \A u \in Seq(Kind) : u = [j \in 1..Len(u) |-> u[j]]
    OBVIOUS
  <2> QED BY <1>5, <2>1
<1> QED BY <1>4, <1>6, <1>7 DEF Without

Lists == [Alliance -> Seq(Kind)]

\* A foul command at the far end: a foul to delete has to be there.
FoulStep ==
  {t \in RefereeBody \X Lists \X Lists :
     CASE t[1].type = "addFoul" ->
            t[3] = [t[2] EXCEPT ![t[1].alliance] = Append(@, t[1].kind)]
       [] t[1].type = "deleteFoul" ->
            /\ t[1].index < Len(t[2][t[1].alliance])
            /\ t[3] = [t[2] EXCEPT ![t[1].alliance] = Without(@, t[1].index + 1)]
       [] OTHER -> t[3] = t[2]}

\* The foul commands under way turn Cheesy Arena's lists into the ledger.
FoulsInv ==
  /\ fouls \in Lists
  /\ Pending(chan["referee"], outbox, "referee", FoulStep, Lists, fouls, ledger)

LEMMA FoulAside ==
  ASSUME NEW l \in Letter, NEW x \in Lists,
         l.to # "referee" \/ l.body.type \notin {"addFoul", "deleteFoul"}
  PROVE  <<l, x, x>> \in ByLetter("referee", FoulStep, Lists)
<1>1. CASE l.to = "referee"
  <2>1. l.body \in RefereeBody
    BY <1>1, LetterTo DEF BodyFor
  <2>2. <<l.body, x, x>> \in FoulStep
    BY <1>1, <2>1 DEF FoulStep
  <2> QED BY <1>1, <2>2 DEF ByLetter
<1>2. CASE l.to # "referee"
  BY <1>2 DEF ByLetter
<1> QED BY <1>1, <1>2

\* A turn of push_foul_deltas does to the ledger what its command does to the
\* lists of Cheesy Arena.
LEMMA FoulPushed ==
  ASSUME EngineInv, NEW i \in 1..4, AdjustFoul(i)
  PROVE  \/ UNCHANGED <<ledger, outbox>>
         \/ \E b \in RefereeBody :
              /\ outbox' = Append(outbox, To("referee", b))
              /\ <<b, ledger, ledger'>> \in FoulStep
              /\ b.type \in {"addFoul", "deleteFoul"}
<1> DEFINE a == FoulOrder[i][1]
           k == FoulOrder[i][2]
           at == LastOf(ledger[a], k)
<1>1. a \in Alliance /\ k \in Kind
  BY FoulOrderType
<1>2. ledger \in Lists /\ ledger[a] \in Seq(Kind)
  BY <1>1 DEF EngineInv, TypeOK, Lists
<1>3. ASSUME ledger' = [ledger EXCEPT ![a] = Append(@, k)],
             outbox' = Append(outbox, To("referee", [type |-> "addFoul", alliance |-> a, kind |-> k]))
      PROVE  \E b \in RefereeBody : /\ outbox' = Append(outbox, To("referee", b))
                                    /\ <<b, ledger, ledger'>> \in FoulStep
                                    /\ b.type \in {"addFoul", "deleteFoul"}
  <2> DEFINE b == [type |-> "addFoul", alliance |-> a, kind |-> k]
  <2>1. b \in RefereeBody /\ b.type = "addFoul" /\ b.alliance = a /\ b.kind = k
    BY <1>1 DEF RefereeBody
  <2>2. ledger' \in Lists
    BY <1>1, <1>2, <1>3, AppendProperties DEF Lists
  <2>3. <<b, ledger, ledger'>> \in FoulStep
    BY <1>2, <1>3, <2>1, <2>2 DEF FoulStep
  <2> QED BY <1>3, <2>1, <2>3
<1>4. ASSUME PositionsOf(ledger[a], k) # {}, ledger' = [ledger EXCEPT ![a] = Without(@, at)],
             outbox' = Append(outbox, To("referee", [type |-> "deleteFoul", alliance |-> a, index |-> WireIndex(at)]))
      PROVE  \E b \in RefereeBody : /\ outbox' = Append(outbox, To("referee", b))
                                    /\ <<b, ledger, ledger'>> \in FoulStep
                                    /\ b.type \in {"addFoul", "deleteFoul"}
  <2> DEFINE b == [type |-> "deleteFoul", alliance |-> a, index |-> WireIndex(at)]
  <2>1. at \in DOMAIN ledger[a]
    BY <1>2, <1>4, LastIsFound DEF PositionsOf
  <2> HIDE DEF at
  <2>2. WireIndex(at) \in Nat /\ WireIndex(at) < Len(ledger[a]) /\ WireIndex(at) + 1 = at
    BY <1>2, <2>1 DEF WireIndex
  <2>3. b \in RefereeBody /\ b.type = "deleteFoul" /\ b.alliance = a /\ b.index = WireIndex(at)
    BY <1>1, <2>2 DEF RefereeBody
  <2>4. ledger' \in Lists
    BY <1>1, <1>2, <1>4, <2>1, WithoutIsSeq DEF Lists
  <2>5. <<b, ledger, ledger'>> \in FoulStep
    BY <1>2, <1>4, <2>2, <2>3, <2>4 DEF FoulStep
  <2> QED BY <1>4, <2>3, <2>5
<1> HIDE DEF a, k, at
<1> QED BY <1>3, <1>4 DEF AdjustFoul, a, k, at

\* Cards and climbs: the letters that FinishDiff adds.
LettersTo(c, type) == {l \in Letter : l.to = c /\ l.body.type \in type}
Climbs == {"autoTower", "endgame"}

LEMMA TowersAddressed ==
  ASSUME NEW a \in Alliance, NEW new \in [Side -> Climb], NEW s \in Side
  PROVE  /\ TowerCommands(a, "autoTower", new[s].autoClimb) \in Seq(LettersTo(a, {"autoTower"}))
         /\ TowerCommands(a, "endgame", new[s].endgameClimb) \in Seq(LettersTo(a, {"endgame"}))
<1>1. ASSUME NEW type \in Climbs, NEW climb,
             \/ type = "autoTower" /\ climb \in [Position -> AutoCall]
             \/ type = "endgame" /\ climb \in [Position -> EndgameCall]
      PROVE  TowerCommands(a, type, climb) \in Seq(LettersTo(a, {type}))
  <2> DEFINE q == TowerCommands(a, type, climb)
  <2>1. q \in Seq(Letter) /\ OneForEachCall(q, a, type, climb)
    BY <1>1, TowerCommandsOf
  <2> HIDE DEF q
  <2>2. \A k \in DOMAIN q : q[k].to = a /\ q[k].body.type = type
    BY <2>1 DEF OneForEachCall, TowerCommand, To
  <2>3. Len(q) \in Nat /\ q \in [1..Len(q) -> LettersTo(a, {type})]
    BY <2>1, <2>2 DEF LettersTo
  <2>4. q \in Seq(LettersTo(a, {type}))
    BY <2>3
  <2> QED BY <2>4 DEF q
<1>2. new[s].autoClimb \in [Position -> AutoCall] /\ new[s].endgameClimb \in [Position -> EndgameCall]
  BY DEF Climb
<1>3. "autoTower" \in Climbs /\ "endgame" \in Climbs
  BY DEF Climbs
<1> QED BY <1>1, <1>2, <1>3

LEMMA ClimbsAddressed ==
  ASSUME NEW a \in Alliance, NEW old, NEW new \in [Side -> Climb]
  PROVE  ClimbCommands(a, old, new) \in Seq(LettersTo(a, Climbs))
<1> DEFINE auto(s) == IF AutoChanged(old[s], new[s])
                      THEN TowerCommands(a, "autoTower", new[s].autoClimb) ELSE <<>>
           endgame(s) == IF EndgameChanged(old[s], new[s])
                         THEN TowerCommands(a, "endgame", new[s].endgameClimb) ELSE <<>>
<1>1. LettersTo(a, {"autoTower"}) \subseteq LettersTo(a, Climbs) /\ LettersTo(a, {"endgame"}) \subseteq LettersTo(a, Climbs)
  BY DEF LettersTo, Climbs
<1>2. ASSUME NEW s \in Side PROVE auto(s) \in Seq(LettersTo(a, Climbs)) /\ endgame(s) \in Seq(LettersTo(a, Climbs))
  <2>1. /\ TowerCommands(a, "autoTower", new[s].autoClimb) \in Seq(LettersTo(a, Climbs))
        /\ TowerCommands(a, "endgame", new[s].endgameClimb) \in Seq(LettersTo(a, Climbs))
    BY <1>1, TowersAddressed
  <2>2. <<>> \in Seq(LettersTo(a, Climbs))
    OBVIOUS
  <2> QED BY <2>1, <2>2
<1>3. ClimbCommands(a, old, new) = auto("near") \o auto("far") \o endgame("near") \o endgame("far")
  BY DEF ClimbCommands
<1>4. "near" \in Side /\ "far" \in Side
  BY DEF Side
<1> HIDE DEF auto, endgame
<1>5. /\ auto("near") \in Seq(LettersTo(a, Climbs)) /\ auto("far") \in Seq(LettersTo(a, Climbs))
      /\ endgame("near") \in Seq(LettersTo(a, Climbs)) /\ endgame("far") \in Seq(LettersTo(a, Climbs))
  BY <1>2, <1>4
<1> QED BY <1>3, <1>5

LEMMA CardsAddressed ==
  ASSUME NEW old, NEW new \in [Station -> Card], NEW info \in Info \cup {NoInfo}
  PROVE  CardCommands(old, new, info) \in Seq(LettersTo("referee", {"card"}))
<1> DEFINE q == CardCommands(old, new, info)
<1>1. q \in Seq(Letter) /\ OneForEachCard(q, old, new, info)
  BY CardCommandsOf
<1> HIDE DEF q
<1>2. \A k \in DOMAIN q : q[k].to = "referee" /\ q[k].body.type = "card"
  BY <1>1 DEF OneForEachCard, CardCommand, To
<1>3. Len(q) \in Nat /\ q \in [1..Len(q) -> LettersTo("referee", {"card"})]
  BY <1>1, <1>2 DEF LettersTo
<1>4. q \in Seq(LettersTo("referee", {"card"}))
  BY <1>3
<1> QED BY <1>4 DEF q

\* The three parts of what FinishDiff adds.
CardPart == CardCommands(lastSent.cards, CombinedCards(rec), matchInfo)
ClimbPart(a) == ClimbCommands(a, prev[a], ClimbOf(rec)[a])

LEMMA DifferenceParts ==
  ASSUME TypeOK
  PROVE  /\ Difference = CardPart \o ClimbPart("red") \o ClimbPart("blue")
         /\ CardPart \in Seq(LettersTo("referee", {"card"}))
         /\ \A a \in Alliance : ClimbPart(a) \in Seq(LettersTo(a, Climbs))
         /\ CardPart \in Seq(Letter) /\ \A a \in Alliance : ClimbPart(a) \in Seq(Letter)
<1>1. CombinedCards(rec) \in [Station -> Card] /\ matchInfo \in Info \cup {NoInfo}
  BY DEF TypeOK, Record, CombinedCards
<1>2. \A a \in Alliance : ClimbOf(rec)[a] \in [Side -> Climb]
  BY ClimbOfType DEF TypeOK
<1>3. CardPart \in Seq(LettersTo("referee", {"card"}))
  BY <1>1, CardsAddressed DEF CardPart
<1>4. \A a \in Alliance : ClimbPart(a) \in Seq(LettersTo(a, Climbs))
  BY <1>2, ClimbsAddressed DEF ClimbPart
<1>5. \A c, type : LettersTo(c, type) \subseteq Letter
  BY DEF LettersTo
<1>6. CardPart \in Seq(Letter) /\ \A a \in Alliance : ClimbPart(a) \in Seq(Letter)
  BY <1>3, <1>4, <1>5
<1> QED BY <1>3, <1>4, <1>6 DEF Difference, CardPart, ClimbPart

LEMMA FoulsInit == LinkInit => FoulsInv
<1> SUFFICES ASSUME LinkInit PROVE FoulsInv
  OBVIOUS
<1>1. fouls \in Lists /\ fouls = ledger
  BY DEF LinkInit, Init, EmptyLists, Lists
<1>2. chan["referee"] = <<>> /\ outbox = <<>>
  BY DEF LinkInit, Init, Channel
<1> QED BY <1>1, <1>2, PendingNothing DEF FoulsInv

LEMMA FoulDelivered ==
  ASSUME EngineInv, fouls \in Lists, NEW c \in Channel, Deliver(c), NEW z \in Lists,
         c = "referee" => <<Head(chan[c]), fouls, z>> \in FoulStep
  PROVE  /\ c = "referee" => fouls' = z
         /\ c # "referee" => fouls' = fouls
<1> DEFINE m == Head(chan[c])
<1>1. m \in BodyFor(c)
  BY DEF EngineInv, LettersInv, Deliver, Take
<1>2. fouls' = CASE m.type = "addFoul" -> [fouls EXCEPT ![m.alliance] = Append(@, m.kind)]
                 [] m.type = "deleteFoul" /\ m.index < Len(fouls[m.alliance]) ->
                      [fouls EXCEPT ![m.alliance] = RemoveAt(@, m.index + 1)]
                 [] OTHER -> fouls
  BY DEF Deliver, Applied
<1> HIDE DEF m
<1>3. CASE c = "referee"
  <2>1. <<m, fouls, z>> \in FoulStep /\ m \in RefereeBody
    BY <1>1, <1>3 DEF BodyFor, m
  <2>2. CASE m.type = "addFoul"
    BY <1>2, <1>3, <2>1, <2>2 DEF FoulStep
  <2>3. CASE m.type = "deleteFoul"
    <3>1. m.alliance \in Alliance /\ m.index \in Nat
      BY <2>1, <2>3 DEF RefereeBody
    <3>2. /\ m.index < Len(fouls[m.alliance])
          /\ z = [fouls EXCEPT ![m.alliance] = Without(@, m.index + 1)]
      BY <2>1, <2>3 DEF FoulStep
    <3>3. fouls[m.alliance] \in Seq(Kind) /\ m.index + 1 \in 1..Len(fouls[m.alliance])
      BY <3>1, <3>2 DEF Lists
    <3>4. RemoveAt(fouls[m.alliance], m.index + 1) = Without(fouls[m.alliance], m.index + 1)
      BY <3>3, RemoveAtIsWithout
    <3> QED BY <1>2, <1>3, <2>3, <3>2, <3>4
  <2>4. CASE m.type \notin {"addFoul", "deleteFoul"}
    BY <1>2, <1>3, <2>1, <2>4 DEF FoulStep
  <2> QED BY <2>2, <2>3, <2>4
<1>4. CASE c # "referee"
  <2>1. m.type \notin {"addFoul", "deleteFoul"}
    BY <1>1, <1>4 DEF BodyFor, PanelBody
  <2> QED BY <1>2, <1>4, <2>1
<1> QED BY <1>3, <1>4

LEMMA FoulsStep == EngineInv /\ OneMatch /\ FoulsInv /\ [LinkNext]_linkVars => FoulsInv'
<1> SUFFICES ASSUME EngineInv, OneMatch, FoulsInv, [LinkNext]_linkVars PROVE FoulsInv'
  OBVIOUS
<1> DEFINE P(q, out, x, y) == Pending(q, out, "referee", FoulStep, Lists, x, y)
           L == ByLetter("referee", FoulStep, Lists)
<1>1. /\ outbox \in Seq(Letter) /\ ledger \in Lists /\ fouls \in Lists
      /\ P(chan["referee"], outbox, fouls, ledger) /\ "referee" \in Channel
  BY DEF EngineInv, LettersInv, TypeOK, FoulsInv, Lists, Channel
<1> SUFFICES fouls' \in Lists /\ P(chan'["referee"], outbox', fouls', ledger')
  BY DEF FoulsInv
<1>2. CASE /\ UNCHANGED <<chan, cheesy, ledger, lastSent, prev>>
           /\ \E more \in Seq(Aside) : outbox' = outbox \o more
  <2>1. PICK more \in Seq(Aside) : outbox' = outbox \o more
    BY <1>2
  <2>2. more \in Seq(Letter) /\ \A i \in DOMAIN more : more[i] \in Aside
    BY DEF Aside
  <2>3. \A i \in DOMAIN more : <<more[i], ledger, ledger>> \in L
    <3>1. \A l \in Aside : l \in Letter /\ l.body.type \notin {"addFoul", "deleteFoul"}
      BY DEF Aside, Routine
    <3> QED BY <1>1, <2>2, <3>1, FoulAside
  <2>4. P(chan["referee"], outbox \o more, fouls, ledger)
    BY <1>1, <2>2, <2>3, PendingAside
  <2> QED BY <1>1, <1>2, <2>1, <2>4 DEF cheesy
<1>3. CASE UNCHANGED cheesy /\ \E i \in 1..4 : AdjustFoul(i)
  <2>1. PICK i \in 1..4 : AdjustFoul(i)
    BY <1>3
  <2>2. chan' = chan /\ fouls' = fouls
    BY <1>3, <2>1 DEF AdjustFoul, cheesy
  <2>3. CASE UNCHANGED <<ledger, outbox>>
    BY <1>1, <2>2, <2>3
  <2>4. ASSUME NEW b \in RefereeBody, outbox' = Append(outbox, To("referee", b)),
               <<b, ledger, ledger'>> \in FoulStep
        PROVE  P(chan'["referee"], outbox', fouls', ledger')
    <3> DEFINE l == To("referee", b)
    <3>1. l \in Letter /\ l.to = "referee" /\ l.body = b
      BY LetterTo DEF BodyFor, Channel, To
    <3> HIDE DEF l
    <3>2. ledger' \in Lists
      BY <2>4 DEF FoulStep
    <3>3. <<l, ledger, ledger'>> \in L
      BY <1>1, <2>4, <3>1, <3>2 DEF ByLetter
    <3>4. Runs(L, Lists, <<l>>, ledger, ledger')
      BY <1>1, <3>2, <3>3, RunsOne
    <3>5. <<l>> \in Seq(Letter) /\ outbox' = outbox \o <<l>>
      BY <1>1, <2>4, <3>1 DEF l
    <3>6. P(chan["referee"], outbox \o <<l>>, fouls, ledger')
      BY <1>1, <3>4, <3>5, PendingMore
    <3> QED BY <2>2, <3>5, <3>6
  <2> QED BY <1>1, <2>1, <2>2, <2>3, <2>4, FoulPushed
<1>4. CASE UNCHANGED cheesy /\ FinishDiff
  <2>1. /\ outbox' = outbox \o Difference /\ Difference \in Seq(Letter)
        /\ chan' = chan /\ fouls' = fouls /\ ledger' = ledger
    BY <1>4, FinishDiffAdds, DifferenceOf DEF EngineInv, FinishDiff, cheesy
  <2>2. \A i \in DOMAIN Difference : <<Difference[i], ledger, ledger>> \in L
    <3> DEFINE S == {l \in Letter : l.to # "referee" \/ l.body.type \notin {"addFoul", "deleteFoul"}}
    <3>1. LettersTo("referee", {"card"}) \subseteq S /\ \A a \in Alliance : LettersTo(a, Climbs) \subseteq S
      BY DEF LettersTo, Alliance
    <3>2. "red" \in Alliance /\ "blue" \in Alliance
      BY DEF Alliance
    <3>3. /\ Difference = CardPart \o ClimbPart("red") \o ClimbPart("blue")
          /\ CardPart \in Seq(LettersTo("referee", {"card"}))
          /\ ClimbPart("red") \in Seq(LettersTo("red", Climbs))
          /\ ClimbPart("blue") \in Seq(LettersTo("blue", Climbs))
      BY <3>2, DifferenceParts DEF EngineInv
    <3>4. \A l \in S : <<l, ledger, ledger>> \in L
      BY <1>1, FoulAside
    <3> HIDE DEF S, L
    <3>5. CardPart \in Seq(S) /\ ClimbPart("red") \in Seq(S) /\ ClimbPart("blue") \in Seq(S)
      BY <3>1, <3>2, <3>3
    <3>6. Difference \in Seq(S)
      BY <3>3, <3>5
    <3> QED BY <3>4, <3>6
  <2>3. P(chan["referee"], outbox \o Difference, fouls, ledger)
    BY <1>1, <2>1, <2>2, PendingAside
  <2> QED BY <1>1, <2>1, <2>3
<1>5. CASE UNCHANGED cheesy /\ Send
  <2>1. P(chan'["referee"], outbox', fouls, ledger)
    BY <1>1, <1>5, PendingStep DEF EngineInv, OneMatch
  <2> QED BY <1>1, <1>5, <2>1 DEF Send, cheesy, trackers
<1>6. ASSUME NEW c \in Channel, Deliver(c) PROVE fouls' \in Lists /\ P(chan'["referee"], outbox', fouls', ledger')
  <2>1. ledger' = ledger
    BY <1>6 DEF Deliver, Take, engine, trackers
  <2>2. CASE c = "referee"
    <3>1. PICK z \in Lists : <<Head(chan["referee"]), fouls, z>> \in FoulStep
                             /\ P(chan'["referee"], outbox', z, ledger)
      BY <1>1, <1>6, <2>2, PendingStep DEF EngineInv, OneMatch
    <3>2. fouls' = z
      BY <1>1, <1>6, <2>2, <3>1, FoulDelivered
    <3> QED BY <2>1, <3>1, <3>2
  <2>3. CASE c # "referee"
    <3>1. P(chan'["referee"], outbox', fouls, ledger)
      BY <1>1, <1>6, <2>3, PendingStep DEF EngineInv, OneMatch
    <3>2. fouls' = fouls
      BY <1>1, <1>6, <2>3, FoulDelivered
    <3> QED BY <1>1, <2>1, <3>1, <3>2
  <2> QED BY <2>2, <2>3
<1> QED BY <1>2, <1>3, <1>4, <1>5, <1>6, LinkMoves

\* What LinkSpec keeps throughout.
LEMMA LinkAlways == LinkSpec => []EngineInv /\ []OneMatch
<1>1. LinkSpec => []EngineInv
  BY LinkIsEngine, TypeCorrect, LedgerIsRight, EngineAlways, PTL DEF EngineInv
<1>2. LinkSpec => []OneMatch
  BY <1>1, OneMatchInit, OneMatchStep, PTL DEF LinkSpec
<1> QED BY <1>1, <1>2

LEMMA FoulsAlways == LinkSpec => []FoulsInv
BY LinkAlways, FoulsInit, FoulsStep, PTL DEF LinkSpec

\* When nothing is under way, Cheesy Arena's lists are the ledger, which holds as
\* many fouls as were sent, and those are the highest counts of the last record.
THEOREM FoulsArrive == LinkSpec => []FoulsShown
<1>1. EngineInv /\ FoulsInv => FoulsShown
  <2> SUFFICES ASSUME EngineInv, FoulsInv, Quiet, NEW a \in Alliance, NEW k \in Kind
               PROVE  FoulCount(fouls[a], k) = CombinedFouls(rec)[a][k]
    BY DEF FoulsShown
  <2>1. chan["referee"] = <<>> /\ outbox = <<>> /\ pc = "select"
    BY DEF Quiet, Channel
  <2>2. fouls = ledger
    BY <2>1, PendingNothing DEF FoulsInv
  <2>3. FoulCount(ledger[a], k) = lastSent.fouls[a][k]
    BY DEF EngineInv, LedgerMatchesSent
  <2>4. lastSent.fouls[a][k] = CombinedFouls(rec)[a][k]
    BY <2>1 DEF EngineInv, ResendInv, CaughtUp, Settled
  <2> QED BY <2>2, <2>3, <2>4
<1> QED BY <1>1, LinkAlways, FoulsAlways, PTL

\* A deleteFoul names a foul that Cheesy Arena still lists when it arrives, behind
\* however many other commands it waits: taking it is a step of FoulStep.
THEOREM DeletesHit == LinkSpec => DeleteHitsAFoul
<1> DEFINE Hit == \A c \in Channel :
                    Deliver(c) /\ Head(chan[c]).type = "deleteFoul" =>
                      Head(chan[c]).index < Len(fouls[Head(chan[c]).alliance])
<1>1. EngineInv /\ OneMatch /\ FoulsInv => Hit
  <2> SUFFICES ASSUME EngineInv, OneMatch, FoulsInv, NEW c \in Channel, Deliver(c),
                      Head(chan[c]).type = "deleteFoul"
               PROVE  Head(chan[c]).index < Len(fouls[Head(chan[c]).alliance])
    OBVIOUS
  <2>1. Head(chan[c]) \in BodyFor(c)
    BY DEF EngineInv, LettersInv, Deliver, Take
  <2>2. c = "referee"
    BY <2>1 DEF BodyFor, PanelBody
  <2>3. PICK z \in Lists : <<Head(chan[c]), fouls, z>> \in FoulStep
    BY <2>2, PendingStep DEF EngineInv, OneMatch, FoulsInv
  <2> QED BY <2>3 DEF FoulStep
<1>2. EngineInv /\ OneMatch /\ FoulsInv => [Hit]_linkVars
  BY <1>1
<1> HIDE DEF Hit
<1>3. LinkSpec => [][Hit]_linkVars
  BY <1>2, LinkAlways, FoulsAlways, PTL
<1> QED BY <1>3 DEF Hit, DeleteHitsAFoul

-----------------------------------------------------------------------------
(* Cards.                                                                  *)

Cards == [Team -> Card]
CardStep ==
  {t \in RefereeBody \X Cards \X Cards :
     t[3] = IF t[1].type = "card" /\ t[1].team \in Team THEN [t[2] EXCEPT ![t[1].team] = t[1].card] ELSE t[2]}

\* A team plays at one station of a match.
TeamsOnce(info) ==
  info # NoInfo =>
    \A s, t \in Station : info.teams[s] \in Team /\ info.teams[s] = info.teams[t] => s = t

\* The listed teams carry the cards given at their stations.
Carry(shown, given, info) ==
  info # NoInfo => \A s \in Station : info.teams[s] \in Team => shown[info.teams[s]] = given[s]

\* The card commands under way make the listed teams carry the cards last sent.
CardsInv ==
  /\ cards \in Cards
  /\ \E end \in Cards :
       /\ Pending(chan["referee"], outbox, "referee", CardStep, Cards, cards, end)
       /\ Carry(end, lastSent.cards, matchInfo)

LEMMA CardAside ==
  ASSUME NEW l \in Letter, NEW x \in Cards, l.to # "referee" \/ l.body.type # "card"
  PROVE  <<l, x, x>> \in ByLetter("referee", CardStep, Cards)
<1>1. CASE l.to = "referee"
  <2>1. l.body \in RefereeBody
    BY <1>1, LetterTo DEF BodyFor
  <2>2. <<l.body, x, x>> \in CardStep
    BY <1>1, <2>1 DEF CardStep
  <2> QED BY <1>1, <2>2 DEF ByLetter
<1>2. CASE l.to # "referee"
  BY <1>2 DEF ByLetter
<1> QED BY <1>1, <1>2

LEMMA CardsCourse ==
  ASSUME NEW old, NEW new \in [Station -> Card], NEW info \in Info \cup {NoInfo}, TeamsOnce(info),
         NEW x \in Cards, Carry(x, old, info)
  PROVE  \E y \in Cards :
           /\ Runs(ByLetter("referee", CardStep, Cards), Cards, CardCommands(old, new, info), x, y)
           /\ Carry(y, new, info)
<1> DEFINE q == CardCommands(old, new, info)
           L == ByLetter("referee", CardStep, Cards)
<1>1. q \in Seq(Letter) /\ OneForEachCard(q, old, new, info)
  BY CardCommandsOf
<1> HIDE DEF q
<1>2. \A k \in DOMAIN q : \E s \in Station : CardChanged(old, new, info, s) /\ q[k] = CardCommand(new, info, s)
  BY <1>1 DEF OneForEachCard
<1>3. \A s \in Station : CardChanged(old, new, info, s) => \E k \in DOMAIN q : q[k] = CardCommand(new, info, s)
  BY <1>1 DEF OneForEachCard
<1>4. CASE info = NoInfo
  <2>1. \A k \in DOMAIN q : <<q[k], x, x>> \in L
    BY <1>2, <1>4 DEF CardChanged
  <2>2. Runs(L, Cards, q, x, x)
    BY <1>1, <2>1, RunsIdle
  <2> QED BY <1>4, <2>2 DEF Carry, q
<1>5. CASE info # NoInfo
  <2> DEFINE teams == info.teams
             given == [t \in Team |-> new[CHOOSE s \in Station : teams[s] = t]]
             key == [k \in DOMAIN q |-> q[k].body.team]
             y == AfterSets(Team, q, key, given, x)
  <2>1. teams \in [Station -> Team \cup {0, NotListed}]
    BY <1>5 DEF Info
  <2>2. ASSUME NEW s \in Station, teams[s] \in Team
        PROVE  teams[s] \in Team /\ given[teams[s]] = new[s]
    <3>1. teams[s] \in Team
      BY <2>2
    <3>2. \A t \in Station : teams[t] = teams[s] => t = s
      BY <1>5, <2>2 DEF TeamsOnce
    <3>3. (CHOOSE t \in Station : teams[t] = teams[s]) = s
      BY <3>2
    <3> QED BY <3>1, <3>3
  <2> HIDE DEF given
  <2>3. ASSUME NEW k \in DOMAIN q
        PROVE  \E s \in Station : /\ key[k] = teams[s] /\ key[k] \in Team \cup {0} /\ new[s] \in Card
                                  /\ key[k] \in Team => given[key[k]] = new[s]
                                  /\ q[k] = CardCommand(new, info, s)
    <3>1. PICK s \in Station : CardChanged(old, new, info, s) /\ q[k] = CardCommand(new, info, s)
      BY <1>2
    <3>2. teams[s] \in Team \cup {0} /\ key[k] = teams[s]
      BY <2>1, <3>1 DEF CardChanged, CardCommand, To
    <3> QED BY <2>2, <3>1, <3>2
  <2>4. ASSUME NEW k \in DOMAIN q, NEW f \in Cards
        PROVE  <<q[k], f, [f EXCEPT ![key[k]] = given[key[k]]]>> \in L
    <3>1. PICK s \in Station : /\ key[k] = teams[s] /\ key[k] \in Team \cup {0} /\ new[s] \in Card
                               /\ key[k] \in Team => given[key[k]] = new[s]
                               /\ q[k] = CardCommand(new, info, s)
      BY <2>3
    <3> DEFINE b == [type |-> "card", team |-> teams[s], card |-> new[s]]
               g == [f EXCEPT ![key[k]] = given[key[k]]]
    <3>2. q[k] \in Letter /\ q[k].to = "referee" /\ q[k].body = b
      BY <1>1, <3>1 DEF CardCommand, To
    <3>3. b \in RefereeBody /\ b.type = "card" /\ b.team = key[k] /\ b.card = new[s]
      BY <3>1 DEF RefereeBody
    <3>4. /\ g \in Cards
          /\ key[k] \in Team => g = [f EXCEPT ![key[k]] = new[s]]
          /\ key[k] \notin Team => g = f
      BY <3>1 DEF Cards
    <3> HIDE DEF b, g
    <3>5. <<b, f, g>> \in CardStep
      BY <3>3, <3>4 DEF CardStep
    <3> QED BY <3>2, <3>4, <3>5 DEF ByLetter, g
  <2>5. Sets(L, Team, Card, q, key, given)
    <3> HIDE DEF L, key
    <3> QED BY <2>3, <2>4 DEF Sets, Cards
  <2>6. Runs(L, Cards, q, x, y) /\ y \in Cards
    <3> HIDE DEF L, key
    <3> QED BY <1>1, <2>5, RunsSet DEF Cards
  <2>7. ASSUME NEW s \in Station, teams[s] \in Team PROVE y[teams[s]] = new[s]
    <3>1. CASE \E k \in DOMAIN q : key[k] = teams[s]
      BY <2>2, <2>7, <3>1 DEF AfterSets
    <3>2. CASE ~ \E k \in DOMAIN q : key[k] = teams[s]
      <4>1. ~CardChanged(old, new, info, s)
        BY <1>3, <3>2 DEF CardCommand, To
      <4>2. old[s] = new[s]
        BY <1>5, <2>7, <4>1, SyncAssumption DEF CardChanged
      <4>3. x[teams[s]] = old[s]
        BY <1>5, <2>7 DEF Carry
      <4> QED BY <2>2, <2>7, <3>2, <4>2, <4>3 DEF AfterSets
    <3> QED BY <3>1, <3>2
  <2> HIDE DEF y, L
  <2>8. Carry(y, new, info)
    BY <2>7 DEF Carry
  <2> QED BY <2>6, <2>8 DEF q, L
<1> QED BY <1>4, <1>5

LEMMA CardsInit == LinkInit => CardsInv
<1> SUFFICES ASSUME LinkInit PROVE CardsInv
  OBVIOUS
<1>1. cards \in Cards /\ chan["referee"] = <<>> /\ outbox = <<>>
  BY DEF LinkInit, Init, Channel, Cards, Card
<1>2. Carry(cards, lastSent.cards, matchInfo)
  <2> SUFFICES ASSUME matchInfo # NoInfo, NEW s \in Station, matchInfo.teams[s] \in Team
               PROVE  cards[matchInfo.teams[s]] = lastSent.cards[s]
    BY DEF Carry
  <2> QED BY DEF LinkInit, Init, NoCards
<1> QED BY <1>1, <1>2, PendingNothing DEF CardsInv

LEMMA CardDelivered ==
  ASSUME EngineInv, cards \in Cards, NEW c \in Channel, Deliver(c), NEW z \in Cards,
         c = "referee" => <<Head(chan[c]), cards, z>> \in CardStep
  PROVE  /\ c = "referee" => cards' = z
         /\ c # "referee" => cards' = cards
<1> DEFINE m == Head(chan[c])
<1>1. m \in BodyFor(c)
  BY DEF EngineInv, LettersInv, Deliver, Take
<1>2. cards' = IF m.type = "card" /\ m.team \in Team THEN [cards EXCEPT ![m.team] = m.card] ELSE cards
  BY DEF Deliver, Applied
<1> HIDE DEF m
<1>3. CASE c = "referee"
  BY <1>2, <1>3 DEF CardStep, m
<1>4. CASE c # "referee"
  <2>1. m.type # "card"
    BY <1>1, <1>4 DEF BodyFor, PanelBody
  <2> QED BY <1>2, <1>4, <2>1
<1> QED BY <1>3, <1>4

LEMMA CardsStep ==
  ASSUME TeamsOnce(FirstInfo)
  PROVE  EngineInv /\ OneMatch /\ CardsInv /\ [LinkNext]_linkVars => CardsInv'
<1> SUFFICES ASSUME EngineInv, OneMatch, CardsInv, [LinkNext]_linkVars PROVE CardsInv'
  OBVIOUS
<1> DEFINE P(q, out, x, y) == Pending(q, out, "referee", CardStep, Cards, x, y)
           L == ByLetter("referee", CardStep, Cards)
<1>1. /\ outbox \in Seq(Letter) /\ cards \in Cards /\ "referee" \in Channel
      /\ matchInfo = FirstInfo /\ matchInfo' = FirstInfo /\ matchInfo \in Info \cup {NoInfo}
  BY OneMatchStep DEF EngineInv, LettersInv, TypeOK, CardsInv, OneMatch, Channel
<1>2. PICK end \in Cards : P(chan["referee"], outbox, cards, end) /\ Carry(end, lastSent.cards, matchInfo)
  BY DEF CardsInv
<1>3. ASSUME cards' \in Cards, NEW y \in Cards, P(chan'["referee"], outbox', cards', y),
             Carry(y, lastSent'.cards, matchInfo)
      PROVE  CardsInv'
  BY <1>1, <1>3 DEF CardsInv
<1>4. CASE /\ UNCHANGED <<chan, cheesy, ledger, lastSent, prev>>
           /\ \E more \in Seq(Aside) : outbox' = outbox \o more
  <2>1. PICK more \in Seq(Aside) : outbox' = outbox \o more
    BY <1>4
  <2>2. more \in Seq(Letter) /\ \A i \in DOMAIN more : more[i] \in Aside
    BY DEF Aside
  <2>3. \A i \in DOMAIN more : <<more[i], end, end>> \in L
    <3>1. \A l \in Aside : l \in Letter /\ l.body.type # "card"
      BY DEF Aside, Routine
    <3> QED BY <2>2, <3>1, CardAside
  <2>4. P(chan["referee"], outbox \o more, cards, end)
    BY <1>1, <1>2, <2>2, <2>3, PendingAside
  <2> QED BY <1>1, <1>2, <1>3, <1>4, <2>1, <2>4 DEF cheesy
<1>5. CASE UNCHANGED cheesy /\ \E i \in 1..4 : AdjustFoul(i)
  <2>1. PICK i \in 1..4 : AdjustFoul(i)
    BY <1>5
  <2>2. chan' = chan /\ cards' = cards
    BY <1>5, <2>1 DEF AdjustFoul, cheesy
  <2>3. lastSent'.cards = lastSent.cards
    BY <2>1 DEF AdjustFoul, EngineInv, TypeOK
  <2>4. CASE outbox' = outbox
    BY <1>1, <1>2, <1>3, <2>2, <2>3, <2>4
  <2>5. ASSUME NEW b \in RefereeBody, outbox' = Append(outbox, To("referee", b)),
               b.type \in {"addFoul", "deleteFoul"}
        PROVE  CardsInv'
    <3> DEFINE l == To("referee", b)
    <3>1. l \in Letter /\ l.body = b
      BY LetterTo DEF BodyFor, Channel, To
    <3> HIDE DEF l
    <3>2. <<l, end, end>> \in L
      BY <2>5, <3>1, CardAside
    <3>3. <<l>> \in Seq(Letter) /\ outbox' = outbox \o <<l>> /\ \A n \in DOMAIN <<l>> : (<<l>>)[n] = l
      BY <1>1, <2>5, <3>1 DEF l
    <3>4. P(chan["referee"], outbox \o <<l>>, cards, end)
      BY <1>1, <1>2, <3>2, <3>3, PendingAside
    <3> QED BY <1>1, <1>2, <1>3, <2>2, <2>3, <3>3, <3>4
  <2> QED BY <2>1, <2>4, <2>5, FoulPushed
<1>6. CASE UNCHANGED cheesy /\ FinishDiff
  <2>1. /\ CardPart \in Seq(Letter) /\ ClimbPart("red") \in Seq(Letter) /\ ClimbPart("blue") \in Seq(Letter)
        /\ ClimbPart("red") \in Seq(LettersTo("red", Climbs))
        /\ ClimbPart("blue") \in Seq(LettersTo("blue", Climbs))
    BY DifferenceParts DEF Alliance, EngineInv
  <2>2. /\ outbox' = outbox \o CardPart \o ClimbPart("red") \o ClimbPart("blue")
        /\ chan' = chan /\ cards' = cards
        /\ lastSent'.cards = CombinedCards(rec)
    BY <1>6 DEF FinishDiff, CardPart, ClimbPart, cheesy, EngineInv, TypeOK
  <2>3. PICK y \in Cards : Runs(L, Cards, CardPart, end, y) /\ Carry(y, CombinedCards(rec), matchInfo)
    <3>1. CombinedCards(rec) \in [Station -> Card]
      BY DEF EngineInv, TypeOK, Record, CombinedCards
    <3> QED BY <1>1, <1>2, <3>1, CardsCourse DEF CardPart
  <2>4. P(chan["referee"], outbox \o CardPart, cards, y)
    BY <1>1, <1>2, <2>1, <2>3, PendingMore
  <2>5. \A a \in {"red", "blue"} : \A l \in LettersTo(a, Climbs) : <<l, y, y>> \in L
    BY CardAside DEF LettersTo, Climbs
  <2> HIDE DEF L
  <2>6. /\ \A i \in DOMAIN ClimbPart("red") : <<ClimbPart("red")[i], y, y>> \in L
        /\ \A i \in DOMAIN ClimbPart("blue") : <<ClimbPart("blue")[i], y, y>> \in L
    BY <2>1, <2>5
  <2>7. outbox \o CardPart \in Seq(Letter) /\ outbox \o CardPart \o ClimbPart("red") \in Seq(Letter)
    BY <1>1, <2>1, ConcatProperties
  <2>8. P(chan["referee"], outbox \o CardPart \o ClimbPart("red"), cards, y)
    BY <2>1, <2>4, <2>6, <2>7, PendingAside DEF L
  <2>9. P(chan["referee"], outbox \o CardPart \o ClimbPart("red") \o ClimbPart("blue"), cards, y)
    BY <2>1, <2>6, <2>7, <2>8, PendingAside DEF L
  <2> QED BY <1>1, <1>3, <2>2, <2>3, <2>9
<1>7. CASE UNCHANGED cheesy /\ Send
  <2>1. P(chan'["referee"], outbox', cards, end)
    BY <1>1, <1>2, <1>7, PendingStep DEF EngineInv, OneMatch
  <2>2. cards' = cards /\ lastSent' = lastSent
    BY <1>7 DEF Send, cheesy, trackers
  <2> QED BY <1>1, <1>2, <1>3, <2>1, <2>2
<1>8. ASSUME NEW c \in Channel, Deliver(c) PROVE CardsInv'
  <2>1. lastSent' = lastSent
    BY <1>8 DEF Deliver, Take, engine, trackers
  <2>2. CASE c = "referee"
    <3>1. PICK z \in Cards : <<Head(chan["referee"]), cards, z>> \in CardStep
                             /\ P(chan'["referee"], outbox', z, end)
      BY <1>1, <1>2, <1>8, <2>2, PendingStep DEF EngineInv, OneMatch
    <3>2. cards' = z
      BY <1>1, <1>8, <2>2, <3>1, CardDelivered
    <3> QED BY <1>2, <1>3, <2>1, <3>1, <3>2
  <2>3. CASE c # "referee"
    <3>1. P(chan'["referee"], outbox', cards, end)
      BY <1>1, <1>2, <1>8, <2>3, PendingStep DEF EngineInv, OneMatch
    <3>2. cards' = cards
      BY <1>1, <1>8, <2>3, CardDelivered
    <3> QED BY <1>1, <1>2, <1>3, <2>1, <3>1, <3>2
  <2> QED BY <2>2, <2>3
<1> QED BY <1>4, <1>5, <1>6, <1>7, <1>8, LinkMoves

\* When nothing is under way, every listed team carries the card the head referee
\* gave at its station: no other command writes it, and a card that stays as it is
\* was sent before.  It takes that no team is listed twice.
THEOREM CardsArrive ==
  ASSUME TeamsOnce(FirstInfo)
  PROVE  LinkSpec => []CardsShown
<1>1. EngineInv /\ CardsInv => CardsShown
  <2> SUFFICES ASSUME EngineInv, CardsInv, Quiet, matchInfo # NoInfo, NEW s \in Station, matchInfo.teams[s] \in Team
               PROVE  cards[matchInfo.teams[s]] = rec.hr.cards[s]
    BY DEF CardsShown
  <2>1. chan["referee"] = <<>> /\ outbox = <<>> /\ pc = "select"
    BY DEF Quiet, Channel
  <2>2. Carry(cards, lastSent.cards, matchInfo)
    BY <2>1, PendingNothing DEF CardsInv
  <2>3. lastSent.cards = rec.hr.cards
    BY <2>1 DEF EngineInv, ResendInv, CaughtUp, CombinedCards
  <2> QED BY <2>2, <2>3 DEF Carry
<1>2. EngineInv /\ OneMatch /\ CardsInv /\ [LinkNext]_linkVars => CardsInv'
  BY CardsStep
<1> QED BY <1>1, <1>2, LinkAlways, CardsInit, PTL DEF LinkSpec

-----------------------------------------------------------------------------
(* Climbs.                                                                 *)

Calls == [Position -> AutoCall]
TowerStep ==
  {t \in PanelBody \X Calls \X Calls :
     t[3] = IF t[1].type = "autoTower" THEN [t[2] EXCEPT ![t[1].position] = t[1].status] ELSE t[2]}

\* Both panels of an alliance have submitted the same auto call at a position.
Agreed(climb, p) ==
  /\ climb["near"].autoSubmitted /\ climb["far"].autoSubmitted
  /\ climb["far"].autoClimb[p] = climb["near"].autoClimb[p]
  /\ climb["near"].autoClimb[p] # "unspecified"
Shows(status, climb) == \A p \in Position : Agreed(climb, p) => status[p] = climb["near"].autoClimb[p]

\* The tower commands under way make every agreed call the one that counts.
TowersInv ==
  /\ tower \in [Alliance -> Calls]
  /\ \A a \in Alliance : \E end \in Calls :
       Pending(chan[a], outbox, a, TowerStep, Calls, tower[a], end) /\ Shows(end, prev[a])

LEMMA TowerAside ==
  ASSUME NEW a \in Alliance, NEW l \in Letter, NEW x \in Calls, l.to # a \/ l.body.type # "autoTower"
  PROVE  <<l, x, x>> \in ByLetter(a, TowerStep, Calls)
<1>1. CASE l.to = a
  <2>1. l.body \in PanelBody
    BY <1>1, LetterTo DEF BodyFor, Alliance
  <2>2. <<l.body, x, x>> \in TowerStep
    BY <1>1, <2>1 DEF TowerStep
  <2> QED BY <1>1, <2>2 DEF ByLetter
<1>2. CASE l.to # a
  BY <1>2 DEF ByLetter
<1> QED BY <1>1, <1>2

\* One panel's auto calls overwrite the status of the positions they name.
Overlay(x, climb) == [p \in Position |-> IF climb[p] # "unspecified" THEN climb[p] ELSE x[p]]

LEMMA TowerCourse ==
  ASSUME NEW a \in Alliance, NEW climb \in Calls, NEW x \in Calls
  PROVE  /\ Overlay(x, climb) \in Calls
         /\ Runs(ByLetter(a, TowerStep, Calls), Calls, TowerCommands(a, "autoTower", climb), x, Overlay(x, climb))
<1> DEFINE q == TowerCommands(a, "autoTower", climb)
           L == ByLetter(a, TowerStep, Calls)
           key == [k \in DOMAIN q |-> q[k].body.position]
<1>1. climb \in [Position -> AutoCall] /\ x \in [Position -> AutoCall] /\ Calls = [Position -> AutoCall]
  BY DEF Calls
<1>2. q \in Seq(Letter) /\ OneForEachCall(q, a, "autoTower", climb)
  BY <1>1, TowerCommandsOf
<1> HIDE DEF q
<1>3. ASSUME NEW k \in DOMAIN q
      PROVE  /\ key[k] \in Position /\ climb[key[k]] # "unspecified" /\ climb[key[k]] \in AutoCall
             /\ q[k] = TowerCommand(a, "autoTower", climb, key[k])
  <2>1. PICK p \in Position : climb[p] # "unspecified" /\ q[k] = TowerCommand(a, "autoTower", climb, p)
    BY <1>2 DEF OneForEachCall
  <2>2. key[k] = p
    BY <2>1 DEF TowerCommand, To
  <2> QED BY <1>1, <2>1, <2>2
<1>4. ASSUME NEW p \in Position, climb[p] # "unspecified" PROVE \E k \in DOMAIN q : key[k] = p
  <2>1. PICK k \in DOMAIN q : q[k] = TowerCommand(a, "autoTower", climb, p)
    BY <1>2, <1>4 DEF OneForEachCall
  <2>2. key[k] = p
    BY <2>1 DEF TowerCommand, To
  <2> QED BY <2>2
<1>5. ASSUME NEW k \in DOMAIN q, NEW f \in Calls
      PROVE  <<q[k], f, [f EXCEPT ![key[k]] = climb[key[k]]]>> \in L
  <2> DEFINE b == [type |-> "autoTower", position |-> key[k], status |-> climb[key[k]]]
             g == [f EXCEPT ![key[k]] = climb[key[k]]]
  <2>1. key[k] \in Position /\ climb[key[k]] \in AutoCall
    BY <1>3
  <2>2. q[k] \in Letter /\ q[k].to = a /\ q[k].body = b
    BY <1>2, <1>3 DEF TowerCommand, To
  <2> HIDE DEF key
  <2>3. b \in PanelBody /\ b.type = "autoTower" /\ b.position = key[k] /\ b.status = climb[key[k]]
    BY <2>1 DEF PanelBody
  <2>4. g \in Calls
    BY <2>1 DEF Calls
  <2> HIDE DEF b
  <2>5. <<b, f, g>> \in TowerStep
    BY <2>3, <2>4 DEF TowerStep
  <2> QED BY <2>2, <2>4, <2>5 DEF ByLetter
<1>6. Sets(L, Position, AutoCall, q, key, climb)
  <2> HIDE DEF L, key
  <2> QED BY <1>1, <1>3, <1>5 DEF Sets
<1>7. /\ AfterSets(Position, q, key, climb, x) \in Calls
      /\ Runs(L, Calls, q, x, AfterSets(Position, q, key, climb, x))
  <2> HIDE DEF L, key
  <2> QED BY <1>1, <1>2, <1>6, RunsSet
<1>8. AfterSets(Position, q, key, climb, x) = Overlay(x, climb)
  <2>1. \A p \in Position : (\E k \in DOMAIN q : key[k] = p) <=> climb[p] # "unspecified"
    BY <1>3, <1>4
  <2> HIDE DEF key
  <2> QED BY <2>1 DEF AfterSets, Overlay
<1> QED BY <1>7, <1>8 DEF q

\* What push_alliance_climb_commands sends leaves every call agreed on in place: a
\* panel that changed its calls sends them all, and the panels name the same one.
LEMMA ClimbCourse ==
  ASSUME NEW a \in Alliance, NEW old, NEW new \in [Side -> Climb], NEW x \in Calls, Shows(x, old)
  PROVE  \E y \in Calls :
           /\ Runs(ByLetter(a, TowerStep, Calls), Calls, ClimbCommands(a, old, new), x, y)
           /\ Shows(y, new)
<1> DEFINE L == ByLetter(a, TowerStep, Calls)
           auto(s) == IF AutoChanged(old[s], new[s])
                      THEN TowerCommands(a, "autoTower", new[s].autoClimb) ELSE <<>>
           endgame(s) == IF EndgameChanged(old[s], new[s])
                         THEN TowerCommands(a, "endgame", new[s].endgameClimb) ELSE <<>>
           after(s, z) == IF AutoChanged(old[s], new[s]) THEN Overlay(z, new[s].autoClimb) ELSE z
           y == after("far", after("near", x))
<1>1. ASSUME NEW s \in Side
      PROVE  new[s].autoClimb \in Calls
  BY DEF Climb, Calls
<1>2. ASSUME NEW s \in Side, NEW z \in Calls
      PROVE  auto(s) \in Seq(Letter) /\ after(s, z) \in Calls /\ Runs(L, Calls, auto(s), z, after(s, z))
  <2>1. CASE AutoChanged(old[s], new[s])
    <3>1. TowerCommands(a, "autoTower", new[s].autoClimb) \in Seq(Letter)
      BY <1>1, TowerCommandsOf DEF Calls
    <3> QED BY <1>1, <2>1, <3>1, TowerCourse
  <2>2. CASE ~AutoChanged(old[s], new[s])
    <3>1. auto(s) = <<>> /\ after(s, z) = z /\ <<>> \in Seq(Letter)
      BY <2>2
    <3> HIDE DEF auto, after
    <3> QED BY <3>1, RunsNothing
  <2> QED BY <2>1, <2>2
<1>3. ASSUME NEW s \in Side, NEW z \in Calls
      PROVE  endgame(s) \in Seq(Letter) /\ Runs(L, Calls, endgame(s), z, z)
  <2> DEFINE q == endgame(s)
  <2>1. q \in Seq(LettersTo(a, {"endgame"}))
    <3>1. <<>> \in Seq(LettersTo(a, {"endgame"}))
      OBVIOUS
    <3> QED BY <3>1, TowersAddressed
  <2>2. \A l \in LettersTo(a, {"endgame"}) : l \in Letter /\ <<l, z, z>> \in L
    BY TowerAside DEF LettersTo
  <2> HIDE DEF q, L
  <2>3. q \in Seq(Letter) /\ \A i \in DOMAIN q : <<q[i], z, z>> \in L
    <3> DEFINE S == LettersTo(a, {"endgame"})
    <3>1. q \in Seq(S) /\ S \subseteq Letter
      BY <2>1, <2>2
    <3> HIDE DEF S
    <3>2. \A i \in DOMAIN q : q[i] \in S
      BY <3>1
    <3> QED BY <2>2, <3>1, <3>2 DEF S
  <2>4. Runs(L, Calls, q, z, z)
    BY <2>3, RunsIdle
  <2> QED BY <2>3, <2>4 DEF q
<1>4. "near" \in Side /\ "far" \in Side
  BY DEF Side
<1>5. ClimbCommands(a, old, new) = auto("near") \o auto("far") \o endgame("near") \o endgame("far")
  BY DEF ClimbCommands
<1>6. y \in Calls /\ Runs(L, Calls, ClimbCommands(a, old, new), x, y)
  <2> DEFINE z == after("near", x)
  <2> HIDE DEF auto, endgame, after, L
  <2>1. auto("near") \in Seq(Letter) /\ z \in Calls /\ Runs(L, Calls, auto("near"), x, z)
    BY <1>2, <1>4
  <2> HIDE DEF z
  <2>2. auto("far") \in Seq(Letter) /\ y \in Calls /\ Runs(L, Calls, auto("far"), z, y)
    BY <1>2, <1>4, <2>1 DEF z
  <2> HIDE DEF y
  <2>3. /\ endgame("near") \in Seq(Letter) /\ Runs(L, Calls, endgame("near"), y, y)
        /\ endgame("far") \in Seq(Letter) /\ Runs(L, Calls, endgame("far"), y, y)
    BY <1>3, <1>4, <2>2
  <2>4. auto("near") \o auto("far") \in Seq(Letter) /\ Runs(L, Calls, auto("near") \o auto("far"), x, y)
    BY <2>1, <2>2, RunsConcat, ConcatProperties
  <2>5. /\ auto("near") \o auto("far") \o endgame("near") \in Seq(Letter)
        /\ Runs(L, Calls, auto("near") \o auto("far") \o endgame("near"), x, y)
    BY <2>3, <2>4, RunsConcat, ConcatProperties
  <2>6. Runs(L, Calls, auto("near") \o auto("far") \o endgame("near") \o endgame("far"), x, y)
    BY <2>3, <2>5, RunsConcat
  <2> QED BY <1>5, <2>2, <2>6
<1>7. ASSUME NEW p \in Position, Agreed(new, p) PROVE y[p] = new["near"].autoClimb[p]
  <2> DEFINE call == new["near"].autoClimb[p]
             z == after("near", x)
  <2>1. /\ new["near"].autoSubmitted /\ new["far"].autoSubmitted
        /\ new["far"].autoClimb[p] = call /\ call # "unspecified"
    BY <1>7 DEF Agreed
  <2>2. AutoChanged(old["far"], new["far"]) => y[p] = call
    BY <2>1 DEF Overlay
  <2>3. ~AutoChanged(old["far"], new["far"]) => y[p] = z[p]
    OBVIOUS
  <2>4. AutoChanged(old["near"], new["near"]) => z[p] = call
    BY <2>1 DEF Overlay
  <2>5. ~AutoChanged(old["near"], new["near"]) => z[p] = x[p]
    OBVIOUS
  <2>6. ASSUME ~AutoChanged(old["far"], new["far"]), ~AutoChanged(old["near"], new["near"])
        PROVE  x[p] = call
    <3>1. /\ old["far"].autoSubmitted = new["far"].autoSubmitted /\ old["far"].autoClimb = new["far"].autoClimb
          /\ old["near"].autoSubmitted = new["near"].autoSubmitted /\ old["near"].autoClimb = new["near"].autoClimb
      BY <2>1, <2>6 DEF AutoChanged
    <3>2. Agreed(old, p)
      BY <2>1, <3>1 DEF Agreed
    <3> QED BY <3>1, <3>2 DEF Shows
  <2> HIDE DEF y, z
  <2> QED BY <2>2, <2>3, <2>4, <2>5, <2>6
<1>8. Shows(y, new)
  BY <1>7 DEF Shows
<1> QED BY <1>6, <1>8

LEMMA TowersInit == LinkInit => TowersInv
<1> SUFFICES ASSUME LinkInit PROVE TowersInv
  OBVIOUS
<1>1. tower \in [Alliance -> Calls] /\ outbox = <<>> /\ prev = NoPanels
  BY DEF LinkInit, Init, NoTower, Calls, AutoCall
<1>2. ASSUME NEW a \in Alliance
      PROVE  /\ Pending(chan[a], outbox, a, TowerStep, Calls, tower[a], tower[a])
             /\ Shows(tower[a], prev[a])
  <2>1. chan[a] = <<>> /\ tower[a] \in Calls
    BY <1>1 DEF LinkInit, Init, Channel, Alliance
  <2>2. ~prev[a]["near"].autoSubmitted
    BY <1>1 DEF NoPanels, NoClimb, Side
  <2> QED BY <1>1, <2>1, <2>2, PendingNothing DEF Shows, Agreed
<1> QED BY <1>1, <1>2 DEF TowersInv

LEMMA TowerDelivered ==
  ASSUME EngineInv, tower \in [Alliance -> Calls], NEW c \in Channel, Deliver(c), NEW a \in Alliance, NEW z \in Calls,
         c = a => <<Head(chan[c]), tower[a], z>> \in TowerStep
  PROVE  tower'[a] = IF c = a THEN z ELSE tower[a]
<1> DEFINE m == Head(chan[c])
<1>1. m \in BodyFor(c)
  BY DEF EngineInv, LettersInv, Deliver, Take
<1>2. tower' = IF m.type = "autoTower" THEN [tower EXCEPT ![c][m.position] = m.status] ELSE tower
  BY DEF Deliver, Applied
<1> HIDE DEF m
<1>3. CASE c = a
  BY <1>2, <1>3 DEF TowerStep, m
<1>4. CASE c # a
  BY <1>2, <1>4
<1> QED BY <1>3, <1>4

LEMMA TowerTypeKept ==
  ASSUME EngineInv, tower \in [Alliance -> Calls], [LinkNext]_linkVars
  PROVE  tower' \in [Alliance -> Calls]
<1>1. ASSUME NEW c \in Channel, Deliver(c) PROVE tower' \in [Alliance -> Calls]
  <2> DEFINE m == Head(chan[c])
  <2>1. m \in BodyFor(c)
    BY <1>1 DEF EngineInv, LettersInv, Deliver, Take
  <2>2. tower' = IF m.type = "autoTower" THEN [tower EXCEPT ![c][m.position] = m.status] ELSE tower
    BY <1>1 DEF Deliver, Applied
  <2> HIDE DEF m
  <2>3. CASE m.type = "autoTower"
    <3>1. c # "referee"
      BY <2>1, <2>3 DEF BodyFor, RefereeBody
    <3>2. c \in Alliance /\ m.position \in Position /\ m.status \in AutoCall
      BY <2>1, <2>3, <3>1 DEF BodyFor, PanelBody, Channel, Alliance
    <3>3. tower[c] \in Calls
      BY <3>2
    <3>4. [tower[c] EXCEPT ![m.position] = m.status] \in Calls
      BY <3>2, <3>3 DEF Calls
    <3> QED BY <2>2, <2>3, <3>2, <3>4
  <2> QED BY <2>2, <2>3
<1>2. CASE UNCHANGED cheesy
  BY <1>2 DEF cheesy
<1> QED BY <1>1, <1>2 DEF LinkNext, PublishKnown, Ask, EngineStep, linkVars

LEMMA TowersStep == EngineInv /\ OneMatch /\ TowersInv /\ [LinkNext]_linkVars => TowersInv'
<1> SUFFICES ASSUME EngineInv, OneMatch, TowersInv, [LinkNext]_linkVars PROVE TowersInv'
  OBVIOUS
<1>1. /\ outbox \in Seq(Letter) /\ tower \in [Alliance -> Calls] /\ tower' \in [Alliance -> Calls]
      /\ prev \in [Alliance -> [Side -> Climb]]
  BY TowerTypeKept DEF EngineInv, LettersInv, TypeOK, TowersInv
<1> SUFFICES ASSUME NEW a \in Alliance
             PROVE  \E y \in Calls : /\ Pending(chan'[a], outbox', a, TowerStep, Calls, tower'[a], y)
                                     /\ Shows(y, prev'[a])
  BY <1>1 DEF TowersInv
<1> DEFINE P(q, out, x, y) == Pending(q, out, a, TowerStep, Calls, x, y)
           L == ByLetter(a, TowerStep, Calls)
<1>2. PICK end \in Calls : P(chan[a], outbox, tower[a], end) /\ Shows(end, prev[a])
  BY DEF TowersInv
<1>3. a \in Channel
  BY DEF Alliance, Channel
<1>4. CASE /\ UNCHANGED <<chan, cheesy, ledger, lastSent, prev>>
           /\ \E more \in Seq(Aside) : outbox' = outbox \o more
  <2>1. PICK more \in Seq(Aside) : outbox' = outbox \o more
    BY <1>4
  <2>2. more \in Seq(Letter) /\ \A i \in DOMAIN more : more[i] \in Aside
    BY DEF Aside
  <2>3. \A i \in DOMAIN more : <<more[i], end, end>> \in L
    <3>1. \A l \in Aside : l \in Letter /\ l.body.type # "autoTower"
      BY DEF Aside, Routine
    <3> QED BY <2>2, <3>1, TowerAside
  <2>4. P(chan[a], outbox \o more, tower[a], end)
    BY <1>1, <1>2, <2>2, <2>3, PendingAside
  <2> QED BY <1>2, <1>4, <2>1, <2>4 DEF cheesy
<1>5. CASE UNCHANGED cheesy /\ \E i \in 1..4 : AdjustFoul(i)
  <2>1. PICK i \in 1..4 : AdjustFoul(i)
    BY <1>5
  <2>2. chan' = chan /\ tower' = tower /\ prev' = prev
    BY <1>5, <2>1 DEF AdjustFoul, cheesy
  <2>3. CASE outbox' = outbox
    BY <1>2, <2>2, <2>3
  <2>4. ASSUME NEW b \in RefereeBody, outbox' = Append(outbox, To("referee", b))
        PROVE  P(chan'[a], outbox', tower'[a], end)
    <3> DEFINE l == To("referee", b)
    <3>1. l \in Letter /\ l.to = "referee" /\ a # "referee"
      BY LetterTo DEF BodyFor, Channel, To, Alliance
    <3> HIDE DEF l
    <3>2. <<l, end, end>> \in L
      BY <3>1, TowerAside
    <3>3. <<l>> \in Seq(Letter) /\ outbox' = outbox \o <<l>> /\ \A n \in DOMAIN <<l>> : (<<l>>)[n] = l
      BY <1>1, <2>4, <3>1 DEF l
    <3>4. P(chan[a], outbox \o <<l>>, tower[a], end)
      BY <1>1, <1>2, <3>2, <3>3, PendingAside
    <3> QED BY <2>2, <3>3, <3>4
  <2> QED BY <1>2, <2>1, <2>2, <2>3, <2>4, FoulPushed
<1>6. CASE UNCHANGED cheesy /\ FinishDiff
  <2>1. /\ CardPart \in Seq(Letter) /\ CardPart \in Seq(LettersTo("referee", {"card"}))
        /\ \A b \in Alliance : ClimbPart(b) \in Seq(Letter) /\ ClimbPart(b) \in Seq(LettersTo(b, Climbs))
    BY DifferenceParts DEF EngineInv
  <2>2. /\ outbox' = outbox \o CardPart \o ClimbPart("red") \o ClimbPart("blue")
        /\ chan' = chan /\ tower' = tower /\ prev' = ClimbOf(rec)
    BY <1>6 DEF FinishDiff, CardPart, ClimbPart, cheesy
  <2>3. PICK y \in Calls : Runs(L, Calls, ClimbPart(a), end, y) /\ Shows(y, ClimbOf(rec)[a])
    <3>1. ClimbOf(rec)[a] \in [Side -> Climb]
      BY ClimbOfType DEF EngineInv, TypeOK
    <3> QED BY <1>2, <3>1, ClimbCourse DEF ClimbPart
  <2>4. ASSUME NEW z \in Calls
        PROVE  /\ \A i \in DOMAIN CardPart : <<CardPart[i], z, z>> \in L
               /\ \A b \in Alliance : b # a => \A i \in DOMAIN ClimbPart(b) : <<ClimbPart(b)[i], z, z>> \in L
    <3>1. \A l \in LettersTo("referee", {"card"}) : <<l, z, z>> \in L
      BY TowerAside DEF LettersTo
    <3>2. \A b \in Alliance : b # a => \A l \in LettersTo(b, Climbs) : <<l, z, z>> \in L
      BY TowerAside DEF LettersTo
    <3> HIDE DEF L
    <3> QED BY <2>1, <3>1, <3>2
  <2>5. "red" \in Alliance /\ "blue" \in Alliance /\ a \in {"red", "blue"}
    BY DEF Alliance
  <2>6. outbox \o CardPart \in Seq(Letter) /\ outbox \o CardPart \o ClimbPart("red") \in Seq(Letter)
    BY <1>1, <2>1, <2>5, ConcatProperties
  <2>7. P(chan[a], outbox \o CardPart, tower[a], end)
    BY <1>1, <1>2, <2>1, <2>4, PendingAside
  <2>8. P(chan[a], outbox \o CardPart \o ClimbPart("red") \o ClimbPart("blue"), tower[a], y)
    <3>1. CASE a = "red"
      <4>1. P(chan[a], outbox \o CardPart \o ClimbPart("red"), tower[a], y)
        BY <2>1, <2>3, <2>5, <2>6, <2>7, <3>1, PendingMore
      <4>2. "blue" # a
        BY <3>1
      <4> QED BY <2>1, <2>4, <2>5, <2>6, <4>1, <4>2, PendingAside
    <3>2. CASE a = "blue"
      <4>1. "red" # a
        BY <3>2
      <4>2. P(chan[a], outbox \o CardPart \o ClimbPart("red"), tower[a], end)
        BY <1>2, <2>1, <2>4, <2>5, <2>6, <2>7, <4>1, PendingAside
      <4> QED BY <2>1, <2>3, <2>5, <2>6, <3>2, <4>2, PendingMore
    <3> QED BY <2>5, <3>1, <3>2
  <2> QED BY <2>2, <2>3, <2>8
<1>7. CASE UNCHANGED cheesy /\ Send
  <2>1. P(chan'[a], outbox', tower[a], end)
    BY <1>2, <1>3, <1>7, PendingStep DEF EngineInv, OneMatch
  <2>2. tower' = tower /\ prev' = prev
    BY <1>7 DEF Send, cheesy, trackers
  <2> QED BY <1>2, <2>1, <2>2
<1>8. ASSUME NEW c \in Channel, Deliver(c)
      PROVE  \E y \in Calls : P(chan'[a], outbox', tower'[a], y) /\ Shows(y, prev'[a])
  <2>1. prev' = prev
    BY <1>8 DEF Deliver, Take, engine, trackers
  <2>2. CASE c = a
    <3>1. PICK z \in Calls : <<Head(chan[a]), tower[a], z>> \in TowerStep /\ P(chan'[a], outbox', z, end)
      BY <1>2, <1>3, <1>8, <2>2, PendingStep DEF EngineInv, OneMatch
    <3>2. tower'[a] = z
      BY <1>1, <1>8, <2>2, <3>1, TowerDelivered
    <3> QED BY <1>2, <2>1, <3>1, <3>2
  <2>3. CASE c # a
    <3>1. P(chan'[a], outbox', tower[a], end)
      BY <1>2, <1>3, <1>8, <2>3, PendingStep DEF EngineInv, OneMatch
    <3>2. tower'[a] = tower[a]
      BY <1>1, <1>2, <1>8, <2>3, TowerDelivered
    <3> QED BY <1>2, <2>1, <3>1, <3>2
  <2> QED BY <2>2, <2>3
<1> QED BY <1>4, <1>5, <1>6, <1>7, <1>8, LinkMoves

\* When nothing is under way, an auto call both panels of an alliance have
\* submitted alike is the one Cheesy Arena shows, whichever panel spoke last and
\* whatever either had called before.
THEOREM AgreedClimbsArrive == LinkSpec => []AgreedClimbShown
<1>1. EngineInv /\ TowersInv => AgreedClimbShown
  <2> SUFFICES ASSUME EngineInv, TowersInv, Quiet, NEW a \in Alliance, NEW p \in Position,
                      Agreed(ClimbOf(rec)[a], p)
               PROVE  tower[a][p] = ClimbOf(rec)[a]["near"].autoClimb[p]
    BY DEF AgreedClimbShown, Agreed, ClimbOf, Side
  <2>1. chan[a] = <<>> /\ outbox = <<>> /\ pc = "select"
    BY DEF Quiet, Channel, Alliance
  <2>2. Shows(tower[a], prev[a])
    BY <2>1, PendingNothing DEF TowersInv
  <2>3. prev = ClimbOf(rec)
    BY <2>1 DEF EngineInv, ResendInv, CaughtUp
  <2> QED BY <2>2, <2>3 DEF Shows
<1> QED BY <1>1, LinkAlways, TowersInit, TowersStep, PTL DEF LinkSpec
=============================================================================
