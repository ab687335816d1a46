-------------------------- MODULE SyncEngine_proofs --------------------------
(***************************************************************************)
(* The foul ledger of sync.rs agrees with the counters of last_sent in      *)
(* every behaviour, and a record that is published again sends nothing, for *)
(* any records, matches and channel capacity.                              *)
(***************************************************************************)
EXTENDS SyncEngine, FiniteSetTheorems, SequenceTheorems, WellFoundedInduction, TLAPS

-----------------------------------------------------------------------------
(* The ledger's operators.                                                 *)

LEMMA PositionsAreFinite ==
  ASSUME NEW fouls \in Seq(Kind), NEW k
  PROVE  /\ PositionsOf(fouls, k) \subseteq 1..Len(fouls)
         /\ IsFiniteSet(PositionsOf(fouls, k))
         /\ FoulCount(fouls, k) \in Nat
<1>1. PositionsOf(fouls, k) \subseteq 1..Len(fouls)
  BY DEF PositionsOf
<1>2. IsFiniteSet(1..Len(fouls))
  BY FS_Interval
<1> QED BY <1>1, <1>2, FS_Subset, FS_CardinalityType DEF FoulCount

\* A non-empty set of positions has a last one: the distances from the end are
\* natural numbers, and a set of those has a least one.
LEMMA LastExists ==
  ASSUME NEW n \in Nat, NEW P, P \subseteq 1..n, P # {}
  PROVE  \E i \in P : \A j \in P : j <= i
<1> DEFINE D == {n - j : j \in P}
<1>1. D \subseteq Nat /\ D # {}
  <2>1. \A j \in P : n - j \in Nat
    <3>1. \A j \in P : j \in 1..n
      OBVIOUS
    <3> QED BY <3>1
  <2>2. PICK j \in P : TRUE
    OBVIOUS
  <2>3. n - j \in D
    OBVIOUS
  <2> QED BY <2>1, <2>3
<1>2. PICK d \in D : \A e \in D : ~ (<<e, d>> \in OpToRel(<, Nat))
  BY <1>1, NatLessThanWellFounded, WFMin
<1>3. \A e \in D : ~ (e < d)
  BY <1>1, <1>2 DEF OpToRel
<1>4. PICK i \in P : d = n - i
  OBVIOUS
<1>5. ASSUME NEW j \in P PROVE j <= i
  <2>1. n - j \in D /\ i \in Int /\ j \in Int
    OBVIOUS
  <2>2. ~ (n - j < n - i)
    BY <1>3, <1>4, <2>1
  <2> QED BY <2>1, <2>2
<1> QED BY <1>5

LEMMA LastIsFound ==
  ASSUME NEW fouls \in Seq(Kind), NEW k, PositionsOf(fouls, k) # {}
  PROVE  LastOf(fouls, k) \in PositionsOf(fouls, k)
<1>1. \E i \in PositionsOf(fouls, k) : \A j \in PositionsOf(fouls, k) : j <= i
  BY PositionsAreFinite, LastExists
<1> QED BY <1>1 DEF LastOf

LEMMA AppendCount ==
  ASSUME NEW fouls \in Seq(Kind), NEW k \in Kind, NEW other \in Kind
  PROVE  FoulCount(Append(fouls, k), other) =
           IF other = k THEN FoulCount(fouls, other) + 1 ELSE FoulCount(fouls, other)
<1> DEFINE n == Len(fouls) + 1
<1>1. Append(fouls, k) \in Seq(Kind) /\ DOMAIN Append(fouls, k) = 1..n
  OBVIOUS
<1>2. \A i \in 1..n : Append(fouls, k)[i] = IF i = n THEN k ELSE fouls[i]
  OBVIOUS
<1>3. DOMAIN fouls = 1..Len(fouls) /\ n \notin DOMAIN fouls
  OBVIOUS
<1>4. CASE other = k
  <2>1. PositionsOf(Append(fouls, k), other) = PositionsOf(fouls, other) \cup {n}
    BY <1>1, <1>2, <1>3, <1>4 DEF PositionsOf
  <2>2. n \notin PositionsOf(fouls, other)
    BY <1>3 DEF PositionsOf
  <2> QED BY <1>4, <2>1, <2>2, PositionsAreFinite, FS_AddElement DEF FoulCount
<1>5. CASE other # k
  <2>1. PositionsOf(Append(fouls, k), other) = PositionsOf(fouls, other)
    BY <1>1, <1>2, <1>3, <1>5 DEF PositionsOf
  <2> QED BY <1>5, <2>1 DEF FoulCount
<1> QED BY <1>4, <1>5

LEMMA WithoutIsSeq ==
  ASSUME NEW fouls \in Seq(Kind), NEW i \in DOMAIN fouls
  PROVE  /\ Without(fouls, i) \in Seq(Kind)
         /\ DOMAIN Without(fouls, i) = 1..(Len(fouls) - 1)
         /\ \A j \in 1..(Len(fouls) - 1) :
              Without(fouls, i)[j] = IF j < i THEN fouls[j] ELSE fouls[j + 1]
<1>1. Len(fouls) \in Nat /\ DOMAIN fouls = 1..Len(fouls)
  OBVIOUS
<1>2. Len(fouls) - 1 \in Nat
  BY <1>1
<1>3. \A j \in 1..(Len(fouls) - 1) : (IF j < i THEN fouls[j] ELSE fouls[j + 1]) \in Kind
  BY <1>1
<1>4. Without(fouls, i) \in [1..(Len(fouls) - 1) -> Kind]
  BY <1>3 DEF Without
<1> QED BY <1>2, <1>4 DEF Without

\* Removing the foul at position i moves the ones after it down by one place.
LEMMA WithoutCount ==
  ASSUME NEW fouls \in Seq(Kind), NEW i \in DOMAIN fouls, NEW k \in Kind
  PROVE  FoulCount(Without(fouls, i), k) =
           IF fouls[i] = k THEN FoulCount(fouls, k) - 1 ELSE FoulCount(fouls, k)
<1> DEFINE S == PositionsOf(fouls, k) \ {i}
           T == PositionsOf(Without(fouls, i), k)
           move == [x \in S |-> IF x < i THEN x ELSE x - 1]
<1>1. i \in 1..Len(fouls) /\ Len(fouls) \in Nat
  OBVIOUS
<1>2. move \in [S -> T]
  <2> SUFFICES ASSUME NEW x \in S PROVE (IF x < i THEN x ELSE x - 1) \in T
    OBVIOUS
  <2>1. x \in 1..Len(fouls) /\ x # i /\ fouls[x] = k
    BY DEF PositionsOf
  <2>2. CASE x < i
    BY <1>1, <2>1, <2>2, WithoutIsSeq DEF PositionsOf
  <2>3. CASE x > i
    <3>1. x - 1 \in 1..(Len(fouls) - 1) /\ ~ (x - 1 < i) /\ (x - 1) + 1 = x
      BY <1>1, <2>1, <2>3
    <3> QED BY <1>1, <2>1, <2>3, <3>1, WithoutIsSeq DEF PositionsOf
  <2> QED BY <1>1, <2>1, <2>2, <2>3
<1>3. ASSUME NEW x \in S, NEW y \in S, move[x] = move[y] PROVE x = y
  <2>1. x \in 1..Len(fouls) /\ y \in 1..Len(fouls) /\ x # i /\ y # i
    BY DEF PositionsOf
  <2> QED BY <1>1, <1>3, <2>1
<1>4. ASSUME NEW t \in T PROVE \E x \in S : move[x] = t
  <2>1. t \in 1..(Len(fouls) - 1) /\ (IF t < i THEN fouls[t] ELSE fouls[t + 1]) = k
    BY WithoutIsSeq DEF PositionsOf
  <2>2. CASE t < i
    <3>1. t \in S
      BY <1>1, <2>1, <2>2 DEF PositionsOf
    <3> QED BY <2>2, <3>1
  <2>3. CASE ~ (t < i)
    <3>1. t + 1 \in S /\ ~ (t + 1 < i) /\ (t + 1) - 1 = t
      BY <1>1, <2>1, <2>3 DEF PositionsOf
    <3>2. move[t + 1] = t
      BY <3>1
    <3> QED BY <3>1, <3>2
  <2> QED BY <2>2, <2>3
<1>5. move \in Bijection(S, T)
  BY <1>2, <1>3, <1>4 DEF Bijection, Injection, Surjection, IsInjective
<1>6. IsFiniteSet(S) /\
      Cardinality(S) = IF i \in PositionsOf(fouls, k) THEN FoulCount(fouls, k) - 1
                                                     ELSE FoulCount(fouls, k)
  BY PositionsAreFinite, FS_RemoveElement DEF FoulCount
<1>7. Cardinality(T) = Cardinality(S)
  BY <1>5, <1>6, FS_Bijection DEF ExistsBijection
<1>8. i \in PositionsOf(fouls, k) <=> fouls[i] = k
  BY DEF PositionsOf
<1> QED BY <1>6, <1>7, <1>8 DEF FoulCount

-----------------------------------------------------------------------------
(* Types.                                                                  *)

\* The merged counts start at zero and only grow.
LEMMA MergeIsCount ==
  ASSUME NEW c \in [Alliance -> [Kind -> Nat]], NEW fouls \in Fouls
  PROVE  MergeFouls(c, fouls) \in [Alliance -> [Kind -> Nat]]
<1>1. \A a \in Alliance, k \in Kind : Higher(c[a][k], fouls[a][k]) \in Nat
  <2> SUFFICES ASSUME NEW a \in Alliance, NEW k \in Kind
               PROVE  Higher(c[a][k], fouls[a][k]) \in Nat
    OBVIOUS
  <2>1. c[a][k] \in Nat /\ fouls[a][k] \in Int
    BY DEF Fouls
  <2> QED BY <2>1 DEF Higher
<1> QED BY <1>1 DEF MergeFouls

LEMMA CombinedIsCount ==
  ASSUME NEW r \in Record
  PROVE  CombinedFouls(r) \in [Alliance -> [Kind -> Nat]]
<1> DEFINE Counts == [Alliance -> [Kind -> Nat]]
           one == MergeFouls(NoFouls, r.hr.fouls)
           two == MergeFouls(one, r.panels["red"]["near"].fouls)
           three == MergeFouls(two, r.panels["red"]["far"].fouls)
           four == MergeFouls(three, r.panels["blue"]["near"].fouls)
<1>1. NoFouls \in Counts
  BY DEF NoFouls
<1>2. r.hr.fouls \in Fouls
  BY DEF Record
<1>3. \A a \in Alliance, s \in Side : r.panels[a][s].fouls \in Fouls
  BY DEF Record
<1>4. {"red", "blue"} = Alliance /\ {"near", "far"} = Side
  BY DEF Alliance, Side
<1>5. one \in Counts
  BY <1>1, <1>2, MergeIsCount
<1>6. two \in Counts
  BY <1>3, <1>4, <1>5, MergeIsCount
<1>7. three \in Counts
  BY <1>3, <1>4, <1>6, MergeIsCount
<1>8. four \in Counts
  BY <1>3, <1>4, <1>7, MergeIsCount
<1>9. MergeFouls(four, r.panels["blue"]["far"].fouls) \in Counts
  BY <1>3, <1>4, <1>8, MergeIsCount
<1> QED BY <1>9 DEF CombinedFouls

LEMMA ClimbOfType ==
  ASSUME NEW r \in Record
  PROVE  ClimbOf(r) \in [Alliance -> [Side -> Climb]]
BY DEF Record, ClimbOf

LEMMA NoClimbType == NoPanels \in [Alliance -> [Side -> Climb]]
<1>1. NoClimb \in Climb
  BY DEF NoClimb, Climb, AutoCall, EndgameCall
<1> QED BY <1>1 DEF NoPanels

LEMMA BlankTracker ==
  [fouls |-> NoFouls, cards |-> NoCards]
    \in [fouls : [Alliance -> [Kind -> Nat]], cards : [Station -> Card]]
BY DEF NoFouls, NoCards, Card

LEMMA FoulOrderType ==
  ASSUME NEW i \in 1..4
  PROVE  FoulOrder[i][1] \in Alliance /\ FoulOrder[i][2] \in Kind
BY DEF FoulOrder, Alliance, Kind

LEMMA TypeInit == Init => TypeOK
<1> SUFFICES ASSUME Init PROVE TypeOK
  OBVIOUS
<1> DEFINE m == CHOOSE x \in Match : TRUE
<1>1. m \in Match
  <2>1. \E r \in Record : r.match \in Match
    BY SyncAssumption DEF Record
  <2> QED BY <2>1
<1>2. BlankRecord(m) \in Record
  <2>1. NoFouls \in Fouls /\ NoCards \in [Station -> Card]
    BY DEF NoFouls, Fouls, NoCards, Card
  <2>2. NoClimb \in Climb
    BY DEF NoClimb, Climb, AutoCall, EndgameCall
  <2> QED BY <1>1, <2>1, <2>2 DEF BlankRecord, Record, FieldState
<1>3. rec \in Record /\ before \in Record
  BY <1>2 DEF Init
<1>4. inbox \in Seq(Records) /\ ledger \in [Alliance -> Seq(Kind)]
  BY DEF Init
<1>5. lastSent \in [fouls : [Alliance -> [Kind -> Nat]], cards : [Station -> Card]]
  BY BlankTracker DEF Init
<1>6. prev \in [Alliance -> [Side -> Climb]]
  BY NoClimbType DEF Init
<1>7. matchInfo \in Info \cup {NoInfo} /\ requests \subseteq Requests /\ closed \subseteq Channel
  BY SyncAssumption DEF Init
<1>8. /\ shutdown \in BOOLEAN /\ hostOk \in BOOLEAN /\ pc \in {"select", "relay", "fouls", "stopped"}
      /\ currentMatch \in Match \cup {NoMatchYet} /\ lastField \in FieldState
  BY DEF Init, FieldState
<1> QED BY <1>3, <1>4, <1>5, <1>6, <1>7, <1>8 DEF TypeOK

\* Steps of the rest of the server and of the panels.
Environment ==
  \/ \E r \in Records : Publish(r)
  \/ \E q \in Requests : Request(q)
  \/ \E i \in Infos : ReportMatch(i)
  \/ \E c \in Channel : Take(c) \/ ClosePanel(c)
  \/ NotifyShutdown

LEMMA TypeEnvironment ==
  ASSUME TypeOK, Environment
  PROVE  TypeOK' /\ UNCHANGED engine
<1>1. ASSUME NEW r \in Records, Publish(r) PROVE TypeOK' /\ UNCHANGED engine
  BY <1>1 DEF TypeOK, Publish, engine, hand, trackers
<1>2. ASSUME NEW q \in Requests, Request(q) PROVE TypeOK' /\ UNCHANGED engine
  BY <1>2 DEF TypeOK, Request, engine, hand, trackers
<1>3. ASSUME NEW i \in Infos, ReportMatch(i) PROVE TypeOK' /\ UNCHANGED engine
  BY <1>3, SyncAssumption DEF TypeOK, ReportMatch, engine, hand, trackers
<1>4. ASSUME NEW c \in Channel, Take(c) PROVE TypeOK' /\ UNCHANGED engine
  BY <1>4 DEF TypeOK, Take, env, engine, hand, trackers
<1>5. ASSUME NEW c \in Channel, ClosePanel(c) PROVE TypeOK' /\ UNCHANGED engine
  BY <1>5 DEF TypeOK, ClosePanel, env, engine, hand, trackers
<1>6. CASE NotifyShutdown
  BY <1>6 DEF TypeOK, NotifyShutdown, engine, hand, trackers
<1> QED BY <1>1, <1>2, <1>3, <1>4, <1>5, <1>6 DEF Environment

LEMMA TypeRecord ==
  ASSUME TypeOK, OnRecord
  PROVE  TypeOK'
<1>1. Head(inbox) \in Records /\ Tail(inbox) \in Seq(Records)
  BY DEF TypeOK, OnRecord
<1>2. Head(inbox) \in Record /\ Head(inbox).match \in Match /\ Head(inbox).hr.field \in FieldState
  BY <1>1, SyncAssumption DEF Record
<1>3. lastSent' \in [fouls : [Alliance -> [Kind -> Nat]], cards : [Station -> Card]]
  BY BlankTracker DEF OnRecord, TypeOK
<1>4. ledger' \in [Alliance -> Seq(Kind)]
  BY DEF OnRecord, TypeOK
<1>5. prev' \in [Alliance -> [Side -> Climb]]
  BY NoClimbType DEF OnRecord, TypeOK
<1> QED BY <1>1, <1>2, <1>3, <1>4, <1>5 DEF OnRecord, TypeOK

\* Deleting stops at the combined count, which is not negative, so the counter
\* of sent fouls is not either.
LEMMA TypeFoul ==
  ASSUME TypeOK, NEW i \in 1..4, AdjustFoul(i)
  PROVE  TypeOK'
<1> DEFINE a == FoulOrder[i][1]
           k == FoulOrder[i][2]
           sent == lastSent.fouls[a][k]
           at == LastOf(ledger[a], k)
<1>1. a \in Alliance /\ k \in Kind
  BY FoulOrderType
<1>2. CombinedFouls(rec)[a][k] \in Nat /\ sent \in Nat
  BY <1>1, CombinedIsCount DEF TypeOK
<1>3. ASSUME NEW n \in Nat, lastSent' = [lastSent EXCEPT !.fouls[a][k] = n]
      PROVE  lastSent' \in [fouls : [Alliance -> [Kind -> Nat]], cards : [Station -> Card]]
  <2>1. lastSent' = [lastSent EXCEPT !.fouls = [lastSent.fouls EXCEPT ![a] =
                                        [lastSent.fouls[a] EXCEPT ![k] = n]]]
    BY <1>3, Zenon
  <2>2. /\ lastSent \in [fouls : [Alliance -> [Kind -> Nat]], cards : [Station -> Card]]
        /\ lastSent.fouls \in [Alliance -> [Kind -> Nat]]
    BY DEF TypeOK
  <2>3. [lastSent.fouls EXCEPT ![a] = [lastSent.fouls[a] EXCEPT ![k] = n]]
          \in [Alliance -> [Kind -> Nat]]
    BY <1>1, <1>3, <2>2
  <2> QED BY <2>1, <2>2, <2>3
<1>4. \/ lastSent' = [lastSent EXCEPT !.fouls[a][k] = sent + 1] /\ sent + 1 \in Nat
      \/ lastSent' = [lastSent EXCEPT !.fouls[a][k] = sent - 1] /\ sent - 1 \in Nat
  <2>1. sent + 1 \in Nat /\ (sent > CombinedFouls(rec)[a][k] => sent - 1 \in Nat)
    BY <1>2
  <2> QED BY <2>1 DEF AdjustFoul
<1>5. lastSent' \in [fouls : [Alliance -> [Kind -> Nat]], cards : [Station -> Card]]
  BY <1>3, <1>4
<1>6. ledger' \in [Alliance -> Seq(Kind)]
  <2>1. CASE ledger' = [ledger EXCEPT ![a] = Append(@, k)]
    BY <1>1, <2>1 DEF TypeOK
  <2>2. CASE ledger' = [ledger EXCEPT ![a] = Without(@, at)] /\ PositionsOf(ledger[a], k) # {}
    <3>1. ledger[a] \in Seq(Kind)
      BY <1>1 DEF TypeOK
    <3>2. at \in DOMAIN ledger[a]
      BY <2>2, <3>1, LastIsFound DEF PositionsOf
    <3>3. Without(ledger[a], at) \in Seq(Kind)
      BY <3>1, <3>2, WithoutIsSeq
    <3> QED BY <1>1, <2>2, <3>3 DEF TypeOK
  <2>3. CASE UNCHANGED ledger
    BY <2>3 DEF TypeOK
  <2> QED BY <2>1, <2>2, <2>3 DEF AdjustFoul
<1> QED BY <1>5, <1>6 DEF AdjustFoul, TypeOK, env, hand

LEMMA TypeStep == TypeOK /\ [Next]_vars => TypeOK'
<1> SUFFICES ASSUME TypeOK, [Next]_vars PROVE TypeOK'
  OBVIOUS
<1>1. CASE Environment
  BY <1>1, TypeEnvironment
<1>2. CASE OnBypass \/ OnCommit
  BY <1>2 DEF OnBypass, OnCommit, TypeOK, hand, trackers
<1>3. CASE OnRecord
  BY <1>3, TypeRecord
<1>4. CASE StartDiff
  BY <1>4 DEF StartDiff, TypeOK, env, hand, trackers
<1>5. ASSUME NEW i \in 1..4, AdjustFoul(i) PROVE TypeOK'
  BY <1>5, TypeFoul
<1>6. CASE FinishDiff
  <2>1. CombinedCards(rec) \in [Station -> Card]
    BY DEF TypeOK, Record, CombinedCards
  <2>2. lastSent' \in [fouls : [Alliance -> [Kind -> Nat]], cards : [Station -> Card]]
    BY <1>6, <2>1 DEF TypeOK, FinishDiff
  <2>3. prev' \in [Alliance -> [Side -> Climb]]
    BY <1>6, ClimbOfType DEF TypeOK, FinishDiff
  <2> QED BY <1>6, <2>2, <2>3 DEF FinishDiff, TypeOK, env, hand
<1>7. CASE Send \/ OnShutdown
  BY <1>7 DEF Send, OnShutdown, TypeOK, env, hand, trackers
<1>8. CASE UNCHANGED vars
  BY <1>8 DEF TypeOK, vars, env, engine, hand, trackers
<1> QED BY <1>1, <1>2, <1>3, <1>4, <1>5, <1>6, <1>7, <1>8 DEF Next, Environment, Diff

\* The counters of sent fouls are natural numbers, whatever counts the clients
\* report, and the ledger is a sequence of fouls.
THEOREM TypeCorrect == Spec => []TypeOK
BY TypeInit, TypeStep, PTL DEF Spec

-----------------------------------------------------------------------------
(* The ledger.                                                             *)

LEMMA LedgerUntouched ==
  ASSUME LedgerMatchesSent, UNCHANGED ledger, lastSent'.fouls = lastSent.fouls
  PROVE  LedgerMatchesSent'
BY DEF LedgerMatchesSent, FoulCount, PositionsOf

LEMMA LedgerRecord ==
  ASSUME LedgerMatchesSent, OnRecord
  PROVE  LedgerMatchesSent'
<1>1. CASE ledger' = ledger /\ lastSent' = lastSent
  BY <1>1, LedgerUntouched
<1>2. CASE /\ ledger' = [a \in Alliance |-> <<>>]
           /\ lastSent' = [fouls |-> NoFouls, cards |-> NoCards]
  <2> SUFFICES ASSUME NEW a \in Alliance, NEW k \in Kind
               PROVE  FoulCount(ledger'[a], k) = lastSent'.fouls[a][k]
    BY DEF LedgerMatchesSent, FoulCount, PositionsOf
  <2>1. PositionsOf(ledger'[a], k) = {}
    BY <1>2 DEF PositionsOf
  <2> QED BY <1>2, <2>1, FS_EmptySet DEF FoulCount, NoFouls
<1> QED BY <1>1, <1>2 DEF OnRecord

LEMMA LedgerFoul ==
  ASSUME TypeOK, LedgerMatchesSent, NEW i \in 1..4, AdjustFoul(i)
  PROVE  LedgerMatchesSent'
<1> DEFINE a == FoulOrder[i][1]
           k == FoulOrder[i][2]
           sent == lastSent.fouls[a][k]
           at == LastOf(ledger[a], k)
<1> SUFFICES ASSUME NEW b \in Alliance, NEW other \in Kind
             PROVE  FoulCount(ledger'[b], other) = lastSent'.fouls[b][other]
  BY DEF LedgerMatchesSent, FoulCount, PositionsOf
<1>1. a \in Alliance /\ k \in Kind
  BY FoulOrderType
<1>2. /\ ledger[a] \in Seq(Kind) /\ sent \in Nat
      /\ lastSent \in [fouls : [Alliance -> [Kind -> Nat]], cards : [Station -> Card]]
      /\ ledger \in [Alliance -> Seq(Kind)]
  BY <1>1 DEF TypeOK
<1>3. /\ FoulCount(ledger[b], other) = lastSent.fouls[b][other]
      /\ FoulCount(ledger[a], other) = lastSent.fouls[a][other]
      /\ FoulCount(ledger[a], k) = sent
  BY <1>1 DEF LedgerMatchesSent
<1>4. CASE /\ lastSent' = [lastSent EXCEPT !.fouls[a][k] = sent + 1]
           /\ ledger' = [ledger EXCEPT ![a] = Append(@, k)]
  <2>1. CASE b = a
    <3>1. ledger'[b] = Append(ledger[a], k)
      BY <1>1, <1>2, <1>4, <2>1
    <3>2. lastSent'.fouls[b][other] = IF other = k THEN sent + 1 ELSE lastSent.fouls[a][other]
      BY <1>1, <1>2, <1>4, <2>1
    <3> QED BY <1>1, <1>2, <1>3, <3>1, <3>2, AppendCount
  <2>2. CASE b # a
    BY <1>1, <1>2, <1>3, <1>4, <2>2
  <2> QED BY <2>1, <2>2
<1>5. ASSUME sent > CombinedFouls(rec)[a][k]
      PROVE  PositionsOf(ledger[a], k) # {}
  <2>1. CombinedFouls(rec)[a][k] \in Nat
    BY <1>1, CombinedIsCount DEF TypeOK
  <2>2. FoulCount(ledger[a], k) # 0
    BY <1>2, <1>3, <1>5, <2>1
  <2> QED BY <2>2, FS_EmptySet DEF FoulCount
<1>6. CASE /\ lastSent' = [lastSent EXCEPT !.fouls[a][k] = sent - 1]
           /\ ledger' = [ledger EXCEPT ![a] = Without(@, at)]
           /\ PositionsOf(ledger[a], k) # {}
  <2>1. at \in DOMAIN ledger[a] /\ ledger[a][at] = k
    BY <1>2, <1>6, LastIsFound DEF PositionsOf
  <2>2. CASE b = a
    <3>1. ledger'[b] = Without(ledger[a], at)
      BY <1>1, <1>2, <1>6, <2>2
    <3>2. lastSent'.fouls[b][other] = IF other = k THEN sent - 1 ELSE lastSent.fouls[a][other]
      BY <1>1, <1>2, <1>6, <2>2
    <3>3. FoulCount(Without(ledger[a], at), other) =
            IF k = other THEN FoulCount(ledger[a], other) - 1 ELSE FoulCount(ledger[a], other)
      BY <1>2, <2>1, WithoutCount
    <3> QED BY <1>3, <3>1, <3>2, <3>3
  <2>3. CASE b # a
    BY <1>1, <1>2, <1>3, <1>6, <2>3
  <2> QED BY <2>2, <2>3
<1> QED BY <1>4, <1>5, <1>6 DEF AdjustFoul

LEMMA LedgerStep == TypeOK /\ LedgerMatchesSent /\ [Next]_vars => LedgerMatchesSent'
<1> SUFFICES ASSUME TypeOK, LedgerMatchesSent, [Next]_vars PROVE LedgerMatchesSent'
  OBVIOUS
<1>1. CASE Environment
  BY <1>1, TypeEnvironment, LedgerUntouched DEF engine, trackers
<1>2. CASE OnBypass \/ OnCommit \/ StartDiff \/ Send \/ OnShutdown
  BY <1>2, LedgerUntouched DEF OnBypass, OnCommit, StartDiff, Send, OnShutdown, trackers
<1>3. CASE OnRecord
  BY <1>3, LedgerRecord
<1>4. ASSUME NEW i \in 1..4, AdjustFoul(i) PROVE LedgerMatchesSent'
  BY <1>4, LedgerFoul
<1>5. CASE FinishDiff
  BY <1>5, LedgerUntouched DEF FinishDiff, TypeOK
<1>6. CASE UNCHANGED vars
  BY <1>6, LedgerUntouched DEF vars, engine, trackers
<1> QED BY <1>1, <1>2, <1>3, <1>4, <1>5, <1>6 DEF Next, Environment, Diff

\* Through corrections in any order, switches of the match and negative client
\* counts, the ledger holds exactly the fouls counted as sent, so the foul to
\* delete is always found in it (sync.rs:217-227).
THEOREM LedgerIsRight == Spec => []LedgerMatchesSent
<1>1. Init => LedgerMatchesSent
  <2> SUFFICES ASSUME Init, NEW a \in Alliance, NEW k \in Kind
               PROVE  FoulCount(ledger[a], k) = lastSent.fouls[a][k]
    BY DEF LedgerMatchesSent
  <2>1. PositionsOf(ledger[a], k) = {}
    BY DEF Init, PositionsOf
  <2> QED BY <2>1, FS_EmptySet DEF Init, FoulCount, NoFouls
<1> QED BY <1>1, LedgerStep, TypeCorrect, PTL DEF Spec

-----------------------------------------------------------------------------
(* The commands.                                                           *)

\* What may be in the outbox and in the channels: a scoring panel's channel has
\* no command of the referee panel, nor the other way round.
RefereeBody ==
  [type : {"toggleBypass"}, station : Station]
    \cup [type : {"commitAndPost", "signalVolunteers", "signalReset"}]
    \cup [type : {"addFoul"}, alliance : Alliance, kind : Kind]
    \cup [type : {"deleteFoul"}, alliance : Alliance, index : Nat]
    \cup [type : {"card"}, team : Team \cup {0}, card : Card]
PanelBody ==
  [type : {"commitMatch"}]
    \cup [type : {"autoTower"}, position : Position, status : AutoCall]
    \cup [type : {"endgame"}, position : Position, status : EndgameCall]
BodyFor(c) == IF c = "referee" THEN RefereeBody ELSE PanelBody
Letter == {l \in [to : Channel, body : RefereeBody \cup PanelBody] : l.body \in BodyFor(l.to)}

LEMMA LetterTo ==
  /\ \A c \in Channel : \A b \in BodyFor(c) : To(c, b) \in Letter
  /\ \A l \in Letter : l.to \in Channel /\ l.body \in BodyFor(l.to)
BY DEF To, Letter, BodyFor, Channel

\* The positions of a finite set can be counted off.
LEMMA NthCountsOff ==
  ASSUME NEW n \in Nat, NEW at, at \subseteq 1..n
  PROVE  /\ Cardinality(at) \in Nat
         /\ \A k \in 1..Cardinality(at) : Nth(at, k) \in at
         /\ \A i \in at : \E k \in 1..Cardinality(at) : Nth(at, k) = i
<1> DEFINE upTo(i) == {j \in at : j <= i}
           rank == [i \in at |-> Cardinality(upTo(i))]
           c == Cardinality(at)
<1>1. IsFiniteSet(at) /\ c \in Nat
  <2>1. IsFiniteSet(1..n) /\ at \in SUBSET (1..n)
    BY FS_Interval
  <2> QED BY <2>1, FS_Subset, FS_CardinalityType
<1>2. ASSUME NEW i \in at
      PROVE  /\ IsFiniteSet(upTo(i)) /\ i \in upTo(i)
             /\ rank[i] = Cardinality(upTo(i)) /\ rank[i] \in 1..c
  <2>1. upTo(i) \in SUBSET at /\ i \in upTo(i) /\ i \in Int
    OBVIOUS
  <2>2. IsFiniteSet(upTo(i)) /\ Cardinality(upTo(i)) <= c
    BY <1>1, <2>1, FS_Subset
  <2>3. Cardinality(upTo(i)) \in Nat /\ Cardinality(upTo(i)) # 0
    BY <2>1, <2>2, FS_CardinalityType, FS_EmptySet
  <2> QED BY <1>1, <2>1, <2>2, <2>3
<1>3. ASSUME NEW i \in at, NEW j \in at, i < j PROVE rank[i] # rank[j]
  <2>1. upTo(i) \in SUBSET upTo(j) /\ j \notin upTo(i) /\ j \in upTo(j)
    <3>1. at \subseteq Int
      OBVIOUS
    <3>2. i \in Int /\ j \in Int /\ \A x \in at : x \in Int /\ (x <= i => x <= j)
      BY <1>3, <3>1
    <3>3. ~(j <= i) /\ j <= j
      BY <1>3, <3>2
    <3> QED BY <3>2, <3>3
  <2>2. upTo(i) # upTo(j)
    BY <2>1
  <2> QED BY <1>2, <2>1, <2>2, FS_Subset
<1>4. ASSUME NEW i \in at, NEW j \in at, rank[i] = rank[j] PROVE i = j
  <2>1. i \in Int /\ j \in Int
    OBVIOUS
  <2> QED BY <1>3, <1>4, <2>1
<1>5. rank \in Injection(at, 1..c)
  <2>1. rank \in [at -> 1..c]
    BY <1>2
  <2> QED BY <1>4, <2>1 DEF Injection, IsInjective
<1>6. rank \in Surjection(at, 1..c)
  BY <1>1, <1>5, FS_Interval, FS_Injection
<1>7. ASSUME NEW k \in 1..c PROVE Nth(at, k) \in at /\ rank[Nth(at, k)] = k
  <2>1. \E i \in at : Cardinality(upTo(i)) = k
    BY <1>2, <1>6 DEF Surjection
  <2>2. Nth(at, k) \in at /\ Cardinality(upTo(Nth(at, k))) = k
    BY <2>1 DEF Nth
  <2> QED BY <2>2
<1>8. ASSUME NEW i \in at PROVE Nth(at, rank[i]) = i
  BY <1>2, <1>4, <1>7
<1> QED BY <1>1, <1>2, <1>7, <1>8

\* So Kept takes the elements at the positions given, each of them and no other.
LEMMA KeptElements ==
  ASSUME NEW S, NEW s \in Seq(S), NEW at, at \subseteq DOMAIN s
  PROVE  /\ Kept(s, at) \in Seq(S)
         /\ \A k \in DOMAIN Kept(s, at) : \E i \in at : Kept(s, at)[k] = s[i]
         /\ \A i \in at : \E k \in DOMAIN Kept(s, at) : Kept(s, at)[k] = s[i]
<1>1. at \subseteq 1..Len(s) /\ Len(s) \in Nat
  OBVIOUS
<1>2. /\ Cardinality(at) \in Nat
      /\ \A k \in 1..Cardinality(at) : Nth(at, k) \in at
      /\ \A i \in at : \E k \in 1..Cardinality(at) : Nth(at, k) = i
  BY <1>1, NthCountsOff
<1>3. Kept(s, at) \in [1..Cardinality(at) -> S]
  BY <1>2 DEF Kept
<1>4. Kept(s, at) \in Seq(S)
  BY <1>2, <1>3
<1> QED BY <1>2, <1>4 DEF Kept

LEMMA KeptNothing == ASSUME NEW s PROVE Kept(s, {}) = <<>>
<1>1. Cardinality({}) = 0
  BY FS_EmptySet
<1>2. 1..0 = {}
  OBVIOUS
<1> QED BY <1>1, <1>2 DEF Kept

\* Every station is walked, and every position of an alliance.
LEMMA OrdersAreComplete ==
  /\ StationOrder \in Seq(Station) /\ \A s \in Station : \E i \in DOMAIN StationOrder : StationOrder[i] = s
  /\ PositionOrder \in Seq(Position) /\ \A p \in Position : \E i \in DOMAIN PositionOrder : PositionOrder[i] = p
<1> DEFINE n == Cardinality(Station)
           Orders == {o \in [1..n -> Station] : \A i, j \in DOMAIN o : o[i] = o[j] => i = j}
<1>1. n \in Nat /\ IsFiniteSet(Station) /\ \E o : o \in Bijection(1..n, Station)
  BY SyncAssumption, FS_CardinalityType DEF ExistsBijection
<1>2. Orders # {}
  BY <1>1 DEF Bijection, Injection, IsInjective
<1>3. StationOrder \in Orders
  <2>1. StationOrder = CHOOSE o \in [1..n -> Station] : \A i, j \in DOMAIN o : o[i] = o[j] => i = j
    BY DEF StationOrder
  <2> QED BY <1>2, <2>1
<1>4. StationOrder \in Injection(1..n, Station)
  BY <1>3 DEF Injection, IsInjective
<1>5. StationOrder \in Surjection(1..n, Station)
  <2>1. IsFiniteSet(1..n) /\ Cardinality(1..n) = n
    BY <1>1, FS_Interval
  <2> QED BY <1>1, <1>4, <2>1, FS_Injection
<1>6. StationOrder \in Seq(Station) /\ \A s \in Station : \E i \in DOMAIN StationOrder : StationOrder[i] = s
  BY <1>1, <1>3, <1>5 DEF Surjection
<1>7. PositionOrder = [i \in Position |-> i] /\ Position = 1..Cardinality(Position) /\ Cardinality(Position) \in Nat
  BY SyncAssumption, FS_CardinalityType DEF PositionOrder
<1>8. PositionOrder \in Seq(Position) /\ \A p \in Position : \E i \in DOMAIN PositionOrder : PositionOrder[i] = p
  BY <1>7
<1> QED BY <1>6, <1>8

LEMMA KeptStations ==
  ASSUME NEW at, at \subseteq DOMAIN StationOrder
  PROVE  /\ Kept(StationOrder, at) \in Seq(Station)
         /\ \A k \in DOMAIN Kept(StationOrder, at) : \E i \in at : Kept(StationOrder, at)[k] = StationOrder[i]
         /\ \A i \in at : \E k \in DOMAIN Kept(StationOrder, at) : Kept(StationOrder, at)[k] = StationOrder[i]
<1>1. StationOrder \in Seq(Station)
  BY OrdersAreComplete
<1> QED BY <1>1, KeptElements

\* A card command for each listed station whose card changed, and no other.
CardChanged(old, new, info, s) == old[s] # new[s] /\ info # NoInfo /\ info.teams[s] # NotListed
CardCommand(new, info, s) == To("referee", [type |-> "card", team |-> info.teams[s], card |-> new[s]])

OneForEachCard(q, old, new, info) ==
  /\ \A k \in DOMAIN q : \E s \in Station :
       CardChanged(old, new, info, s) /\ q[k] = CardCommand(new, info, s)
  /\ \A s \in Station : CardChanged(old, new, info, s) =>
       \E k \in DOMAIN q : q[k] = CardCommand(new, info, s)

LEMMA CardCommandsOf ==
  ASSUME NEW old, NEW new \in [Station -> Card], NEW info \in Info \cup {NoInfo}
  PROVE  /\ CardCommands(old, new, info) \in Seq(Letter)
         /\ OneForEachCard(CardCommands(old, new, info), old, new, info)
         /\ old = new => CardCommands(old, new, info) = <<>>
<1> DEFINE at == {i \in DOMAIN StationOrder : CardChanged(old, new, info, StationOrder[i])}
           kept == Kept(StationOrder, at)
           commands == CardCommands(old, new, info)
<1>1. commands = [n \in DOMAIN kept |-> CardCommand(new, info, kept[n])]
  BY DEF CardCommands, CommandsFor, CardChanged, CardCommand
<1>2. /\ StationOrder \in Seq(Station)
      /\ \A s \in Station : \E i \in DOMAIN StationOrder : StationOrder[i] = s
      /\ at \subseteq DOMAIN StationOrder
  BY OrdersAreComplete
<1> HIDE DEF at
<1>3. /\ kept \in Seq(Station)
      /\ \A k \in DOMAIN kept : \E i \in at : kept[k] = StationOrder[i]
      /\ \A i \in at : \E k \in DOMAIN kept : kept[k] = StationOrder[i]
  BY <1>2, KeptStations
<1>4. ASSUME NEW s \in Station, CardChanged(old, new, info, s) PROVE CardCommand(new, info, s) \in Letter
  <2>1. info \in Info /\ info.teams[s] \in Team \cup {0}
    BY <1>4 DEF CardChanged, Info
  <2>2. [type |-> "card", team |-> info.teams[s], card |-> new[s]] \in [type : {"card"}, team : Team \cup {0}, card : Card]
    BY <2>1
  <2>3. [type |-> "card", team |-> info.teams[s], card |-> new[s]] \in BodyFor("referee")
    BY <2>2 DEF BodyFor, RefereeBody
  <2> QED BY <2>3, LetterTo DEF CardCommand, Channel
<1>5. \A k \in DOMAIN kept : kept[k] \in Station /\ CardChanged(old, new, info, kept[k])
  <2>1. \A i \in at : StationOrder[i] \in Station /\ CardChanged(old, new, info, StationOrder[i])
    BY <1>2 DEF at
  <2> QED BY <1>3, <2>1
<1> HIDE DEF kept, commands
<1>6. DOMAIN commands = DOMAIN kept /\ \A k \in DOMAIN kept : commands[k] = CardCommand(new, info, kept[k])
  BY <1>1
<1>7. commands \in Seq(Letter)
  <2>1. DOMAIN kept = 1..Len(kept) /\ Len(kept) \in Nat
    BY <1>3
  <2>2. commands \in [1..Len(kept) -> Letter]
    BY <1>1, <1>4, <1>5, <2>1
  <2> QED BY <2>1, <2>2
<1>8. ASSUME NEW s \in Station, CardChanged(old, new, info, s)
      PROVE  \E k \in DOMAIN commands : commands[k] = CardCommand(new, info, s)
  <2>1. PICK i \in DOMAIN StationOrder : StationOrder[i] = s
    BY <1>2
  <2>2. PICK k \in DOMAIN kept : kept[k] = s
    BY <1>3, <1>8, <2>1 DEF at
  <2> QED BY <1>6, <2>2
<1>9. ASSUME old = new PROVE commands = <<>>
  <2>1. at = {}
    BY <1>9 DEF CardChanged, at
  <2>2. kept = <<>>
    BY <2>1, KeptNothing DEF kept
  <2> QED BY <1>1, <2>2
<1>10. OneForEachCard(commands, old, new, info)
  BY <1>5, <1>6, <1>8 DEF OneForEachCard
<1> QED BY <1>7, <1>9, <1>10 DEF commands

\* A tower command for each position with a call, and no other.
TowerCommand(a, type, climb, p) == To(a, [type |-> type, position |-> p, status |-> climb[p]])

OneForEachCall(q, a, type, climb) ==
  /\ \A k \in DOMAIN q : \E p \in Position :
       climb[p] # "unspecified" /\ q[k] = TowerCommand(a, type, climb, p)
  /\ \A p \in Position : climb[p] # "unspecified" =>
       \E k \in DOMAIN q : q[k] = TowerCommand(a, type, climb, p)

LEMMA TowerCommandsOf ==
  ASSUME NEW a \in Alliance, NEW type, NEW climb,
         \/ type = "autoTower" /\ climb \in [Position -> AutoCall]
         \/ type = "endgame" /\ climb \in [Position -> EndgameCall]
  PROVE  /\ TowerCommands(a, type, climb) \in Seq(Letter)
         /\ OneForEachCall(TowerCommands(a, type, climb), a, type, climb)
<1> DEFINE at == {i \in DOMAIN PositionOrder : climb[PositionOrder[i]] # "unspecified"}
           kept == Kept(PositionOrder, at)
           commands == TowerCommands(a, type, climb)
<1>1. commands = [n \in DOMAIN kept |-> TowerCommand(a, type, climb, kept[n])]
  BY DEF TowerCommands, CommandsFor, TowerCommand
<1>2. /\ PositionOrder \in Seq(Position)
      /\ \A p \in Position : \E i \in DOMAIN PositionOrder : PositionOrder[i] = p
      /\ at \subseteq DOMAIN PositionOrder
  BY OrdersAreComplete
<1> HIDE DEF at
<1>3. /\ kept \in Seq(Position)
      /\ \A k \in DOMAIN kept : \E i \in at : kept[k] = PositionOrder[i]
      /\ \A i \in at : \E k \in DOMAIN kept : kept[k] = PositionOrder[i]
  BY <1>2, KeptElements
<1>4. ASSUME NEW p \in Position PROVE TowerCommand(a, type, climb, p) \in Letter
  <2> DEFINE body == [type |-> type, position |-> p, status |-> climb[p]]
  <2>1. body \in [type : {"autoTower"}, position : Position, status : AutoCall]
          \/ body \in [type : {"endgame"}, position : Position, status : EndgameCall]
    OBVIOUS
  <2>2. body \in BodyFor(a) /\ a \in Channel
    BY <2>1 DEF BodyFor, PanelBody, Alliance, Channel
  <2> QED BY <2>2, LetterTo DEF TowerCommand
<1>5. \A k \in DOMAIN kept : kept[k] \in Position /\ climb[kept[k]] # "unspecified"
  <2>1. \A i \in at : PositionOrder[i] \in Position /\ climb[PositionOrder[i]] # "unspecified"
    BY <1>2 DEF at
  <2> QED BY <1>3, <2>1
<1> HIDE DEF kept, commands
<1>6. DOMAIN commands = DOMAIN kept /\ \A k \in DOMAIN kept : commands[k] = TowerCommand(a, type, climb, kept[k])
  BY <1>1
<1>7. commands \in Seq(Letter)
  <2>1. DOMAIN kept = 1..Len(kept) /\ Len(kept) \in Nat
    BY <1>3
  <2>2. commands \in [1..Len(kept) -> Letter]
    BY <1>1, <1>4, <1>5, <2>1
  <2> QED BY <2>1, <2>2
<1>8. ASSUME NEW p \in Position, climb[p] # "unspecified"
      PROVE  \E k \in DOMAIN commands : commands[k] = TowerCommand(a, type, climb, p)
  <2>1. PICK i \in DOMAIN PositionOrder : PositionOrder[i] = p
    BY <1>2
  <2>2. PICK k \in DOMAIN kept : kept[k] = p
    BY <1>3, <1>8, <2>1 DEF at
  <2> QED BY <1>6, <2>2
<1>9. OneForEachCall(commands, a, type, climb)
  BY <1>5, <1>6, <1>8 DEF OneForEachCall
<1> QED BY <1>7, <1>9 DEF commands

LEMMA ClimbCommandsOf ==
  ASSUME NEW a \in Alliance, NEW old, NEW new \in [Side -> Climb]
  PROVE  /\ ClimbCommands(a, old, new) \in Seq(Letter)
         /\ old = new => ClimbCommands(a, old, new) = <<>>
<1> DEFINE auto(s) == IF AutoChanged(old[s], new[s])
                      THEN TowerCommands(a, "autoTower", new[s].autoClimb) ELSE <<>>
           endgame(s) == IF EndgameChanged(old[s], new[s])
                         THEN TowerCommands(a, "endgame", new[s].endgameClimb) ELSE <<>>
<1>1. ASSUME NEW s \in Side
      PROVE  /\ auto(s) \in Seq(Letter) /\ endgame(s) \in Seq(Letter)
             /\ old = new => auto(s) = <<>> /\ endgame(s) = <<>>
  <2>1. new[s].autoClimb \in [Position -> AutoCall] /\ new[s].endgameClimb \in [Position -> EndgameCall]
    BY DEF Climb
  <2>2. /\ TowerCommands(a, "autoTower", new[s].autoClimb) \in Seq(Letter)
        /\ TowerCommands(a, "endgame", new[s].endgameClimb) \in Seq(Letter)
    BY <2>1, TowerCommandsOf
  <2>3. old = new => ~AutoChanged(old[s], new[s]) /\ ~EndgameChanged(old[s], new[s])
    BY DEF AutoChanged, EndgameChanged
  <2>4. <<>> \in Seq(Letter)
    OBVIOUS
  <2> QED BY <2>2, <2>3, <2>4
<1>2. ClimbCommands(a, old, new) = auto("near") \o auto("far") \o endgame("near") \o endgame("far")
  BY DEF ClimbCommands
<1>3. "near" \in Side /\ "far" \in Side
  BY DEF Side
<1> HIDE DEF auto, endgame
<1>4. /\ auto("near") \in Seq(Letter) /\ auto("far") \in Seq(Letter)
      /\ endgame("near") \in Seq(Letter) /\ endgame("far") \in Seq(Letter)
  BY <1>1, <1>3
<1>5. ClimbCommands(a, old, new) \in Seq(Letter)
  BY <1>2, <1>4
<1>6. ASSUME old = new PROVE ClimbCommands(a, old, new) = <<>>
  <2>1. auto("near") = <<>> /\ auto("far") = <<>> /\ endgame("near") = <<>> /\ endgame("far") = <<>>
    BY <1>1, <1>3, <1>6
  <2> QED BY <1>2, <2>1
<1> QED BY <1>5, <1>6

\* What FinishDiff puts behind the foul commands.
Difference ==
  CardCommands(lastSent.cards, CombinedCards(rec), matchInfo)
    \o ClimbCommands("red", prev["red"], ClimbOf(rec)["red"])
    \o ClimbCommands("blue", prev["blue"], ClimbOf(rec)["blue"])

LEMMA DifferenceOf ==
  ASSUME TypeOK
  PROVE  /\ Difference \in Seq(Letter)
         /\ lastSent.cards = CombinedCards(rec) /\ prev = ClimbOf(rec) => Difference = <<>>
<1> DEFINE cards == CardCommands(lastSent.cards, CombinedCards(rec), matchInfo)
           red == ClimbCommands("red", prev["red"], ClimbOf(rec)["red"])
           blue == ClimbCommands("blue", prev["blue"], ClimbOf(rec)["blue"])
<1>1. CombinedCards(rec) \in [Station -> Card] /\ matchInfo \in Info \cup {NoInfo}
  BY DEF TypeOK, Record, CombinedCards
<1>2. cards \in Seq(Letter) /\ (lastSent.cards = CombinedCards(rec) => cards = <<>>)
  BY <1>1, CardCommandsOf
<1>3. /\ "red" \in Alliance /\ "blue" \in Alliance
      /\ ClimbOf(rec)["red"] \in [Side -> Climb] /\ ClimbOf(rec)["blue"] \in [Side -> Climb]
  BY ClimbOfType DEF TypeOK, Alliance
<1>4. /\ red \in Seq(Letter) /\ (prev["red"] = ClimbOf(rec)["red"] => red = <<>>)
      /\ blue \in Seq(Letter) /\ (prev["blue"] = ClimbOf(rec)["blue"] => blue = <<>>)
  BY <1>3, ClimbCommandsOf
<1>5. Difference = cards \o red \o blue
  BY DEF Difference
<1> HIDE DEF cards, red, blue
<1>6. Difference \in Seq(Letter)
  BY <1>2, <1>4, <1>5
<1>7. ASSUME lastSent.cards = CombinedCards(rec), prev = ClimbOf(rec) PROVE Difference = <<>>
  <2>1. cards = <<>> /\ red = <<>> /\ blue = <<>>
    BY <1>2, <1>4, <1>7
  <2> QED BY <1>5, <2>1
<1> QED BY <1>6, <1>7

-----------------------------------------------------------------------------
(* What is in the outbox and the channels.                                 *)

LettersInv ==
  /\ outbox \in Seq(Letter)
  /\ DOMAIN chan = Channel /\ chan = [c \in Channel |-> chan[c]]
  /\ \A c \in Channel : chan[c] \in Seq(BodyFor(c))

LEMMA LettersInit == Init => LettersInv
BY DEF Init, LettersInv

LEMMA LettersSent ==
  ASSUME LettersInv, Send
  PROVE  LettersInv' /\ \A i \in DOMAIN outbox' : \E j \in DOMAIN outbox : outbox'[i] = outbox[j]
<1> DEFINE c == Head(outbox).to
           elsewhere == {i \in DOMAIN outbox : outbox[i].to # c}
<1>1. /\ outbox \in Seq(Letter) /\ outbox # <<>>
      /\ Head(outbox) \in Letter /\ Tail(outbox) \in Seq(Letter)
  BY DEF LettersInv, Send
<1>2. CASE chan' = [chan EXCEPT ![c] = Append(@, Head(outbox).body)] /\ outbox' = Tail(outbox)
  <2>1. c \in Channel /\ Head(outbox).body \in BodyFor(c)
    BY <1>1, LetterTo
  <2>2. Append(chan[c], Head(outbox).body) \in Seq(BodyFor(c))
    BY <2>1, AppendProperties DEF LettersInv
  <2>3. LettersInv'
    BY <1>1, <1>2, <2>1, <2>2 DEF LettersInv
  <2>4. ASSUME NEW i \in DOMAIN outbox' PROVE \E j \in DOMAIN outbox : outbox'[i] = outbox[j]
    <3>1. i + 1 \in DOMAIN outbox /\ outbox'[i] = outbox[i + 1]
      BY <1>1, <1>2
    <3> QED BY <3>1
  <2> QED BY <2>3, <2>4
<1>3. CASE outbox' = Kept(outbox, elsewhere) /\ UNCHANGED chan
  <2>1. elsewhere \subseteq DOMAIN outbox
    OBVIOUS
  <2> HIDE DEF elsewhere
  <2>2. /\ Kept(outbox, elsewhere) \in Seq(Letter)
        /\ \A k \in DOMAIN Kept(outbox, elsewhere) :
             \E j \in elsewhere : Kept(outbox, elsewhere)[k] = outbox[j]
    BY <1>1, <2>1, KeptElements
  <2>3. LettersInv'
    BY <1>1, <1>3, <2>2 DEF LettersInv
  <2> QED BY <1>3, <2>1, <2>2, <2>3
<1> QED BY <1>2, <1>3 DEF Send

LEMMA FinishDiffAdds ==
  ASSUME TypeOK, LettersInv, FinishDiff
  PROVE  outbox' = outbox \o Difference
<1> DEFINE red == ClimbCommands("red", prev["red"], ClimbOf(rec)["red"])
           blue == ClimbCommands("blue", prev["blue"], ClimbOf(rec)["blue"])
           cards == CardCommands(lastSent.cards, CombinedCards(rec), matchInfo)
<1>1. outbox' = outbox \o cards \o red \o blue
  BY DEF FinishDiff
<1> QED BY <1>1 DEF Difference

LEMMA LettersStep == TypeOK /\ LettersInv /\ [Next]_vars => LettersInv'
<1> SUFFICES ASSUME TypeOK, LettersInv, [Next]_vars PROVE LettersInv'
  OBVIOUS
<1>1. outbox \in Seq(Letter) /\ "referee" \in Channel /\ "red" \in Channel /\ "blue" \in Channel
  BY DEF LettersInv, Channel
<1>2. CASE \/ \E r \in Records : Publish(r)
           \/ \E q \in Requests : Request(q)
           \/ \E i \in Infos : ReportMatch(i)
           \/ NotifyShutdown \/ StartDiff \/ OnShutdown \/ UNCHANGED vars
  BY <1>1, <1>2 DEF LettersInv, Publish, Request, ReportMatch, NotifyShutdown, StartDiff, OnShutdown, vars, engine
<1>3. CASE \E c \in Channel : Take(c) \/ ClosePanel(c)
  <2>1. PICK c \in Channel : Take(c) \/ ClosePanel(c)
    BY <1>3
  <2>2. <<>> \in Seq(BodyFor(c)) /\ (chan[c] # <<>> => Tail(chan[c]) \in Seq(BodyFor(c)))
    BY HeadTailProperties, EmptySeq DEF LettersInv
  <2> QED BY <1>1, <2>1, <2>2 DEF LettersInv, Take, ClosePanel, engine
<1>4. CASE OnBypass
  <2>1. PICK s \in Station : outbox' = <<To("referee", [type |-> "toggleBypass", station |-> s])>>
    BY <1>4 DEF OnBypass
  <2>2. [type |-> "toggleBypass", station |-> s] \in BodyFor("referee")
    BY DEF BodyFor, RefereeBody
  <2>3. To("referee", [type |-> "toggleBypass", station |-> s]) \in Letter
    BY <1>1, <2>2, LetterTo
  <2> QED BY <1>1, <1>4, <2>1, <2>3 DEF OnBypass, LettersInv
<1>5. CASE OnCommit
  <2>1. /\ [type |-> "commitAndPost"] \in BodyFor("referee")
        /\ [type |-> "commitMatch"] \in BodyFor("red") /\ [type |-> "commitMatch"] \in BodyFor("blue")
    BY DEF BodyFor, RefereeBody, PanelBody
  <2>2. /\ To("referee", [type |-> "commitAndPost"]) \in Letter
        /\ To("red", [type |-> "commitMatch"]) \in Letter /\ To("blue", [type |-> "commitMatch"]) \in Letter
    BY <1>1, <2>1, LetterTo
  <2> QED BY <1>1, <1>5, <2>2 DEF OnCommit, LettersInv
<1>6. CASE OnRecord
  <2>1. [type |-> "signalVolunteers"] \in BodyFor("referee") /\ [type |-> "signalReset"] \in BodyFor("referee")
    BY DEF BodyFor, RefereeBody
  <2>2. /\ To("referee", [type |-> "signalVolunteers"]) \in Letter
        /\ To("referee", [type |-> "signalReset"]) \in Letter
    BY <1>1, <2>1, LetterTo
  <2>3. \A f : FieldCommand(f) \in Seq(Letter)
    BY <2>2 DEF FieldCommand
  <2> QED BY <1>1, <1>6, <2>3 DEF OnRecord, LettersInv
<1>7. ASSUME NEW i \in 1..4, AdjustFoul(i) PROVE LettersInv'
  <2> DEFINE a == FoulOrder[i][1]
             k == FoulOrder[i][2]
             at == LastOf(ledger[a], k)
  <2>1. a \in Alliance /\ k \in Kind
    BY FoulOrderType
  <2>2. [type |-> "addFoul", alliance |-> a, kind |-> k] \in BodyFor("referee")
    BY <2>1 DEF BodyFor, RefereeBody
  <2>3. ASSUME PositionsOf(ledger[a], k) # {}
        PROVE  [type |-> "deleteFoul", alliance |-> a, index |-> WireIndex(at)] \in BodyFor("referee")
    <3>1. ledger[a] \in Seq(Kind)
      BY <2>1 DEF TypeOK
    <3>2. at \in DOMAIN ledger[a]
      BY <2>3, <3>1, LastIsFound DEF PositionsOf
    <3>3. WireIndex(at) \in Nat
      BY <3>1, <3>2 DEF WireIndex
    <3> QED BY <2>1, <3>3 DEF BodyFor, RefereeBody
  <2>4. \A b \in BodyFor("referee") : Append(outbox, To("referee", b)) \in Seq(Letter)
    BY <1>1, LetterTo, AppendProperties
  <2> HIDE DEF a, k
  <2>5. outbox' \in Seq(Letter)
    BY <1>1, <1>7, <2>2, <2>3, <2>4 DEF AdjustFoul, a, k
  <2> QED BY <1>1, <1>7, <2>5 DEF AdjustFoul, LettersInv
<1>8. CASE FinishDiff
  <2>1. outbox' = outbox \o Difference
    BY <1>8, FinishDiffAdds DEF LettersInv
  <2>2. Difference \in Seq(Letter)
    BY DifferenceOf
  <2>3. outbox \o Difference \in Seq(Letter)
    BY <1>1, <2>2, ConcatProperties
  <2> QED BY <1>1, <1>8, <2>1, <2>3 DEF FinishDiff, LettersInv
<1>9. CASE Send
  BY <1>9, LettersSent
<1> QED BY <1>2, <1>3, <1>4, <1>5, <1>6, <1>7, <1>8, <1>9 DEF Next, Diff

-----------------------------------------------------------------------------
(* Records published again.                                                *)

(***************************************************************************)
(* Between two records the trackers are those of the record in hand; before *)
(* the first one they are those of a blank record, which is what a reset    *)
(* makes of them.  So a record that equals the one before it finds nothing  *)
(* to adjust, whether or not it is taken for one of another match.          *)
(***************************************************************************)
CaughtUp ==
  /\ lastSent.cards = CombinedCards(rec)
  /\ prev = ClimbOf(rec)
  /\ \A a \in Alliance, k \in Kind : Settled(a, k)

Routine == {"toggleBypass", "commitAndPost", "commitMatch"}
OnlyRoutine == \A i \in DOMAIN outbox : outbox[i].body.type \in Routine

ResendInv ==
  /\ pc \in {"select", "stopped"} \/ rec = before => CaughtUp
  /\ lastField = rec.hr.field
  /\ \/ currentMatch = rec.match
     \/ currentMatch = NoMatchYet /\ rec = BlankRecord(rec.match) /\ pc \in {"select", "stopped"}
  /\ rec = before => OnlyRoutine

LEMMA BlankIsBlank ==
  ASSUME NEW m
  PROVE  /\ CombinedFouls(BlankRecord(m)) = NoFouls /\ CombinedCards(BlankRecord(m)) = NoCards
         /\ ClimbOf(BlankRecord(m)) = NoPanels /\ BlankRecord(m).hr.field = "match"
<1> DEFINE r == BlankRecord(m)
<1>1. /\ r.hr.fouls = NoFouls /\ r.hr.cards = NoCards /\ r.hr.field = "match"
      /\ \A a \in Alliance, s \in Side : r.panels[a][s].fouls = NoFouls /\ r.panels[a][s].climb = NoClimb
  BY DEF BlankRecord
<1>2. MergeFouls(NoFouls, NoFouls) = NoFouls
  BY DEF MergeFouls, NoFouls, Higher
<1>3. "red" \in Alliance /\ "blue" \in Alliance /\ "near" \in Side /\ "far" \in Side
  BY DEF Alliance, Side
<1> HIDE DEF r
<1>4. CombinedFouls(r) = NoFouls
  BY <1>1, <1>2, <1>3 DEF CombinedFouls
<1>5. CombinedCards(r) = NoCards /\ ClimbOf(r) = NoPanels
  BY <1>1 DEF CombinedCards, ClimbOf, NoPanels
<1> QED BY <1>1, <1>4, <1>5 DEF r

LEMMA ResendInit == Init => ResendInv
<1> SUFFICES ASSUME Init PROVE ResendInv
  OBVIOUS
<1> DEFINE m == CHOOSE x \in Match : TRUE
<1>1. rec = BlankRecord(m) /\ rec.match = m
  BY DEF Init, BlankRecord
<1>2. CombinedFouls(rec) = NoFouls /\ CombinedCards(rec) = NoCards /\ ClimbOf(rec) = NoPanels /\ rec.hr.field = "match"
  BY <1>1, BlankIsBlank
<1>3. CaughtUp
  BY <1>2 DEF Init, CaughtUp, Settled
<1>4. OnlyRoutine
  BY DEF Init, OnlyRoutine
<1> HIDE DEF m
<1> QED BY <1>1, <1>2, <1>3, <1>4 DEF Init, ResendInv

LEMMA ResendRecord ==
  ASSUME TypeOK, ResendInv, OnRecord
  PROVE  ResendInv'
<1> DEFINE r == Head(inbox)
<1>1. /\ rec' = r /\ before' = rec /\ currentMatch' = r.match /\ lastField' = r.hr.field /\ pc' = "relay"
      /\ CaughtUp
  BY DEF OnRecord, Selecting, ResendInv
<1>2. ASSUME r = rec PROVE CaughtUp' /\ OnlyRoutine'
  <2>1. CASE currentMatch = rec.match
    <3>1. UNCHANGED <<rec, lastSent, prev>> /\ outbox' = <<>>
      BY <1>1, <1>2, <2>1 DEF OnRecord, ResendInv
    <3> QED BY <1>1, <3>1 DEF CaughtUp, Settled, OnlyRoutine
  <2>2. CASE currentMatch # rec.match
    <3>1. rec = BlankRecord(rec.match)
      BY <2>2 DEF ResendInv
    <3>2. /\ CombinedFouls(rec) = NoFouls /\ CombinedCards(rec) = NoCards /\ ClimbOf(rec) = NoPanels
          /\ rec.hr.field = "match"
      BY <3>1, BlankIsBlank
    <3>3. /\ lastSent' = [fouls |-> NoFouls, cards |-> NoCards] /\ prev' = NoPanels
          /\ outbox' = <<>> /\ UNCHANGED rec
      BY <1>1, <1>2, <2>2, <3>2 DEF OnRecord
    <3> QED BY <3>2, <3>3 DEF CaughtUp, Settled, OnlyRoutine
  <2> QED BY <2>1, <2>2
<1> QED BY <1>1, <1>2 DEF ResendInv

LEMMA ResendStep == TypeOK /\ LettersInv /\ ResendInv /\ [Next]_vars => ResendInv'
<1> SUFFICES ASSUME TypeOK, LettersInv, ResendInv, [Next]_vars PROVE ResendInv'
  OBVIOUS
<1>1. ASSUME UNCHANGED engine PROVE ResendInv'
  BY <1>1 DEF engine, hand, trackers, ResendInv, CaughtUp, Settled, OnlyRoutine
<1>2. CASE Environment
  BY <1>1, <1>2, TypeEnvironment
<1>3. CASE UNCHANGED vars
  BY <1>1, <1>3 DEF vars
<1>4. CASE OnBypass
  <2>1. PICK s : outbox' = <<To("referee", [type |-> "toggleBypass", station |-> s])>>
    BY <1>4 DEF OnBypass
  <2>2. OnlyRoutine'
    BY <2>1 DEF OnlyRoutine, Routine, To
  <2> QED BY <1>4, <2>2 DEF OnBypass, hand, trackers, ResendInv, CaughtUp, Settled
<1>5. CASE OnCommit
  <2>1. OnlyRoutine'
    BY <1>5 DEF OnCommit, OnlyRoutine, Routine, To
  <2> QED BY <1>5, <2>1 DEF OnCommit, hand, trackers, ResendInv, CaughtUp, Settled
<1>6. CASE OnRecord
  BY <1>6, ResendRecord
<1>7. CASE StartDiff \/ OnShutdown
  BY <1>7 DEF StartDiff, OnShutdown, Selecting, hand, trackers, ResendInv, CaughtUp, Settled, OnlyRoutine
<1>8. ASSUME NEW i \in 1..4, AdjustFoul(i) PROVE ResendInv'
  <2>1. pc = "fouls" /\ ~Settled(FoulOrder[i][1], FoulOrder[i][2])
    BY <1>8 DEF AdjustFoul
  <2>2. rec # before
    BY <2>1, FoulOrderType DEF ResendInv, CaughtUp
  <2> QED BY <1>8, <2>1, <2>2 DEF AdjustFoul, hand, ResendInv
<1>9. CASE FinishDiff
  <2>1. /\ UNCHANGED <<rec, before, currentMatch, lastField>> /\ pc = "fouls" /\ pc' = "select"
        /\ outbox' = outbox \o Difference
    BY <1>9, FinishDiffAdds DEF FinishDiff, hand
  <2>2. CaughtUp'
    <3>1. lastSent'.fouls = lastSent.fouls /\ lastSent'.cards = CombinedCards(rec)
      BY <1>9 DEF FinishDiff, TypeOK
    <3> QED BY <1>9, <2>1, <3>1 DEF FinishDiff, CaughtUp, Settled
  <2>3. ASSUME rec = before PROVE OnlyRoutine'
    <3>1. Difference = <<>>
      BY <2>3, DifferenceOf DEF ResendInv, CaughtUp
    <3>2. outbox' = outbox
      BY <2>1, <3>1 DEF LettersInv
    <3> QED BY <2>3, <3>2 DEF ResendInv, OnlyRoutine
  <2> QED BY <2>1, <2>2, <2>3 DEF ResendInv
<1>10. CASE Send
  <2>1. UNCHANGED <<pc, hand, trackers>>
    BY <1>10 DEF Send
  <2>2. OnlyRoutine => OnlyRoutine'
    BY <1>10, LettersSent DEF OnlyRoutine
  <2> QED BY <2>1, <2>2 DEF hand, trackers, ResendInv, CaughtUp, Settled
<1> QED BY <1>2, <1>3, <1>4, <1>5, <1>6, <1>7, <1>8, <1>9, <1>10 DEF Next, Environment, Diff

LEMMA EngineAlways == Spec => [](LettersInv /\ ResendInv)
BY LettersInit, LettersStep, ResendInit, ResendStep, TypeCorrect, PTL DEF Spec

\* Whatever was worked off before, a record that is published again sends Cheesy
\* Arena nothing, be it the very first record and blank.
THEOREM ResendsAreSilent == Spec => []ResendIsSilent
<1>1. ResendInv => ResendIsSilent
  BY DEF ResendInv, OnlyRoutine, Routine, ResendIsSilent
<1> QED BY <1>1, EngineAlways, PTL
=============================================================================
