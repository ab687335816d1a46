----------------------- MODULE ArenaRepository_proofs -----------------------
(***************************************************************************)
(* Theorems about the MATCH_STATE repository, for any sets of matches,      *)
(* panels, entries and tasks, and without its bounds.                      *)
(***************************************************************************)
EXTENDS ArenaRepository, FiniteSetTheorems, TLAPS

-----------------------------------------------------------------------------
(* What the calls do to a record.                                          *)

\* update_head_referee_state makes a head state whose deadline is there iff the
\* warning is, from one that has this property (repository.rs:91-101).
LEMMA HeadAfterIsHead ==
  ASSUME NEW input \in HeadInput, NEW hr \in HeadState \cup {Unset}, NEW now \in Nat,
         DeadlineIffGiven(hr)
  PROVE  /\ HeadAfter(input, hr, now) \in HeadState
         /\ DeadlineIffGiven(HeadAfter(input, hr, now))
<1> DEFINE given == input.given \/ WasGiven(hr)
           expires == IF ~given THEN 0
                      ELSE IF WasGiven(hr) THEN hr.expires
                      ELSE now + WarningSeconds
<1>1. given \in BOOLEAN
  BY DEF HeadInput, HeadState, WasGiven
<1>2. expires \in Nat
  <2>1. CASE WasGiven(hr)
    BY <2>1 DEF WasGiven, HeadState
  <2>2. CASE ~WasGiven(hr)
    BY <2>2 DEF WarningSeconds
  <2> QED BY <2>1, <2>2
<1>3. given <=> expires # 0
  <2>1. CASE WasGiven(hr)
    BY <2>1 DEF WasGiven, DeadlineIffGiven
  <2>2. CASE ~WasGiven(hr)
    BY <2>2 DEF WarningSeconds
  <2> QED BY <2>1, <2>2
<1>4. HeadAfter(input, hr, now) =
        [calls |-> input.calls, fieldState |-> input.fieldState,
         given |-> given, expires |-> expires]
  BY DEF HeadAfter
<1> HIDE DEF given, expires
<1>5. HeadAfter(input, hr, now) \in HeadState
  BY <1>1, <1>2, <1>4 DEF HeadState, HeadInput
<1> QED BY <1>3, <1>4, <1>5 DEF DeadlineIffGiven

\* update_field_state_from_fms likewise (repository.rs:113-118).
LEMMA FieldAfterIsHead ==
  ASSUME NEW fieldState \in FieldState, NEW hr \in HeadState \cup {Unset},
         DeadlineIffGiven(hr)
  PROVE  /\ FieldAfter(fieldState, hr) \in HeadState
         /\ DeadlineIffGiven(FieldAfter(fieldState, hr))
<1>1. CASE hr = Unset
  BY <1>1 DEF FieldAfter, DefaultHead, HeadState, DeadlineIffGiven, FieldState
<1>2. CASE hr # Unset
  BY <1>2 DEF FieldAfter, HeadState, DeadlineIffGiven
<1> QED BY <1>1, <1>2

\* Every call turns a record into a record, and leaves no warning without its
\* deadline in it.
LEMMA UpdatedIsRecord ==
  ASSUME NEW c \in RepositoryCall, NEW r \in Record, NEW now \in Nat,
         DeadlineIffGiven(r.hr)
  PROVE  /\ Updated(c, r, now) \in Record
         /\ DeadlineIffGiven(Updated(c, r, now).hr)
<1>0. /\ r.hr \in HeadState \cup {Unset}
      /\ r.panels \in [Panel -> Entry \cup {Unset}]
      /\ r.completed \in BOOLEAN
  BY DEF Record
<1>1. CASE c.op = "panel"
  <2>1. c.panel \in Panel /\ c.state \in Entry
    BY <1>1 DEF RepositoryCall, PanelCall, OtherPanelCall, HeadCall,
       FieldCall, FmsCall, ViewCall
  <2>2. Updated(c, r, now) = [r EXCEPT !.panels = [r.panels EXCEPT ![c.panel] = c.state]]
    BY <1>1 DEF Updated
  <2> QED BY <1>0, <2>1, <2>2 DEF Record
<1>2. CASE c.op = "head"
  <2>1. c.state \in HeadInput
    BY <1>2 DEF RepositoryCall, PanelCall, OtherPanelCall, HeadCall,
       FieldCall, FmsCall, ViewCall
  <2>2. Updated(c, r, now) = [r EXCEPT !.hr = HeadAfter(c.state, r.hr, now)]
    BY <1>2 DEF Updated
  <2> QED BY <1>0, <2>1, <2>2, HeadAfterIsHead DEF Record
<1>3. CASE c.op = "field"
  <2>1. c.state \in FieldState
    BY <1>3 DEF RepositoryCall, PanelCall, OtherPanelCall, HeadCall,
       FieldCall, FmsCall, ViewCall
  <2>2. Updated(c, r, now) = [r EXCEPT !.hr = FieldAfter(c.state, r.hr)]
    BY <1>3 DEF Updated
  <2> QED BY <1>0, <2>1, <2>2, FieldAfterIsHead DEF Record
<1>4. CASE c.op = "other"
  BY <1>0, <1>4 DEF Updated
<1>5. CASE c.op \notin {"panel", "head", "field", "other"}
  <2>1. Updated(c, r, now) = [r EXCEPT !.completed = TRUE]
    BY <1>5 DEF Updated
  <2> QED BY <1>0, <2>1 DEF Record
<1> QED BY <1>1, <1>2, <1>3, <1>4, <1>5

LEMMA DefaultIsRecord == DefaultRecord \in Record /\ DeadlineIffGiven(DefaultRecord.hr)
BY DEF DefaultRecord, Record, DeadlineIffGiven

LEMMA NoCallIsCall == NoCall \in RepositoryCall
BY MatchAssumption DEF NoCall, RepositoryCall, ViewCall

\* A record is not the marker of a missing one.
LEMMA MissingIsNoRecord == Missing \notin Record
BY AbsentAssumption DEF Record, HeadState, FieldState

-----------------------------------------------------------------------------
(* Types and the warning's deadline.  The two are proved together: that the *)
(* deadline stays is what makes a changed record well formed.               *)

WarningInv == TypeOK /\ WarningHasDeadline

LEMMA WarningInit == Init => WarningInv
<1> SUFFICES ASSUME Init PROVE WarningInv
  OBVIOUS
<1>1. TypeOK
  BY DefaultIsRecord, NoCallIsCall DEF Init, TypeOK
<1>2. WarningHasDeadline
  BY DefaultIsRecord DEF Init, WarningHasDeadline
<1> QED BY <1>1, <1>2 DEF WarningInv

LEMMA WarningBegin ==
  ASSUME WarningInv, NEW t \in Task, NEW c \in RepositoryCall, Begin(t, c)
  PROVE  WarningInv'
<1>1. TypeOK'
  BY DefaultIsRecord DEF WarningInv, TypeOK, Begin
<1>2. WarningHasDeadline'
  BY DefaultIsRecord DEF WarningInv, TypeOK, WarningHasDeadline, Begin
<1> QED BY <1>1, <1>2 DEF WarningInv

\* A task whose call ends leaves nothing behind.
LEMMA WarningReturn ==
  ASSUME WarningInv, NEW t \in Task, Return(t)
  PROVE  /\ pc' \in [Task -> {"idle", "get", "reget", "create", "announceNew", "insert", "announce"}]
         /\ call' \in [Task -> RepositoryCall]
         /\ copy' \in [Task -> Record]
         /\ \A u \in Task : DeadlineIffGiven(copy'[u].hr)
BY DefaultIsRecord, NoCallIsCall DEF WarningInv, TypeOK, WarningHasDeadline, Return

LEMMA WarningGet ==
  ASSUME WarningInv, NEW t \in Task, Get(t)
  PROVE  WarningInv'
<1> DEFINE m == call[t].match
<1>0. call[t] \in RepositoryCall /\ m \in Match
  BY DEF WarningInv, TypeOK, RepositoryCall, PanelCall, OtherPanelCall, HeadCall,
       FieldCall, FmsCall, ViewCall
<1>1. CASE /\ table[m] # Missing /\ call[t].op # "view"
           /\ pc' = [pc EXCEPT ![t] = "insert"]
           /\ copy' = [copy EXCEPT ![t] = Updated(call[t], table[m], clock)]
           /\ UNCHANGED call
  <2>1. table[m] \in Record /\ DeadlineIffGiven(table[m].hr) /\ clock \in Nat
    BY <1>0, <1>1 DEF WarningInv, TypeOK, WarningHasDeadline
  <2>2. /\ Updated(call[t], table[m], clock) \in Record
        /\ DeadlineIffGiven(Updated(call[t], table[m], clock).hr)
    BY <1>0, <2>1, UpdatedIsRecord
  <2> HIDE DEF m
  <2>3. TypeOK'
    BY <1>1, <2>2 DEF WarningInv, TypeOK, Get
  <2>4. WarningHasDeadline'
    BY <1>1, <2>2 DEF WarningInv, TypeOK, WarningHasDeadline, Get
  <2> QED BY <2>3, <2>4 DEF WarningInv
<1>2. CASE Return(t)
  BY <1>2, WarningReturn DEF WarningInv, TypeOK, WarningHasDeadline, Get
<1>3. CASE pc' = [pc EXCEPT ![t] = "create"] /\ UNCHANGED <<call, copy>>
  BY <1>3 DEF WarningInv, TypeOK, WarningHasDeadline, Get
<1> QED BY <1>1, <1>2, <1>3 DEF Get

LEMMA WarningInsert ==
  ASSUME WarningInv, NEW t \in Task, Insert(t)
  PROVE  WarningInv'
<1> DEFINE m == call[t].match
           r == Persisted(m, copy[t])
<1>0. m \in Match
  BY DEF WarningInv, TypeOK, RepositoryCall, PanelCall, OtherPanelCall, HeadCall,
       FieldCall, FmsCall, ViewCall
<1>1. r \in Record \cup {Missing} /\ (r # Missing => DeadlineIffGiven(r.hr))
  BY DEF WarningInv, TypeOK, WarningHasDeadline, Persisted
<1>2. completedIndex' \subseteq Match
  BY <1>0 DEF WarningInv, TypeOK, Insert, IndexAfter
<1>3. table' = [table EXCEPT ![m] = r]
  BY DEF Insert
<1> HIDE DEF m, r
<1>4. TypeOK'
  BY <1>0, <1>1, <1>2, <1>3 DEF WarningInv, TypeOK, Insert
<1>5. WarningHasDeadline'
  BY <1>0, <1>1, <1>3 DEF WarningInv, TypeOK, WarningHasDeadline, Insert
<1> QED BY <1>4, <1>5 DEF WarningInv

LEMMA WarningPublish ==
  ASSUME WarningInv, NEW t \in Task, Publish(t)
  PROVE  WarningInv'
<1> DEFINE m == call[t].match
<1>0. m \in Match /\ copy[t] \in Record /\ DeadlineIffGiven(copy[t].hr)
  BY DEF WarningInv, TypeOK, WarningHasDeadline, RepositoryCall, PanelCall, OtherPanelCall,
         HeadCall, FieldCall, FmsCall, ViewCall
<1>1. seen' = [seen EXCEPT ![m] = copy[t]]
  BY DEF Publish, Announced
<1> HIDE DEF m
<1>2. /\ seen' \in [Match -> Record \cup {Missing}]
      /\ \A n \in Match : seen'[n] # Missing => DeadlineIffGiven(seen'[n].hr)
  BY <1>0, <1>1 DEF WarningInv, TypeOK, WarningHasDeadline
<1>3. CASE pc' = [pc EXCEPT ![t] = "reget"] /\ UNCHANGED <<call, copy>>
  BY <1>2, <1>3 DEF WarningInv, TypeOK, WarningHasDeadline, Publish
<1>4. CASE Return(t)
  BY <1>2, <1>4, WarningReturn DEF WarningInv, TypeOK, WarningHasDeadline, Publish
<1> QED BY <1>3, <1>4 DEF Publish

LEMMA WarningTask ==
  ASSUME WarningInv, NEW t \in Task, TaskStep(t)
  PROVE  WarningInv'
<1>1. ASSUME NEW c \in RepositoryCall,
             Begin(t, c)
      PROVE  WarningInv'
  BY <1>1, WarningBegin DEF RepositoryCall
<1>2. CASE Fault(t)
  BY <1>2, WarningReturn DEF Fault, WarningInv, TypeOK, WarningHasDeadline
<1> QED
  BY <1>1, <1>2, WarningGet, WarningInsert, WarningPublish
     DEF TaskStep, UpdatePanelState, UpdateHeadRefereeState, GetMatchState,
         UpdateFieldStateFromFms, MarkCompletedOrReset, RepositoryCall

LEMMA WarningStep == WarningInv /\ [Next]_vars => WarningInv'
<1> SUFFICES ASSUME WarningInv, [Next]_vars PROVE WarningInv'
  OBVIOUS
<1>1. CASE \E t \in Task : TaskStep(t)
  BY <1>1, WarningTask
<1>2. CASE Restart
  BY <1>2, DefaultIsRecord, NoCallIsCall DEF Restart, WarningInv, TypeOK, WarningHasDeadline
<1>3. CASE Tick
  BY <1>3 DEF Tick, WarningInv, TypeOK, WarningHasDeadline
<1>4. CASE UNCHANGED vars
  BY <1>4 DEF vars, WarningInv, TypeOK, WarningHasDeadline
<1> QED BY <1>1, <1>2, <1>3, <1>4 DEF Next

LEMMA WarningAlways == Spec => []WarningInv
BY WarningInit, WarningStep, PTL DEF Spec

\* Every record the repository reads, holds, writes or publishes is well formed.
THEOREM TypeCorrect == Spec => []TypeOK
<1>1. WarningInv => TypeOK
  BY DEF WarningInv
<1> QED BY <1>1, WarningAlways, PTL

\* Whichever calls interleave, fail or are cut off by a restart, a warning that
\* is given has its deadline wherever the record travels (repository.rs:87-101).
THEOREM WarningKeepsDeadline == Spec => []WarningHasDeadline
<1>1. WarningInv => WarningHasDeadline
  BY DEF WarningInv
<1> QED BY <1>1, WarningAlways, PTL

-----------------------------------------------------------------------------
(* The idle match, id 0.  A call for it finds no record, writes a blank one *)
(* that reads back as missing, and gives up: it never reaches the write of  *)
(* what it was called for.                                                 *)

IdleInv ==
  /\ table[NoMatch] = Missing
  /\ NoMatch \notin completedIndex
  /\ \A t \in Task : call[t].match = NoMatch =>
       copy[t] = DefaultRecord /\ pc[t] \notin {"insert", "announce"}

IndexInv == IdleInv /\ CompletedIsCounted

LEMMA ReturnedIsBlank ==
  ASSUME TypeOK, NEW t \in Task, Return(t)
  PROVE  \A u \in Task :
           /\ u # t => call'[u] = call[u] /\ copy'[u] = copy[u] /\ pc'[u] = pc[u]
           /\ u = t => copy'[u] = DefaultRecord /\ pc'[u] = "idle"
BY DEF TypeOK, Return

LEMMA IndexBegin ==
  ASSUME TypeOK, IndexInv, NEW t \in Task, NEW c \in RepositoryCall, Begin(t, c)
  PROVE  IndexInv'
<1>1. c.op = "reset" => c.match # NoMatch
  BY DEF RepositoryCall, PanelCall, OtherPanelCall, HeadCall,
       FieldCall, FmsCall, ViewCall
<1> QED
  BY <1>1 DEF IndexInv, IdleInv, CompletedIsCounted, TypeOK, Begin

LEMMA IndexGet ==
  ASSUME TypeOK, IndexInv, NEW t \in Task, Get(t)
  PROVE  IndexInv'
<1>1. CASE Return(t)
  BY <1>1, ReturnedIsBlank DEF Get, IndexInv, IdleInv, CompletedIsCounted
<1>2. CASE table[call[t].match] # Missing /\ pc' = [pc EXCEPT ![t] = "insert"]
           /\ copy' = [copy EXCEPT ![t] = Updated(call[t], table[call[t].match], clock)]
           /\ UNCHANGED call
  BY <1>2 DEF Get, IndexInv, IdleInv, CompletedIsCounted, TypeOK
<1>3. CASE pc' = [pc EXCEPT ![t] = "create"] /\ UNCHANGED <<call, copy>>
  BY <1>3 DEF Get, IndexInv, IdleInv, CompletedIsCounted, TypeOK
<1> QED BY <1>1, <1>2, <1>3 DEF Get

LEMMA IndexInsert ==
  ASSUME TypeOK, IndexInv, NEW t \in Task, Insert(t)
  PROVE  IndexInv'
<1> DEFINE m == call[t].match
           r == Persisted(m, copy[t])
<1>0. m \in Match /\ copy[t] \in Record
  BY DEF TypeOK, RepositoryCall, PanelCall, OtherPanelCall, HeadCall,
       FieldCall, FmsCall, ViewCall
<1>1. /\ table' = [table EXCEPT ![m] = r]
      /\ completedIndex' = completedIndex \cup (IF copy[t].completed THEN {m} ELSE {})
  BY DEF Insert, IndexAfter
<1>2. m = NoMatch => r = Missing /\ ~copy[t].completed
  <2>1. m = NoMatch => copy[t] = DefaultRecord
    BY DEF IndexInv, IdleInv
  <2>2. ~DefaultRecord.completed
    BY DEF DefaultRecord
  <2> QED BY <2>1, <2>2 DEF Persisted
<1>3. m # NoMatch => r = copy[t] /\ r # Missing
  BY <1>0, MissingIsNoRecord DEF Persisted
<1>4. IdleInv'
  <2>1. table'[NoMatch] = Missing /\ NoMatch \notin completedIndex'
    BY <1>0, <1>1, <1>2, MatchAssumption DEF IndexInv, IdleInv, TypeOK
  <2>2. \A u \in Task : call'[u].match = NoMatch =>
          copy'[u] = DefaultRecord /\ pc'[u] \notin {"insert", "announce"}
    BY DEF IndexInv, IdleInv, TypeOK, Insert
  <2> QED BY <2>1, <2>2 DEF IdleInv
<1>5. CompletedIsCounted'
  BY <1>0, <1>1, <1>2, <1>3 DEF IndexInv, IdleInv, CompletedIsCounted, TypeOK
<1> QED BY <1>4, <1>5 DEF IndexInv

LEMMA IndexPublish ==
  ASSUME TypeOK, IndexInv, NEW t \in Task, Publish(t)
  PROVE  IndexInv'
<1>1. CASE pc' = [pc EXCEPT ![t] = "reget"] /\ UNCHANGED <<call, copy>>
  BY <1>1 DEF Publish, IndexInv, IdleInv, CompletedIsCounted, TypeOK
<1>2. CASE Return(t)
  BY <1>2, ReturnedIsBlank DEF Publish, IndexInv, IdleInv, CompletedIsCounted
<1> QED BY <1>1, <1>2 DEF Publish

LEMMA IndexStep == TypeOK /\ IndexInv /\ [Next]_vars => IndexInv'
<1> SUFFICES ASSUME TypeOK, IndexInv, [Next]_vars PROVE IndexInv'
  OBVIOUS
<1>1. ASSUME NEW t \in Task, TaskStep(t) PROVE IndexInv'
  <2>1. ASSUME NEW c \in RepositoryCall,
               Begin(t, c)
        PROVE  IndexInv'
    BY <2>1, IndexBegin DEF RepositoryCall
  <2>2. CASE Fault(t)
    BY <2>2, ReturnedIsBlank DEF Fault, IndexInv, IdleInv, CompletedIsCounted
  <2> QED
    BY <1>1, <2>1, <2>2, IndexGet, IndexInsert, IndexPublish
       DEF TaskStep, UpdatePanelState, UpdateHeadRefereeState, GetMatchState,
           UpdateFieldStateFromFms, MarkCompletedOrReset, RepositoryCall
<1>2. CASE Restart
  BY <1>2 DEF Restart, IndexInv, IdleInv, CompletedIsCounted
<1>3. CASE Tick
  BY <1>3 DEF Tick, IndexInv, IdleInv, CompletedIsCounted
<1>4. CASE UNCHANGED vars
  BY <1>4 DEF vars, IndexInv, IdleInv, CompletedIsCounted
<1> QED BY <1>1, <1>2, <1>3, <1>4 DEF Next

LEMMA IndexAlways == Spec => []IndexInv
<1>1. Init => IndexInv
  BY MatchAssumption DEF Init, IndexInv, IdleInv, CompletedIsCounted
<1> QED BY <1>1, IndexStep, TypeCorrect, PTL DEF Spec

\* count_matches, which counts the index, misses no completed match, and counts
\* none without a record (repository.rs:131-136).
THEOREM CompletedMatchesAreCounted == Spec => []CompletedIsCounted
<1>1. IndexInv => CompletedIsCounted
  BY DEF IndexInv
<1> QED BY <1>1, IndexAlways, PTL

\* No call, whatever match id a client sends it with, stores a record for
\* match 0 (table.rs:113-116, client.rs:487-489).
THEOREM IdleMatchHasNoRecord == Spec => []IdleMatchStaysEmpty
<1>1. IndexInv => IdleMatchStaysEmpty
  BY DEF IndexInv, IdleInv, IdleMatchStaysEmpty
<1> QED BY <1>1, IndexAlways, PTL

-----------------------------------------------------------------------------
(* The rotation.                                                           *)

\* Every number is a multiple of r and a remainder below r, and the remainder
\* is determined by that.
LEMMA DivMod ==
  ASSUME NEW n \in Int, NEW r \in Nat \ {0}
  PROVE  \E q \in Int : n = r * q + (n % r) /\ n % r \in 0..(r - 1)
<1>1. n = r * (n \div r) + (n % r) /\ n \div r \in Int /\ n % r \in 0..(r - 1)
  BY Z3T(30)
<1> QED BY <1>1

LEMMA ModIs ==
  ASSUME NEW r \in Nat \ {0}, NEW q \in Int, NEW b \in 0..(r - 1)
  PROVE  (r * q + b) % r = b
<1> DEFINE n == r * q + b
<1>1. n \in Int
  OBVIOUS
<1>2. PICK d \in Int : n = r * d + (n % r) /\ n % r \in 0..(r - 1)
  BY <1>1, DivMod
<1> DEFINE a == n % r
<1>3. a \in Int /\ a < r /\ a >= 0 /\ r * q + b = r * d + a
  BY <1>2
<1> HIDE DEF a
<1>4. ~(q > d)
  <2>1. q > d => r * q >= r * (d + 1)
    BY Z3T(30)
  <2>2. r * (d + 1) = r * d + r
    BY Z3T(30)
  <2> QED BY <1>3, <2>1, <2>2
<1>5. ~(q < d)
  <2>1. q < d => r * d >= r * (q + 1)
    BY Z3T(30)
  <2>2. r * (q + 1) = r * q + r
    BY Z3T(30)
  <2> QED BY <1>3, <2>1, <2>2
<1>6. q = d
  BY <1>4, <1>5
<1>7. a = b
  BY <1>3, <1>6
<1> QED BY <1>7 DEF a

\* Counting on by one: the remainder wraps around at r - 1.
LEMMA ModNext ==
  ASSUME NEW n \in Nat, NEW r \in Nat \ {0}
  PROVE  (n + 1) % r = IF (n % r) = r - 1 THEN 0 ELSE (n % r) + 1
<1>1. PICK q \in Int : n = r * q + (n % r) /\ n % r \in 0..(r - 1)
  BY DivMod, n \in Int
<1> DEFINE a == n % r
<1> HIDE DEF a
<1>2. CASE a = r - 1
  <2>1. n + 1 = r * (q + 1) + 0
    BY <1>1, <1>2, Z3T(30) DEF a
  <2>2. (r * (q + 1) + 0) % r = 0
    BY ModIs, q + 1 \in Int, 0 \in 0..(r - 1)
  <2> QED BY <2>1, <2>2, <1>2 DEF a
<1>3. CASE a # r - 1
  <2>1. n + 1 = r * q + (a + 1) /\ a + 1 \in 0..(r - 1)
    BY <1>1, <1>3 DEF a
  <2>2. (r * q + (a + 1)) % r = a + 1
    BY <2>1, ModIs
  <2> QED BY <2>1, <2>2, <1>3 DEF a
<1> QED BY <1>2, <1>3

\* compute_rotation, given how many matches are completed.
RotationOf(n) ==
  IF MatchRotations = 0 \/ (n > 0 /\ (n % MatchRotations) = 0) THEN 0
  ELSE MatchRotations - (n % MatchRotations)

LEMMA RotationOfNext ==
  ASSUME NEW n \in Nat, MatchRotations # 0
  PROVE  RotationOf(n + 1) = IF RotationOf(n) = 0 THEN MatchRotations - 1 ELSE RotationOf(n) - 1
<1> DEFINE r == MatchRotations
           a == n % MatchRotations
           b == (n + 1) % MatchRotations
<1>1. r \in Nat \ {0}
  BY BoundsAssumption
<1>2. a \in 0..(r - 1) /\ (n = 0 => a = 0)
  <2>1. a \in 0..(r - 1)
    BY <1>1, DivMod, n \in Int
  <2>2. (r * 0 + 0) % r = 0
    BY <1>1, ModIs, 0 \in 0..(r - 1)
  <2> QED BY <1>1, <2>1, <2>2
<1>3. b = IF a = r - 1 THEN 0 ELSE a + 1
  BY <1>1, ModNext
<1>4. /\ RotationOf(n) = IF n > 0 /\ a = 0 THEN 0 ELSE r - a
      /\ RotationOf(n + 1) = IF b = 0 THEN 0 ELSE r - b
  BY <1>1 DEF RotationOf
<1> HIDE DEF a, b, r
<1>5. RotationOf(n + 1) = IF RotationOf(n) = 0 THEN r - 1 ELSE RotationOf(n) - 1
  BY <1>1, <1>2, <1>3, <1>4
<1> QED BY <1>5 DEF r

FiniteInv == IsFiniteSet(completedIndex)

\* A step adds at most the match of the call that writes.
LEMMA IndexGrows ==
  ASSUME [Next]_vars
  PROVE  \E m : completedIndex' \in {completedIndex, completedIndex \cup {m}}
<1>1. ASSUME NEW t \in Task, Insert(t)
      PROVE  completedIndex' \in {completedIndex, completedIndex \cup {call[t].match}}
  BY <1>1 DEF Insert, IndexAfter
<1>2. (\E t \in Task : Insert(t)) \/ completedIndex' = completedIndex
  BY DEF Next, TaskStep, UpdatePanelState, UpdateHeadRefereeState, GetMatchState,
         UpdateFieldStateFromFms, MarkCompletedOrReset, Begin, Get, Publish, Fault, Restart, Tick,
         vars
<1> QED BY <1>1, <1>2

LEMMA FiniteAlways == Spec => []FiniteInv
<1>1. Init => FiniteInv
  BY FS_EmptySet DEF Init, FiniteInv
<1>2. FiniteInv /\ [Next]_vars => FiniteInv'
  BY IndexGrows, FS_AddElement DEF FiniteInv
<1> QED BY <1>1, <1>2, PTL DEF Spec

LEMMA RotationIsOfIndex ==
  CompletedIsCounted => Rotation = RotationOf(Cardinality(completedIndex))
<1> SUFFICES ASSUME CompletedIsCounted PROVE Rotation = RotationOf(Cardinality(completedIndex))
  OBVIOUS
<1>1. {m \in completedIndex : table[m] # Missing} = completedIndex
  BY DEF CompletedIsCounted
<1> QED BY <1>1 DEF Rotation, RotationOf, MatchesPassed

\* The number the head referee is told goes down by one with each match that is
\* completed for the first time and is never moved by anything else: replays,
\* stale writes, failures and restarts included (repository.rs:138-152).
THEOREM RotationIsCountdown == Spec => RotationCountsDown
<1> DEFINE n == Cardinality(completedIndex)
           Counts == Rotation' = IF completedIndex' = completedIndex \/ MatchRotations = 0
                                 THEN Rotation
                                 ELSE IF Rotation = 0 THEN MatchRotations - 1
                                 ELSE Rotation - 1
<1>0. (CompletedIsCounted => Rotation = RotationOf(Cardinality(completedIndex)))'
  BY RotationIsOfIndex, PTL
<1>1. ASSUME FiniteInv, CompletedIsCounted, CompletedIsCounted', [Next]_vars PROVE Counts
  <2>1. Rotation = RotationOf(n) /\ Rotation' = RotationOf(n')
    BY <1>0, <1>1, RotationIsOfIndex
  <2>2. CASE completedIndex' = completedIndex
    BY <2>1, <2>2
  <2>3. CASE MatchRotations = 0
    BY <2>1, <2>3 DEF RotationOf
  <2>4. CASE completedIndex' # completedIndex /\ MatchRotations # 0
    <3>1. PICK m : completedIndex' = completedIndex \cup {m} /\ m \notin completedIndex
      BY <1>1, <2>4, IndexGrows
    <3>2. n \in Nat /\ n' = n + 1
      BY <1>1, <3>1, FS_AddElement, FS_CardinalityType DEF FiniteInv
    <3> QED BY <2>1, <2>4, <3>2, RotationOfNext
  <2> QED BY <2>2, <2>3, <2>4
<1>2. FiniteInv /\ CompletedIsCounted /\ CompletedIsCounted' /\ [Next]_vars => [Counts]_vars
  BY <1>1
<1> QED
  BY <1>2, FiniteAlways, CompletedMatchesAreCounted, PTL DEF Spec, RotationCountsDown

-----------------------------------------------------------------------------
(* Entries.  A record in flight may be stale, but it is always a record of  *)
(* the match its call is for, so that writing it back moves nothing across. *)

EntriesInv ==
  /\ EntriesStayInTheirSlot
  /\ \A t \in Task : Entered(call[t].match, copy[t], issued)
  /\ \A t \in Task : pc[t] # "idle" => call[t] \in issued

LEMMA DefaultHoldsNothing == \A m, calls : Entered(m, DefaultRecord, calls)
BY DEF Entered, DefaultRecord

\* A call adds to a record what it was issued with.
LEMMA UpdatedHoldsIssued ==
  ASSUME NEW c \in RepositoryCall, NEW calls, c \in calls, NEW r \in Record, NEW now \in Nat,
         Entered(c.match, r, calls)
  PROVE  Entered(c.match, Updated(c, r, now), calls)
<1>0. /\ r.hr \in HeadState \cup {Unset}
      /\ r.panels \in [Panel -> Entry \cup {Unset}]
  BY DEF Record
<1>1. CASE c.op = "panel"
  <2>1. /\ c.panel \in Panel
        /\ c = [op |-> "panel", match |-> c.match, panel |-> c.panel, state |-> c.state]
    BY <1>1 DEF RepositoryCall, PanelCall, OtherPanelCall, HeadCall,
       FieldCall, FmsCall, ViewCall
  <2>2. Updated(c, r, now) = [r EXCEPT !.panels = [r.panels EXCEPT ![c.panel] = c.state]]
    BY <1>1 DEF Updated
  <2>3. /\ Updated(c, r, now).panels = [r.panels EXCEPT ![c.panel] = c.state]
        /\ Updated(c, r, now).hr = r.hr
    BY <2>2 DEF Record
  <2>4. ASSUME NEW p \in Panel, Updated(c, r, now).panels[p] # Unset
        PROVE  [op |-> "panel", match |-> c.match, panel |-> p,
                state |-> Updated(c, r, now).panels[p]] \in calls
    <3>1. CASE p = c.panel
      BY <1>0, <2>1, <2>3, <3>1
    <3>2. CASE p # c.panel
      BY <1>0, <2>3, <2>4, <3>2 DEF Entered
    <3> QED BY <3>1, <3>2
  <2> QED BY <2>3, <2>4 DEF Entered
<1>2. CASE c.op = "head"
  <2>1. Updated(c, r, now) = [r EXCEPT !.hr = HeadAfter(c.state, r.hr, now)]
    BY <1>2 DEF Updated
  <2>2. /\ Updated(c, r, now).panels = r.panels
        /\ Updated(c, r, now).hr = HeadAfter(c.state, r.hr, now)
    BY <2>1 DEF Record
  <2>3. HeadAfter(c.state, r.hr, now).calls = c.state.calls
    BY DEF HeadAfter
  <2> QED BY <1>2, <2>2, <2>3 DEF Entered
<1>3. CASE c.op = "field"
  <2>1. Updated(c, r, now) = [r EXCEPT !.hr = FieldAfter(c.state, r.hr)]
    BY <1>3 DEF Updated
  <2>2. /\ Updated(c, r, now).panels = r.panels
        /\ Updated(c, r, now).hr = FieldAfter(c.state, r.hr)
    BY <2>1 DEF Record
  <2>3. FieldAfter(c.state, r.hr).calls = IF r.hr = Unset THEN Unset ELSE r.hr.calls
    BY <1>0 DEF FieldAfter, DefaultHead, HeadState
  <2> QED BY <2>2, <2>3 DEF Entered
<1>4. CASE c.op = "other"
  BY <1>4 DEF Updated
<1>5. CASE c.op \notin {"panel", "head", "field", "other"}
  <2>1. Updated(c, r, now) = [r EXCEPT !.completed = TRUE]
    BY <1>5 DEF Updated
  <2>2. Updated(c, r, now).panels = r.panels /\ Updated(c, r, now).hr = r.hr
    BY <2>1 DEF Record
  <2> QED BY <2>2 DEF Entered
<1> QED BY <1>1, <1>2, <1>3, <1>4, <1>5

\* What came with one of some calls came with one of more calls.
LEMMA EnteredGrows ==
  ASSUME NEW m, NEW r, NEW calls, NEW more, calls \subseteq more, Entered(m, r, calls)
  PROVE  Entered(m, r, more)
BY DEF Entered

LEMMA EntriesReturn ==
  ASSUME TypeOK, EntriesInv, NEW t \in Task, Return(t), UNCHANGED issued
  PROVE  /\ \A u \in Task : Entered(call'[u].match, copy'[u], issued')
         /\ \A u \in Task : pc'[u] # "idle" => call'[u] \in issued'
<1>1. ASSUME NEW u \in Task
      PROVE  /\ Entered(call'[u].match, copy'[u], issued')
             /\ pc'[u] # "idle" => call'[u] \in issued'
  <2>1. CASE u = t
    BY <2>1, ReturnedIsBlank, DefaultHoldsNothing
  <2>2. CASE u # t
    BY <2>2, ReturnedIsBlank DEF EntriesInv
  <2> QED BY <2>1, <2>2
<1> QED BY <1>1

LEMMA EntriesBegin ==
  ASSUME TypeOK, EntriesInv, NEW t \in Task, NEW c \in RepositoryCall, Begin(t, c)
  PROVE  EntriesInv'
<1>1. issued \subseteq issued' /\ c \in issued' /\ table' = table
  BY DEF Begin
<1>2. EntriesStayInTheirSlot'
  BY <1>1, EnteredGrows DEF EntriesInv, EntriesStayInTheirSlot
<1>3. ASSUME NEW u \in Task
      PROVE  /\ Entered(call'[u].match, copy'[u], issued')
             /\ pc'[u] # "idle" => call'[u] \in issued'
  <2>1. CASE u = t
    BY <1>1, <2>1, DefaultHoldsNothing DEF Begin, TypeOK
  <2>2. CASE u # t
    BY <1>1, <2>2, EnteredGrows DEF EntriesInv, Begin, TypeOK
  <2> QED BY <2>1, <2>2
<1> QED BY <1>2, <1>3 DEF EntriesInv

LEMMA EntriesGet ==
  ASSUME TypeOK, EntriesInv, NEW t \in Task, Get(t)
  PROVE  EntriesInv'
<1> DEFINE m == call[t].match
<1>0. /\ call[t] \in RepositoryCall /\ m \in Match /\ clock \in Nat
      /\ call[t] \in issued
      /\ table' = table /\ issued' = issued
  BY DEF TypeOK, EntriesInv, Get, RepositoryCall, PanelCall, OtherPanelCall, HeadCall,
       FieldCall, FmsCall, ViewCall
<1>1. EntriesStayInTheirSlot'
  BY <1>0 DEF EntriesInv, EntriesStayInTheirSlot
<1>2. CASE Return(t)
  BY <1>0, <1>1, <1>2, EntriesReturn DEF EntriesInv
<1>3. CASE /\ table[m] # Missing /\ pc' = [pc EXCEPT ![t] = "insert"]
           /\ copy' = [copy EXCEPT ![t] = Updated(call[t], table[m], clock)]
           /\ UNCHANGED call
  <2>1. table[m] \in Record /\ Entered(m, table[m], issued)
    BY <1>0, <1>3 DEF TypeOK, EntriesInv, EntriesStayInTheirSlot
  <2>2. Entered(m, Updated(call[t], table[m], clock), issued)
    BY <1>0, <2>1, UpdatedHoldsIssued
  <2> QED BY <1>0, <1>1, <1>3, <2>2 DEF EntriesInv, TypeOK
<1>4. CASE pc' = [pc EXCEPT ![t] = "create"] /\ UNCHANGED <<call, copy>>
  BY <1>0, <1>1, <1>4 DEF EntriesInv, TypeOK
<1> QED BY <1>2, <1>3, <1>4 DEF Get

LEMMA EntriesInsert ==
  ASSUME TypeOK, EntriesInv, NEW t \in Task, Insert(t)
  PROVE  EntriesInv'
<1> DEFINE m == call[t].match
<1>0. m \in Match /\ issued' = issued /\ call' = call /\ copy' = copy /\ pc[t] # "idle"
  BY DEF TypeOK, Insert, RepositoryCall, PanelCall, OtherPanelCall, HeadCall,
       FieldCall, FmsCall, ViewCall
<1>1. Entered(m, copy[t], issued)
  BY DEF EntriesInv
<1>2. table' = [table EXCEPT ![m] = Persisted(m, copy[t])]
  BY DEF Insert
<1> HIDE DEF m
<1>3. EntriesStayInTheirSlot'
  BY <1>0, <1>1, <1>2 DEF EntriesInv, EntriesStayInTheirSlot, Persisted, TypeOK
<1>4. \A u \in Task : pc'[u] # "idle" => pc[u] # "idle"
  BY <1>0 DEF Insert, TypeOK
<1> QED BY <1>0, <1>3, <1>4 DEF EntriesInv

LEMMA EntriesPublish ==
  ASSUME TypeOK, EntriesInv, NEW t \in Task, Publish(t)
  PROVE  EntriesInv'
<1>1. EntriesStayInTheirSlot' /\ issued' = issued
  BY DEF Publish, EntriesInv, EntriesStayInTheirSlot
<1>2. CASE pc[t] = "announceNew" /\ pc' = [pc EXCEPT ![t] = "reget"] /\ UNCHANGED <<call, copy>>
  BY <1>1, <1>2 DEF EntriesInv, TypeOK
<1>3. CASE Return(t)
  BY <1>1, <1>3, EntriesReturn DEF EntriesInv
<1> QED BY <1>2, <1>3 DEF Publish

LEMMA EntriesStep == TypeOK /\ EntriesInv /\ [Next]_vars => EntriesInv'
<1> SUFFICES ASSUME TypeOK, EntriesInv, [Next]_vars PROVE EntriesInv'
  OBVIOUS
<1>1. ASSUME NEW t \in Task, TaskStep(t) PROVE EntriesInv'
  <2>1. ASSUME NEW c \in RepositoryCall,
               Begin(t, c)
        PROVE  EntriesInv'
    BY <2>1, EntriesBegin DEF RepositoryCall
  <2>2. CASE Fault(t)
    BY <2>2, EntriesReturn DEF Fault, EntriesInv, EntriesStayInTheirSlot
  <2> QED
    BY <1>1, <2>1, <2>2, EntriesGet, EntriesInsert, EntriesPublish
       DEF TaskStep, UpdatePanelState, UpdateHeadRefereeState, GetMatchState,
           UpdateFieldStateFromFms, MarkCompletedOrReset, RepositoryCall
<1>2. CASE Restart
  BY <1>2, DefaultHoldsNothing DEF Restart, EntriesInv, EntriesStayInTheirSlot
<1>3. CASE Tick
  BY <1>3 DEF Tick, EntriesInv, EntriesStayInTheirSlot
<1>4. CASE UNCHANGED vars
  BY <1>4 DEF vars, EntriesInv, EntriesStayInTheirSlot
<1> QED BY <1>1, <1>2, <1>3, <1>4 DEF Next

\* However stale the copy a call writes back, what a referee entered is found in
\* the slot of that panel in that match and in no other (repository.rs:67-105).
THEOREM EntriesReachTheirSlot == Spec => []EntriesStayInTheirSlot
<1>1. Init => EntriesInv
  BY DefaultHoldsNothing DEF Init, EntriesInv, EntriesStayInTheirSlot
<1>2. EntriesInv => EntriesStayInTheirSlot
  BY DEF EntriesInv
<1> QED BY <1>1, <1>2, EntriesStep, TypeCorrect, PTL DEF Spec

-----------------------------------------------------------------------------
(* Calls that do not overlap.  What a task is about to write is then the     *)
(* table's record with the call's change and nothing else.                 *)

Fresh(t) ==
  /\ pc[t] \in {"get", "reget", "create", "announceNew"} =>
       copy[t] = DefaultRecord /\ call[t].op # "reset"
  /\ pc[t] = "create" => table[call[t].match] = Missing
  /\ pc[t] = "insert" =>
       \/ call[t].op = "reset" /\ copy[t] = DefaultRecord
       \/ /\ call[t].op \notin {"reset", "view"} /\ table[call[t].match] # Missing
          /\ \E now \in Nat : copy[t] = Updated(call[t], table[call[t].match], now)

FreshInv == AtMostOneBusy /\ \A t \in Task : Fresh(t)

LEMMA SerialIsNext == SerialSpec => Spec
<1>1. [SerialNext]_vars => [Next]_vars
  BY DEF SerialNext
<1> QED BY <1>1, PTL DEF SerialSpec, Spec

LEMMA FreshStep == TypeOK /\ FreshInv /\ [SerialNext]_vars => FreshInv'
<1> SUFFICES ASSUME TypeOK, FreshInv, [SerialNext]_vars PROVE FreshInv'
  OBVIOUS
<1>1. AtMostOneBusy'
  BY DEF SerialNext, FreshInv, AtMostOneBusy, vars
<1>2. ASSUME NEW u \in Task, NEW t \in Task, TaskStep(u) PROVE Fresh(t)'
  <2>0. call[u] \in RepositoryCall /\ call[u].match \in Match /\ clock \in Nat
    BY DEF TypeOK, RepositoryCall, PanelCall, OtherPanelCall, HeadCall, FieldCall, FmsCall, ViewCall
  <2>1. ASSUME NEW c \in RepositoryCall, Begin(u, c) PROVE Fresh(t)'
    BY <2>1 DEF Begin, FreshInv, Fresh, TypeOK
  <2>2. CASE Return(u) /\ table' = table
    BY <2>2, ReturnedIsBlank DEF FreshInv, Fresh
  <2>3. CASE Get(u) /\ ~Return(u)
    <3>1. CASE t = u
      BY <2>0, <2>3, <3>1 DEF Get, FreshInv, Fresh, TypeOK
    <3>2. CASE t # u
      BY <2>3, <3>2 DEF Get, FreshInv, Fresh, TypeOK
    <3> QED BY <3>1, <3>2
  <2>4. CASE Insert(u)
    <3>1. CASE t = u
      BY <2>4, <3>1 DEF Insert, FreshInv, Fresh, TypeOK
    <3>2. CASE t # u
      <4>1. pc[t] = "idle" /\ pc'[t] = "idle"
        BY <2>4, <3>2 DEF Insert, FreshInv, AtMostOneBusy, TypeOK
      <4> QED BY <4>1 DEF Fresh
    <3> QED BY <3>1, <3>2
  <2>5. CASE Publish(u) /\ ~Return(u)
    BY <2>5 DEF Publish, FreshInv, Fresh, TypeOK
  <2> QED
    BY <1>2, <2>1, <2>2, <2>3, <2>4, <2>5
       DEF TaskStep, UpdatePanelState, UpdateHeadRefereeState, GetMatchState,
           UpdateFieldStateFromFms, MarkCompletedOrReset, RepositoryCall, Get, Publish, Fault
<1>3. CASE Restart
  BY <1>1, <1>3 DEF Restart, FreshInv, Fresh
<1>4. CASE Tick
  BY <1>1, <1>4 DEF Tick, FreshInv, Fresh
<1>5. CASE UNCHANGED vars
  BY <1>1, <1>5 DEF vars, FreshInv, Fresh
<1> QED BY <1>1, <1>2, <1>3, <1>4, <1>5 DEF SerialNext, Next, FreshInv

LEMMA FreshAlways == SerialSpec => []FreshInv
<1>1. Init => FreshInv
  BY DEF Init, FreshInv, Fresh, AtMostOneBusy
<1> QED BY <1>1, FreshStep, SerialIsNext, TypeCorrect, PTL DEF SerialSpec

\* The step in which a call writes is the step of the store that is named after
\* the call.
LEMMA InsertIsStoreStep ==
  ASSUME WarningInv, IndexInv, FreshInv, NEW t \in Task, Insert(t)
  PROVE  Store!Next \/ UNCHANGED Store!vars
<1> DEFINE c == call[t]
           m == call[t].match
           r == table[m]
<1>0. c \in RepositoryCall /\ m \in Match /\ copy[t] \in Record
  BY DEF WarningInv, TypeOK, RepositoryCall, PanelCall, OtherPanelCall, HeadCall, FieldCall,
         FmsCall, ViewCall
<1>1. /\ table' = [table EXCEPT ![m] = Persisted(m, copy[t])]
      /\ completedIndex' = IndexAfter(m, copy[t])
      /\ Fresh(t)
  BY DEF Insert, FreshInv
<1>2. table \in [Match -> Record \cup {Missing}] /\ table[NoMatch] = Missing
  BY DEF WarningInv, TypeOK, IndexInv, IdleInv
<1>b. DefaultRecord = Store!Blank /\ ~DefaultRecord.completed
  BY DEF DefaultRecord, Store!Blank
<1>3. CASE pc[t] = "create"
  <2>1. copy[t] = DefaultRecord /\ r = Missing
    BY <1>1, <1>3 DEF Fresh
  <2>2. completedIndex' = completedIndex
    BY <1>1, <1>b, <2>1 DEF IndexAfter
  <2>3. CASE m = NoMatch
    <3>1. table' = table
      BY <1>1, <1>2, <2>1, <2>3 DEF Persisted
    <3> QED BY <2>2, <3>1 DEF Store!vars
  <2>4. CASE m # NoMatch
    <3>1. Store!Create(m)
      BY <1>1, <1>b, <2>1, <2>2, <2>4 DEF Store!Create, Persisted
    <3> QED BY <1>0, <3>1 DEF Store!Next
  <2> QED BY <2>3, <2>4
<1>4. CASE pc[t] = "insert" /\ c.op = "reset"
  <2>1. copy[t] = DefaultRecord /\ m # NoMatch
    BY <1>1, <1>4 DEF Fresh, IndexInv, IdleInv
  <2>2. Store!Reset(m)
    BY <1>1, <1>b, <2>1 DEF Store!Reset, Persisted, IndexAfter
  <2> QED BY <1>0, <2>2 DEF Store!Next
<1>5. CASE pc[t] = "insert" /\ c.op # "reset"
  <2>1. c.op # "view" /\ r # Missing /\ m # NoMatch /\ r \in Record /\ DeadlineIffGiven(r.hr)
    BY <1>0, <1>1, <1>2, <1>5 DEF Fresh, WarningInv, WarningHasDeadline
  <2>2. PICK now \in Nat : copy[t] = Updated(c, r, now)
    BY <1>1, <1>5 DEF Fresh
  <2>3. table' = [table EXCEPT ![m] = Updated(c, r, now)]
    BY <1>1, <2>1, <2>2 DEF Persisted
  <2>4. r.completed => m \in completedIndex
    BY <1>0, <2>1 DEF IndexInv, CompletedIsCounted
  <2>5. /\ r.hr \in HeadState \cup {Unset}
        /\ r.panels \in [Panel -> Entry \cup {Unset}]
        /\ r.completed \in BOOLEAN
        /\ r = [completed |-> r.completed, hr |-> r.hr, panels |-> r.panels]
    BY <2>1 DEF Record
  <2> HIDE DEF c, m, r
  <2>6. CASE Updated(c, r, now).completed = r.completed
    <3>1. completedIndex' = completedIndex
      BY <1>1, <2>2, <2>4, <2>6 DEF IndexAfter, m
    <3>2. CASE c.op = "panel"
      <4>1. c.panel \in Panel /\ c.state \in Entry
        BY <1>0, <3>2 DEF RepositoryCall, PanelCall, OtherPanelCall, HeadCall, FieldCall, FmsCall,
                          ViewCall
      <4>2. table' = [table EXCEPT ![m].panels[c.panel] = c.state]
        BY <1>0, <1>2, <2>3, <3>2 DEF Updated, r
      <4>3. Store!Submit(m, c.panel)
        BY <2>1, <3>1, <4>1, <4>2 DEF Store!Submit, r
      <4> QED BY <1>0, <4>1, <4>3 DEF Store!Next
    <3>3. CASE c.op = "head"
      <4> DEFINE new == HeadAfter(c.state, r.hr, now)
      <4>1. c.state \in HeadInput
        BY <1>0, <3>3 DEF RepositoryCall, PanelCall, OtherPanelCall, HeadCall, FieldCall, FmsCall,
                          ViewCall
      <4>2. new \in HeadState /\ DeadlineIffGiven(new)
        BY <2>1, <2>5, <4>1, HeadAfterIsHead
      <4>3. /\ new.calls # Unset
            /\ r.hr # Unset /\ r.hr.given => new.given /\ new.expires = r.hr.expires
        BY <4>1, AbsentAssumption DEF HeadAfter, HeadInput, WasGiven
      <4>4. new # Unset
        BY <4>2, AbsentAssumption DEF HeadState, FieldState
      <4> HIDE DEF new
      <4>5. table' = [table EXCEPT ![m].hr = new]
        BY <1>0, <1>2, <2>3, <3>3 DEF Updated, r, new
      <4>6. table'[m].hr = new
        BY <1>0, <1>2, <2>1, <4>5 DEF Record, r
      <4>7. Store!Decide(m)
        BY <2>1, <3>1, <4>2, <4>3, <4>4, <4>5, <4>6
           DEF Store!Decide, Store!Head, HeadState, FieldState, DeadlineIffGiven, r
      <4> QED BY <1>0, <4>7 DEF Store!Next
    <3>4. CASE c.op = "field"
      <4> DEFINE new == FieldAfter(c.state, r.hr)
      <4>1. c.state \in FieldState
        BY <1>0, <3>4 DEF RepositoryCall, PanelCall, OtherPanelCall, HeadCall, FieldCall, FmsCall,
                          ViewCall
      <4>2. new \in HeadState
        BY <2>1, <2>5, <4>1, FieldAfterIsHead
      <4>3. IF r.hr = Unset THEN new.calls = Unset /\ ~new.given /\ new.expires = 0
            ELSE new.calls = r.hr.calls /\ new.given = r.hr.given /\ new.expires = r.hr.expires
        BY <2>5 DEF FieldAfter, DefaultHead, HeadState
      <4> HIDE DEF new
      <4>4. table' = [table EXCEPT ![m].hr = new]
        BY <1>0, <1>2, <2>3, <3>4 DEF Updated, r, new
      <4>5. table'[m].hr = new
        BY <1>0, <1>2, <2>1, <4>4 DEF Record, r
      <4>6. Store!Signal(m)
        BY <2>1, <3>1, <4>2, <4>3, <4>4, <4>5 DEF Store!Signal, Store!Head, HeadState, FieldState, r
      <4> QED BY <1>0, <4>6 DEF Store!Next
    <3>5. CASE c.op = "complete"
      <4>1. r.completed
        BY <2>5, <2>6, <3>5 DEF Updated
      <4>2. table' = [table EXCEPT ![m].completed = TRUE]
        BY <1>0, <1>2, <2>3, <3>5 DEF Updated, r
      <4>3. Store!Complete(m)
        BY <2>1, <2>4, <3>1, <4>1, <4>2 DEF Store!Complete, r
      <4> QED BY <1>0, <4>3 DEF Store!Next, m
    <3>6. CASE c.op = "other"
      <4>1. table' = table
        BY <1>0, <1>2, <2>3, <3>6 DEF Updated, r
      <4> QED BY <3>1, <4>1 DEF Store!vars
    <3> QED
      BY <1>0, <1>5, <2>1, <3>2, <3>3, <3>4, <3>5, <3>6
         DEF RepositoryCall, PanelCall, OtherPanelCall, HeadCall, FieldCall, FmsCall, ViewCall, c
  <2>7. CASE Updated(c, r, now).completed # r.completed
    <3>1. c.op = "complete"
      BY <1>0, <1>5, <2>1, <2>5, <2>7
         DEF Updated, RepositoryCall, PanelCall, OtherPanelCall, HeadCall, FieldCall, FmsCall,
             ViewCall, c
    <3>2. /\ table' = [table EXCEPT ![m].completed = TRUE]
          /\ Updated(c, r, now).completed
      BY <1>0, <1>2, <2>3, <2>5, <3>1 DEF Updated, r
    <3>3. completedIndex' = completedIndex \cup {m}
      BY <1>1, <2>2, <3>2 DEF IndexAfter, m
    <3>4. Store!Complete(m)
      BY <2>1, <3>2, <3>3 DEF Store!Complete, r
    <3> QED BY <1>0, <3>4 DEF Store!Next, m
  <2> QED BY <2>6, <2>7
<1> QED BY <1>3, <1>4, <1>5 DEF Insert, c

\* When calls do not overlap the repository is the store its comments describe:
\* each call is one step, no completion or warning is taken back, and only a
\* redo clears a record (repository.rs:32, 87-90, 107-112).
THEOREM SerialImplementsStore == SerialSpec => ImplementsMatchStore
<1>1. Init => Store!Init
  BY DEF Init, Store!Init
<1>2. WarningInv /\ IndexInv /\ FreshInv /\ [SerialNext]_vars => [Store!Next]_(Store!vars)
  <2> SUFFICES ASSUME WarningInv, IndexInv, FreshInv, [SerialNext]_vars
               PROVE  Store!Next \/ UNCHANGED Store!vars
    OBVIOUS
  <2>1. (\E t \in Task : Insert(t)) \/ UNCHANGED <<table, completedIndex>>
    BY DEF SerialNext, Next, TaskStep, UpdatePanelState, UpdateHeadRefereeState, GetMatchState,
           UpdateFieldStateFromFms, MarkCompletedOrReset, Begin, Get, Publish, Fault, Restart, Tick,
           vars
  <2> QED BY <2>1, InsertIsStoreStep DEF Store!vars
<1> QED
  BY <1>1, <1>2, SerialIsNext, WarningAlways, IndexAlways, FreshAlways, PTL
     DEF SerialSpec, ImplementsMatchStore, Store!Spec

-----------------------------------------------------------------------------
(* Calls that neither overlap nor fail: what is announced is what is stored. *)

Announcing(t, m) == pc[t] \in {"announceNew", "announce"} /\ call[t].match = m

AnnouncedInv ==
  \A m \in Match \ {NoMatch} :
    /\ \A t \in Task : Announcing(t, m) => copy[t] = table[m]
    /\ seen[m] \in {Missing, table[m]} \/ \E t \in Task : Announcing(t, m)

LEMMA AnnouncedStep ==
  ASSUME MaxFaults = 0, TypeOK, FreshInv, AnnouncedInv, [SerialNext]_vars
  PROVE  AnnouncedInv'
<1>0. call \in [Task -> RepositoryCall] /\ copy \in [Task -> Record] /\ faults \in Nat
  BY DEF TypeOK
<1>1. ASSUME NEW u \in Task, TaskStep(u), NEW m \in Match \ {NoMatch}
      PROVE  /\ \A t \in Task : Announcing(t, m)' => copy'[t] = table'[m]
             /\ seen'[m] \in {Missing, table'[m]} \/ \E t \in Task : Announcing(t, m)'
  <2>1. \A t \in Task :
          Announcing(t, m)' <=> pc'[t] \in {"announceNew", "announce"} /\ call'[t].match = m
    BY DEF Announcing
  <2>2. ASSUME NEW c \in RepositoryCall, Begin(u, c)
        PROVE  /\ \A t \in Task : Announcing(t, m)' => copy'[t] = table'[m]
               /\ seen'[m] \in {Missing, table'[m]} \/ \E t \in Task : Announcing(t, m)'
    <3>1. /\ seen' = seen /\ table' = table
          /\ pc[u] = "idle" /\ pc'[u] \in {"get", "insert"}
      BY <2>2 DEF Begin, TypeOK
    <3>2. \A t \in Task \ {u} : pc'[t] = pc[t] /\ call'[t] = call[t] /\ copy'[t] = copy[t]
      BY <2>2 DEF Begin, TypeOK
    <3> QED BY <2>1, <3>1, <3>2 DEF AnnouncedInv, Announcing
  <2>3. CASE Get(u)
    <3>1. /\ seen' = seen /\ table' = table
          /\ pc[u] \in {"get", "reget"} /\ pc'[u] \in {"idle", "insert", "create"}
      BY <2>3 DEF Get, Return, TypeOK
    <3>2. \A t \in Task \ {u} : pc'[t] = pc[t] /\ call'[t] = call[t] /\ copy'[t] = copy[t]
      BY <2>3 DEF Get, Return, TypeOK
    <3> QED BY <2>1, <3>1, <3>2 DEF AnnouncedInv, Announcing
  <2>4. CASE Insert(u)
    <3>1. /\ pc[u] # "idle" /\ pc'[u] \in {"announceNew", "announce"}
          /\ copy' = copy /\ call' = call /\ seen' = seen
          /\ table' = [table EXCEPT ![call[u].match] = Persisted(call[u].match, copy[u])]
          /\ \A t \in Task \ {u} : pc[t] = "idle" /\ pc'[t] = "idle"
      BY <2>4 DEF Insert, FreshInv, AtMostOneBusy, TypeOK
    <3>2. ~ \E t \in Task : Announcing(t, m)
      BY <2>4, <3>1 DEF Insert, Announcing
    <3>3. CASE call[u].match = m
      BY <3>1, <3>3 DEF Announcing, Persisted, TypeOK
    <3>4. CASE call[u].match # m
      BY <3>1, <3>2, <3>4 DEF Announcing, AnnouncedInv, TypeOK
    <3> QED BY <3>3, <3>4
  <2>5. CASE Publish(u)
    <3>1. /\ Announcing(u, call[u].match) /\ table' = table
          /\ seen' = [seen EXCEPT ![call[u].match] = copy[u]]
          /\ \A t \in Task : ~Announcing(t, m)'
      BY <2>5 DEF Publish, Announced, Announcing, Return, FreshInv, AtMostOneBusy, TypeOK
    <3>2. CASE call[u].match = m
      BY <3>1, <3>2 DEF AnnouncedInv, TypeOK
    <3>3. CASE call[u].match # m
      <4>1. \A t \in Task : ~Announcing(t, m)
        BY <2>5, <3>3 DEF Publish, Announcing, FreshInv, AtMostOneBusy
      <4> QED BY <3>1, <3>3, <4>1 DEF AnnouncedInv, TypeOK
    <3> QED BY <3>2, <3>3
  <2>6. ~Fault(u)
    BY <1>0 DEF Fault
  <2> QED
    BY <1>1, <2>2, <2>3, <2>4, <2>5, <2>6
       DEF TaskStep, UpdatePanelState, UpdateHeadRefereeState, GetMatchState,
           UpdateFieldStateFromFms, MarkCompletedOrReset, RepositoryCall
<1>2. ~Restart
  BY <1>0 DEF Restart
<1>3. CASE Tick
  BY <1>3 DEF Tick, AnnouncedInv, Announcing
<1>4. CASE UNCHANGED vars
  BY <1>4 DEF vars, AnnouncedInv, Announcing
<1> QED BY <1>1, <1>2, <1>3, <1>4 DEF SerialNext, Next, AnnouncedInv

\* Calls that neither overlap nor fail leave every subscriber with the record
\* of the table as soon as the last of them has returned (repository.rs:42-43).
\* Both premises are needed: the order run drops the first, and a call that
\* fails between its insert and its publish is never announced.
THEOREM SerialKeepsSubscribers ==
  ASSUME MaxFaults = 0
  PROVE  SerialSpec => []SubscribersUpToDate
<1>1. Init => AnnouncedInv
  BY DEF Init, AnnouncedInv, Announcing
<1>2. AnnouncedInv => SubscribersUpToDate
  BY DEF AnnouncedInv, Announcing, SubscribersUpToDate
<1>3. TypeOK /\ FreshInv /\ AnnouncedInv /\ [SerialNext]_vars => AnnouncedInv'
  BY AnnouncedStep
<1> QED BY <1>1, <1>2, <1>3, SerialIsNext, TypeCorrect, FreshAlways, PTL DEF SerialSpec
=============================================================================
