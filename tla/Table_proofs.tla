----------------------------- MODULE Table_proofs -----------------------------
(***************************************************************************)
(* What a Table promises, for any ids, indexes, clients and batches: stored *)
(* records stay indexed, removals leave no trace, answers are complete.     *)
(***************************************************************************)
EXTENDS Table, TLAPS

\* What a call's subjects are: ids for a removal, slots for the others.
Subjects(op) == IF op = "remove" THEN Id ELSE Slot

LEMMA MatchesAreKeys ==
  ASSUME NEW op, NEW s \in Subjects(op)
  PROVE  Matches(op, s) \subseteq Key
BY DEF Matches, Subjects, Key, Slot

\* A call works on its own subjects, and a scan on keys that match.
CallInv ==
  \A c \in Client :
    /\ pc[c] # "idle" =>
         /\ call[c].on \subseteq Subjects(call[c].op)
         /\ at[c] \in call[c].on
         /\ todo[c] \subseteq call[c].on
    /\ pc[c] = "scan" => sure[c] \subseteq maybe[c] /\ maybe[c] \subseteq Matches(call[c].op, at[c])
    /\ pc[c] = "exec" => call[c].op = "remove"
    /\ pc[c] \in {"mget", "fetch"} => call[c].op = "search"
    /\ call[c].op = "search" => call[c].on \subseteq Index
    /\ call[c].op = "remove" => keys[c] \subseteq call[c].on \X Slot
    /\ call[c].op = "list" => call[c].on = {Data} /\ todo[c] = {} /\ (pc[c] = "scan" => ids[c] = {})

Inv == TypeOK /\ CallInv

-----------------------------------------------------------------------------
(* Types.                                                                  *)

LEMMA InvInit == Init => Inv
<1> SUFFICES ASSUME Init PROVE Inv
  OBVIOUS
<1>1. TypeOK
  BY DEF Init, TypeOK, NoCall, Slot
<1>2. CallInv
  BY DEF Init, CallInv, NoCall
<1> QED BY <1>1, <1>2 DEF Inv

\* What the other calls see of a change of the keys.
LEMMA WitnessType ==
  ASSUME Inv, NEW others \in SUBSET Client, Witness(others), present' \subseteq Key
  PROVE  /\ sure' \in [Client -> SUBSET Key]
         /\ maybe' \in [Client -> SUBSET Key]
         /\ steady' \in [Client -> SUBSET Key]
         /\ \A c \in others : pc[c] = "scan" =>
              sure'[c] \subseteq maybe'[c] /\ maybe'[c] \subseteq Matches(call[c].op, at[c])
BY DEF Witness, Inv, TypeOK, CallInv

LEMMA StoreType ==
  ASSUME TypeOK, NEW set \in SUBSET Key, NEW expired \in SUBSET set, NEW values,
         \A id \in Id : <<id, Data>> \in set => values[id] \in Value \cup {Empty},
         Store(set, expired, values)
  PROVE  present' \subseteq Key /\ mortal' \subseteq present' /\ bytes' \in [Id -> Value \cup {Empty}]
BY DEF Store, TypeOK

LEMMA DeleteType ==
  ASSUME TypeOK, NEW gone, Delete(gone)
  PROVE  present' \subseteq Key /\ mortal' \subseteq present' /\ bytes' \in [Id -> Value \cup {Empty}]
BY DEF Delete, TypeOK

LEMMA PromisedType ==
  ASSUME TypeOK, NEW set, NEW indexes \in SUBSET Index, NEW expire \in BOOLEAN
  PROVE  PromisedAfter(set, indexes, expire) \in [Id -> SUBSET Index]
BY DEF PromisedAfter, TypeOK

LEMMA InvInsert ==
  ASSUME Inv, NEW c \in Client, Insert(c)
  PROVE  Inv'
<1>1. PICK batch \in Batch(Id), indexes \in SUBSET Index, expire \in BOOLEAN :
        \E values \in [batch -> Value \cup {Empty}] :
          InsertAll(c, batch, values, indexes, expire, batch \X (indexes \cup {Data}),
                    IF expire THEN batch \X (indexes \cup {Data}) ELSE {})
  BY DEF Insert
<1> DEFINE all == batch \X (indexes \cup {Data})
<1>2. all \subseteq Key /\ batch \subseteq Id
  BY DEF Key, Slot, Batch
<1>3. PICK values \in [batch -> Value \cup {Empty}] :
        InsertAll(c, batch, values, indexes, expire, all, IF expire THEN all ELSE {})
  BY <1>1
<1>4. present' \subseteq Key /\ mortal' \subseteq present' /\ bytes' \in [Id -> Value \cup {Empty}]
  <2>1. \A id \in Id : <<id, Data>> \in all => values[id] \in Value \cup {Empty}
    BY <1>2
  <2>2. Store(all, IF expire THEN all ELSE {}, values)
    BY <1>3 DEF InsertAll
  <2> HIDE DEF all
  <2> QED BY <1>2, <2>1, <2>2, StoreType DEF Inv
<1>5. promised' \in [Id -> SUBSET Index]
  BY <1>3, PromisedType DEF InsertAll, Inv
<1>6. written' \in [Client -> SUBSET Id]
  BY <1>2, <1>3 DEF InsertAll, WrittenAfter, Inv, TypeOK
<1>7. Witness({d \in Client : d # c}) /\ UNCHANGED <<pc, locals, faults>> /\ calls' = calls + 1 /\ pc[c] = "idle"
  BY <1>3 DEF Insert, InsertAll, CanBegin
<1>8. /\ sure' \in [Client -> SUBSET Key] /\ maybe' \in [Client -> SUBSET Key]
      /\ steady' \in [Client -> SUBSET Key]
      /\ \A d \in {e \in Client : e # c} : pc[d] = "scan" =>
           sure'[d] \subseteq maybe'[d] /\ maybe'[d] \subseteq Matches(call[d].op, at[d])
  BY <1>4, <1>7, WitnessType
<1>9. TypeOK'
  BY <1>4, <1>5, <1>6, <1>7, <1>8 DEF TypeOK, Inv, locals
<1>10. CallInv'
  BY <1>7, <1>8 DEF CallInv, Inv, locals, Subjects, Matches
<1> QED BY <1>9, <1>10 DEF Inv

LEMMA InvBegin ==
  ASSUME Inv, NEW c \in Client, NEW op \in {"remove", "search", "list"},
         NEW subjects \in SUBSET Subjects(op), op = "search" => subjects \subseteq Index,
         op = "list" => subjects = {Data},
         Begin(c, op, subjects)
  PROVE  Inv'
<1>1. PICK s \in subjects : /\ todo' = [todo EXCEPT ![c] = subjects \ {s}]
                            /\ BeginScan(c, op, s)
  BY DEF Begin
<1>2. \A t \in subjects : Matches(op, t) \subseteq Key
  BY MatchesAreKeys
<1>3. Leading \subseteq Key
  BY DEF Leading, Inv, TypeOK
<1>4. subjects \subseteq Id \cup Slot /\ s \in Id \cup Slot
  BY DEF Subjects
<1>5. TypeOK'
  BY <1>1, <1>2, <1>3, <1>4 DEF Begin, BeginScan, TypeOK, Inv, redis
<1>6. CallInv'
  BY <1>1 DEF Begin, BeginScan, CallInv, Inv, TypeOK, Subjects, Matches
<1> QED BY <1>5, <1>6 DEF Inv

LEMMA InvBegins ==
  ASSUME Inv, NEW c \in Client, Remove(c) \/ GetBySearchIndex(c) \/ GetAllIds(c)
  PROVE  Inv'
<1>1. CASE Remove(c)
  BY <1>1, InvBegin DEF Remove, Batch, Subjects
<1>2. CASE GetBySearchIndex(c)
  BY <1>2, InvBegin DEF GetBySearchIndex, Batch, Subjects, Slot
<1>3. CASE GetAllIds(c)
  BY <1>3, InvBegin DEF GetAllIds, Subjects, Slot
<1> QED BY <1>1, <1>2, <1>3

\* Going on to the next subject keeps a call in order, whatever follows the last.
Continues(c, next) ==
  /\ pc' = [pc EXCEPT ![c] = pc'[c]] /\ pc'[c] \in {"scan", next}
  /\ todo' = [todo EXCEPT ![c] = todo'[c]] /\ todo'[c] \subseteq todo[c]
  /\ at' = [at EXCEPT ![c] = at'[c]] /\ at'[c] \in call[c].on
  /\ sure' = [sure EXCEPT ![c] = sure'[c]] /\ sure'[c] \subseteq Key
  /\ maybe' = [maybe EXCEPT ![c] = maybe'[c]] /\ maybe'[c] \subseteq Key
  /\ pc'[c] = "scan" =>
       sure'[c] \subseteq maybe'[c] /\ maybe'[c] \subseteq Matches(call[c].op, at'[c])

LEMMA OnwardType ==
  ASSUME Inv, NEW c \in Client, NEW next \in {"exec", "fetch", "return"}, Onward(c, next),
         pc[c] # "idle"
  PROVE  Continues(c, next)
<1>1. at[c] \in call[c].on /\ todo[c] \subseteq call[c].on /\ call[c].on \subseteq Subjects(call[c].op)
  BY DEF Inv, CallInv
<1>2. CASE todo[c] = {} /\ pc' = [pc EXCEPT ![c] = next] /\ sure' = [sure EXCEPT ![c] = {}]
           /\ maybe' = [maybe EXCEPT ![c] = {}] /\ UNCHANGED <<todo, at>>
  BY <1>1, <1>2 DEF Continues, Inv, TypeOK
<1>3. ASSUME NEW s \in todo[c], todo' = [todo EXCEPT ![c] = @ \ {s}], BeginScan(c, call[c].op, s)
      PROVE  Continues(c, next)
  <2>1. Matches(call[c].op, s) \subseteq Key
    BY <1>1, <1>3, MatchesAreKeys
  <2> QED BY <1>1, <1>3, <2>1 DEF Continues, BeginScan, Inv, TypeOK
<1> QED BY <1>2, <1>3 DEF Onward

LEMMA ContinuesType ==
  ASSUME Inv, NEW c \in Client, NEW next \in {"exec", "fetch", "return"}, Continues(c, next),
         call[c].on \subseteq Subjects(call[c].op)
  PROVE  /\ pc' \in [Client -> {"idle", "scan", "exec", "mget", "fetch", "return"}]
         /\ todo' \in [Client -> SUBSET (Id \cup Slot)]
         /\ at' \in [Client -> Id \cup Slot]
         /\ sure' \in [Client -> SUBSET Key]
         /\ maybe' \in [Client -> SUBSET Key]
<1>1. pc' \in [Client -> {"idle", "scan", "exec", "mget", "fetch", "return"}]
  BY DEF Continues, Inv, TypeOK
<1>2. todo' \in [Client -> SUBSET (Id \cup Slot)]
  BY DEF Continues, Inv, TypeOK
<1>3. at' \in [Client -> Id \cup Slot]
  BY DEF Continues, Inv, TypeOK, Subjects
<1>4. sure' \in [Client -> SUBSET Key] /\ maybe' \in [Client -> SUBSET Key]
  BY DEF Continues, Inv, TypeOK
<1> QED BY <1>1, <1>2, <1>3, <1>4

LEMMA InvFinishScan ==
  ASSUME Inv, NEW c \in Client, FinishScan(c)
  PROVE  Inv'
<1>1. PICK extra \in SUBSET (maybe[c] \ sure[c]) : AfterScan(c, sure[c] \cup extra)
  BY DEF FinishScan
<1> DEFINE found == sure[c] \cup extra
<1>2. pc[c] = "scan" /\ UNCHANGED <<redis, call, history, calls, faults>>
  BY DEF FinishScan
<1>3. found \subseteq Matches(call[c].op, at[c]) /\ found \subseteq Key
  BY <1>2 DEF Inv, CallInv, TypeOK
<1> HIDE DEF found
<1>4. /\ at[c] \in call[c].on /\ call[c].on \subseteq Subjects(call[c].op) /\ todo[c] \subseteq call[c].on
  BY <1>2 DEF Inv, CallInv
<1>5. CASE call[c].op = "remove" /\ keys' = [keys EXCEPT ![c] = @ \cup found \cup {<<at[c], Data>>}]
           /\ Onward(c, "exec") /\ UNCHANGED ids
  <2>0. Continues(c, "exec")
    BY <1>2, <1>5, OnwardType
  <2>1. found \cup {<<at[c], Data>>} \subseteq (call[c].on \X Slot) \cap Key
    BY <1>3, <1>4, <1>5 DEF Matches, Subjects, Slot, Key
  <2>2. keys' \in [Client -> SUBSET Key]
    BY <1>5, <2>1 DEF Inv, TypeOK
  <2>4. TypeOK'
    BY <1>2, <1>4, <1>5, <2>2, <2>0, ContinuesType DEF Inv, TypeOK, redis, history
  <2>3. CallInv'
    BY <1>2, <1>4, <1>5, <2>1, <2>0 DEF Continues, Inv, TypeOK, CallInv, Subjects, Matches
  <2> QED BY <2>3, <2>4 DEF Inv
<1>6. CASE call[c].op = "search" /\ keys' = [keys EXCEPT ![c] = found] /\ pc' = [pc EXCEPT ![c] = "mget"]
           /\ UNCHANGED <<todo, at, sure, maybe, ids>>
  <2>1. TypeOK'
    BY <1>2, <1>3, <1>6 DEF Inv, TypeOK, redis, history
  <2>2. CallInv'
    BY <1>2, <1>4, <1>6 DEF Inv, TypeOK, CallInv, Subjects, Matches
  <2> QED BY <2>1, <2>2 DEF Inv
<1>7. CASE call[c].op = "search" /\ Onward(c, "fetch") /\ UNCHANGED <<keys, ids>>
  <2>0. Continues(c, "fetch")
    BY <1>2, <1>7, OnwardType
  <2>1. TypeOK'
    BY <1>2, <1>4, <1>7, <2>0, ContinuesType DEF Inv, TypeOK, redis, history
  <2>2. CallInv'
    BY <1>2, <1>4, <1>7, <2>0 DEF Continues, Inv, TypeOK, CallInv, Subjects, Matches
  <2> QED BY <2>1, <2>2 DEF Inv
<1>8. CASE call[c].op = "list" /\ ids' = [ids EXCEPT ![c] = {k[1] : k \in found}]
           /\ Onward(c, "return") /\ UNCHANGED keys
  <2>0. Continues(c, "return")
    BY <1>2, <1>8, OnwardType
  <2>1. {k[1] : k \in found} \subseteq Id
    BY <1>3 DEF Key
  <2>2. TypeOK'
    BY <1>2, <1>4, <1>8, <2>1, <2>0, ContinuesType DEF Inv, TypeOK, redis, history
  <2>4. todo[c] = {} /\ pc'[c] = "return"
    BY <1>8 DEF Onward, Inv, CallInv, TypeOK
  <2>3. CallInv'
    BY <1>2, <1>4, <1>8, <2>0, <2>4 DEF Continues, Inv, TypeOK, CallInv, Subjects, Matches
  <2> QED BY <2>2, <2>3 DEF Inv
<1> QED BY <1>1, <1>5, <1>6, <1>7, <1>8 DEF AfterScan, IdOf, found

LEMMA InvExec ==
  ASSUME Inv, NEW c \in Client, Exec(c)
  PROVE  Inv'
<1>1. present' \subseteq Key /\ mortal' \subseteq present' /\ bytes' \in [Id -> Value \cup {Empty}]
  BY DeleteType DEF Exec, Inv
<1>2. /\ sure' \in [Client -> SUBSET Key] /\ maybe' \in [Client -> SUBSET Key]
      /\ steady' \in [Client -> SUBSET Key]
      /\ \A d \in {e \in Client : e # c} : pc[d] = "scan" =>
           sure'[d] \subseteq maybe'[d] /\ maybe'[d] \subseteq Matches(call[d].op, at[d])
  BY <1>1, WitnessType DEF Exec
<1>3. TypeOK'
  BY <1>1, <1>2 DEF Exec, Inv, TypeOK, locals
<1>4. CallInv'
  BY <1>2 DEF Exec, Inv, TypeOK, CallInv, locals, Subjects, Matches
<1> QED BY <1>3, <1>4 DEF Inv

LEMMA InvLeave ==
  ASSUME Inv, NEW c \in Client, Leave(c), faults' \in Nat
  PROVE  Inv'
<1>1. TypeOK'
  BY DEF Leave, End, Ended, Inv, TypeOK, NoCall, Slot, redis
<1>2. CallInv'
  BY DEF Leave, End, Ended, Inv, TypeOK, CallInv, NoCall, Subjects, Matches
<1> QED BY <1>1, <1>2 DEF Inv

LEMMA InvMgetIds ==
  ASSUME Inv, NEW c \in Client, MgetIds(c)
  PROVE  Inv'
<1>1. CASE Leave(c) /\ UNCHANGED faults
  BY <1>1, InvLeave DEF Inv, TypeOK
<1>2. CASE pc[c] = "mget" /\ ids' = [ids EXCEPT ![c] = @ \cup {k[1] : k \in keys[c]}] /\ Onward(c, "fetch")
           /\ UNCHANGED <<redis, call, keys, history, calls, faults>>
  <2>1. {k[1] : k \in keys[c]} \subseteq Id
    BY DEF Inv, TypeOK, Key
  <2>2. call[c].op = "search" /\ call[c].on \subseteq Subjects(call[c].op) /\ todo[c] \subseteq call[c].on
    BY <1>2 DEF Inv, CallInv
  <2>0. Continues(c, "fetch")
    BY <1>2, OnwardType
  <2>3. ids' \in [Client -> SUBSET Id]
    BY <1>2, <2>1 DEF Inv, TypeOK
  <2>4. TypeOK'
    BY <1>2, <2>2, <2>3, <2>0, ContinuesType DEF Inv, TypeOK, redis, history
  <2>5. CallInv'
    BY <1>2, <2>2, <2>0 DEF Continues, Inv, TypeOK, CallInv, Subjects, Matches
  <2> QED BY <2>4, <2>5 DEF Inv
<1> QED BY <1>1, <1>2 DEF MgetIds

LEMMA InvFetch ==
  ASSUME Inv, NEW c \in Client, Fetch(c)
  PROVE  Inv'
<1>1. TypeOK'
  BY DEF Fetch, Inv, TypeOK, redis, history
<1>2. CallInv'
  BY DEF Fetch, Inv, TypeOK, CallInv, Subjects, Matches
<1> QED BY <1>1, <1>2 DEF Inv

\* What a broken connection leaves of the keys and the promises.
LEMMA BreakRedis ==
  ASSUME Inv, NEW c \in Client, Break(c)
  PROVE  /\ present' \subseteq Key /\ mortal' \subseteq present' /\ bytes' \in [Id -> Value \cup {Empty}]
         /\ promised' \in [Id -> SUBSET Index]
         /\ calls' \in Nat
<1>1. ASSUME NEW part \in SUBSET keys[c], Delete(part), UNCHANGED calls,
             promised' = [id \in Id |-> IF \E k \in part : k[1] = id THEN {} ELSE promised[id]]
      PROVE  /\ present' \subseteq Key /\ mortal' \subseteq present' /\ bytes' \in [Id -> Value \cup {Empty}]
             /\ promised' \in [Id -> SUBSET Index]
             /\ calls' \in Nat
  BY <1>1, DeleteType DEF Inv, TypeOK
<1>2. ASSUME NEW batch \in Batch(Id), NEW indexes \in SUBSET Index, NEW expire \in BOOLEAN,
             NEW values \in [batch -> Value \cup {Empty}],
             NEW set \in SUBSET (batch \X (indexes \cup {Data})),
             NEW expired \in ExpiredIn(set, expire),
             Store(set, expired, values), promised' = PromisedAfter(set, indexes, expire),
             calls' = calls + 1
      PROVE  /\ present' \subseteq Key /\ mortal' \subseteq present' /\ bytes' \in [Id -> Value \cup {Empty}]
             /\ promised' \in [Id -> SUBSET Index]
             /\ calls' \in Nat
  <2>1. set \subseteq Key /\ \A id \in Id : <<id, Data>> \in set => values[id] \in Value \cup {Empty}
    BY DEF Batch, Key, Slot
  <2>2. expired \subseteq set
    BY DEF ExpiredIn
  <2>3. present' \subseteq Key /\ mortal' \subseteq present' /\ bytes' \in [Id -> Value \cup {Empty}]
    BY <1>2, <2>1, <2>2, StoreType DEF Inv
  <2>4. promised' \in [Id -> SUBSET Index]
    BY <1>2, PromisedType DEF Inv
  <2> QED BY <1>2, <2>3, <2>4 DEF Inv, TypeOK
<1> QED BY <1>1, <1>2 DEF Break

LEMMA InvBreak ==
  ASSUME Inv, NEW c \in Client, Break(c)
  PROVE  Inv'
<1>1. TypeOK'
  <2>1. faults' \in Nat
    BY DEF Break, Inv, TypeOK
  <2>2. /\ pc' \in [Client -> {"idle"}] /\ call' \in [Client -> {NoCall}] /\ at' \in [Client -> {Data}]
        /\ todo' \in [Client -> {{}}] /\ keys' \in [Client -> {{}}] /\ ids' \in [Client -> {{}}]
        /\ sure' \in [Client -> {{}}] /\ maybe' \in [Client -> {{}}]
        /\ written' \in [Client -> {{}}] /\ steady' \in [Client -> {{}}]
    BY DEF Break, End, Ended
  <2> QED BY <2>1, <2>2, BreakRedis DEF TypeOK, NoCall, Slot
<1>2. CallInv'
  BY DEF Break, End, Ended, CallInv, NoCall
<1> QED BY <1>1, <1>2 DEF Inv

LEMMA InvExpire ==
  ASSUME Inv, NEW k \in mortal, Expire(k)
  PROVE  Inv'
<1>1. present' \subseteq Key /\ mortal' \subseteq present' /\ bytes' \in [Id -> Value \cup {Empty}]
  BY DeleteType DEF Expire, Inv
<1>2. /\ sure' \in [Client -> SUBSET Key] /\ maybe' \in [Client -> SUBSET Key]
      /\ steady' \in [Client -> SUBSET Key]
      /\ \A d \in Client : pc[d] = "scan" =>
           sure'[d] \subseteq maybe'[d] /\ maybe'[d] \subseteq Matches(call[d].op, at[d])
  BY <1>1, WitnessType DEF Expire
<1>3. TypeOK'
  BY <1>1, <1>2 DEF Expire, Inv, TypeOK, locals
<1>4. CallInv'
  BY <1>2 DEF Expire, Inv, TypeOK, CallInv, locals, Subjects, Matches
<1> QED BY <1>3, <1>4 DEF Inv

LEMMA InvStep == Inv /\ [Next]_vars => Inv'
<1> SUFFICES ASSUME Inv, [Next]_vars PROVE Inv'
  OBVIOUS
<1>1. ASSUME NEW c \in Client, Return(c) \/ Drop(c) PROVE Inv'
  <2>1. Leave(c) /\ faults' \in Nat
    BY <1>1 DEF Return, Drop, Inv, TypeOK
  <2> QED BY <2>1, InvLeave
<1>2. ASSUME NEW c \in Client, ClientStep(c) PROVE Inv'
  BY <1>1, <1>2, InvInsert, InvBegins, InvFinishScan, InvExec, InvMgetIds, InvFetch, InvBreak DEF ClientStep
<1>3. CASE UNCHANGED vars
  <2>1. TypeOK'
    BY <1>3 DEF vars, redis, locals, history, Inv, TypeOK
  <2>2. CallInv'
    BY <1>3 DEF vars, redis, locals, history, Inv, CallInv, Subjects, Matches
  <2> QED BY <2>1, <2>2 DEF Inv
<1> QED BY <1>2, <1>3, InvExpire DEF Next

LEMMA InvAlways == Spec => []Inv
BY InvInit, InvStep, PTL DEF Spec

\* Every variable of the table keeps its type, whatever calls overlap and
\* wherever the connection breaks.
THEOREM TypeCorrect == Spec => []TypeOK
<1>1. Inv => TypeOK
  BY DEF Inv
<1> QED BY <1>1, InvAlways, PTL

-----------------------------------------------------------------------------
(* Stored records stay indexed.                                            *)

\* A promised key has no lifetime either: otherwise Expire would break it.
PromiseInv ==
  \A id \in Id : \A x \in promised[id] : {<<id, x>>, <<id, Data>>} \subseteq present \ mortal

\* Whatever a pipeline of SETs got done, the promises that stand afterwards are
\* kept: a promise is made with the data key, which comes after its indexes.
LEMMA StoreKeepsPromises ==
  ASSUME Inv, PromiseInv, NEW batch \in SUBSET Id, NEW indexes \in SUBSET Index, NEW expire \in BOOLEAN,
         NEW set \in SUBSET (batch \X (indexes \cup {Data})), NEW expired \in SUBSET set,
         ~expire => expired = {},
         \A id \in batch : <<id, Data>> \in set => {id} \X indexes \subseteq set,
         NEW values, Store(set, expired, values), promised' = PromisedAfter(set, indexes, expire)
  PROVE  PromiseInv'
<1> SUFFICES ASSUME NEW id \in Id, NEW x \in promised'[id]
             PROVE  {<<id, x>>, <<id, Data>>} \subseteq present' \ mortal'
  BY DEF PromiseInv
<1>1. present' = present \cup set /\ mortal' = (mortal \ set) \cup expired
  BY DEF Store
<1>2. CASE expire
  <2>1. x \in promised[id] /\ set \cap {<<id, x>>, <<id, Data>>} = {}
    BY <1>2 DEF PromisedAfter
  <2> QED BY <1>1, <2>1 DEF PromiseInv
<1>3. CASE ~expire /\ x \in promised[id]
  BY <1>1, <1>3 DEF PromiseInv
<1>4. CASE ~expire /\ x \notin promised[id]
  <2>1. <<id, Data>> \in set /\ x \in indexes
    BY <1>4 DEF PromisedAfter
  <2>2. id \in batch /\ <<id, x>> \in {id} \X indexes
    BY <2>1
  <2>3. <<id, x>> \in set
    BY <2>1, <2>2
  <2> QED BY <1>1, <1>4, <2>1, <2>3
<1> QED BY <1>2, <1>3, <1>4

\* A data key is the last of its block.
LEMMA DataIsLast ==
  ASSUME NEW batch \in SUBSET Id, NEW indexes \in SUBSET Index, NEW set,
         IsPrefix(set, batch \X (indexes \cup {Data})), NEW id \in batch, <<id, Data>> \in set
  PROVE  {id} \X indexes \subseteq set
<1> DEFINE whole == batch \X (indexes \cup {Data})
           block == {k \in whole : k[1] = id}
           cut == {k \in set : k[1] = id}
<1>1. cut \in DataLast(block)
  BY DEF IsPrefix
<1>2. <<id, Data>> \in cut
  OBVIOUS
<1>3. \E k \in cut : k[2] = Data
  BY <1>2
<1>4. cut = block
  BY <1>1, <1>3 DEF DataLast
<1>5. {id} \X indexes \subseteq block
  OBVIOUS
<1> QED BY <1>4, <1>5

\* A pipeline of DELs keeps the promises of the ids it does not touch.
LEMMA DeleteKeepsPromises ==
  ASSUME Inv, PromiseInv, NEW gone, Delete(gone),
         \A id \in Id : promised'[id] = promised[id] \/ promised'[id] = {},
         \A id \in Id : (\E k \in gone : k[1] = id) => promised'[id] = {}
  PROVE  PromiseInv'
<1> SUFFICES ASSUME NEW id \in Id, NEW x \in promised'[id]
             PROVE  {<<id, x>>, <<id, Data>>} \subseteq present' \ mortal'
  BY DEF PromiseInv
<1>1. x \in promised[id] /\ <<id, x>> \notin gone /\ <<id, Data>> \notin gone
  <2>1. <<id, x>>[1] = id /\ <<id, Data>>[1] = id
    OBVIOUS
  <2> QED BY <2>1
<1> QED BY <1>1 DEF Delete, PromiseInv

LEMMA PromiseStep == Inv /\ PromiseInv /\ [Next]_vars => PromiseInv'
<1> SUFFICES ASSUME Inv, PromiseInv, [Next]_vars PROVE PromiseInv'
  OBVIOUS
<1>1. ASSUME NEW c \in Client, Insert(c) PROVE PromiseInv'
  <2>1. PICK batch \in Batch(Id), indexes \in SUBSET Index, expire \in BOOLEAN :
          \E values \in [batch -> Value \cup {Empty}] :
            InsertAll(c, batch, values, indexes, expire, batch \X (indexes \cup {Data}),
                      IF expire THEN batch \X (indexes \cup {Data}) ELSE {})
    BY <1>1 DEF Insert
  <2> DEFINE all == batch \X (indexes \cup {Data})
             expired == IF expire THEN all ELSE {}
  <2>2. PICK values \in [batch -> Value \cup {Empty}] :
          InsertAll(c, batch, values, indexes, expire, all, expired)
    BY <2>1
  <2>3. Store(all, expired, values) /\ promised' = PromisedAfter(all, indexes, expire)
    BY <2>2 DEF InsertAll
  <2>4. \A id \in batch : {id} \X indexes \subseteq all
    OBVIOUS
  <2>5. batch \subseteq Id /\ expired \subseteq all /\ (~expire => expired = {})
    BY DEF Batch
  <2> HIDE DEF all, expired
  <2>6. all \subseteq batch \X (indexes \cup {Data})
    BY DEF all
  <2> QED BY <2>3, <2>4, <2>5, <2>6, StoreKeepsPromises
<1>2. ASSUME NEW c \in Client, Exec(c) PROVE PromiseInv'
  <2>1. \A k \in keys[c] : k[1] \in call[c].on
    BY <1>2 DEF Exec, Inv, CallInv
  <2> QED BY <1>2, <2>1, DeleteKeepsPromises DEF Exec
<1>3. ASSUME NEW c \in Client, Break(c) PROVE PromiseInv'
  <2>1. ASSUME NEW part \in SUBSET keys[c], Delete(part),
               promised' = [id \in Id |-> IF \E k \in part : k[1] = id THEN {} ELSE promised[id]]
        PROVE  PromiseInv'
    BY <2>1, DeleteKeepsPromises
  <2>2. ASSUME NEW batch \in Batch(Id), NEW indexes \in SUBSET Index, NEW expire \in BOOLEAN,
               NEW values \in [batch -> Value \cup {Empty}],
               NEW set \in SUBSET (batch \X (indexes \cup {Data})),
               IsPrefix(set, batch \X (indexes \cup {Data})),
               NEW expired \in ExpiredIn(set, expire),
               Store(set, expired, values), promised' = PromisedAfter(set, indexes, expire)
        PROVE  PromiseInv'
    <3>1. batch \subseteq Id /\ expired \subseteq set /\ (~expire => expired = {})
      BY DEF Batch, ExpiredIn
    <3>2. \A id \in batch : <<id, Data>> \in set => {id} \X indexes \subseteq set
      BY <2>2, <3>1, DataIsLast
    <3> QED BY <2>2, <3>1, <3>2, StoreKeepsPromises
  <2> QED BY <1>3, <2>1, <2>2 DEF Break
<1>4. ASSUME NEW k \in mortal, Expire(k) PROVE PromiseInv'
  <2>1. present' = present \ {k} /\ mortal' = mortal \ {k} /\ promised' = promised
    BY <1>4 DEF Expire, Delete
  <2> QED BY <1>4, <2>1 DEF PromiseInv
<1>5. CASE UNCHANGED <<present, mortal, promised>>
  BY <1>5 DEF PromiseInv
<1>6. ASSUME NEW c \in Client,
             Remove(c) \/ GetBySearchIndex(c) \/ GetAllIds(c) \/ FinishScan(c) \/ MgetIds(c) \/ Fetch(c)
               \/ Return(c) \/ Drop(c)
      PROVE  PromiseInv'
  <2>1. UNCHANGED <<present, mortal, promised>>
    BY <1>6 DEF Remove, GetBySearchIndex, GetAllIds, Begin, FinishScan, MgetIds, Fetch, Return, Drop,
                Leave, redis, history
  <2> QED BY <1>5, <2>1
<1> QED BY <1>1, <1>2, <1>3, <1>4, <1>5, <1>6 DEF Next, ClientStep, vars, redis, history

\* A record is found under every index it was stored with until it is removed
\* or stored again, whatever goes on beside it and wherever pipelines break.
THEOREM RecordsAreIndexed == Spec => []StoredRecordIsIndexed
<1>1. Init => PromiseInv
  BY DEF Init, PromiseInv
<1>2. PromiseInv => StoredRecordIsIndexed
  BY DEF PromiseInv, StoredRecordIsIndexed
<1> QED BY <1>1, <1>2, PromiseStep, InvAlways, PTL DEF Spec

-----------------------------------------------------------------------------
(* Removals leave no trace.                                                *)

\* A key of a record under removal that nobody stored meanwhile is still to be
\* scanned, is among those its scan must return, or is bound for deletion.
Removing(c) ==
  call[c].op = "remove" /\ pc[c] \in {"scan", "exec", "return"} =>
    \A k \in present : k[1] \in call[c].on /\ k[1] \notin written[c] =>
      \/ pc[c] = "scan" /\ (k[1] \in todo[c] \/ k \in keys[c]
                              \/ (k[1] = at[c] /\ (k[2] = Data \/ k \in sure[c])))
      \/ pc[c] = "exec" /\ k \in keys[c]

\* An answer in the making: each key that led to a record all along is still to
\* be scanned, or among those to be returned or read, or its id is collected.
Answering(c) ==
  call[c].op # "remove" /\ pc[c] # "idle" =>
    \A k \in steady[c] :
      /\ k \in Leading /\ k[2] \in call[c].on
      /\ \/ k[1] \in ids[c]
         \/ pc[c] = "scan" /\ (k[2] \in todo[c] \/ (k[2] = at[c] /\ k \in sure[c]))
         \/ pc[c] = "mget" /\ (k[2] \in todo[c] \/ k \in keys[c])

ScanInv == \A c \in Client : Removing(c) /\ Answering(c)

\* A call in which nothing happens but a change of the keys by somebody else.
LEMMA OtherCall ==
  ASSUME Inv, ScanInv, NEW others \in SUBSET Client, NEW d \in others, Witness(others),
         call'[d] = call[d], pc'[d] = pc[d], todo'[d] = todo[d], at'[d] = at[d], keys'[d] = keys[d],
         ids'[d] = ids[d], written[d] \subseteq written'[d],
         pc[d] # "idle" => \A k \in present' : k \in present \/ k[1] \in written'[d]
  PROVE  Removing(d)' /\ Answering(d)'
<1>1. sure'[d] = sure[d] \cap present' /\ steady'[d] = steady[d] \cap Leading'
  BY DEF Witness
<1>2. Removing(d)'
  <2> SUFFICES ASSUME call'[d].op = "remove", pc'[d] \in {"scan", "exec", "return"},
                      NEW k \in present', k[1] \in call'[d].on, k[1] \notin written'[d]
               PROVE  \/ pc'[d] = "scan" /\ (k[1] \in todo'[d] \/ k \in keys'[d]
                                              \/ (k[1] = at'[d] /\ (k[2] = Data \/ k \in sure'[d])))
                      \/ pc'[d] = "exec" /\ k \in keys'[d]
    BY DEF Removing
  <2>1. k \in present /\ k[1] \notin written[d]
    OBVIOUS
  <2>2. Removing(d)
    BY DEF ScanInv
  <2> QED BY <1>1, <2>1, <2>2 DEF Removing
<1>3. Answering(d)'
  <2>1. Answering(d)
    BY DEF ScanInv
  <2>2. Leading' \subseteq present'
    BY DEF Leading
  <2> QED BY <1>1, <2>1, <2>2 DEF Answering
<1> QED BY <1>2, <1>3

\* Nothing that ScanInv speaks of changes for a call.
LEMMA SameCall ==
  ASSUME ScanInv, NEW d \in Client, UNCHANGED <<present, bytes>>, call'[d] = call[d], pc'[d] = pc[d],
         todo'[d] = todo[d], at'[d] = at[d], keys'[d] = keys[d], ids'[d] = ids[d],
         sure'[d] = sure[d], written'[d] = written[d], steady'[d] = steady[d]
  PROVE  Removing(d)' /\ Answering(d)'
<1>1. Leading' = Leading
  BY DEF Leading, Readable
<1>2. Removing(d) /\ Answering(d)
  BY DEF ScanInv
<1>3. Removing(d)'
  BY <1>2 DEF Removing
<1>4. Answering(d)'
  BY <1>1, <1>2 DEF Answering
<1> QED BY <1>3, <1>4

\* A call that has ended.
LEMMA EndedCall ==
  ASSUME NEW d \in Client, pc'[d] = "idle"
  PROVE  Removing(d)' /\ Answering(d)'
BY DEF Removing, Answering

LEMMA ScanInsert ==
  ASSUME Inv, ScanInv, NEW c \in Client, Insert(c)
  PROVE  ScanInv'
<1> SUFFICES ASSUME NEW d \in Client PROVE Removing(d)' /\ Answering(d)'
  BY DEF ScanInv
<1>1. PICK batch \in Batch(Id), indexes \in SUBSET Index, expire \in BOOLEAN :
        \E values \in [batch -> Value \cup {Empty}] :
          InsertAll(c, batch, values, indexes, expire, batch \X (indexes \cup {Data}),
                    IF expire THEN batch \X (indexes \cup {Data}) ELSE {})
  BY DEF Insert
<1> DEFINE all == batch \X (indexes \cup {Data})
<1>2. /\ present' = present \cup all
      /\ written' = WrittenAfter(c, {k[1] : k \in all})
  BY <1>1 DEF InsertAll, Store
<1>3. UNCHANGED <<pc, locals>> /\ Witness({e \in Client : e # c}) /\ pc[c] = "idle"
  BY DEF Insert, CanBegin
<1>4. CASE d = c
  BY <1>3, <1>4, EndedCall
<1>5. CASE d # c
  <2>1. written[d] \subseteq written'[d] /\ (pc[d] # "idle" => written'[d] = written[d] \cup {k[1] : k \in all})
    BY <1>2, <1>5 DEF WrittenAfter, Inv, TypeOK
  <2>2. pc[d] # "idle" => \A k \in present' : k \in present \/ k[1] \in written'[d]
    BY <1>2, <2>1
  <2> QED BY <1>3, <1>5, <2>1, <2>2, OtherCall DEF locals
<1> QED BY <1>4, <1>5

LEMMA ScanBegin ==
  ASSUME Inv, ScanInv, NEW c \in Client, NEW op \in {"remove", "search", "list"},
         NEW subjects \in SUBSET Subjects(op), Begin(c, op, subjects)
  PROVE  ScanInv'
<1> SUFFICES ASSUME NEW d \in Client PROVE Removing(d)' /\ Answering(d)'
  BY DEF ScanInv
<1>1. PICK s \in subjects : /\ todo' = [todo EXCEPT ![c] = subjects \ {s}]
                            /\ BeginScan(c, op, s)
  BY DEF Begin
<1>2. CASE d # c
  BY <1>1, <1>2, SameCall DEF Begin, BeginScan, redis, Inv, TypeOK
<1>3. CASE d = c
  <2>1. /\ call'[c] = [op |-> op, on |-> subjects] /\ pc'[c] = "scan" /\ todo'[c] = subjects \ {s}
        /\ at'[c] = s /\ sure'[c] = Matches(op, s) \cap present
        /\ steady'[c] = Leading \cap UNION {Matches(op, t) : t \in subjects}
        /\ present' = present /\ bytes' = bytes
    BY <1>1 DEF Begin, BeginScan, redis, Inv, TypeOK
  <2>2. Leading' = Leading /\ Leading \subseteq present /\ present \subseteq Key
    BY <2>1 DEF Leading, Readable, Inv, TypeOK
  <2>3. Removing(c)'
    BY <2>1, <2>2 DEF Removing, Matches, Key, Slot
  <2>4. Answering(c)'
    BY <2>1, <2>2 DEF Answering, Matches, Key
  <2> QED BY <1>3, <2>3, <2>4
<1> QED BY <1>2, <1>3

\* On to the next subject, or past the last one: what is collected stays.
LEMMA ScanFinish ==
  ASSUME Inv, ScanInv, NEW c \in Client, FinishScan(c)
  PROVE  ScanInv'
<1> SUFFICES ASSUME NEW d \in Client PROVE Removing(d)' /\ Answering(d)'
  BY DEF ScanInv
<1>1. PICK extra \in SUBSET (maybe[c] \ sure[c]) : AfterScan(c, sure[c] \cup extra)
  BY DEF FinishScan
<1> DEFINE found == sure[c] \cup extra
<1>2. pc[c] = "scan" /\ UNCHANGED <<redis, call, history, calls, faults>>
  BY DEF FinishScan
<1>3. sure[c] \subseteq found /\ found \subseteq Matches(call[c].op, at[c])
  BY <1>2 DEF Inv, CallInv
<1> HIDE DEF found
<1>4. AfterScan(c, found)
  BY <1>1 DEF found
<1>5. Leading' = Leading /\ Leading \subseteq present /\ present \subseteq Key /\ present' = present
  BY <1>2 DEF Leading, Readable, Inv, TypeOK, redis
<1>6. at[c] \in call[c].on /\ todo[c] \subseteq call[c].on /\ Removing(c) /\ Answering(c)
  BY <1>2 DEF Inv, CallInv, ScanInv
<1>7. CASE d # c
  BY <1>2, <1>4, <1>7, SameCall
     DEF AfterScan, Onward, BeginScan, redis, history, Inv, TypeOK
<1>8. CASE d = c /\ call[c].op = "remove"
  <2>1. /\ keys'[c] = keys[c] \cup found \cup {<<at[c], Data>>}
        /\ Onward(c, "exec") /\ call'[c].op = "remove" /\ call'[c].on = call[c].on /\ written'[c] = written[c]
    BY <1>2, <1>4, <1>8 DEF AfterScan, history, Inv, TypeOK
  <2>2. \A k \in present : k[1] \in call[c].on /\ k[1] \notin written[c] =>
          k[1] \in todo[c] \/ k \in keys'[c]
    <3> SUFFICES ASSUME NEW k \in present, k[1] \in call[c].on, k[1] \notin written[c]
                 PROVE  k[1] \in todo[c] \/ k \in keys'[c]
      OBVIOUS
    <3>1. k[1] \in todo[c] \/ k \in keys[c] \/ (k[1] = at[c] /\ (k[2] = Data \/ k \in sure[c]))
      BY <1>2, <1>6, <1>8 DEF Removing
    <3>2. k = <<k[1], k[2]>>
      BY <1>5 DEF Key
    <3> QED BY <1>3, <2>1, <3>1, <3>2
  <2>3. CASE todo[c] = {} /\ pc'[c] = "exec"
    BY <1>5, <1>8, <2>1, <2>2, <2>3 DEF Removing, Answering
  <2>4. ASSUME NEW s \in todo[c], todo' = [todo EXCEPT ![c] = @ \ {s}], BeginScan(c, call[c].op, s)
        PROVE  Removing(c)' /\ Answering(c)'
    <3>1. pc'[c] = "scan" /\ todo'[c] = todo[c] \ {s} /\ at'[c] = s
          /\ sure'[c] = {<<s, x>> : x \in Index} \cap present
      BY <1>8, <2>4 DEF BeginScan, Inv, TypeOK, Matches
    <3>2. \A k \in present : k[1] = s => k[2] = Data \/ k \in sure'[c]
      BY <1>5, <3>1 DEF Key, Slot
    <3> QED BY <1>5, <2>1, <2>2, <3>1, <3>2 DEF Removing, Answering
  <2>5. (todo[c] = {} /\ pc'[c] = "exec") \/ \E s \in todo[c] : todo' = [todo EXCEPT ![c] = @ \ {s}] /\ BeginScan(c, call[c].op, s)
    BY <2>1 DEF Onward, Inv, TypeOK
  <2> QED BY <1>8, <2>3, <2>4, <2>5
<1>9. CASE d = c /\ call[c].op = "search" /\ pc'[c] = "mget"
  <2>1. keys'[c] = found /\ UNCHANGED <<todo, ids>> /\ steady' = steady /\ call' = call
    BY <1>2, <1>4, <1>9 DEF AfterScan, Onward, BeginScan, history, Inv, TypeOK
  <2> QED BY <1>2, <1>3, <1>5, <1>6, <1>9, <2>1 DEF Removing, Answering
<1>10. CASE d = c /\ call[c].op # "remove" /\ ~(call[c].op = "search" /\ pc'[c] = "mget")
  <2>1. steady'[c] = steady[c] /\ call'[c] = call[c] /\ (Onward(c, "fetch") \/ Onward(c, "return"))
    BY <1>2, <1>4, <1>10 DEF AfterScan, history, Inv, TypeOK
  <2>2. \A k \in steady[c] : k[1] \in ids'[c] \/ k[2] \in todo[c]
    <3> SUFFICES ASSUME NEW k \in steady[c] PROVE k[1] \in ids'[c] \/ k[2] \in todo[c]
      OBVIOUS
    <3>1. k[1] \in ids[c] \/ k[2] \in todo[c] \/ (k[2] = at[c] /\ k \in found)
      BY <1>2, <1>3, <1>6, <1>10 DEF Answering
    <3>2. CASE call[c].op = "search" /\ found = {} /\ UNCHANGED ids
      BY <3>1, <3>2
    <3>3. CASE call[c].op = "list" /\ ids' = [ids EXCEPT ![c] = {IdOf(l) : l \in found}]
      <4>1. ids[c] = {} /\ ids'[c] = {IdOf(l) : l \in found}
        BY <1>2, <3>3 DEF Inv, CallInv, TypeOK
      <4> QED BY <3>1, <4>1 DEF IdOf
    <3> QED BY <1>4, <1>10, <3>2, <3>3 DEF AfterScan, Inv, TypeOK
  <2>3. \A k \in steady[c] : k \in Leading /\ k[2] \in call[c].on
    BY <1>2, <1>6, <1>10 DEF Answering
  <2>4. CASE todo[c] = {}
    BY <1>5, <1>10, <2>1, <2>2, <2>3, <2>4 DEF Removing, Answering
  <2>5. ASSUME NEW s \in todo[c], todo' = [todo EXCEPT ![c] = @ \ {s}], BeginScan(c, call[c].op, s)
        PROVE  Removing(c)' /\ Answering(c)'
    <3>1. pc'[c] = "scan" /\ todo'[c] = todo[c] \ {s} /\ at'[c] = s
          /\ sure'[c] = {<<id, s>> : id \in Id} \cap present
      BY <1>10, <2>5 DEF BeginScan, Inv, TypeOK, Matches
    <3>2. \A k \in Leading : k[2] = s => k \in sure'[c]
      BY <1>5, <3>1 DEF Key
    <3> QED BY <1>5, <1>10, <2>1, <2>2, <2>3, <3>1, <3>2 DEF Removing, Answering
  <2> QED BY <1>10, <2>1, <2>4, <2>5 DEF Onward
<1> QED BY <1>7, <1>8, <1>9, <1>10

\* The pipeline of a removal deletes what its scans have collected.
LEMMA ScanExec ==
  ASSUME Inv, ScanInv, NEW c \in Client, Exec(c)
  PROVE  ScanInv'
<1> SUFFICES ASSUME NEW d \in Client PROVE Removing(d)' /\ Answering(d)'
  BY DEF ScanInv
<1>1. present' = present \ keys[c] /\ UNCHANGED <<locals, written>> /\ pc' = [pc EXCEPT ![c] = "return"]
      /\ Witness({e \in Client : e # c}) /\ pc[c] = "exec"
  BY DEF Exec, Delete
<1>2. CASE d # c
  BY <1>1, <1>2, OtherCall DEF locals, Inv, TypeOK
<1>3. CASE d = c
  <2>1. call[c].op = "remove" /\ Removing(c)
    BY <1>1 DEF Inv, CallInv, ScanInv
  <2>2. \A k \in present' : k[1] \in call[c].on => k[1] \in written[c]
    BY <1>1, <2>1 DEF Removing
  <2> QED BY <1>1, <1>3, <2>1, <2>2 DEF Removing, Answering, locals, Inv, TypeOK
<1> QED BY <1>2, <1>3

LEMMA ScanLeave ==
  ASSUME Inv, ScanInv, NEW c \in Client, Leave(c)
  PROVE  ScanInv'
<1> SUFFICES ASSUME NEW d \in Client PROVE Removing(d)' /\ Answering(d)'
  BY DEF ScanInv
<1>1. CASE d = c
  BY <1>1, EndedCall DEF Leave, End
<1>2. CASE d # c
  BY <1>2, SameCall DEF Leave, End, Ended, redis, Inv, TypeOK
<1> QED BY <1>1, <1>2

LEMMA ScanMget ==
  ASSUME Inv, ScanInv, NEW c \in Client, MgetIds(c)
  PROVE  ScanInv'
<1>1. CASE Leave(c)
  BY <1>1, ScanLeave
<1>2. CASE /\ pc[c] = "mget" /\ ids' = [ids EXCEPT ![c] = @ \cup {k[1] : k \in keys[c]}]
           /\ Onward(c, "fetch") /\ UNCHANGED <<redis, call, keys, history, calls, faults>>
  <2> SUFFICES ASSUME NEW d \in Client PROVE Removing(d)' /\ Answering(d)'
    BY DEF ScanInv
  <2>1. CASE d # c
    BY <1>2, <2>1, SameCall DEF Onward, BeginScan, redis, history, Inv, TypeOK
  <2>2. CASE d = c
    <3>1. /\ call'[c] = call[c] /\ steady'[c] = steady[c] /\ call[c].op = "search"
          /\ ids'[c] = ids[c] \cup {k[1] : k \in keys[c]}
          /\ Leading' = Leading /\ Leading \subseteq present /\ present' = present /\ present \subseteq Key
      BY <1>2 DEF redis, history, Inv, CallInv, TypeOK, Leading, Readable
    <3>2. \A k \in steady[c] : k \in Leading /\ k[2] \in call[c].on /\ (k[1] \in ids'[c] \/ k[2] \in todo[c])
      BY <1>2, <3>1 DEF ScanInv, Answering
    <3>3. CASE todo[c] = {}
      BY <2>2, <3>1, <3>2, <3>3 DEF Removing, Answering
    <3>4. ASSUME NEW s \in todo[c], todo' = [todo EXCEPT ![c] = @ \ {s}], BeginScan(c, call[c].op, s)
          PROVE  Removing(c)' /\ Answering(c)'
      <4>1. pc'[c] = "scan" /\ todo'[c] = todo[c] \ {s} /\ at'[c] = s
            /\ sure'[c] = {<<id, s>> : id \in Id} \cap present
        BY <3>1, <3>4 DEF BeginScan, Inv, TypeOK, Matches
      <4>2. \A k \in Leading : k[2] = s => k \in sure'[c]
        BY <3>1, <4>1 DEF Key
      <4> QED BY <3>1, <3>2, <4>1, <4>2 DEF Removing, Answering
    <3> QED BY <1>2, <2>2, <3>3, <3>4 DEF Onward
  <2> QED BY <2>1, <2>2
<1> QED BY <1>1, <1>2 DEF MgetIds

\* The records of the collected ids are read last: those that led to a record
\* all along still read as one.
LEMMA ScanFetch ==
  ASSUME Inv, ScanInv, NEW c \in Client, Fetch(c)
  PROVE  ScanInv'
<1> SUFFICES ASSUME NEW d \in Client PROVE Removing(d)' /\ Answering(d)'
  BY DEF ScanInv
<1>1. CASE d # c
  BY <1>1, SameCall DEF Fetch, redis, history, Inv, TypeOK
<1>2. CASE d = c
  <2>1. call[c].op = "search" /\ call[c].on \subseteq Index /\ Answering(c) /\ pc[c] = "fetch"
    BY DEF Fetch, Inv, CallInv, ScanInv
  <2>2. \A k \in steady[c] : k \in Leading /\ k[2] \in call[c].on /\ k[1] \in ids[c] /\ k[1] \in Readable
    BY <2>1, TableAssumption DEF Answering, Leading
  <2>3. Leading' = Leading /\ ids'[c] = ids[c] \cap Readable /\ call' = call /\ steady' = steady /\ pc'[c] = "return"
    BY DEF Fetch, redis, history, Leading, Readable, Inv, TypeOK
  <2> QED BY <1>2, <2>1, <2>2, <2>3 DEF Removing, Answering
<1> QED BY <1>1, <1>2

LEMMA ScanStep == Inv /\ ScanInv /\ [Next]_vars => ScanInv'
<1> SUFFICES ASSUME Inv, ScanInv, [Next]_vars PROVE ScanInv'
  OBVIOUS
<1>1. ASSUME NEW c \in Client, ClientStep(c) PROVE ScanInv'
  <2>1. CASE Remove(c) \/ GetBySearchIndex(c) \/ GetAllIds(c)
    BY <2>1, ScanBegin DEF Remove, GetBySearchIndex, GetAllIds, Batch, Subjects, Slot
  <2>2. CASE Return(c) \/ Drop(c)
    BY <2>2, ScanLeave DEF Return, Drop
  <2>3. CASE Break(c)
    BY <2>3, EndedCall DEF Break, End, ScanInv
  <2> QED BY <1>1, <2>1, <2>2, <2>3, ScanInsert, ScanFinish, ScanExec, ScanMget, ScanFetch DEF ClientStep
<1>2. ASSUME NEW k \in mortal, Expire(k) PROVE ScanInv'
  <2> SUFFICES ASSUME NEW d \in Client PROVE Removing(d)' /\ Answering(d)'
    BY DEF ScanInv
  <2>1. present' \subseteq present /\ UNCHANGED <<pc, locals, written>> /\ Witness(Client)
    BY <1>2 DEF Expire, Delete
  <2> QED BY <2>1, OtherCall DEF locals
<1>3. CASE UNCHANGED vars
  BY <1>3, SameCall DEF vars, redis, locals, history, ScanInv
<1> QED BY <1>1, <1>2, <1>3 DEF Next

LEMMA ScanAlways == Spec => []ScanInv
<1>1. Init => ScanInv
  BY DEF Init, ScanInv, Removing, Answering
<1> QED BY <1>1, InvAlways, ScanStep, PTL DEF Spec

\* A removal that has returned has left neither data nor index keys of its
\* records, unless somebody stored one of them again meanwhile.
THEOREM RemovalIsComplete == Spec => []RemovedWithoutTrace
<1>1. ScanInv => RemovedWithoutTrace
  BY DEF ScanInv, Removing, RemovedWithoutTrace
<1> QED BY <1>1, ScanAlways, PTL

\* An answered search or listing names every record that was stored and listed
\* for as long as it ran, though it scans index after index.
THEOREM AnswersAreComplete == Spec => []AnswerIsComplete
<1>1. ScanInv => AnswerIsComplete
  BY DEF ScanInv, Answering, AnswerIsComplete
<1> QED BY <1>1, ScanAlways, PTL
=============================================================================
