-------------------------------- MODULE Table --------------------------------
(***************************************************************************)
(* The table of the database crate: records under ids, and search indexes   *)
(* next to them, as plain Redis keys.                                       *)
(*                                                                         *)
(* An insert writes its index keys and then its data key in one pipeline.   *)
(* The pipeline is not a MULTI: Redis executes it command by command, and a *)
(* connection that breaks leaves a prefix of it executed.  A removal and a  *)
(* search first SCAN, which is no snapshot (it returns what was there all   *)
(* along, and may or may not return what came or went meanwhile), and act   *)
(* on the outcome later.                                                    *)
(*                                                                         *)
(* A key is <<id, slot>>: slot Data for name:data:id, an index x for        *)
(* name:sid:x:id.  The value of an index key is the id it ends in.          *)
(***************************************************************************)
EXTENDS FiniteSets, Integers

CONSTANTS
  Id,         \* record ids (a generated id is one that no record has)
  Index,      \* search indexes
  Data,       \* the slot of the data key
  Value,      \* records that encode to some bytes
  Empty,      \* a record whose fields are all default: it encodes to no bytes
  Client,     \* holders of a Table, all on one multiplexed connection
  MaxBatch,   \* bound: ids or indexes in one call
  MaxCalls,   \* bound: calls in a behaviour
  MaxFaults   \* bound: broken connections, timeouts and dropped calls

ASSUME TableAssumption ==
  /\ Data \notin Index
  /\ Empty \notin Value
  /\ MaxBatch \in Nat /\ MaxCalls \in Nat /\ MaxFaults \in Nat

Slot == Index \cup {Data}
Key == Id \X Slot

VARIABLES
  present,    \* keys that exist
  mortal,     \* keys with a time to live
  bytes,      \* what each data key holds; Empty as well when it does not exist
  pc,         \* where a client stands in its call
  call,       \* the call: what it does and to which ids or indexes
  todo,       \* subjects (ids or indexes) not scanned yet
  at,         \* the subject being scanned
  sure,       \* keys the scan must return: there since it began
  maybe,      \* keys the scan may return: there at some time since it began
  keys,       \* keys to delete, or index keys to read
  ids,        \* ids collected, and finally the ids of the answer
  promised,   \* per id, the indexes its record was last stored under (history)
  written,    \* ids stored by others since the call began (history)
  steady,     \* keys of full records there since the call began (history)
  calls,      \* calls so far (bound)
  faults      \* faults so far (bound)

redis == <<present, mortal, bytes>>
locals == <<call, todo, at, keys, ids>>
history == <<promised, written, steady>>
vars == <<redis, pc, locals, sure, maybe, history, calls, faults>>

NoCall == [op |-> "none", on |-> {}]

Init ==
  /\ present = {} /\ mortal = {}
  /\ bytes = [id \in Id |-> Empty]
  /\ pc = [c \in Client |-> "idle"]
  /\ call = [c \in Client |-> NoCall]
  /\ todo = [c \in Client |-> {}]
  /\ at = [c \in Client |-> Data]
  /\ sure = [c \in Client |-> {}]
  /\ maybe = [c \in Client |-> {}]
  /\ keys = [c \in Client |-> {}]
  /\ ids = [c \in Client |-> {}]
  /\ promised = [id \in Id |-> {}]
  /\ written = [c \in Client |-> {}]
  /\ steady = [c \in Client |-> {}]
  /\ calls = 0
  /\ faults = 0

-----------------------------------------------------------------------------
(* What Redis does.                                                        *)

\* The keys a SCAN for a subject matches: name:sid:*:id for a removal,
\* name:sid:index:* for a search, name:data:* for a listing.
MatchesDataOnly(op, s) == IF op = "remove" THEN {<<s, Data>>} ELSE {<<id, s>> : id \in Id}
Matches(op, s) == IF op = "remove" THEN {<<s, x>> : x \in Index} ELSE {<<id, s>> : id \in Id}

\* Keys that lead to a record which reads as one (zero bytes read as none).
Readable == {id \in Id : <<id, Data>> \in present /\ bytes[id] # Empty}
Leading == {k \in present : k[2] = Data \/ k[1] \in Readable}

\* After any change of the keys: what the scans under way have seen throughout
\* and what they may have seen.
Witness(others) ==
  /\ sure' = [c \in Client |-> IF c \in others THEN sure[c] \cap present' ELSE {}]
  /\ maybe' = [c \in Client |-> IF c \in others /\ pc[c] = "scan"
                                THEN maybe[c] \cup (present' \cap Matches(call[c].op, at[c]))
                                ELSE IF c \in others THEN maybe[c] ELSE {}]
  /\ steady' = [c \in Client |-> IF c \in others THEN steady[c] \cap Leading' ELSE {}]

\* A pipeline of SETs, each followed by its EXPIRE if there is a lifetime: the
\* keys it set, the keys whose EXPIRE was executed too, the new bytes.
Store(set, expired, values) ==
  /\ present' = present \cup set
  /\ mortal' = (mortal \ set) \cup expired
  /\ bytes' = [id \in Id |-> IF <<id, Data>> \in set THEN values[id] ELSE bytes[id]]

\* A pipeline of DELs.
Delete(gone) ==
  /\ present' = present \ gone
  /\ mortal' = mortal \ gone
  /\ bytes' = [id \in Id |-> IF <<id, Data>> \in gone THEN Empty ELSE bytes[id]]

\* Fault: the data key goes first.
DataFirst(block) ==
  {part \in SUBSET block : part = {} \/ \E k \in part : k[2] = Data}

\* What may have been executed of the commands for one id, which go out in any
\* order but for the data key, which is last.
DataLast(block) ==
  {part \in SUBSET block : (\E k \in part : k[2] = Data) => part = block}

\* Prefixes of a pipeline: commands go out id by id, so all of some blocks, a
\* part of one, none of the rest.
IsPrefix(part, whole) ==
  LET block(id) == {k \in whole : k[1] = id}
      cut(id) == {k \in part : k[1] = id}
  IN  /\ part \subseteq whole
      /\ \A id \in Id : cut(id) \in DataLast(block(id))
      /\ \A id, other \in Id :
           (cut(id) \notin {{}, block(id)} /\ cut(other) \notin {{}, block(other)}) => id = other

\* The EXPIRE of at most one key, the last one set, is missing.
ExpiredIn(set, expire) ==
  IF expire THEN {set} \cup {set \ {k} : k \in set} ELSE {{}}

-----------------------------------------------------------------------------
(* Calls.                                                                  *)

CanBegin(c) == pc[c] = "idle" /\ calls < MaxCalls
Batch(S) == {b \in SUBSET S : b # {} /\ Cardinality(b) <= MaxBatch}

\* The promise of an insert, made with its data key: the record is found under
\* the indexes it was stored with.  An insert with a lifetime gives none, and
\* takes back what is known of the indexes it touches.
PromisedAfter(set, indexes, expire) ==
  [id \in Id |->
     IF expire THEN {x \in promised[id] : set \cap {<<id, x>>, <<id, Data>>} = {}}
     ELSE IF <<id, Data>> \in set THEN promised[id] \cup indexes
     ELSE promised[id]]

WrittenAfter(c, touched) ==
  [d \in Client |-> IF d # c /\ pc[d] # "idle" THEN written[d] \cup touched ELSE written[d]]

\* insert and batch_insert: nothing is read, so the call is its pipeline.  With
\* `lost' the connection breaks and a prefix has been executed.
InsertAll(c, batch, values, indexes, expire, set, expired) ==
  /\ Store(set, expired, values)
  /\ promised' = PromisedAfter(set, indexes, expire)
  /\ written' = WrittenAfter(c, {k[1] : k \in set})
  /\ calls' = calls + 1

Insert(c) ==
  /\ CanBegin(c)
  /\ \E batch \in Batch(Id), indexes \in SUBSET Index, expire \in BOOLEAN :
       \E values \in [batch -> Value \cup {Empty}] :
         LET all == batch \X (indexes \cup {Data})
         IN  InsertAll(c, batch, values, indexes, expire, all, IF expire THEN all ELSE {})
  /\ Witness({d \in Client : d # c})
  /\ UNCHANGED <<pc, locals, faults>>

\* remove and batch_remove, get_by_search_index and its batch, get_all_ids: all
\* start with a SCAN of their first subject.
BeginScan(c, op, s) ==
  /\ at' = [at EXCEPT ![c] = s]
  /\ sure' = [sure EXCEPT ![c] = Matches(op, s) \cap present]
  /\ maybe' = [maybe EXCEPT ![c] = Matches(op, s) \cap present]
  /\ pc' = [pc EXCEPT ![c] = "scan"]

Begin(c, op, subjects) ==
  /\ CanBegin(c)
  /\ calls' = calls + 1
  /\ call' = [call EXCEPT ![c] = [op |-> op, on |-> subjects]]
  /\ \E s \in subjects :
       /\ todo' = [todo EXCEPT ![c] = subjects \ {s}]
       /\ BeginScan(c, op, s)
  /\ keys' = [keys EXCEPT ![c] = {}]
  /\ ids' = [ids EXCEPT ![c] = {}]
  /\ written' = [written EXCEPT ![c] = {}]
  /\ steady' = [steady EXCEPT ![c] = Leading \cap UNION {Matches(op, s) : s \in subjects}]
  /\ UNCHANGED <<redis, promised, faults>>

Remove(c) == \E batch \in Batch(Id) : Begin(c, "remove", batch)
GetBySearchIndex(c) == \E batch \in Batch(Index) : Begin(c, "search", batch)
GetAllIds(c) == Begin(c, "list", {Data})

\* On to the next subject, or past the last one.
Onward(c, next) ==
  \/ \E s \in todo[c] :
       /\ todo' = [todo EXCEPT ![c] = @ \ {s}]
       /\ BeginScan(c, call[c].op, s)
  \/ /\ todo[c] = {}
     /\ pc' = [pc EXCEPT ![c] = next]
     /\ sure' = [sure EXCEPT ![c] = {}]
     /\ maybe' = [maybe EXCEPT ![c] = {}]
     /\ UNCHANGED <<todo, at>>

\* key.split(':').last(); the fault takes the whole key for the id.
WholeKey(k) == k
IdOf(k) == k[1]

\* Fault: an index without keys ends the search.
AfterScanStops(c, found) ==
  \/ /\ call[c].op = "remove"
     /\ keys' = [keys EXCEPT ![c] = @ \cup found \cup {<<at[c], Data>>}]
     /\ Onward(c, "exec")
     /\ UNCHANGED ids
  \/ /\ call[c].op = "search"
     /\ keys' = [keys EXCEPT ![c] = found]
     /\ pc' = [pc EXCEPT ![c] = IF found = {} THEN "fetch" ELSE "mget"]
     /\ UNCHANGED <<todo, at, sure, maybe, ids>>
  \/ /\ call[c].op = "list"
     /\ ids' = [ids EXCEPT ![c] = {IdOf(k) : k \in found}]
     /\ Onward(c, "return")
     /\ UNCHANGED keys

\* The scan's outcome: more DELs for the pipeline, index keys to read (none:
\* on to the next index), or the ids themselves.
AfterScan(c, found) ==
  \/ /\ call[c].op = "remove"
     /\ keys' = [keys EXCEPT ![c] = @ \cup found \cup {<<at[c], Data>>}]
     /\ Onward(c, "exec")
     /\ UNCHANGED ids
  \/ /\ call[c].op = "search" /\ found # {}
     /\ keys' = [keys EXCEPT ![c] = found]
     /\ pc' = [pc EXCEPT ![c] = "mget"]
     /\ UNCHANGED <<todo, at, sure, maybe, ids>>
  \/ /\ call[c].op = "search" /\ found = {}
     /\ Onward(c, "fetch")
     /\ UNCHANGED <<keys, ids>>
  \/ /\ call[c].op = "list"
     /\ ids' = [ids EXCEPT ![c] = {IdOf(k) : k \in found}]
     /\ Onward(c, "return")
     /\ UNCHANGED keys

FinishScan(c) ==
  /\ pc[c] = "scan"
  /\ \E extra \in SUBSET (maybe[c] \ sure[c]) : AfterScan(c, sure[c] \cup extra)
  /\ UNCHANGED <<redis, call, history, calls, faults>>

\* The pipeline of a removal.
Exec(c) ==
  /\ pc[c] = "exec"
  /\ Delete(keys[c])
  /\ promised' = [id \in Id |-> IF id \in call[c].on THEN {} ELSE promised[id]]
  /\ pc' = [pc EXCEPT ![c] = "return"]
  /\ Witness({d \in Client : d # c})
  /\ UNCHANGED <<locals, written, calls, faults>>

\* A call ends and its locals go.
Ended(f, C) == [c \in Client |-> IF c \in C THEN {} ELSE f[c]]
End(C) ==
  /\ pc' = [c \in Client |-> IF c \in C THEN "idle" ELSE pc[c]]
  /\ call' = [c \in Client |-> IF c \in C THEN NoCall ELSE call[c]]
  /\ at' = [c \in Client |-> IF c \in C THEN Data ELSE at[c]]
  /\ todo' = Ended(todo, C)
  /\ keys' = Ended(keys, C)
  /\ ids' = Ended(ids, C)

Leave(c) ==
  /\ End({c})
  /\ sure' = [sure EXCEPT ![c] = {}]
  /\ maybe' = [maybe EXCEPT ![c] = {}]
  /\ written' = [written EXCEPT ![c] = {}]
  /\ steady' = [steady EXCEPT ![c] = {}]
  /\ UNCHANGED <<redis, promised, calls>>

\* MGET of the index keys: a key that has gone since the scan comes back nil,
\* which is no String, and the search fails.
MgetIds(c) ==
  /\ pc[c] = "mget"
  /\ \/ /\ keys[c] \subseteq present
        /\ ids' = [ids EXCEPT ![c] = @ \cup {k[1] : k \in keys[c]}]
        /\ Onward(c, "fetch")
        /\ UNCHANGED <<redis, call, keys, history, calls, faults>>
     \/ /\ ~(keys[c] \subseteq present)
        /\ Leave(c)
        /\ UNCHANGED faults

\* MGET of the data keys, none if there are no ids; missing records are skipped.
Fetch(c) ==
  /\ pc[c] = "fetch"
  /\ ids' = [ids EXCEPT ![c] = @ \cap Readable]
  /\ pc' = [pc EXCEPT ![c] = "return"]
  /\ UNCHANGED <<redis, call, todo, at, keys, sure, maybe, history, calls, faults>>

Return(c) == pc[c] = "return" /\ Leave(c) /\ UNCHANGED faults

-----------------------------------------------------------------------------
(* Faults.                                                                 *)

\* A caller that goes away, or a response that takes longer than ten seconds.
Drop(c) ==
  /\ pc[c] \notin {"idle", "return"} /\ faults < MaxFaults
  /\ faults' = faults + 1
  /\ Leave(c)

\* The connection breaks while c's pipeline is on its way: a prefix of it has
\* been executed, every call on the connection fails and the process is started
\* again, since a multiplexed connection does not reconnect.
Break(c) ==
  /\ faults < MaxFaults
  /\ faults' = faults + 1
  /\ \/ /\ pc[c] = "exec"
        /\ \E part \in SUBSET keys[c] :
             /\ IsPrefix(part, keys[c])
             /\ Delete(part)
             /\ promised' = [id \in Id |-> IF \E k \in part : k[1] = id THEN {} ELSE promised[id]]
        /\ UNCHANGED calls
     \/ /\ CanBegin(c)
        /\ \E batch \in Batch(Id), indexes \in SUBSET Index, expire \in BOOLEAN :
             \E values \in [batch -> Value \cup {Empty}], set \in SUBSET (batch \X (indexes \cup {Data})) :
               /\ IsPrefix(set, batch \X (indexes \cup {Data}))
               /\ \E expired \in ExpiredIn(set, expire) :
                    /\ Store(set, expired, values)
                    /\ promised' = PromisedAfter(set, indexes, expire)
        /\ calls' = calls + 1
  /\ End(Client)
  /\ sure' = [d \in Client |-> {}]
  /\ maybe' = [d \in Client |-> {}]
  /\ written' = [d \in Client |-> {}]
  /\ steady' = [d \in Client |-> {}]

\* A lifetime ends.
Expire(k) ==
  /\ k \in mortal
  /\ Delete({k})
  /\ Witness(Client)
  /\ UNCHANGED <<pc, locals, promised, written, calls, faults>>

ClientStep(c) ==
  \/ Insert(c)
  \/ Remove(c)
  \/ GetBySearchIndex(c)
  \/ GetAllIds(c)
  \/ FinishScan(c)
  \/ Exec(c)
  \/ MgetIds(c)
  \/ Fetch(c)
  \/ Return(c)
  \/ Drop(c)
  \/ Break(c)

Next == (\E c \in Client : ClientStep(c)) \/ \E k \in mortal : Expire(k)

Spec == Init /\ [][Next]_vars

-----------------------------------------------------------------------------
(* Properties.                                                             *)

TypeOK ==
  /\ present \subseteq Key
  /\ mortal \subseteq present
  /\ bytes \in [Id -> Value \cup {Empty}]
  /\ pc \in [Client -> {"idle", "scan", "exec", "mget", "fetch", "return"}]
  /\ call \in [Client -> [op : {"none", "remove", "search", "list"}, on : SUBSET (Id \cup Slot)]]
  /\ todo \in [Client -> SUBSET (Id \cup Slot)]
  /\ at \in [Client -> Id \cup Slot]
  /\ sure \in [Client -> SUBSET Key]
  /\ maybe \in [Client -> SUBSET Key]
  /\ keys \in [Client -> SUBSET Key]
  /\ ids \in [Client -> SUBSET Id]
  /\ promised \in [Id -> SUBSET Index]
  /\ written \in [Client -> SUBSET Id]
  /\ steady \in [Client -> SUBSET Key]
  /\ calls \in Nat /\ faults \in Nat

\* A record is found under every index it was stored with: whatever is removed,
\* stored or expires next to it, and wherever a pipeline breaks off, its index
\* keys stay, without a lifetime, until it is itself removed or stored again
\* with one (table.rs:284-303: the indexes go out before the record).
StoredRecordIsIndexed ==
  \A id \in Id : \A x \in promised[id] : {<<id, x>>, <<id, Data>>} \subseteq present

\* A removal that has returned has left nothing of its records, neither data
\* nor an index key that would list a later record of the same id, unless
\* somebody stored the id again while it ran (table.rs:366-433).
RemovedWithoutTrace ==
  \A c \in Client : pc[c] = "return" /\ call[c].op = "remove" =>
    \A k \in present : k[1] \in call[c].on => k[1] \in written[c]

\* A search or a listing that has answered names every record that was there,
\* and listed, from its beginning to its end, although it scans the indexes one
\* after the other while they change (table.rs:174-219, 462-493).
AnswerIsComplete ==
  \A c \in Client : pc[c] = "return" /\ call[c].op # "remove" =>
    \A k \in steady[c] : k[1] \in ids[c]
=============================================================================
