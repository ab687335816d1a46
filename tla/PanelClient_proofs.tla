-------------------------- MODULE PanelClient_proofs --------------------------
(***************************************************************************)
(* What a tablet enters stays with the match and the panel it was entered   *)
(* for, over reconnects, restarts, logouts and logins - but for what was in *)
(* storage while the match changed and nobody was logged in.                *)
(*                                                                         *)
(* The argument: storage holds edits of the last response's match, or such  *)
(* strays, or nothing; what the provider shows is taken from storage or     *)
(* entered for that match.  Every request is made of it, so wherever a      *)
(* request may be - on the stream, or with the server's task of an earlier  *)
(* stream - its edits are those of its match; and so is what a record holds *)
(* of it, and what any call has read of that record and writes back.        *)
(***************************************************************************)
EXTENDS PanelClient, SequenceTheorems, TLAPS

\* The edits that were made for a match or have strayed; those of them made on
\* a panel or taken along to it; and what storage and a provider can have of
\* them.
EntriesOf(m) == {n \in 1..Len(made) : made[n].match = m \/ n \in strayed}
EditsOf(m, p) == {n \in EntriesOf(m) : made[n].panel = p \/ n \in carried}
StoredFor(m) == {Blank} \cup SUBSET EntriesOf(m)
EnteredFor(m, p) == {Blank} \cup SUBSET EditsOf(m, p)

\* Records and requests that say such a thing.
Record == [Panel -> SUBSET (Nat \ {0})]
RecordOf(m) == {c \in Record : \A p \in Panel : c[p] \subseteq EditsOf(m, p)}
Request ==
  [match : Match, panel : Panel, state : {Blank} \cup SUBSET (Nat \ {0}), read : SUBSET Record]
Truthful ==
  {r \in Request : /\ r.state \in EnteredFor(r.match, r.panel)
                   /\ r.read \subseteq RecordOf(r.match)
                   /\ Begun(r) => r.state # Blank}
Readings == {w \in [match : Match, record : Record] : w.record \in RecordOf(w.match)}

ClientTypeOK ==
  /\ arena \in Shown /\ shown \in Shown /\ savedShown \in Shown
  /\ panel \in Panel \cup {Out}
  /\ news \in Seq(Shown)
  /\ made \in Seq([match : Match, panel : Panel])

\* The providers and their storage.
StorageInv ==
  /\ ~unsaved => savedShown = shown
  /\ saved \in StoredFor(shown.match) \cap StoredFor(savedShown.match)
  /\ panel = Out => state = Blank
  /\ panel # Out => matchId = shown.match /\ state \in EnteredFor(shown.match, panel)
  /\ shown.phase = "waiting" => state = Blank

WireInv == sent \in Seq(Truthful) /\ late \in Seq(Seq(Truthful))

RecordInv == slot \in [Match -> Record] /\ \A m \in Match : slot[m] \in RecordOf(m)

OtherInv == other \subseteq Readings

ClientInv == ClientTypeOK /\ StorageInv /\ WireInv /\ RecordInv /\ OtherInv

-----------------------------------------------------------------------------
(* Helpers.                                                                *)

LEMMA EditsAreNumbers ==
  ASSUME ClientTypeOK, NEW m, NEW p
  PROVE  /\ EntriesOf(m) \subseteq Nat \ {0} /\ EditsOf(m, p) \subseteq Nat \ {0}
         /\ EditsOf(m, p) \subseteq EntriesOf(m)
BY LenProperties DEF ClientTypeOK, EditsOf, EntriesOf

\* Edits keep their match and their panel, and strays stay excused.
Grows ==
  /\ Len(made) \in Nat /\ Len(made') \in Nat
  /\ Len(made) <= Len(made') /\ \A n \in 1..Len(made) : made'[n] = made[n]
  /\ carried \subseteq carried' /\ strayed \subseteq strayed'

LEMMA EditsStay ==
  ASSUME Grows
  PROVE  /\ \A m : EntriesOf(m) \subseteq EntriesOf(m)'
         /\ \A m, p : EditsOf(m, p) \subseteq EditsOf(m, p)'
         /\ \A m : StoredFor(m) \subseteq StoredFor(m)'
         /\ \A m, p : EnteredFor(m, p) \subseteq EnteredFor(m, p)'
         /\ \A m : RecordOf(m) \subseteq RecordOf(m)'
         /\ Truthful \subseteq Truthful' /\ Readings \subseteq Readings'
<1>1. ASSUME NEW m PROVE EntriesOf(m) \subseteq EntriesOf(m)'
  BY DEF Grows, EntriesOf
<1>2. ASSUME NEW m, NEW p PROVE EditsOf(m, p) \subseteq EditsOf(m, p)'
  BY <1>1 DEF Grows, EditsOf, EntriesOf
<1>3. ASSUME NEW m PROVE StoredFor(m) \subseteq StoredFor(m)'
  BY <1>1 DEF StoredFor
<1>4. ASSUME NEW m, NEW p PROVE EnteredFor(m, p) \subseteq EnteredFor(m, p)'
  BY <1>2 DEF EnteredFor
<1>5. ASSUME NEW m PROVE RecordOf(m) \subseteq RecordOf(m)'
  BY <1>2 DEF RecordOf
<1>6. Truthful \subseteq Truthful'
  BY <1>4, <1>5 DEF Truthful
<1>7. Readings \subseteq Readings'
  BY <1>5 DEF Readings
<1> QED BY <1>1, <1>2, <1>3, <1>4, <1>5, <1>6, <1>7

LEMMA SeqMonotone ==
  ASSUME NEW S, NEW T, S \subseteq T
  PROVE  Seq(S) \subseteq Seq(T) /\ Seq(Seq(S)) \subseteq Seq(Seq(T))
<1>1. \A X, Y : X \subseteq Y => Seq(X) \subseteq Seq(Y)
  OBVIOUS
<1>2. Seq(S) \subseteq Seq(T)
  BY <1>1
<1> QED BY <1>1, <1>2

\* So do the requests under way, and the records, that nothing touches.
LEMMA RequestsStay ==
  ASSUME Grows, WireInv
  PROVE  sent \in Seq(Truthful') /\ late \in Seq(Seq(Truthful'))
<1>1. Truthful \subseteq Truthful'
  BY EditsStay
<1>2. Seq(Truthful) \subseteq Seq(Truthful') /\ Seq(Seq(Truthful)) \subseteq Seq(Seq(Truthful'))
  BY <1>1, SeqMonotone
<1> QED BY <1>2 DEF WireInv

LEMMA RecordsStay ==
  ASSUME Grows, RecordInv, OtherInv, UNCHANGED <<slot, other>>
  PROVE  RecordInv' /\ OtherInv'
<1>1. (\A m : RecordOf(m) \subseteq RecordOf(m)') /\ Readings \subseteq Readings'
  BY EditsStay
<1> QED BY <1>1 DEF RecordInv, OtherInv

LEMMA NothingGrows ==
  ASSUME ClientTypeOK, UNCHANGED <<made, carried, strayed>>
  PROVE  Grows
<1>1. Len(made) \in Nat
  BY LenProperties DEF ClientTypeOK
<1> QED BY <1>1 DEF Grows

\* A request that is sent is put behind those under way, or ignored.
LEMMA SentStay ==
  ASSUME Grows, WireInv, NEW r, r \in Truthful', Send(r)
  PROVE  sent' \in Seq(Truthful')
<1>1. sent \in Seq(Truthful')
  BY RequestsStay
<1> DEFINE T == Truthful'
<1>2. sent \in Seq(T) /\ r \in T
  BY <1>1
<1> HIDE DEF T
<1>3. Append(sent, r) \in Seq(T)
  BY <1>2, AppendProperties
<1>4. sent' \in Seq(T)
  BY <1>2, <1>3 DEF Send
<1> QED BY <1>4 DEF T

\* What the server's task of an ended stream still has is true.
LEMMA AbandonedIsTrue ==
  ASSUME WireInv, Abandon
  PROVE  late' \in Seq(Seq(Truthful))
<1>1. PICK n \in 0..Len(sent) : late' = IF n = 0 THEN late ELSE Append(late, SubSeq(sent, 1, n))
  BY DEF Abandon
<1>2. sent \in Seq(Truthful) /\ late \in Seq(Seq(Truthful)) /\ Len(sent) \in Nat
  BY LenProperties DEF WireInv
<1>3. n # 0 => SubSeq(sent, 1, n) \in Seq(Truthful)
  BY <1>2, SubSeqProperties
<1>4. n # 0 => Append(late, SubSeq(sent, 1, n)) \in Seq(Seq(Truthful))
  BY <1>2, <1>3, AppendProperties
<1> QED BY <1>1, <1>2, <1>4

\* What a panel says of what it has entered for a match is true.
SayingsAreTrue ==
  \A m \in Match, p \in Panel : \A s \in EnteredFor(m, p) : Saying(m, p, s) \in Truthful

LEMMA SayingIsTrue == ClientTypeOK => SayingsAreTrue
BY EditsAreNumbers DEF SayingsAreTrue, Saying, Truthful, Request, EnteredFor, Begun

LEMMA SayingStaysTrue == ClientTypeOK' => SayingsAreTrue'
BY SayingIsTrue, PTL

\* What the server and the wire do leaves the providers as they are.
LEMMA ProviderStays ==
  ASSUME ClientInv, UNCHANGED provider
  PROVE  /\ Grows /\ StorageInv' /\ Truthful' = Truthful /\ Readings' = Readings
         /\ \A m : RecordOf(m)' = RecordOf(m)
<1>1. Grows
  BY NothingGrows DEF ClientInv, provider
<1>2. /\ \A m : StoredFor(m)' = StoredFor(m)
      /\ \A m, p : EnteredFor(m, p)' = EnteredFor(m, p)
  BY DEF StoredFor, EnteredFor, EditsOf, EntriesOf, provider
<1>3. StorageInv'
  BY <1>2 DEF ClientInv, StorageInv, provider
<1>4. \A m : RecordOf(m)' = RecordOf(m)
  BY DEF RecordOf, EditsOf, EntriesOf, provider
<1>5. Truthful' = Truthful /\ Readings' = Readings
  BY <1>2, <1>4 DEF Truthful, Readings
<1> QED BY <1>1, <1>3, <1>4, <1>5

-----------------------------------------------------------------------------
(* The steps.                                                              *)

LEMMA ClientInit == Init => ClientInv
<1> SUFFICES ASSUME Init PROVE ClientInv
  OBVIOUS
<1>1. DefaultShown \in Shown
  BY ClientAssumption DEF DefaultShown, Shown, Phase
<1>2. <<>> \in Seq(Truthful) /\ <<>> \in Seq(Seq(Truthful)) /\ <<>> \in Seq(Shown)
      /\ <<>> \in Seq([match : Match, panel : Panel])
  BY EmptySeq
<1>3. ClientTypeOK
  BY <1>1, <1>2 DEF Init, ClientTypeOK
<1>4. StorageInv
  BY DEF Init, StorageInv, StoredFor
<1>5. WireInv
  BY <1>2 DEF Init, WireInv
<1>6. RecordInv /\ OtherInv
  BY DEF Init, RecordInv, RecordOf, Record, OtherInv
<1> QED BY <1>3, <1>4, <1>5, <1>6 DEF ClientInv

\* A load, a start or a redo: at most, records are emptied.
LEMMA TurnKeeps ==
  ASSUME ClientInv, NEW next \in Shown, Turn(next),
         slot' \in [Match -> Record],
         \A m \in Match, p \in Panel : slot'[m][p] \subseteq slot[m][p]
  PROVE  ClientInv'
<1>1. UNCHANGED provider /\ UNCHANGED <<sent, late, other>>
  BY DEF Turn
<1>2. StorageInv' /\ Truthful' = Truthful /\ Readings' = Readings /\ \A m : RecordOf(m)' = RecordOf(m)
  BY <1>1, ProviderStays
<1>3. news' \in Seq(Shown)
  BY AppendProperties DEF Turn, ClientInv, ClientTypeOK
<1>4. ClientTypeOK'
  BY <1>1, <1>3 DEF Turn, ClientInv, ClientTypeOK, provider
<1>5. WireInv' /\ OtherInv'
  BY <1>1, <1>2 DEF ClientInv, WireInv, OtherInv
<1>6. ASSUME NEW m \in Match PROVE slot'[m] \in RecordOf(m)
  BY DEF ClientInv, RecordInv, RecordOf
<1>7. RecordInv'
  BY <1>2, <1>6 DEF RecordInv
<1> QED BY <1>2, <1>4, <1>5, <1>7 DEF ClientInv

LEMMA LoadKeeps == ASSUME ClientInv, NEW m \in Match, Load(m) PROVE ClientInv'
<1>1. [match |-> m, phase |-> "waiting"] \in Shown
  BY DEF Shown, Phase
<1> QED BY <1>1, TurnKeeps DEF Load, ClientInv, RecordInv

LEMMA StartKeeps == ASSUME ClientInv, Start PROVE ClientInv'
<1>1. [arena EXCEPT !.phase = "playing"] \in Shown
  BY DEF ClientInv, ClientTypeOK, Shown, Phase
<1> QED BY <1>1, TurnKeeps DEF Start, ClientInv, RecordInv

LEMMA RedoKeeps == ASSUME ClientInv, Redo PROVE ClientInv'
<1>1. [arena EXCEPT !.phase = "waiting"] \in Shown /\ arena.match \in Match
  BY DEF ClientInv, ClientTypeOK, Shown, Phase
<1>2. [p \in Panel |-> {}] \in Record
  BY DEF Record
<1>3. slot' \in [Match -> Record]
  BY <1>2 DEF Redo, ClientInv, RecordInv
<1>4. \A m \in Match, p \in Panel : slot'[m][p] \subseteq slot[m][p]
  BY DEF Redo, ClientInv, RecordInv
<1> QED BY <1>1, <1>3, <1>4, TurnKeeps DEF Redo

\* A record is written that says what is true of its match.
LEMMA RecordWritten ==
  ASSUME ClientInv, NEW m \in Match, NEW record \in RecordOf(m), slot' = [slot EXCEPT ![m] = record],
         UNCHANGED provider
  PROVE  RecordInv'
<1>1. \A k : RecordOf(k)' = RecordOf(k)
  BY ProviderStays
<1>2. record \in Record
  BY DEF RecordOf
<1>3. slot' \in [Match -> Record] /\ \A k \in Match : slot'[k] = IF k = m THEN record ELSE slot[k]
  BY <1>2 DEF ClientInv, RecordInv
<1>4. \A k \in Match : slot'[k] \in RecordOf(k)
  BY <1>3 DEF ClientInv, RecordInv
<1> QED BY <1>1, <1>3, <1>4 DEF RecordInv

\* A task that takes a request up reads a true record.
LEMMA TakenUpIsTrue ==
  ASSUME ClientInv, NEW requests \in Seq(Truthful), requests # <<>>
  PROVE  TakenUp(requests) \in Seq(Truthful)
<1> DEFINE r == Head(requests)
           begun == [r EXCEPT !.read = {slot[r.match]}]
<1>1. r \in Truthful /\ Tail(requests) \in Seq(Truthful)
  BY HeadTailProperties
<1>2. slot[r.match] \in RecordOf(r.match) /\ slot[r.match] \in Record
  BY <1>1 DEF Truthful, Request, ClientInv, RecordInv
<1>3. begun \in Request /\ begun.state = r.state /\ begun.match = r.match /\ begun.panel = r.panel
      /\ begun.read = {slot[r.match]}
  BY <1>1, <1>2 DEF Truthful, Request
<1>4. r.state # Blank => begun \in Truthful
  BY <1>1, <1>2, <1>3 DEF Truthful
<1>5. r.state # Blank => <<begun>> \in Seq(Truthful)
  BY <1>4
<1>6. r.state # Blank => <<begun>> \o Tail(requests) \in Seq(Truthful)
  BY <1>1, <1>5, ConcatProperties
<1> QED BY <1>1, <1>6 DEF TakenUp

\* What it writes back is a true record as well.
LEMMA WrittenIsTrue ==
  ASSUME ClientTypeOK, NEW r \in Truthful, Begun(r), NEW record \in r.read
  PROVE  Written(r, record) \in RecordOf(r.match)
<1>1. r.panel \in Panel /\ r.state \subseteq EditsOf(r.match, r.panel) /\ record \in RecordOf(r.match)
  BY DEF Truthful, Request, EnteredFor
<1>2. record \in Record /\ r.state \subseteq Nat \ {0}
  BY <1>1, EditsAreNumbers DEF RecordOf
<1>3. Written(r, record) \in Record
  BY <1>1, <1>2 DEF Written, Record
<1>4. \A p \in Panel : Written(r, record)[p] \subseteq EditsOf(r.match, p)
  BY <1>1, <1>2 DEF Written, Record, RecordOf
<1> QED BY <1>3, <1>4 DEF RecordOf

LEMMA FinishedKeeps ==
  ASSUME ClientInv, UNCHANGED provider, UNCHANGED other, NEW r \in Truthful, Begun(r), Finished(r)
  PROVE  RecordInv' /\ OtherInv'
<1>1. CASE UNCHANGED slot
  BY <1>1, ProviderStays, RecordsStay DEF ClientInv
<1>2. CASE \E record \in r.read : slot' = [slot EXCEPT ![r.match] = Written(r, record)]
  <2>1. PICK record \in r.read : slot' = [slot EXCEPT ![r.match] = Written(r, record)]
    BY <1>2
  <2>2. Written(r, record) \in RecordOf(r.match) /\ r.match \in Match
    BY WrittenIsTrue DEF Truthful, Request, ClientInv
  <2>3. RecordInv'
    BY <2>1, <2>2, RecordWritten
  <2>4. Readings' = Readings
    BY ProviderStays
  <2> QED BY <2>3, <2>4 DEF ClientInv, OtherInv
<1> QED BY <1>1, <1>2 DEF Finished

\* A step of a task: what it leaves of its requests is true.
LEMMA TaskKeeps ==
  ASSUME ClientInv, UNCHANGED provider, UNCHANGED <<arena, news>>,
         sent' \in Seq(Truthful), late' \in Seq(Seq(Truthful)), RecordInv', OtherInv'
  PROVE  ClientInv'
<1>1. StorageInv' /\ Truthful' = Truthful
  BY ProviderStays
<1>2. ClientTypeOK'
  BY DEF ClientInv, ClientTypeOK, provider
<1> QED BY <1>1, <1>2 DEF ClientInv, WireInv

LEMMA TakeUpKeeps == ASSUME ClientInv, TakeUp PROVE ClientInv'
<1>1. UNCHANGED provider /\ UNCHANGED <<arena, news, slot, other, late>>
  BY DEF TakeUp, arenaVars
<1>2. sent' \in Seq(Truthful)
  BY TakenUpIsTrue DEF TakeUp, ClientInv, WireInv
<1>3. RecordInv' /\ OtherInv'
  BY <1>1, ProviderStays, RecordsStay DEF ClientInv
<1> QED BY <1>1, <1>2, <1>3, TaskKeeps DEF ClientInv, WireInv

LEMMA FinishKeeps == ASSUME ClientInv, Finish PROVE ClientInv'
<1>1. UNCHANGED provider /\ UNCHANGED <<arena, news, other, late>>
  BY DEF Finish, arenaVars
<1>2. Head(sent) \in Truthful /\ sent' \in Seq(Truthful)
  BY HeadTailProperties DEF Finish, ClientInv, WireInv
<1>3. RecordInv' /\ OtherInv'
  BY <1>1, <1>2, FinishedKeeps DEF Finish
<1> QED BY <1>1, <1>2, <1>3, TaskKeeps DEF ClientInv, WireInv

LEMMA TakeUpLateKeeps == ASSUME ClientInv, NEW i \in DOMAIN late, TakeUpLate(i) PROVE ClientInv'
<1>1. UNCHANGED provider /\ UNCHANGED <<arena, news, slot, other, sent>>
  BY DEF TakeUpLate, arenaVars
<1>2. late \in Seq(Seq(Truthful)) /\ late[i] \in Seq(Truthful)
  BY ElementOfSeq DEF ClientInv, WireInv
<1>3. TakenUp(late[i]) \in Seq(Truthful)
  BY <1>2, TakenUpIsTrue DEF TakeUpLate
<1>4. late' \in Seq(Seq(Truthful))
  BY <1>2, <1>3, ExceptSeq DEF TakeUpLate
<1>5. RecordInv' /\ OtherInv'
  BY <1>1, ProviderStays, RecordsStay DEF ClientInv
<1> QED BY <1>1, <1>4, <1>5, TaskKeeps DEF ClientInv, WireInv

LEMMA FinishLateKeeps == ASSUME ClientInv, NEW i \in DOMAIN late, FinishLate(i) PROVE ClientInv'
<1>1. UNCHANGED provider /\ UNCHANGED <<arena, news, other, sent>>
  BY DEF FinishLate, arenaVars
<1>2. late \in Seq(Seq(Truthful)) /\ late[i] \in Seq(Truthful)
  BY ElementOfSeq DEF ClientInv, WireInv
<1>3. Head(late[i]) \in Truthful /\ Tail(late[i]) \in Seq(Truthful)
  BY <1>2, HeadTailProperties DEF FinishLate
<1>4. late' \in Seq(Seq(Truthful))
  BY <1>2, <1>3, ExceptSeq DEF FinishLate
<1>5. RecordInv' /\ OtherInv'
  BY <1>1, <1>3, FinishedKeeps DEF FinishLate
<1> QED BY <1>1, <1>4, <1>5, TaskKeeps DEF ClientInv, WireInv

\* Another call reads a record, and writes back what it read of it.
LEMMA OtherReadsKeeps == ASSUME ClientInv, NEW m \in Match, OtherReads(m) PROVE ClientInv'
<1>1. UNCHANGED provider /\ UNCHANGED wire /\ UNCHANGED <<arena, slot>>
  BY DEF OtherReads
<1>2. Truthful' = Truthful /\ Readings' = Readings /\ \A k : RecordOf(k)' = RecordOf(k)
  BY <1>1, ProviderStays
<1>3. [match |-> m, record |-> slot[m]] \in Readings
  BY DEF Readings, ClientInv, RecordInv
<1>4. RecordInv' /\ OtherInv'
  BY <1>1, <1>2, <1>3 DEF OtherReads, ClientInv, RecordInv, OtherInv
<1> QED BY <1>1, <1>4, TaskKeeps DEF ClientInv, WireInv, wire

LEMMA OtherWritesKeeps == ASSUME ClientInv, OtherWrites PROVE ClientInv'
<1>1. UNCHANGED provider /\ UNCHANGED wire /\ UNCHANGED arena
  BY DEF OtherWrites, arenaVars
<1>2. PICK w \in Readings : slot' = [slot EXCEPT ![w.match] = w.record]
  BY DEF OtherWrites, ClientInv, OtherInv
<1>3. RecordInv'
  BY <1>1, <1>2, RecordWritten DEF Readings
<1>4. OtherInv'
  BY DEF OtherWrites, OtherInv
<1> QED BY <1>1, <1>3, <1>4, TaskKeeps DEF ClientInv, WireInv, wire

LEMMA ConnectKeeps == ASSUME ClientInv, Connect PROVE ClientInv'
<1>1. UNCHANGED provider /\ UNCHANGED <<arena, slot, other, late>>
  BY DEF Connect, arenaVars
<1>2. Grows /\ StorageInv' /\ Truthful' = Truthful
  BY <1>1, ProviderStays
<1>3. panel # Out => Saying(matchId, panel, state) \in Truthful
  BY SayingIsTrue DEF ClientInv, ClientTypeOK, SayingsAreTrue, StorageInv, Shown
<1>4. sent' \in Seq(Truthful)
  BY <1>3, EmptySeq DEF Connect, Announced
<1>5. news' \in Seq(Shown)
  <2>1. arena \in Shown /\ DefaultShown \in Shown
    BY ClientAssumption DEF ClientInv, ClientTypeOK, DefaultShown, Shown, Phase
  <2>2. <<arena>> \in Seq(Shown) /\ <<DefaultShown>> \in Seq(Shown) /\ <<>> \in Seq(Shown)
    BY <2>1
  <2> QED BY <2>2 DEF Connect, Connected, Reached
<1>6. ClientTypeOK'
  BY <1>1, <1>5 DEF ClientInv, ClientTypeOK, provider
<1>7. RecordInv' /\ OtherInv'
  BY <1>1, <1>2, RecordsStay DEF ClientInv
<1> QED BY <1>1, <1>2, <1>4, <1>6, <1>7 DEF ClientInv, WireInv

\* The stream is closed: by an error, or by the liveness timer.
LEMMA DisconnectKeeps == ASSUME ClientInv, HandleDisconnect PROVE ClientInv'
<1>1. UNCHANGED provider /\ UNCHANGED <<arena, slot, other>>
  BY DEF HandleDisconnect, arenaVars
<1>2. Grows /\ StorageInv' /\ Truthful' = Truthful
  BY <1>1, ProviderStays
<1>3. WireInv'
  BY <1>2, AbandonedIsTrue, EmptySeq DEF HandleDisconnect, ClientInv, WireInv
<1>4. ClientTypeOK'
  BY <1>1, EmptySeq DEF HandleDisconnect, ClientInv, ClientTypeOK, provider
<1>5. RecordInv' /\ OtherInv'
  BY <1>1, <1>2, RecordsStay DEF ClientInv
<1> QED BY <1>2, <1>3, <1>4, <1>5 DEF ClientInv

LEMMA FailKeeps == ASSUME ClientInv, Fail PROVE ClientInv'
<1>1. UNCHANGED provider /\ UNCHANGED <<arena, slot, other, sent, late, news>>
  BY DEF Fail, arenaVars
<1>2. RecordInv' /\ OtherInv'
  BY <1>1, ProviderStays, RecordsStay DEF ClientInv
<1> QED BY <1>1, <1>2, TaskKeeps DEF ClientInv, WireInv

\* A response: a reset blanks the panel and its storage and says so, or finds
\* nobody logged in; anything else leaves what was entered.
LEMMA ResponseKeeps ==
  ASSUME ClientInv, NEW new \in Shown, ~unsaved, TakeResponse(new), news' \in Seq(Shown)
  PROVE  ClientInv'
<1>1. /\ UNCHANGED <<arena, slot, other, panel, savedShown, made, carried, late>>
      /\ savedShown = shown /\ shown' = new /\ unsaved'
  BY DEF TakeResponse, arenaVars, ClientInv, StorageInv
<1>2. ClientTypeOK'
  BY <1>1 DEF ClientInv, ClientTypeOK
<1>3. Len(made) \in Nat /\ 0 \notin EntriesOf(shown.match)
  BY LenProperties DEF ClientInv, ClientTypeOK, EntriesOf
<1>4. Grows
  BY <1>1, <1>3 DEF Grows, TakeResponse, Unheard, ResetPanel
<1>5. CASE ~Resets(shown, new)
  <2>1. UNCHANGED <<matchId, state, saved, strayed, sent>> /\ new.match = shown.match
        /\ (new.phase = "waiting" => shown.phase = "waiting")
    BY <1>5 DEF TakeResponse, Resets
  <2>2. StorageInv'
    BY <1>1, <1>4, <2>1, EditsStay DEF ClientInv, StorageInv
  <2>3. WireInv'
    BY <1>1, <1>4, <2>1, RequestsStay DEF ClientInv, WireInv
  <2> QED BY <1>1, <1>2, <1>4, <2>2, <2>3, RecordsStay DEF ClientInv
<1>6. CASE Resets(shown, new) /\ panel = Out
  <2>1. UNCHANGED <<matchId, state, saved, sent>> /\ strayed' = strayed \cup (saved \ Blank)
    BY <1>6 DEF TakeResponse, Unheard
  <2>2. saved = Blank \/ saved \subseteq EntriesOf(shown.match)
    BY DEF ClientInv, StorageInv, StoredFor
  <2>3. \A m : saved \in StoredFor(m)'
    BY <1>1, <1>3, <2>1, <2>2 DEF StoredFor, EntriesOf, Blank
  <2>4. StorageInv'
    BY <1>1, <1>6, <2>1, <2>3 DEF ClientInv, StorageInv
  <2>5. WireInv'
    BY <1>1, <1>4, <2>1, RequestsStay DEF ClientInv, WireInv
  <2> QED BY <1>1, <1>2, <1>4, <2>4, <2>5, RecordsStay DEF ClientInv
<1>7. CASE Resets(shown, new) /\ panel # Out
  <2>1. /\ matchId' = new.match /\ state' = Blank /\ saved' = Blank /\ UNCHANGED strayed
        /\ Send(Saying(new.match, panel, Blank))
    BY <1>7 DEF TakeResponse, ResetPanel, UpdateAndSend
  <2>2. StorageInv'
    BY <1>1, <1>7, <2>1 DEF StorageInv, StoredFor, EnteredFor
  <2>3. Saying(new.match, panel, Blank) \in Truthful'
    <3>1. panel \in Panel /\ new.match \in Match
      BY <1>7 DEF ClientInv, ClientTypeOK, Shown
    <3>2. Blank \in EnteredFor(new.match, panel)
      BY DEF EnteredFor
    <3>3. Saying(new.match, panel, Blank) \in Truthful
      BY <3>1, <3>2, SayingIsTrue DEF SayingsAreTrue, ClientInv
    <3> QED BY <1>4, <3>3, EditsStay
  <2>4. sent' \in Seq(Truthful')
    BY <1>4, <2>1, <2>3, SentStay DEF ClientInv
  <2>5. WireInv'
    BY <1>1, <1>4, <2>4, RequestsStay DEF ClientInv, WireInv
  <2> QED BY <1>1, <1>2, <1>4, <2>2, <2>5, RecordsStay DEF ClientInv
<1> QED BY <1>5, <1>6, <1>7

LEMMA ReceiveKeeps == ASSUME ClientInv, Receive PROVE ClientInv'
<1>1. Head(news) \in Shown /\ news' \in Seq(Shown)
  BY HeadTailProperties DEF Receive, ClientInv, ClientTypeOK
<1> QED BY <1>1, ResponseKeeps DEF Receive

LEMMA HeartbeatKeeps == ASSUME ClientInv, Heartbeat PROVE ClientInv'
<1>1. arena \in Shown /\ DefaultShown \in Shown /\ news' \in Seq(Shown)
  BY ClientAssumption DEF Heartbeat, ClientInv, ClientTypeOK, DefaultShown, Shown, Phase
<1>2. \E new \in Shown : TakeResponse(new)
  BY <1>1 DEF Heartbeat
<1> QED BY <1>1, <1>2, ResponseKeeps DEF Heartbeat

LEMMA SaveKeeps == ASSUME ClientInv, SaveResponse PROVE ClientInv'
<1>1. UNCHANGED <<made, carried, strayed, panel, shown, state, saved, matchId>>
      /\ UNCHANGED <<arena, slot, other, sent, late, news>> /\ savedShown' = shown
  BY DEF SaveResponse, arenaVars, wire
<1>2. Grows
  BY <1>1, NothingGrows DEF ClientInv
<1>3. ClientTypeOK'
  BY <1>1 DEF ClientInv, ClientTypeOK
<1>4. StorageInv'
  <2>1. (\A m : StoredFor(m)' = StoredFor(m)) /\ (\A m, p : EnteredFor(m, p)' = EnteredFor(m, p))
    BY <1>1 DEF StoredFor, EnteredFor, EditsOf, EntriesOf
  <2> QED BY <1>1, <2>1 DEF ClientInv, StorageInv
<1>5. WireInv'
  BY <1>1, <1>2, RequestsStay DEF ClientInv, WireInv
<1> QED BY <1>1, <1>2, <1>3, <1>4, <1>5, RecordsStay DEF ClientInv

\* An edit is made for the match and the panel that are shown.
LEMMA EditKeeps == ASSUME ClientInv, Edit PROVE ClientInv'
<1> DEFINE n == Len(made) + 1
           entry == [match |-> shown.match, panel |-> panel]
<1>1. UNCHANGED <<arena, slot, other, panel, shown, matchId, savedShown, unsaved, carried, strayed, late, news>>
  BY DEF Edit, arenaVars
<1>2. ~unsaved /\ savedShown = shown /\ matchId = shown.match /\ shown.match \in Match /\ panel \in Panel
      /\ shown.phase = "playing"
  BY DEF Edit, ClientInv, ClientTypeOK, StorageInv, Shown
<1>3. entry \in [match : Match, panel : Panel] /\ made' = Append(made, entry)
  BY <1>2 DEF Edit
<1>4. /\ made' \in Seq([match : Match, panel : Panel])
      /\ Len(made) \in Nat /\ Len(made') = Len(made) + 1
      /\ made'[n] = entry /\ \A i \in 1..Len(made) : made'[i] = made[i]
  BY <1>3, AppendProperties, LenProperties DEF ClientInv, ClientTypeOK
<1>5. Grows
  BY <1>1, <1>4 DEF Grows
<1>6. ClientTypeOK'
  BY <1>1, <1>4 DEF ClientInv, ClientTypeOK
<1>7. state' = (state \ Blank) \cup {n} /\ saved' = state' /\ Send(Saying(matchId, panel, state'))
  BY DEF Edit, UpdateAndSend
<1>8. state' \subseteq EditsOf(shown.match, panel)'
  <2>1. n \in EditsOf(shown.match, panel)'
    BY <1>1, <1>4 DEF EditsOf, EntriesOf
  <2>2. state \ Blank \subseteq EditsOf(shown.match, panel)
    BY DEF Edit, ClientInv, StorageInv, EnteredFor
  <2> QED BY <1>1, <1>5, <1>7, <2>1, <2>2, EditsStay
<1>9. StorageInv'
  <2>1. EditsOf(shown.match, panel)' \subseteq EntriesOf(shown.match)'
    BY DEF EditsOf
  <2>2. saved' \in StoredFor(shown.match)' /\ state' \in EnteredFor(shown.match, panel)'
    BY <1>7, <1>8, <2>1 DEF StoredFor, EnteredFor
  <2> QED BY <1>1, <1>2, <2>2 DEF Edit, StorageInv
<1>10. WireInv'
  <2>1. Saying(matchId, panel, state') \in Truthful'
    BY <1>1, <1>2, <1>6, <1>8, SayingStaysTrue DEF SayingsAreTrue, Saying, EnteredFor
  <2>2. sent' \in Seq(Truthful')
    BY <1>5, <1>7, <2>1, SentStay DEF ClientInv
  <2> QED BY <1>1, <1>5, <2>2, RequestsStay DEF ClientInv, WireInv
<1> QED BY <1>1, <1>5, <1>6, <1>9, <1>10, RecordsStay DEF ClientInv

\* A login restores what is in storage, which is of the match or has strayed,
\* and takes it along to the panel.
LEMMA LoginKeeps == ASSUME ClientInv, NEW p \in Panel, Login(p) PROVE ClientInv'
<1>1. UNCHANGED <<arena, slot, other, shown, saved, savedShown, unsaved, made, strayed, late, news>>
  BY DEF Login, arenaVars
<1>2. /\ panel' = p /\ matchId' = shown.match /\ state' = Restored
      /\ shown.match \in Match /\ ClientAssumption
      /\ carried' = carried \cup {n \in state' \ Blank : made[n].panel # p}
      /\ Send(Saying(shown.match, p, state'))
  BY ClientAssumption DEF Login, ClientInv, ClientTypeOK, Shown
<1>3. Grows
  BY <1>1, <1>2, LenProperties DEF Grows, ClientInv, ClientTypeOK
<1>4. ClientTypeOK'
  BY <1>1, <1>2 DEF ClientInv, ClientTypeOK
<1>5. state' \in EnteredFor(shown.match, p)'
  <2>1. state' = Blank \/ state' \subseteq EntriesOf(shown.match)
    BY <1>2 DEF Restored, ClientInv, StorageInv, StoredFor
  <2>2. ASSUME state' # Blank, NEW n \in state'
        PROVE  n \in EditsOf(shown.match, p)'
    <3>1. n \in EntriesOf(shown.match) /\ n # 0
      BY <2>1, <2>2, EditsAreNumbers DEF ClientInv
    <3>2. n \in EntriesOf(shown.match)'
      BY <1>1, <3>1 DEF EntriesOf
    <3>3. made[n].panel = p \/ n \in carried'
      BY <1>2, <2>2, <3>1 DEF Blank
    <3> QED BY <1>1, <3>2, <3>3 DEF EditsOf
  <2>3. state' = Blank \/ state' \subseteq EditsOf(shown.match, p)'
    BY <2>2
  <2> QED BY <2>3 DEF EnteredFor
<1>6. StorageInv'
  <2>1. shown.phase = "waiting" => state' = Blank
    BY <1>2 DEF Restored
  <2>2. p # Out
    BY <1>2 DEF ClientAssumption
  <2>3. \A m : StoredFor(m) \subseteq StoredFor(m)'
    BY <1>3, EditsStay
  <2> QED BY <1>1, <1>2, <1>5, <2>1, <2>2, <2>3 DEF ClientInv, StorageInv
<1>7. WireInv'
  <2>1. Saying(shown.match, p, state') \in Truthful'
    BY <1>1, <1>2, <1>4, <1>5, SayingStaysTrue DEF SayingsAreTrue, Saying
  <2>2. sent' \in Seq(Truthful')
    BY <1>2, <1>3, <2>1, SentStay DEF ClientInv
  <2> QED BY <1>1, <1>3, <2>2, RequestsStay DEF ClientInv, WireInv
<1> QED BY <1>1, <1>3, <1>4, <1>6, <1>7, RecordsStay DEF ClientInv

LEMMA LogoutKeeps == ASSUME ClientInv, Logout PROVE ClientInv'
<1>1. UNCHANGED <<arena, slot, other, shown, saved, savedShown, unsaved, made, carried, strayed>>
      /\ UNCHANGED wire /\ panel' = Out /\ state' = Blank
  BY DEF Logout, LoggedOut, arenaVars
<1>2. Grows
  BY <1>1, NothingGrows DEF ClientInv
<1>3. ClientTypeOK'
  BY <1>1 DEF ClientInv, ClientTypeOK, wire
<1>4. StorageInv'
  BY <1>1, <1>2, EditsStay DEF ClientInv, StorageInv
<1>5. WireInv'
  BY <1>1, <1>2, RequestsStay DEF ClientInv, WireInv, wire
<1> QED BY <1>1, <1>2, <1>3, <1>4, <1>5, RecordsStay DEF ClientInv

\* After a restart, storage is all there is.
LEMMA RestartKeeps == ASSUME ClientInv, Restart PROVE ClientInv'
<1>1. UNCHANGED <<arena, slot, other, saved, savedShown, made, carried, strayed>>
      /\ shown' = savedShown /\ ~unsaved' /\ panel' = Out /\ state' = Blank
  BY DEF Restart, LoggedOut, arenaVars
<1>2. Grows
  BY <1>1, NothingGrows DEF ClientInv
<1>3. Truthful' = Truthful
  BY <1>1 DEF Truthful, EnteredFor, RecordOf, EditsOf, EntriesOf
<1>4. ClientTypeOK'
  BY <1>1, EmptySeq DEF Restart, ClientInv, ClientTypeOK
<1>5. StorageInv'
  BY <1>1, <1>2, EditsStay DEF ClientInv, StorageInv
<1>6. WireInv'
  BY <1>3, AbandonedIsTrue, EmptySeq DEF Restart, ClientInv, WireInv
<1> QED BY <1>1, <1>2, <1>4, <1>5, <1>6, RecordsStay DEF ClientInv

LEMMA ClientStep == ClientInv /\ [Next]_vars => ClientInv'
<1> SUFFICES ASSUME ClientInv, [Next]_vars PROVE ClientInv'
  OBVIOUS
<1>1. CASE UNCHANGED vars
  <2>1. UNCHANGED provider /\ UNCHANGED <<arena, news, sent, late, slot, other>>
    BY <1>1 DEF vars, arenaVars, wire
  <2>2. RecordInv' /\ OtherInv'
    BY <2>1, ProviderStays, RecordsStay DEF ClientInv
  <2> QED BY <2>1, <2>2, TaskKeeps DEF ClientInv, WireInv
<1>2. CASE \E m \in Match : Load(m) \/ OtherReads(m)
  BY <1>2, LoadKeeps, OtherReadsKeeps
<1>3. CASE Disconnect \/ Stale
  BY <1>3, DisconnectKeeps DEF Disconnect, Stale
<1>4. CASE \E i \in DOMAIN late : TakeUpLate(i) \/ FinishLate(i)
  BY <1>4, TakeUpLateKeeps, FinishLateKeeps
<1>5. CASE \E p \in Panel : Login(p)
  BY <1>5, LoginKeeps
<1> QED BY <1>1, <1>2, <1>3, <1>4, <1>5, StartKeeps, RedoKeeps, TakeUpKeeps, FinishKeeps, OtherWritesKeeps,
           ConnectKeeps, FailKeeps, ReceiveKeeps, HeartbeatKeeps, SaveKeeps, EditKeeps, LogoutKeeps,
           RestartKeeps DEF Next

-----------------------------------------------------------------------------
(* The theorems.                                                           *)

LEMMA ClientAlways == Spec => []ClientInv
BY ClientInit, ClientStep, PTL DEF Spec

\* A record holds of a panel what was entered there for its match, or what was
\* in storage while the match changed unseen, however often streams break,
\* calls overlap, requests arrive late and tablets start again.
THEOREM RecordsHoldTheirMatch == Spec => []EntriesOfTheirMatch
<1>1. ClientInv => EntriesOfTheirMatch
  BY DEF ClientInv, RecordInv, RecordOf, EditsOf, EntriesOf, EntriesOfTheirMatch
<1> QED BY <1>1, ClientAlways, PTL

\* A panel that waits for a match shows nothing of an earlier one.
THEOREM WaitingPanelsAreBlank == Spec => []WaitingIsBlank
<1>1. ClientInv => WaitingIsBlank
  BY DEF ClientInv, StorageInv, WaitingIsBlank
<1> QED BY <1>1, ClientAlways, PTL
=============================================================================
