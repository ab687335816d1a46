-------------------------- MODULE PanelStream_proofs --------------------------
(***************************************************************************)
(* What a client is shown under a match was entered for that match, and on  *)
(* the match info route infos only advance; for any number of matches,      *)
(* panels, writes, reports and faults.                                      *)
(*                                                                         *)
(* The argument follows the calls through every copy the code makes of      *)
(* them: the table, the records on their way, the queue, the copy of the    *)
(* event branch and that of the heartbeat.  A copy of a record knows its    *)
(* match; the branch's copy belongs to the branch's match whenever the      *)
(* branch serves, and the heartbeat's to the match the heartbeat has read.  *)
(***************************************************************************)
EXTENDS PanelStream, FiniteSetTheorems, SequenceTheorems, TLAPS

\* Every call in it was entered for match m.
Entered(calls, m) ==
  \A p \in Panel : calls[p] # 0 => calls[p] \in 1..Len(owner) /\ owner[calls[p]] = m

RecordsEntered == \A m \in Match : Entered(records[m], m)
OnTheirWay == \A r \in unpublished : Entered(r.calls, r.match)
Queued == \A i \in 1..Len(stateRx) : Entered(stateRx[i].calls, stateRx[i].match)
Served == pc = "rotation" \/ (pc = "serve" /\ route # "fms") => Entered(state.calls, fms.match)
Refreshed == Entered(fresh.state.calls, fresh.info.match)
ShownEntered == Entered(shown.calls, shown.info.match)

Inv ==
  /\ TypeOK
  /\ IsFiniteSet(completed)
  /\ RecordsEntered
  /\ OnTheirWay
  /\ Queued
  /\ Served
  /\ Refreshed
  /\ ShownEntered

\* What the proofs need of the constants; the bounds play no part.
LEMMA ConstantsType ==
  /\ Idle \in Match
  /\ Partner \in [Panel -> Panel] /\ Type \subseteq Panel
  /\ Unset \notin Panel /\ Unset \notin [match : Match, rev : Nat]
BY StreamAssumption

USE ConstantsType

-----------------------------------------------------------------------------
(* Lemmas about the operators.                                             *)

\* Nothing entered is entered for any match.
LEMMA NothingEntered == \A m \in Match : Entered(NoCalls, m)
BY DEF Entered, NoCalls

LEMMA NoCallsType == NoCalls \in Calls /\ NoRecord \in Record /\ DefaultInfo \in Info /\ Nothing \in Response
BY DEF NoCalls, Calls, NoRecord, Record, DefaultInfo, Info, Nothing, Response

\* The history only grows, so what is entered for a match stays so.
LEMMA EnteredStays ==
  ASSUME TypeOK, NEW m \in Match, owner' = Append(owner, m), NEW n \in Match, NEW calls \in Calls,
         Entered(calls, n)
  PROVE  \A p \in Panel : calls[p] # 0 => calls[p] \in 1..Len(owner') /\ owner'[calls[p]] = n
<1>1. owner \in Seq(Match) /\ Len(owner') = Len(owner) + 1
  BY DEF TypeOK
<1>2. \A i \in 1..Len(owner) : owner'[i] = owner[i]
  BY <1>1
<1> QED BY <1>1, <1>2 DEF Entered

\* A response has its type and shows a part of the record's calls.
LEMMA ResponseOf ==
  ASSUME NEW info \in Info, NEW r \in Record, NEW type, NEW rot \in Nat, Entered(r.calls, info.match)
  PROVE  /\ build_response(info, r, type, rot) \in Response
         /\ build_response(info, r, type, rot).info = info
         /\ Entered(build_response(info, r, type, rot).calls, info.match)
<1> DEFINE calls == [p \in Panel |-> IF Visible(p, type) THEN r.calls[p] ELSE 0]
<1>1. calls \in Calls
  BY DEF Record, Calls
<1>2. build_response(info, r, type, rot) = [info |-> info, calls |-> calls, rotation |-> rot]
  BY DEF build_response
<1>3. Entered(calls, info.match)
  BY DEF Entered
<1> HIDE DEF calls
<1> QED BY <1>1, <1>2, <1>3 DEF Response

LEMMA RotationIsNat == IsFiniteSet(completed) => Rotation \in Nat
BY FS_CardinalityType DEF Rotation

\* What the event branch yields is shown or not; either way the client's view
\* stays one of its match.
LEMMA YieldKeeps ==
  ASSUME Inv, NEW info \in Info, NEW r \in Record, NEW type, NEW rot \in Nat,
         Entered(r.calls, info.match), Yield(build_response(info, r, type, rot)), UNCHANGED owner
  PROVE  last' \in Response /\ shown' \in Response /\ ShownEntered'
<1> DEFINE value == build_response(info, r, type, rot)
<1>1. value \in Response /\ value.info = info /\ Entered(value.calls, info.match)
  BY ResponseOf
<1>2. last' = value /\ shown' \in {shown, value}
  BY DEF Yield
<1> HIDE DEF value
<1>3. shown \in Response /\ ShownEntered
  BY DEF Inv, TypeOK
<1>4. CASE shown' = shown
  BY <1>1, <1>2, <1>3, <1>4 DEF ShownEntered, Entered
<1>5. CASE shown' = value
  BY <1>1, <1>2, <1>5 DEF ShownEntered, Entered
<1> QED BY <1>2, <1>4, <1>5

-----------------------------------------------------------------------------
(* Steps.                                                                  *)

LEMMA InitInv == Init => Inv
<1> SUFFICES ASSUME Init PROVE Inv
  OBVIOUS
<1>1. TypeOK
  BY NoCallsType, EmptySeq DEF Init, TypeOK, NoWatch
<1>2. IsFiniteSet(completed)
  BY FS_EmptySet DEF Init
<1>3. RecordsEntered /\ OnTheirWay /\ Queued /\ Served
  BY NothingEntered DEF Init, RecordsEntered, OnTheirWay, Queued, Served
<1>4. Refreshed /\ ShownEntered
  BY NothingEntered DEF Init, Refreshed, ShownEntered, Nothing, NoRecord, DefaultInfo
<1> QED BY <1>1, <1>2, <1>3, <1>4 DEF Inv

LEMMA PersistInv == ASSUME Inv, NEW m \in Match, Persist(m) PROVE Inv'
<1>1. TypeOK'
  BY DEF Inv, TypeOK, Persist, Info, CanFail, copies, client, heart, wire
<1> QED BY <1>1 DEF Inv, RecordsEntered, OnTheirWay, Queued, Served, Refreshed, ShownEntered, Entered,
                    Persist, copies, client, heart, wire

LEMMA AnnounceInv == ASSUME Inv, Announce PROVE Inv'
<1>1. TypeOK'
  BY DEF Inv, TypeOK, Announce, copies, client, heart, wire
<1> QED BY <1>1 DEF Inv, RecordsEntered, OnTheirWay, Queued, Served, Refreshed, ShownEntered, Entered,
                    Announce, copies, client, heart, wire

\* A write belongs to its match; all copies made before stay as they were.
LEMMA WriteInv == ASSUME Inv, NEW m \in Match, Write(m) PROVE Inv'
<1> USE DEF Write, copies, client, heart, wire
<1>1. records' \in [Match -> Calls] /\ completed' \subseteq Match /\ writes' \in Nat
  <2>1. records \in [Match -> Calls] /\ completed \subseteq Match /\ writes \in Nat
    BY DEF Inv, TypeOK
  <2>2. CASE \E p \in Panel : records' = [records EXCEPT ![m][p] = writes + 1] /\ UNCHANGED completed
    <3>1. PICK p \in Panel : records' = [records EXCEPT ![m] = [records[m] EXCEPT ![p] = writes + 1]]
      BY <2>2
    <3>2. records[m] \in [Panel -> Nat] /\ writes + 1 \in Nat
      BY <2>1 DEF Calls
    <3>3. [records[m] EXCEPT ![p] = writes + 1] \in Calls
      BY <3>2 DEF Calls
    <3>4. records' \in [Match -> Calls]
      <4> DEFINE row == [records[m] EXCEPT ![p] = writes + 1]
      <4> HIDE DEF row
      <4>1. row \in Calls /\ records' = [records EXCEPT ![m] = row]
        BY <3>1, <3>3 DEF row
      <4> QED BY <2>1, <4>1
    <3> QED BY <2>1, <2>2, <3>4
  <2> QED BY <2>1, <2>2
<1>2. owner' \in Seq(Match) /\ Len(owner') = writes'
  BY DEF Inv, TypeOK
<1>3. TypeOK'
  BY <1>1, <1>2 DEF Inv, TypeOK, Record
<1>4. IsFiniteSet(completed')
  BY FS_AddElement DEF Inv
<1>5. RecordsEntered'
  <2> SUFFICES ASSUME NEW n \in Match, NEW p \in Panel, records'[n][p] # 0
               PROVE  records'[n][p] \in 1..Len(owner') /\ owner'[records'[n][p]] = n
    BY DEF RecordsEntered, Entered
  <2>1. Entered(records[n], n) /\ records[n] \in Calls
    BY DEF Inv, RecordsEntered, TypeOK
  <2>2. CASE records'[n][p] = records[n][p]
    BY <2>1, <2>2, EnteredStays DEF Inv
  <2>3. CASE records'[n][p] # records[n][p]
    <3>1. n = m /\ records'[n][p] = writes + 1
      BY <2>3 DEF Inv, TypeOK, Calls
    <3>2. owner'[writes + 1] = m /\ Len(owner') = writes + 1 /\ writes \in Nat
      BY DEF Inv, TypeOK
    <3> QED BY <3>1, <3>2
  <2> QED BY <2>2, <2>3
<1>6. OnTheirWay'
  <2> SUFFICES ASSUME NEW r \in unpublished' PROVE Entered(r.calls, r.match)'
    BY DEF OnTheirWay
  <2>1. CASE r \in unpublished
    <3>1. r.calls \in Calls /\ r.match \in Match /\ Entered(r.calls, r.match)
      BY <2>1 DEF Inv, TypeOK, Record, OnTheirWay
    <3> QED BY <3>1, EnteredStays DEF Inv, Entered
  <2>2. CASE r = [match |-> m, calls |-> records'[m]]
    BY <1>5, <2>2 DEF RecordsEntered, Entered
  <2> QED BY <2>1, <2>2
<1>7. Queued'
  <2> SUFFICES ASSUME NEW i \in 1..Len(stateRx) PROVE Entered(stateRx[i].calls, stateRx[i].match)'
    BY DEF Queued
  <2>1. stateRx[i] \in Record /\ Entered(stateRx[i].calls, stateRx[i].match)
    BY DEF Inv, TypeOK, Queued
  <2>2. stateRx[i].calls \in Calls /\ stateRx[i].match \in Match
    BY <2>1 DEF Record
  <2> QED BY <2>1, <2>2, EnteredStays DEF Inv, Entered
<1>8. Served'
  <2>1. state.calls \in Calls /\ fms.match \in Match
    BY DEF Inv, TypeOK, Record, Info
  <2> QED BY <2>1, EnteredStays DEF Inv, Served, Entered
<1>9. Refreshed'
  <2>1. fresh.state.calls \in Calls /\ fresh.info.match \in Match
    BY DEF Inv, TypeOK, Record, Info
  <2> QED BY <2>1, EnteredStays DEF Inv, Refreshed, Entered
<1>10. ShownEntered'
  <2>1. shown.calls \in Calls /\ shown.info.match \in Match
    BY DEF Inv, TypeOK, Response, Info
  <2> QED BY <2>1, EnteredStays DEF Inv, ShownEntered, Entered
<1> QED BY <1>3, <1>4, <1>5, <1>6, <1>7, <1>8, <1>9, <1>10 DEF Inv

LEMMA PublishInv == ASSUME Inv, NEW r \in unpublished, Publish(r) PROVE Inv'
<1> USE DEF Publish, copies, client, heart, wire
<1>1. r \in Record /\ Entered(r.calls, r.match)
  BY DEF Inv, TypeOK, OnTheirWay
<1>2. stateRx' \in Seq(Record) /\ stateRx' \in {stateRx, Append(stateRx, r)}
  <2>1. stateRx \in Seq(Record)
    BY DEF Inv, TypeOK
  <2>2. stateRx' \in {stateRx, Append(stateRx, r)}
    OBVIOUS
  <2> QED BY <1>1, <2>1, <2>2
<1>3. TypeOK'
  BY <1>2 DEF Inv, TypeOK, CanFail
<1>4. Queued'
  <2> SUFFICES ASSUME NEW i \in 1..Len(stateRx') PROVE Entered(stateRx'[i].calls, stateRx'[i].match)
    BY DEF Queued, Entered
  <2>1. stateRx \in Seq(Record)
    BY DEF Inv, TypeOK
  <2>2. stateRx'[i] = r \/ (i \in 1..Len(stateRx) /\ stateRx'[i] = stateRx[i])
    BY <1>2, <2>1
  <2> QED BY <1>1, <2>2 DEF Inv, Queued
<1> QED BY <1>3, <1>4 DEF Inv, RecordsEntered, OnTheirWay, Served, Refreshed, ShownEntered, Entered

LEMMA ClientInv ==
  ASSUME Inv, (\E p \in Type : SendPanel(p)) \/ HalfClose \/ Reconnect
  PROVE  Inv'
<1>1. CASE (\E p \in Type : SendPanel(p)) \/ HalfClose
  <2>1. TypeOK'
    <3>1. watch' \in [panel : Panel \cup {Unset}, news : BOOLEAN] /\ closed' \in BOOLEAN
      <4>1. CASE HalfClose
        BY <4>1 DEF Inv, TypeOK, HalfClose
      <4>2. CASE \E p \in Type : SendPanel(p)
        <5>1. PICK p \in Panel : watch' = [panel |-> p, news |-> TRUE] /\ closed' = closed
          BY <4>2 DEF SendPanel
        <5> QED BY <5>1 DEF Inv, TypeOK
      <4> QED BY <1>1, <4>1, <4>2
    <3>2. moves' \in Nat /\ faults' \in Nat
      BY <1>1 DEF Inv, TypeOK, SendPanel, HalfClose
    <3> QED BY <1>1, <3>1, <3>2 DEF Inv, TypeOK, SendPanel, HalfClose, env, copies, heart, wire
  <2> QED BY <1>1, <2>1 DEF Inv, RecordsEntered, OnTheirWay, Queued, Served, Refreshed, ShownEntered,
                            Entered, SendPanel, HalfClose, env, copies, heart, wire
<1>2. CASE Reconnect
  <2>1. TypeOK'
    <3>1. watch' \in [panel : Panel \cup {Unset}, news : BOOLEAN]
      BY <1>2 DEF Inv, TypeOK, Reconnect
    <3>2. fresh' \in [info : Info, state : Record] /\ fmsRx' \in Seq(Info) /\ stateRx' \in Seq(Record)
      BY <1>2, NoCallsType, EmptySeq DEF Reconnect
    <3>3. /\ fms' \in Info /\ state' \in Record /\ rotation' \in Nat
          /\ panel' \in Panel \cup {Unset} /\ last' \in Response \cup {Unset}
      BY <1>2, NoCallsType DEF Reconnect
    <3>4. /\ pc' = "open" /\ closed' = FALSE /\ resync' = "off" /\ faults' \in Nat
          /\ UNCHANGED <<env, route, moves, shown>>
      BY <1>2 DEF Inv, TypeOK, Reconnect
    <3> QED BY <3>1, <3>2, <3>3, <3>4 DEF Inv, TypeOK, env
  <2>2. Refreshed'
    BY <1>2 DEF Reconnect, Refreshed, Entered, NoRecord, NoCalls
  <2> QED BY <1>2, <2>1, <2>2 DEF Inv, RecordsEntered, OnTheirWay, Queued, Served, ShownEntered, Entered,
                                  Reconnect, env
<1> QED BY <1>1, <1>2

LEMMA OpeningInv == ASSUME Inv, Opening PROVE Inv'
<1>1. CASE Subscribe \/ ReadInfo \/ ReadInitial
  <2>1. TypeOK'
    BY <1>1, NoCallsType DEF Inv, TypeOK, Subscribe, ReadInfo, ReadInitial, Read, env, copies, client,
                                heart, wire
  <2> QED BY <1>1, <2>1 DEF Inv, RecordsEntered, OnTheirWay, Queued, Served, Refreshed, ShownEntered,
                  Entered, Subscribe, ReadInfo, ReadInitial, Read, env, copies, client, heart, wire
<1>2. CASE FirstInfo
  <2>1. [Nothing EXCEPT !.info = fms] = [info |-> fms, calls |-> NoCalls, rotation |-> 0]
    BY DEF Nothing
  <2>2. shown' \in {shown, [info |-> fms, calls |-> NoCalls, rotation |-> 0]}
    BY <1>2, <2>1 DEF FirstInfo
  <2>3. TypeOK'
    BY <1>2, <2>2, NoCallsType DEF Inv, TypeOK, FirstInfo, Response, env, copies, client, heart
  <2>4. ShownEntered'
    BY <1>2, <2>2 DEF Inv, ShownEntered, Entered, NoCalls, FirstInfo, env
  <2> QED BY <1>2, <2>3, <2>4 DEF Inv, RecordsEntered, OnTheirWay, Queued, Served, Refreshed,
                                  Entered, FirstInfo, env, copies, client, heart
<1> QED BY <1>1, <1>2 DEF Opening

LEMMA ShowInfoInv == ASSUME Inv, ShowInfo PROVE Inv'
<1> USE DEF ShowInfo, env, client, heart
<1>1. Head(fmsRx) \in Info /\ Tail(fmsRx) \in Seq(Info)
  BY DEF Inv, TypeOK
<1>2. shown' = [info |-> Head(fmsRx), calls |-> NoCalls, rotation |-> 0]
  BY DEF Nothing
<1>3. TypeOK'
  BY <1>1, <1>2, NoCallsType DEF Inv, TypeOK, Response
<1>4. ShownEntered'
  BY <1>2 DEF ShownEntered, Entered, NoCalls
<1> QED BY <1>3, <1>4 DEF Inv, RecordsEntered, OnTheirWay, Queued, Served, Refreshed, Entered

\* The record that is read is that of the branch's match.
LEMMA ReadStateInv == ASSUME Inv, ReadState PROVE Inv'
<1> USE DEF ReadState, Read, env, client, heart, wire
<1>1. fms.match \in Match
  BY DEF Inv, TypeOK, Info
<1>2. state' \in Record /\ Entered(state'.calls, fms.match)
  BY <1>1, NoCallsType, NothingEntered DEF Inv, TypeOK, Record, RecordsEntered
<1>3. TypeOK'
  BY <1>2 DEF Inv, TypeOK, CanFail
<1>4. Served'
  BY <1>2 DEF Served, Entered
<1> QED BY <1>3, <1>4 DEF Inv, RecordsEntered, OnTheirWay, Queued, Refreshed, ShownEntered, Entered

LEMMA YieldResponseInv == ASSUME Inv, YieldResponse PROVE Inv'
<1> USE DEF YieldResponse, env, client, heart
<1>1. rotation' \in Nat /\ faults' \in Nat
  BY RotationIsNat DEF Inv, TypeOK, Read
<1>2. last' \in Response /\ shown' \in Response /\ ShownEntered'
  BY <1>1, YieldKeeps DEF Inv, TypeOK, Served
<1>3. TypeOK'
  BY <1>1, <1>2 DEF Inv, TypeOK
<1> QED BY <1>2, <1>3 DEF Inv, RecordsEntered, OnTheirWay, Queued, Served, Refreshed, Entered

\* Of the same match the branch's record stays good; of another one it is read
\* again before anything is yielded.
LEMMA OnInfoInv == ASSUME Inv, OnInfo PROVE Inv'
<1> USE DEF OnInfo, env, client, heart
<1>1. Head(fmsRx) \in Info /\ Tail(fmsRx) \in Seq(Info)
  BY DEF Inv, TypeOK
<1>2. CASE Head(fmsRx).match # fms.match /\ pc' = "state" /\ UNCHANGED wire
  <2>1. TypeOK'
    BY <1>1, <1>2 DEF Inv, TypeOK, wire
  <2> QED BY <1>2, <2>1 DEF Inv, RecordsEntered, OnTheirWay, Queued, Served, Refreshed, ShownEntered,
                            Entered, wire
<1>3. CASE /\ Head(fmsRx).match = fms.match /\ UNCHANGED pc
           /\ Yield(build_response(Head(fmsRx), state, panel, rotation))
  <2>1. Entered(state.calls, Head(fmsRx).match) /\ state \in Record /\ rotation \in Nat
    BY <1>3 DEF Inv, TypeOK, Served
  <2>2. last' \in Response /\ shown' \in Response /\ ShownEntered'
    BY <1>1, <1>3, <2>1, YieldKeeps
  <2>3. TypeOK'
    BY <1>1, <1>3, <2>2 DEF Inv, TypeOK
  <2>4. Served'
    BY <1>3, <2>1 DEF Served, Entered
  <2> QED BY <2>2, <2>3, <2>4 DEF Inv, RecordsEntered, OnTheirWay, Queued, Refreshed, Entered
<1> QED BY <1>2, <1>3

LEMMA OnRecordInv == ASSUME Inv, OnRecord PROVE Inv'
<1> USE DEF OnRecord, env, client, heart, wire
<1>1. stateRx \in Seq(Record) /\ stateRx # <<>>
  BY DEF Inv, TypeOK
<1>2. /\ Head(stateRx) = stateRx[1] /\ 1 \in 1..Len(stateRx)
      /\ Tail(stateRx) \in Seq(Record) /\ Len(Tail(stateRx)) = Len(stateRx) - 1
      /\ \A i \in 1..Len(Tail(stateRx)) : Tail(stateRx)[i] = stateRx[i + 1] /\ i + 1 \in 1..Len(stateRx)
  BY <1>1
<1>3. Head(stateRx) \in Record /\ Entered(Head(stateRx).calls, Head(stateRx).match)
  BY <1>1, <1>2 DEF Inv, Queued
<1>4. TypeOK'
  BY <1>2, <1>3 DEF Inv, TypeOK
<1>5. Queued'
  <2> SUFFICES ASSUME NEW i \in 1..Len(stateRx') PROVE Entered(stateRx'[i].calls, stateRx'[i].match)
    BY DEF Queued, Entered
  <2> QED BY <1>2 DEF Inv, Queued
<1>6. Served'
  BY <1>3 DEF Inv, Served, Entered
<1> QED BY <1>4, <1>5, <1>6 DEF Inv, RecordsEntered, OnTheirWay, Refreshed, ShownEntered, Entered

LEMMA OnPanelInv == ASSUME Inv, OnPanel PROVE Inv'
<1> USE DEF OnPanel, env, heart
<1>1. Entered(state.calls, fms.match) /\ state \in Record /\ fms \in Info /\ rotation \in Nat
  BY DEF Inv, TypeOK, Served
<1>2. last' \in Response /\ shown' \in Response /\ ShownEntered'
  BY <1>1, YieldKeeps
<1>3. TypeOK'
  BY <1>2 DEF Inv, TypeOK
<1> QED BY <1>2, <1>3 DEF Inv, RecordsEntered, OnTheirWay, Queued, Served, Refreshed, Entered

\* A tick reads the record of the match it has read, and shows the two together.
LEMMA HeartbeatInv == ASSUME Inv, Tick \/ Resync PROVE Inv'
<1> USE DEF env, copies, client
<1>1. CASE Tick
  <2>1. TypeOK'
    BY <1>1 DEF Inv, TypeOK, Tick, wire
  <2> QED BY <1>1, <2>1 DEF Inv, RecordsEntered, OnTheirWay, Queued, Served, Refreshed, ShownEntered,
                            Entered, Tick, wire
<1>2. CASE ResyncInfo
  <2>1. TypeOK'
    BY <1>2, NoCallsType DEF Inv, TypeOK, ResyncInfo, Read, wire
  <2>2. Refreshed'
    BY <1>2 DEF Refreshed, Entered, ResyncInfo, Read, NoRecord, NoCalls
  <2> QED BY <1>2, <2>1, <2>2 DEF Inv, RecordsEntered, OnTheirWay, Queued, Served, ShownEntered, Entered,
                                  ResyncInfo, wire
<1>3. CASE ResyncState
  <2>1. fresh \in [info : Info, state : Record] /\ fresh.info.match \in Match
    BY DEF Inv, TypeOK, Info
  <2>2. records[fresh.info.match] \in Calls /\ Entered(records[fresh.info.match], fresh.info.match)
    BY <2>1 DEF Inv, TypeOK, RecordsEntered
  <2>3. fresh' \in [info : Info, state : Record] /\ Refreshed'
    BY <1>3, <2>1, <2>2 DEF Inv, ResyncState, Read, Refreshed, Entered, Record
  <2>4. TypeOK'
    BY <1>3, <2>3 DEF Inv, TypeOK, ResyncState, Read, wire
  <2> QED BY <1>3, <2>3, <2>4 DEF Inv, RecordsEntered, OnTheirWay, Queued, Served, ShownEntered, Entered,
                                  ResyncState, wire
<1>4. CASE Beat
  <2>0. PICK rot \in {Rotation, 0} :
          Read(rot, Rotation, 0) /\ last' = build_response(fresh.info, fresh.state, watch.panel, rot)
    BY <1>4 DEF Beat
  <2> DEFINE value == build_response(fresh.info, fresh.state, watch.panel, rot)
  <2>1. value \in Response /\ value.info = fresh.info /\ Entered(value.calls, fresh.info.match)
    BY ResponseOf, RotationIsNat DEF Inv, TypeOK, Refreshed
  <2>2. last' = value /\ shown' = value /\ faults' \in Nat
    BY <1>4, <2>0 DEF Beat, Read, Inv, TypeOK
  <2> HIDE DEF value
  <2>3. TypeOK'
    BY <1>4, <2>1, <2>2, NoCallsType DEF Inv, TypeOK, Beat
  <2>4. ShownEntered'
    BY <1>4, <2>1, <2>2 DEF ShownEntered, Entered, Beat
  <2>5. Refreshed'
    BY <1>4 DEF Refreshed, Entered, Beat, NoRecord, NoCalls
  <2> QED BY <1>4, <2>3, <2>4, <2>5 DEF Inv, RecordsEntered, OnTheirWay, Queued, Served, Entered, Beat
<1> QED BY <1>1, <1>2, <1>3, <1>4 DEF Resync

LEMMA StepInv == Inv /\ [Next]_vars => Inv'
<1> SUFFICES ASSUME Inv, [Next]_vars PROVE Inv'
  OBVIOUS
<1>1. CASE Environment
  BY <1>1, PersistInv, WriteInv, AnnounceInv, PublishInv, ClientInv DEF Environment
<1>2. CASE Opening \/ ReadState \/ YieldResponse
  BY <1>2, OpeningInv, ReadStateInv, YieldResponseInv
<1>3. CASE OnInfo \/ OnRecord \/ OnPanel \/ ShowInfo
  BY <1>3, OnInfoInv, OnRecordInv, OnPanelInv, ShowInfoInv
<1>4. CASE Tick \/ Resync
  BY <1>4, HeartbeatInv
<1>5. CASE UNCHANGED vars
  <2> USE DEF vars, env, copies, client, heart, wire
  <2>1. TypeOK'
    BY <1>5 DEF Inv, TypeOK
  <2> QED BY <1>5, <2>1 DEF Inv, RecordsEntered, OnTheirWay, Queued, Served, Refreshed, ShownEntered,
                            Entered
<1> QED BY <1>1, <1>2, <1>3, <1>4, <1>5 DEF Next

-----------------------------------------------------------------------------
(* Theorems.                                                               *)

\* Every variable of a stream keeps its type (referee_panel/api.rs:92-145).
THEOREM TypeCorrect == Spec => []TypeOK
BY InitInv, StepInv, PTL DEF Spec, Inv

\* Under a match a client only ever sees what was entered for that match,
\* whatever overtakes what (referee_panel/api.rs:113-138).
THEOREM CallsAreOfTheirMatch == Spec => []ShownOfItsMatch
<1>1. Inv => ShownOfItsMatch
  BY DEF Inv, ShownEntered, Entered, ShownOfItsMatch
<1> QED BY <1>1, InitInv, StepInv, PTL DEF Spec

-----------------------------------------------------------------------------
(* The FMS API's match infos.                                              *)

(***************************************************************************)
(* Each report has a higher number than those before it, and is announced   *)
(* after it is persisted.  So what a subscriber's queue holds was reported  *)
(* no earlier than what it has read before it subscribed, and in order.     *)
(***************************************************************************)
Rev(i) == fmsRx[i].rev

QueueInOrder ==
  /\ \A i \in 1..Len(fmsRx) : Rev(i) <= infos
  /\ \A i, j \in 1..Len(fmsRx) : i <= j => Rev(i) <= Rev(j)

QueueIsAhead ==
  pc \in {"first", "serve"} => \A i \in 1..Len(fmsRx) : shown.info.rev <= Rev(i) /\ fms.rev <= Rev(i)

NoneAheadOfReports ==
  /\ stored.rev <= infos /\ fms.rev <= infos /\ shown.info.rev <= infos
  /\ reporting # Unset => reporting.rev = infos

\* None of a panel's stream happens on this route.
OnlyInfos ==
  /\ pc \in {"open", "unsubscribed", "first", "serve"} /\ stateRx = <<>> /\ resync = "off"
  /\ pc \in {"open", "unsubscribed"} => fmsRx = <<>>

FmsInv == route = "fms" => OnlyInfos /\ NoneAheadOfReports /\ QueueInOrder /\ QueueIsAhead

LEMMA FmsInit == Init => FmsInv
BY StreamAssumption
   DEF Init, FmsInv, OnlyInfos, NoneAheadOfReports, QueueInOrder, QueueIsAhead, DefaultInfo, Nothing

LEMMA RevsAreNumbers ==
  ASSUME TypeOK
  PROVE  /\ infos \in Nat /\ stored.rev \in Nat /\ fms.rev \in Nat /\ shown.info.rev \in Nat
         /\ Len(fmsRx) \in Nat /\ \A i \in 1..Len(fmsRx) : Rev(i) \in Nat
         /\ reporting # Unset => reporting \in Info /\ reporting.rev \in Nat
<1>1. fmsRx \in Seq(Info) /\ Len(fmsRx) \in Nat
  BY LenProperties DEF TypeOK
<1>2. \A i \in 1..Len(fmsRx) : fmsRx[i] \in Info
  BY <1>1, ElementOfSeq
<1> QED BY <1>1, <1>2 DEF TypeOK, Info, Response, Rev

\* What leaves the match infos, their queue and the client's view alone.
LEMMA FmsUntouched ==
  ASSUME FmsInv, UNCHANGED <<stored, reporting, infos, route, pc, fmsRx, fms, shown, stateRx, resync>>
  PROVE  FmsInv'
BY DEF FmsInv, OnlyInfos, NoneAheadOfReports, QueueInOrder, QueueIsAhead, Rev

LEMMA PersistFms == ASSUME TypeOK, FmsInv, NEW m \in Match, Persist(m) PROVE FmsInv'
<1> SUFFICES ASSUME route = "fms" PROVE FmsInv'
  BY DEF FmsInv, Persist
<1>1. UNCHANGED <<route, pc, fmsRx, fms, shown, stateRx, resync>> /\ infos' = infos + 1
  BY DEF Persist, copies, wire, heart
<1>2. infos \in Nat /\ reporting'.rev = infos + 1 /\ stored'.rev \in {stored.rev, infos + 1}
  BY DEF Persist, TypeOK
<1>3. NoneAheadOfReports'
  BY <1>1, <1>2, RevsAreNumbers DEF FmsInv, NoneAheadOfReports
<1>4. QueueInOrder'
  <2>1. \A i \in 1..Len(fmsRx) : Rev(i) <= infos + 1
    BY <1>2, RevsAreNumbers DEF FmsInv, QueueInOrder
  <2> QED BY <1>1, <2>1 DEF FmsInv, QueueInOrder, Rev
<1>5. QueueIsAhead' /\ OnlyInfos'
  BY <1>1 DEF FmsInv, OnlyInfos, QueueIsAhead, Rev
<1> QED BY <1>3, <1>4, <1>5 DEF FmsInv

LEMMA AnnounceFms == ASSUME TypeOK, FmsInv, Announce PROVE FmsInv'
<1> SUFFICES ASSUME route = "fms" PROVE FmsInv'
  BY DEF FmsInv, Announce
<1>1. UNCHANGED <<stored, infos, route, pc, fms, shown, stateRx, resync>> /\ reporting' = Unset
  BY DEF Announce, copies, wire, heart
<1>2. /\ infos \in Nat /\ fms.rev <= infos /\ shown.info.rev <= infos
      /\ reporting \in Info /\ reporting.rev = infos
  BY RevsAreNumbers DEF Announce, FmsInv, NoneAheadOfReports
<1>3. CASE UNCHANGED fmsRx
  BY <1>1, <1>3 DEF FmsInv, OnlyInfos, NoneAheadOfReports, QueueInOrder, QueueIsAhead, Rev
<1>4. CASE Subscribed /\ fmsRx' = Append(fmsRx, reporting)
  <2>1. /\ Len(fmsRx) \in Nat /\ Len(fmsRx') = Len(fmsRx) + 1
        /\ fmsRx'[Len(fmsRx) + 1] = reporting
        /\ \A i \in 1..Len(fmsRx) : fmsRx'[i] = fmsRx[i]
    BY <1>2, <1>4, AppendProperties, LenProperties DEF TypeOK
  <2>2. QueueInOrder'
    BY <1>1, <1>2, <2>1, RevsAreNumbers DEF FmsInv, QueueInOrder, Rev
  <2>3. QueueIsAhead'
    BY <1>1, <1>2, <2>1 DEF FmsInv, QueueIsAhead, Rev
  <2> QED BY <1>1, <1>4, <2>2, <2>3 DEF FmsInv, OnlyInfos, NoneAheadOfReports, Subscribed
<1> QED BY <1>3, <1>4 DEF Announce

LEMMA ReconnectFms == ASSUME TypeOK, FmsInv, Reconnect PROVE FmsInv'
<1>1. /\ UNCHANGED <<stored, infos, reporting, route, shown>> /\ fms' = DefaultInfo /\ fmsRx' = <<>>
      /\ pc' = "open" /\ stateRx' = <<>> /\ resync' = "off"
  BY DEF Reconnect, env
<1>2. 0 <= infos
  BY DEF TypeOK
<1> QED BY <1>1, <1>2 DEF FmsInv, OnlyInfos, NoneAheadOfReports, QueueInOrder, QueueIsAhead, DefaultInfo

\* What the stream reads was reported; it subscribes after that.
LEMMA ReadInitialFms == ASSUME TypeOK, FmsInv, ReadInitial PROVE FmsInv'
<1>1. route = "fms" /\ UNCHANGED <<stored, infos, reporting, route, shown, fmsRx, stateRx, resync>>
  BY DEF ReadInitial, env, wire, heart
<1>2. CASE pc = "open" /\ Read(fms', stored, DefaultInfo) /\ pc' = "unsubscribed"
  <2>1. fms' \in {stored, DefaultInfo} /\ 0 <= infos
    BY <1>2 DEF Read, TypeOK
  <2> QED BY <1>1, <1>2, <2>1 DEF FmsInv, OnlyInfos, NoneAheadOfReports, QueueInOrder, QueueIsAhead,
                                  DefaultInfo, Rev
<1>3. CASE pc = "unsubscribed" /\ pc' = "first" /\ UNCHANGED fms
  <2>1. fmsRx = <<>>
    BY <1>1, <1>3 DEF FmsInv, OnlyInfos
  <2> QED BY <1>1, <1>3, <2>1 DEF FmsInv, OnlyInfos, NoneAheadOfReports, QueueInOrder, QueueIsAhead, Rev
<1> QED BY <1>2, <1>3 DEF ReadInitial

LEMMA FirstInfoFms == ASSUME TypeOK, FmsInv, FirstInfo PROVE FmsInv'
<1>1. /\ route = "fms" /\ pc = "first" /\ pc' = "serve" /\ shown'.info \in {shown.info, fms}
      /\ UNCHANGED <<stored, infos, reporting, route, fms, fmsRx, stateRx, resync>>
  BY DEF FirstInfo, env, heart, copies, Nothing
<1> QED BY <1>1 DEF FmsInv, OnlyInfos, NoneAheadOfReports, QueueInOrder, QueueIsAhead, Rev

\* The first of the queue is shown; none behind it is older.
LEMMA ShowInfoFms ==
  ASSUME TypeOK, FmsInv, ShowInfo
  PROVE  FmsInv' /\ shown'.info.rev >= shown.info.rev
<1>1. /\ route = "fms" /\ pc = "serve" /\ fmsRx # <<>> /\ fmsRx' = Tail(fmsRx)
      /\ fms' = Head(fmsRx) /\ shown'.info = Head(fmsRx)
      /\ UNCHANGED <<stored, infos, reporting, route, pc, stateRx, resync>>
  BY DEF ShowInfo, env, heart, Nothing
<1>2. /\ Len(fmsRx) \in Nat /\ Len(fmsRx) > 0 /\ Head(fmsRx) = fmsRx[1]
      /\ Len(fmsRx') = Len(fmsRx) - 1 /\ \A i \in 1..Len(fmsRx') : fmsRx'[i] = fmsRx[i + 1]
  BY <1>1, HeadTailProperties, LenProperties, EmptySeq DEF TypeOK
<1>3. fms'.rev = Rev(1) /\ shown'.info.rev = Rev(1) /\ shown.info.rev <= Rev(1) /\ Rev(1) <= infos
  BY <1>1, <1>2 DEF FmsInv, QueueInOrder, QueueIsAhead, Rev
<1>4. /\ \A i \in 1..Len(fmsRx') : Rev(i + 1) <= infos /\ Rev(1) <= Rev(i + 1)
      /\ \A i, j \in 1..Len(fmsRx') : i <= j => Rev(i + 1) <= Rev(j + 1)
  BY <1>1, <1>2 DEF FmsInv, QueueInOrder
<1>5. QueueInOrder' /\ QueueIsAhead'
  BY <1>1, <1>2, <1>3, <1>4 DEF QueueInOrder, QueueIsAhead, Rev
<1>6. shown'.info.rev >= shown.info.rev
  BY <1>3, <1>1, <1>2, RevsAreNumbers
<1> QED BY <1>1, <1>3, <1>5, <1>6 DEF FmsInv, OnlyInfos, NoneAheadOfReports

\* The branches of a panel's stream and its heartbeat wait for what an FMS
\* stream never has.
LEMMA PanelsOnly ==
  ASSUME FmsInv,
         Subscribe \/ ReadInfo \/ ReadState \/ YieldResponse \/ OnInfo \/ OnRecord \/ OnPanel \/ Tick \/ Resync
  PROVE  route # "fms" /\ UNCHANGED route
<1>1. route # "fms"
  BY DEF Subscribe, ReadInfo, ReadState, YieldResponse, OnInfo, OnRecord, OnPanel, Tick, Resync, ResyncInfo,
         ResyncState, Beat, FmsInv, OnlyInfos
<1>2. UNCHANGED route
  BY DEF Subscribe, ReadInfo, ReadState, YieldResponse, OnInfo, OnRecord, OnPanel, Tick, Resync, ResyncInfo,
         ResyncState, Beat
<1> QED BY <1>1, <1>2

\* An FMS stream shows something when it opens and when an info arrives.
LEMMA FmsStep ==
  ASSUME TypeOK, FmsInv, [Next]_vars
  PROVE  FmsInv' /\ (route = "fms" /\ pc = "serve" => shown'.info.rev >= shown.info.rev)
<1> DEFINE Same == UNCHANGED <<stored, reporting, infos, route, pc, fmsRx, fms, shown, stateRx, resync>>
<1>1. UNCHANGED shown => shown'.info.rev >= shown.info.rev
  BY RevsAreNumbers
<1>2. CASE \E m \in Match : Persist(m)
  BY <1>1, <1>2, PersistFms DEF Persist, wire
<1>3. CASE Announce
  BY <1>1, <1>3, AnnounceFms DEF Announce, wire
<1>4. CASE Reconnect
  BY <1>1, <1>4, ReconnectFms DEF Reconnect
<1>5. CASE ReadInitial
  BY <1>1, <1>5, ReadInitialFms DEF ReadInitial, wire
<1>6. CASE FirstInfo
  BY <1>6, FirstInfoFms DEF FirstInfo
<1>7. CASE ShowInfo
  BY <1>7, ShowInfoFms
<1>8. CASE \E m \in Match : Write(m)
  <2>1. Same
    BY <1>8 DEF Write, copies, wire, heart
  <2> QED BY <1>1, <2>1, FmsUntouched
<1>9. CASE \E r \in unpublished : Publish(r)
  <2>1. UNCHANGED <<stored, reporting, infos, route, pc, fmsRx, fms, shown, resync>>
    BY <1>9 DEF Publish, copies, wire, heart
  <2>2. route = "fms" => UNCHANGED stateRx
    BY <1>9 DEF Publish
  <2> QED BY <1>1, <2>1, <2>2, FmsUntouched DEF FmsInv
<1>10. CASE (\E p \in Type : SendPanel(p)) \/ HalfClose \/ UNCHANGED vars
  <2>1. Same
    BY <1>10 DEF SendPanel, HalfClose, vars, env, copies, wire, heart
  <2> QED BY <1>1, <2>1, FmsUntouched
<1>11. CASE Subscribe \/ ReadInfo \/ ReadState \/ YieldResponse \/ OnInfo \/ OnRecord \/ OnPanel \/ Tick \/ Resync
  BY <1>11, PanelsOnly DEF FmsInv
<1> QED BY <1>2, <1>3, <1>4, <1>5, <1>6, <1>7, <1>8, <1>9, <1>10, <1>11 DEF Next, Environment, Opening

\* Of one connection, a client of the FMS API never sees a match info go back:
\* not when it is reported while the stream reads and subscribes, nor when the
\* database fails.
THEOREM InfosOnlyAdvance == Spec => InfoNeverGoesBack
<1>1. TypeOK /\ FmsInv /\ [Next]_vars => FmsInv'
  BY FmsStep
<1>2. TypeOK /\ FmsInv /\ [Next]_vars
        => [route = "fms" /\ pc = "serve" => shown'.info.rev >= shown.info.rev]_vars
  BY FmsStep
<1> QED BY <1>1, <1>2, FmsInit, TypeCorrect, PTL DEF Spec, InfoNeverGoesBack
=============================================================================
