---------------------------- MODULE DuplexProofs ----------------------------
(***************************************************************************)
(* Duplex for every bound on the payload and every behaviour of closeAll:  *)
(* types, the single call of closeAll, and the meaning of a nil error.     *)
(***************************************************************************)
EXTENDS Duplex, SequenceTheorems, TLAPS

\* The initial state is well typed.
LEMMA TypeInit == Init => TypeOK
<1> SUFFICES ASSUME Init PROVE TypeOK
  OBVIOUS
<1>0. 0 \in 0..MaxChunks
  BY DuplexAssumption
<1>1. StreamsOK
  <2>1. source \in [Dirs -> [sent : 0..MaxChunks, end : {"open", "eof", "failure"}]]
    BY <1>0 DEF Init
  <2>2. sink \in [Dirs -> {"open", "broken", "failure"}]
    BY DEF Init
  <2> QED BY <2>1, <2>2 DEF Init, StreamsOK
<1>2. CopiersOK
  BY DuplexAssumption DEF Init, CopiersOK, InHand, Dirs, CopyErrors
<1>3. ChannelOK
  BY DEF Init, ChannelOK
<1> QED BY <1>1, <1>2, <1>3 DEF TypeOK

\* The peers and the caller's cancellation leave the copiers and the channel alone.
LEMMA TypePeers == TypeOK /\ (Peers \/ Cancel) => TypeOK'
<1> SUFFICES ASSUME TypeOK, Peers \/ Cancel PROVE TypeOK'
  OBVIOUS
<1> USE DuplexAssumption DEF Dirs
<1>1. UNCHANGED <<copier, readShut, writeShut, results, received, closes, pc>>
  BY DEF Peers, PeerSends, PeerEnds, PeerBreaks, PeerGone, Cancel
<1>2. ChannelOK'
  BY <1>1 DEF TypeOK, ChannelOK
<1>3. ASSUME NEW d \in Dirs, PeerSends(d) PROVE StreamsOK' /\ CopiersOK'
  BY <1>1, <1>3 DEF TypeOK, StreamsOK, CopiersOK, InHand, PeerSends
<1>4. ASSUME NEW d \in Dirs, NEW how \in {"eof", "failure"}, PeerEnds(d, how)
      PROVE  StreamsOK' /\ CopiersOK'
  BY <1>1, <1>4 DEF TypeOK, StreamsOK, CopiersOK, InHand, PeerEnds
<1>5. ASSUME NEW d \in Dirs, NEW how \in {"broken", "failure"}, PeerBreaks(d, how)
      PROVE  StreamsOK' /\ CopiersOK'
  BY <1>1, <1>5 DEF TypeOK, StreamsOK, CopiersOK, InHand, PeerBreaks
<1>6. ASSUME NEW d \in Dirs, NEW how \in {"eof", "failure"},
             NEW broken \in {"broken", "failure"}, PeerGone(d, how, broken)
      PROVE  StreamsOK' /\ CopiersOK'
  BY <1>1, <1>6 DEF TypeOK, StreamsOK, CopiersOK, InHand, PeerGone, Other
<1>7. CASE Cancel
  BY <1>1, <1>2, <1>7 DEF TypeOK, StreamsOK, CopiersOK, InHand, Cancel
<1> QED BY <1>2, <1>3, <1>4, <1>5, <1>6, <1>7 DEF Peers, TypeOK

\* A copy goroutine changes its own record and, when it reports, the channel.
LEMMA TypeCopy == ASSUME TypeOK, NEW d \in Dirs, Copy(d) \/ CallerCloses(d) PROVE TypeOK'
<1> USE DuplexAssumption DEF Dirs
<1>1. StreamsOK'
  BY DEF TypeOK, StreamsOK, Copy, CopyProgress, CopyRead, CopyReadEnds, CopyWrite,
         CopyWriteEnds, CopyReports, CallerCloses, SetCopier
<1>2. CASE CopyRead(d)
  <2>1. CopiersOK'
    BY <1>2 DEF TypeOK, CopiersOK, StreamsOK, InHand, CopyErrors, CopyRead, SetCopier
  <2>2. ChannelOK'
    BY <1>2 DEF TypeOK, ChannelOK, CopyRead, SetCopier
  <2> QED BY <1>1, <2>1, <2>2 DEF TypeOK
<1>3. CASE CopyReadEnds(d)
  BY <1>1, <1>3 DEF TypeOK, CopiersOK, ChannelOK, InHand, CopyErrors, CopyReadEnds, ClosedErrors,
               SetCopier
<1>4. CASE CopyWrite(d)
  BY <1>1, <1>4 DEF TypeOK, StreamsOK, CopiersOK, ChannelOK, InHand, CopyErrors, CopyWrite
<1>5. CASE CopyWriteEnds(d)
  <2>1. CopiersOK'
    BY <1>5 DEF TypeOK, CopiersOK, StreamsOK, InHand, CopyErrors, CopyWriteEnds, ClosedErrors,
                SetCopier
  <2>2. ChannelOK'
    BY <1>5 DEF TypeOK, ChannelOK, CopyWriteEnds, SetCopier
  <2> QED BY <1>1, <2>1, <2>2 DEF TypeOK
<1>6. CASE CopyReports(d)
  <2>1. CopiersOK'
    BY <1>6 DEF TypeOK, CopiersOK, InHand, CopyErrors, CopyReports
  <2>2. Entry(d, copier[d].n, copier[d].err) \in CopyEntries
    BY DEF TypeOK, CopiersOK, Entry, CopyEntries
  <2>3. ChannelOK'
    BY <1>6, <2>2 DEF TypeOK, ChannelOK, CopyReports, ResultsCap
  <2> QED BY <1>1, <2>1, <2>3 DEF TypeOK
<1>7. CASE CallerCloses(d)
  BY <1>1, <1>7 DEF TypeOK, CopiersOK, ChannelOK, InHand, CallerCloses
<1> QED BY <1>2, <1>3, <1>4, <1>5, <1>6, <1>7 DEF Copy, CopyProgress

\* The coordinator changes only the channel, the entries it took and what is shut.
LEMMA TypeCoordinator == TypeOK /\ Coordinator => TypeOK'
<1> SUFFICES ASSUME TypeOK, Coordinator PROVE TypeOK'
  OBVIOUS
<1>1. StreamsOK' /\ CopiersOK'
  BY DuplexAssumption DEF TypeOK, StreamsOK, CopiersOK, InHand, Coordinator, FirstResult,
     FirstCanceled, SecondResult, SecondCanceled, SecondTimeout, Returns, closeOnce
<1>2. CopyEntries \subseteq AllEntries
  BY DEF CopyEntries, AllEntries, AllErrors
<1>3. \A err \in {"canceled", "timeout"} : Interrupted(err) \in AllEntries
  BY DuplexAssumption DEF Interrupted, Entry, AllEntries, AllErrors, Dirs
<1>4. results # <<>> => /\ Head(results) \in AllEntries
                        /\ Tail(results) \in Seq(CopyEntries)
                        /\ Len(Tail(results)) = Len(results) - 1
  BY <1>2 DEF TypeOK, ChannelOK
<1>5. ASSUME NEW e \in AllEntries PROVE <<e>> \in Seq(AllEntries) /\ Len(<<e>>) = 1
  OBVIOUS
<1>6. ASSUME NEW e \in AllEntries, Returns(e), results' \in Seq(CopyEntries), Len(results') <= 2
      PROVE  ChannelOK'
  <2>0. received \in Seq(AllEntries) /\ received' = Append(received, e)
    BY <1>6 DEF TypeOK, ChannelOK, Returns
  <2>1. received' \in Seq(AllEntries) /\ Len(received') = Len(received) + 1
    BY <2>0
  <2>2. Len(received) = 1
    BY <1>6 DEF TypeOK, ChannelOK, Returns
  <2>3. pc' = "returned" /\ closes' \in {0, 1}
    BY <1>6 DEF TypeOK, ChannelOK, Returns, closeOnce
  <2> QED BY <1>6, <2>1, <2>2, <2>3 DEF ChannelOK
<1>7. CASE FirstResult
  BY <1>1, <1>4, <1>5, <1>7 DEF TypeOK, ChannelOK, FirstResult, closeOnce
<1>8. CASE FirstCanceled
  BY <1>1, <1>3, <1>5, <1>8 DEF TypeOK, ChannelOK, FirstCanceled, closeOnce
<1>9. CASE SecondResult
  BY <1>1, <1>4, <1>6, <1>9 DEF TypeOK, ChannelOK, SecondResult
<1>10. CASE SecondCanceled
  BY <1>1, <1>3, <1>6, <1>10 DEF TypeOK, ChannelOK, SecondCanceled
<1>11. CASE SecondTimeout
  BY <1>1, <1>3, <1>6, <1>11 DEF TypeOK, ChannelOK, SecondTimeout
<1> QED BY <1>7, <1>8, <1>9, <1>10, <1>11 DEF Coordinator

\* No step of Duplex leaves the types.
LEMMA TypeNext == TypeOK /\ [Next]_vars => TypeOK'
<1> SUFFICES ASSUME TypeOK, [Next]_vars PROVE TypeOK'
  OBVIOUS
<1>1. CASE UNCHANGED vars
  BY <1>1 DEF TypeOK, StreamsOK, CopiersOK, ChannelOK, InHand, vars
<1>2. CASE Next
  BY <1>2, TypePeers, TypeCopy, TypeCoordinator DEF Next
<1> QED BY <1>1, <1>2

\* Every state of Duplex is well typed: in particular no direction counts more
\* chunks than it was sent and the results channel never overflows.
THEOREM TypeCorrect == Spec => []TypeOK
  BY TypeInit, TypeNext, PTL DEF Spec

-----------------------------------------------------------------------------
(* The inductive invariant of the remaining results: types, truthful        *)
(* results, and the single closeAll, which needs them: the first result     *)
(* taken is what shows that a direction has ended.                          *)

IInv == TypeOK /\ ResultsTruthful /\ CloseAllOnce

\* The inductive invariant holds initially, when nothing has been reported.
LEMMA InvInit == Init => IInv
<1> SUFFICES ASSUME Init PROVE IInv
  OBVIOUS
<1>1. ResultsTruthful /\ CloseAllOnce
  BY DEF Init, ResultsTruthful, CloseAllOnce
<1> QED BY <1>1, TypeInit DEF IInv

\* What the channel and the coordinator hold, entry by entry.
LEMMA ChannelEntries ==
  ASSUME TypeOK
  PROVE  /\ Len(results) \in Nat /\ Len(received) \in Nat
         /\ \A i \in 1..Len(results) : results[i] \in CopyEntries /\ results[i].dir \in Dirs
         /\ \A k \in 1..Len(received) : received[k] \in AllEntries /\ received[k].dir \in Dirs
<1>1. results \in Seq(CopyEntries) /\ received \in Seq(AllEntries)
  BY DEF TypeOK, ChannelOK
<1>2. /\ Len(results) \in Nat /\ Len(received) \in Nat
      /\ \A i \in 1..Len(results) : results[i] \in CopyEntries
      /\ \A k \in 1..Len(received) : received[k] \in AllEntries
  BY <1>1
<1>3. \A e \in CopyEntries : e.dir \in Dirs
  BY DEF CopyEntries
<1>4. \A e \in AllEntries : e.dir \in Dirs
  BY DEF AllEntries
<1> QED BY <1>2, <1>3, <1>4

\* A step that leaves the channel, what was taken from it and the directions
\* that have ended alone keeps the results truthful.
LEMMA TruthfulKept ==
  ASSUME IInv,
         UNCHANGED <<results, received>>,
         \A d \in Dirs : copier[d].pc = "done" => copier'[d] = copier[d]
  PROVE  ResultsTruthful'
<1>1. /\ \A i \in 1..Len(results) : results[i].dir \in Dirs
      /\ \A k \in 1..Len(received) : received[k].dir \in Dirs
  BY ChannelEntries DEF IInv
<1>2. /\ \A i \in 1..Len(results) : Truthful(results[i])'
      /\ \A k \in 1..Len(received) : Genuine(received[k]) => Truthful(received[k])'
  BY <1>1 DEF IInv, ResultsTruthful, Truthful
<1> QED BY <1>2 DEF IInv, ResultsTruthful, Truthful, Genuine

\* Every step keeps the inductive invariant. Only two kinds of step touch it: a
\* copy goroutine's report, and what the coordinator does.
LEMMA InvNext == IInv /\ [Next]_vars => IInv'
<1> SUFFICES ASSUME IInv, [Next]_vars PROVE IInv'
  OBVIOUS
<1>1. TypeOK'
  BY TypeNext DEF IInv
<1>2. ASSUME UNCHANGED <<results, received, closes, pc>>, ctxDone => ctxDone',
             \A d \in Dirs : copier[d].pc = "done" => copier'[d] = copier[d]
      PROVE  IInv'
  <2>1. CloseAllOnce'
    BY <1>2 DEF IInv, CloseAllOnce
  <2> QED BY <1>1, <1>2, <2>1, TruthfulKept DEF IInv
<1>3. CASE UNCHANGED vars
  BY <1>2, <1>3 DEF vars
<1>4. CASE Peers \/ Cancel
  BY <1>2, <1>4 DEF Peers, PeerSends, PeerEnds, PeerBreaks, PeerGone, Cancel
<1>5. ASSUME NEW d \in Dirs,
             CopyRead(d) \/ CopyReadEnds(d) \/ CopyWrite(d) \/ CopyWriteEnds(d) \/ CallerCloses(d)
      PROVE  IInv'
  <2>1. \A e \in Dirs : copier[e].pc = "done" => copier'[e] = copier[e]
    BY <1>5 DEF IInv, TypeOK, CopiersOK, CopyRead, CopyReadEnds, CopyWrite, CopyWriteEnds,
                CallerCloses, SetCopier
  <2>2. UNCHANGED <<results, received, closes, pc, ctxDone>>
    BY <1>5 DEF CopyRead, CopyReadEnds, CopyWrite, CopyWriteEnds, CallerCloses, SetCopier
  <2> QED BY <1>2, <2>1, <2>2
<1>6. ASSUME NEW d \in Dirs, CopyReports(d) PROVE IInv'
  <2> DEFINE entry == Entry(d, copier[d].n, copier[d].err)
  <2>1. /\ results' = Append(results, entry)
        /\ UNCHANGED <<received, closes, pc, ctxDone>>
        /\ copier[d].pc = "report"
        /\ copier' = [copier EXCEPT ![d].pc = "done"]
    BY <1>6 DEF CopyReports
  <2>2. /\ copier'[d].pc = "done" /\ copier'[d].n = copier[d].n
        /\ copier'[d].err = copier[d].err
        /\ \A e \in Dirs : copier[e].pc = "done" => copier'[e] = copier[e]
    BY <2>1 DEF IInv, TypeOK, CopiersOK
  <2>3. entry.dir = d /\ entry.bytes = copier[d].n /\ entry.err = copier[d].err
    BY DEF Entry
  <2>4. /\ Len(results') = Len(results) + 1
        /\ \A i \in 1..Len(results) : results'[i] = results[i]
        /\ results'[Len(results) + 1] = entry
        /\ Len(results) \in Nat
    BY <2>1 DEF IInv, TypeOK, ChannelOK
  <2>5. /\ \A i \in 1..Len(results) : results[i].dir \in Dirs
        /\ \A k \in 1..Len(received) : received[k].dir \in Dirs
    BY ChannelEntries DEF IInv
  <2>6. /\ \A i \in 1..Len(results) : results[i].dir # d
        /\ \A k \in 1..Len(received) : Genuine(received[k]) => received[k].dir # d
    BY <2>1, <2>5 DEF IInv, ResultsTruthful, Truthful
  <2>7. ResultsTruthful'
    <3>1. \A i \in 1..Len(results') : Truthful(results[i])'
      <4>1. \A i \in 1..Len(results) : Truthful(results[i])'
        BY <2>2, <2>4, <2>5 DEF IInv, ResultsTruthful, Truthful
      <4>2. Truthful(results[Len(results)])'
        BY <2>2, <2>3, <2>4 DEF Truthful
      <4> QED BY <2>4, <4>1, <4>2
    <3>2. \A k \in 1..Len(received) : Genuine(received[k]) => Truthful(received[k])'
      BY <2>1, <2>2, <2>5 DEF IInv, ResultsTruthful, Truthful
    <3>3. \A i, j \in 1..Len(results') : results'[i].dir = results'[j].dir => i = j
      BY <2>3, <2>4, <2>6 DEF IInv, ResultsTruthful
    <3>4. \A i \in 1..Len(results'), k \in 1..Len(received) :
              Genuine(received[k]) => received[k].dir # results'[i].dir
      BY <2>3, <2>4, <2>6 DEF IInv, ResultsTruthful
    <3> QED BY <2>1, <3>1, <3>2, <3>3, <3>4 DEF IInv, ResultsTruthful, Truthful, Genuine
  <2>8. CloseAllOnce'
    BY <2>1, <2>2 DEF IInv, CloseAllOnce
  <2> QED BY <1>1, <2>7, <2>8 DEF IInv
<1>7. CASE Coordinator
  <2>1. UNCHANGED <<copier, ctxDone>>
    BY <1>7 DEF Coordinator, FirstResult, FirstCanceled, SecondResult, SecondCanceled,
                SecondTimeout, Returns
  <2>2. results # <<>> =>
           /\ Len(Tail(results)) = Len(results) - 1 /\ Len(results) \in Nat
           /\ \A i \in 1..Len(Tail(results)) : Tail(results)[i] = results[i + 1]
           /\ Len(results) >= 1 /\ Head(results) = results[1]
           /\ Head(results).dir \in Dirs /\ Head(results) \in AllEntries
    <3>1. results \in Seq(CopyEntries)
      BY DEF IInv, TypeOK, ChannelOK
    <3>2. ASSUME NEW s \in Seq(CopyEntries), s # <<>>
          PROVE  /\ Len(s) \in Nat /\ Len(s) >= 1 /\ Head(s) = s[1]
                 /\ Len(Tail(s)) = Len(s) - 1
                 /\ \A i \in 1..Len(Tail(s)) : Tail(s)[i] = s[i + 1]
      BY <3>2
    <3>3. results # <<>> => 1 \in 1..Len(results)
      BY <3>1, <3>2
    <3>4. CopyEntries \subseteq AllEntries
      BY DEF CopyEntries, AllEntries, AllErrors
    <3> QED BY <3>1, <3>2, <3>3, <3>4, ChannelEntries DEF IInv
  <2>3. \A err \in {"canceled", "timeout"} :
            Interrupted(err) \in AllEntries /\ ~Genuine(Interrupted(err))
    BY DuplexAssumption DEF Genuine, Interrupted, Entry, CopyErrors, AllEntries, AllErrors, Dirs
  <2>4. CASE FirstResult
    <3>1. results # <<>> /\ results' = Tail(results) /\ received' = <<Head(results)>>
      BY <2>4 DEF FirstResult
    <3>2. ResultsTruthful'
      BY <2>1, <2>2, <3>1 DEF IInv, ResultsTruthful, Truthful, Genuine
    <3>3. copier[Head(results).dir].pc = "done"
      BY <2>2, <3>1 DEF IInv, ResultsTruthful, Truthful
    <3>4. CloseAllOnce'
      BY <2>1, <2>2, <2>4, <3>1, <3>3 DEF FirstResult, closeOnce, IInv, CloseAllOnce
    <3> QED BY <1>1, <3>2, <3>4 DEF IInv
  <2>5. CASE FirstCanceled
    <3>1. ResultsTruthful'
      BY <2>1, <2>3, <2>5 DEF FirstCanceled, IInv, ResultsTruthful, Truthful
    <3>2. CloseAllOnce'
      BY <2>1, <2>5 DEF FirstCanceled, closeOnce, IInv, CloseAllOnce
    <3> QED BY <1>1, <3>1, <3>2 DEF IInv
  <2>6. ASSUME NEW e \in AllEntries, Returns(e)
        PROVE  /\ CloseAllOnce'
               /\ Len(received) = 1 /\ Len(received') = 2
               /\ received'[1] = received[1] /\ received'[2] = e
    <3>1. CloseAllOnce'
      BY <2>1, <2>6 DEF Returns, closeOnce, IInv, CloseAllOnce
    <3>2. received' = Append(received, e) /\ Len(received) = 1 /\ received \in Seq(AllEntries)
      BY <2>6 DEF Returns, IInv, TypeOK, ChannelOK
    <3>3. ASSUME NEW s \in Seq(AllEntries), Len(s) = 1
          PROVE  Len(Append(s, e)) = 2 /\ Append(s, e)[1] = s[1] /\ Append(s, e)[2] = e
      <4>1. /\ Len(Append(s, e)) = Len(s) + 1
            /\ \A i \in 1..Len(s) : Append(s, e)[i] = s[i]
            /\ Append(s, e)[Len(s) + 1] = e
        BY AppendProperties
      <4>2. 1 \in 1..Len(s) /\ Len(s) + 1 = 2
        BY <3>3
      <4> QED BY <4>1, <4>2
    <3> QED BY <3>1, <3>2, <3>3
  <2>7. CASE SecondResult
    <3>1. results # <<>> /\ results' = Tail(results) /\ Returns(Head(results))
      BY <2>7 DEF SecondResult
    <3>2. /\ CloseAllOnce'
          /\ Len(received) = 1 /\ Len(received') = 2
          /\ received'[1] = received[1] /\ received'[2] = results[1]
      BY <2>2, <2>6, <3>1
    <3>3. ResultsTruthful'
      BY <2>1, <2>2, <3>1, <3>2 DEF IInv, ResultsTruthful, Truthful, Genuine
    <3> QED BY <1>1, <3>2, <3>3 DEF IInv
  <2>8. CASE SecondCanceled \/ SecondTimeout
    <3>1. PICK err \in {"canceled", "timeout"} : Returns(Interrupted(err)) /\ UNCHANGED results
      BY <2>8 DEF SecondCanceled, SecondTimeout
    <3>2. /\ CloseAllOnce'
          /\ Len(received) = 1 /\ Len(received') = 2
          /\ received'[1] = received[1] /\ received'[2] = Interrupted(err)
      BY <2>3, <2>6, <3>1
    <3>3. ResultsTruthful'
      BY <2>1, <2>3, <3>1, <3>2 DEF IInv, ResultsTruthful, Truthful, Genuine
    <3> QED BY <1>1, <3>2, <3>3 DEF IInv
  <2> QED BY <1>7, <2>4, <2>5, <2>7, <2>8 DEF Coordinator
<1> QED BY <1>3, <1>4, <1>5, <1>6, <1>7 DEF Next, Copy, CopyProgress

\* Every result is the account of a direction that has ended, none twice.
THEOREM ResultsAreTruthful == Spec => []ResultsTruthful
<1>1. IInv => ResultsTruthful
  BY DEF IInv
<1> QED BY InvInit, InvNext, <1>1, PTL DEF Spec

\* closeAll runs exactly once, never before a direction ended or the caller
\* cancelled, and always before Duplex returns.
THEOREM CloseAllRunsOnce == Spec => []CloseAllOnce
<1>1. IInv => CloseAllOnce
  BY DEF IInv
<1> QED BY InvInit, InvNext, <1>1, PTL DEF Spec

\* Both results taken are genuine, and of different directions.
LEMMA NilIsClean == IInv => CleanReturn
<1> SUFFICES ASSUME IInv, pc = "returned", ResultErr = "nil", NEW d \in Dirs
    PROVE /\ copier[d].pc = "done" /\ IsNormalError(copier[d].err)
          /\ ResultBytes(d) = copier[d].n
  BY DEF CleanReturn
<1>1. /\ Len(received) = 2
      /\ \A k \in 1..2 : received[k].dir \in Dirs
  BY ChannelEntries DEF IInv, TypeOK, ChannelOK
<1>2. \A k \in 1..2 : IsNormalError(received[k].err)
  BY DEF ResultErr, IsNormalError
<1>3. \A k \in 1..2 : Genuine(received[k])
  BY <1>2 DEF IsNormalError, Genuine, CopyErrors
<1>4. \A k \in 1..2 : Truthful(received[k])
  BY <1>1, <1>3 DEF IInv, ResultsTruthful
<1>5. received[1].dir # received[2].dir
  BY <1>1, <1>3 DEF IInv, ResultsTruthful
<1> QED BY <1>1, <1>2, <1>4, <1>5 DEF Truthful, ResultBytes, Dirs

\* A nil error means that both directions ended normally and that both byte
\* counts are exact.
THEOREM NilErrorIsClean == Spec => []CleanReturn
  BY InvInit, InvNext, NilIsClean, PTL DEF Spec

\* An entry the coordinator made up counts nothing.
MadeUpEmpty ==
    \A k \in 1..Len(received) : ~Genuine(received[k]) => received[k].bytes = 0

\* Only the coordinator touches what it has taken; it takes genuine entries from
\* the channel and makes up empty ones.
LEMMA MadeUpNext == IInv /\ MadeUpEmpty /\ [Next]_vars => MadeUpEmpty'
<1> SUFFICES ASSUME IInv, MadeUpEmpty, [Next]_vars PROVE MadeUpEmpty'
  OBVIOUS
<1>1. CASE UNCHANGED received
  BY <1>1 DEF MadeUpEmpty, Genuine
<1>2. results # <<>> => Genuine(Head(results))
  <2>1. results \in Seq(CopyEntries)
    BY DEF IInv, TypeOK, ChannelOK
  <2>2. \A e \in CopyEntries : Genuine(e)
    BY DEF CopyEntries, Genuine
  <2>3. results # <<>> => Head(results) \in CopyEntries
    BY <2>1
  <2> QED BY <2>2, <2>3
<1>3. \A err \in {"canceled", "timeout"} : Interrupted(err).bytes = 0
  BY DEF Interrupted, Entry
<1>4. ASSUME NEW e, received' = <<e>>, Genuine(e) \/ e.bytes = 0 PROVE MadeUpEmpty'
  <2>1. Len(received') = 1 /\ received'[1] = e
    BY <1>4
  <2> QED BY <1>4, <2>1 DEF MadeUpEmpty, Genuine
<1>5. ASSUME NEW e \in AllEntries, Returns(e), Genuine(e) \/ e.bytes = 0 PROVE MadeUpEmpty'
  <2>1. received' = Append(received, e) /\ received \in Seq(AllEntries)
    BY <1>5 DEF Returns, IInv, TypeOK, ChannelOK
  <2>2. ASSUME NEW s \in Seq(AllEntries)
        PROVE  /\ Len(Append(s, e)) = Len(s) + 1 /\ Len(s) \in Nat
               /\ \A i \in 1..Len(s) : Append(s, e)[i] = s[i]
               /\ Append(s, e)[Len(s) + 1] = e
    BY AppendProperties
  <2>3. \A k \in 1..Len(received') :
            (k \in 1..Len(received) /\ received'[k] = received[k]) \/ received'[k] = e
    BY <2>1, <2>2
  <2> QED BY <1>5, <2>3 DEF MadeUpEmpty, Genuine
<1>6. CASE FirstResult
  BY <1>2, <1>4, <1>6 DEF FirstResult
<1>7. CASE FirstCanceled
  BY <1>3, <1>4, <1>7 DEF FirstCanceled
<1>8. CASE SecondResult
  <2>1. results # <<>> => Head(results) \in AllEntries
    <3>1. results \in Seq(CopyEntries) /\ CopyEntries \subseteq AllEntries
      BY DEF IInv, TypeOK, ChannelOK, CopyEntries, AllEntries, AllErrors
    <3> QED BY <3>1
  <2> QED BY <1>2, <1>5, <1>8, <2>1 DEF SecondResult
<1>9. CASE SecondCanceled \/ SecondTimeout
  <2>1. \A err \in {"canceled", "timeout"} : Interrupted(err) \in AllEntries
    BY DuplexAssumption DEF Interrupted, Entry, AllEntries, AllErrors, Dirs
  <2> QED BY <1>3, <1>5, <1>9, <2>1 DEF SecondCanceled, SecondTimeout
<1>10. ASSUME Peers \/ Cancel \/ \E d \in Dirs : Copy(d) \/ CallerCloses(d)
       PROVE  UNCHANGED received
  BY <1>10 DEF Peers, PeerSends, PeerEnds, PeerBreaks, PeerGone, Cancel, Copy, CopyProgress,
               CopyRead, CopyReadEnds, CopyWrite, CopyWriteEnds, CopyReports, CallerCloses,
               SetCopier
<1> QED BY <1>1, <1>6, <1>7, <1>8, <1>9, <1>10 DEF Next, Coordinator, vars

\* A count is never higher than what was written, and the error of the direction
\* that ended first wins: a genuine entry is true and a made-up one counts 0.
THEOREM CountsAreNeverTooHigh == Spec => []CountsWithinCopied
<1>1. IInv /\ MadeUpEmpty => CountsWithinCopied
  <2> SUFFICES ASSUME IInv, MadeUpEmpty, pc = "returned"
      PROVE /\ \A d \in Dirs : ResultBytes(d) <= copier[d].n
            /\ (Genuine(received[1]) /\ ~IsNormalError(received[1].err)) =>
                   ResultErr = copier[received[1].dir].err
    BY DEF CountsWithinCopied
  <2>1. /\ Len(received) = 2
        /\ \A k \in 1..2 : received[k].dir \in Dirs
    BY ChannelEntries DEF IInv, TypeOK, ChannelOK
  <2>2. \A d \in Dirs : copier[d].n \in Nat
    BY DuplexAssumption DEF IInv, TypeOK, CopiersOK
  <2>3. ASSUME NEW k \in 1..2 PROVE received[k].bytes <= copier[received[k].dir].n
    <3>1. CASE Genuine(received[k])
      BY <2>1, <2>2, <2>3, <3>1 DEF IInv, ResultsTruthful, Truthful
    <3>2. CASE ~Genuine(received[k])
      BY <2>1, <2>2, <2>3, <3>2 DEF MadeUpEmpty
    <3> QED BY <3>1, <3>2
  <2>4. \A d \in Dirs : ResultBytes(d) <= copier[d].n
    BY <2>1, <2>2, <2>3 DEF ResultBytes
  <2>5. (Genuine(received[1]) /\ ~IsNormalError(received[1].err)) =>
            ResultErr = copier[received[1].dir].err
    BY <2>1 DEF ResultErr, IInv, ResultsTruthful, Truthful
  <2> QED BY <2>4, <2>5
<1>2. Init => MadeUpEmpty
  BY DEF Init, MadeUpEmpty
<1> QED BY InvInit, InvNext, MadeUpNext, <1>1, <1>2, PTL DEF Spec
=============================================================================
