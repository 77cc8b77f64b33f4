-------------------------- MODULE NamedPipeProofs --------------------------
(***************************************************************************)
(* npipe-connect for every bound on the payload: it drives Duplex by       *)
(* Duplex's own rules, its exit codes tell how far it came, and exit code  *)
(* 0 means a clean transfer.                                               *)
(***************************************************************************)
EXTENDS NamedPipe, SequenceTheorems, TLAPS

\* The proofs about Duplex, for the closeAll of namedpipe.Run.
DP == INSTANCE DuplexProofs WITH CloseStopsRead <- {"r2l"}, CloseStopsWrite <- {"l2r"},
                                 OddReads <- {"r2l"}, OddWrites <- {"l2r"}

\* What Duplex assumes of its constants holds for namedpipe.Run.
LEMMA DuplexApplies == DP!DuplexAssumption
  BY NamedPipeAssumption DEF DP!DuplexAssumption, DP!Dirs

-----------------------------------------------------------------------------
(* The two instances of Duplex are the same specification.                  *)

\* The steps of a copy goroutine.
LEMMA SameCopy == \A d : D!Copy(d) <=> DP!Copy(d)
<1>1. \A d : D!CopyRead(d) <=> DP!CopyRead(d)
  BY Zenon DEF D!CopyRead, DP!CopyRead, D!SetCopier, DP!SetCopier
<1>2. \A d : D!CopyReadEnds(d) <=> DP!CopyReadEnds(d)
  BY Zenon DEF D!CopyReadEnds, DP!CopyReadEnds, D!SetCopier, DP!SetCopier,
               D!ClosedErrors, DP!ClosedErrors
<1>3. \A d : D!CopyWrite(d) <=> DP!CopyWrite(d)
  BY Zenon DEF D!CopyWrite, DP!CopyWrite
<1>4. \A d : D!CopyWriteEnds(d) <=> DP!CopyWriteEnds(d)
  BY Zenon DEF D!CopyWriteEnds, DP!CopyWriteEnds, D!SetCopier, DP!SetCopier,
               D!ClosedErrors, DP!ClosedErrors
<1>5. \A d : D!CopyReports(d) <=> DP!CopyReports(d)
  BY Zenon DEF D!CopyReports, DP!CopyReports, D!ResultsCap, DP!ResultsCap, D!Entry, DP!Entry
<1> QED BY <1>1, <1>2, <1>3, <1>4, <1>5 DEF D!Copy, DP!Copy, D!CopyProgress, DP!CopyProgress

\* The steps of the coordinator.
LEMMA SameCoordinator == D!Coordinator <=> DP!Coordinator
<1> USE DEF D!closeOnce, DP!closeOnce
<1>1. D!FirstResult <=> DP!FirstResult
  BY Zenon DEF D!FirstResult, DP!FirstResult
<1>2. D!FirstCanceled <=> DP!FirstCanceled
  BY Zenon DEF D!FirstCanceled, DP!FirstCanceled, D!Interrupted, DP!Interrupted, D!Entry, DP!Entry
<1>3. \A e : D!Returns(e) <=> DP!Returns(e)
  BY Zenon DEF D!Returns, DP!Returns
<1>4. D!SecondResult <=> DP!SecondResult
  BY Zenon, <1>3 DEF D!SecondResult, DP!SecondResult
<1>5. \A e : D!Interrupted(e) = DP!Interrupted(e)
  BY Zenon DEF D!Interrupted, DP!Interrupted, D!Entry, DP!Entry
<1>6. D!SecondCanceled <=> DP!SecondCanceled
  BY Zenon, <1>3, <1>5 DEF D!SecondCanceled, DP!SecondCanceled
<1>7. D!SecondTimeout <=> DP!SecondTimeout
  BY Zenon, <1>3, <1>5 DEF D!SecondTimeout, DP!SecondTimeout
<1> QED BY <1>1, <1>2, <1>4, <1>6, <1>7 DEF D!Coordinator, DP!Coordinator

\* The steps of the peers, and what the caller of Duplex does.
LEMMA SamePeers ==
  /\ \A d : D!PeerSends(d) <=> DP!PeerSends(d)
  /\ \A d, how : D!PeerEnds(d, how) <=> DP!PeerEnds(d, how)
  /\ \A d, how : D!PeerBreaks(d, how) <=> DP!PeerBreaks(d, how)
  /\ \A d : D!CallerCloses(d) <=> DP!CallerCloses(d)
  /\ D!Cancel <=> DP!Cancel
<1>1. \A d : D!PeerSends(d) <=> DP!PeerSends(d)
  BY Zenon DEF D!PeerSends, DP!PeerSends
<1>2. \A d, how : D!PeerEnds(d, how) <=> DP!PeerEnds(d, how)
  BY Zenon DEF D!PeerEnds, DP!PeerEnds, D!MayEnd, DP!MayEnd
<1>3. \A d, how : D!PeerBreaks(d, how) <=> DP!PeerBreaks(d, how)
  BY Zenon DEF D!PeerBreaks, DP!PeerBreaks
<1>4. \A d : D!CallerCloses(d) <=> DP!CallerCloses(d)
  BY Zenon DEF D!CallerCloses, DP!CallerCloses
<1>5. D!Cancel <=> DP!Cancel
  BY Zenon DEF D!Cancel, DP!Cancel
<1> QED BY <1>1, <1>2, <1>3, <1>4, <1>5

\* The end of a peer that does both.
LEMMA SamePeerGone ==
  \A d, how, broken : D!PeerGone(d, how, broken) <=> DP!PeerGone(d, how, broken)
  BY Zenon DEF D!PeerGone, DP!PeerGone, D!MayEnd, DP!MayEnd, D!Other, DP!Other

\* All steps.
LEMMA SameNext == D!Next <=> DP!Next
<1>1. D!Peers <=> DP!Peers
  BY SamePeers, SamePeerGone DEF D!Peers, DP!Peers, D!Dirs, DP!Dirs
<1> QED BY <1>1, SamePeers, SameCopy, SameCoordinator DEF D!Next, DP!Next, D!Dirs, DP!Dirs

\* The types.
LEMMA SameTypes == D!TypeOK <=> DP!TypeOK
<1>1. D!StreamsOK <=> DP!StreamsOK
  BY DEF D!StreamsOK, DP!StreamsOK, D!Dirs, DP!Dirs
<1>2. D!CopiersOK <=> DP!CopiersOK
  BY DEF D!CopiersOK, DP!CopiersOK, D!Dirs, DP!Dirs, D!CopyErrors, DP!CopyErrors,
         D!InHand, DP!InHand
<1>3. D!ChannelOK <=> DP!ChannelOK
  BY DEF D!ChannelOK, DP!ChannelOK, D!CopyEntries, DP!CopyEntries, D!AllEntries, DP!AllEntries,
         D!Dirs, DP!Dirs, D!CopyErrors, DP!CopyErrors, D!AllErrors, DP!AllErrors
<1> QED BY <1>1, <1>2, <1>3 DEF D!TypeOK, DP!TypeOK
-----------------------------------------------------------------------------
(* Every step of the command is a step of Duplex or none.                   *)

\* What the command does to the streams, action by action.
LEMMA StepsMap == [Next]_vars => [D!Next]_D!vars
<1> SUFFICES ASSUME [Next]_vars PROVE D!Next \/ UNCHANGED D!vars
  OBVIOUS
<1>1. ASSUME UNCHANGED streams PROVE UNCHANGED D!vars
  BY <1>1 DEF streams, D!vars
<1>2. CASE Coordinating \/ Peers \/ \E d \in D!Dirs : Copying(d)
  BY <1>2 DEF Coordinating, Peers, Copying, D!Next
<1>3. CASE CloseStdin
  BY <1>1, <1>3 DEF CloseStdin, D!Next, D!Dirs
<1>4. CASE UNCHANGED vars
  BY <1>1, <1>4 DEF vars
<1>5. CASE \/ Refuse \/ StartDial \/ DialAnswers \/ DialFails \/ Classify \/ Check
           \/ StartTransfer \/ EndTransfer \/ Exit \/ DeadlinePasses
  BY <1>1, <1>5 DEF Refuse, StartDial, DialAnswers, DialFails, Classify, Check, StartTransfer,
                    EndTransfer, Exit, DeadlinePasses
<1> QED BY <1>2, <1>3, <1>4, <1>5 DEF Next, Run

\* The command implements Duplex's specification, with the two closes of closeAll
\* apart and with copy goroutines that go on until the process ends.
THEOREM RefinesDuplex == Spec => ImplementsDuplex
<1>1. Init => D!Init
  BY DEF Init
<1> QED BY <1>1, StepsMap, PTL DEF Spec, ImplementsDuplex, D!Spec
-----------------------------------------------------------------------------
(* Duplex's invariant, and what the steps of Duplex do to what the command  *)
(* looks at.                                                                *)

\* Nothing has happened to the streams yet.
LEMMA DuplexInit == Init => DP!IInv /\ DP!Init
<1>1. Init => DP!Init
  BY DEF Init, D!Init, DP!Init, D!Dirs, DP!Dirs
<1> QED BY <1>1, DP!InvInit, DuplexApplies

\* Every step keeps Duplex's invariant, being a step of Duplex.
LEMMA DuplexNext == DP!IInv /\ [Next]_vars => DP!IInv'
<1>1. UNCHANGED D!vars => UNCHANGED DP!vars
  BY DEF D!vars, DP!vars
<1> QED BY <1>1, StepsMap, SameNext, DP!InvNext, DuplexApplies

\* The coordinator closes the pipe with its first step and leaves the streams alone.
LEMMA CoordinatorDoes ==
  ASSUME DP!IInv, DP!Coordinator
  PROVE  /\ closes' = 1 /\ pc # "returned" /\ pc' # "first"
         /\ UNCHANGED <<ctxDone, source, sink, copier>>
<1>1. closes \in {0, 1}
  BY DEF DP!IInv, DP!TypeOK, DP!ChannelOK
<1> QED BY <1>1 DEF DP!Coordinator, DP!FirstResult, DP!FirstCanceled, DP!SecondResult,
               DP!SecondCanceled, DP!SecondTimeout, DP!Returns, DP!closeOnce

\* The peers and the copy goroutines leave the coordinator alone.
LEMMA OthersDo ==
  ASSUME DP!Peers \/ (\E d \in DP!Dirs : DP!Copy(d) \/ DP!CallerCloses(d))
  PROVE  UNCHANGED <<ctxDone, received, closes, pc>>
BY DEF DP!Peers, DP!PeerSends, DP!PeerEnds, DP!PeerBreaks, DP!PeerGone, DP!Copy, DP!CopyProgress,
       DP!CopyRead, DP!CopyReadEnds, DP!CopyWrite, DP!CopyWriteEnds, DP!CopyReports,
       DP!SetCopier, DP!CallerCloses

\* The shape of the channel and of what was taken from it.
LEMMA Closes == ASSUME DP!IInv PROVE /\ closes \in {0, 1}
                                     /\ closes = IF pc = "first" THEN 0 ELSE 1
                                     /\ pc \in {"first", "second", "returned"}
  BY DEF DP!IInv, DP!TypeOK, DP!ChannelOK, DP!CloseAllOnce

-----------------------------------------------------------------------------
(* How far the command came: its progress, its error and the pipe.          *)

RunOK ==
    /\ run \in {"start", "dialing", "failed", "connected", "transfer", "returned", "exited"}
    /\ check \in BOOLEAN /\ deadline \in BOOLEAN
    /\ dialErr \in {"none", "refused", "deadline exceeded"}
    /\ pipe \in {"none", "open", "closed"}
    /\ stdin \in {"open", "closed"}
    /\ stdinClose \in StdinCloses
    /\ err \in {"none", "usage", "timeout", "connect", "close", "nil", "transfer"}
    /\ (err # "none") <=> (run \in {"returned", "exited"})

Progress ==
    /\ dialErr = "deadline exceeded" => deadline
    /\ run \in {"start", "dialing", "failed"} => pipe = "none"
    /\ run = "transfer" => ~check
    /\ pc # "first" => run \in {"transfer", "returned", "exited"} /\ pipe = "closed"
    /\ run \in {"returned", "exited"} => pipe # "open"

\* What each error says.
Errors ==
    /\ err \in {"usage", "timeout", "connect", "close"} => pc = "first"
    /\ err \in {"timeout", "connect"} => pipe = "none"
    /\ err = "timeout" => deadline
    /\ (err = "nil" /\ ~check) => pc = "returned" /\ D!ResultErr = "nil"

RunInv == DP!IInv /\ RunOK /\ Progress /\ Errors

\* The command has not started.
LEMMA RunInit == Init => RunInv
<1> SUFFICES ASSUME Init PROVE RunInv
  OBVIOUS
<1>1. RunOK
  BY DEF Init, RunOK
<1>2. Progress /\ Errors
  BY DEF Init, D!Init, Progress, Errors
<1> QED BY <1>1, <1>2, DuplexInit DEF RunInv

\* Every step keeps the invariant.
LEMMA RunNext == RunInv /\ [Next]_vars => RunInv'
<1> SUFFICES ASSUME RunInv, [Next]_vars PROVE RunInv'
  OBVIOUS
<1> USE DEF D!Dirs, DP!Dirs
<1>1. DP!IInv /\ RunOK /\ Progress /\ Errors
  BY DEF RunInv
<1>2. DP!IInv'
  BY <1>1, DuplexNext
<1>3. /\ closes = IF pc = "first" THEN 0 ELSE 1
      /\ pc \in {"first", "second", "returned"}
  BY <1>1, Closes
<1>4. SUFFICES RunOK' /\ Progress' /\ Errors'
  BY <1>2 DEF RunInv
<1>5. (UNCHANGED received => D!ResultErr' = D!ResultErr)
  BY DEF D!ResultErr, D!IsNormalError
<1>6. ASSUME UNCHANGED <<run, dial, pipe, stdinClose, err, pc, received>>,
             stdin' \in {"open", "closed"}
      PROVE  RunOK' /\ Progress' /\ Errors'
  BY <1>1, <1>5, <1>6 DEF RunOK, Progress, Errors, dial
<1>7. CASE Peers \/ (\E d \in D!Dirs : Copying(d)) \/ CloseStdin
  <2>1. UNCHANGED <<run, dial, pipe, stdinClose, err>> /\ stdin' \in {"open", "closed"}
    BY <1>1, <1>7 DEF Peers, Copying, CloseStdin, RunOK
  <2>2. DP!Peers \/ (\E d \in DP!Dirs : DP!Copy(d) \/ DP!CallerCloses(d)) \/ UNCHANGED streams
    <3>1. D!Peers <=> DP!Peers
      BY SamePeers, SamePeerGone DEF D!Peers, DP!Peers
    <3> QED BY <1>7, <3>1, SameCopy, SamePeers DEF Peers, Copying, CloseStdin
  <2>3. UNCHANGED <<pc, received>>
    BY <2>2, OthersDo DEF streams
  <2> QED BY <1>6, <2>1, <2>3
<1>8. CASE Coordinating
  <2>1. /\ run = "transfer" /\ UNCHANGED <<run, dial, stdin, stdinClose, err>>
        /\ pipe' = IF closes' > 0 THEN "closed" ELSE pipe
        /\ DP!Coordinator
    BY <1>8, SameCoordinator DEF Coordinating
  <2>2. pipe' = "closed"
    BY <1>1, <2>1, CoordinatorDoes
  <2>3. err = "none"
    BY <1>1, <2>1 DEF RunOK
  <2> QED BY <1>1, <2>1, <2>2, <2>3 DEF RunOK, Progress, Errors, dial
<1>9. CASE EndTransfer
  <2>1. /\ run = "transfer" /\ pc = "returned" /\ run' = "returned"
        /\ err' = IF D!ResultErr = "nil" THEN "nil" ELSE "transfer"
        /\ UNCHANGED <<streams, dial, pipe, stdin, stdinClose>>
    BY <1>9 DEF EndTransfer, Returns
  <2>2. pipe = "closed"
    BY <1>1, <2>1 DEF Progress
  <2> QED BY <1>1, <1>5, <2>1, <2>2 DEF RunOK, Progress, Errors, dial, streams
<1>10. ASSUME \/ Refuse \/ StartDial \/ DialAnswers \/ DialFails \/ Classify \/ Check
              \/ StartTransfer
       PROVE  pc = "first" /\ UNCHANGED <<streams, check, deadline, stdin, stdinClose>>
  BY <1>1, <1>10 DEF Refuse, StartDial, DialAnswers, DialFails, Classify, Check, StartTransfer,
                     Progress, dial
<1>11. CASE Refuse
  BY <1>1, <1>10, <1>11 DEF Refuse, Returns, RunOK, Progress, Errors, dial, streams
<1>12. ASSUME StartDial \/ DialAnswers \/ StartTransfer PROVE RunOK' /\ Progress' /\ Errors'
  <2>1. err = "none" /\ UNCHANGED <<dial, err, stdin, stdinClose>>
    BY <1>1, <1>12 DEF StartDial, DialAnswers, StartTransfer, RunOK
  <2>2. RunOK'
    BY <1>1, <1>12, <2>1 DEF StartDial, DialAnswers, StartTransfer, RunOK, dial
  <2>3. Progress'
    BY <1>1, <1>10, <1>12, <2>1 DEF StartDial, DialAnswers, StartTransfer, Progress, dial, streams
  <2>4. Errors'
    BY <2>1 DEF Errors
  <2> QED BY <2>2, <2>3, <2>4
<1>13. CASE DialFails
  BY <1>1, <1>10, <1>13 DEF DialFails, RunOK, Progress, Errors, streams
<1>14. CASE Classify
  BY <1>1, <1>10, <1>14 DEF Classify, Returns, RunOK, Progress, Errors, dial, streams
<1>15. CASE Check
  BY <1>1, <1>10, <1>15 DEF Check, Returns, RunOK, Progress, Errors, dial, streams
<1>16. CASE Exit
  <2>1. run' = "exited" /\ run = "returned"
        /\ UNCHANGED <<streams, dial, pipe, stdin, stdinClose, err>>
    BY <1>16 DEF Exit
  <2> QED BY <1>1, <1>5, <2>1 DEF RunOK, Progress, Errors, dial, streams
<1>17. CASE DeadlinePasses
  <2>1. /\ deadline' = TRUE
        /\ UNCHANGED <<streams, run, check, dialErr, pipe, stdin, stdinClose, err>>
    BY <1>17 DEF DeadlinePasses
  <2> QED BY <1>1, <1>5, <2>1 DEF RunOK, Progress, Errors, streams
<1>18. CASE UNCHANGED vars
  BY <1>1, <1>6, <1>18 DEF vars, streams, RunOK
<1> QED BY <1>7, <1>8, <1>9, <1>11, <1>12, <1>13, <1>14, <1>15, <1>16, <1>17, <1>18
        DEF Next, Run

\* Types, and how the pipe, the error and the progress of Run go together.
THEOREM TypeCorrect == Spec => []TypeOK
<1>1. RunInv => TypeOK
  <2>1. DP!IInv => D!TypeOK
    BY SameTypes DEF DP!IInv
  <2> QED BY <2>1 DEF RunInv, RunOK, TypeOK
<1> QED BY RunInit, RunNext, <1>1, PTL DEF Spec
-----------------------------------------------------------------------------
(* What has been received: never a cancellation, and of a direction that    *)
(* ended in order, all it was sent.                                         *)

NeverCanceled == ~ctxDone /\ \A k \in 1..Len(received) : received[k].err # "canceled"

Delivered ==
    \A d \in DP!Dirs :
        (copier[d].pc \in {"report", "done"} /\ copier[d].err = "nil") =>
            source[d].end # "open" /\ copier[d].n = source[d].sent

\* The coordinator takes accounts of copy goroutines, or gives up on its timer.
LEMMA NeverCanceledKept ==
  ASSUME DP!IInv, NeverCanceled, DP!Coordinator
  PROVE  NeverCanceled'
<1>1. ~ctxDone'
  BY CoordinatorDoes DEF NeverCanceled
<1>2. results # <<>> => Head(results).err # "canceled" /\ Head(results) \in DP!AllEntries
  <2>1. results \in Seq(DP!CopyEntries)
    BY DEF DP!IInv, DP!TypeOK, DP!ChannelOK
  <2>2. results # <<>> => Head(results) \in DP!CopyEntries
    BY <2>1
  <2>3. \A e \in DP!CopyEntries : e.err # "canceled" /\ e \in DP!AllEntries
    BY DEF DP!CopyEntries, DP!AllEntries, DP!CopyErrors, DP!AllErrors
  <2> QED BY <2>2, <2>3
<1>3. ASSUME NEW e, e.err # "canceled", received' = <<e>> PROVE NeverCanceled'
  <2>1. Len(received') = 1 /\ received'[1] = e
    BY <1>3
  <2> QED BY <1>1, <1>3, <2>1 DEF NeverCanceled
<1>4. ASSUME NEW e \in DP!AllEntries, e.err # "canceled", received' = Append(received, e)
      PROVE  NeverCanceled'
  <2>1. received \in Seq(DP!AllEntries)
    BY DEF DP!IInv, DP!TypeOK, DP!ChannelOK
  <2>2. ASSUME NEW s \in Seq(DP!AllEntries)
        PROVE  /\ Len(Append(s, e)) = Len(s) + 1 /\ Len(s) \in Nat
               /\ \A i \in 1..Len(s) : Append(s, e)[i] = s[i]
               /\ Append(s, e)[Len(s) + 1] = e
    BY AppendProperties
  <2>3. \A k \in 1..Len(received') :
            (k \in 1..Len(received) /\ received'[k] = received[k]) \/ received'[k] = e
    BY <1>4, <2>1, <2>2
  <2> QED BY <1>1, <1>4, <2>3 DEF NeverCanceled
<1>5. CASE DP!FirstResult
  BY <1>2, <1>3, <1>5 DEF DP!FirstResult
<1>6. CASE DP!FirstCanceled \/ DP!SecondCanceled
  BY <1>6 DEF DP!FirstCanceled, DP!SecondCanceled, NeverCanceled
<1>7. CASE DP!SecondResult
  BY <1>2, <1>4, <1>7 DEF DP!SecondResult, DP!Returns
<1>8. CASE DP!SecondTimeout
  <2>1. DP!Interrupted("timeout") \in DP!AllEntries /\ DP!Interrupted("timeout").err = "timeout"
    BY NamedPipeAssumption DEF DP!Interrupted, DP!Entry, DP!AllEntries, DP!AllErrors, DP!Dirs
  <2> QED BY <1>4, <1>8, <2>1 DEF DP!SecondTimeout, DP!Returns
<1> QED BY <1>5, <1>6, <1>7, <1>8 DEF DP!Coordinator

\* A source that has ended sends nothing more.
LEMMA DeliveredKept ==
  ASSUME DP!IInv, Delivered, DP!Peers
  PROVE  Delivered'
<1> USE DEF DP!Dirs
<1>1. source \in [DP!Dirs -> [sent : 0..MaxChunks, end : {"open", "eof", "failure"}]]
  BY DEF DP!IInv, DP!TypeOK, DP!StreamsOK
<1>2. UNCHANGED copier
  BY DEF DP!Peers, DP!PeerSends, DP!PeerEnds, DP!PeerBreaks, DP!PeerGone
<1> DEFINE Kept == \A e \in DP!Dirs : source[e].end # "open" =>
                       source'[e].end # "open" /\ source'[e].sent = source[e].sent
<1>3. ASSUME NEW d \in DP!Dirs, DP!PeerSends(d) PROVE Kept
  BY <1>1, <1>3 DEF DP!PeerSends
<1>4. ASSUME NEW d \in DP!Dirs, NEW how \in {"eof", "failure"}, DP!PeerEnds(d, how) PROVE Kept
  BY <1>1, <1>4 DEF DP!PeerEnds, DP!MayEnd
<1>5. ASSUME NEW d \in DP!Dirs, NEW how \in {"broken", "failure"}, DP!PeerBreaks(d, how)
      PROVE  Kept
  BY <1>5 DEF DP!PeerBreaks
<1>6. ASSUME NEW d \in DP!Dirs, NEW how \in {"eof", "failure"},
             NEW broken \in {"broken", "failure"}, DP!PeerGone(d, how, broken)
      PROVE  Kept
  BY <1>1, <1>6 DEF DP!PeerGone, DP!MayEnd, DP!Other
<1>7. Kept
  BY <1>3, <1>4, <1>5, <1>6 DEF DP!Peers
<1> QED BY <1>2, <1>7 DEF Delivered

\* A copy goroutine ends with a nil error at the end of its source only.
LEMMA DeliveredByCopy ==
  ASSUME DP!IInv, Delivered, NEW d \in DP!Dirs, DP!Copy(d)
  PROVE  Delivered'
<1> USE DEF DP!Dirs
<1>1. copier \in [DP!Dirs -> [pc : {"read", "write", "report", "done"},
                              n : 0..MaxChunks, err : DP!CopyErrors]]
  BY DEF DP!IInv, DP!TypeOK, DP!CopiersOK
<1>2. UNCHANGED source
  BY DEF DP!Copy, DP!CopyProgress, DP!CopyRead, DP!CopyReadEnds, DP!CopyWrite,
         DP!CopyWriteEnds, DP!CopyReports, DP!SetCopier
<1>3. CASE DP!CopyRead(d)
  BY <1>1, <1>2, <1>3 DEF DP!CopyRead, DP!SetCopier, Delivered
<1>4. CASE DP!CopyReadEnds(d)
  BY <1>1, <1>2, <1>4 DEF DP!CopyReadEnds, DP!SetCopier, DP!ClosedErrors, Delivered
<1>5. CASE DP!CopyWrite(d)
  BY <1>1, <1>2, <1>5 DEF DP!CopyWrite, Delivered
<1>6. CASE DP!CopyWriteEnds(d)
  BY <1>1, <1>2, <1>6 DEF DP!CopyWriteEnds, DP!SetCopier, DP!ClosedErrors, Delivered
<1>7. CASE DP!CopyReports(d)
  BY <1>1, <1>2, <1>7 DEF DP!CopyReports, Delivered
<1> QED BY <1>3, <1>4, <1>5, <1>6, <1>7 DEF DP!Copy, DP!CopyProgress

CodeInv == RunInv /\ NeverCanceled /\ Delivered

\* Nothing has been received.
LEMMA CodeInit == Init => CodeInv
<1>1. DP!Init => NeverCanceled /\ Delivered
  BY DEF DP!Init, NeverCanceled, Delivered, DP!Dirs
<1> QED BY <1>1, RunInit, DuplexInit DEF CodeInv

\* Every step keeps it: nobody cancels.
LEMMA CodeNext == CodeInv /\ [Next]_vars => CodeInv'
<1> SUFFICES ASSUME CodeInv, [Next]_vars PROVE CodeInv'
  OBVIOUS
<1>1. DP!IInv /\ RunInv'
  BY RunNext DEF CodeInv, RunInv
<1>2. SUFFICES NeverCanceled' /\ Delivered'
  BY <1>1 DEF CodeInv
<1>3. NeverCanceled /\ Delivered
  BY DEF CodeInv
<1>4. ASSUME UNCHANGED <<ctxDone, source, copier, received>> PROVE NeverCanceled' /\ Delivered'
  BY <1>3, <1>4 DEF NeverCanceled, Delivered
<1>5. CASE Coordinating
  <2>1. DP!Coordinator
    BY <1>5, SameCoordinator DEF Coordinating
  <2>2. Delivered'
    BY <1>1, <1>3, <2>1, CoordinatorDoes DEF Delivered
  <2> QED BY <1>1, <1>3, <2>1, <2>2, NeverCanceledKept
<1>6. CASE Peers
  <2>1. DP!Peers
    BY <1>6, SamePeers, SamePeerGone DEF Peers, D!Peers, DP!Peers, D!Dirs, DP!Dirs
  <2>2. NeverCanceled'
    BY <1>3, <2>1, OthersDo DEF NeverCanceled
  <2> QED BY <1>1, <1>3, <2>1, <2>2, DeliveredKept
<1>7. ASSUME NEW d \in D!Dirs, Copying(d) PROVE NeverCanceled' /\ Delivered'
  <2>1. DP!Copy(d) /\ d \in DP!Dirs
    BY <1>7, SameCopy DEF Copying, D!Dirs, DP!Dirs
  <2>2. NeverCanceled'
    BY <1>3, <2>1, OthersDo DEF NeverCanceled
  <2> QED BY <1>1, <1>3, <2>1, <2>2, DeliveredByCopy
<1>8. CASE CloseStdin
  <2>1. DP!CallerCloses("l2r") \/ UNCHANGED streams
    BY <1>8, SamePeers DEF CloseStdin
  <2> QED BY <1>4, <2>1 DEF DP!CallerCloses, streams
<1>9. UNCHANGED streams => NeverCanceled' /\ Delivered'
  BY <1>4 DEF streams
<1>10. CASE \/ Refuse \/ StartDial \/ DialAnswers \/ DialFails \/ Classify \/ Check
            \/ StartTransfer \/ EndTransfer \/ Exit \/ DeadlinePasses \/ UNCHANGED vars
  BY <1>9, <1>10 DEF Refuse, StartDial, DialAnswers, DialFails, Classify, Check, StartTransfer,
                     EndTransfer, Exit, DeadlinePasses, vars
<1> QED BY <1>5, <1>6, <1>7, <1>8, <1>10 DEF Next, Run

\* The exit code tells how far the command came.
THEOREM ExitCodesHaveCauses == Spec => []ExitCodeHasCause
<1>1. CodeInv => ExitCodeHasCause
  <2> SUFFICES ASSUME CodeInv, err # "none" PROVE
          /\ ExitCode \in {ExitNamedPipe, ExitTimeout} => pipe = "none"
          /\ ExitCode = ExitTimeout => deadline
          /\ pipe # "open"
          /\ pc = "returned" => D!ResultErr # "canceled" /\ ExitCode \in {ExitOK, ExitTransfer}
    BY DEF ExitCodeHasCause
  <2>1. RunOK /\ Progress /\ Errors /\ NeverCanceled /\ DP!IInv
    BY DEF CodeInv, RunInv
  <2>2. /\ err = "nil" => ExitCode = ExitOK
        /\ err = "timeout" => ExitCode = ExitTimeout
        /\ err = "connect" => ExitCode = ExitNamedPipe
        /\ err = "transfer" => ExitCode = ExitTransfer
        /\ err \in {"usage", "close"} => ExitCode = ExitUsage
    BY DEF ExitCode, exitCode, Error, Nil
  <2>3. pc = "returned" => D!ResultErr # "canceled"
    <3>1. pc = "returned" => Len(received) = 2
      BY <2>1 DEF DP!IInv, DP!TypeOK, DP!ChannelOK
    <3> QED BY <2>1, <3>1 DEF NeverCanceled, D!ResultErr
  <2>4. run \in {"returned", "exited"}
        /\ err \in {"usage", "timeout", "connect", "close", "nil", "transfer"}
    BY <2>1 DEF RunOK
  <2>5. /\ ExitCode \in {ExitNamedPipe, ExitTimeout} => err \in {"timeout", "connect"}
        /\ ExitCode = ExitTimeout => err = "timeout"
        /\ err \in {"nil", "transfer"} => ExitCode \in {ExitOK, ExitTransfer}
    BY <2>2, <2>4 DEF ExitOK, ExitUsage, ExitNamedPipe, ExitTransfer, ExitTimeout
  <2>6. /\ pipe # "open"
        /\ pc = "returned" => err \in {"nil", "transfer"}
        /\ err \in {"timeout", "connect"} => pipe = "none"
        /\ err = "timeout" => deadline
    BY <2>1, <2>4 DEF Progress, Errors
  <2> QED BY <2>3, <2>5, <2>6
<1> QED BY CodeInit, CodeNext, <1>1, PTL DEF Spec

\* Exit code 0 of a transfer means a clean one: Duplex returned no error, both of
\* its entries are true, and a nil one comes from the end of its source.
THEOREM SuccessesAreClean == Spec => []SuccessIsClean
<1>1. CodeInv => SuccessIsClean
  <2> SUFFICES ASSUME CodeInv, err = "nil", ~check PROVE
          /\ \A d \in D!Dirs : copier[d].pc = "done" /\ D!IsNormalError(copier[d].err)
          /\ received[1].err = "nil" =>
                 copier[received[1].dir].n = source[received[1].dir].sent
    BY DEF SuccessIsClean
  <2>1. DP!IInv /\ pc = "returned" /\ D!ResultErr = "nil" /\ Delivered
    BY DEF CodeInv, RunInv, Errors
  <2>2. \A e : D!IsNormalError(e) <=> DP!IsNormalError(e)
    BY DEF D!IsNormalError, DP!IsNormalError
  <2>3. DP!ResultErr = "nil"
    BY <2>1 DEF D!ResultErr, DP!ResultErr, D!IsNormalError, DP!IsNormalError
  <2>4. DP!CleanReturn
    BY <2>1, DP!NilIsClean, DuplexApplies
  <2>5. \A d \in D!Dirs : copier[d].pc = "done" /\ D!IsNormalError(copier[d].err)
    BY <2>1, <2>2, <2>3, <2>4 DEF DP!CleanReturn, D!Dirs, DP!Dirs
  <2>6. ASSUME received[1].err = "nil"
        PROVE  copier[received[1].dir].n = source[received[1].dir].sent
    <3>1. 1 \in 1..Len(received) /\ received[1].dir \in DP!Dirs
      BY <2>1, DP!ChannelEntries, DuplexApplies DEF DP!IInv, DP!TypeOK, DP!ChannelOK
    <3>2. DP!Truthful(received[1])
      BY <2>1, <2>6, <3>1 DEF DP!IInv, DP!ResultsTruthful, DP!Genuine, DP!CopyErrors
    <3> QED BY <2>1, <2>6, <3>1, <3>2 DEF DP!Truthful, Delivered
  <2> QED BY <2>5, <2>6
<1> QED BY CodeInit, CodeNext, <1>1, PTL DEF Spec
=============================================================================
