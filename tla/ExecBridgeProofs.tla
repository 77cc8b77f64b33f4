-------------------------- MODULE ExecBridgeProofs --------------------------
(***************************************************************************)
(* Serve for every bound on the payload: it drives Duplex by Duplex's own  *)
(* rules, so Duplex's invariants hold of it, and with them what Serve      *)
(* leaves behind, that a response is not cut short, and what its errors    *)
(* mean.                                                                   *)
(***************************************************************************)
EXTENDS ExecBridge, SequenceTheorems, TLAPS

\* The proofs about Duplex, for the closeAll of Serve.
DP == INSTANCE DuplexProofs WITH CloseStopsRead <- {"l2r"}, CloseStopsWrite <- {"l2r", "r2l"},
                                 OddReads <- {}, OddWrites <- {}

\* What Duplex assumes of its constants holds for Serve.
LEMMA DuplexApplies == DP!DuplexAssumption
  BY ExecBridgeAssumption DEF DP!DuplexAssumption, DP!Dirs

-----------------------------------------------------------------------------
(* The two instances of Duplex are the same specification.                  *)

\* The steps of a copy goroutine.
LEMMA SameCopy == \A d : D!Copy(d) <=> DP!Copy(d)
<1>1. \A d : D!CopyRead(d) <=> DP!CopyRead(d)
  BY Zenon DEF D!CopyRead, DP!CopyRead, D!SetCopier, DP!SetCopier
<1>2. \A d : D!CopyReadEnds(d) <=> DP!CopyReadEnds(d)
  BY Zenon DEF D!CopyReadEnds, DP!CopyReadEnds, D!SetCopier, DP!SetCopier,
               D!ClosedErrors, DP!ClosedErrors
<1>3. \A d : D!CopyWrite(d) <=> DP!CopyWrite(d)
  BY Zenon DEF D!CopyWrite, DP!CopyWrite
<1>4. \A d : D!CopyWriteEnds(d) <=> DP!CopyWriteEnds(d)
  BY Zenon DEF D!CopyWriteEnds, DP!CopyWriteEnds, D!SetCopier, DP!SetCopier,
               D!ClosedErrors, DP!ClosedErrors
<1>5. \A d : D!CopyReports(d) <=> DP!CopyReports(d)
  BY Zenon DEF D!CopyReports, DP!CopyReports, D!ResultsCap, DP!ResultsCap, D!Entry, DP!Entry
<1> QED BY <1>1, <1>2, <1>3, <1>4, <1>5 DEF D!Copy, DP!Copy, D!CopyProgress, DP!CopyProgress

\* The steps of the coordinator.
LEMMA SameCoordinator == D!Coordinator <=> DP!Coordinator
<1> USE DEF D!closeOnce, DP!closeOnce
<1>1. D!FirstResult <=> DP!FirstResult
  BY Zenon DEF D!FirstResult, DP!FirstResult
<1>2. D!FirstCanceled <=> DP!FirstCanceled
  BY Zenon DEF D!FirstCanceled, DP!FirstCanceled, D!Interrupted, DP!Interrupted, D!Entry, DP!Entry
<1>3. \A e : D!Returns(e) <=> DP!Returns(e)
  BY Zenon DEF D!Returns, DP!Returns
<1>4. D!SecondResult <=> DP!SecondResult
  BY Zenon, <1>3 DEF D!SecondResult, DP!SecondResult
<1>5. \A e : D!Interrupted(e) = DP!Interrupted(e)
  BY Zenon DEF D!Interrupted, DP!Interrupted, D!Entry, DP!Entry
<1>6. D!SecondCanceled <=> DP!SecondCanceled
  BY Zenon, <1>3, <1>5 DEF D!SecondCanceled, DP!SecondCanceled
<1>7. D!SecondTimeout <=> DP!SecondTimeout
  BY Zenon, <1>3, <1>5 DEF D!SecondTimeout, DP!SecondTimeout
<1> QED BY <1>1, <1>2, <1>4, <1>6, <1>7 DEF D!Coordinator, DP!Coordinator

\* The steps of the peers, and what the caller of Duplex does.
LEMMA SamePeers ==
  /\ \A d : D!PeerSends(d) <=> DP!PeerSends(d)
  /\ \A d, how : D!PeerEnds(d, how) <=> DP!PeerEnds(d, how)
  /\ \A d, how : D!PeerBreaks(d, how) <=> DP!PeerBreaks(d, how)
  /\ \A d : D!CallerCloses(d) <=> DP!CallerCloses(d)
  /\ D!Cancel <=> DP!Cancel
<1>1. \A d : D!PeerSends(d) <=> DP!PeerSends(d)
  BY Zenon DEF D!PeerSends, DP!PeerSends
<1>2. \A d, how : D!PeerEnds(d, how) <=> DP!PeerEnds(d, how)
  BY Zenon DEF D!PeerEnds, DP!PeerEnds, D!MayEnd, DP!MayEnd
<1>3. \A d, how : D!PeerBreaks(d, how) <=> DP!PeerBreaks(d, how)
  BY Zenon DEF D!PeerBreaks, DP!PeerBreaks
<1>4. \A d : D!CallerCloses(d) <=> DP!CallerCloses(d)
  BY Zenon DEF D!CallerCloses, DP!CallerCloses
<1>5. D!Cancel <=> DP!Cancel
  BY Zenon DEF D!Cancel, DP!Cancel
<1> QED BY <1>1, <1>2, <1>3, <1>4, <1>5

\* The end of a peer that does both.
LEMMA SamePeerGone ==
  \A d, how, broken : D!PeerGone(d, how, broken) <=> DP!PeerGone(d, how, broken)
  BY Zenon DEF D!PeerGone, DP!PeerGone, D!MayEnd, DP!MayEnd, D!Other, DP!Other

\* All steps.
LEMMA SameNext == D!Next <=> DP!Next
<1>1. D!Peers <=> DP!Peers
  BY SamePeers, SamePeerGone DEF D!Peers, DP!Peers, D!Dirs, DP!Dirs
<1> QED BY <1>1, SamePeers, SameCopy, SameCoordinator DEF D!Next, DP!Next, D!Dirs, DP!Dirs

\* The types.
LEMMA SameTypes == D!TypeOK <=> DP!TypeOK
<1>1. D!StreamsOK <=> DP!StreamsOK
  BY DEF D!StreamsOK, DP!StreamsOK, D!Dirs, DP!Dirs
<1>2. D!CopiersOK <=> DP!CopiersOK
  BY DEF D!CopiersOK, DP!CopiersOK, D!Dirs, DP!Dirs, D!CopyErrors, DP!CopyErrors,
         D!InHand, DP!InHand
<1>3. D!ChannelOK <=> DP!ChannelOK
  BY DEF D!ChannelOK, DP!ChannelOK, D!CopyEntries, DP!CopyEntries, D!AllEntries, DP!AllEntries,
         D!Dirs, DP!Dirs, D!CopyErrors, DP!CopyErrors, D!AllErrors, DP!AllErrors
<1> QED BY <1>1, <1>2, <1>3 DEF D!TypeOK, DP!TypeOK
-----------------------------------------------------------------------------
(* Every step of Serve is a step of Duplex or none.                         *)

\* What Serve's environment does to the streams is within Duplex's rules because
\* the child's pipes end in order, and a reset comes with the end of the client.
Ends ==
    /\ source["r2l"].end # "failure"
    /\ source["l2r"].end = "failure" => sink["r2l"] = "broken"
    /\ \A d \in DP!Dirs : sink[d] # "failure"

\* The end of the child's pipes: its output, its input, both, or neither.
LEMMA PipesEndMaps ==
  ASSUME DP!TypeOK, Ends, PipesEnd, UNCHANGED <<ctxDone, core>>
  PROVE  [DP!Next]_DP!vars /\ Ends'
<1> USE DEF DP!Dirs
<1>1. /\ source \in [DP!Dirs -> [sent : 0..MaxChunks, end : {"open", "eof", "failure"}]]
      /\ sink \in [DP!Dirs -> {"open", "broken", "failure"}]
  BY DEF DP!TypeOK, DP!StreamsOK
<1>2. /\ source["r2l"].end \in {"open", "eof"} /\ sink["l2r"] \in {"open", "broken"}
      /\ source' = [source EXCEPT !["r2l"].end = "eof"]
      /\ sink' = [sink EXCEPT !["l2r"] = "broken"]
  BY <1>1 DEF Ends, PipesEnd
<1>3. Ends'
  BY <1>1, <1>2 DEF Ends
<1>4. source["r2l"].end = "eof" => source' = source
  BY <1>1, <1>2
<1>5. sink["l2r"] = "broken" => sink' = sink
  BY <1>1, <1>2
<1>6. CASE source["r2l"].end = "open" /\ sink["l2r"] = "open"
  BY <1>2, <1>6, <1>3 DEF DP!Next, DP!Peers, DP!PeerGone, DP!MayEnd, DP!Other, core
<1>7. CASE source["r2l"].end = "open" /\ sink["l2r"] = "broken"
  BY <1>2, <1>3, <1>5, <1>7 DEF DP!Next, DP!Peers, DP!PeerEnds, DP!MayEnd, core
<1>8. CASE source["r2l"].end = "eof" /\ sink["l2r"] = "open"
  BY <1>2, <1>3, <1>4, <1>8 DEF DP!Next, DP!Peers, DP!PeerBreaks, core
<1>9. CASE source["r2l"].end = "eof" /\ sink["l2r"] = "broken"
  BY <1>3, <1>4, <1>5, <1>9 DEF DP!vars, core
<1> QED BY <1>2, <1>6, <1>7, <1>8, <1>9

\* The same for the client that goes away.
LEMMA ClientClosesMaps ==
  ASSUME DP!TypeOK, Ends, ClientCloses
  PROVE  [DP!Next]_DP!vars /\ Ends'
<1> USE DEF DP!Dirs
<1>1. /\ source \in [DP!Dirs -> [sent : 0..MaxChunks, end : {"open", "eof", "failure"}]]
      /\ sink \in [DP!Dirs -> {"open", "broken", "failure"}]
  BY DEF DP!TypeOK, DP!StreamsOK
<1>2. PICK how \in {"eof", "failure"} : source' = [source EXCEPT !["l2r"].end = how]
  BY DEF ClientCloses
<1>3. /\ sink["r2l"] = "open" /\ sink' = [sink EXCEPT !["r2l"] = "broken"]
      /\ UNCHANGED <<ctxDone, core>>
      /\ source["l2r"].end \in {"open", "eof"}
  BY <1>1 DEF ClientCloses, Ends
<1>4. Ends'
  BY <1>1, <1>2, <1>3 DEF Ends
<1>5. CASE source["l2r"].end = "eof" /\ how = "eof"
  <2>1. source' = source
    BY <1>1, <1>2, <1>5
  <2> QED BY <1>3, <1>4, <2>1 DEF DP!Next, DP!Peers, DP!PeerBreaks, core
<1>6. CASE source["l2r"].end = "open" \/ how = "failure"
  BY <1>2, <1>3, <1>4, <1>6 DEF DP!Next, DP!Peers, DP!PeerGone, DP!MayEnd, DP!Other, core
<1> QED BY <1>3, <1>5, <1>6

\* All steps: what the client and the child do to the streams, the copy goroutines,
\* the coordinator, the close of the child's output in command.Wait.
LEMMA StepsMap ==
  ASSUME DP!TypeOK, Ends, [Next]_vars
  PROVE  [DP!Next]_DP!vars /\ Ends'
<1> USE DEF DP!Dirs, D!Dirs
<1>1. /\ source \in [DP!Dirs -> [sent : 0..MaxChunks, end : {"open", "eof", "failure"}]]
      /\ sink \in [DP!Dirs -> {"open", "broken", "failure"}]
  BY DEF DP!TypeOK, DP!StreamsOK
<1>2. ASSUME UNCHANGED <<ctxDone, source, sink, core>>
      PROVE  [DP!Next]_DP!vars /\ Ends'
  BY <1>2 DEF DP!vars, core, Ends
<1>3. ASSUME DP!Next, UNCHANGED <<source, sink>>
      PROVE  [DP!Next]_DP!vars /\ Ends'
  BY <1>3 DEF Ends
<1>4. CASE ClientSends
  <2>1. DP!PeerSends("l2r")
    BY <1>4, SamePeers DEF ClientSends
  <2>2. Ends'
    BY <1>1, <2>1 DEF Ends, DP!PeerSends
  <2> QED BY <2>1, <2>2 DEF DP!Next, DP!Peers
<1>5. CASE ClientHalfCloses
  <2>1. DP!PeerEnds("l2r", "eof")
    BY <1>5, SamePeers DEF ClientHalfCloses
  <2>2. Ends'
    BY <1>1, <2>1 DEF Ends, DP!PeerEnds
  <2> QED BY <2>1, <2>2 DEF DP!Next, DP!Peers
<1>6. CASE ChildWrites
  <2>1. DP!PeerSends("r2l")
    BY <1>6, SamePeers DEF ChildWrites
  <2>2. Ends'
    BY <1>1, <2>1 DEF Ends, DP!PeerSends
  <2> QED BY <2>1, <2>2 DEF DP!Next, DP!Peers
<1>7. CASE ChildClosesStdout
  <2>1. DP!PeerEnds("r2l", "eof")
    BY <1>7, SamePeers DEF ChildClosesStdout
  <2>2. Ends'
    BY <1>1, <2>1 DEF Ends, DP!PeerEnds
  <2> QED BY <2>1, <2>2 DEF DP!Next, DP!Peers
<1>8. CASE ChildClosesStdin
  <2>1. DP!PeerBreaks("l2r", "broken")
    BY <1>8, SamePeers DEF ChildClosesStdin
  <2>2. Ends'
    BY <1>1, <2>1 DEF Ends, DP!PeerBreaks
  <2> QED BY <2>1, <2>2 DEF DP!Next, DP!Peers
<1>9. ASSUME NEW how, ChildDies(how), UNCHANGED <<ctxDone, core>>
      PROVE  [DP!Next]_DP!vars /\ Ends'
  BY <1>2, <1>9, PipesEndMaps DEF ChildDies
<1>10. CASE ChildExits \/ KillDelivered \/ HeirEnds \/ WaitKills
  <2>1. CASE ChildExits
    BY <1>9, <2>1 DEF ChildExits
  <2>2. CASE KillDelivered
    BY <1>9, <2>2 DEF KillDelivered
  <2>3. CASE HeirEnds
    BY <1>2, <2>3, PipesEndMaps DEF HeirEnds
  <2>4. CASE WaitKills
    BY <1>2, <1>9, <2>4 DEF WaitKills
  <2> QED BY <1>10, <2>1, <2>2, <2>3, <2>4
<1>11. CASE Cancel
  BY <1>3, <1>11, SamePeers DEF Cancel, DP!Next, DP!Cancel
<1>12. ASSUME NEW d \in DP!Dirs, Copying(d) PROVE [DP!Next]_DP!vars /\ Ends'
  <2>1. DP!Copy(d)
    BY <1>12, SameCopy DEF Copying
  <2>2. UNCHANGED <<source, sink>>
    BY <2>1 DEF DP!Copy, DP!CopyProgress, DP!CopyRead, DP!CopyReadEnds, DP!CopyWrite,
                DP!CopyWriteEnds, DP!CopyReports, DP!SetCopier
  <2> QED BY <1>3, <2>1, <2>2 DEF DP!Next
<1>13. CASE Coordinating
  <2>1. DP!Coordinator
    BY <1>13, SameCoordinator DEF Coordinating
  <2>2. UNCHANGED <<source, sink>>
    BY <2>1 DEF DP!Coordinator, DP!FirstResult, DP!FirstCanceled, DP!SecondResult,
                DP!SecondCanceled, DP!SecondTimeout, DP!Returns
  <2> QED BY <1>3, <2>1, <2>2 DEF DP!Next
<1>14. CASE WaitReaps
  <2>1. DP!CallerCloses("r2l")
    BY <1>14, SamePeers DEF WaitReaps
  <2> QED BY <1>3, <2>1 DEF DP!Next, DP!CallerCloses
<1>15. CASE ClientTakes \/ ChildForks \/ StartFails \/ StartChecks \/ Start \/ Return \/ ScanEnds
  BY <1>2, <1>15 DEF ClientTakes, ChildForks, StartFails, StartChecks, Start, Return, ScanEnds
<1>16. CASE UNCHANGED vars
  BY <1>2, <1>16 DEF vars
<1> QED BY <1>4, <1>5, <1>6, <1>7, <1>8, <1>10, <1>11, <1>12, <1>13, <1>14, <1>15, <1>16,
           ClientClosesMaps DEF Next, Client, Child, Serve

\* Duplex's own inductive invariant, and the shape of the streams.
DuplexInv == DP!IInv /\ Ends

\* Nothing has happened yet.
LEMMA DuplexInit == Init => DuplexInv /\ DP!Init
<1>1. Init => DP!Init
  BY DEF Init, D!Init, DP!Init, D!Dirs, DP!Dirs
<1>2. DP!Init => Ends
  BY DEF DP!Init, DP!Dirs, Ends
<1> QED BY <1>1, <1>2, DP!InvInit, DuplexApplies DEF DuplexInv

\* Every step of Serve keeps Duplex's invariant, being a step of Duplex.
LEMMA DuplexNext == DuplexInv /\ [Next]_vars => DuplexInv' /\ [DP!Next]_DP!vars
<1> SUFFICES ASSUME DuplexInv, [Next]_vars PROVE DuplexInv' /\ [DP!Next]_DP!vars
  OBVIOUS
<1>1. [DP!Next]_DP!vars /\ Ends'
  BY StepsMap DEF DuplexInv, DP!IInv
<1> QED BY <1>1, DP!InvNext, DuplexApplies DEF DuplexInv

\* Serve implements Duplex's specification: a client and a child that come and go,
\* the kill, and a close of the child's output that only command.Wait does, are
\* all within it.
THEOREM RefinesDuplex == Spec => ImplementsDuplex
<1>1. Init => D!Init
  BY DEF Init
<1>2. DuplexInv /\ [Next]_vars => [D!Next]_D!vars
  <2>1. DuplexInv /\ [Next]_vars => DP!Next \/ UNCHANGED DP!vars
    BY DuplexNext
  <2>2. UNCHANGED DP!vars => UNCHANGED D!vars
    BY DEF D!vars, DP!vars
  <2> QED BY <2>1, <2>2, SameNext
<1> QED BY <1>1, <1>2, DuplexInit, DuplexNext, PTL DEF Spec, ImplementsDuplex, D!Spec
-----------------------------------------------------------------------------
(* Serve, its child and what is closed on our side.                         *)

\* closeAll closes the connection and the child's stdin; the child's stdout is
\* closed with the child's reaping, which nothing does before Duplex has returned.
Shut ==
    /\ closes = 0 => readShut = {} /\ writeShut = {}
    /\ closes > 0 => "l2r" \in readShut /\ writeShut = DP!Dirs
    /\ "r2l" \in readShut <=> child = "reaped"
    /\ child = "reaped" => pc = "returned"

Progress ==
    /\ serve \in {"start", "forking", "duplex", "killed", "reaped", "returned"}
    /\ child \in {"none", "running", "exited", "reaped"}
    /\ exit \in {"none", "zero", "nonzero", "signal"}
    /\ heir \in BOOLEAN
    /\ scan \in {"none", "reading", "done"}
    /\ taken \in 0..copier["r2l"].n
    /\ (exit = "none") <=> (child \in {"none", "running"})
    /\ (scan = "none") <=> (child = "none")
    /\ serve \in {"start", "forking"} => child = "none"
    /\ serve \in {"duplex", "killed"} => child \in {"running", "exited"}
    /\ serve = "reaped" => child = "reaped"
    /\ serve = "returned" => child = "none" \/ (child = "reaped" /\ scan = "done")

\* The error, as Return and StartFails set it.
Errors ==
    /\ err \in {"none", "nil", "start", "failure", "canceled", "timeout", "exit"}
    /\ (err # "none") <=> (serve = "returned")
    /\ (err = "start") <=> (serve = "returned" /\ child = "none")
    /\ err = "exit" => exit = "nonzero"
    /\ err = "nil" => exit # "nonzero" \/ ctxDone

ServeInv == DuplexInv /\ Shut /\ Progress /\ Errors

\* What a step of the coordinator does to what Serve looks at.
LEMMA CoordinatorDoes ==
  ASSUME DuplexInv, DP!Coordinator
  PROVE  /\ closes' = 1
         /\ readShut' = readShut \cup {"l2r"} /\ writeShut' = writeShut \cup {"l2r", "r2l"}
         /\ pc # "returned"
         /\ UNCHANGED <<ctxDone, source, sink, copier>>
<1>1. closes \in {0, 1}
  BY DEF DuplexInv, DP!IInv, DP!TypeOK, DP!ChannelOK
<1> QED BY <1>1 DEF DP!Coordinator, DP!FirstResult, DP!FirstCanceled, DP!SecondResult,
               DP!SecondCanceled, DP!SecondTimeout, DP!Returns, DP!closeOnce

\* What a step of a copy goroutine does to it.
LEMMA CopyDoes ==
  ASSUME DuplexInv, NEW d \in DP!Dirs, DP!Copy(d)
  PROVE  /\ UNCHANGED <<ctxDone, source, sink, readShut, writeShut, received, closes, pc>>
         /\ copier["r2l"].n \in Nat /\ copier'["r2l"].n \in Nat
         /\ copier["r2l"].n <= copier'["r2l"].n
<1>1. copier \in [DP!Dirs -> [pc : {"read", "write", "report", "done"},
                              n : 0..MaxChunks, err : DP!CopyErrors]]
  BY DEF DuplexInv, DP!IInv, DP!TypeOK, DP!CopiersOK
<1>2. copier["r2l"].n \in Nat
  BY <1>1, ExecBridgeAssumption DEF DP!Dirs
<1> QED BY <1>1, <1>2 DEF DP!Copy, DP!CopyProgress, DP!CopyRead, DP!CopyReadEnds, DP!CopyWrite,
               DP!CopyWriteEnds, DP!CopyReports, DP!SetCopier, DP!Dirs

\* The errors Duplex can hand to Serve.
LEMMA ResultErrs ==
  ASSUME DuplexInv, pc = "returned"
  PROVE  D!ResultErr \in {"nil", "failure", "canceled", "timeout"}
<1>1. received \in Seq(DP!AllEntries) /\ Len(received) = 2
  BY DEF DuplexInv, DP!IInv, DP!TypeOK, DP!ChannelOK
<1>2. ASSUME NEW S, NEW s \in Seq(S), Len(s) = 2 PROVE s[1] \in S /\ s[2] \in S
  <2>1. 1 \in 1..Len(s) /\ 2 \in 1..Len(s)
    BY <1>2
  <2> QED BY <2>1
<1>3. received[1] \in DP!AllEntries /\ received[2] \in DP!AllEntries
  BY <1>1, <1>2
<1> QED BY <1>3 DEF D!ResultErr, D!IsNormalError, DP!AllEntries, DP!AllErrors, DP!CopyErrors

\* The invariant holds at the start.
LEMMA ServeInit == Init => ServeInv
<1> SUFFICES ASSUME Init PROVE ServeInv
  OBVIOUS
<1>1. DuplexInv /\ DP!Init
  BY DuplexInit
<1>2. copier["r2l"].n = 0
  BY <1>1 DEF DP!Init, DP!Dirs
<1>3. Shut
  BY <1>1 DEF Init, DP!Init, Shut
<1>4. Progress
  <2>1. taken \in 0..copier["r2l"].n
    BY <1>2 DEF Init
  <2> QED BY <2>1 DEF Init, Progress
<1>5. Errors
  BY DEF Init, Errors
<1> QED BY <1>1, <1>3, <1>4, <1>5 DEF ServeInv

\* Every step keeps the invariant.
LEMMA ServeNext == ServeInv /\ [Next]_vars => ServeInv'
<1> SUFFICES ASSUME ServeInv, [Next]_vars PROVE ServeInv'
  OBVIOUS
<1> USE DEF DP!Dirs, D!Dirs
<1>1. DuplexInv' /\ DuplexInv
  BY DuplexNext DEF ServeInv
<1>2. Shut /\ Progress /\ Errors
  BY DEF ServeInv
<1>3. closes \in {0, 1} /\ closes = IF pc = "first" THEN 0 ELSE 1
  BY DEF ServeInv, DuplexInv, DP!IInv, DP!TypeOK, DP!ChannelOK, DP!CloseAllOnce
<1>4. copier["r2l"].n \in Nat
  BY ExecBridgeAssumption DEF ServeInv, DuplexInv, DP!IInv, DP!TypeOK, DP!CopiersOK
<1>5. ASSUME UNCHANGED <<core, serve, child, exit, scan, err>>, taken' \in 0..copier["r2l"].n,
             heir' \in BOOLEAN, ctxDone => ctxDone'
      PROVE  Shut' /\ Progress' /\ Errors'
  <2>1. Shut'
    BY <1>2, <1>5 DEF Shut, core
  <2>2. Progress'
    BY <1>2, <1>5 DEF Progress, core
  <2>3. Errors'
    BY <1>2, <1>5 DEF Errors
  <2> QED BY <2>1, <2>2, <2>3
<1>6. taken \in 0..copier["r2l"].n /\ heir \in BOOLEAN
  BY <1>2 DEF Progress
<1>20. SUFFICES Shut' /\ Progress' /\ Errors'
  BY <1>1 DEF ServeInv
<1>7. CASE Client
  <2>1. CASE ClientTakes
    BY <1>4, <1>5, <1>6, <2>1 DEF ClientTakes
  <2>2. CASE ClientSends \/ ClientHalfCloses \/ ClientCloses
    BY <1>5, <1>6, <2>2 DEF ClientSends, ClientHalfCloses, ClientCloses, D!PeerSends,
                           D!PeerEnds, core, own
  <2> QED BY <1>7, <2>1, <2>2 DEF Client
<1>8. ASSUME NEW how \in {"zero", "nonzero", "signal"}, ChildDies(how),
             UNCHANGED <<ctxDone, core, heir, scan, taken, err>>,
             serve' = serve \/ (serve = "duplex" /\ serve' = "killed")
      PROVE  Shut' /\ Progress' /\ Errors'
  <2>1. child = "running" /\ child' = "exited" /\ exit' = how
    BY <1>8 DEF ChildDies
  <2>2. serve \in {"duplex", "killed"}
    BY <1>2, <2>1 DEF Progress
  <2>3. Shut'
    BY <1>2, <1>8, <2>1 DEF Shut, core
  <2>4. Progress'
    BY <1>2, <1>8, <2>1, <2>2 DEF Progress, core
  <2>5. Errors'
    BY <1>2, <1>8, <2>1, <2>2 DEF Errors
  <2> QED BY <2>3, <2>4, <2>5
<1>9. CASE Child
  <2>1. CASE ChildExits
    BY <1>8, <2>1 DEF ChildExits
  <2>2. CASE ChildWrites \/ ChildClosesStdout \/ ChildClosesStdin \/ ChildForks \/ HeirEnds
    BY <1>5, <1>6, <2>2 DEF ChildWrites, ChildClosesStdout, ChildClosesStdin, ChildForks, HeirEnds,
                           D!PeerSends, D!PeerEnds, D!PeerBreaks, core, own
  <2> QED BY <1>9, <2>1, <2>2 DEF Child
<1>10. CASE KillDelivered
  BY <1>8, <1>10 DEF KillDelivered
<1>11. CASE Cancel
  BY <1>5, <1>6, <1>11 DEF Cancel, D!Cancel, core, own
<1>12. CASE StartFails \/ StartChecks \/ Start
  <2>1. UNCHANGED <<ctxDone, core, taken, exit, heir>> /\ child = "none" /\ serve # "returned"
    BY <1>2, <1>12 DEF StartFails, StartChecks, Start, Progress
  <2>2. Shut'
    BY <1>2, <1>12, <2>1 DEF StartFails, StartChecks, Start, Shut, core
  <2>3. Progress'
    BY <1>2, <1>12, <2>1 DEF StartFails, StartChecks, Start, Progress, core
  <2>4. Errors'
    BY <1>2, <1>12, <2>1 DEF StartFails, StartChecks, Start, Errors
  <2> QED BY <2>2, <2>3, <2>4
<1>13. CASE Coordinating
  <2>1. DP!Coordinator /\ UNCHANGED own /\ serve = "duplex"
    BY <1>13, SameCoordinator DEF Coordinating
  <2>2. child \in {"running", "exited"}
    BY <1>2, <2>1 DEF Progress
  <2>3. Shut'
    BY <1>1, <1>2, <1>3, <2>1, <2>2, CoordinatorDoes DEF Shut, own
  <2>4. Progress' /\ Errors'
    BY <1>1, <1>2, <2>1, CoordinatorDoes DEF Progress, Errors, own
  <2> QED BY <2>3, <2>4
<1>14. ASSUME NEW d \in DP!Dirs, Copying(d) PROVE Shut' /\ Progress' /\ Errors'
  <2>1. DP!Copy(d) /\ UNCHANGED own
    BY <1>14, SameCopy DEF Copying
  <2>2. Shut'
    BY <1>1, <1>2, <2>1, CopyDoes DEF Shut, own
  <2>3. taken' \in 0..copier'["r2l"].n
    BY <1>1, <1>6, <2>1, CopyDoes DEF own
  <2>4. Progress' /\ Errors'
    BY <1>1, <1>2, <2>1, <2>3, CopyDoes DEF Progress, Errors, own
  <2> QED BY <2>2, <2>4
<1>15. CASE WaitKills
  <2>1. CASE child = "running"
    BY <1>8, <1>15, <2>1 DEF WaitKills
  <2>2. CASE child # "running"
    <3>1. UNCHANGED <<ctxDone, core, child, exit, heir, scan, taken, err>>
          /\ serve = "duplex" /\ serve' = "killed"
      BY <1>15, <2>2 DEF WaitKills
    <3> QED BY <1>2, <3>1 DEF Shut, Progress, Errors, core
  <2> QED BY <2>1, <2>2
<1>16. CASE WaitReaps
  <2>1. /\ pc = "returned" /\ serve \in {"duplex", "killed"} /\ serve' = "reaped"
        /\ child = "exited" /\ child' = "reaped"
        /\ readShut' = readShut \cup {"r2l"}
        /\ UNCHANGED <<ctxDone, copier, writeShut, closes, pc, exit, heir, scan, taken, err>>
    BY <1>16 DEF WaitReaps, Waiting, D!CallerCloses
  <2>2. Shut'
    BY <1>2, <1>3, <2>1 DEF Shut
  <2>3. Progress' /\ Errors'
    BY <1>2, <2>1 DEF Progress, Errors
  <2> QED BY <2>2, <2>3
<1>17. CASE Return
  <2>1. /\ serve = "reaped" /\ serve' = "returned" /\ scan = "done" /\ err' = ReturnErr
        /\ UNCHANGED <<ctxDone, core, child, exit, heir, scan, taken>>
    BY <1>17 DEF Return
  <2>2. child = "reaped" /\ pc = "returned"
    BY <1>2, <2>1 DEF Progress, Shut
  <2>3. Shut' /\ Progress'
    BY <1>2, <2>1, <2>2 DEF Shut, Progress, core
  <2>4. ReturnErr \in {"nil", "failure", "canceled", "timeout", "exit"}
    BY <1>1, <2>2, ResultErrs DEF ReturnErr
  <2>5. /\ ReturnErr = "exit" => exit = "nonzero"
        /\ ReturnErr = "nil" => exit # "nonzero" \/ ctxDone
    BY <1>1, <2>2, ResultErrs DEF ReturnErr, expectedExit
  <2>6. Errors'
    BY <1>2, <2>1, <2>2, <2>4, <2>5 DEF Errors
  <2> QED BY <2>3, <2>6
<1>18. CASE ScanEnds
  BY <1>2, <1>18 DEF ScanEnds, Shut, Progress, Errors, core
<1>19. CASE UNCHANGED vars
  BY <1>5, <1>6, <1>19 DEF vars, core, own
<1> QED BY <1>7, <1>9, <1>10, <1>11, <1>12, <1>13, <1>14, <1>15, <1>16, <1>17, <1>18, <1>19
        DEF Next, Serve

\* Types, and which states of the child, the scanner and Serve go together.
THEOREM TypeCorrect == Spec => []TypeOK
<1>1. ServeInv => TypeOK
  <2>1. ServeInv => D!TypeOK
    BY SameTypes DEF ServeInv, DuplexInv, DP!IInv
  <2> QED BY <2>1 DEF ServeInv, Progress, Errors, TypeOK
<1> QED BY ServeInit, ServeNext, <1>1, PTL DEF Spec

\* When Serve returns after starting a child, the child is reaped, everything is
\* closed on our side, and the stderr goroutine has ended.
THEOREM LeavesNothingBehind == Spec => []NothingLeftBehind
<1>1. ServeInv => NothingLeftBehind
  <2> SUFFICES ASSUME ServeInv, serve = "returned", child # "none"
      PROVE child = "reaped" /\ readShut = D!Dirs /\ writeShut = D!Dirs /\ scan = "done"
    BY DEF NothingLeftBehind
  <2>1. child = "reaped" /\ scan = "done" /\ pc = "returned"
    BY DEF ServeInv, Progress, Shut
  <2>2. closes > 0 /\ readShut \subseteq DP!Dirs
    BY <2>1 DEF ServeInv, DuplexInv, DP!IInv, DP!CloseAllOnce, DP!TypeOK, DP!StreamsOK
  <2> QED BY <2>1, <2>2 DEF ServeInv, Shut, D!Dirs, DP!Dirs
<1> QED BY ServeInit, ServeNext, <1>1, PTL DEF Spec
-----------------------------------------------------------------------------
(* The contract the listener relies on.                                     *)

\* A step that leaves the caller's context, Serve's position, the child and the
\* connection alone is none of the contract's.
LEMMA ContractStutters ==
  ASSUME UNCHANGED <<ctxDone, serve, child>>, connClosed' <=> connClosed
  PROVE  UNCHANGED Contract!vars
  BY DEF Contract!vars

\* The end of the child is the contract's, whoever caused it.
LEMMA ContractChildEnds ==
  ASSUME child = "running", child' = "exited", UNCHANGED <<ctxDone, readShut>>,
         \/ serve' = serve
         \/ serve = "duplex" /\ serve' = "killed"
  PROVE  Contract!ChildEnds
  BY DEF Contract!ChildEnds, connClosed

\* Every step of Serve is one of the contract's, or none.
LEMMA ContractNext == ServeInv /\ [Next]_vars => [Contract!Next]_(Contract!vars)
<1> SUFFICES ASSUME ServeInv, [Next]_vars PROVE Contract!Next \/ UNCHANGED Contract!vars
  OBVIOUS
<1>1. CASE Client \/ ChildWrites \/ ChildClosesStdout \/ ChildClosesStdin \/ ChildForks
           \/ HeirEnds \/ ScanEnds \/ StartChecks \/ UNCHANGED vars
  <2>1. CASE StartChecks
    BY <2>1 DEF StartChecks, core, Contract!vars, connClosed
  <2>2. CASE ~StartChecks
    <3>1. UNCHANGED <<ctxDone, serve, child, readShut>>
      BY <1>1, <2>2 DEF Client, ClientSends, ClientTakes, ClientHalfCloses, ClientCloses,
         ChildWrites, ChildClosesStdout, ChildClosesStdin, ChildForks, HeirEnds, ScanEnds,
         D!PeerSends, D!PeerEnds, D!PeerBreaks, vars, core, own
    <3> QED BY <3>1, ContractStutters DEF connClosed
  <2> QED BY <2>1, <2>2
<1>2. CASE ChildExits \/ KillDelivered
  <2>1. child = "running" /\ child' = "exited" /\ UNCHANGED <<ctxDone, readShut, serve>>
    BY <1>2 DEF ChildExits, KillDelivered, ChildDies, core
  <2> QED BY <2>1, ContractChildEnds DEF Contract!Next
<1>3. CASE Cancel
  BY <1>3 DEF Cancel, D!Cancel, own, Contract!Next, Contract!Cancel, connClosed
<1>4. CASE StartFails
  BY <1>4 DEF StartFails, core, Contract!Next, Contract!StartFails, connClosed
<1>5. CASE Start
  <2>1. child = "none"
    BY <1>5 DEF Start, ServeInv, Progress
  <2> QED BY <1>5, <2>1 DEF Start, core, Contract!Next, Contract!Start, connClosed
<1>6. CASE Coordinating
  <2>1. serve = "duplex" /\ UNCHANGED <<ctxDone, serve, child>> /\ connClosed'
    BY <1>6, SameCoordinator, CoordinatorDoes DEF Coordinating, ServeInv, own, connClosed
  <2>2. CASE connClosed
    BY <2>1, <2>2, ContractStutters
  <2>3. CASE ~connClosed
    BY <2>1, <2>3 DEF Contract!Next, Contract!CloseConn
  <2> QED BY <2>2, <2>3
<1>7. CASE WaitKills
  <2>1. serve = "duplex" /\ serve' = "killed" /\ UNCHANGED <<ctxDone, readShut>>
    BY <1>7 DEF WaitKills, Waiting, core
  <2>2. \/ child = "running" /\ child' = "exited"
        \/ child' = child
    BY <1>7 DEF WaitKills, ChildDies
  <2>3. CASE child' = child
    BY <2>1, <2>3 DEF Contract!vars, connClosed
  <2> QED BY <2>1, <2>2, <2>3, ContractChildEnds DEF Contract!Next
<1>8. CASE WaitReaps
  <2>1. /\ child = "exited" /\ child' = "reaped" /\ serve' = "reaped"
        /\ serve \in {"duplex", "killed"} /\ pc = "returned"
        /\ readShut' = readShut \cup {"r2l"} /\ ctxDone' = ctxDone
    BY <1>8 DEF WaitReaps, Waiting, D!CallerCloses
  <2>2. connClosed /\ connClosed'
    BY <2>1 DEF ServeInv, DuplexInv, DP!IInv, DP!CloseAllOnce, Shut, connClosed
  <2> QED BY <2>1, <2>2 DEF Contract!Next, Contract!Reap
<1>9. CASE Return
  <2>1. child = "reaped"
    BY <1>9 DEF Return, ServeInv, Progress
  <2> QED BY <1>9, <2>1 DEF Return, core, Contract!Next, Contract!Return, connClosed
<1>10. CASE \E d \in D!Dirs : Copying(d)
  <2>1. PICK d \in D!Dirs : DP!Copy(d) /\ UNCHANGED own
    BY <1>10, SameCopy DEF Copying
  <2>2. UNCHANGED <<ctxDone, readShut>>
    BY <2>1, CopyDoes DEF ServeInv, D!Dirs, DP!Dirs
  <2> QED BY <2>1, <2>2, ContractStutters DEF own, connClosed
<1> QED BY <1>1, <1>2, <1>3, <1>4, <1>5, <1>6, <1>7, <1>8, <1>9, <1>10 DEF Next, Child, Serve

\* For any payload: Serve keeps the contract. In particular it does not return from
\* a started call before its child is reaped, nor reaps it with the connection open.
THEOREM KeepsItsContract == Spec => ImplementsConnection
<1>1. Init => Contract!Init
  BY DEF Init, D!Init, Contract!Init, connClosed
<1> QED BY <1>1, ServeInit, ServeNext, ContractNext, PTL
        DEF Spec, ImplementsConnection, Contract!Spec
-----------------------------------------------------------------------------
(* Causes of errors, and complete responses. Both are about Duplex under    *)
(* Serve's closeAll, whose errors are all known to IsNormalError.           *)

Causes ==
    /\ \A d \in DP!Dirs : copier[d].err = "failure" => source["l2r"].end = "failure"
    /\ \A k \in 1..Len(received) : received[k].err = "canceled" => ctxDone

Complete == source["r2l"].end # "open" /\ copier["r2l"].n = source["r2l"].sent

\* A direction that stops by itself while the client is there has met the end of
\* the child's output; the second part remembers that it was the first to end.
Response ==
    /\ (closes = 0 /\ copier["r2l"].pc \in {"report", "done"} /\ sink["r2l"] = "open") => Complete
    /\ (received # <<>> /\ received[1].dir = "r2l" /\ received[1].err # "canceled"
            /\ sink["r2l"] = "open") => Complete /\ copier["r2l"].pc = "done"

\* The peers: a failed or finished stream stays so, a broken sink too.
LEMMA PeersKeep ==
  ASSUME DuplexInv, Causes, Response, DP!Peers \/ DP!Cancel
  PROVE  Causes' /\ Response'
<1> USE DEF DP!Dirs
<1>1. /\ source \in [DP!Dirs -> [sent : 0..MaxChunks, end : {"open", "eof", "failure"}]]
      /\ sink \in [DP!Dirs -> {"open", "broken", "failure"}]
  BY DEF DuplexInv, DP!IInv, DP!TypeOK, DP!StreamsOK
<1>2. /\ UNCHANGED <<copier, received, closes>>
      /\ ctxDone => ctxDone'
  BY DEF DP!Peers, DP!PeerSends, DP!PeerEnds, DP!PeerBreaks, DP!PeerGone, DP!Cancel
<1>3. /\ source["l2r"].end = "failure" => source'["l2r"].end = "failure"
      /\ source["r2l"].end # "open" =>
             source'["r2l"].end # "open" /\ source'["r2l"].sent = source["r2l"].sent
      /\ sink'["r2l"] = "open" => sink["r2l"] = "open"
  <2>1. ASSUME NEW d \in DP!Dirs, DP!PeerSends(d) PROVE <1>3!1 /\ <1>3!2 /\ <1>3!3
    BY <1>1, <2>1 DEF DP!PeerSends
  <2>2. ASSUME NEW d \in DP!Dirs, NEW how \in {"eof", "failure"}, DP!PeerEnds(d, how)
        PROVE  <1>3!1 /\ <1>3!2 /\ <1>3!3
    BY <1>1, <2>2 DEF DP!PeerEnds, DP!MayEnd
  <2>3. ASSUME NEW d \in DP!Dirs, NEW how \in {"broken", "failure"}, DP!PeerBreaks(d, how)
        PROVE  <1>3!1 /\ <1>3!2 /\ <1>3!3
    BY <1>1, <2>3 DEF DP!PeerBreaks
  <2>4. ASSUME NEW d \in DP!Dirs, NEW how \in {"eof", "failure"},
               NEW broken \in {"broken", "failure"}, DP!PeerGone(d, how, broken)
        PROVE  <1>3!1 /\ <1>3!2 /\ <1>3!3
    BY <1>1, <2>4 DEF DP!PeerGone, DP!MayEnd, DP!Other
  <2>5. CASE DP!Cancel
    BY <2>5 DEF DP!Cancel
  <2> QED BY <2>1, <2>2, <2>3, <2>4, <2>5 DEF DP!Peers
<1> QED BY <1>2, <1>3 DEF Causes, Response, Complete

\* A copy goroutine: it fails on a reset client only, and before closeAll it stops
\* at the end of its source or at a client that is gone.
LEMMA CopyKeeps ==
  ASSUME ServeInv, Causes, Response, NEW d \in DP!Dirs, DP!Copy(d)
  PROVE  Causes' /\ Response'
<1> USE DEF DP!Dirs
<1>1. /\ copier \in [DP!Dirs -> [pc : {"read", "write", "report", "done"},
                                 n : 0..MaxChunks, err : DP!CopyErrors]]
      /\ sink \in [DP!Dirs -> {"open", "broken", "failure"}]
  BY DEF ServeInv, DuplexInv, DP!IInv, DP!TypeOK, DP!StreamsOK, DP!CopiersOK
<1>2. UNCHANGED <<ctxDone, source, sink, received, closes>>
  BY CopyDoes DEF ServeInv
<1>3. Ends /\ (closes = 0 => readShut = {} /\ writeShut = {})
  BY DEF ServeInv, DuplexInv, Shut
<1>4. \A e \in DP!Dirs : copier'[e].err = "failure" =>
          copier[e].err = "failure" \/ source["l2r"].end = "failure"
  <2>1. CASE DP!CopyRead(d)
    BY <1>1, <2>1 DEF DP!CopyRead, DP!SetCopier
  <2>2. CASE DP!CopyReadEnds(d)
    BY <1>1, <1>3, <2>2 DEF DP!CopyReadEnds, DP!SetCopier, DP!ClosedErrors, Ends
  <2>3. CASE DP!CopyWrite(d)
    BY <1>1, <2>3 DEF DP!CopyWrite
  <2>4. CASE DP!CopyWriteEnds(d)
    BY <1>1, <1>3, <2>4 DEF DP!CopyWriteEnds, DP!SetCopier, DP!ClosedErrors, Ends
  <2>5. CASE DP!CopyReports(d)
    BY <1>1, <2>5 DEF DP!CopyReports
  <2> QED BY <2>1, <2>2, <2>3, <2>4, <2>5 DEF DP!Copy, DP!CopyProgress
<1>5. copier["r2l"].pc = "done" => copier'["r2l"] = copier["r2l"]
  BY <1>1 DEF DP!Copy, DP!CopyProgress, DP!CopyRead, DP!CopyReadEnds, DP!CopyWrite,
         DP!CopyWriteEnds, DP!CopyReports, DP!SetCopier
<1>6. (closes = 0 /\ copier'["r2l"].pc \in {"report", "done"} /\ sink["r2l"] = "open") =>
          Complete /\ copier'["r2l"].n = copier["r2l"].n
  <2>1. CASE DP!CopyRead(d)
    BY <1>1, <2>1 DEF DP!CopyRead, DP!SetCopier, Response
  <2>2. CASE DP!CopyReadEnds(d)
    BY <1>1, <1>3, <2>2 DEF DP!CopyReadEnds, DP!SetCopier, Response, Complete
  <2>3. CASE DP!CopyWrite(d)
    BY <1>1, <2>3 DEF DP!CopyWrite, Response
  <2>4. CASE DP!CopyWriteEnds(d)
    BY <1>1, <1>3, <2>4 DEF DP!CopyWriteEnds, DP!SetCopier, Response
  <2>5. CASE DP!CopyReports(d)
    BY <1>1, <2>5 DEF DP!CopyReports, Response
  <2> QED BY <2>1, <2>2, <2>3, <2>4, <2>5 DEF DP!Copy, DP!CopyProgress
<1>7. Causes'
  BY <1>2, <1>4 DEF Causes
<1>8. Response'
  BY <1>2, <1>5, <1>6 DEF Response, Complete
<1> QED BY <1>7, <1>8

\* The coordinator: the first entry it takes is true, or made up on a cancellation.
LEMMA CoordinatorKeeps ==
  ASSUME DuplexInv, Causes, Response, DP!Coordinator
  PROVE  Causes' /\ Response'
<1> USE DEF DP!Dirs
<1>1. UNCHANGED <<ctxDone, source, sink, copier>> /\ closes' = 1
  BY CoordinatorDoes
<1>2. results # <<>> => /\ Head(results).err # "canceled"
                        /\ copier[Head(results).dir].pc = "done"
  <2>1. results # <<>> => 1 \in 1..Len(results) /\ Head(results) = results[1]
    BY DEF DuplexInv, DP!IInv, DP!TypeOK, DP!ChannelOK
  <2>2. \A i \in 1..Len(results) : results[i] \in DP!CopyEntries
    BY DP!ChannelEntries, DuplexApplies DEF DuplexInv, DP!IInv
  <2>3. \A e \in DP!CopyEntries : e.err # "canceled"
    BY DEF DP!CopyEntries, DP!CopyErrors
  <2>4. \A i \in 1..Len(results) : copier[results[i].dir].pc = "done"
    BY DEF DuplexInv, DP!IInv, DP!ResultsTruthful, DP!Truthful
  <2> QED BY <2>1, <2>2, <2>3, <2>4
<1>3. CASE pc = "first"
  <2>1. PICK e : received' = <<e>> /\ (e.err = "canceled" => ctxDone)
                  /\ (e.err # "canceled" => copier[e.dir].pc = "done")
    BY <1>2, <1>3 DEF DP!Coordinator, DP!FirstResult, DP!FirstCanceled, DP!SecondResult,
       DP!SecondCanceled, DP!SecondTimeout, DP!Returns, DP!Interrupted, DP!Entry
  <2>2. Len(received') = 1 /\ received'[1] = e
    BY <2>1
  <2>3. closes = 0
    BY <1>3 DEF DuplexInv, DP!IInv, DP!CloseAllOnce
  <2> QED BY <1>1, <2>1, <2>2, <2>3 DEF Causes, Response, Complete
<1>4. CASE pc # "first"
  <2>1. PICK e \in DP!AllEntries : received' = Append(received, e) /\ (e.err = "canceled" => ctxDone)
    <3>1. results # <<>> => Head(results) \in DP!AllEntries
      <4>1. results \in Seq(DP!CopyEntries) /\ DP!CopyEntries \subseteq DP!AllEntries
        BY DEF DuplexInv, DP!IInv, DP!TypeOK, DP!ChannelOK, DP!CopyEntries, DP!AllEntries,
               DP!AllErrors
      <4> QED BY <4>1
    <3>2. \A how \in {"canceled", "timeout"} : DP!Interrupted(how) \in DP!AllEntries
      BY ExecBridgeAssumption DEF DP!Interrupted, DP!Entry, DP!AllEntries, DP!AllErrors
    <3>3. CASE DP!SecondResult
      BY <1>2, <3>1, <3>3 DEF DP!SecondResult, DP!Returns
    <3>4. CASE DP!SecondCanceled
      BY <3>2, <3>4 DEF DP!SecondCanceled, DP!Returns
    <3>5. CASE DP!SecondTimeout
      BY <3>2, <3>5 DEF DP!SecondTimeout, DP!Returns, DP!Interrupted, DP!Entry
    <3> QED BY <1>4, <3>3, <3>4, <3>5 DEF DP!Coordinator, DP!FirstResult, DP!FirstCanceled
  <2>2. /\ received \in Seq(DP!AllEntries) /\ Len(received) = 1
    BY <1>4, <2>1 DEF DuplexInv, DP!IInv, DP!TypeOK, DP!ChannelOK, DP!Coordinator, DP!FirstResult,
       DP!FirstCanceled, DP!SecondResult, DP!SecondCanceled, DP!SecondTimeout, DP!Returns
  <2>3. Len(received') = 2 /\ received'[1] = received[1] /\ received'[2] = e
    <3>1. ASSUME NEW s \in Seq(DP!AllEntries), Len(s) = 1
          PROVE  Len(Append(s, e)) = 2 /\ Append(s, e)[1] = s[1] /\ Append(s, e)[2] = e
      <4>1. /\ Len(Append(s, e)) = Len(s) + 1
            /\ \A i \in 1..Len(s) : Append(s, e)[i] = s[i]
            /\ Append(s, e)[Len(s) + 1] = e
        BY AppendProperties
      <4>2. 1 \in 1..Len(s) /\ Len(s) + 1 = 2
        BY <3>1
      <4> QED BY <4>1, <4>2
    <3> QED BY <2>1, <2>2, <3>1
  <2>4. received # <<>>
    BY <2>2
  <2> QED BY <1>1, <2>1, <2>2, <2>3, <2>4 DEF Causes, Response, Complete
<1> QED BY <1>3, <1>4

\* What the caller's cancellation and a reset client were, they stay.
LEMMA CausesStay ==
  ASSUME DuplexInv, [DP!Next]_DP!vars
  PROVE  /\ ctxDone => ctxDone'
         /\ source["l2r"].end = "failure" => source'["l2r"].end = "failure"
<1> USE DEF DP!Dirs
<1>1. source \in [DP!Dirs -> [sent : 0..MaxChunks, end : {"open", "eof", "failure"}]]
  BY DEF DuplexInv, DP!IInv, DP!TypeOK, DP!StreamsOK
<1>2. CASE DP!Peers \/ DP!Cancel
  <2>1. ctxDone => ctxDone'
    BY <1>2 DEF DP!Peers, DP!PeerSends, DP!PeerEnds, DP!PeerBreaks, DP!PeerGone, DP!Cancel
  <2>2. ASSUME NEW d \in DP!Dirs,
               DP!PeerSends(d) \/ (\E how \in {"eof", "failure"} : DP!PeerEnds(d, how))
        PROVE  source["l2r"].end = "failure" => source'["l2r"].end = "failure"
    BY <1>1, <2>2 DEF DP!PeerSends, DP!PeerEnds, DP!MayEnd
  <2>3. ASSUME NEW d \in DP!Dirs, NEW how \in {"eof", "failure"},
               NEW broken \in {"broken", "failure"}, DP!PeerGone(d, how, broken)
        PROVE  source["l2r"].end = "failure" => source'["l2r"].end = "failure"
    BY <1>1, <2>3 DEF DP!PeerGone, DP!MayEnd, DP!Other
  <2>4. (DP!Cancel \/ \E d \in DP!Dirs, how \in {"broken", "failure"} : DP!PeerBreaks(d, how))
            => UNCHANGED source
    BY DEF DP!PeerBreaks, DP!Cancel
  <2> QED BY <1>2, <2>1, <2>2, <2>3, <2>4 DEF DP!Peers
<1>3. CASE DP!Coordinator
  BY <1>3, CoordinatorDoes
<1>4. ASSUME NEW d \in DP!Dirs, DP!Copy(d) \/ DP!CallerCloses(d)
      PROVE  UNCHANGED <<ctxDone, source>>
  BY <1>4, CopyDoes DEF DP!CallerCloses
<1>5. CASE UNCHANGED DP!vars
  BY <1>5 DEF DP!vars
<1> QED BY <1>2, <1>3, <1>4, <1>5 DEF DP!Next

ErrCauses ==
    /\ err = "canceled" => ctxDone
    /\ err = "failure" => source["l2r"].end = "failure"

CauseInv == ServeInv /\ Causes /\ Response /\ ErrCauses

\* Nothing has been received and no error set.
LEMMA CauseInit == Init => CauseInv
<1>1. DP!Init => Causes /\ Response
  BY DEF DP!Init, Causes, Response, DP!Dirs
<1>2. Init => ErrCauses
  BY DEF Init, ErrCauses
<1> QED BY <1>1, <1>2, ServeInit, DuplexInit DEF CauseInv

\* Every step keeps them; at the return, an error comes from an entry taken, and a
\* failure among these is the account of a copy goroutine.
LEMMA CauseNext == CauseInv /\ [Next]_vars => CauseInv'
<1> SUFFICES ASSUME CauseInv, [Next]_vars PROVE CauseInv'
  OBVIOUS
<1>1. DuplexInv /\ ServeInv /\ ServeInv'
  BY ServeNext DEF CauseInv, ServeInv
<1>2. [DP!Next]_DP!vars
  BY <1>1, DuplexNext
<1>3. Causes' /\ Response'
  <2>1. CASE DP!Peers \/ DP!Cancel
    BY <1>1, <2>1, PeersKeep DEF CauseInv
  <2>2. CASE DP!Coordinator
    BY <1>1, <2>2, CoordinatorKeeps DEF CauseInv
  <2>3. ASSUME NEW d \in DP!Dirs, DP!Copy(d) PROVE Causes' /\ Response'
    BY <1>1, <2>3, CopyKeeps DEF CauseInv
  <2>4. ASSUME UNCHANGED <<ctxDone, source, sink, copier, received, closes>>
        PROVE  Causes' /\ Response'
    BY <2>4 DEF CauseInv, Causes, Response, Complete
  <2>5. ASSUME NEW d \in DP!Dirs, DP!CallerCloses(d) PROVE Causes' /\ Response'
    BY <2>4, <2>5 DEF DP!CallerCloses
  <2>6. CASE UNCHANGED DP!vars
    BY <2>4, <2>6 DEF DP!vars
  <2> QED BY <1>2, <2>1, <2>2, <2>3, <2>5, <2>6 DEF DP!Next
<1>4. ASSUME UNCHANGED err PROVE ErrCauses'
  BY <1>1, <1>2, <1>4, CausesStay DEF CauseInv, ErrCauses
<1>5. ASSUME StartFails PROVE ErrCauses'
  BY <1>5 DEF StartFails, ErrCauses
<1>6. ASSUME Return PROVE ErrCauses'
  <2>1. /\ err' = ReturnErr /\ UNCHANGED <<ctxDone, source, core>>
        /\ pc = "returned"
    BY <1>1, <1>6 DEF Return, ServeInv, Progress, Shut
  <2>2. Len(received) = 2 /\ \A k \in 1..2 : received[k].dir \in DP!Dirs
    BY <1>1, <2>1, DP!ChannelEntries, DuplexApplies
       DEF DuplexInv, DP!IInv, DP!TypeOK, DP!ChannelOK
  <2>3. ASSUME NEW k \in 1..2 PROVE
            /\ received[k].err = "canceled" => ctxDone
            /\ received[k].err = "failure" => source["l2r"].end = "failure"
    BY <1>1, <2>2, <2>3 DEF CauseInv, Causes, DuplexInv, DP!IInv, DP!ResultsTruthful,
                            DP!Truthful, DP!Genuine, DP!CopyErrors
  <2>4. D!ResultErr \in {"nil", received[1].err, received[2].err}
    BY DEF D!ResultErr
  <2> QED BY <2>1, <2>3, <2>4 DEF ErrCauses, ReturnErr, core
<1>7. Next => StartFails \/ Return \/ UNCHANGED err
  BY DEF Next, Client, Child, Serve, ClientSends, ClientTakes, ClientHalfCloses, ClientCloses,
     ChildWrites, ChildClosesStdout, ChildClosesStdin, ChildForks, ChildExits, HeirEnds,
     Cancel, StartChecks, Start, Coordinating, WaitKills, WaitReaps, ScanEnds, KillDelivered,
     Copying, own
<1>8. ErrCauses'
  BY <1>4, <1>5, <1>6, <1>7 DEF vars, own
<1> QED BY <1>1, <1>3, <1>8 DEF CauseInv

\* A response that was the first to end, with the client still there, is in the
\* connection as a whole: its direction had written all of it before closeAll.
THEOREM ResponsesAreComplete == Spec => []ResponseComplete
<1>1. CauseInv => ResponseComplete
  BY DEF CauseInv, Response, Complete, ResponseComplete
<1> QED BY CauseInit, CauseNext, <1>1, PTL DEF Spec

\* Serve reports an error only for a cause outside itself.
THEOREM ErrorsHaveCauses == Spec => []ErrorHasItsCause
<1>1. CauseInv => ErrorHasItsCause
  BY DEF CauseInv, ServeInv, Errors, ErrCauses, ErrorHasItsCause
<1> QED BY CauseInit, CauseNext, <1>1, PTL DEF Spec
=============================================================================
