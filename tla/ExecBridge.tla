----------------------------- MODULE ExecBridge -----------------------------
(***************************************************************************)
(* execbridge.Serve: one accepted connection, one child process, and the   *)
(* Duplex between them. Direction l2r runs from the client's connection to *)
(* the child's stdin, r2l from the child's stdout to the connection. The   *)
(* client, the child and a process the child leaves behind (the heir) are  *)
(* the environment.                                                        *)
(***************************************************************************)
EXTENDS Naturals, Sequences

CONSTANT MaxChunks   \* the most chunks either side sends (bound)

ASSUME ExecBridgeAssumption == MaxChunks \in Nat

VARIABLES
    ctxDone, source, sink, copier, readShut, writeShut,
    results, received, closes, pc,   \* as in Duplex
    serve,   \* progress of Serve outside the call of Duplex
    child,   \* the child process
    exit,    \* how the child ended
    heir,    \* a process the child left behind holds its stdio
    scan,    \* the goroutine reading the child's stderr
    taken,   \* chunks the client has read from the connection
    err      \* the class of Result.Err

core == <<copier, readShut, writeShut, results, received, closes, pc>>
own  == <<serve, child, exit, heir, scan, taken, err>>
vars == <<ctxDone, source, sink, core, own>>

\* closeAll closes the connection (l2r source, r2l sink) and the child's stdin
\* (l2r sink). The child's stdout is closed by command.Wait alone.
D == INSTANCE Duplex WITH CloseStopsRead <- {"l2r"}, CloseStopsWrite <- {"l2r", "r2l"},
                     OddReads <- {}, OddWrites <- {}

Init ==
    /\ D!Init
    /\ serve = "start"
    /\ child = "none"
    /\ exit = "none"
    /\ heir = FALSE
    /\ scan = "none"
    /\ taken = 0
    /\ err = "none"

connClosed == "l2r" \in readShut

\* childCtx is done when the caller's context is, or closeAll has called cancel.
childCancelled == ctxDone \/ closes > 0

PipesHeld == child = "running" \/ heir

-----------------------------------------------------------------------------
(* The client.                                                              *)

ClientSends ==
    /\ sink["r2l"] = "open"
    /\ D!PeerSends("l2r")
    /\ UNCHANGED own

ClientTakes ==
    /\ sink["r2l"] = "open"
    /\ taken < copier["r2l"].n
    /\ taken' = taken + 1
    /\ UNCHANGED <<ctxDone, source, sink, core, serve, child, exit, heir, scan, err>>

ClientHalfCloses ==
    /\ sink["r2l"] = "open"
    /\ source["l2r"].end = "open"
    /\ D!PeerEnds("l2r", "eof")
    /\ UNCHANGED own

\* Linux resets a Unix stream that is closed with unread bytes in its queue:
\* the other side reads ECONNRESET instead of the end of the stream.
ClientCloses ==
    /\ sink["r2l"] = "open"
    /\ sink' = [sink EXCEPT !["r2l"] = "broken"]
    /\ source' = IF taken < copier["r2l"].n THEN [source EXCEPT !["l2r"].end = "failure"]
                 ELSE [source EXCEPT !["l2r"].end = "eof"]
    /\ UNCHANGED <<ctxDone, core, own>>

-----------------------------------------------------------------------------
(* The child and its heir.                                                  *)

ChildWrites ==
    /\ PipesHeld
    /\ D!PeerSends("r2l")
    /\ UNCHANGED own

ChildClosesStdout ==
    /\ child = "running" /\ ~heir
    /\ source["r2l"].end = "open"
    /\ D!PeerEnds("r2l", "eof")
    /\ UNCHANGED own

ChildClosesStdin ==
    /\ child = "running" /\ ~heir
    /\ D!PeerBreaks("l2r", "broken")
    /\ UNCHANGED own

ChildForks ==
    /\ child = "running" /\ ~heir
    /\ heir' = TRUE
    /\ UNCHANGED <<ctxDone, source, sink, core, serve, child, exit, scan, taken, err>>

\* The kernel closes the child's ends of the pipes with their last holder.
PipesEnd ==
    /\ source' = [source EXCEPT !["r2l"].end = "eof"]
    /\ sink' = [sink EXCEPT !["l2r"] = "broken"]

ChildDies(how) ==
    /\ child = "running"
    /\ child' = "exited"
    /\ exit' = how
    /\ IF heir THEN UNCHANGED <<source, sink>> ELSE PipesEnd

ChildExits ==
    /\ \E how \in {"zero", "nonzero", "signal"} : ChildDies(how)
    /\ UNCHANGED <<ctxDone, core, serve, heir, scan, taken, err>>

HeirEnds ==
    /\ heir
    /\ heir' = FALSE
    /\ IF child = "running" THEN UNCHANGED <<source, sink>> ELSE PipesEnd
    /\ UNCHANGED <<ctxDone, core, serve, child, exit, scan, taken, err>>

\* CommandContext: SIGKILL to the child, not to its heir, once childCtx is done.
KillDelivered ==
    /\ childCancelled
    /\ ChildDies("signal")
    /\ UNCHANGED <<ctxDone, core, serve, heir, scan, taken, err>>

-----------------------------------------------------------------------------
(* Serve.                                                                   *)

Cancel == D!Cancel /\ UNCHANGED own

\* A pipe or the child cannot be made, or command.Start finds childCtx done.
StartFails ==
    /\ serve \in {"start", "forking"}
    /\ serve' = "returned"
    /\ err' = "start"
    /\ UNCHANGED <<ctxDone, source, sink, core, child, exit, heir, scan, taken>>

\* command.Start looks at the context first and forks afterwards.
StartChecks ==
    /\ serve = "start"
    /\ ~ctxDone
    /\ serve' = "forking"
    /\ UNCHANGED <<ctxDone, source, sink, core, child, exit, heir, scan, taken, err>>

Start ==
    /\ serve = "forking"
    /\ serve' = "duplex"
    /\ child' = "running"
    /\ scan' = "reading"
    /\ UNCHANGED <<ctxDone, source, sink, core, exit, heir, taken, err>>

\* The copy goroutines outlive Duplex when it stops waiting for them.
Copying(d) ==
    /\ scan # "none"
    /\ D!Copy(d)
    /\ UNCHANGED own

\* The variant hands childCtx to Duplex: closeAll's own cancel() looks like the caller's.
CoordinatingOnChildCtx ==
    /\ serve = "duplex"
    /\ \/ D!Coordinator
       \/ closes > 0 /\ D!Returns(D!Interrupted("canceled")) /\ UNCHANGED results
    /\ UNCHANGED own

Coordinating ==
    /\ serve = "duplex"
    /\ D!Coordinator
    /\ UNCHANGED own

\* The stderr scanner stops at 64 KiB, at a line too long for it, at the end of
\* the pipe, or when command.Wait closes it.
ScanEnds ==
    /\ scan = "reading"
    /\ scan' = "done"
    /\ UNCHANGED <<ctxDone, source, sink, core, serve, child, exit, heir, taken, err>>

Waiting == pc = "returned" /\ serve \in {"duplex", "killed"}

\* ShutdownTimeout has passed.
WaitKills ==
    /\ Waiting /\ serve = "duplex"
    /\ serve' = "killed"
    /\ IF child = "running" THEN ChildDies("signal")
       ELSE UNCHANGED <<source, sink, child, exit>>
    /\ UNCHANGED <<ctxDone, core, heir, scan, taken, err>>

\* The variant starts command.Wait next to Duplex instead of after it.
WaitReapsBesideDuplex ==
    /\ child = "exited"
    /\ serve \in {"duplex", "killed"}
    /\ child' = "reaped"
    /\ serve' = IF Waiting THEN "reaped" ELSE serve
    /\ readShut' = readShut \cup {"r2l"}
    /\ UNCHANGED <<ctxDone, source, sink, copier, writeShut, results, received, closes, pc,
                   exit, heir, scan, taken, err>>

\* command.Wait reaps the child and closes its stdout and stderr on our side.
WaitReaps ==
    /\ Waiting
    /\ child = "exited"
    /\ child' = "reaped"
    /\ serve' = "reaped"
    /\ D!CallerCloses("r2l")
    /\ UNCHANGED <<exit, heir, scan, taken, err>>

\* A killed child is expected (ExitCode is -1), and so is any exit after the
\* caller's cancellation.
expectedExit == exit # "nonzero" \/ ctxDone

ReturnErr ==
    IF D!ResultErr # "nil" THEN D!ResultErr
    ELSE IF expectedExit THEN "nil"
    ELSE "exit"

\* The variant gives up on the child after the kill: no second receive from waitDone.
ReturnAfterKill ==
    /\ scan = "done"
    /\ serve \in {"killed", "reaped"}
    /\ serve' = "returned"
    /\ err' = ReturnErr
    /\ UNCHANGED <<ctxDone, source, sink, core, child, exit, heir, scan, taken>>

Return ==
    /\ serve = "reaped"
    /\ scan = "done"
    /\ serve' = "returned"
    /\ err' = ReturnErr
    /\ UNCHANGED <<ctxDone, source, sink, core, child, exit, heir, scan, taken>>

-----------------------------------------------------------------------------
Client == ClientSends \/ ClientTakes \/ ClientHalfCloses \/ ClientCloses

Child ==
    \/ ChildWrites \/ ChildClosesStdout \/ ChildClosesStdin
    \/ ChildForks \/ ChildExits \/ HeirEnds

Serve ==
    \/ StartFails \/ StartChecks \/ Start \/ Coordinating
    \/ WaitKills \/ WaitReaps \/ Return

Next ==
    \/ Client \/ Child \/ Cancel \/ Serve \/ ScanEnds \/ KillDelivered
    \/ \E d \in D!Dirs : Copying(d)

\* Goroutines run, timers fire, SIGKILL kills, a closed or ended pipe wakes its
\* reader. Nothing is assumed of the client and the child: a Write to a stream
\* nobody drains, and a stderr somebody holds, may block for ever.
Fairness ==
    /\ WF_vars(StartFails \/ StartChecks \/ Start \/ WaitKills \/ WaitReaps \/ Return)
    /\ WF_vars(Coordinating)
    /\ WF_vars(KillDelivered)
    /\ WF_vars(ScanEnds /\ (~PipesHeld \/ child = "reaped"))
    /\ \A d \in D!Dirs : WF_vars(scan # "none" /\ D!CopyProgress(d) /\ UNCHANGED own)

Spec == Init /\ [][Next]_vars
FairSpec == Spec /\ Fairness

-----------------------------------------------------------------------------
(* Properties.                                                              *)

\* Types, and which states of the child, the scanner and Serve go together.
TypeOK ==
    /\ D!TypeOK
    /\ serve \in {"start", "forking", "duplex", "killed", "reaped", "returned"}
    /\ child \in {"none", "running", "exited", "reaped"}
    /\ exit \in {"none", "zero", "nonzero", "signal"}
    /\ (exit = "none") <=> (child \in {"none", "running"})
    /\ heir \in BOOLEAN
    /\ scan \in {"none", "reading", "done"}
    /\ (scan = "none") <=> (child = "none")
    /\ taken \in 0..copier["r2l"].n
    /\ err \in {"none", "nil", "start", "failure", "canceled", "timeout", "exit"}
    /\ (err # "none") <=> (serve = "returned")

\* When Serve returns after starting a child, the child is dead and reaped, the
\* connection and every pipe is closed on our side and the stderr goroutine has
\* ended, however the streams, the client, the child, its heir and the caller's
\* cancellation interleaved.
NothingLeftBehind ==
    (serve = "returned" /\ child # "none") =>
        /\ child = "reaped"
        /\ readShut = D!Dirs /\ writeShut = D!Dirs
        /\ scan = "done"

\* If the first thing to end was the child's output, the client still being
\* there and nobody cancelling, then all the child wrote is in the connection:
\* neither command.Wait nor closeAll cuts a response short.
ResponseComplete ==
    (/\ received # <<>>
     /\ received[1].dir = "r2l" /\ received[1].err # "canceled"
     /\ sink["r2l"] = "open") => copier["r2l"].n = source["r2l"].sent

\* Serve reports an error only for a cause outside itself: the cancel() inside
\* closeAll is never taken for the caller's, the broken pipes and the SIGKILL
\* that closeAll causes are never reported, and a child that exited with a code of
\* its own other than 0 is not passed over in silence (one that died by a signal is:
\* ExitCode() is -1 then, and Serve cannot tell it from the signal of its own).
ErrorHasItsCause ==
    /\ err = "canceled" => ctxDone
    /\ err = "failure" => source["l2r"].end = "failure"
    /\ err = "exit" => exit = "nonzero"
    /\ err = "nil" => exit # "nonzero" \/ ctxDone

\* Serve drives Duplex within the rules of Duplex's own specification.
ImplementsDuplex == D!Spec

\* Serve keeps the contract the listener relies on.
Contract == INSTANCE Connection WITH
    serve <- CASE serve \in {"start", "forking"} -> "start"
               [] serve = "returned" -> "returned"
               [] OTHER -> "running",
    child <- CASE child = "running" -> "alive"
               [] child = "exited" -> "ended"
               [] OTHER -> child,
    conn <- IF connClosed THEN "closed" ELSE "open"

ImplementsConnection == Contract!Spec

\* A cancelled Serve comes to an end, even with a client and a child that
\* neither read nor write any more and an heir that keeps the pipes.
CancelEnds == Contract!CancelEnds

\* Once a copy goroutine that waits for data meets the end of its stream, Serve
\* returns and no copy goroutine stays behind.
EndNoticed ==
    (\E d \in D!Dirs : /\ scan # "none" /\ copier[d].pc = "read"
                       /\ copier[d].n = source[d].sent /\ source[d].end # "open")
        ~> (serve = "returned" /\ \A d \in D!Dirs : copier[d].pc = "done")

\* "Context cancellation closes both streams" (requirements, stream and
\* shutdown contract).
CancelClosesConnection == (ctxDone /\ serve = "returned") => connClosed
=============================================================================
