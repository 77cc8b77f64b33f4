----------------------------- MODULE NamedPipe -----------------------------
(***************************************************************************)
(* namedpipe.Run and the npipe-connect command around it: the dial under a *)
(* deadline, the choice between --check and a transfer, the Duplex between *)
(* the standard streams and the pipe, and the exit code. Direction l2r     *)
(* runs from stdin to the pipe, r2l from the pipe to stdout. The pipe      *)
(* server and whoever holds the standard streams are the environment.      *)
(***************************************************************************)
EXTENDS Cli, Sequences

CONSTANT MaxChunks   \* the most chunks either side sends (bound)

ASSUME NamedPipeAssumption == MaxChunks \in Nat

VARIABLES
    ctxDone, source, sink, copier, readShut, writeShut,
    results, received, closes, pc,   \* as in Duplex
    run,         \* progress of Run outside the call of Duplex, and of the process
    check,       \* --check was given
    deadline,    \* dialCtx has reached its deadline
    dialErr,     \* what the dial failed with
    pipe,        \* our end of the named pipe
    stdin,       \* our side of stdin
    stdinClose,  \* what closing stdin does to a Read in progress
    err          \* the class of the error Run returns

streams == <<ctxDone, source, sink, copier, readShut, writeShut, results, received, closes, pc>>
dial    == <<check, deadline, dialErr>>
vars    == <<streams, run, dial, pipe, stdin, stdinClose, err>>

\* closeAll closes the pipe first: its Read and its Write end, and the pipe
\* library has an error of its own for that. Stdout is never closed.
D == INSTANCE Duplex WITH CloseStopsRead <- {"r2l"}, CloseStopsWrite <- {"l2r"},
                          OddReads <- {"r2l"}, OddWrites <- {"l2r"}

\* Closing an os.File while another goroutine reads it: files with deadlines
\* interrupt the Read, others leave it alone or make Close wait for it.
StdinCloses == {"interrupts", "ignores", "waits"}

Init ==
    /\ D!Init
    /\ run = "start"
    /\ check \in BOOLEAN
    /\ deadline = FALSE
    /\ dialErr = "none"
    /\ pipe = "none"
    /\ stdin = "open"
    /\ stdinClose \in StdinCloses
    /\ err = "none"

-----------------------------------------------------------------------------
(* Up to the transfer.                                                      *)

\* Names by the classes NormalizePath tells apart.
Names == {"blank", "prefix alone", "full path", "with separator", "short"}

NormalizePath(name) == IF name \in {"full path", "short"} THEN "path" ELSE "error"

Returns(e) == run' = "returned" /\ err' = e

\* The wrong system, flags that do not parse, a timeout that is not positive, or a
\* name NormalizePath does not take. (-h ends before Run and is left out.)
Refuse ==
    /\ run = "start"
    /\ \E goos \in Systems, name \in Names, flagsOK \in BOOLEAN, positive \in BOOLEAN :
           \/ dispatch(goos, "npipe-connect") # Nil
           \/ ~flagsOK \/ ~positive \/ NormalizePath(name) = "error"
    /\ Returns("usage")
    /\ UNCHANGED <<streams, dial, pipe, stdin, stdinClose>>

StartDial ==
    /\ run = "start"
    /\ \E name \in Names : NormalizePath(name) = "path"
    /\ run' = "dialing"
    /\ UNCHANGED <<streams, dial, pipe, stdin, stdinClose, err>>

\* The timer of dialCtx. Nothing stops it before the deferred cancel, so it may
\* pass long after the dial has succeeded.
DeadlinePasses ==
    /\ ~deadline /\ run \notin {"start", "returned", "exited"}
    /\ deadline' = TRUE
    /\ UNCHANGED <<streams, run, check, dialErr, pipe, stdin, stdinClose, err>>

\* The variant looks at the deadline again when it has the pipe in its hands.
DialAnswersInTime ==
    /\ run = "dialing"
    /\ pipe' = "open"
    /\ IF deadline THEN Returns("timeout") ELSE run' = "connected" /\ UNCHANGED err
    /\ UNCHANGED <<streams, dial, stdin, stdinClose>>

DialAnswers ==
    /\ run = "dialing"
    /\ pipe' = "open"
    /\ run' = "connected"
    /\ UNCHANGED <<streams, dial, stdin, stdinClose, err>>

DialFails ==
    /\ run = "dialing"
    /\ dialErr' \in {"refused"} \cup (IF deadline THEN {"deadline exceeded"} ELSE {})
    /\ run' = "failed"
    /\ UNCHANGED <<streams, check, deadline, pipe, stdin, stdinClose, err>>

\* A dial that failed for another reason counts as a timeout when the deadline
\* has passed by now.
Classify ==
    /\ run = "failed"
    /\ Returns(IF dialErr = "deadline exceeded" \/ deadline THEN "timeout" ELSE "connect")
    /\ UNCHANGED <<streams, dial, pipe, stdin, stdinClose>>

\* --check returns the error of pipe.Close as it is.
Check ==
    /\ run = "connected" /\ check
    /\ pipe' = "closed"
    /\ \E e \in {"nil", "close"} : Returns(e)
    /\ UNCHANGED <<streams, dial, stdin, stdinClose>>

StartTransfer ==
    /\ run = "connected" /\ ~check
    /\ run' = "transfer"
    /\ UNCHANGED <<streams, dial, pipe, stdin, stdinClose, err>>

-----------------------------------------------------------------------------
(* The transfer.                                                            *)

Transferring == run = "transfer" \/ (run = "returned" /\ closes > 0)

Peers ==
    /\ Transferring
    /\ D!Peers
    /\ UNCHANGED <<run, dial, pipe, stdin, stdinClose, err>>

\* The copy goroutines go on until the process ends.
Copying(d) ==
    /\ Transferring
    /\ D!Copy(d)
    /\ UNCHANGED <<run, dial, pipe, stdin, stdinClose, err>>

\* Duplex goes on to its second select when closeAll is through with stdin.
Coordinating ==
    /\ run = "transfer"
    /\ pc = "first" \/ stdin = "closed"
    /\ D!Coordinator
    /\ pipe' = IF closes' > 0 THEN "closed" ELSE pipe
    /\ UNCHANGED <<run, dial, stdin, stdinClose, err>>

\* The variant closes stdin as soon as a direction has reported, on its own.
CloseStdinOnReport ==
    /\ run = "transfer"
    /\ results # <<>> /\ stdin = "open"
    /\ stdin' = "closed"
    /\ readShut' = readShut \cup {"l2r"}
    /\ UNCHANGED <<ctxDone, source, sink, copier, writeShut, results, received, closes, pc,
                   run, dial, pipe, stdinClose, err>>

\* The second close inside closeAll. Only a Read in progress may be left alone or
\* waited for; the goroutine meets the closed file at its next Read.
CloseStdin ==
    /\ run = "transfer"
    /\ closes > 0 /\ stdin = "open"
    /\ stdin' = "closed"
    /\ \/ /\ stdinClose = "interrupts" \/ copier["l2r"].pc # "read"
          /\ D!CallerCloses("l2r")
       \/ /\ stdinClose = "ignores" /\ copier["l2r"].pc = "read"
          /\ UNCHANGED streams
    /\ UNCHANGED <<run, dial, pipe, stdinClose, err>>

EndTransfer ==
    /\ run = "transfer" /\ pc = "returned"
    /\ Returns(IF D!ResultErr = "nil" THEN "nil" ELSE "transfer")
    /\ UNCHANGED <<streams, dial, pipe, stdin, stdinClose>>

\* Any error but the three named ones is taken for wrong usage.
ExitCode == exitCode(
    CASE err = "nil"      -> Nil
      [] err = "timeout"  -> Error(ExitTimeout)
      [] err = "connect"  -> Error(ExitNamedPipe)
      [] err = "transfer" -> Error(ExitTransfer)
      [] OTHER            -> Error(ExitUsage))

\* main passes the code to os.Exit; the kernel closes every handle.
Exit ==
    /\ run = "returned"
    /\ run' = "exited"
    /\ UNCHANGED <<streams, dial, pipe, stdin, stdinClose, err>>

-----------------------------------------------------------------------------
Run ==
    \/ Refuse \/ StartDial \/ DialAnswers \/ DialFails \/ Classify \/ Check
    \/ StartTransfer \/ Coordinating \/ CloseStdin \/ EndTransfer \/ Exit

Next ==
    \/ Run \/ DeadlinePasses \/ Peers
    \/ \E d \in D!Dirs : Copying(d)

\* Goroutines run and timers fire. A dial answers or fails, at the latest once
\* its deadline has passed; DialFails then is possible. Nothing is assumed of
\* the peers, and a Write to a stdout nobody reads may block for ever.
Fairness ==
    /\ WF_vars(Run)
    /\ WF_vars(Coordinating)
    /\ \A d \in D!Dirs : WF_vars(Transferring /\ D!CopyProgress(d)
                                 /\ UNCHANGED <<run, dial, pipe, stdin, stdinClose, err>>)

Spec == Init /\ [][Next]_vars
FairSpec == Spec /\ Fairness

-----------------------------------------------------------------------------
(* Properties.                                                              *)

\* Types, and how the pipe, the error and the progress of Run go together.
TypeOK ==
    /\ D!TypeOK
    /\ run \in {"start", "dialing", "failed", "connected", "transfer", "returned", "exited"}
    /\ check \in BOOLEAN /\ deadline \in BOOLEAN
    /\ dialErr \in {"none", "refused", "deadline exceeded"}
    /\ pipe \in {"none", "open", "closed"}
    /\ stdin \in {"open", "closed"}
    /\ stdinClose \in StdinCloses
    /\ err \in {"none", "usage", "timeout", "connect", "close", "nil", "transfer"}
    /\ (err # "none") <=> (run \in {"returned", "exited"})

\* The exit code tells how far the command came. 5 and 8 mean that there never was
\* a pipe, and 8 that the deadline had passed; a pipe that answered, however close
\* to the deadline, is used and closed again, and the deadline has no part in
\* what follows.
ExitCodeHasCause ==
    err # "none" =>
        /\ ExitCode \in {ExitNamedPipe, ExitTimeout} => pipe = "none"
        /\ ExitCode = ExitTimeout => deadline
        /\ pipe # "open"
        /\ pc = "returned" => D!ResultErr # "canceled" /\ ExitCode \in {ExitOK, ExitTransfer}

\* Exit code 0 of a transfer: both directions ended without an error but those of
\* an orderly end, and the one that ended first has delivered all it was sent;
\* neither the timer nor an odd error of the closed pipe was met.
SuccessIsClean ==
    (err = "nil" /\ ~check) =>
        /\ \A d \in D!Dirs : copier[d].pc = "done" /\ D!IsNormalError(copier[d].err)
        /\ received[1].err = "nil" =>
               copier[received[1].dir].n = source[received[1].dir].sent

\* Run drives Duplex within the rules of Duplex's own specification, although
\* the two closes of closeAll are apart.
ImplementsDuplex == D!Spec

\* Once a copy goroutine that waits for data meets the end of its stream, the pipe
\* is closed, and the process ends unless closing stdin waits for a Read that
\* nobody answers.
EndNoticed ==
    (\E d \in D!Dirs : /\ run = "transfer" /\ copier[d].pc = "read"
                       /\ copier[d].n = source[d].sent /\ source[d].end # "open")
        ~> (/\ pipe = "closed"
            /\ \/ run = "exited"
               \/ stdinClose = "waits" /\ stdin = "open" /\ copier["l2r"].pc = "read")
=============================================================================
