------------------------------- MODULE Doctor -------------------------------
(***************************************************************************)
(* The doctor command: its checks, one after the other, and the processes  *)
(* they start. The SSH agent check talks to its child over pipes: one      *)
(* request, a length, a body. A child may stop answering, close any of     *)
(* them, die, or leave a process behind (the heir) that holds some of      *)
(* them; exec.CommandContext kills the child at the deadline, and nobody   *)
(* kills the heir.                                                         *)
(***************************************************************************)
EXTENDS Cli, Integers, Sequences

CONSTANTS
    KeepCap,   \* how much of the child's stderr limitedWriter keeps
    NoiseCap   \* the most a child writes to stderr (bound)

ASSUME DoctorAssumption == KeepCap \in Nat /\ NoiseCap \in Nat

VARIABLES
    args,      \* the system, and what the command line asks for
    checks,    \* the checks that have been made
    at,        \* progress within the current one
    proc,      \* the process the current check has started
    exit,      \* how it ended
    open,      \* the pipes it has open
    heir,      \* the pipes that a process it left behind has open
    deadline,  \* checkCtx has reached its deadline
    sent,      \* what the child has written on stdout: length, body
    draining,  \* the goroutine that drains the output pipe goes on
    noise,     \* how much has come from its stderr
    kept,      \* how much of that limitedWriter has passed on
    answer,    \* the type of the answer
    code       \* the exit code

pipes == <<open, heir, draining, sent, noise, kept>>
child == <<proc, exit, deadline, pipes>>
vars  == <<args, checks, at, child, answer, code>>

Init ==
    /\ args \in [goos : Systems, sshAgent : BOOLEAN, child : BOOLEAN]
    /\ checks = <<>>
    /\ at = "flags"
    /\ proc = "none" /\ exit = "none" /\ deadline = FALSE
    /\ open = {} /\ heir = {} /\ draining = FALSE
    /\ sent = "nothing" /\ noise = 0 /\ kept = 0
    /\ answer = "none"
    /\ code = -1

Checkers == {"wsl-environment", "wsl-interop", "child-executable", "child-check",
             "child-command", "ssh-agent"}

\* The checkers, in the order they run.
Planned ==
    <<"wsl-environment", "wsl-interop">>
    \o (IF args.child THEN <<"child-executable", "child-check">> ELSE <<"child-command">>)
    \o (IF args.sshAgent THEN <<"ssh-agent">> ELSE <<>>)

Current == IF Len(checks) < Len(Planned) THEN Planned[Len(checks) + 1] ELSE "report"

\* The checks that wait for their child's pipes and give it a deadline.
Piped == Current \in {"child-check", "ssh-agent"}

\* The pipes between doctor and the process of a check. A goroutine of os/exec drains
\* the output: stderr alone in the agent's check, and in the child's check the one
\* pipe that CombinedOutput makes of stdout and stderr. cmd.exe has none.
Pipes ==
    CASE Current = "child-check" -> {"output"}
      [] Current = "ssh-agent"   -> {"stdin", "stdout", "output"}
      [] OTHER                   -> {}

Held == open \cup heir

-----------------------------------------------------------------------------
(* The process of a check.                                                  *)

ProcDies(how) ==
    /\ proc = "running"
    /\ proc' = "exited"
    /\ exit' = how
    /\ open' = {}

ProcExits ==
    /\ \E how \in {"zero", "nonzero"} : ProcDies(how)
    /\ UNCHANGED <<args, checks, at, heir, deadline, draining, sent, noise, kept, answer, code>>

\* The variant arms the kill for a child that has answered only.
KilledAfterAnswer ==
    /\ deadline /\ answer # "none"
    /\ ProcDies("signal")
    /\ UNCHANGED <<args, checks, at, heir, deadline, draining, sent, noise, kept, answer, code>>

\* exec.CommandContext kills the process, not its heir, when checkCtx is done.
KilledAtDeadline ==
    /\ deadline
    /\ ProcDies("signal")
    /\ UNCHANGED <<args, checks, at, heir, deadline, draining, sent, noise, kept, answer, code>>

DeadlinePasses ==
    /\ Piped /\ at # "begin"
    /\ ~deadline
    /\ deadline' = TRUE
    /\ UNCHANGED <<args, checks, at, proc, exit, pipes, answer, code>>

\* The process it leaves behind has some of its pipes, the others redirected.
ProcForks ==
    /\ proc = "running" /\ heir = {}
    /\ heir' \in SUBSET open \ {{}}
    /\ UNCHANGED <<args, checks, at, proc, exit, deadline, open, draining, sent, noise, kept,
                   answer, code>>

ProcCloses ==
    /\ \E pipe \in open : open' = open \ {pipe}
    /\ UNCHANGED <<args, checks, at, proc, exit, deadline, heir, draining, sent, noise, kept,
                   answer, code>>

\* The heir closes some of its pipes, or ends.
HeirCloses ==
    /\ heir' \in SUBSET heir \ {heir}
    /\ UNCHANGED <<args, checks, at, proc, exit, deadline, open, draining, sent, noise, kept,
                   answer, code>>

ProcWrites ==
    /\ Current = "ssh-agent" /\ "stdout" \in Held
    /\ sent' = CASE sent = "nothing" -> "length" [] OTHER -> "whole"
    /\ sent # "whole"
    /\ UNCHANGED <<args, checks, at, proc, exit, deadline, open, heir, draining, noise, kept,
                   answer, code>>

\* io.MultiWriter and io.Copy go on as long as each Write reports all it was given.
Reports(count, size) == draining' = (count = size)

\* The variant reports what it has passed on.
limitedWriteShort(size) ==
    /\ kept' = IF kept + size > KeepCap THEN KeepCap ELSE kept + size
    /\ Reports(kept' - kept, size)

\* limitedWriter.Write: it passes on what there is room for and reports all of it.
limitedWrite(size) ==
    /\ kept' = IF kept + size > KeepCap THEN KeepCap ELSE kept + size
    /\ Reports(size, size)

StderrDrained ==
    /\ Current = "ssh-agent" /\ "output" \in Held /\ draining
    /\ \E size \in 1..(NoiseCap - noise) : noise' = noise + size /\ limitedWrite(size)
    /\ UNCHANGED <<args, checks, at, proc, exit, deadline, open, heir, sent, answer, code>>

-----------------------------------------------------------------------------
(* runDoctor and its checks.                                                *)

Done(err) ==
    /\ at' = "exited"
    /\ code' = exitCode(err)

Flags ==
    /\ at = "flags"
    /\ \/ \E err \in {Nil, Error(ExitUsage)} : Done(err)   \* -h, or wrong usage
       \/ at' = "begin" /\ UNCHANGED code
    /\ UNCHANGED <<args, checks, child, answer>>

Record(ok) ==
    /\ checks' = Append(checks, [name |-> Current, ok |-> ok])
    /\ at' = "begin"
    /\ UNCHANGED <<args, code>>

StartProc ==
    /\ proc' = "running" /\ exit' = "none" /\ deadline' = FALSE
    /\ open' = Pipes /\ heir' = {} /\ draining' = TRUE
    /\ sent' = "nothing" /\ noise' = 0 /\ kept' = 0 /\ answer' = "none"
    /\ UNCHANGED <<args, checks, code>>

Reap ==
    /\ proc = "exited"
    /\ proc' = "reaped"
    /\ UNCHANGED <<exit, deadline, pipes, answer>>

\* Wait waits for the goroutine that drains the output, thus for whoever has it open;
\* of the process and its heir it sees nothing else.
OutputEnded == "output" \notin Held \/ ~draining

\* The checks that start nothing, and those that cannot start their process.
CheckWithoutProc ==
    /\ at = "begin"
    /\ \E ok \in BOOLEAN :
           /\ CASE Current = "wsl-environment" -> ok => args.goos = "linux"
                [] Current = "wsl-interop" -> ~ok /\ args.goos # "linux"
                [] Current = "child-executable" -> TRUE
                [] OTHER -> ~ok /\ Current # "report"
           /\ Record(ok)
    /\ UNCHANGED <<child, answer>>

\* cmd.exe by name, then by its full path; without a deadline, and without pipes.
InteropMissing ==
    /\ Current = "wsl-interop" /\ args.goos = "linux"
    /\ \/ at = "begin" /\ at' = "second" /\ UNCHANGED <<args, checks, code>>
       \/ at = "second" /\ Record(FALSE)
    /\ UNCHANGED <<child, answer>>

InteropStarts ==
    /\ Current = "wsl-interop" /\ args.goos = "linux"
    /\ \/ at = "begin" /\ at' = "first runs"
       \/ at = "second" /\ at' = "second runs"
    /\ StartProc

InteropEnds ==
    /\ at \in {"first runs", "second runs"}
    /\ Reap
    /\ \/ exit = "zero" /\ Record(TRUE)
       \/ exit # "zero" /\ at = "first runs" /\ at' = "second" /\ UNCHANGED <<args, checks, code>>
       \/ exit # "zero" /\ at = "second runs" /\ Record(FALSE)

\* CombinedOutput: Start and Wait, which also waits for the end of the pipe. A kill
\* that meets a child just ended with code zero still counts as a failure.
ChildCheckStarts ==
    /\ Current = "child-check" /\ at = "begin"
    /\ at' = "output"
    /\ StartProc

ChildCheckEnds ==
    /\ at = "output" /\ OutputEnded
    /\ Reap
    /\ \/ Record(exit = "zero")
       \/ deadline /\ Record(FALSE)

AgentStarts ==
    /\ Current = "ssh-agent" /\ at = "begin" /\ args.child
    /\ at' = "request"
    /\ StartProc

AgentMoves(from, to) ==
    /\ at = from
    /\ at' = to
    /\ UNCHANGED <<args, checks, child, code>>

\* Five bytes into an empty pipe: no wait, and an error when nobody has it open.
Request ==
    /\ \/ "stdin" \in Held /\ AgentMoves("request", "length")
       \/ "stdin" \notin Held /\ AgentMoves("request", "kill")
    /\ UNCHANGED answer

\* A length of zero, one above the limit, or the end of stdout gives up.
ReadLength ==
    /\ \/ sent # "nothing" /\ \E next \in {"body", "kill"} : AgentMoves("length", next)
       \/ sent = "nothing" /\ "stdout" \notin Held /\ AgentMoves("length", "kill")
    /\ UNCHANGED answer

ReadBody ==
    \/ /\ sent = "whole"
       /\ AgentMoves("body", "close")
       /\ answer' \in {"identities", "other"}
    \/ /\ sent # "whole" /\ "stdout" \notin Held
       /\ AgentMoves("body", "kill")
       /\ UNCHANGED answer

\* The variant reports the failed exchange and leaves the child to the deadline.
GiveUpWithoutWait ==
    /\ at = "kill"
    /\ Record(FALSE)
    /\ UNCHANGED <<child, answer>>

\* Process.Kill: a process that has ended is left alone.
GiveUp ==
    /\ at = "kill"
    /\ at' = "failed"
    /\ ProcDies("signal") \/ (proc # "running" /\ UNCHANGED <<proc, exit, open>>)
    /\ UNCHANGED <<args, checks, heir, deadline, draining, sent, noise, kept, answer, code>>

CloseStdin ==
    /\ AgentMoves("close", "wait")
    /\ UNCHANGED answer

\* The variant takes any answer for the right one.
AgentEndsUnread ==
    /\ at \in {"wait", "failed"} /\ OutputEnded
    /\ Reap
    /\ Record(at = "wait")

AgentEnds ==
    /\ at \in {"wait", "failed"} /\ OutputEnded
    /\ Reap
    /\ Record(at = "wait" /\ answer = "identities")

AllOK == \A i \in DOMAIN checks : checks[i].ok

\* The encoder of --json may fail; the printed form ignores errors.
Report ==
    /\ Current = "report" /\ at = "begin"
    /\ \/ Done(Plain)
       \/ Done(IF AllOK THEN Nil ELSE Error(ExitDiagnostic))
    /\ UNCHANGED <<args, checks, child, answer>>

-----------------------------------------------------------------------------
Doctor ==
    \/ Flags \/ CheckWithoutProc
    \/ InteropMissing \/ InteropStarts \/ InteropEnds
    \/ ChildCheckStarts \/ ChildCheckEnds
    \/ AgentStarts \/ Request \/ ReadLength \/ ReadBody \/ GiveUp \/ CloseStdin \/ AgentEnds
    \/ Report

Proc == ProcExits \/ ProcForks \/ ProcCloses \/ HeirCloses \/ ProcWrites \/ StderrDrained

Next == Doctor \/ Proc \/ DeadlinePasses \/ KilledAtDeadline

\* doctor runs, its timers fire and SIGKILL kills; nothing is assumed of the
\* processes it starts and of what they leave behind.
Spec == Init /\ [][Next]_vars
FairSpec == Spec /\ WF_vars(Doctor) /\ WF_vars(DeadlinePasses) /\ WF_vars(KilledAtDeadline)

-----------------------------------------------------------------------------
(* Properties.                                                              *)

\* Types, and which progress goes with which check.
TypeOK ==
    /\ args \in [goos : Systems, sshAgent : BOOLEAN, child : BOOLEAN]
    /\ checks \in Seq([name : Checkers, ok : BOOLEAN]) /\ Len(checks) <= Len(Planned)
    /\ at \in {"flags", "begin", "second", "first runs", "second runs", "output", "request",
               "length", "body", "kill", "close", "failed", "wait", "exited"}
    /\ at \in {"second", "first runs", "second runs"} => Current = "wsl-interop"
    /\ at = "output" => Current = "child-check"
    /\ at \in {"request", "length", "body", "kill", "close", "failed", "wait"} =>
           Current = "ssh-agent" /\ args.child
    /\ proc \in {"none", "running", "exited", "reaped"}
    /\ exit \in {"none", "zero", "nonzero", "signal"}
    /\ deadline \in BOOLEAN /\ draining \in BOOLEAN
    /\ open \subseteq Pipes /\ heir \subseteq {"stdin", "stdout", "output"}
    /\ sent \in {"nothing", "length", "whole"}
    /\ noise \in 0..NoiseCap /\ kept \in Nat
    /\ answer \in {"none", "identities", "other"}
    /\ code \in {-1, ExitOK, ExitInternal, ExitUsage, ExitDiagnostic}

\* No check begins, and doctor does not exit, while the process of an earlier check
\* runs or waits to be reaped, or anyone has that check's output pipe open, on
\* whichever of its error paths the check ended. An heir that has redirected its
\* stderr does survive the agent's check, with stdin or stdout open.
NothingLeftBehind ==
    at \in {"begin", "second", "exited"} => proc \in {"none", "reaped"} /\ "output" \notin Held

\* A verdict is a verdict on everything asked for: each check has been made, in
\* order, whatever became of the ones before it, and exit code 0 means that the
\* child was found, that its own check succeeded and, when asked for, that the
\* agent answered the request in full, even if the child was killed afterwards.
VerdictSound ==
    (at = "exited" /\ checks # <<>>) =>
        /\ [i \in DOMAIN checks |-> checks[i].name] = Planned
        /\ code = ExitDiagnostic <=> (code # ExitInternal /\ ~AllOK)
        /\ code = ExitOK => /\ args.goos = "linux" /\ args.child
                            /\ args.sshAgent => sent = "whole" /\ answer = "identities"
                            /\ ~args.sshAgent => exit = "zero"

\* However much comes on stderr, its beginning is kept, up to the limit, and it is
\* drained as long as anyone can write to it: the limit never stops the copying, which
\* would leave the child without a reader.
StderrBounded ==
    /\ kept = IF noise > KeepCap THEN KeepCap ELSE noise
    /\ "output" \in Held => draining

\* doctor ends, unless an heir keeps a pipe that doctor reads for ever (Wait has no
\* deadline of its own, and neither has the Read of stdout) or cmd.exe, which runs
\* without a deadline, never ends.
Ends ==
    \/ <>(at = "exited")
    \/ <>[](heir \cap {"stdout", "output"} # {})
    \/ <>[](Current = "wsl-interop" /\ proc = "running")
=============================================================================
