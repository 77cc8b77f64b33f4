---------------------------- MODULE DoctorProofs ----------------------------
(***************************************************************************)
(* doctor for every limit on the child's stderr: what a check leaves       *)
(* behind, what is kept of stderr, and what the exit code says.            *)
(***************************************************************************)
EXTENDS Doctor, SequenceTheorems, TLAPS

ArgsOK == args \in [goos : Systems, sshAgent : BOOLEAN, child : BOOLEAN]

-----------------------------------------------------------------------------
(* The plan.                                                                *)

\* Short tuples as sequences.
LEMMA ShortSequences ==
  ASSUME NEW S, NEW a \in S, NEW b \in S
  PROVE  /\ <<a, b>> \in Seq(S) /\ Len(<<a, b>>) = 2
         /\ <<a, b>>[1] = a /\ <<a, b>>[2] = b
         /\ <<a>> \in Seq(S) /\ Len(<<a>>) = 1 /\ <<a>>[1] = a
         /\ <<>> \in Seq(S) /\ Len(<<>>) = 0
  OBVIOUS

\* The plan by its places: two checks of the system, then the child's, and the
\* agent's at the end.
LEMMA Plan ==
  ASSUME ArgsOK
  PROVE  /\ Planned \in Seq(Checkers)
         /\ Len(Planned) = 3 + (IF args.child THEN 1 ELSE 0) + (IF args.sshAgent THEN 1 ELSE 0)
         /\ Planned[1] = "wsl-environment" /\ Planned[2] = "wsl-interop"
         /\ args.child => Planned[3] = "child-executable" /\ Planned[4] = "child-check"
         /\ ~args.child => Planned[3] = "child-command"
         /\ args.sshAgent => Planned[Len(Planned)] = "ssh-agent"
<1> DEFINE first  == <<"wsl-environment", "wsl-interop">>
           second == IF args.child THEN <<"child-executable", "child-check">>
                     ELSE <<"child-command">>
           third  == IF args.sshAgent THEN <<"ssh-agent">> ELSE <<>>
<1>1. /\ "wsl-environment" \in Checkers /\ "wsl-interop" \in Checkers
      /\ "child-executable" \in Checkers /\ "child-check" \in Checkers
      /\ "child-command" \in Checkers /\ "ssh-agent" \in Checkers
  BY DEF Checkers
<1>2. /\ first \in Seq(Checkers) /\ Len(first) = 2
      /\ first[1] = "wsl-environment" /\ first[2] = "wsl-interop"
  BY <1>1, ShortSequences, Zenon
<1>3. /\ second \in Seq(Checkers) /\ Len(second) = IF args.child THEN 2 ELSE 1
      /\ args.child => second[1] = "child-executable" /\ second[2] = "child-check"
      /\ ~args.child => second[1] = "child-command"
  BY <1>1, ShortSequences, Zenon
<1>4. /\ third \in Seq(Checkers) /\ Len(third) = IF args.sshAgent THEN 1 ELSE 0
      /\ args.sshAgent => third[1] = "ssh-agent"
  BY <1>1, ShortSequences, Zenon
<1>5. Planned = (first \o second) \o third
  <2>1. ASSUME NEW a \in Seq(Checkers), NEW b \in Seq(Checkers), NEW c \in Seq(Checkers)
        PROVE  (a \o b) \o c = a \o (b \o c)
    BY ConcatAssociative
  <2> QED BY <1>2, <1>3, <1>4, <2>1 DEF Planned
<1> HIDE DEF first, second, third
<1> DEFINE both == first \o second
<1>6. ASSUME NEW x \in Seq(Checkers), NEW y \in Seq(Checkers)
      PROVE  /\ x \o y \in Seq(Checkers) /\ Len(x \o y) = Len(x) + Len(y)
             /\ \A i \in 1..(Len(x) + Len(y)) :
                    (x \o y)[i] = IF i <= Len(x) THEN x[i] ELSE y[i - Len(x)]
  BY ConcatProperties
<1>7. /\ both \in Seq(Checkers) /\ Len(both) = Len(first) + Len(second)
      /\ \A i \in 1..(Len(first) + Len(second)) :
             both[i] = IF i <= Len(first) THEN first[i] ELSE second[i - Len(first)]
  BY <1>2, <1>3, <1>6, Zenon
<1> HIDE DEF both
<1>8. /\ both \o third \in Seq(Checkers) /\ Len(both \o third) = Len(both) + Len(third)
      /\ \A i \in 1..(Len(both) + Len(third)) :
             (both \o third)[i] = IF i <= Len(both) THEN both[i] ELSE third[i - Len(both)]
  BY <1>4, <1>7, <1>6, Zenon
<1>9. Planned = both \o third
  BY <1>5 DEF both
<1>10. /\ both[1] = first[1] /\ both[2] = first[2] /\ both[3] = second[1]
       /\ args.child => both[4] = second[2]
  BY <1>2, <1>3, <1>7
<1>11. /\ Len(both) = IF args.child THEN 4 ELSE 3
       /\ Len(third) = IF args.sshAgent THEN 1 ELSE 0
  BY <1>2, <1>3, <1>4, <1>7
<1>12. /\ Planned[1] = both[1] /\ Planned[2] = both[2] /\ Planned[3] = both[3]
       /\ args.child => Planned[4] = both[4]
       /\ args.sshAgent => Planned[Len(both) + 1] = third[1]
  BY <1>8, <1>9, <1>11
<1>13. Planned \in Seq(Checkers) /\ Len(Planned) = Len(both) + Len(third)
  BY <1>8, <1>9, Zenon
<1>14. args.child \in BOOLEAN /\ args.sshAgent \in BOOLEAN
  BY DEF ArgsOK
<1>15. Len(Planned) = 3 + (IF args.child THEN 1 ELSE 0) + (IF args.sshAgent THEN 1 ELSE 0)
  BY <1>11, <1>13, <1>14
<1>16. args.sshAgent => Planned[Len(Planned)] = "ssh-agent"
  BY <1>4, <1>8, <1>11, <1>12, <1>13
<1>17. /\ Planned[1] = "wsl-environment" /\ Planned[2] = "wsl-interop"
       /\ args.child => Planned[3] = "child-executable" /\ Planned[4] = "child-check"
       /\ ~args.child => Planned[3] = "child-command"
  BY <1>2, <1>3, <1>10, <1>12, Zenon
<1> QED BY <1>13, <1>15, <1>16, <1>17

ChecksOK ==
    /\ checks \in Seq([name : Checkers, ok : BOOLEAN])
    /\ Len(checks) <= Len(Planned)

\* The current check is the next one of the plan.
LEMMA CurrentIsNext ==
  ASSUME ArgsOK, ChecksOK
  PROVE  /\ Len(checks) \in Nat /\ Len(Planned) \in Nat
         /\ Current = "report" <=> Len(checks) = Len(Planned)
         /\ Current # "report" => /\ Current = Planned[Len(checks) + 1]
                                  /\ Current \in Checkers
         /\ checks = <<>> => Current = "wsl-environment"
<1>1. Len(checks) \in Nat
  BY DEF ChecksOK
<1>2. Planned \in Seq(Checkers) /\ Len(Planned) \in Nat /\ Len(Planned) >= 3
  BY Plan DEF ArgsOK
<1>3. \A i \in 1..Len(Planned) : Planned[i] \in Checkers
  BY <1>2
<1>4. "report" \notin Checkers
  BY DEF Checkers
<1>5. CASE Len(checks) < Len(Planned)
  <2>1. Len(checks) + 1 \in 1..Len(Planned) /\ Current = Planned[Len(checks) + 1]
    BY <1>1, <1>2, <1>5 DEF Current
  <2>2. Current \in Checkers
    BY <1>3, <2>1
  <2>3. checks = <<>> => Current = "wsl-environment"
    <3>1. checks = <<>> => Len(checks) + 1 = 1
      OBVIOUS
    <3> QED BY <2>1, <3>1, Plan
  <2> QED BY <1>1, <1>2, <1>4, <1>5, <2>1, <2>2, <2>3
<1>6. CASE Len(checks) = Len(Planned)
  <2>1. Current = "report"
    BY <1>1, <1>2, <1>6 DEF Current
  <2>2. checks # <<>>
    BY <1>2, <1>6
  <2> QED BY <1>1, <1>2, <1>6, <2>1, <2>2
<1> QED BY <1>1, <1>2, <1>5, <1>6 DEF ChecksOK

\* A step that records nothing stays with its check.
LEMMA SameCheck ==
  UNCHANGED <<args, checks>> => Planned' = Planned /\ Current' = Current /\ Pipes' = Pipes
  BY DEF Planned, Current, Pipes

\* A step that records goes on to the next one.
LEMMA NextCheck ==
  ASSUME ArgsOK, ChecksOK, Current # "report", NEW ok \in BOOLEAN, Record(ok)
  PROVE  /\ Planned' = Planned /\ ChecksOK'
         /\ Len(checks') = Len(checks) + 1
         /\ \A i \in 1..Len(checks) : checks'[i] = checks[i]
         /\ checks'[Len(checks')] = [name |-> Current, ok |-> ok]
         /\ checks' # <<>>
<1>1. Len(checks) < Len(Planned) /\ Current \in Checkers /\ Len(checks) \in Nat
      /\ Len(Planned) \in Nat
  BY CurrentIsNext DEF ChecksOK
<1>2. checks' = Append(checks, [name |-> Current, ok |-> ok]) /\ args' = args
  BY DEF Record
<1>3. Planned' = Planned
  BY <1>2 DEF Planned
<1>4. [name |-> Current, ok |-> ok] \in [name : Checkers, ok : BOOLEAN]
  BY <1>1
<1>5. ASSUME NEW S, NEW q \in Seq(S), NEW e \in S
      PROVE  /\ Append(q, e) \in Seq(S) /\ Len(Append(q, e)) = Len(q) + 1
             /\ \A i \in 1..Len(q) : Append(q, e)[i] = q[i]
             /\ Append(q, e)[Len(q) + 1] = e
  BY AppendProperties
<1> DEFINE Entries == [name : Checkers, ok : BOOLEAN]
           entry   == [name |-> Current, ok |-> ok]
<1>6. entry \in Entries /\ checks \in Seq(Entries) /\ checks' = Append(checks, entry)
  BY <1>2, <1>4 DEF ChecksOK
<1> HIDE DEF Entries, entry
<1>7. /\ checks' \in Seq(Entries) /\ Len(checks') = Len(checks) + 1
      /\ \A i \in 1..Len(checks) : checks'[i] = checks[i]
      /\ checks'[Len(checks) + 1] = entry
  BY <1>5, <1>6
<1>8. /\ checks' \in Seq([name : Checkers, ok : BOOLEAN]) /\ Len(checks') = Len(checks) + 1
      /\ \A i \in 1..Len(checks) : checks'[i] = checks[i]
      /\ checks'[Len(checks) + 1] = [name |-> Current, ok |-> ok]
  BY <1>7 DEF Entries, entry
<1>9. checks' # <<>> /\ Len(checks') <= Len(Planned)
  BY <1>1, <1>8
<1> QED BY <1>3, <1>8, <1>9 DEF ChecksOK

-----------------------------------------------------------------------------
(* Progress: which check each step belongs to, and which of them have a     *)
(* process.                                                                 *)

Interop == {"second", "first runs", "second runs"}
Agent   == {"request", "length", "body", "kill", "close", "failed", "wait"}
Busy    == {"first runs", "second runs", "output"} \cup Agent

Typed ==
    /\ ArgsOK /\ ChecksOK
    /\ at \in {"flags", "begin", "output", "exited"} \cup Interop \cup Agent
    /\ proc \in {"none", "running", "exited", "reaped"}
    /\ exit \in {"none", "zero", "nonzero", "signal"}
    /\ deadline \in BOOLEAN /\ draining \in BOOLEAN
    /\ sent \in {"nothing", "length", "whole"}
    /\ answer \in {"none", "identities", "other"}
    /\ code \in {-1, ExitOK, ExitInternal, ExitUsage, ExitDiagnostic}

Where ==
    /\ at = "flags" => checks = <<>>
    /\ at \in Interop => Current = "wsl-interop"
    /\ at = "output" => Current = "child-check"
    /\ at \in Agent => Current = "ssh-agent" /\ args.child
    /\ at = "exited" => checks = <<>> \/ Current = "report"

\* The pipes belong to the check, and only a running process has any of its own; the
\* output pipe is read as long as it has a writer.
PipesOK ==
    /\ open \subseteq Pipes /\ heir \subseteq {"stdin", "stdout", "output"}
    /\ proc # "running" => open = {}
    /\ "output" \in Held => draining

Clean ==
    /\ at \notin Busy => proc \in {"none", "reaped"}
    /\ "output" \in heir => at \in {"output"} \cup Agent
    /\ PipesOK

StepInv == Typed /\ Where /\ Clean

\* The command line has not been read.
LEMMA StepInit == Init => StepInv
<1> SUFFICES ASSUME Init PROVE StepInv
  OBVIOUS
<1>1. ArgsOK /\ ChecksOK
  <2>1. ArgsOK
    BY DEF Init, ArgsOK
  <2>2. Len(Planned) \in Nat
    BY <2>1, Plan DEF ArgsOK
  <2> QED BY <2>1, <2>2 DEF Init, ChecksOK
<1> QED BY <1>1 DEF Init, StepInv, Typed, Where, Clean, PipesOK, Held, Interop, Agent, Busy

\* What the process of a check does.
LEMMA ProcKeeps ==
  ASSUME StepInv, Proc \/ DeadlinePasses \/ KilledAtDeadline
  PROVE  StepInv'
<1> USE DEF Interop, Agent, Busy
<1>1. UNCHANGED <<args, checks, at, answer, code>>
  BY DEF Proc, ProcExits, ProcForks, ProcCloses, HeirCloses, ProcWrites, StderrDrained,
         DeadlinePasses, KilledAtDeadline
<1>2. ArgsOK' /\ ChecksOK' /\ Where' /\ Pipes' = Pipes
  BY <1>1, SameCheck DEF StepInv, Typed, Where, ArgsOK, ChecksOK
<1>3. /\ proc' \in {"none", "running", "exited", "reaped"}
      /\ exit' \in {"none", "zero", "nonzero", "signal"}
      /\ deadline' \in BOOLEAN
      /\ sent' \in {"nothing", "length", "whole"}
  BY DEF StepInv, Typed, Proc, ProcExits, ProcForks, ProcCloses, HeirCloses, ProcWrites,
         StderrDrained, DeadlinePasses, KilledAtDeadline, ProcDies, pipes
<1>4. draining' = draining \/ draining' = TRUE
  BY DEF Proc, ProcExits, ProcForks, ProcCloses, HeirCloses, ProcWrites, StderrDrained,
         DeadlinePasses, KilledAtDeadline, limitedWrite, Reports, pipes
<1>5. Typed'
  <2>1. draining' \in BOOLEAN
    BY <1>4 DEF StepInv, Typed
  <2> QED BY <1>1, <1>2, <1>3, <2>1, Zenon DEF StepInv, Typed
<1>6. proc' = proc \/ (proc = "running" /\ at \in Busy)
  <2>1. proc' = proc \/ proc = "running"
    BY DEF Proc, ProcExits, ProcForks, ProcCloses, HeirCloses, ProcWrites, StderrDrained,
           DeadlinePasses, KilledAtDeadline, ProcDies
  <2>2. proc = "running" => at \in Busy
    BY DEF StepInv, Clean
  <2> QED BY <2>1, <2>2
<1>7. /\ open' \subseteq open /\ heir' \subseteq heir \cup open
      /\ proc' # "running" => proc # "running" \/ open' = {}
  BY DEF Proc, ProcExits, ProcForks, ProcCloses, HeirCloses, ProcWrites, StderrDrained,
         DeadlinePasses, KilledAtDeadline, ProcDies, pipes
<1>8. open # {} => at \in {"output"} \cup Agent
  <2>1. ASSUME open # {} PROVE at \in Busy /\ at \notin Interop
    BY <2>1 DEF StepInv, Where, Clean, PipesOK, Pipes
  <2> QED BY <2>1
<1>9. PipesOK'
  <2>1. Pipes \subseteq {"stdin", "stdout", "output"}
    BY DEF Pipes
  <2> QED BY <1>2, <1>4, <1>7, <2>1 DEF StepInv, Clean, PipesOK, Held
<1>10. Clean'
  BY <1>1, <1>6, <1>7, <1>8, <1>9 DEF StepInv, Clean
<1> QED BY <1>2, <1>5, <1>10 DEF StepInv

\* What doctor does within a check, without ending it.
LEMMA WithinCheck ==
  ASSUME StepInv,
         \/ InteropStarts \/ ChildCheckStarts \/ AgentStarts
         \/ Request \/ ReadLength \/ ReadBody \/ GiveUp \/ CloseStdin
  PROVE  StepInv'
<1> USE DEF Interop, Agent, Busy
<1>1. UNCHANGED <<args, checks, code>>
  BY DEF InteropStarts, ChildCheckStarts, AgentStarts, StartProc, Request, ReadLength, ReadBody,
         GiveUp, CloseStdin, AgentMoves
<1>2. ArgsOK' /\ ChecksOK' /\ Current' = Current /\ Pipes' = Pipes
  BY <1>1, SameCheck DEF StepInv, Typed, ArgsOK, ChecksOK
<1>3. CASE InteropStarts \/ ChildCheckStarts \/ AgentStarts
  BY <1>1, <1>2, <1>3 DEF StepInv, Typed, Where, Clean, PipesOK, Held, InteropStarts,
     ChildCheckStarts, AgentStarts, StartProc
<1>4. CASE Request \/ ReadLength \/ ReadBody \/ CloseStdin
  <2>1. at \in Agent /\ at' \in Agent /\ UNCHANGED child
        /\ answer' \in {answer, "identities", "other"}
    BY <1>4 DEF Request, ReadLength, ReadBody, CloseStdin, AgentMoves
  <2>2. UNCHANGED <<proc, exit, deadline, open, heir, draining, sent>>
    BY <2>1 DEF child, pipes
  <2>3. /\ at' \in {"flags", "begin", "output", "exited"} \cup Interop \cup Agent
        /\ answer' \in {"none", "identities", "other"}
    BY <2>1 DEF StepInv, Typed
  <2>4. Typed'
    <3> HIDE DEF Interop, Agent, Busy
    <3> QED BY <1>1, <1>2, <2>2, <2>3 DEF StepInv, Typed
  <2>5. Where'
    BY <1>1, <1>2, <2>1 DEF StepInv, Where
  <2>6. Clean'
    BY <1>2, <2>1, <2>2 DEF StepInv, Clean, PipesOK, Held
  <2> QED BY <2>4, <2>5, <2>6 DEF StepInv
<1>5. CASE GiveUp
  BY <1>1, <1>2, <1>5 DEF StepInv, Typed, Where, Clean, PipesOK, Held, GiveUp, ProcDies
<1> QED BY <1>3, <1>4, <1>5

\* A process that has ended, and whose output has: nobody has the output pipe.
LEMMA OutputIsClosed == StepInv /\ Reap /\ OutputEnded => "output" \notin Held /\ open = {}
  BY DEF StepInv, Clean, PipesOK, Reap, OutputEnded

\* A check that ends leaves no process, unless it never had one.
LEMMA CheckEnds ==
  ASSUME StepInv, NEW ok \in BOOLEAN, Record(ok), Current # "report",
         \/ Reap /\ OutputEnded
         \/ at \notin Busy /\ UNCHANGED <<child, answer>>
  PROVE  StepInv'
<1> USE DEF Interop, Agent, Busy
<1>1. ArgsOK' /\ ChecksOK' /\ at' = "begin" /\ code' = code
  BY NextCheck DEF StepInv, Typed, Record, ArgsOK
<1>2. CASE Reap /\ OutputEnded
  <2>1. "output" \notin Held /\ open = {}
    BY <1>2, OutputIsClosed
  <2>2. /\ proc' = "reaped" /\ UNCHANGED <<exit, deadline, open, heir, draining, sent, answer>>
    BY <1>2 DEF Reap, pipes
  <2>3. Typed' /\ Where'
    BY <1>1, <2>2 DEF StepInv, Typed, Where
  <2>4. Clean'
    BY <1>1, <2>1, <2>2 DEF StepInv, Clean, PipesOK, Held
  <2> QED BY <2>3, <2>4 DEF StepInv
<1>3. CASE at \notin Busy /\ UNCHANGED <<child, answer>>
  <2>1. UNCHANGED <<proc, exit, deadline, open, heir, draining, sent, answer>>
    BY <1>3 DEF child, pipes
  <2>2. Typed' /\ Where'
    BY <1>1, <2>1 DEF StepInv, Typed, Where
  <2>3. proc \in {"none", "reaped"} /\ open = {} /\ "output" \notin heir
    BY <1>3 DEF StepInv, Clean, PipesOK
  <2>4. Clean'
    BY <1>1, <2>1, <2>3 DEF StepInv, Clean, PipesOK, Held
  <2> QED BY <2>2, <2>4 DEF StepInv
<1> QED BY <1>2, <1>3

\* Every step of the command line, a check, the report and the processes.
LEMMA StepNext == StepInv /\ [Next]_vars => StepInv'
<1> SUFFICES ASSUME StepInv, [Next]_vars PROVE StepInv'
  OBVIOUS
<1> USE DEF Interop, Agent, Busy
<1>1. ArgsOK /\ ChecksOK
  BY DEF StepInv, Typed
<1>2. ASSUME UNCHANGED <<args, checks, child, answer>>,
             at \notin Busy,
             \/ at' = "begin" /\ code' = code
             \/ at' = "second" /\ Current = "wsl-interop" /\ code' = code
             \/ /\ at' = "exited"
                /\ checks = <<>> \/ Current = "report"
                /\ code' \in {ExitOK, ExitInternal, ExitUsage, ExitDiagnostic}
      PROVE  StepInv'
  <2>1. ArgsOK' /\ ChecksOK' /\ Current' = Current /\ Pipes' = Pipes
    BY <1>1, <1>2, SameCheck DEF ArgsOK, ChecksOK
  <2>2. UNCHANGED <<proc, exit, deadline, open, heir, draining, sent>>
    BY <1>2 DEF child, pipes
  <2>3. /\ code' \in {-1, ExitOK, ExitInternal, ExitUsage, ExitDiagnostic}
        /\ at' \in {"begin", "second", "exited"}
    BY <1>2 DEF StepInv, Typed
  <2>4. at' \in {"flags", "begin", "output", "exited"} \cup Interop \cup Agent
    BY <2>3
  <2>5. Typed'
    BY <1>2, <2>1, <2>2, <2>3, <2>4, Zenon DEF StepInv, Typed
  <2>6. proc' \in {"none", "reaped"} /\ "output" \notin heir'
    BY <1>2, <2>2 DEF StepInv, Clean
  <2>7. /\ at' = "second" => Current' = "wsl-interop"
        /\ at' = "exited" => checks' = <<>> \/ Current' = "report"
    BY <1>2, <2>1
  <2>8. Where'
    BY <2>3, <2>7 DEF Where
  <2>9. PipesOK'
    BY <2>1, <2>2 DEF StepInv, Clean, PipesOK, Held
  <2> QED BY <2>5, <2>6, <2>8, <2>9 DEF StepInv, Clean
<1>3. CASE Flags
  <2>1. ASSUME NEW e \in {Nil, Error(ExitUsage)} PROVE exitCode(e) \in {ExitOK, ExitUsage}
    BY <2>1 DEF exitCode, Nil, Error
  <2>2. at = "flags" /\ checks = <<>>
    BY <1>3 DEF Flags, StepInv, Where
  <2> QED BY <1>2, <1>3, <2>1, <2>2 DEF Flags, Done
<1>4. CASE CheckWithoutProc
  <2>1. PICK ok \in BOOLEAN : Record(ok) /\ Current # "report"
    BY <1>4, Zenon DEF CheckWithoutProc
  <2> QED BY <1>4, <2>1, CheckEnds DEF CheckWithoutProc
<1>5. CASE InteropMissing
  <2>1. CASE at = "begin"
    BY <1>2, <1>5, <2>1 DEF InteropMissing
  <2>2. CASE at # "begin"
    BY <1>5, <2>2, CheckEnds DEF InteropMissing
  <2> QED BY <2>1, <2>2
<1>6. CASE InteropEnds
  <2>1. /\ at \in {"first runs", "second runs"} /\ Current = "wsl-interop"
        /\ Reap /\ open = {} /\ "output" \notin heir
    BY <1>6 DEF InteropEnds, Reap, StepInv, Where, Clean, PipesOK
  <2>2. OutputEnded
    BY <2>1 DEF OutputEnded, Held
  <2>3. CASE at' = "second" /\ UNCHANGED <<args, checks, code>>
    <3>1. ArgsOK' /\ ChecksOK' /\ Current' = Current /\ Pipes' = Pipes
      BY <1>1, <2>3, SameCheck DEF ArgsOK, ChecksOK
    <3>2. proc' = "reaped" /\ UNCHANGED <<exit, deadline, open, heir, draining, sent, answer>>
      BY <2>1 DEF Reap, pipes
    <3>3. Typed' /\ Where'
      BY <2>1, <2>3, <3>1, <3>2 DEF StepInv, Typed, Where
    <3>4. Clean'
      BY <2>1, <2>3, <3>1, <3>2 DEF StepInv, Clean, PipesOK, Held
    <3> QED BY <3>3, <3>4 DEF StepInv
  <2>4. CASE Record(TRUE) \/ Record(FALSE)
    BY <2>1, <2>2, <2>4, CheckEnds
  <2> QED BY <1>6, <2>3, <2>4 DEF InteropEnds
<1>7. CASE ChildCheckEnds \/ AgentEnds
  <2>1. Reap /\ OutputEnded /\ Current # "report" /\ \E ok \in BOOLEAN : Record(ok)
    BY <1>7 DEF ChildCheckEnds, AgentEnds, StepInv, Where
  <2> QED BY <2>1, CheckEnds
<1>8. CASE Report
  <2>1. exitCode(Plain) = ExitInternal
        /\ exitCode(IF AllOK THEN Nil ELSE Error(ExitDiagnostic)) \in {ExitOK, ExitDiagnostic}
    BY DEF exitCode, Plain, Nil, Error
  <2> QED BY <1>2, <1>8, <2>1 DEF Report, Done
<1>9. CASE UNCHANGED vars
  <2>1. ArgsOK' /\ ChecksOK' /\ Current' = Current /\ Pipes' = Pipes
    BY <1>1, <1>9, SameCheck DEF ArgsOK, ChecksOK, vars
  <2>2. UNCHANGED <<at, proc, exit, deadline, open, heir, draining, sent, answer, code>>
    BY <1>9 DEF vars, child, pipes
  <2>3. Typed' /\ Where'
    <3> HIDE DEF Interop, Agent, Busy
    <3> QED BY <2>1, <2>2, <1>9 DEF vars, StepInv, Typed, Where
  <2>4. Clean'
    BY <2>1, <2>2 DEF StepInv, Clean, PipesOK, Held
  <2> QED BY <2>3, <2>4 DEF StepInv
<1> QED BY <1>3, <1>4, <1>5, <1>6, <1>7, <1>8, <1>9, ProcKeeps, WithinCheck DEF Next, Doctor

\* No check begins, and doctor does not exit, while the process of an earlier check
\* runs or waits to be reaped, or anyone has its output pipe open: each way out of a
\* check reaps its process, and waits first for the end of what it drains.
THEOREM NothingStays == Spec => []NothingLeftBehind
<1>1. StepInv => NothingLeftBehind
  BY DEF StepInv, Clean, PipesOK, Held, NothingLeftBehind, Interop, Agent, Busy
<1> QED BY StepInit, StepNext, <1>1, PTL DEF Spec

-----------------------------------------------------------------------------
(* The child's stderr.                                                      *)

NoiseInv == noise \in 0..NoiseCap /\ kept = IF noise > KeepCap THEN KeepCap ELSE noise

\* The count of what was drained and of what was kept of it begin anew together.
LEMMA NoiseNext == NoiseInv /\ [Next]_vars => NoiseInv'
<1> SUFFICES ASSUME NoiseInv, [Next]_vars PROVE NoiseInv'
  OBVIOUS
<1>1. CASE UNCHANGED <<noise, kept>>
  BY <1>1 DEF NoiseInv
<1>2. CASE StderrDrained
  BY <1>2, DoctorAssumption DEF StderrDrained, limitedWrite, NoiseInv
<1>3. CASE StartProc
  BY <1>3, DoctorAssumption DEF StartProc, NoiseInv
<1>4. StderrDrained \/ StartProc \/ UNCHANGED <<noise, kept>>
  BY DEF Next, vars, child, pipes, Doctor, Proc, Flags, CheckWithoutProc, InteropMissing,
     InteropStarts, InteropEnds, ChildCheckStarts, ChildCheckEnds, AgentStarts, Request,
     ReadLength, ReadBody, GiveUp, CloseStdin, AgentEnds, Report, AgentMoves, Reap, ProcExits,
     ProcForks, ProcCloses, HeirCloses, ProcWrites, DeadlinePasses, KilledAtDeadline
<1> QED BY <1>1, <1>2, <1>3, <1>4

\* Of the child's stderr the beginning is kept, up to the limit, and the copying goes
\* on beyond it as long as anyone can write.
THEOREM StderrIsBounded == Spec => []StderrBounded
<1>1. Init => NoiseInv
  BY DoctorAssumption DEF Init, NoiseInv
<1>2. StepInv /\ NoiseInv => StderrBounded
  BY DEF StepInv, Clean, PipesOK, NoiseInv, StderrBounded
<1> QED BY <1>1, <1>2, StepInit, StepNext, NoiseNext, PTL DEF Spec

\* Types, and which progress goes with which check.
THEOREM TypeCorrect == Spec => []TypeOK
<1>1. StepInv /\ NoiseInv => TypeOK
  <2> SUFFICES ASSUME StepInv, NoiseInv PROVE TypeOK
    OBVIOUS
  <2>1. noise \in 0..NoiseCap /\ kept \in Nat
    BY DoctorAssumption DEF NoiseInv
  <2>2. at \in {"flags", "begin", "second", "first runs", "second runs", "output", "request",
                "length", "body", "kill", "close", "failed", "wait", "exited"}
    BY DEF StepInv, Typed, Interop, Agent
  <2>3. /\ at \in {"second", "first runs", "second runs"} => Current = "wsl-interop"
        /\ at = "output" => Current = "child-check"
        /\ at \in {"request", "length", "body", "kill", "close", "failed", "wait"} =>
               Current = "ssh-agent" /\ args.child
    BY DEF StepInv, Where, Interop, Agent
  <2>4. open \subseteq Pipes /\ heir \subseteq {"stdin", "stdout", "output"}
    BY DEF StepInv, Clean, PipesOK
  <2> QED BY <2>1, <2>2, <2>3, <2>4, Zenon DEF StepInv, Typed, ArgsOK, ChecksOK, TypeOK
<1>2. Init => NoiseInv
  BY DoctorAssumption DEF Init, NoiseInv
<1> QED BY <1>1, <1>2, StepInit, StepNext, NoiseNext, PTL DEF Spec

-----------------------------------------------------------------------------
(* The verdict.                                                             *)

\* What a success of a check rests on. The last check of the plan is the one whose
\* process nothing has replaced since.
Justified(name) ==
    /\ name = "wsl-environment" => args.goos = "linux"
    /\ name # "child-command"
    /\ name = "child-check" => args.sshAgent \/ exit = "zero"
    /\ name = "ssh-agent" => sent = "whole" /\ answer = "identities"

ChecksTrue ==
    /\ \A i \in 1..Len(checks) : checks[i].name = Planned[i]
    /\ \A i \in 1..Len(checks) : checks[i].ok => Justified(checks[i].name)

CodeTrue ==
    at = "exited" => \/ checks = <<>>
                     \/ code = ExitInternal
                     \/ code = IF AllOK THEN ExitOK ELSE ExitDiagnostic

VerdictInv == ChecksTrue /\ (answer # "none" => sent = "whole") /\ CodeTrue

\* The agent's check is the last of the plan, and without it the child's is.
LEMMA LastChecks ==
  ASSUME ArgsOK, NEW i \in 1..Len(Planned)
  PROVE  /\ Planned[i] = "ssh-agent" => i = Len(Planned)
         /\ (Planned[i] = "child-check" /\ ~args.sshAgent) => i = Len(Planned)
<1>1. /\ Len(Planned) = 3 + (IF args.child THEN 1 ELSE 0) + (IF args.sshAgent THEN 1 ELSE 0)
      /\ Planned[1] = "wsl-environment" /\ Planned[2] = "wsl-interop"
      /\ args.child => Planned[3] = "child-executable" /\ Planned[4] = "child-check"
      /\ ~args.child => Planned[3] = "child-command"
      /\ args.sshAgent => Planned[Len(Planned)] = "ssh-agent"
  BY Plan
<1>2. CASE args.child /\ args.sshAgent
  <2>1. Len(Planned) = 5
    BY <1>1, <1>2
  <2>2. i = 1 \/ i = 2 \/ i = 3 \/ i = 4 \/ i = 5
    BY <2>1
  <2> QED BY <1>1, <1>2, <2>1, <2>2
<1>3. CASE args.child /\ ~args.sshAgent
  <2>1. Len(Planned) = 4
    BY <1>1, <1>3
  <2>2. i = 1 \/ i = 2 \/ i = 3 \/ i = 4
    BY <2>1
  <2> QED BY <1>1, <1>3, <2>1, <2>2
<1>4. CASE ~args.child
  <2>1. Len(Planned) = IF args.sshAgent THEN 4 ELSE 3
    BY <1>1, <1>4
  <2>2. i = 1 \/ i = 2 \/ i = 3 \/ i = Len(Planned)
    BY <2>1
  <2> QED BY <1>1, <1>4, <2>1, <2>2
<1> QED BY <1>2, <1>3, <1>4

\* What was recorded stays true: before the report no recorded check is one of
\* those that look at the process.
LEMMA StaysTrue ==
  ASSUME StepInv, ChecksTrue, UNCHANGED <<args, checks>>,
         UNCHANGED <<exit, sent, answer>> \/ Current # "report"
  PROVE  ChecksTrue'
<1>1. ArgsOK /\ ChecksOK /\ Planned' = Planned
  BY SameCheck DEF StepInv, Typed
<1>2. CASE UNCHANGED <<exit, sent, answer>>
  BY <1>1, <1>2 DEF ChecksTrue, Justified
<1>3. CASE Current # "report"
  <2>1. Len(checks) \in Nat /\ Len(Planned) \in Nat /\ Len(checks) < Len(Planned)
    BY <1>1, <1>3, CurrentIsNext DEF ChecksOK
  <2>2. ASSUME NEW i \in 1..Len(checks), checks[i].ok PROVE Justified(checks[i].name)'
    <3>1. i \in 1..Len(Planned) /\ i # Len(Planned) /\ checks[i].name = Planned[i]
      BY <2>1 DEF ChecksTrue
    <3>2. checks[i].name # "ssh-agent" /\ (checks[i].name = "child-check" => args.sshAgent)
      BY <1>1, <3>1, LastChecks
    <3> QED BY <2>2, <3>2 DEF ChecksTrue, Justified
  <2> QED BY <1>1, <2>2 DEF ChecksTrue
<1> QED BY <1>2, <1>3

\* A check is recorded under its name, and as a success for its reasons.
LEMMA RecordsTrue ==
  ASSUME StepInv, ChecksTrue, NEW ok \in BOOLEAN, Record(ok), Current # "report",
         UNCHANGED <<exit, sent, answer>>, ok => Justified(Current)
  PROVE  ChecksTrue'
<1>1. ArgsOK /\ ChecksOK /\ args' = args
  BY DEF StepInv, Typed, Record
<1>2. /\ Planned' = Planned /\ Len(checks') = Len(checks) + 1
      /\ \A i \in 1..Len(checks) : checks'[i] = checks[i]
      /\ checks'[Len(checks')] = [name |-> Current, ok |-> ok]
  BY <1>1, NextCheck
<1>3. Current = Planned[Len(checks) + 1] /\ Len(checks) \in Nat
  BY <1>1, CurrentIsNext
<1>4. \A name : Justified(name)' <=> Justified(name)
  BY <1>1 DEF Justified
<1>5. ASSUME NEW i \in 1..Len(checks')
      PROVE  checks'[i].name = Planned[i] /\ (checks'[i].ok => Justified(checks'[i].name))
  <2>1. CASE i \in 1..Len(checks)
    BY <1>2, <2>1 DEF ChecksTrue
  <2>2. CASE i = Len(checks')
    BY <1>2, <1>3, <2>2
  <2> QED BY <1>2, <1>3, <2>1, <2>2
<1> QED BY <1>2, <1>4, <1>5 DEF ChecksTrue

\* The process of a check does not touch what was recorded.
LEMMA VerdictProc ==
  ASSUME StepInv, VerdictInv, Proc \/ DeadlinePasses \/ KilledAtDeadline
  PROVE  VerdictInv'
<1>1. UNCHANGED <<args, checks, at, answer, code>>
  BY DEF Proc, ProcExits, ProcForks, ProcCloses, HeirCloses, ProcWrites, StderrDrained,
         DeadlinePasses, KilledAtDeadline, pipes
<1>2. UNCHANGED <<exit, sent>> \/ Current # "report"
  <2>1. CASE ProcExits \/ KilledAtDeadline
    <3>1. proc = "running"
      BY <2>1 DEF ProcExits, KilledAtDeadline, ProcDies
    <3>2. at \in Interop \cup {"output"} \cup Agent
      BY <3>1 DEF StepInv, Clean, Busy, Interop
    <3> QED BY <3>2 DEF StepInv, Where
  <2>2. CASE ProcWrites
    BY <2>2 DEF ProcWrites
  <2>3. CASE ProcForks \/ ProcCloses \/ HeirCloses \/ StderrDrained \/ DeadlinePasses
    BY <2>3 DEF ProcForks, ProcCloses, HeirCloses, StderrDrained, DeadlinePasses, pipes
  <2> QED BY <2>1, <2>2, <2>3 DEF Proc
<1>3. ChecksTrue'
  BY <1>1, <1>2, StaysTrue DEF VerdictInv
<1>4. sent' = sent \/ (sent # "whole" /\ sent' \in {"length", "whole"})
  BY DEF Proc, ProcExits, ProcForks, ProcCloses, HeirCloses, ProcWrites, StderrDrained,
         DeadlinePasses, KilledAtDeadline, pipes
<1>5. CodeTrue'
  BY <1>1 DEF VerdictInv, CodeTrue, AllOK
<1> QED BY <1>1, <1>3, <1>4, <1>5 DEF VerdictInv

\* Neither does doctor within a check.
LEMMA VerdictWithin ==
  ASSUME StepInv, VerdictInv,
         \/ InteropStarts \/ ChildCheckStarts \/ AgentStarts
         \/ Request \/ ReadLength \/ ReadBody \/ GiveUp \/ CloseStdin
  PROVE  VerdictInv'
<1>1. UNCHANGED <<args, checks, code>> /\ at' # "exited"
  BY DEF InteropStarts, ChildCheckStarts, AgentStarts, StartProc, Request, ReadLength, ReadBody,
         GiveUp, CloseStdin, AgentMoves
<1>2. Current # "report"
  <2>1. CASE InteropStarts \/ ChildCheckStarts \/ AgentStarts
    BY <2>1 DEF InteropStarts, ChildCheckStarts, AgentStarts
  <2>2. CASE Request \/ ReadLength \/ ReadBody \/ GiveUp \/ CloseStdin
    <3>1. at \in Agent
      BY <2>2 DEF Request, ReadLength, ReadBody, GiveUp, CloseStdin, AgentMoves, Agent
    <3> QED BY <3>1 DEF StepInv, Where
  <2> QED BY <2>1, <2>2
<1>3. ChecksTrue'
  BY <1>1, <1>2, StaysTrue DEF VerdictInv
<1>4. answer' # "none" => sent' = "whole"
  <2>1. CASE InteropStarts \/ ChildCheckStarts \/ AgentStarts
    BY <2>1 DEF InteropStarts, ChildCheckStarts, AgentStarts, StartProc
  <2>2. CASE Request \/ ReadLength \/ CloseStdin \/ GiveUp
    BY <2>2 DEF Request, ReadLength, CloseStdin, GiveUp, AgentMoves, child, pipes, VerdictInv
  <2>3. CASE ReadBody
    BY <2>3 DEF ReadBody, AgentMoves, child, pipes, VerdictInv
  <2> QED BY <2>1, <2>2, <2>3
<1> QED BY <1>1, <1>3, <1>4 DEF VerdictInv, CodeTrue

\* Every step keeps the verdict true.
LEMMA VerdictNext == StepInv /\ VerdictInv /\ [Next]_vars => VerdictInv'
<1> SUFFICES ASSUME StepInv, VerdictInv, [Next]_vars PROVE VerdictInv'
  OBVIOUS
<1>1. ASSUME UNCHANGED <<args, checks, exit, sent, answer>>, CodeTrue' PROVE VerdictInv'
  BY <1>1, StaysTrue DEF VerdictInv
<1>2. ASSUME NEW ok \in BOOLEAN, Record(ok), Current # "report", ok => Justified(Current),
             UNCHANGED <<exit, sent, answer>>
      PROVE  VerdictInv'
  <2>1. ChecksTrue'
    BY <1>2, RecordsTrue DEF VerdictInv
  <2>2. at' = "begin"
    BY <1>2 DEF Record
  <2> QED BY <1>2, <2>1, <2>2 DEF VerdictInv, CodeTrue
<1>3. CASE Flags
  <2>1. checks' = <<>>
    BY <1>3 DEF Flags, StepInv, Where
  <2> QED BY <1>1, <1>3, <2>1 DEF Flags, child, pipes, CodeTrue
<1>4. CASE CheckWithoutProc
  <2>1. PICK ok \in BOOLEAN :
            /\ Record(ok) /\ Current # "report"
            /\ Current = "wsl-environment" => (ok => args.goos = "linux")
            /\ Current = "wsl-interop" => ~ok
            /\ Current \in {"child-command", "child-check", "ssh-agent"} => ~ok
    BY <1>4 DEF CheckWithoutProc
  <2>2. ok => Justified(Current)
    BY <2>1 DEF Justified
  <2> QED BY <1>2, <1>4, <2>1, <2>2 DEF CheckWithoutProc, child, pipes
<1>5. CASE InteropMissing
  <2>1. CASE at = "begin"
    BY <1>1, <1>5, <2>1 DEF InteropMissing, child, pipes, CodeTrue
  <2>2. CASE at # "begin"
    BY <1>2, <1>5, <2>2 DEF InteropMissing, child, pipes
  <2> QED BY <2>1, <2>2
<1>6. CASE InteropEnds
  <2>1. UNCHANGED <<exit, sent, answer>> /\ Current = "wsl-interop"
    BY <1>6 DEF InteropEnds, Reap, pipes, StepInv, Where, Interop
  <2>2. CASE at' = "second" /\ UNCHANGED <<args, checks, code>>
    BY <1>1, <2>1, <2>2 DEF CodeTrue
  <2>3. CASE Record(TRUE) \/ Record(FALSE)
    BY <1>2, <2>1, <2>3 DEF Justified
  <2> QED BY <1>6, <2>2, <2>3 DEF InteropEnds
<1>7. CASE ChildCheckEnds
  <2>1. /\ UNCHANGED <<exit, sent, answer>> /\ Current = "child-check"
        /\ Record(exit = "zero") \/ Record(FALSE)
    BY <1>7 DEF ChildCheckEnds, Reap, pipes, StepInv, Where
  <2>2. exit = "zero" => Justified(Current)
    BY <2>1 DEF Justified
  <2> QED BY <1>2, <2>1, <2>2
<1>8. CASE AgentEnds
  <2>1. /\ UNCHANGED <<exit, sent, answer>> /\ Current = "ssh-agent"
        /\ Record(at = "wait" /\ answer = "identities")
    BY <1>8 DEF AgentEnds, Reap, pipes, StepInv, Where, Agent
  <2>2. (at = "wait" /\ answer = "identities") => Justified(Current)
    BY <2>1 DEF Justified, VerdictInv
  <2> QED BY <1>2, <2>1, <2>2
<1>9. CASE Report
  <2>1. code' = ExitInternal \/ code' = IF AllOK THEN ExitOK ELSE ExitDiagnostic
    BY <1>9 DEF Report, Done, exitCode, Plain, Nil, Error
  <2>2. AllOK' = AllOK
    BY <1>9 DEF Report, AllOK
  <2> QED BY <1>1, <1>9, <2>1, <2>2 DEF Report, child, pipes, CodeTrue
<1>10. CASE UNCHANGED vars
  BY <1>1, <1>10 DEF vars, child, pipes, CodeTrue, AllOK, VerdictInv
<1> QED BY <1>3, <1>4, <1>5, <1>6, <1>7, <1>8, <1>9, <1>10, VerdictProc, VerdictWithin
        DEF Next, Doctor

\* The exit code is a verdict on every check of the plan.
THEOREM VerdictsAreSound == Spec => []VerdictSound
<1>1. StepInv /\ VerdictInv => VerdictSound
  <2> SUFFICES ASSUME StepInv, VerdictInv, at = "exited", checks # <<>> PROVE
          /\ [i \in DOMAIN checks |-> checks[i].name] = Planned
          /\ code = ExitDiagnostic <=> (code # ExitInternal /\ ~AllOK)
          /\ code = ExitOK => /\ args.goos = "linux" /\ args.child
                              /\ args.sshAgent => sent = "whole" /\ answer = "identities"
                              /\ ~args.sshAgent => exit = "zero"
    BY DEF VerdictSound
  <2>1. ArgsOK /\ ChecksOK
    BY DEF StepInv, Typed
  <2>2. Len(checks) = Len(Planned) /\ DOMAIN checks = 1..Len(Planned)
    <3>1. Current = "report"
      BY DEF StepInv, Where
    <3>2. Len(checks) = Len(Planned)
      BY <2>1, <3>1, CurrentIsNext
    <3> QED BY <2>1, <3>2 DEF ChecksOK
  <2>3. [i \in DOMAIN checks |-> checks[i].name] = Planned
    <3>1. Planned \in Seq(Checkers)
      BY <2>1, Plan
    <3>2. Planned = [i \in 1..Len(Planned) |-> Planned[i]]
      BY <3>1
    <3>3. \A i \in 1..Len(Planned) : checks[i].name = Planned[i]
      BY <2>2 DEF VerdictInv, ChecksTrue
    <3> QED BY <2>2, <3>2, <3>3
  <2>4. code = ExitInternal \/ code = IF AllOK THEN ExitOK ELSE ExitDiagnostic
    BY DEF VerdictInv, CodeTrue
  <2>5. code = ExitDiagnostic <=> (code # ExitInternal /\ ~AllOK)
    BY <2>4 DEF ExitOK, ExitInternal, ExitDiagnostic
  <2>6. ASSUME code = ExitOK
        PROVE  /\ args.goos = "linux" /\ args.child
               /\ args.sshAgent => sent = "whole" /\ answer = "identities"
               /\ ~args.sshAgent => exit = "zero"
    <3>1. AllOK
      BY <2>4, <2>6 DEF ExitOK, ExitInternal, ExitDiagnostic
    <3>2. \A i \in 1..Len(Planned) : Justified(Planned[i])
      BY <2>2, <3>1 DEF AllOK, VerdictInv, ChecksTrue
    <3>3. Len(Planned) \in Nat /\ Len(Planned) >= 3 /\ (args.child => Len(Planned) >= 4)
      BY <2>1, Plan
    <3>4. args.goos = "linux"
      BY <2>1, <3>2, <3>3, Plan DEF Justified
    <3>5. args.child
      BY <2>1, <3>2, <3>3, Plan DEF Justified
    <3>6. args.sshAgent => sent = "whole" /\ answer = "identities"
      BY <2>1, <3>2, <3>3, Plan DEF Justified
    <3>7. ~args.sshAgent => exit = "zero"
      BY <2>1, <3>2, <3>3, <3>5, Plan DEF Justified
    <3> QED BY <3>4, <3>5, <3>6, <3>7
  <2> QED BY <2>3, <2>5, <2>6
<1>2. Init => VerdictInv
  BY DEF Init, VerdictInv, ChecksTrue, CodeTrue
<1> QED BY <1>1, <1>2, StepInit, StepNext, VerdictNext, PTL DEF Spec
=============================================================================
