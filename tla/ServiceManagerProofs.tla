------------------------ MODULE ServiceManagerProofs ------------------------
(***************************************************************************)
(* ServiceManager for any commands, configurations and socket paths: types *)
(* and whose files are at the paths; that only --force, or commands that   *)
(* overlap, replace a unit by a different one; and what an install and an  *)
(* uninstall that report success have done.                                *)
(***************************************************************************)
EXTENDS ServiceManager, TLAPS

FileKinds == {"missing", "stale", "service", "rival"}
LockKinds == {"none", "free", "service", "rival"}

\* A well-typed state, seen from a step that only moves on one command.
LEMMA TypeGoto ==
  ASSUME TypeOK, NEW c \in Commands, NEW next \in Steps \cup Ended, Goto(c, next)
  PROVE  pc' \in [Commands -> Steps \cup Ended]
BY DEF TypeOK, Goto

\* A listener that goes away leaves neither socket nor lock in its name.
LEMMA LeavesNothing ==
  ASSUME TypeOK, NEW how, Leaves(how)
  PROVE  /\ file' \in [Sockets -> FileKinds] /\ lock' \in [Sockets -> LockKinds]
         /\ \A s \in Sockets : file'[s] # "service" /\ lock'[s] # "service"
<1>1. file \in [Sockets -> FileKinds] /\ lock \in [Sockets -> LockKinds]
  BY DEF TypeOK, FileKinds, LockKinds
<1>2. CASE proc \in {"locked", "live"}
  <2>1. SocketOf[ran] \in Sockets
    BY <1>2, ServiceManagerAssumption DEF TypeOK
  <2>2. \A s \in Sockets : s # SocketOf[ran] => file[s] # "service" /\ lock[s] # "service"
    BY DEF TypeOK
  <2> QED BY <1>1, <1>2, <2>1, <2>2 DEF Leaves, FileKinds, LockKinds
<1>3. CASE proc \notin {"locked", "live"}
  BY <1>1, <1>3 DEF Leaves, files, TypeOK
<1> QED BY <1>2, <1>3

\* The initial state is well typed.
LEMMA TypeInit == Init => TypeOK
<1> SUFFICES ASSUME Init PROVE TypeOK
  OBVIOUS
<1>1. enabled \in BOOLEAN
  <2>1. (unit # "none") \in BOOLEAN
    OBVIOUS
  <2> QED BY <2>1 DEF Init
<1>2. /\ unit \in Configs \cup {"none"} /\ loaded = unit /\ ran = unit /\ waiting = FALSE
      /\ proc = IF unit = "none" THEN "none" ELSE "starting"
      /\ rival = "away" /\ overlapped = {} /\ faults = 0
  BY DEF Init
<1>3. /\ file \in [Sockets -> FileKinds] /\ \A s \in Sockets : file[s] = "missing"
      /\ lock \in [Sockets -> LockKinds] /\ \A s \in Sockets : lock[s] = "none"
  BY DEF Init, FileKinds, LockKinds
<1>4. /\ pc \in [Commands -> Steps \cup Ended]
      /\ goal \in [Commands -> Configs \cup {"none"}]
      /\ force \in [Commands -> BOOLEAN]
      /\ named \in [Commands -> Sockets \cup {"none"}]
  BY DEF Init, Steps
<1>5. /\ unit \in Configs \cup {"none"} /\ loaded \in Configs \cup {"none"}
      /\ ran \in Configs \cup {"none"} /\ waiting \in BOOLEAN
      /\ proc \in {"none", "starting", "locked", "live"}
      /\ (ran = "none" <=> proc = "none") /\ (proc # "none" => ~waiting)
  BY <1>2
<1>6. rival \in {"away", "locked", "live", "gone"} /\ overlapped \subseteq Commands
  BY <1>2
<1>7. faults \in 0..MaxFaults
  BY <1>2, ServiceManagerAssumption
<1>8. \A s \in Sockets : file[s] # "service" /\ lock[s] # "service"
  BY <1>3
<1> QED BY <1>1, <1>3, <1>4, <1>5, <1>6, <1>7, <1>8 DEF TypeOK, FileKinds, LockKinds

\* The listener of the service, systemd and the reboot.
LEMMA TypeService ==
  TypeOK /\ (ListenerLocks \/ ListenerBinds \/ ListenerDies \/ AutoRestart \/ Reboot) => TypeOK'
<1> SUFFICES ASSUME TypeOK,
                    ListenerLocks \/ ListenerBinds \/ ListenerDies \/ AutoRestart \/ Reboot
             PROVE  TypeOK'
  OBVIOUS
<1> USE ServiceManagerAssumption
<1>1. proc # "none" => SocketOf[ran] \in Sockets /\ ran # "none"
  BY DEF TypeOK
<1>2. ASSUME NEW how, Exits(how, TRUE),
             UNCHANGED <<unit, loaded, enabled, rival, pc, command>>, faults' \in 0..MaxFaults
      PROVE  TypeOK'
  <2>1. Leaves(how)
    BY <1>2 DEF Exits
  <2> QED BY <1>2, <2>1, LeavesNothing DEF TypeOK, Exits, command, FileKinds, LockKinds
<1>3. CASE ListenerLocks
  <2>1. CASE /\ lock[SocketOf[ran]] \in {"none", "free"} /\ proc' = "locked"
             /\ lock' = [lock EXCEPT ![SocketOf[ran]] = "service"]
             /\ UNCHANGED <<ran, waiting, file>>
    BY <1>1, <1>3, <2>1 DEF ListenerLocks, TypeOK, command
  <2>2. CASE Exits("clean", TRUE)
    BY <1>2, <1>3, <2>2 DEF ListenerLocks, TypeOK
  <2> QED BY <1>3, <2>1, <2>2 DEF ListenerLocks
<1>4. CASE ListenerBinds
  <2>1. CASE /\ proc' = "live" /\ file' = [file EXCEPT ![SocketOf[ran]] = "service"]
             /\ UNCHANGED <<ran, waiting, lock>>
    BY <1>1, <1>4, <2>1 DEF ListenerBinds, TypeOK, command
  <2>2. CASE Exits("clean", TRUE)
    BY <1>2, <1>4, <2>2 DEF ListenerBinds, TypeOK
  <2> QED BY <1>4, <2>1, <2>2 DEF ListenerBinds
<1>5. CASE ListenerDies
  <2>1. faults' \in 0..MaxFaults
    BY <1>5 DEF ListenerDies, TypeOK
  <2> QED BY <1>2, <1>5, <2>1 DEF ListenerDies
<1>6. CASE AutoRestart
  BY <1>6 DEF AutoRestart, Starts, files, command, TypeOK
<1>7. CASE Reboot
  <2>1. faults' \in 0..MaxFaults
    BY <1>7 DEF Reboot, TypeOK
  <2>2. pc' \in [Commands -> Steps \cup Ended]
    BY <1>7 DEF Reboot, TypeOK, Ended
  <2> QED BY <1>7, <2>1, <2>2 DEF Reboot, Starts, command, TypeOK
<1> QED BY <1>3, <1>4, <1>5, <1>6, <1>7

\* The rival touches only its own path.
LEMMA TypeRival == TypeOK /\ (RivalLocks \/ RivalBinds \/ RivalStops) => TypeOK'
BY ServiceManagerAssumption
DEF RivalLocks, RivalBinds, RivalStops, RivalEnds, TypeOK, service, command

\* What a call of systemctl may do to systemd keeps its part of the types.
LEMMA TypeCall ==
  ASSUME TypeOK, NEW c \in Commands, NEW next \in Steps \cup Ended, Goto(c, next),
         \/ reload \/ enable \/ restart
         \/ disable /\ (stopNow \/ UNCHANGED <<service, files>>)
         \/ UNCHANGED systemd,
         UNCHANGED <<unit, rival, command, faults>>
  PROVE  TypeOK'
<1> USE ServiceManagerAssumption
<1>1. pc' \in [Commands -> Steps \cup Ended]
  BY TypeGoto
<1>2. CASE reload \/ enable \/ (disable /\ UNCHANGED <<service, files>>) \/ UNCHANGED systemd
  <2>1. enabled' \in BOOLEAN
    BY <1>2 DEF reload, enable, disable, TypeOK, systemd
  <2>2. loaded' \in Configs \cup {"none"}
    BY <1>2 DEF reload, enable, disable, TypeOK, systemd
  <2>3. UNCHANGED <<proc, ran, waiting, file, lock>>
    BY <1>2 DEF reload, enable, disable, systemd, service, files
  <2> QED BY <1>1, <2>1, <2>2, <2>3 DEF TypeOK, command
<1>3. CASE restart
  <2>1. PICK how \in {"clean", "killed"} : Leaves(how)
    BY <1>3 DEF restart
  <2> QED BY <1>1, <1>3, <2>1, LeavesNothing
          DEF restart, Starts, TypeOK, command, FileKinds, LockKinds
<1>4. CASE disable /\ stopNow
  <2>1. PICK how \in {"clean", "killed"} : Exits(how, FALSE)
    BY <1>4 DEF stopNow
  <2>2. Leaves(how)
    BY <2>1 DEF Exits
  <2> QED BY <1>1, <1>4, <2>1, <2>2, LeavesNothing
          DEF Exits, disable, TypeOK, command, FileKinds, LockKinds
<1> QED BY <1>2, <1>3, <1>4

\* Every step of an install.
LEMMA TypeInstall == ASSUME TypeOK, NEW c \in Commands, Install(c) PROVE TypeOK'
<1>0. TypeOK /\ UNCHANGED <<systemd, rival, command, faults>>
        /\ unit' \in Configs \cup {"none"} /\ pc' \in [Commands -> Steps \cup Ended] => TypeOK'
  BY DEF TypeOK, systemd, service, files, command
<1>1. CASE BeginInstall(c)
  BY <1>1 DEF BeginInstall, Begin, Goto, TypeOK, Steps, systemd, service, files
<1>2. CASE ReadUnit(c)
  BY <1>0, <1>2 DEF ReadUnit, Goto, TypeOK, Steps, Ended
<1>3. CASE WriteUnit(c)
  BY <1>0, <1>3 DEF WriteUnit, Goto, TypeOK, Steps, Ended
<1>4. CASE DaemonReload(c)
  BY <1>4, TypeCall DEF DaemonReload, Calls, Steps, Ended
<1>5. CASE Enable(c)
  BY <1>5, TypeCall DEF Enable, Calls, Steps, Ended
<1>6. CASE Restart(c)
  BY <1>6, TypeCall DEF Restart, Calls, Steps, Ended
<1>7. CASE IsActive(c) \/ Inspect(c)
  BY <1>0, <1>7 DEF IsActive, Inspect, Goto, TypeOK, Steps, Ended
<1> QED BY <1>1, <1>2, <1>3, <1>4, <1>5, <1>6, <1>7 DEF Install

\* Every step of an uninstall.
LEMMA TypeUninstall == ASSUME TypeOK, NEW c \in Commands, Uninstall(c) PROVE TypeOK'
<1> USE ServiceManagerAssumption
<1>0. UNCHANGED <<systemd, rival, command, faults>>
        /\ unit' \in Configs \cup {"none"} /\ pc' \in [Commands -> Steps \cup Ended] => TypeOK'
  BY DEF TypeOK, systemd, service, files, command
<1>1. CASE BeginUninstall(c)
  BY <1>1 DEF BeginUninstall, Begin, Goto, TypeOK, Steps, systemd, service, files
<1>2. CASE ReadName(c)
  BY <1>2 DEF ReadName, Goto, TypeOK, Steps, systemd, service, files
<1>3. CASE Disable(c)
  BY <1>3, TypeCall DEF Disable, Steps, Ended
<1>4. CASE RemoveUnit(c)
  BY <1>0, <1>4 DEF RemoveUnit, Goto, TypeOK, Steps, Ended
<1>5. CASE Unload(c)
  BY <1>5, TypeCall DEF Unload, Calls, Steps, Ended
<1>6. CASE ResetFailed(c) \/ CheckSocket(c) \/ CheckLock(c)
  BY <1>0, <1>6 DEF ResetFailed, CheckSocket, CheckLock, Goto, TypeOK, Steps, Ended
<1>7. CASE RemoveSocket(c)
  BY <1>7 DEF RemoveSocket, Goto, TypeOK, Steps, Ended, service, command
<1>8. CASE RemoveLock(c)
  BY <1>8 DEF RemoveLock, Goto, TypeOK, Steps, Ended, service, command
<1> QED BY <1>1, <1>2, <1>3, <1>4, <1>5, <1>6, <1>7, <1>8 DEF Uninstall

\* Every step keeps the types.
LEMMA TypeNext == TypeOK /\ [Next]_vars => TypeOK'
<1> SUFFICES ASSUME TypeOK, [Next]_vars PROVE TypeOK'
  OBVIOUS
<1>1. ASSUME NEW c \in Commands, Interrupt(c) PROVE TypeOK'
  BY <1>1 DEF Interrupt, Goto, TypeOK, Ended, systemd, service, files, command
<1>2. CASE UNCHANGED vars
  BY <1>2 DEF vars, systemd, service, files, command, TypeOK
<1> QED BY <1>1, <1>2, TypeService, TypeRival, TypeInstall, TypeUninstall DEF Next

\* In every reachable state the types hold, and a socket or a lock that counts
\* as the service's belongs to the process systemd runs now.
THEOREM TypeCorrect == Spec => []TypeOK
<1> QED BY TypeInit, TypeNext, PTL DEF Spec

-----------------------------------------------------------------------------
\* Commands that run at the same time know it, ...
OverlapKnown ==
    \A c, d \in Commands : (c # d /\ Running(c) /\ Running(d)) => c \in overlapped

\* ... and an install on its own that is about to write has found no other unit.
WriterHasLooked ==
    \A c \in Commands :
        (pc[c] = "write" /\ ~force[c] /\ c \notin overlapped) => unit \in {"none", goal[c]}

IInv == TypeOK /\ OverlapKnown /\ WriterHasLooked

\* The invariant holds after a boot.
LEMMA InvInit == Init => IInv
<1> SUFFICES ASSUME Init PROVE IInv
  OBVIOUS
<1>1. OverlapKnown /\ WriterHasLooked
  BY DEF Init, OverlapKnown, WriterHasLooked, Running
<1> QED BY <1>1, TypeInit DEF IInv

\* A step in which no command begins, no command comes to write and the unit
\* file stays keeps the invariant.
LEMMA InvKept ==
  ASSUME IInv, TypeOK', UNCHANGED <<unit, goal, force, overlapped>>,
         \A c \in Commands : /\ Running(c)' => Running(c)
                             /\ pc'[c] = "write" => pc[c] = "write"
  PROVE  IInv'
<1>1. OverlapKnown'
  BY DEF IInv, OverlapKnown
<1>2. WriterHasLooked'
  BY DEF IInv, WriterHasLooked
<1> QED BY <1>1, <1>2 DEF IInv

\* A step of a running command that does not begin and leaves the unit file.
LEMMA InvGoto ==
  ASSUME IInv, TypeOK', UNCHANGED <<unit, goal, force, overlapped>>,
         NEW c \in Commands, Running(c),
         NEW next \in (Steps \cup Ended) \ {"write"}, Goto(c, next)
  PROVE  IInv'
<1>1. \A d \in Commands : pc'[d] = IF d = c THEN next ELSE pc[d]
  BY DEF Goto, IInv, TypeOK
<1>2. \A d \in Commands : /\ Running(d)' => Running(d)
                          /\ pc'[d] = "write" => pc[d] = "write"
  BY <1>1 DEF Running
<1> QED BY <1>2, InvKept

\* A command that begins marks itself and all it meets.
LEMMA InvBegin ==
  ASSUME IInv, TypeOK', NEW c \in Commands, NEW config, NEW forced,
         NEW first \in {"read", "name"}, Begin(c, config, forced, first)
  PROVE  IInv'
<1>1. \A d \in Commands : pc'[d] = IF d = c THEN first ELSE pc[d]
  BY DEF Begin, Goto, IInv, TypeOK
<1>2. \A d \in Commands \ {c} : Running(d)' <=> Running(d)
  BY <1>1 DEF Running
<1>3. \A d \in Commands \ {c} : Running(d) => d \in overlapped' /\ c \in overlapped'
  BY DEF Begin
<1>4. overlapped \subseteq overlapped'
  BY DEF Begin
<1>5. OverlapKnown'
  BY <1>2, <1>3, <1>4 DEF IInv, OverlapKnown
<1>6. \A d \in Commands \ {c} : goal'[d] = goal[d] /\ force'[d] = force[d]
  BY DEF Begin, IInv, TypeOK
<1>7. WriterHasLooked'
  BY <1>1, <1>4, <1>6 DEF IInv, WriterHasLooked, Begin
<1> QED BY <1>5, <1>7 DEF IInv

\* The unit file changes in the hands of a running command: whoever else is
\* about to write has been marked.
LEMMA InvUnit ==
  ASSUME IInv, TypeOK', UNCHANGED <<goal, force, overlapped>>,
         NEW c \in Commands, pc[c] \in {"write", "remove"},
         NEW next \in (Steps \cup Ended) \ {"write"}, Goto(c, next)
  PROVE  IInv'
<1>1. \A d \in Commands : pc'[d] = IF d = c THEN next ELSE pc[d]
  BY DEF Goto, IInv, TypeOK
<1>2. Running(c) /\ \A d \in Commands : pc[d] = "write" => Running(d)
  BY DEF Running, Ended
<1>3. OverlapKnown'
  BY <1>1, <1>2 DEF IInv, OverlapKnown, Running
<1>4. WriterHasLooked'
  BY <1>1, <1>2 DEF IInv, OverlapKnown, WriterHasLooked
<1> QED BY <1>3, <1>4 DEF IInv

\* A command looks at the unit file: if it comes to write without --force it
\* has found none, or its own.
LEMMA InvRead == ASSUME IInv, TypeOK', NEW c \in Commands, ReadUnit(c) PROVE IInv'
<1>1. UNCHANGED <<unit, goal, force, overlapped>> /\ pc[c] = "read"
  BY DEF ReadUnit, command
<1>2. \A d \in Commands \ {c} : pc'[d] = pc[d]
  BY DEF ReadUnit, Goto, IInv, TypeOK
<1>3. pc'[c] = "write" => unit \in {"none", goal[c]} \/ force[c]
  BY DEF ReadUnit, Goto, IInv, TypeOK
<1>4. Running(c)
  BY <1>1 DEF Running, Ended
<1>5. OverlapKnown'
  BY <1>1, <1>2, <1>4 DEF IInv, OverlapKnown, Running
<1>6. WriterHasLooked'
  BY <1>1, <1>2, <1>3 DEF IInv, WriterHasLooked
<1> QED BY <1>5, <1>6 DEF IInv

\* Every step keeps the invariant.
LEMMA InvNext == IInv /\ [Next]_vars => IInv'
<1> SUFFICES ASSUME IInv, [Next]_vars PROVE IInv'
  OBVIOUS
<1>0. TypeOK'
  BY TypeNext DEF IInv
<1>1. ASSUME UNCHANGED <<unit, pc, command>> PROVE IInv'
  BY <1>0, <1>1, InvKept DEF command, Running
<1>2. CASE UNCHANGED vars
  BY <1>1, <1>2 DEF vars
<1>3. CASE ListenerLocks \/ ListenerBinds \/ ListenerDies \/ AutoRestart
           \/ RivalLocks \/ RivalBinds \/ RivalStops
  BY <1>1, <1>3 DEF ListenerLocks, ListenerBinds, ListenerDies, AutoRestart,
         RivalLocks, RivalBinds, RivalStops
<1>4. CASE Reboot
  <2>1. \A c \in Commands : pc'[c] = IF Running(c) THEN "killed" ELSE pc[c]
    BY <1>4 DEF Reboot
  <2>2. \A c \in Commands : /\ Running(c)' => Running(c)
                            /\ pc'[c] = "write" => pc[c] = "write"
    BY <2>1 DEF Running, Ended
  <2> QED BY <1>0, <1>4, <2>2, InvKept DEF Reboot, command
<1>5. ASSUME NEW c \in Commands, Install(c) PROVE IInv'
  <2>1. CASE BeginInstall(c)
    BY <1>0, <2>1, InvBegin DEF BeginInstall
  <2>2. CASE ReadUnit(c)
    BY <1>0, <2>2, InvRead
  <2>3. CASE WriteUnit(c)
    BY <1>0, <2>3, InvUnit DEF WriteUnit, command, Steps, Ended
  <2>4. CASE DaemonReload(c) \/ Enable(c) \/ Restart(c) \/ IsActive(c) \/ Inspect(c)
    <3>1. Running(c) /\ UNCHANGED <<unit, goal, force, overlapped>>
      BY <2>4 DEF DaemonReload, Enable, Restart, IsActive, Inspect, Running, Ended, command
    <3>2. \E next \in (Steps \cup Ended) \ {"write"} : Goto(c, next)
      BY <2>4 DEF DaemonReload, Enable, Restart, IsActive, Inspect, Calls, Steps, Ended
    <3> QED BY <1>0, <3>1, <3>2, InvGoto
  <2> QED BY <1>5, <2>1, <2>2, <2>3, <2>4 DEF Install
<1>6. ASSUME NEW c \in Commands, Uninstall(c) PROVE IInv'
  <2>1. CASE BeginUninstall(c)
    BY <1>0, <2>1, InvBegin DEF BeginUninstall
  <2>2. CASE RemoveUnit(c)
    BY <1>0, <2>2, InvUnit DEF RemoveUnit, command, Steps, Ended
  <2>3. CASE \/ ReadName(c) \/ Disable(c) \/ Unload(c) \/ ResetFailed(c)
             \/ CheckSocket(c) \/ RemoveSocket(c) \/ CheckLock(c) \/ RemoveLock(c)
    <3>1. Running(c) /\ UNCHANGED <<unit, goal, force, overlapped>>
      BY <2>3 DEF ReadName, Disable, Unload, ResetFailed, CheckSocket, RemoveSocket,
             CheckLock, RemoveLock, Running, Ended, command
    <3>2. \E next \in (Steps \cup Ended) \ {"write"} : Goto(c, next)
      BY <2>3 DEF ReadName, Disable, Unload, ResetFailed, CheckSocket, RemoveSocket,
             CheckLock, RemoveLock, Calls, Steps, Ended
    <3> QED BY <1>0, <3>1, <3>2, InvGoto
  <2> QED BY <1>6, <2>1, <2>2, <2>3 DEF Uninstall
<1>7. ASSUME NEW c \in Commands, Interrupt(c) PROVE IInv'
  BY <1>0, <1>7, InvGoto DEF Interrupt, command, Ended
<1> QED BY <1>2, <1>3, <1>4, <1>5, <1>6, <1>7 DEF Next

LEMMA Invariant == Spec => []IInv
<1> QED BY InvInit, InvNext, PTL DEF Spec

\* "A different configuration requires --force": a unit is replaced by another
\* one only by a command that was given it, or that did not run alone.
THEOREM ForceIsNeeded == Spec => ForceNeeded
<1>1. IInv /\ Next /\ unit # "none" /\ unit' \notin {"none", unit}
        => \E c \in Commands : pc[c] = "write" /\ pc'[c] # "write"
                               /\ (force[c] \/ c \in overlapped)
  <2> SUFFICES ASSUME IInv, Next, unit # "none", unit' \notin {"none", unit}
               PROVE  \E c \in Commands : pc[c] = "write" /\ pc'[c] # "write"
                                          /\ (force[c] \/ c \in overlapped)
    OBVIOUS
  <2>1. PICK c \in Commands : WriteUnit(c)
    BY DEF Next, ListenerLocks, ListenerBinds, ListenerDies, AutoRestart, Reboot, RivalLocks,
           RivalBinds, RivalStops, Install, Uninstall, Interrupt, BeginInstall, BeginUninstall,
           Begin, ReadUnit, DaemonReload, Enable, Restart, IsActive, Inspect, ReadName, Disable,
           RemoveUnit, Unload, ResetFailed, CheckSocket, RemoveSocket, CheckLock, RemoveLock
  <2>2. pc[c] = "write" /\ pc'[c] # "write" /\ unit' = goal[c]
    BY <2>1 DEF WriteUnit, Goto, IInv, TypeOK
  <2>3. force[c] \/ c \in overlapped
    BY <2>2 DEF IInv, WriterHasLooked
  <2> QED BY <2>2, <2>3
<1>2. IInv /\ [Next]_vars
        => [(unit # "none" /\ unit' \notin {"none", unit}) =>
              \E c \in Commands : pc[c] = "write" /\ pc'[c] # "write"
                                  /\ (force[c] \/ c \in overlapped)]_vars
  BY <1>1
<1> QED BY Invariant, <1>2, PTL DEF Spec, ForceNeeded

-----------------------------------------------------------------------------
\* A command that nothing else has run beside.
Alone(c) == Running(c) /\ c \notin overlapped

\* Nothing of the service runs, and nothing will start it.
Off == proc = "none" /\ ~waiting /\ ~enabled

InstallSteps   == {"read", "write", "reload", "enable", "restart", "active", "inspect"}
UninstallSteps == {"name", "disable", "remove", "unload", "reset",
                   "lstat", "rmsock", "lstatlock", "rmlock"}

\* Which of the two a command is shows in what it installs; only an uninstall
\* looks for a socket's name.
GoalKnown ==
    \A c \in Commands : /\ pc[c] \in InstallSteps => goal[c] # "none"
                        /\ pc[c] \in UninstallSteps => goal[c] = "none"
                        /\ pc[c] \in InstallSteps \cup {"idle"} => named[c] = "none"

\* A rival that has not been started has no socket.
RivalKnown == rival = "away" => \A s \in Sockets : file[s] # "rival"

\* How far an install on its own has come.
Installing(c) ==
    /\ pc[c] \in {"reload", "enable", "restart", "active", "inspect"} => unit = goal[c]
    /\ pc[c] \in {"enable", "restart", "active", "inspect"} => loaded = goal[c]
    /\ pc[c] \in {"restart", "active", "inspect"} => enabled
    /\ pc[c] \in {"active", "inspect"} => ran = goal[c] \/ (proc = "none" /\ waiting)

\* How far an uninstall on its own has come.
Uninstalling(c) ==
    /\ pc[c] = "disable" => (named[c] = "none" <=> unit = "none")
    /\ (pc[c] \in UninstallSteps \ {"name", "disable"} /\ (named[c] # "none" \/ overlapped = {})) => Off
    /\ pc[c] \in UninstallSteps \ {"name", "disable", "remove"} => unit = "none"
    /\ pc[c] \in UninstallSteps \ {"name", "disable", "remove", "unload"} => loaded = "none"
    /\ pc[c] \in {"lstat", "rmsock", "lstatlock", "rmlock"} => named[c] # "none"
    /\ pc[c] \in {"lstatlock", "rmlock"} => file[named[c]] \notin {"service", "stale"}

\* Without overlaps, a unit file is only ever missing when the service is off.
NothingLeft == (overlapped = {} /\ unit = "none") => Off

\* The strengthening that the three promises of success need.
CInv ==
    /\ TypeOK /\ OverlapKnown /\ GoalKnown /\ RivalKnown /\ NothingLeft
    /\ \A c \in Commands : Alone(c) => Installing(c) /\ Uninstalling(c)

\* It holds after a boot: nothing is installed, or the service starts.
LEMMA AloneInit == Init => CInv
<1> SUFFICES ASSUME Init PROVE CInv
  OBVIOUS
<1>1. \A c \in Commands : pc[c] = "idle"
  BY DEF Init
<1>2. GoalKnown /\ RivalKnown /\ \A c \in Commands : ~Alone(c)
  BY <1>1 DEF Init, GoalKnown, RivalKnown, Alone, Running, InstallSteps, UninstallSteps
<1>3. NothingLeft
  BY DEF Init, NothingLeft, Off
<1> QED BY <1>2, <1>3, InvInit DEF IInv, CInv

\* A listener that goes away makes no stale socket of a path where the service
\* has none, and no socket of the rival's.
LEMMA LeavesOthers ==
  ASSUME TypeOK, NEW how, Leaves(how), NEW s \in Sockets
  PROVE  /\ file'[s] # file[s] => file[s] = "service" \/ file'[s] = "missing"
         /\ file'[s] = "rival" => file[s] = "rival"
         /\ proc = "none" => file' = file
BY ServiceManagerAssumption DEF Leaves, TypeOK, files

\* The listener, the rival and systemd's timer take nothing back from a command
\* that runs on its own.
LEMMA AloneKept ==
  ASSUME CInv, IInv', UNCHANGED <<unit, loaded, enabled, pc, command>>,
         Off => proc' = "none" /\ ~waiting',
         ran = loaded \/ (proc = "none" /\ waiting)
             => ran' = loaded \/ (proc' = "none" /\ waiting'),
         RivalKnown',
         Off => \A s \in Sockets : file[s] \notin {"service", "stale"}
                                     => file'[s] \notin {"service", "stale"}
  PROVE  CInv'
<1>1. GoalKnown'
  BY DEF CInv, GoalKnown, command
<1>2. NothingLeft'
  BY DEF CInv, NothingLeft, Off, command
<1>3. ASSUME NEW c \in Commands, Alone(c)' PROVE Installing(c)' /\ Uninstalling(c)'
  <2>1. Alone(c) /\ Installing(c) /\ Uninstalling(c)
    BY <1>3 DEF Alone, Running, command, CInv
  <2>2. Installing(c)'
    BY <2>1 DEF Installing, command
  <2>3. pc[c] \in {"lstatlock", "rmlock"} => named[c] \in Sockets /\ Off
    BY <2>1 DEF Uninstalling, CInv, TypeOK, UninstallSteps
  <2>4. Uninstalling(c)'
    BY <2>1, <2>3 DEF Uninstalling, Off, command
  <2> QED BY <2>2, <2>4
<1> QED BY <1>1, <1>2, <1>3 DEF CInv, IInv

\* The steps that are nobody's command.
LEMMA AloneService ==
  ASSUME CInv, IInv',
         \/ ListenerLocks \/ ListenerBinds \/ ListenerDies \/ AutoRestart
         \/ RivalLocks \/ RivalBinds \/ RivalStops
  PROVE  CInv'
<1>0. TypeOK /\ TypeOK' /\ RivalKnown
  BY DEF CInv, IInv
<1>1. ASSUME NEW how, Exits(how, TRUE), proc # "none",
             UNCHANGED <<unit, loaded, enabled, rival, pc, command>>
      PROVE  CInv'
  <2>1. Leaves(how) /\ proc' = "none" /\ waiting'
    BY <1>1 DEF Exits
  <2>2. RivalKnown'
    BY <1>0, <1>1, <2>1, LeavesOthers DEF RivalKnown
  <2> QED BY <1>1, <2>1, <2>2, AloneKept DEF Off
<1>2. CASE ListenerLocks
  <2>1. CASE Exits("clean", TRUE)
    BY <1>1, <1>2, <2>1 DEF ListenerLocks
  <2>2. CASE proc' = "locked" /\ UNCHANGED <<ran, waiting, file>>
    <3>1. RivalKnown'
      BY <1>0, <1>2, <2>2 DEF ListenerLocks, RivalKnown
    <3> QED BY <1>2, <2>2, <3>1, AloneKept DEF ListenerLocks, Off
  <2> QED BY <1>2, <2>1, <2>2 DEF ListenerLocks
<1>3. CASE ListenerBinds
  <2>1. CASE Exits("clean", TRUE)
    BY <1>1, <1>3, <2>1 DEF ListenerBinds
  <2>2. CASE proc' = "live" /\ UNCHANGED <<ran, waiting>>
             /\ file' = [file EXCEPT ![SocketOf[ran]] = "service"]
    <3>1. RivalKnown'
      BY <1>0, <1>3, <2>2 DEF ListenerBinds, RivalKnown, TypeOK
    <3> QED BY <1>3, <2>2, <3>1, AloneKept DEF ListenerBinds, Off
  <2> QED BY <1>3, <2>1, <2>2 DEF ListenerBinds
<1>4. CASE ListenerDies
  BY <1>1, <1>4 DEF ListenerDies
<1>5. CASE AutoRestart
  <2>1. RivalKnown'
    BY <1>0, <1>5 DEF AutoRestart, RivalKnown, files
  <2>2. loaded = "none" => ran = "none" /\ proc = "none"
    BY <1>0, <1>5 DEF AutoRestart, TypeOK
  <2>3. ran' = loaded \/ (proc' = "none" /\ waiting')
    BY <1>5, <2>2 DEF AutoRestart, Starts
  <2> QED BY <1>5, <2>1, <2>3, AloneKept DEF AutoRestart, Off
<1>6. CASE RivalLocks \/ RivalBinds \/ RivalStops
  <2>1. RivalKnown' /\ UNCHANGED <<unit, loaded, enabled, proc, ran, waiting, pc, command>>
    BY <1>0, <1>6 DEF RivalLocks, RivalBinds, RivalStops, RivalEnds, RivalKnown, service, TypeOK
  <2>2. \A s \in Sockets : file[s] \notin {"service", "stale"}
                             => file'[s] \notin {"service", "stale"}
    BY <1>0, <1>6 DEF RivalLocks, RivalBinds, RivalStops, RivalEnds, TypeOK
  <2> QED BY <2>1, <2>2, AloneKept DEF Off
<1> QED BY <1>2, <1>3, <1>4, <1>5, <1>6

\* A reboot leaves no command running.
LEMMA AloneReboot == ASSUME CInv, IInv', Reboot PROVE CInv'
<1>1. \A c \in Commands : pc'[c] = IF Running(c) THEN "killed" ELSE pc[c]
  BY DEF Reboot
<1>2. \A c \in Commands : ~Running(c)'
  BY <1>1 DEF Running, Ended
<1>3. GoalKnown'
  BY <1>1, <1>2 DEF CInv, GoalKnown, Reboot, Running, InstallSteps, UninstallSteps, Ended, command
<1>4. RivalKnown' /\ NothingLeft'
  BY DEF CInv, Reboot, RivalKnown, NothingLeft, Off, command
<1> QED BY <1>2, <1>3, <1>4 DEF CInv, IInv, Alone

\* A command that begins is at the first of its steps, and alone if it meets
\* no other.
LEMMA AloneBegin ==
  ASSUME CInv, IInv', NEW c \in Commands, NEW config \in Configs \cup {"none"}, NEW forced,
         NEW first \in {"read", "name"}, Begin(c, config, forced, first),
         first = "read" <=> config # "none"
  PROVE  CInv'
<1>1. \A d \in Commands : /\ pc'[d] = IF d = c THEN first ELSE pc[d]
                          /\ goal'[d] = IF d = c THEN config ELSE goal[d]
  BY DEF Begin, Goto, CInv, TypeOK
<1>2. UNCHANGED <<unit, loaded, enabled, proc, ran, waiting, file, rival, named>>
  BY DEF Begin, systemd, service, files
<1>3. overlapped \subseteq overlapped' /\ \A d \in Commands : Running(d) => d \in overlapped'
  BY DEF Begin
<1>4. GoalKnown'
  BY <1>1, <1>2 DEF CInv, GoalKnown, Begin, InstallSteps, UninstallSteps
<1>5. RivalKnown' /\ NothingLeft'
  BY <1>2, <1>3 DEF CInv, RivalKnown, NothingLeft, Off
<1>6. ASSUME NEW d \in Commands, Alone(d)' PROVE d = c
  BY <1>1, <1>3, <1>6 DEF Alone, Running
<1>7. Installing(c)' /\ Uninstalling(c)'
  BY <1>1 DEF Installing, Uninstalling, UninstallSteps
<1> QED BY <1>4, <1>5, <1>6, <1>7 DEF CInv, IInv

\* A step of a running command: nobody else runs alone.
LEMMA AloneStep ==
  ASSUME CInv, IInv', UNCHANGED <<rival, goal, overlapped>>,
         NEW c \in Commands, Running(c), NEW next \in (Steps \ {"idle"}) \cup Ended, Goto(c, next),
         next \in InstallSteps => pc[c] \in InstallSteps,
         next \in UninstallSteps => pc[c] \in UninstallSteps,
         \A d \in Commands : (d = c /\ pc[c] \in UninstallSteps) \/ named'[d] = named[d],
         \A s \in Sockets : file'[s] = "rival" => file[s] = "rival",
         NothingLeft',
         Alone(c) /\ next \notin Ended => Installing(c)' /\ Uninstalling(c)'
  PROVE  CInv'
<1>1. \A d \in Commands : pc'[d] = IF d = c THEN next ELSE pc[d]
  BY DEF Goto, CInv, TypeOK
<1>2. GoalKnown'
  <2>1. next # "idle" /\ InstallSteps \cap UninstallSteps = {}
    BY DEF InstallSteps, UninstallSteps, Steps, Ended
  <2>2. ASSUME NEW d \in Commands
        PROVE  /\ pc'[d] \in InstallSteps => goal'[d] # "none" /\ named'[d] = "none"
               /\ pc'[d] \in UninstallSteps => goal'[d] = "none"
               /\ pc'[d] = "idle" => named'[d] = "none"
    <3>1. CASE d = c
      BY <1>1, <2>1, <3>1 DEF CInv, GoalKnown
    <3>2. CASE d # c
      BY <1>1, <3>2 DEF CInv, GoalKnown
    <3> QED BY <3>1, <3>2
  <2> QED BY <2>2 DEF GoalKnown, InstallSteps, UninstallSteps
<1>3. RivalKnown'
  BY DEF CInv, RivalKnown
<1>4. ASSUME NEW d \in Commands, Alone(d)' PROVE d = c /\ Alone(c) /\ next \notin Ended
  BY <1>1, <1>4 DEF Alone, Running, CInv, OverlapKnown
<1> QED BY <1>2, <1>3, <1>4 DEF CInv, IInv

\* Every step of an install.
LEMMA AloneInstall == ASSUME CInv, IInv', NEW c \in Commands, Install(c) PROVE CInv'
<1>0. /\ TypeOK /\ GoalKnown /\ RivalKnown /\ NothingLeft
      /\ \A d \in Commands : Alone(d) => Installing(d) /\ Uninstalling(d)
  BY DEF CInv
<1> DEFINE AtWork == {"write", "reload", "enable", "restart", "active", "inspect"}
<1>1. ASSUME pc[c] \in InstallSteps, UNCHANGED <<rival, command>>,
             NEW next \in AtWork \cup Ended, Goto(c, next),
             \A s \in Sockets : file'[s] = "rival" => file[s] = "rival",
             NothingLeft', Alone(c) => Installing(c)'
      PROVE  CInv'
  <2>1. Running(c) /\ next \in (Steps \ {"idle"}) \cup Ended
    BY <1>1 DEF Running, Ended, InstallSteps, Steps
  <2>2. next \in InstallSteps => pc[c] \in InstallSteps
    BY <1>1
  <2>3. next \notin UninstallSteps
    BY DEF UninstallSteps, Ended
  <2>4. pc'[c] = next
    BY <1>0, <1>1 DEF Goto, TypeOK
  <2>5. Uninstalling(c)'
    BY <2>3, <2>4 DEF Uninstalling, UninstallSteps
  <2> QED BY <1>1, <2>1, <2>2, <2>3, <2>5, AloneStep DEF command
<1>2. ASSUME Running(c) PROVE overlapped = {} => Alone(c)
  BY <1>2 DEF Alone
<1>3. CASE BeginInstall(c)
  <2>1. PICK config \in Configs, forced \in BOOLEAN : Begin(c, config, forced, "read")
    BY <1>3 DEF BeginInstall
  <2> QED BY <2>1, AloneBegin, ServiceManagerAssumption
<1>4. ASSUME pc[c] \in {"read", "active", "inspect"}, UNCHANGED <<unit, systemd, rival, command>>,
             NEW next \in {"write", "active", "inspect"} \cup Ended, Goto(c, next),
             next \in {"active", "inspect"} => pc[c] \in {"active", "inspect"}
      PROVE  CInv'
  <2>1. NothingLeft' /\ file' = file
    BY <1>0, <1>4 DEF NothingLeft, Off, systemd, service, files, command
  <2>2. pc'[c] = next
    BY <1>0, <1>4 DEF Goto, TypeOK
  <2>3. Alone(c) => Installing(c)'
    BY <1>0, <1>4, <2>2 DEF Installing, systemd, service, command, Ended
  <2> QED BY <1>1, <1>4, <2>1, <2>3 DEF InstallSteps
<1>5. CASE ReadUnit(c)
  BY <1>4, <1>5 DEF ReadUnit, Ended
<1>6. CASE WriteUnit(c)
  <2>1. goal[c] # "none" /\ Running(c)
    BY <1>0, <1>6 DEF WriteUnit, GoalKnown, InstallSteps, Running, Ended
  <2>2. NothingLeft' /\ file' = file
    BY <1>0, <1>6, <2>1 DEF WriteUnit, NothingLeft, Off, systemd, service, files, command
  <2>3. Installing(c)'
    BY <1>0, <1>6 DEF WriteUnit, Installing, Goto, TypeOK, command
  <2> QED BY <1>1, <1>6, <2>2, <2>3 DEF WriteUnit, InstallSteps, Ended
<1>7. ASSUME pc[c] \in {"reload", "enable", "restart"}, UNCHANGED <<unit, rival, command>>,
             UNCHANGED systemd, Goto(c, "internal")
      PROVE  CInv'
  <2>1. NothingLeft' /\ file' = file
    BY <1>0, <1>7 DEF NothingLeft, Off, systemd, service, files, command
  <2>2. Installing(c)'
    BY <1>0, <1>7 DEF Installing, Goto, TypeOK
  <2> QED BY <1>1, <1>7, <2>1, <2>2 DEF InstallSteps, Ended
<1>8. CASE DaemonReload(c)
  <2>1. ASSUME reload, NEW next \in {"enable", "internal"}, Goto(c, next) PROVE CInv'
    <3>1. NothingLeft' /\ file' = file
      BY <1>0, <1>8, <2>1 DEF DaemonReload, reload, NothingLeft, Off, service, files, command
    <3>2. pc'[c] = next
      BY <1>0, <2>1 DEF Goto, TypeOK
    <3>3. pc[c] = "reload" /\ (Alone(c) => unit = goal[c])
      BY <1>0, <1>8 DEF DaemonReload, Installing
    <3>4. Alone(c) => Installing(c)'
      BY <1>8, <2>1, <3>2, <3>3 DEF DaemonReload, reload, Installing, command
    <3> QED BY <1>1, <1>8, <2>1, <3>1, <3>4 DEF DaemonReload, InstallSteps, Ended
  <2> QED BY <1>7, <1>8, <2>1 DEF DaemonReload, Calls
<1>9. CASE Enable(c)
  <2>1. ASSUME enable, NEW next \in {"restart", "internal"}, Goto(c, next) PROVE CInv'
    <3>1. NothingLeft' /\ file' = file
      BY <1>0, <1>9, <2>1 DEF Enable, enable, NothingLeft, files
    <3>2. pc'[c] = next
      BY <1>0, <2>1 DEF Goto, TypeOK
    <3>3. pc[c] = "enable" /\ (Alone(c) => unit = goal[c])
      BY <1>0, <1>9 DEF Enable, Installing
    <3>4. Alone(c) => Installing(c)'
      BY <1>9, <2>1, <3>2, <3>3 DEF Enable, enable, Installing, command
    <3> QED BY <1>1, <1>9, <2>1, <3>1, <3>4 DEF Enable, InstallSteps, Ended
  <2> QED BY <1>7, <1>9, <2>1 DEF Enable, Calls
<1>10. CASE Restart(c)
  <2>1. ASSUME restart, NEW next \in {"active", "internal"}, Goto(c, next) PROVE CInv'
    <3>1. pc[c] = "restart" /\ Running(c) /\ goal[c] # "none"
      BY <1>0, <1>10 DEF Restart, Running, Ended, GoalKnown, InstallSteps
    <3>2. Alone(c) => unit = goal[c] /\ loaded = goal[c] /\ enabled
      BY <1>0, <3>1 DEF Installing
    <3>3. NothingLeft'
      BY <1>2, <1>10, <3>1, <3>2 DEF Restart, NothingLeft, command
    <3>4. pc'[c] = next
      BY <1>0, <2>1 DEF Goto, TypeOK
    <3>5. Alone(c) => Installing(c)'
      BY <1>10, <2>1, <3>1, <3>2, <3>4 DEF Restart, restart, Starts, Installing, command
    <3>6. \A s \in Sockets : file'[s] = "rival" => file[s] = "rival"
      BY <1>0, <2>1, LeavesOthers DEF restart
    <3> QED BY <1>1, <1>10, <2>1, <3>1, <3>3, <3>5, <3>6 DEF Restart, InstallSteps, Ended
  <2> QED BY <1>7, <1>10, <2>1 DEF Restart, Calls
<1>11. CASE IsActive(c) \/ Inspect(c)
  BY <1>4, <1>11 DEF IsActive, Inspect, Ended
<1> QED BY <1>3, <1>5, <1>6, <1>8, <1>9, <1>10, <1>11 DEF Install

\* Every step of an uninstall.
LEMMA AloneUninstall == ASSUME CInv, IInv', NEW c \in Commands, Uninstall(c) PROVE CInv'
<1>0. /\ TypeOK /\ GoalKnown /\ RivalKnown /\ NothingLeft
      /\ \A d \in Commands : Alone(d) => Installing(d) /\ Uninstalling(d)
  BY DEF CInv
<1>1. ASSUME pc[c] \in UninstallSteps, UNCHANGED <<rival, goal, force, overlapped>>,
             NEW next \in (UninstallSteps \ {"name"}) \cup Ended, Goto(c, next),
             \A d \in Commands \ {c} : named'[d] = named[d],
             \A s \in Sockets : file'[s] = "rival" => file[s] = "rival",
             NothingLeft', Alone(c) /\ next \notin Ended => Uninstalling(c)'
      PROVE  CInv'
  <2>1. Running(c) /\ next \in (Steps \ {"idle"}) \cup Ended
    BY <1>1 DEF Running, Ended, UninstallSteps, Steps
  <2>2. next \notin InstallSteps
    BY DEF InstallSteps, UninstallSteps, Ended
  <2>3. pc'[c] = next
    BY <1>0, <1>1 DEF Goto, TypeOK
  <2>4. Installing(c)'
    BY <2>2, <2>3 DEF Installing, InstallSteps
  <2> QED BY <1>1, <2>1, <2>2, <2>4, AloneStep
<1>2. pc[c] \in UninstallSteps => (overlapped = {} => Alone(c))
  BY DEF Alone, Running, UninstallSteps, Ended
<1>3. CASE BeginUninstall(c)
  BY <1>3, AloneBegin DEF BeginUninstall
<1>4. ASSUME pc[c] \in UninstallSteps, UNCHANGED <<unit, systemd, rival, command>>,
             NEW next \in (UninstallSteps \ {"name"}) \cup Ended, Goto(c, next),
             Alone(c) /\ next \notin Ended => Uninstalling(c)'
      PROVE  CInv'
  <2>1. NothingLeft' /\ file' = file
    BY <1>0, <1>4 DEF NothingLeft, Off, systemd, service, files, command
  <2> QED BY <1>1, <1>4, <2>1 DEF command
<1>5. CASE ReadName(c)
  <2>1. NothingLeft' /\ file' = file
    BY <1>0, <1>5 DEF ReadName, NothingLeft, Off, systemd, service, files
  <2>2. pc'[c] = "disable" /\ named'[c] = IF unit = "none" THEN "none" ELSE SocketOf[unit]
    BY <1>0, <1>5 DEF ReadName, Goto, TypeOK
  <2>3. unit' = unit /\ (unit # "none" => SocketOf[unit] # "none")
    BY <1>0, <1>5, ServiceManagerAssumption DEF ReadName, TypeOK
  <2>4. Uninstalling(c)'
    BY <2>2, <2>3 DEF Uninstalling, UninstallSteps
  <2> QED BY <1>1, <1>5, <2>1, <2>4 DEF ReadName, UninstallSteps
<1>6. CASE Disable(c)
  <2>1. pc[c] = "disable" /\ UNCHANGED <<unit, rival, command>>
    BY <1>6 DEF Disable
  <2>2. Alone(c) => (named[c] = "none" <=> unit = "none")
    BY <1>0, <2>1 DEF Uninstalling
  <2>3. ASSUME UNCHANGED systemd, NEW next \in Ended, Goto(c, next) PROVE CInv'
    BY <1>4, <2>1, <2>3 DEF UninstallSteps
  <2>4. CASE disable /\ UNCHANGED <<service, files>> /\ Goto(c, "internal")
    <3>1. NothingLeft' /\ file' = file
      BY <1>0, <2>1, <2>4 DEF disable, NothingLeft, Off, service, files, command
    <3> QED BY <1>1, <2>1, <2>4, <3>1 DEF UninstallSteps, Ended, command
  <2>5. CASE unit = "none" /\ UNCHANGED systemd /\ Goto(c, "remove")
    <3>1. pc'[c] = "remove"
      BY <1>0, <2>5 DEF Goto, TypeOK
    <3>2. overlapped = {} => Off
      BY <1>0, <2>5 DEF NothingLeft
    <3>3. Alone(c) => Uninstalling(c)'
      BY <2>1, <2>2, <2>5, <3>1, <3>2
      DEF Uninstalling, UninstallSteps, Off, systemd, service, command
    <3> QED BY <1>4, <2>1, <2>5, <3>3 DEF UninstallSteps
  <2>6. ASSUME disable, stopNow, NEW next \in {"remove", "internal"}, Goto(c, next) PROVE CInv'
    <3>1. PICK how \in {"clean", "killed"} : Exits(how, FALSE)
      BY <2>6 DEF stopNow
    <3>2. Off'
      BY <2>6, <3>1 DEF disable, Exits, Off
    <3>3. pc'[c] = next
      BY <1>0, <2>6 DEF Goto, TypeOK
    <3>4. Uninstalling(c)'
      BY <3>2, <3>3 DEF Uninstalling, UninstallSteps
    <3>5. \A s \in Sockets : file'[s] = "rival" => file[s] = "rival"
      BY <1>0, <3>1, LeavesOthers DEF Exits
    <3>6. NothingLeft'
      BY <3>2 DEF NothingLeft
    <3> QED BY <1>1, <2>1, <2>6, <3>4, <3>5, <3>6 DEF UninstallSteps, Ended, command
  <2> QED BY <1>6, <2>3, <2>4, <2>5, <2>6 DEF Disable, Ended
<1>7. CASE RemoveUnit(c)
  <2>1. pc[c] = "remove" /\ UNCHANGED <<systemd, rival, command>>
    BY <1>7 DEF RemoveUnit
  <2>2. CASE Goto(c, "socket") /\ UNCHANGED unit
    BY <1>4, <2>1, <2>2 DEF UninstallSteps, Ended
  <2>3. CASE unit' = "none" /\ Goto(c, "unload")
    <3>1. Alone(c) /\ (named[c] # "none" \/ overlapped = {}) => Off
      BY <1>0, <2>1 DEF Uninstalling, UninstallSteps
    <3>2. NothingLeft' /\ file' = file
      BY <1>2, <2>1, <3>1 DEF NothingLeft, Off, UninstallSteps, systemd, service, files, command
    <3>3. pc'[c] = "unload"
      BY <1>0, <2>3 DEF Goto, TypeOK
    <3>4. Alone(c) => Uninstalling(c)'
      BY <2>1, <2>3, <3>1, <3>3
      DEF Uninstalling, UninstallSteps, Off, systemd, service, command
    <3> QED BY <1>1, <2>1, <2>3, <3>2, <3>4 DEF UninstallSteps, command
  <2> QED BY <1>7, <2>2, <2>3 DEF RemoveUnit
<1>8. CASE Unload(c)
  <2>1. pc[c] = "unload" /\ UNCHANGED <<unit, rival, command>>
    BY <1>8 DEF Unload
  <2>2. ASSUME UNCHANGED systemd, Goto(c, "internal") PROVE CInv'
    BY <1>4, <2>1, <2>2 DEF UninstallSteps, Ended
  <2>3. ASSUME reload, NEW next \in {"reset", "internal"}, Goto(c, next) PROVE CInv'
    <3>1. NothingLeft' /\ file' = file
      BY <1>0, <2>1, <2>3 DEF reload, NothingLeft, Off, service, files, command
    <3>2. pc'[c] = next
      BY <1>0, <2>3 DEF Goto, TypeOK
    <3>3. /\ Alone(c) => unit = "none"
          /\ Alone(c) /\ (named[c] # "none" \/ overlapped = {}) => Off
      BY <1>0, <2>1 DEF Uninstalling, UninstallSteps
    <3>4. Alone(c) => Uninstalling(c)'
      BY <2>1, <2>3, <3>2, <3>3
      DEF reload, Uninstalling, UninstallSteps, Off, service, command
    <3> QED BY <1>1, <2>1, <2>3, <3>1, <3>4 DEF UninstallSteps, Ended, command
  <2> QED BY <1>8, <2>2, <2>3 DEF Unload, Calls
\* From here on the files alone are left.
<1>9. ASSUME pc[c] \in {"reset", "lstat", "rmsock", "lstatlock", "rmlock"},
             UNCHANGED <<unit, loaded, enabled, service, rival, command>>,
             \A s \in Sockets : file'[s] = file[s] \/ file'[s] = "missing",
             NEW next \in {"lstat", "rmsock", "lstatlock", "rmlock"} \cup Ended, Goto(c, next),
             pc[c] = "reset" /\ next \notin Ended => named[c] # "none",
             (next \in {"lstatlock", "rmlock"} /\ Alone(c) /\ named[c] \in Sockets)
                 => file'[named[c]] \notin {"service", "stale"}
      PROVE  CInv'
  <2>1. NothingLeft' /\ \A s \in Sockets : file'[s] = "rival" => file[s] = "rival"
    BY <1>0, <1>9 DEF NothingLeft, Off, service, command
  <2>2. pc'[c] = next /\ named[c] \in Sockets \cup {"none"}
    BY <1>0, <1>9 DEF Goto, TypeOK
  <2>3. Alone(c) => /\ unit = "none" /\ loaded = "none"
                    /\ pc[c] # "reset" => named[c] # "none"
                    /\ named[c] # "none" \/ overlapped = {} => Off
    BY <1>0, <1>9 DEF Uninstalling, UninstallSteps
  <2>4. Alone(c) /\ next \notin Ended => Uninstalling(c)'
    BY <1>9, <2>2, <2>3 DEF Uninstalling, UninstallSteps, Off, service, command
  <2> QED BY <1>1, <1>9, <2>1, <2>4 DEF UninstallSteps, command
<1>10. CASE ResetFailed(c)
  BY <1>9, <1>10 DEF ResetFailed, systemd, files, Ended
<1>11. CASE CheckSocket(c)
  BY <1>9, <1>11 DEF CheckSocket, systemd, files, Ended
<1>12. CASE RemoveSocket(c)
  <2>1. \/ /\ \A s \in Sockets : file'[s] = IF s = named[c] THEN "missing" ELSE file[s]
           /\ Goto(c, "lstatlock")
        \/ file' = file /\ Goto(c, "socket")
    BY <1>0, <1>12 DEF RemoveSocket, TypeOK
  <2> QED BY <1>9, <1>12, <2>1 DEF RemoveSocket, Ended
<1>13. CASE CheckLock(c) \/ RemoveLock(c)
  <2>1. pc[c] \in {"lstatlock", "rmlock"} /\ file' = file
        /\ UNCHANGED <<unit, loaded, enabled, service, rival, command>>
    BY <1>13 DEF CheckLock, RemoveLock, systemd, files
  <2>2. Alone(c) => file[named[c]] \notin {"service", "stale"}
    BY <1>0, <2>1 DEF Uninstalling
  <2> QED BY <1>9, <1>13, <2>1, <2>2 DEF CheckLock, RemoveLock, Ended
<1> QED BY <1>3, <1>5, <1>6, <1>7, <1>8, <1>10, <1>11, <1>12, <1>13 DEF Uninstall

\* Every step keeps the invariant.
LEMMA AloneNext == CInv /\ IInv' /\ [Next]_vars => CInv'
<1> SUFFICES ASSUME CInv, IInv', [Next]_vars PROVE CInv'
  OBVIOUS
<1>1. CASE UNCHANGED vars
  <2>1. RivalKnown' /\ UNCHANGED <<unit, loaded, enabled, proc, ran, waiting, file, pc, command>>
    BY <1>1 DEF vars, systemd, service, files, CInv, RivalKnown
  <2> QED BY <2>1, AloneKept DEF Off
<1>2. ASSUME NEW c \in Commands, Interrupt(c) PROVE CInv'
  <2>1. NothingLeft' /\ file' = file /\ UNCHANGED <<rival, goal, named, overlapped>>
    BY <1>2 DEF Interrupt, CInv, NothingLeft, Off, systemd, service, files, command
  <2> QED BY <1>2, <2>1, AloneStep DEF Interrupt, Ended, InstallSteps, UninstallSteps
<1> QED BY <1>1, <1>2, AloneService, AloneReboot, AloneInstall, AloneUninstall DEF Next

LEMMA AloneInvariant == Spec => []CInv
<1> QED BY Invariant, AloneInit, AloneNext, PTL DEF Spec

\* What ends a command with success: an install that has seen the socket, or an
\* uninstall that had none to look for or has got through with the lock file.
LEMMA Successes ==
  ASSUME TypeOK, [Next]_vars, NEW c \in Commands, Finishes(c)
  PROVE  Inspect(c) \/ ResetFailed(c) \/ CheckLock(c) \/ RemoveLock(c)
<1>1. ASSUME NEW d \in Commands, NEW next, Goto(d, next) PROVE d = c /\ next = "ok"
  BY <1>1 DEF Goto, Finishes, TypeOK
<1>2. pc' # pc
  BY DEF Finishes
<1>3. ~Reboot
  BY DEF Reboot, Finishes
<1>4. PICK d \in Commands : Install(d) \/ Uninstall(d) \/ Interrupt(d)
  BY <1>2, <1>3 DEF Next, vars, ListenerLocks, ListenerBinds, ListenerDies, AutoRestart,
     RivalLocks, RivalBinds, RivalStops
<1>5. CASE Install(d)
  <2>1. ~BeginInstall(d) /\ ~ReadUnit(d) /\ ~WriteUnit(d)
    BY <1>1 DEF BeginInstall, Begin, ReadUnit, WriteUnit
  <2>2. ~DaemonReload(d) /\ ~Enable(d) /\ ~Restart(d) /\ ~IsActive(d)
    BY <1>1 DEF DaemonReload, Enable, Restart, Calls, IsActive
  <2>3. Inspect(d)
    BY <1>5, <2>1, <2>2 DEF Install
  <2> QED BY <1>1, <2>3 DEF Inspect
<1>6. CASE Uninstall(d)
  <2>1. ~BeginUninstall(d) /\ ~ReadName(d) /\ ~Disable(d) /\ ~RemoveUnit(d)
    BY <1>1 DEF BeginUninstall, Begin, ReadName, Disable, RemoveUnit
  <2>2. ~Unload(d) /\ ~CheckSocket(d) /\ ~RemoveSocket(d)
    BY <1>1 DEF Unload, Calls, CheckSocket, RemoveSocket
  <2>3. ResetFailed(d) \/ CheckLock(d) \/ RemoveLock(d)
    BY <1>6, <2>1, <2>2 DEF Uninstall
  <2> QED BY <1>1, <2>3 DEF ResetFailed, CheckLock, RemoveLock
<1>7. CASE Interrupt(d)
  BY <1>1, <1>7 DEF Interrupt
<1> QED BY <1>4, <1>5, <1>6, <1>7

\* An install that reports success and ran alone has registered, enabled and
\* started its own unit, and unless a rival got in its way the socket is up.
THEOREM InstallsHold == Spec => InstallHolds
<1>1. ASSUME CInv, [Next]_vars, NEW c \in Commands,
             Finishes(c), goal[c] # "none", c \notin overlapped
      PROVE  /\ unit' = goal[c] /\ loaded' = goal[c] /\ enabled'
             /\ ran' = goal[c] \/ (proc' = "none" /\ waiting')
             /\ rival = "away" => file'[SocketOf[goal[c]]] = "service"
  <2>1. Inspect(c)
    BY <1>1, Successes DEF CInv, GoalKnown, UninstallSteps, ResetFailed, CheckLock, RemoveLock
  <2>2. Installing(c) /\ pc[c] = "inspect"
    BY <1>1, <2>1 DEF CInv, Inspect, Alone, Running, Ended
  <2>3. UNCHANGED <<unit, loaded, enabled, proc, ran, waiting, file>>
    BY <2>1 DEF Inspect, systemd, service, files
  <2>4. goal[c] \in Configs /\ SocketOf[goal[c]] \in Sockets
    BY <1>1, ServiceManagerAssumption DEF CInv, TypeOK
  <2>5. file[SocketOf[goal[c]]] \in {"service", "rival"}
    BY <1>1, <2>1 DEF Inspect, Goto, Finishes, CInv, TypeOK
  <2>6. rival = "away" => file[SocketOf[goal[c]]] = "service"
    BY <1>1, <2>4, <2>5 DEF CInv, RivalKnown
  <2> QED BY <2>2, <2>3, <2>6 DEF Installing
<1>2. CInv /\ [Next]_vars =>
        [\A c \in Commands :
           (Finishes(c) /\ goal[c] # "none" /\ c \notin overlapped) =>
               /\ unit' = goal[c] /\ loaded' = goal[c] /\ enabled'
               /\ ran' = goal[c] \/ (proc' = "none" /\ waiting')
               /\ rival = "away" => file'[SocketOf[goal[c]]] = "service"]_vars
  BY <1>1
<1> QED BY AloneInvariant, <1>2, PTL DEF Spec, InstallHolds

\* An uninstall that found the unit, ran alone and reports success leaves nothing
\* of the service: no unit, no process, no restart, no socket and no lock file.
THEOREM UninstallsHold == Spec => UninstallHolds
<1>1. ASSUME CInv, [Next]_vars, NEW c \in Commands,
             Finishes(c), named[c] # "none", c \notin overlapped
      PROVE  /\ unit' = "none" /\ loaded' = "none" /\ ~enabled'
             /\ proc' = "none" /\ ~waiting'
             /\ file'[named[c]] \notin {"service", "stale"}
             /\ lock'[named[c]] \notin {"service", "free"}
  <2>1. CheckLock(c) \/ RemoveLock(c)
    <3>1. ~ResetFailed(c)
      BY <1>1 DEF ResetFailed, Goto, Finishes, CInv, TypeOK
    <3> QED BY <1>1, <3>1, Successes DEF CInv, GoalKnown, InstallSteps, Inspect
  <2>2. Uninstalling(c) /\ pc[c] \in {"lstatlock", "rmlock"}
    BY <1>1, <2>1 DEF CInv, CheckLock, RemoveLock, Alone, Running, Ended
  <2>3. UNCHANGED <<unit, loaded, enabled, proc, ran, waiting, file>>
    BY <2>1 DEF CheckLock, RemoveLock, systemd, service, files
  <2>4. named[c] \in Sockets
    BY <1>1 DEF CInv, TypeOK
  <2>5. lock'[named[c]] = "none"
    BY <1>1, <2>1, <2>4 DEF CheckLock, RemoveLock, Goto, Finishes, systemd, files, CInv, TypeOK
  <2> QED BY <1>1, <2>2, <2>3, <2>5 DEF Uninstalling, UninstallSteps, Off
<1>2. CInv /\ [Next]_vars =>
        [\A c \in Commands :
           (Finishes(c) /\ named[c] # "none" /\ c \notin overlapped) =>
               /\ unit' = "none" /\ loaded' = "none" /\ ~enabled'
               /\ proc' = "none" /\ ~waiting'
               /\ file'[named[c]] \notin {"service", "stale"}
               /\ lock'[named[c]] \notin {"service", "free"}]_vars
  BY <1>1
<1> QED BY AloneInvariant, <1>2, PTL DEF Spec, UninstallHolds

\* An uninstall that finds no unit file, after one that failed half-way, reports
\* success only when the service is off and systemd knows nothing of it.
THEOREM RetriesHold == Spec => RetryHolds
<1>1. ASSUME CInv, [Next]_vars, NEW c \in Commands,
             Finishes(c), goal[c] = "none", named[c] = "none", overlapped = {}
      PROVE  /\ unit' = "none" /\ loaded' = "none" /\ ~enabled'
             /\ proc' = "none" /\ ~waiting'
  <2>1. ResetFailed(c) \/ CheckLock(c) \/ RemoveLock(c)
    BY <1>1, Successes DEF CInv, GoalKnown, InstallSteps, Inspect
  <2>2. Uninstalling(c) /\ pc[c] \in {"reset", "lstatlock", "rmlock"}
    BY <1>1, <2>1 DEF CInv, ResetFailed, CheckLock, RemoveLock, Alone, Running, Ended
  <2>3. UNCHANGED <<unit, loaded, enabled, proc, ran, waiting>>
    BY <2>1 DEF ResetFailed, CheckLock, RemoveLock, systemd, service
  <2> QED BY <1>1, <2>2, <2>3 DEF Uninstalling, UninstallSteps, Off
<1>2. CInv /\ [Next]_vars =>
        [\A c \in Commands :
           (Finishes(c) /\ goal[c] = "none" /\ named[c] = "none" /\ overlapped = {}) =>
               /\ unit' = "none" /\ loaded' = "none" /\ ~enabled'
               /\ proc' = "none" /\ ~waiting']_vars
  BY <1>1
<1> QED BY AloneInvariant, <1>2, PTL DEF Spec, RetryHolds
=============================================================================
