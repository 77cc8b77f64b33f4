--------------------------- MODULE ServiceManager ---------------------------
(***************************************************************************)
(* service install and service uninstall for one unit name. A command goes *)
(* through the unit file, systemctl and the files at the socket path, one  *)
(* step at a time; beside it run other commands, the listener that systemd *)
(* starts and restarts, and one listener started by hand (the rival). What *)
(* listeners do with the two files is coarse here and exact in UnixSocket. *)
(***************************************************************************)
EXTENDS Naturals

CONSTANTS
    Commands,      \* runs of install and uninstall
    Configs,       \* what an install may render
    Sockets,       \* socket paths
    SocketOf,      \* the socket path in a configuration
    RivalSocket,   \* the path the rival listens on
    MaxFaults,     \* deaths of the listener and reboots (bound)
    DialsFail      \* the dial of a live socket may fail: its backlog is full

ASSUME ServiceManagerAssumption ==
    /\ "none" \notin Configs /\ "none" \notin Sockets
    /\ SocketOf \in [Configs -> Sockets]
    /\ RivalSocket \in Sockets
    /\ MaxFaults \in Nat
    /\ DialsFail \in BOOLEAN

VARIABLES
    unit,         \* the configuration in the unit file, or "none"
    loaded,       \* the configuration systemd has read
    enabled,      \* the link in default.target.wants
    proc,         \* the listener systemd runs
    ran,          \* the configuration it was started with
    waiting,      \* systemd will start it again after RestartSec
    file,         \* per socket path: what is there
    lock,         \* per socket path: its lock file, and who has locked it
    rival,        \* the listener started by hand
    pc,           \* per command: its next step, or how it ended
    goal,         \* per command: the configuration it installs, "none" to uninstall
    force,        \* per command: --force
    named,        \* per command: the socket an uninstall found in the unit file
    overlapped,   \* commands that ran at the same time as another one
    faults

service == <<proc, ran, waiting>>
files   == <<file, lock>>
systemd == <<loaded, enabled, service, files>>
command == <<goal, force, named, overlapped>>
vars    == <<unit, systemd, rival, pc, command, faults>>

Ended == {"ok", "already", "socket", "internal", "timeout", "diagnostic", "killed"}

Running(c) == pc[c] \notin Ended \cup {"idle"}

\* After a boot, with nothing installed or with a service installed earlier.
Init ==
    /\ unit \in Configs \cup {"none"}
    /\ loaded = unit /\ enabled = (unit # "none")
    /\ proc = IF unit = "none" THEN "none" ELSE "starting"
    /\ ran = unit /\ waiting = FALSE
    /\ file = [s \in Sockets |-> "missing"]
    /\ lock = [s \in Sockets |-> "none"]
    /\ rival = "away"
    /\ pc = [c \in Commands |-> "idle"]
    /\ goal = [c \in Commands |-> "none"]
    /\ force = [c \in Commands |-> FALSE]
    /\ named = [c \in Commands |-> "none"]
    /\ overlapped = {}
    /\ faults = 0

Goto(c, next) == pc' = [pc EXCEPT ![c] = next]

-----------------------------------------------------------------------------
(* The listener of the service, and systemd (Type=simple,                   *)
(* Restart=on-failure).                                                     *)

\* What a listener that goes away leaves: a clean end removes both names, a
\* kill leaves them behind, if it got as far as to have them.
Leaves(how) ==
    IF proc \in {"locked", "live"} THEN
        LET s == SocketOf[ran] IN
        /\ file' = [file EXCEPT ![s] =
               IF how = "clean" THEN "missing" ELSE IF @ = "service" THEN "stale" ELSE @]
        /\ lock' = [lock EXCEPT ![s] =
               IF how = "clean" THEN "none" ELSE IF @ = "service" THEN "free" ELSE @]
    ELSE UNCHANGED files

Exits(how, again) ==
    /\ Leaves(how)
    /\ proc' = "none" /\ ran' = "none"
    /\ waiting' = again

Starts(config) ==
    /\ proc' = "starting" /\ ran' = config
    /\ waiting' = FALSE

\* The probe of a waiting install holds the lock for a moment.
Probed(s) == \E c \in Commands : pc[c] = "inspect" /\ SocketOf[goal[c]] = s /\ file[s] = "stale"

ListenerLocks ==
    /\ proc = "starting"
    /\ \/ /\ lock[SocketOf[ran]] \in {"none", "free"}
          /\ proc' = "locked"
          /\ lock' = [lock EXCEPT ![SocketOf[ran]] = "service"]
          /\ UNCHANGED <<ran, waiting, file>>
       \/ /\ lock[SocketOf[ran]] \in {"service", "rival"} \/ Probed(SocketOf[ran])
          /\ Exits("clean", TRUE)
    /\ UNCHANGED <<unit, loaded, enabled, rival, pc, command, faults>>

\* The variant binds without removing a stale socket first.
ListenerBindsToFreePath ==
    /\ proc = "locked"
    /\ \/ /\ file[SocketOf[ran]] = "missing"
          /\ proc' = "live"
          /\ file' = [file EXCEPT ![SocketOf[ran]] = "service"]
          /\ UNCHANGED <<ran, waiting, lock>>
       \/ /\ file[SocketOf[ran]] # "missing"
          /\ Exits("killed", TRUE)
    /\ UNCHANGED <<unit, loaded, enabled, rival, pc, command, faults>>

ListenerBinds ==
    /\ proc = "locked"
    /\ \/ /\ file[SocketOf[ran]] # "rival"
          /\ proc' = "live"
          /\ file' = [file EXCEPT ![SocketOf[ran]] = "service"]
          /\ UNCHANGED <<ran, waiting, lock>>
       \/ /\ file[SocketOf[ran]] = "rival"
          /\ Exits("clean", TRUE)
    /\ UNCHANGED <<unit, loaded, enabled, rival, pc, command, faults>>

\* An error of its own, or a kill: a failure for systemd.
ListenerDies ==
    /\ proc # "none"
    /\ faults < MaxFaults
    /\ faults' = faults + 1
    /\ \E how \in {"clean", "killed"} : Exits(how, TRUE)
    /\ UNCHANGED <<unit, loaded, enabled, rival, pc, command>>

AutoRestart ==
    /\ waiting
    /\ IF loaded # "none" THEN Starts(loaded)
       ELSE waiting' = FALSE /\ UNCHANGED <<proc, ran>>
    /\ UNCHANGED <<unit, loaded, enabled, files, rival, pc, command, faults>>

\* wsl --shutdown: commands and listeners are killed, %t is empty afterwards,
\* and systemd starts what is enabled.
Reboot ==
    /\ faults < MaxFaults
    /\ faults' = faults + 1
    /\ pc' = [c \in Commands |-> IF Running(c) THEN "killed" ELSE pc[c]]
    /\ file' = [s \in Sockets |-> "missing"]
    /\ lock' = [s \in Sockets |-> "none"]
    /\ rival' = IF rival = "away" THEN "away" ELSE "gone"
    /\ loaded' = unit
    /\ IF enabled /\ unit # "none" THEN Starts(unit)
       ELSE proc' = "none" /\ ran' = "none" /\ waiting' = FALSE
    /\ UNCHANGED <<unit, enabled, command>>

-----------------------------------------------------------------------------
(* The rival: the same unix-listen, started by the user.                    *)

RivalLocks ==
    /\ rival = "away"
    /\ IF lock[RivalSocket] \in {"none", "free"}
       THEN lock' = [lock EXCEPT ![RivalSocket] = "rival"] /\ rival' = "locked"
       ELSE rival' = "gone" /\ UNCHANGED lock
    /\ UNCHANGED <<unit, loaded, enabled, service, file, pc, command, faults>>

RivalEnds ==
    /\ rival' = "gone"
    /\ file' = [file EXCEPT ![RivalSocket] = "missing"]
    /\ lock' = [lock EXCEPT ![RivalSocket] = "none"]

RivalBinds ==
    /\ rival = "locked"
    /\ IF file[RivalSocket] = "service" THEN RivalEnds
       ELSE /\ rival' = "live"
            /\ file' = [file EXCEPT ![RivalSocket] = "rival"]
            /\ UNCHANGED lock
    /\ UNCHANGED <<unit, loaded, enabled, service, pc, command, faults>>

RivalStops ==
    /\ rival = "live"
    /\ RivalEnds
    /\ UNCHANGED <<unit, loaded, enabled, service, pc, command, faults>>

-----------------------------------------------------------------------------
(* systemctl. A call may fail before systemd has acted, or after.           *)

Calls(c, next, effect) ==
    \/ effect /\ Goto(c, next)
    \/ effect /\ Goto(c, "internal")
    \/ UNCHANGED systemd /\ Goto(c, "internal")

reload == loaded' = unit /\ UNCHANGED <<enabled, service, files>>

enable ==
    /\ unit # "none"
    /\ enabled' = TRUE
    /\ loaded' = unit
    /\ UNCHANGED <<service, files>>

\* A unit systemd has not read yet is read from its file.
restart ==
    LET target == IF loaded = "none" THEN unit ELSE loaded IN
    /\ target # "none"
    /\ loaded' = target
    /\ \E how \in {"clean", "killed"} : Leaves(how)
    /\ Starts(target)
    /\ UNCHANGED enabled

stopNow == \E how \in {"clean", "killed"} : Exits(how, FALSE)

disable == enabled' = FALSE /\ loaded' = unit

-----------------------------------------------------------------------------
(* service install.                                                         *)

Begin(c, config, forced, first) ==
    /\ pc[c] = "idle"
    /\ Goto(c, first)
    /\ goal' = [goal EXCEPT ![c] = config]
    /\ force' = [force EXCEPT ![c] = forced]
    /\ overlapped' = LET others == {d \in Commands : Running(d)} IN
                     IF others = {} THEN overlapped ELSE overlapped \cup others \cup {c}
    /\ UNCHANGED <<unit, systemd, rival, named, faults>>

BeginInstall(c) ==
    \E config \in Configs, forced \in BOOLEAN : Begin(c, config, forced, "read")

\* The variant does not compare the unit file with its own.
ReadUnitBlindly(c) ==
    /\ pc[c] = "read"
    /\ Goto(c, "write")
    /\ UNCHANGED <<unit, systemd, rival, command, faults>>

ReadUnit(c) ==
    /\ pc[c] = "read"
    /\ \/ unit \in {"none", goal[c]} /\ Goto(c, "write")
       \/ force[c] /\ Goto(c, "write")
       \/ unit \notin {"none", goal[c]} /\ ~force[c] /\ Goto(c, "already")
       \/ Goto(c, "socket")
    /\ UNCHANGED <<unit, systemd, rival, command, faults>>

\* writeFileAtomic: a failure leaves the old file.
WriteUnit(c) ==
    /\ pc[c] = "write"
    /\ \/ unit' = goal[c] /\ Goto(c, "reload")
       \/ Goto(c, "socket") /\ UNCHANGED unit
    /\ UNCHANGED <<systemd, rival, command, faults>>

DaemonReload(c) ==
    /\ pc[c] = "reload"
    /\ Calls(c, "enable", reload)
    /\ UNCHANGED <<unit, rival, command, faults>>

\* The variant goes on when systemctl fails.
EnableOrNot(c) ==
    /\ pc[c] = "enable"
    /\ \/ enable /\ Goto(c, "restart")
       \/ UNCHANGED systemd /\ Goto(c, "restart")
    /\ UNCHANGED <<unit, rival, command, faults>>

Enable(c) ==
    /\ pc[c] = "enable"
    /\ Calls(c, "restart", enable)
    /\ UNCHANGED <<unit, rival, command, faults>>

Restart(c) ==
    /\ pc[c] = "restart"
    /\ Calls(c, "active", restart)
    /\ UNCHANGED <<unit, rival, command, faults>>

\* waitForService: is-active first, then the probe, then the deadline.
IsActive(c) ==
    /\ pc[c] = "active"
    /\ \/ proc # "none" /\ Goto(c, "inspect")
       \/ proc = "none" /\ Goto(c, "timeout")
    /\ UNCHANGED <<unit, systemd, rival, command, faults>>

Inspect(c) ==
    /\ pc[c] = "inspect"
    /\ \/ file[SocketOf[goal[c]]] \in {"service", "rival"} /\ Goto(c, "ok")
       \/ file[SocketOf[goal[c]]] \notin {"service", "rival"}
          /\ \E next \in {"active", "diagnostic"} : Goto(c, next)
    /\ UNCHANGED <<unit, systemd, rival, command, faults>>

-----------------------------------------------------------------------------
(* service uninstall.                                                       *)

BeginUninstall(c) == Begin(c, "none", FALSE, "name")

ReadName(c) ==
    /\ pc[c] = "name"
    /\ named' = [named EXCEPT ![c] = IF unit = "none" THEN "none" ELSE SocketOf[unit]]
    /\ Goto(c, "disable")
    /\ UNCHANGED <<unit, systemd, rival, goal, force, overlapped, faults>>

\* The variant disables the unit without --now.
DisableOnly(c) ==
    /\ pc[c] = "disable"
    /\ disable
    /\ Goto(c, "remove")
    /\ UNCHANGED <<unit, service, files, rival, command, faults>>

\* The variant goes on when systemctl has failed.
DisableAnyway(c) ==
    /\ pc[c] = "disable"
    /\ (disable /\ stopNow) \/ UNCHANGED systemd
    /\ Goto(c, "remove")
    /\ UNCHANGED <<unit, rival, command, faults>>

\* disable --now. "Does not exist" counts as success, and then systemctl may
\* not have come to stop the service; a failure may come between the two.
Disable(c) ==
    /\ pc[c] = "disable"
    /\ \/ disable /\ stopNow /\ \E next \in {"remove", "internal"} : Goto(c, next)
       \/ unit = "none" /\ UNCHANGED systemd /\ Goto(c, "remove")
       \/ disable /\ UNCHANGED <<service, files>> /\ Goto(c, "internal")
       \/ UNCHANGED systemd /\ Goto(c, "internal")
    /\ UNCHANGED <<unit, rival, command, faults>>

RemoveUnit(c) ==
    /\ pc[c] = "remove"
    /\ \/ unit' = "none" /\ Goto(c, "unload")
       \/ Goto(c, "socket") /\ UNCHANGED unit
    /\ UNCHANGED <<systemd, rival, command, faults>>

Unload(c) ==
    /\ pc[c] = "unload"
    /\ Calls(c, "reset", reload)
    /\ UNCHANGED <<unit, rival, command, faults>>

ResetFailed(c) ==
    /\ pc[c] = "reset"
    /\ \E next \in {IF named[c] = "none" THEN "ok" ELSE "lstat", "internal"} : Goto(c, next)
    /\ UNCHANGED <<unit, systemd, rival, command, faults>>

\* removeOwnedServiceFiles, for the socket: Lstat and dial, each of which may
\* fail; a live socket whose dial fails is taken for stale, ...
CheckSocket(c) ==
    /\ pc[c] = "lstat"
    /\ \/ file[named[c]] = "missing" /\ Goto(c, "lstatlock")
       \/ file[named[c]] = "stale" /\ Goto(c, "rmsock")
       \/ file[named[c]] \in {"service", "rival"} /\ DialsFail /\ Goto(c, "rmsock")
       \/ Goto(c, "socket")
    /\ UNCHANGED <<unit, systemd, rival, command, faults>>

\* ... then Remove, which may fail too.
RemoveSocket(c) ==
    /\ pc[c] = "rmsock"
    /\ \/ /\ file[named[c]] # "missing"
          /\ file' = [file EXCEPT ![named[c]] = "missing"]
          /\ Goto(c, "lstatlock")
       \/ Goto(c, "socket") /\ UNCHANGED file
    /\ UNCHANGED <<unit, loaded, enabled, service, lock, rival, command, faults>>

\* The same for the lock file, whoever has locked it.
CheckLock(c) ==
    /\ pc[c] = "lstatlock"
    /\ \/ Goto(c, IF lock[named[c]] = "none" THEN "ok" ELSE "rmlock")
       \/ Goto(c, "socket")
    /\ UNCHANGED <<unit, systemd, rival, command, faults>>

RemoveLock(c) ==
    /\ pc[c] = "rmlock"
    /\ \/ /\ lock[named[c]] # "none"
          /\ lock' = [lock EXCEPT ![named[c]] = "none"]
          /\ Goto(c, "ok")
       \/ Goto(c, "socket") /\ UNCHANGED lock
    /\ UNCHANGED <<unit, loaded, enabled, service, file, rival, command, faults>>

\* The user interrupts the command.
Interrupt(c) ==
    /\ Running(c)
    /\ Goto(c, "killed")
    /\ UNCHANGED <<unit, systemd, rival, command, faults>>

-----------------------------------------------------------------------------
Install(c) ==
    \/ BeginInstall(c) \/ ReadUnit(c) \/ WriteUnit(c) \/ DaemonReload(c)
    \/ Enable(c) \/ Restart(c) \/ IsActive(c) \/ Inspect(c)

Uninstall(c) ==
    \/ BeginUninstall(c) \/ ReadName(c) \/ Disable(c) \/ RemoveUnit(c) \/ Unload(c)
    \/ ResetFailed(c) \/ CheckSocket(c) \/ RemoveSocket(c) \/ CheckLock(c) \/ RemoveLock(c)

Next ==
    \/ ListenerLocks \/ ListenerBinds \/ ListenerDies \/ AutoRestart \/ Reboot
    \/ RivalLocks \/ RivalBinds \/ RivalStops
    \/ \E c \in Commands : Install(c) \/ Uninstall(c) \/ Interrupt(c)

\* systemd keeps its timer, and a listener that is started gets on.
Fairness ==
    /\ WF_vars(ListenerLocks) /\ WF_vars(ListenerBinds) /\ WF_vars(AutoRestart)

Spec == Init /\ [][Next]_vars
FairSpec == Spec /\ Fairness

-----------------------------------------------------------------------------
(* Properties.                                                              *)

Steps == {"idle", "read", "write", "reload", "enable", "restart", "active", "inspect",
          "name", "disable", "remove", "unload", "reset", "lstat", "rmsock",
          "lstatlock", "rmlock"}

\* Types, and who is recorded at a path is there: the service's socket and its
\* lock belong to the process systemd runs now.
TypeOK ==
    /\ unit \in Configs \cup {"none"} /\ loaded \in Configs \cup {"none"}
    /\ enabled \in BOOLEAN /\ waiting \in BOOLEAN
    /\ proc \in {"none", "starting", "locked", "live"}
    /\ ran \in Configs \cup {"none"}
    /\ (ran = "none") <=> (proc = "none")
    /\ proc # "none" => ~waiting
    /\ file \in [Sockets -> {"missing", "stale", "service", "rival"}]
    /\ lock \in [Sockets -> {"none", "free", "service", "rival"}]
    /\ \A s \in Sockets : /\ file[s] = "service" => proc = "live" /\ SocketOf[ran] = s
                          /\ lock[s] = "service" => proc \in {"locked", "live"} /\ SocketOf[ran] = s
    /\ rival \in {"away", "locked", "live", "gone"}
    /\ pc \in [Commands -> Steps \cup Ended]
    /\ goal \in [Commands -> Configs \cup {"none"}]
    /\ force \in [Commands -> BOOLEAN]
    /\ named \in [Commands -> Sockets \cup {"none"}]
    /\ overlapped \subseteq Commands
    /\ faults \in 0..MaxFaults

Finishes(c) == pc[c] # "ok" /\ pc'[c] = "ok"

\* "The user service is registered, enabled and started" (AC-01): an install that
\* reports success and ran alone has put its own unit into the file, into
\* systemd and into the running process, whatever earlier commands left half
\* done, and while the listener dies and comes back.
InstallHolds ==
    [][\A c \in Commands :
           (Finishes(c) /\ goal[c] # "none" /\ c \notin overlapped) =>
               /\ unit' = goal[c] /\ loaded' = goal[c] /\ enabled'
               /\ ran' = goal[c] \/ (proc' = "none" /\ waiting')
               /\ rival = "away" => file'[SocketOf[goal[c]]] = "service"]_vars

\* "The service is stopped, disabled and deleted" (AC-06): an uninstall that
\* found the unit file, ran alone and reports success leaves no unit, no
\* process, no restart and none of the service's files at the socket path.
UninstallHolds ==
    [][\A c \in Commands :
           (Finishes(c) /\ named[c] # "none" /\ c \notin overlapped) =>
               /\ unit' = "none" /\ loaded' = "none" /\ ~enabled'
               /\ proc' = "none" /\ ~waiting'
               /\ file'[named[c]] \notin {"service", "stale"}
               /\ lock'[named[c]] \notin {"service", "free"}]_vars

\* An uninstall that finds no unit file, because an earlier one failed or was
\* interrupted after it had removed it, reports success only when nothing of the
\* service runs, is enabled or is known to systemd. It no longer knows the socket,
\* so a stale one may stay.
RetryHolds ==
    [][\A c \in Commands :
           (Finishes(c) /\ goal[c] = "none" /\ named[c] = "none" /\ overlapped = {}) =>
               /\ unit' = "none" /\ loaded' = "none" /\ ~enabled'
               /\ proc' = "none" /\ ~waiting']_vars

\* "A different configuration requires --force" (README), for installs that run
\* alone: a unit is replaced by another one only with --force.
ForceNeeded ==
    [][(unit # "none" /\ unit' \notin {"none", unit}) =>
           \E c \in Commands : pc[c] = "write" /\ pc'[c] # "write"
                               /\ (force[c] \/ c \in overlapped)]_vars

Settled ==
    /\ \A c \in Commands : ~Running(c)
    /\ unit # "none" /\ loaded = unit /\ enabled
    /\ proc # "none" \/ waiting
    /\ rival = "away" /\ overlapped = {}

\* A registered service comes back: after a death of the listener and after a
\* reboot it serves its socket again without the user (AC-02), in spite of the
\* socket and the lock file a killed listener leaves. Commands that overlap, and
\* a rival, may remove the files of a running listener: neither is assumed here.
ComesBack == Settled ~> (~Settled \/ (proc = "live" /\ file[SocketOf[ran]] = "service"))

\* "Only a stale Unix socket owned by the current user may be removed"
\* (requirements): a live listener of the service keeps its socket.
LiveServiceKept ==
    [][\A s \in Sockets : (file[s] = "service" /\ proc' = "live") => file'[s] = "service"]_vars
=============================================================================
