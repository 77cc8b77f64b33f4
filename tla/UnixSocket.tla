----------------------------- MODULE UnixSocket -----------------------------
(***************************************************************************)
(* The files of one socket path: the socket itself and path.lock, handled  *)
(* by listeners (Listen ... Cleanup) and probes (Inspect) that run as      *)
(* processes of their own, one system call at a time. flock locks an       *)
(* inode, the lock file's name may come to mean another one. Programs that *)
(* know nothing of the lock may put files of their own at the path.        *)
(***************************************************************************)
EXTENDS FiniteSets

CONSTANTS
    Listeners,      \* processes that run Listen once (each start is a process)
    Probers,        \* processes that run Inspect once
    InitialPaths,   \* what may be at the socket path before
    Arrivals,       \* what other programs may put at the socket path later
    DialsFail       \* the dial of a live socket may fail: its backlog is full

\* Socket paths and lock inodes are named by the listener that made them.
\* "stale": a socket nobody listens on; "alien": a live socket of another
\* program of the user; "foreign": a socket of another user.
InitialKinds == {"missing", "regular", "foreign", "stale", "alien"}

ASSUME UnixSocketAssumption ==
    /\ InitialPaths \subseteq InitialKinds
    /\ Arrivals \subseteq InitialKinds \ {"missing"}
    /\ DialsFail \in BOOLEAN
    /\ Listeners \cap (Probers \cup InitialKinds \cup {"none", "old", "nobody"}) = {}
    /\ "nobody" \notin Probers

VARIABLES
    path,        \* what the socket path names
    lockPath,    \* the inode that path.lock names
    holder,      \* per inode: who has locked it
    fd,          \* per process: the lock inode it has open
    listening,   \* listeners whose socket accepts connections
    pc,          \* per process: its next system call
    outcome,     \* per listener: what Listen returned
    locked,      \* probers that report locked: true
    looked       \* listeners that have looked at the file of others at the path

vars == <<path, lockPath, holder, fd, listening, pc, outcome, locked, looked>>

Inodes == Listeners \cup {"old"}
Processes == Listeners \cup Probers

IsSocket == path \notin {"missing", "regular"}
Owned == path # "foreign"
Live == path = "alien" \/ path \in listening

\* What a listener must not remove: a regular file or a directory, and a socket of
\* another user.
Others == {"regular", "foreign"}

Init ==
    /\ path \in InitialPaths
    /\ lockPath \in {"none", "old"}
    /\ holder = [i \in Inodes |-> "nobody"]
    /\ fd = [p \in Processes |-> "none"]
    /\ listening = {}
    /\ pc = [p \in Processes |-> IF p \in Listeners THEN "open" ELSE "probe"]
    /\ outcome = [p \in Listeners |-> "none"]
    /\ locked = {} /\ looked = {}

\* What a listener's Lstat shows it of others.
Looks(p) == looked' = IF path \in Others THEN looked \cup {p} ELSE looked

Goto(p, next) == pc' = [pc EXCEPT ![p] = next]
Ends(p, next, result) ==
    /\ Goto(p, next)
    /\ outcome' = [outcome EXCEPT ![p] = result]

-----------------------------------------------------------------------------
(* acquire.                                                                 *)

\* A mode that lets others in, a directory that is not there and cannot be made,
\* is somebody else's or not private, a lock file that does not open: Listen
\* returns before it has touched anything.
Refuse(p) ==
    /\ pc[p] = "open"
    /\ Ends(p, "exited", "refused")
    /\ UNCHANGED <<path, lockPath, holder, fd, listening, locked, looked>>

OpenLock(p) ==
    /\ pc[p] = "open"
    /\ lockPath' = IF lockPath = "none" THEN p ELSE lockPath
    /\ fd' = [fd EXCEPT ![p] = lockPath']
    /\ Goto(p, "flock")
    /\ UNCHANGED <<path, holder, listening, outcome, locked, looked>>

\* The variant takes the lock file's presence in its own hands for the lock.
FlockIgnored(p) ==
    /\ pc[p] = "flock"
    /\ holder' = [holder EXCEPT ![fd[p]] = p]
    /\ Goto(p, "lstat")
    /\ UNCHANGED <<path, lockPath, fd, listening, outcome, locked, looked>>

Flock(p) ==
    /\ pc[p] = "flock"
    /\ \/ /\ holder[fd[p]] = "nobody"
          /\ holder' = [holder EXCEPT ![fd[p]] = p]
          /\ Goto(p, "lstat")
          /\ UNCHANGED <<fd, outcome>>
       \/ /\ holder[fd[p]] # "nobody"
          /\ fd' = [fd EXCEPT ![p] = "none"]
          /\ Ends(p, "exited", "already")
          /\ UNCHANGED holder
    /\ UNCHANGED <<path, lockPath, listening, locked, looked>>

-----------------------------------------------------------------------------
(* prepareSocketPath, then net.Listen and os.Chmod. Every error return runs *)
(* Cleanup.                                                                 *)

\* The variant asks whose the path is, but not what.
LstatOwnerOnly(p) ==
    /\ pc[p] = "lstat"
    /\ \/ path = "missing" /\ Goto(p, "bind") /\ UNCHANGED outcome
       \/ path # "missing" /\ ~Owned /\ Ends(p, "cleanup", "failed")
       \/ path # "missing" /\ Owned /\ Goto(p, "dial") /\ UNCHANGED outcome
    /\ Looks(p)
    /\ UNCHANGED <<path, lockPath, holder, fd, listening, locked>>

Lstat(p) ==
    /\ pc[p] = "lstat"
    /\ \/ path = "missing" /\ Goto(p, "bind") /\ UNCHANGED outcome
       \/ path # "missing" /\ ~(IsSocket /\ Owned) /\ Ends(p, "cleanup", "failed")
       \/ IsSocket /\ Owned /\ Goto(p, "dial") /\ UNCHANGED outcome
    /\ Looks(p)
    /\ UNCHANGED <<path, lockPath, holder, fd, listening, locked>>

\* The variant takes any answer of the kernel for a listener.
DialAnyAnswer(p) ==
    /\ pc[p] = "dial"
    /\ \/ path # "missing" /\ Ends(p, "cleanup", "already")
       \/ path = "missing" /\ Goto(p, "remove") /\ UNCHANGED outcome
    /\ UNCHANGED <<path, lockPath, holder, fd, listening, locked, looked>>

\* A live socket may fail to answer, and is then taken for stale.
Dial(p) ==
    /\ pc[p] = "dial"
    /\ \/ Live /\ Ends(p, "cleanup", "already")
       \/ (~Live \/ DialsFail) /\ Goto(p, "remove") /\ UNCHANGED outcome
    /\ UNCHANGED <<path, lockPath, holder, fd, listening, locked, looked>>

Remove(p) ==
    /\ pc[p] = "remove"
    /\ path' = "missing"
    /\ \/ path # "missing" /\ Goto(p, "bind") /\ UNCHANGED outcome
       \/ path = "missing" /\ Ends(p, "cleanup", "failed")
    /\ UNCHANGED <<lockPath, holder, fd, listening, locked, looked>>

\* Between bind and listen the socket refuses connections.
Bind(p) ==
    /\ pc[p] = "bind"
    /\ \/ path = "missing" /\ path' = p /\ Goto(p, "listen") /\ UNCHANGED outcome
       \/ path # "missing" /\ Ends(p, "cleanup", "failed") /\ UNCHANGED path
    /\ UNCHANGED <<lockPath, holder, fd, listening, locked, looked>>

ListenCall(p) ==
    /\ pc[p] = "listen"
    /\ listening' = listening \cup {p}
    /\ Goto(p, "chmod")
    /\ UNCHANGED <<path, lockPath, holder, fd, outcome, locked, looked>>

Chmod(p) ==
    /\ pc[p] = "chmod"
    /\ \/ path # "missing" /\ Ends(p, "serving", "running")
       \/ path = "missing" /\ Ends(p, "unlink", "failed")
    /\ UNCHANGED <<path, lockPath, holder, fd, listening, locked, looked>>

-----------------------------------------------------------------------------
(* Close and Cleanup.                                                       *)

Stop(p) ==
    /\ pc[p] = "serving"
    /\ Goto(p, "unlink")
    /\ UNCHANGED <<path, lockPath, holder, fd, listening, outcome, locked, looked>>

\* net.UnixListener.Close unlinks the path by its name, then closes the socket.
Unlink(p) ==
    /\ pc[p] = "unlink"
    /\ path' = "missing"
    /\ Goto(p, "close")
    /\ UNCHANGED <<lockPath, holder, fd, listening, outcome, locked, looked>>

CloseSocket(p) ==
    /\ pc[p] = "close"
    /\ listening' = listening \ {p}
    /\ Goto(p, "cleanup")
    /\ UNCHANGED <<path, lockPath, holder, fd, outcome, locked, looked>>

CleanupLstat(p) ==
    /\ pc[p] = "cleanup"
    /\ Goto(p, IF IsSocket /\ Owned THEN "rmsock" ELSE "unlock")
    /\ Looks(p)
    /\ UNCHANGED <<path, lockPath, holder, fd, listening, outcome, locked>>

CleanupRemove(p) ==
    /\ pc[p] = "rmsock"
    /\ path' = "missing"
    /\ Goto(p, "unlock")
    /\ UNCHANGED <<lockPath, holder, fd, listening, outcome, locked, looked>>

Unlock(p) ==
    /\ pc[p] = "unlock"
    /\ holder' = [holder EXCEPT ![fd[p]] = "nobody"]
    /\ fd' = [fd EXCEPT ![p] = "none"]
    /\ Goto(p, "rmlock")
    /\ UNCHANGED <<path, lockPath, listening, outcome, locked, looked>>

\* The variant removes the lock file only when it is the one it created.
RemoveOwnLock(p) ==
    /\ pc[p] = "rmlock"
    /\ lockPath' = IF lockPath = p THEN "none" ELSE lockPath
    /\ Goto(p, "exited")
    /\ UNCHANGED <<path, holder, fd, listening, outcome, locked, looked>>

\* By name, and after the lock is given up.
RemoveLock(p) ==
    /\ pc[p] = "rmlock"
    /\ lockPath' = "none"
    /\ Goto(p, "exited")
    /\ UNCHANGED <<path, holder, fd, listening, outcome, locked, looked>>

\* SIGKILL: the kernel closes the socket and the lock; the names stay.
Crash(p) ==
    /\ pc[p] \notin {"open", "exited"}
    /\ listening' = listening \ {p}
    /\ holder' = [i \in Inodes |-> IF holder[i] = p THEN "nobody" ELSE holder[i]]
    /\ fd' = [fd EXCEPT ![p] = "none"]
    /\ Ends(p, "exited", "crashed")
    /\ UNCHANGED <<path, lockPath, locked, looked>>

-----------------------------------------------------------------------------
(* Inspect.                                                                 *)

\* Lstat and dial: only what is at the path decides whether it goes on.
Probe(q) ==
    /\ pc[q] = "probe"
    /\ Goto(q, IF IsSocket THEN "openlock" ELSE "exited")
    /\ UNCHANGED <<path, lockPath, holder, fd, listening, outcome, locked, looked>>

ProbeOpen(q) ==
    /\ pc[q] = "openlock"
    /\ fd' = [fd EXCEPT ![q] = lockPath]
    /\ Goto(q, IF lockPath = "none" THEN "exited" ELSE "tryflock")
    /\ UNCHANGED <<path, lockPath, holder, listening, outcome, locked, looked>>

ProbeFlock(q) ==
    /\ pc[q] = "tryflock"
    /\ \/ /\ holder[fd[q]] = "nobody"
          /\ holder' = [holder EXCEPT ![fd[q]] = q]
          /\ Goto(q, "release")
          /\ UNCHANGED <<fd, locked>>
       \/ /\ holder[fd[q]] # "nobody"
          /\ locked' = locked \cup {q}
          /\ fd' = [fd EXCEPT ![q] = "none"]
          /\ Goto(q, "exited")
          /\ UNCHANGED holder
    /\ UNCHANGED <<path, lockPath, listening, outcome, looked>>

ProbeRelease(q) ==
    /\ pc[q] = "release"
    /\ holder' = [holder EXCEPT ![fd[q]] = "nobody"]
    /\ fd' = [fd EXCEPT ![q] = "none"]
    /\ Goto(q, "exited")
    /\ UNCHANGED <<path, lockPath, listening, outcome, locked, looked>>

\* The other program stops listening.
AlienStops ==
    /\ path = "alien"
    /\ path' = "stale"
    /\ UNCHANGED <<lockPath, holder, fd, listening, pc, outcome, locked, looked>>

\* Another program takes a path at which nobody answers.
Put ==
    /\ ~Live /\ path \notin Others
    /\ path' \in Arrivals
    /\ looked' = {}
    /\ UNCHANGED <<lockPath, holder, fd, listening, pc, outcome, locked>>

-----------------------------------------------------------------------------
Listener(p) ==
    \/ Refuse(p) \/ OpenLock(p) \/ Flock(p) \/ Lstat(p) \/ Dial(p) \/ Remove(p)
    \/ Bind(p) \/ ListenCall(p) \/ Chmod(p) \/ Stop(p) \/ Unlink(p)
    \/ CloseSocket(p) \/ CleanupLstat(p) \/ CleanupRemove(p)
    \/ Unlock(p) \/ RemoveLock(p) \/ Crash(p)

Prober(q) == Probe(q) \/ ProbeOpen(q) \/ ProbeFlock(q) \/ ProbeRelease(q)

Next ==
    \/ AlienStops \/ Put
    \/ \E p \in Listeners : Listener(p)
    \/ \E q \in Probers : Prober(q)

Spec == Init /\ [][Next]_vars

-----------------------------------------------------------------------------
(* Properties.                                                              *)

\* Types, and whoever holds a lock has its inode open.
TypeOK ==
    /\ path \in InitialKinds \cup Listeners
    /\ lockPath \in Inodes \cup {"none"}
    /\ holder \in [Inodes -> Processes \cup {"nobody"}]
    /\ fd \in [Processes -> Inodes \cup {"none"}]
    /\ \A i \in Inodes : holder[i] # "nobody" => fd[holder[i]] = i
    /\ listening \subseteq Listeners
    /\ pc \in [Processes -> {"open", "flock", "lstat", "dial", "remove", "bind", "listen",
                             "chmod", "serving", "unlink", "close", "cleanup", "rmsock",
                             "unlock", "rmlock", "exited",
                             "probe", "openlock", "tryflock", "release"}]
    /\ outcome \in [Listeners -> {"none", "running", "already", "failed", "refused",
                             "crashed"}]
    /\ locked \subseteq Probers
    /\ looked \subseteq Listeners

Managing(p) == pc[p] \in {"lstat", "dial", "remove", "bind", "listen", "chmod", "serving",
                          "unlink", "close", "cleanup", "rmsock", "unlock"}

\* "A lock file prevents two listeners from managing the same path": between
\* taking the lock and giving it back a listener is alone with the path.
OneManager == \A p, q \in Listeners : Managing(p) /\ Managing(q) => p = q

\* While a listener manages the path it has locked the inode it opened, and
\* nobody else has: two listeners can only be at it together when the lock
\* file's name has changed hands between their opens.
ManagersHoldLock ==
    \A p \in Listeners : Managing(p) => fd[p] \in Inodes /\ holder[fd[p]] = p

\* A serving listener keeps its socket until it is told to stop or dies, whatever
\* other starts, cleanups and probes do at the same time, as long as no lock file
\* was removed while a listener that manages the path had locked it.
ServingSocketKept ==
    [][\A p \in Listeners :
           (/\ path = p /\ pc[p] = "serving" /\ pc'[p] = "serving"
            /\ \A q \in Listeners : Managing(q) => fd[q] = lockPath)
           => path' = p]_vars

\* "It will not delete a regular file or directory at the socket path", nor a
\* socket of another user: a listener that has looked at such a file, in
\* prepareSocketPath or in Cleanup, leaves it alone, and so does every probe. The
\* file is lost only to a listener that looked before it came: between Lstat and
\* Remove of either, or by the unlink by name of Close.
OthersFilesKept ==
    [][(path \in Others /\ path' # path) =>
           \E p \in Listeners \ looked : pc'[p] # pc[p]]_vars

\* Socket and lock cleanup: when every listener has come to its own end, none
\* crashed and one got as far as to manage the path, no socket of theirs is
\* left, and no lock file but one made by a start that was then turned away.
NoResidue ==
    (/\ \A p \in Listeners : pc[p] = "exited" /\ outcome[p] # "crashed"
     /\ \E p \in Listeners : outcome[p] \in {"running", "failed"})
        => /\ path \notin Listeners
           /\ lockPath = "none" \/ \E p \in Listeners : lockPath = p /\ outcome[p] = "already"

\* Listen says "already running" only when someone answers at the path or holds
\* the lock: a crash or a stale socket never keeps the next listener out.
AlreadyHasCause ==
    [][\A p \in Listeners : (outcome[p] # "already" /\ outcome'[p] = "already") =>
           \/ Live
           \/ \E q \in Processes \ {p} : Managing(q) \/ pc[q] = "release"]_vars

\* "Only a stale Unix socket owned by the current user may be removed"
\* (requirements): a live socket of another program stays.
LiveSocketKept == [][path = "alien" => path' \in {"alien", "stale"}]_vars
=============================================================================
