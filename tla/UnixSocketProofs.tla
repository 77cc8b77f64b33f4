-------------------------- MODULE UnixSocketProofs --------------------------
(***************************************************************************)
(* UnixSocket for any number of listeners and probes: types, what flock    *)
(* guarantees, and what becomes of the files of others at the path.        *)
(***************************************************************************)
EXTENDS UnixSocket, TLAPS

ManagingAt == {"lstat", "dial", "remove", "bind", "listen", "chmod", "serving",
               "unlink", "close", "cleanup", "rmsock", "unlock"}

\* A lock is only held by a listener that manages the path or by a probe that
\* is about to give it back.
HoldersBusy ==
    \A i \in Inodes : holder[i] # "nobody" => pc[holder[i]] \in ManagingAt \cup {"release"}

\* Who is about to call flock has a lock file open, and a probe that is about
\* to give the lock back has it.
LockersReady ==
    \A p \in Processes :
        /\ pc[p] \in {"flock", "tryflock"} => fd[p] \in Inodes
        /\ pc[p] = "release" => fd[p] \in Inodes /\ holder[fd[p]] = p

\* Who has looked at a file of others is on its way out.
OthersUntouched ==
    path \in Others =>
        \A p \in looked : pc[p] \in {"cleanup", "unlock", "rmlock", "exited"}

\* A listener that serves accepts connections.
ServingListens ==
    \A p \in Listeners : pc[p] \in {"chmod", "serving", "unlink", "close"} => p \in listening

IInv ==
    /\ TypeOK /\ ManagersHoldLock /\ HoldersBusy /\ LockersReady
    /\ OthersUntouched /\ ServingListens

\* The invariant holds before anybody has opened anything.
LEMMA InvInit == Init => IInv
<1> SUFFICES ASSUME Init PROVE IInv
  OBVIOUS
<1>1. TypeOK
  BY UnixSocketAssumption DEF Init, TypeOK, Inodes, Processes, InitialKinds
<1>2. /\ ManagersHoldLock /\ HoldersBusy /\ LockersReady
      /\ OthersUntouched /\ ServingListens
  BY UnixSocketAssumption
  DEF Init, ManagersHoldLock, Managing, HoldersBusy, LockersReady, OthersUntouched,
      ServingListens, Inodes, Processes
<1> QED BY <1>1, <1>2 DEF IInv

\* No name stands for two things: listeners name inodes and sockets.
LEMMA Names ==
  /\ Listeners \cap Probers = {} /\ Listeners \cap InitialKinds = {}
  /\ "none" \notin Inodes /\ "nobody" \notin Processes
  /\ Others \subseteq InitialKinds /\ "missing" \in InitialKinds /\ "missing" \notin Others
  BY UnixSocketAssumption DEF Inodes, Processes, InitialKinds, Others

\* The steps that leave the lock's inodes and descriptors alone and keep every
\* process where the invariant speaks about it.
LEMMA PathSteps ==
  ASSUME IInv, NEW p \in Listeners,
         Lstat(p) \/ Dial(p) \/ Remove(p) \/ Bind(p) \/ ListenCall(p) \/ Chmod(p)
         \/ Stop(p) \/ Unlink(p) \/ CloseSocket(p) \/ CleanupLstat(p) \/ CleanupRemove(p)
  PROVE  IInv'
<1> USE DEF Goto, Ends
<1>1. /\ p \in Processes
      /\ pc' = [pc EXCEPT ![p] = pc'[p]] /\ pc[p] \in ManagingAt /\ pc'[p] \in ManagingAt
      /\ UNCHANGED <<lockPath, holder, fd, locked>>
  BY DEF IInv, TypeOK, ManagingAt, Processes, Lstat, Dial, Remove, Bind, ListenCall, Chmod, Stop,
         Unlink, CloseSocket, CleanupLstat, CleanupRemove
<1>2. /\ path' \in {path, "missing", p}
      /\ listening' \in {listening, listening \cup {p}, listening \ {p}}
      /\ outcome' = outcome \/ \E o \in {"running", "already", "failed"} :
                                   outcome' = [outcome EXCEPT ![p] = o]
      /\ looked' = looked \/ (looked' = looked \cup {p} /\ pc[p] \in {"lstat", "cleanup"})
  BY DEF Lstat, Dial, Remove, Bind, ListenCall, Chmod, Stop,
         Unlink, CloseSocket, CleanupLstat, CleanupRemove, Looks
<1>3. TypeOK'
  BY <1>1, <1>2 DEF IInv, TypeOK, ManagingAt, InitialKinds
<1>4. ManagersHoldLock'
  <2>1. \A r \in Listeners : pc'[r] = pc[r] \/ r = p
    BY <1>1 DEF IInv, TypeOK, Processes
  <2>2. \A r \in Listeners : pc'[r] \in ManagingAt => pc[r] \in ManagingAt
    BY <1>1, <2>1
  <2> QED BY <1>1, <2>2 DEF IInv, ManagersHoldLock, Managing, ManagingAt
<1>5. HoldersBusy' /\ LockersReady'
  BY <1>1, Names DEF IInv, TypeOK, HoldersBusy, LockersReady, ManagingAt
<1>6. OthersUntouched'
  <2> SUFFICES ASSUME path' \in Others, NEW r \in looked'
               PROVE  pc'[r] \in {"cleanup", "unlock", "rmlock", "exited"}
    BY DEF OthersUntouched
  <2>1. path' = path
    BY <1>2, Names
  <2>2. r \in Listeners /\ (r \in looked \/ r = p)
    BY <1>2 DEF IInv, TypeOK
  <2>3. CASE r # p
    <3>1. pc'[r] = pc[r] /\ r \in looked
      BY <1>1, <2>2, <2>3 DEF IInv, TypeOK, Processes
    <3> QED BY <2>1, <3>1 DEF IInv, OthersUntouched
  <2>4. CASE r = p
    <3>1. pc[p] \in {"lstat", "cleanup"}
      BY <1>1, <1>2, <2>1, <2>4 DEF IInv, OthersUntouched, Lstat, Dial, Remove, Bind, ListenCall,
         Chmod, Stop, Unlink, CloseSocket, CleanupLstat, CleanupRemove
    <3>2. Lstat(p) \/ CleanupLstat(p)
      BY <3>1 DEF Lstat, Dial, Remove, Bind, ListenCall, Chmod, Stop, Unlink, CloseSocket,
         CleanupLstat, CleanupRemove
    <3>3. path # "missing" /\ ~(IsSocket /\ Owned)
      BY <2>1 DEF Others, IsSocket, Owned
    <3> QED BY <1>1, <2>4, <3>2, <3>3 DEF IInv, TypeOK, Lstat, CleanupLstat
  <2> QED BY <2>3, <2>4
<1>7. ServingListens'
  <2> SUFFICES ASSUME NEW r \in Listeners, pc'[r] \in {"chmod", "serving", "unlink", "close"}
               PROVE  r \in listening'
    BY DEF ServingListens
  <2>1. CASE r # p
    <3>1. pc'[r] = pc[r]
      BY <1>1, <2>1 DEF IInv, TypeOK, Processes
    <3> QED BY <1>2, <2>1, <3>1 DEF IInv, ServingListens
  <2>2. CASE r = p
    BY <1>1, <2>2 DEF IInv, TypeOK, ServingListens, Lstat, Dial, Remove, Bind, ListenCall, Chmod,
       Stop, Unlink, CloseSocket, CleanupLstat, CleanupRemove
  <2> QED BY <2>1, <2>2
<1> QED BY <1>3, <1>4, <1>5, <1>6, <1>7 DEF IInv

\* Opening a lock file, and taking its lock or being turned away.
LEMMA AcquireSteps ==
  ASSUME IInv, NEW p \in Listeners, Refuse(p) \/ OpenLock(p) \/ Flock(p)
  PROVE  IInv'
<1> USE DEF Goto, Ends
<1>0. p \in Processes /\ p \in Inodes /\ \A r \in Listeners : r \in Processes
  BY DEF Processes, Inodes
<1>1. CASE OpenLock(p)
  <2>1. \A i \in Inodes : holder[i] # p
    BY <1>0, <1>1, Names DEF IInv, HoldersBusy, OpenLock, ManagingAt
  <2>2. lockPath' \in Inodes
    BY <1>0, <1>1 DEF IInv, TypeOK, OpenLock
  <2>3. /\ fd' = [fd EXCEPT ![p] = lockPath'] /\ pc' = [pc EXCEPT ![p] = "flock"]
        /\ pc[p] = "open" /\ UNCHANGED <<path, holder, listening, outcome, locked, looked>>
    BY <1>1 DEF OpenLock
  <2>4. TypeOK'
    BY <1>0, <2>1, <2>2, <2>3 DEF IInv, TypeOK
  <2>5. ManagersHoldLock'
    BY <1>0, <2>3 DEF IInv, TypeOK, ManagersHoldLock, Managing
  <2>6. HoldersBusy'
    BY <1>0, <2>1, <2>3 DEF IInv, TypeOK, HoldersBusy
  <2>7. LockersReady'
    BY <1>0, <2>2, <2>3 DEF IInv, TypeOK, LockersReady
  <2>8. OthersUntouched' /\ ServingListens'
    BY <1>0, <2>3 DEF IInv, TypeOK, OthersUntouched, ServingListens
  <2> QED BY <2>4, <2>5, <2>6, <2>7, <2>8 DEF IInv
<1>2. CASE Flock(p) /\ holder[fd[p]] = "nobody"
  <2>1. /\ holder' = [holder EXCEPT ![fd[p]] = p] /\ pc' = [pc EXCEPT ![p] = "lstat"]
        /\ pc[p] = "flock" /\ fd[p] \in Inodes
        /\ UNCHANGED <<path, lockPath, fd, listening, outcome, locked, looked>>
    BY <1>0, <1>2 DEF Flock, IInv, LockersReady
  <2>2. \A i \in Inodes : holder[i] # p
    BY <1>0, <2>1, Names DEF IInv, HoldersBusy, ManagingAt
  <2>3. TypeOK'
    BY <1>0, <2>1 DEF IInv, TypeOK
  <2>4. ManagersHoldLock'
    <3>1. \A r \in Listeners : Managing(r)' => r = p \/ Managing(r)
      BY <1>0, <2>1 DEF IInv, TypeOK, Managing
    <3>2. \A r \in Listeners : Managing(r) => holder[fd[r]] = r /\ fd[r] # fd[p]
      BY <1>0, <1>2, Names DEF IInv, ManagersHoldLock
    <3> QED BY <1>0, <2>1, <3>1, <3>2 DEF IInv, TypeOK, ManagersHoldLock
  <2>5. HoldersBusy'
    BY <1>0, <2>1, <2>2 DEF IInv, TypeOK, HoldersBusy, ManagingAt
  <2>6. LockersReady'
    <3>1. \A r \in Processes : pc[r] = "release" => holder[fd[r]] = r /\ fd[r] # fd[p]
      BY <1>2, Names DEF IInv, LockersReady
    <3> QED BY <1>0, <2>1, <3>1 DEF IInv, TypeOK, LockersReady
  <2>7. OthersUntouched' /\ ServingListens'
    BY <1>0, <2>1 DEF IInv, TypeOK, OthersUntouched, ServingListens
  <2> QED BY <2>3, <2>4, <2>5, <2>6, <2>7 DEF IInv
<1>3. CASE Flock(p) /\ holder[fd[p]] # "nobody"
  <2>1. /\ fd' = [fd EXCEPT ![p] = "none"] /\ pc' = [pc EXCEPT ![p] = "exited"]
        /\ outcome' = [outcome EXCEPT ![p] = "already"] /\ pc[p] = "flock"
        /\ UNCHANGED <<path, lockPath, holder, listening, locked, looked>>
    BY <1>3 DEF Flock
  <2>2. \A i \in Inodes : holder[i] # p
    BY <1>0, <2>1, Names DEF IInv, HoldersBusy, ManagingAt
  <2>3. TypeOK'
    BY <1>0, <2>1, <2>2 DEF IInv, TypeOK
  <2>4. ManagersHoldLock'
    BY <1>0, <2>1 DEF IInv, TypeOK, ManagersHoldLock, Managing
  <2>5. HoldersBusy' /\ LockersReady'
    BY <1>0, <2>1, <2>2 DEF IInv, TypeOK, HoldersBusy, LockersReady
  <2>6. OthersUntouched' /\ ServingListens'
    BY <1>0, <2>1 DEF IInv, TypeOK, OthersUntouched, ServingListens
  <2> QED BY <2>3, <2>4, <2>5, <2>6 DEF IInv
<1>4. CASE Refuse(p)
  <2>1. /\ pc' = [pc EXCEPT ![p] = "exited"] /\ outcome' = [outcome EXCEPT ![p] = "refused"]
        /\ pc[p] = "open" /\ UNCHANGED <<path, lockPath, holder, fd, listening, locked, looked>>
    BY <1>4 DEF Refuse
  <2>2. \A i \in Inodes : holder[i] # p
    BY <1>0, <2>1, Names DEF IInv, HoldersBusy, ManagingAt
  <2>3. TypeOK'
    BY <1>0, <2>1 DEF IInv, TypeOK
  <2>4. ManagersHoldLock'
    BY <1>0, <2>1 DEF IInv, TypeOK, ManagersHoldLock, Managing
  <2>5. HoldersBusy' /\ LockersReady'
    BY <1>0, <2>1, <2>2 DEF IInv, TypeOK, HoldersBusy, LockersReady
  <2>6. OthersUntouched' /\ ServingListens'
    BY <1>0, <2>1 DEF IInv, TypeOK, OthersUntouched, ServingListens
  <2> QED BY <2>3, <2>4, <2>5, <2>6 DEF IInv
<1> QED BY <1>1, <1>2, <1>3, <1>4 DEF Flock

\* Giving the lock back, by the program or by the kernel.
LEMMA ReleaseSteps ==
  ASSUME IInv, NEW p \in Listeners, Unlock(p) \/ RemoveLock(p) \/ Crash(p)
  PROVE  IInv'
<1> USE DEF Goto, Ends
<1>0. p \in Processes /\ \A r \in Listeners : r \in Processes
  BY DEF Processes
<1>1. CASE Unlock(p)
  <2>1. /\ holder' = [holder EXCEPT ![fd[p]] = "nobody"] /\ fd' = [fd EXCEPT ![p] = "none"]
        /\ pc' = [pc EXCEPT ![p] = "rmlock"] /\ pc[p] = "unlock"
        /\ UNCHANGED <<path, lockPath, listening, outcome, locked, looked>>
    BY <1>1 DEF Unlock
  <2>2. /\ fd[p] \in Inodes /\ holder[fd[p]] = p
        /\ \A i \in Inodes : holder[i] = p => i = fd[p]
    BY <1>0, <2>1, Names DEF IInv, TypeOK, ManagersHoldLock, Managing
  <2>3. TypeOK'
    BY <1>0, <2>1, <2>2 DEF IInv, TypeOK
  <2>4. ManagersHoldLock'
    <3>1. \A r \in Listeners : Managing(r)' => r # p /\ Managing(r)
      BY <1>0, <2>1 DEF IInv, TypeOK, Managing
    <3>2. \A r \in Listeners : Managing(r) /\ r # p => holder[fd[r]] = r /\ fd[r] # fd[p]
      BY <2>2 DEF IInv, ManagersHoldLock
    <3> QED BY <1>0, <2>1, <3>1, <3>2 DEF IInv, TypeOK, ManagersHoldLock
  <2>5. HoldersBusy' /\ LockersReady'
    BY <1>0, <2>1, <2>2 DEF IInv, TypeOK, HoldersBusy, LockersReady
  <2>6. OthersUntouched' /\ ServingListens'
    BY <1>0, <2>1 DEF IInv, TypeOK, OthersUntouched, ServingListens
  <2> QED BY <2>3, <2>4, <2>5, <2>6 DEF IInv
<1>2. CASE RemoveLock(p)
  <2>1. /\ pc' = [pc EXCEPT ![p] = "exited"] /\ pc[p] = "rmlock" /\ lockPath' = "none"
        /\ UNCHANGED <<path, holder, fd, listening, outcome, locked, looked>>
    BY <1>2 DEF RemoveLock
  <2>2. \A i \in Inodes : holder[i] # p
    BY <1>0, <2>1, Names DEF IInv, HoldersBusy, ManagingAt
  <2>3. /\ TypeOK' /\ ManagersHoldLock' /\ HoldersBusy' /\ LockersReady' /\ OthersUntouched'
        /\ ServingListens'
    BY <1>0, <2>1, <2>2 DEF IInv, TypeOK, ManagersHoldLock, Managing, HoldersBusy,
                            LockersReady, OthersUntouched, ServingListens
  <2> QED BY <2>3 DEF IInv
<1>3. CASE Crash(p)
  <2>1. /\ holder' = [j \in Inodes |-> IF holder[j] = p THEN "nobody" ELSE holder[j]]
        /\ fd' = [fd EXCEPT ![p] = "none"] /\ pc' = [pc EXCEPT ![p] = "exited"]
        /\ outcome' = [outcome EXCEPT ![p] = "crashed"] /\ listening' = listening \ {p}
        /\ UNCHANGED <<path, lockPath, locked, looked>>
    BY <1>3 DEF Crash
  <2>2. TypeOK'
    BY <1>0, <2>1 DEF IInv, TypeOK
  <2>3. ManagersHoldLock'
    <3>1. \A r \in Listeners : Managing(r)' => r # p /\ Managing(r)
      BY <1>0, <2>1 DEF IInv, TypeOK, Managing
    <3> QED BY <1>0, <2>1, <3>1 DEF IInv, TypeOK, ManagersHoldLock
  <2>4. HoldersBusy' /\ LockersReady'
    BY <1>0, <2>1 DEF IInv, TypeOK, HoldersBusy, LockersReady
  <2>5. OthersUntouched' /\ ServingListens'
    BY <1>0, <2>1 DEF IInv, TypeOK, OthersUntouched, ServingListens
  <2> QED BY <2>2, <2>3, <2>4, <2>5 DEF IInv
<1> QED BY <1>1, <1>2, <1>3

\* A probe borrows the lock and gives it back; listeners stay where they are.
LEMMA ProberSteps ==
  ASSUME IInv, NEW q \in Probers, Prober(q)
  PROVE  IInv'
<1> USE DEF Goto
<1>0. /\ q \in Processes /\ \A r \in Listeners : r \in Processes /\ r # q
  BY Names DEF Processes
<1>1. /\ pc' = [pc EXCEPT ![q] = pc'[q]]
      /\ pc'[q] \in {"openlock", "exited", "tryflock", "release"}
      /\ UNCHANGED <<path, lockPath, listening, outcome, looked>>
      /\ locked' \in {locked, locked \cup {q}}
  BY <1>0 DEF IInv, TypeOK, Prober, Probe, ProbeOpen, ProbeFlock, ProbeRelease
<1>2. \A r \in Listeners : pc'[r] = pc[r]
  BY <1>0, <1>1 DEF IInv, TypeOK
<1>3. OthersUntouched' /\ ServingListens'
  BY <1>1, <1>2 DEF IInv, TypeOK, OthersUntouched, ServingListens
<1>4. pc[q] # "release" => \A i \in Inodes : holder[i] = q => pc[q] \in ManagingAt
  BY <1>0, Names DEF IInv, HoldersBusy
<1>5. CASE Probe(q)
  <2>1. UNCHANGED <<fd, holder, locked, looked>> /\ pc[q] = "probe"
    BY <1>5 DEF Probe
  <2>2. pc'[q] \in {"openlock", "exited"}
    BY <1>0, <1>5 DEF Probe, IInv, TypeOK
  <2>3. TypeOK' /\ ManagersHoldLock' /\ HoldersBusy' /\ LockersReady'
    BY <1>0, <1>1, <1>2, <1>4, <2>1, <2>2
    DEF IInv, TypeOK, ManagersHoldLock, Managing, HoldersBusy, LockersReady, ManagingAt
  <2> QED BY <1>3, <2>3 DEF IInv
<1>6. CASE ProbeOpen(q)
  <2>1. /\ fd' = [fd EXCEPT ![q] = lockPath] /\ UNCHANGED <<holder, locked, looked>>
        /\ pc[q] = "openlock"
    BY <1>6 DEF ProbeOpen
  <2>2. pc'[q] \in {"tryflock", "exited"} /\ (pc'[q] = "tryflock" => lockPath \in Inodes)
    BY <1>0, <1>6 DEF ProbeOpen, IInv, TypeOK
  <2>3. TypeOK'
    BY <1>0, <1>1, <1>4, <2>1, <2>2 DEF IInv, TypeOK, ManagingAt
  <2>4. ManagersHoldLock'
    BY <1>0, <1>2, <2>1 DEF IInv, TypeOK, ManagersHoldLock, Managing
  <2>5. HoldersBusy' /\ LockersReady'
    BY <1>0, <1>1, <1>4, <2>1, <2>2 DEF IInv, TypeOK, HoldersBusy, LockersReady, ManagingAt
  <2> QED BY <1>3, <2>3, <2>4, <2>5 DEF IInv
<1>7. CASE ProbeFlock(q) /\ holder[fd[q]] = "nobody"
  <2>1. /\ holder' = [holder EXCEPT ![fd[q]] = q] /\ UNCHANGED <<fd, locked, looked>>
        /\ pc[q] = "tryflock" /\ pc'[q] = "release" /\ fd[q] \in Inodes
    BY <1>0, <1>7 DEF ProbeFlock, IInv, TypeOK, LockersReady
  <2>2. TypeOK'
    BY <1>0, <1>1, <2>1 DEF IInv, TypeOK
  <2>3. ManagersHoldLock'
    <3>1. \A r \in Listeners : Managing(r) => holder[fd[r]] = r /\ fd[r] # fd[q]
      BY <1>0, <1>7, Names DEF IInv, ManagersHoldLock
    <3> QED BY <1>2, <2>1, <3>1 DEF IInv, TypeOK, ManagersHoldLock, Managing
  <2>4. HoldersBusy'
    BY <1>0, <1>1, <1>4, <2>1 DEF IInv, TypeOK, HoldersBusy, ManagingAt
  <2>5. LockersReady'
    <3>1. \A r \in Processes : pc[r] = "release" => holder[fd[r]] = r /\ fd[r] # fd[q]
      BY <1>7, Names DEF IInv, LockersReady
    <3> QED BY <1>0, <1>1, <2>1, <3>1 DEF IInv, TypeOK, LockersReady
  <2> QED BY <1>3, <2>2, <2>3, <2>4, <2>5 DEF IInv
<1>8. CASE ProbeFlock(q) /\ holder[fd[q]] # "nobody"
  <2>1. /\ fd' = [fd EXCEPT ![q] = "none"] /\ UNCHANGED holder
        /\ pc[q] = "tryflock" /\ pc'[q] = "exited"
    BY <1>0, <1>8 DEF ProbeFlock, IInv, TypeOK
  <2>2. TypeOK'
    BY <1>0, <1>1, <1>4, <2>1 DEF IInv, TypeOK, ManagingAt
  <2>3. ManagersHoldLock'
    BY <1>0, <1>2, <2>1 DEF IInv, TypeOK, ManagersHoldLock, Managing
  <2>4. HoldersBusy' /\ LockersReady'
    BY <1>0, <1>1, <1>4, <2>1 DEF IInv, TypeOK, HoldersBusy, LockersReady, ManagingAt
  <2> QED BY <1>3, <2>2, <2>3, <2>4 DEF IInv
<1>9. CASE ProbeRelease(q)
  <2>1. /\ holder' = [holder EXCEPT ![fd[q]] = "nobody"] /\ fd' = [fd EXCEPT ![q] = "none"]
        /\ UNCHANGED locked /\ pc[q] = "release" /\ pc'[q] = "exited"
    BY <1>0, <1>9 DEF ProbeRelease, IInv, TypeOK
  <2>2. /\ fd[q] \in Inodes /\ holder[fd[q]] = q
        /\ \A i \in Inodes : holder[i] = q => i = fd[q]
    BY Names, <1>0, <2>1 DEF IInv, TypeOK, LockersReady
  <2>3. TypeOK'
    BY <1>0, <1>1, <2>1, <2>2 DEF IInv, TypeOK
  <2>4. ManagersHoldLock'
    <3>1. \A r \in Listeners : Managing(r) => holder[fd[r]] = r /\ fd[r] # fd[q]
      BY <1>0, <2>2 DEF IInv, ManagersHoldLock
    <3> QED BY <1>0, <1>2, <2>1, <3>1 DEF IInv, TypeOK, ManagersHoldLock, Managing
  <2>5. HoldersBusy' /\ LockersReady'
    BY <1>0, <1>1, <2>1, <2>2 DEF IInv, TypeOK, HoldersBusy, LockersReady
  <2> QED BY <1>3, <2>3, <2>4, <2>5 DEF IInv
<1> QED BY <1>5, <1>6, <1>7, <1>8, <1>9 DEF Prober, ProbeFlock

\* Every step keeps the invariant.
LEMMA InvNext == IInv /\ [Next]_vars => IInv'
<1> SUFFICES ASSUME IInv, [Next]_vars PROVE IInv'
  OBVIOUS
<1> USE DEF IInv, TypeOK, ManagersHoldLock, Managing, HoldersBusy, LockersReady, OthersUntouched,
            ServingListens
<1>1. CASE UNCHANGED vars
  BY <1>1 DEF vars
<1>2. CASE AlienStops \/ Put
  <2>1. /\ UNCHANGED <<lockPath, holder, fd, listening, pc, outcome, locked>>
        /\ path' \in InitialKinds
        /\ path' \in Others => looked' = {}
        /\ looked' \subseteq looked
    BY <1>2, UnixSocketAssumption DEF AlienStops, Put, InitialKinds, Others
  <2>2. TypeOK'
    BY <2>1
  <2>3. ManagersHoldLock' /\ HoldersBusy' /\ LockersReady' /\ ServingListens'
    BY <2>1
  <2>4. OthersUntouched'
    BY <2>1
  <2> QED BY <2>2, <2>3, <2>4
<1>3. ASSUME NEW p \in Listeners, Listener(p) PROVE IInv'
  <2> HIDE DEF IInv
  <2> QED BY <1>3, AcquireSteps, PathSteps, ReleaseSteps DEF Listener
<1>4. ASSUME NEW q \in Probers, Prober(q) PROVE IInv'
  <2> HIDE DEF IInv
  <2> QED BY <1>4, ProberSteps
<1> QED BY <1>1, <1>2, <1>3, <1>4 DEF Next

\* The invariant holds in every reachable state.
THEOREM Invariant == Spec => []IInv
  BY InvInit, InvNext, PTL DEF Spec

\* Every state is well typed, and whoever holds a lock has its inode open.
THEOREM TypeCorrect == Spec => []TypeOK
<1>1. IInv => TypeOK
  BY DEF IInv
<1> QED BY Invariant, <1>1, PTL

\* For any number of starts and probes, with crashes: a listener that manages
\* the path is the only holder of the lock inode it opened. Two managers, which
\* one replaced lock file is enough to get, therefore hold different inodes.
THEOREM LockIsExclusive == Spec => []ManagersHoldLock
<1>1. IInv => ManagersHoldLock
  BY DEF IInv
<1> QED BY Invariant, <1>1, PTL

\* For any number of starts and probes, whatever other programs put at the path
\* and whenever: a regular file, a directory or another user's socket goes only by
\* a step of a listener that has not looked at it.
THEOREM OthersFilesAreKept == Spec => OthersFilesKept
<1>1. ASSUME IInv, [Next]_vars, path \in Others, path' # path
      PROVE  \E p \in Listeners \ looked : pc'[p] # pc[p]
  <2>1. ~UNCHANGED vars /\ ~AlienStops /\ ~Put
    BY <1>1 DEF vars, AlienStops, Put, Others
  <2>2. ASSUME NEW q \in Probers, Prober(q) PROVE FALSE
    BY <1>1, <2>2 DEF Prober, Probe, ProbeOpen, ProbeFlock, ProbeRelease
  <2>3. PICK p \in Listeners : Listener(p)
    BY <1>1, <2>1, <2>2 DEF Next
  <2>4. Remove(p) \/ Unlink(p) \/ CleanupRemove(p)
    BY <1>1, <2>3 DEF Listener, Refuse, OpenLock, Flock, Lstat, Dial, Bind, ListenCall, Chmod, Stop,
       CloseSocket, CleanupLstat, Unlock, RemoveLock, Crash, Others
  <2>5. pc[p] \in {"remove", "unlink", "rmsock"} /\ pc'[p] # pc[p]
    BY <1>1, <2>4 DEF Remove, Unlink, CleanupRemove, Goto, Ends, IInv, TypeOK, Processes
  <2>6. p \notin looked
    BY <1>1, <2>5 DEF IInv, OthersUntouched
  <2> QED BY <2>5, <2>6
<1>2. IInv /\ [Next]_vars =>
        [(path \in Others /\ path' # path) =>
            \E p \in Listeners \ looked : pc'[p] # pc[p]]_vars
  BY <1>1
<1> QED BY Invariant, <1>2, PTL DEF Spec, OthersFilesKept

\* For any number of starts and probes, a serving listener keeps its socket: who
\* removes what is at the path manages it, and whoever manages it with the same
\* lock file is the listener itself.
THEOREM ServingSocketIsKept == Spec => ServingSocketKept
<1>1. ASSUME IInv, [Next]_vars, NEW p \in Listeners, path = p, pc[p] = "serving",
             pc'[p] = "serving", \A q \in Listeners : Managing(q) => fd[q] = lockPath
      PROVE  path' = p
  <2>0. p \in Processes
    BY DEF Processes
  <2>1. CASE UNCHANGED vars
    BY <1>1, <2>1 DEF vars
  <2>2. CASE AlienStops \/ Put
    <3>1. path # "alien" /\ Live
      BY <1>1, Names DEF InitialKinds, IInv, ServingListens, Live
    <3> QED BY <2>2, <3>1 DEF AlienStops, Put
  <2>3. ASSUME NEW q \in Listeners, Listener(q), Managing(q) PROVE path' = p
    <3>1. q = p
      BY <1>1, <2>3 DEF IInv, ManagersHoldLock, Managing
    <3> QED BY <1>1, <2>0, <2>3, <3>1 DEF IInv, TypeOK, Goto, Ends, Listener, Refuse, OpenLock,
               Flock, Lstat, Dial, Remove, Bind, ListenCall, Chmod, Stop, Unlink, CloseSocket,
               CleanupLstat, CleanupRemove, Unlock, RemoveLock, Crash
  <2>4. ASSUME NEW q \in Listeners, Listener(q), ~Managing(q) PROVE path' = p
    BY <1>1, <2>4 DEF Managing, Listener, Refuse, OpenLock, Flock, Lstat, Dial, Remove, Bind,
       ListenCall, Chmod, Stop, Unlink, CloseSocket, CleanupLstat, CleanupRemove, Unlock,
       RemoveLock, Crash
  <2>5. ASSUME NEW q \in Probers, Prober(q) PROVE path' = p
    BY <1>1, <2>5 DEF Prober, Probe, ProbeOpen, ProbeFlock, ProbeRelease
  <2> QED BY <1>1, <2>1, <2>2, <2>3, <2>4, <2>5 DEF Next
<1>2. IInv /\ [Next]_vars =>
        [\A p \in Listeners :
            (/\ path = p /\ pc[p] = "serving" /\ pc'[p] = "serving"
             /\ \A q \in Listeners : Managing(q) => fd[q] = lockPath)
            => path' = p]_vars
  BY <1>1
<1> QED BY Invariant, <1>2, PTL DEF Spec, ServingSocketKept

\* For any number of starts and probes, a start is turned away only by a socket
\* that answers or by a process that is holding the lock it asked for.
THEOREM AlreadyIsTrue == Spec => AlreadyHasCause
<1>1. ASSUME IInv, [Next]_vars, NEW p \in Listeners, outcome[p] # "already",
             outcome'[p] = "already"
      PROVE  Live \/ \E q \in Processes \ {p} : Managing(q) \/ pc[q] = "release"
  <2>1. PICK r \in Listeners : Flock(r) \/ Dial(r)
    BY <1>1 DEF IInv, TypeOK, Next, vars, AlienStops, Put, Goto, Ends, Listener, Refuse, OpenLock, Flock, Lstat,
       Dial, Remove, Bind, ListenCall, Chmod, Stop, Unlink, CloseSocket, CleanupLstat,
       CleanupRemove, Unlock, RemoveLock, Crash, Prober, Probe, ProbeOpen, ProbeFlock,
       ProbeRelease
  <2>2. CASE Dial(r)
    BY <1>1, <2>2 DEF Dial, Goto, Ends, IInv, TypeOK
  <2>3. CASE Flock(r)
    <3>1. r = p /\ pc[p] = "flock" /\ holder[fd[p]] # "nobody" /\ p \in Processes
      BY <1>1, <2>3 DEF Flock, Ends, IInv, TypeOK, Processes
    <3>2. fd[p] \in Inodes
      BY <1>1, <3>1 DEF IInv, LockersReady
    <3>3. holder[fd[p]] \in Processes /\ pc[holder[fd[p]]] \in ManagingAt \cup {"release"}
      BY <1>1, <3>1, <3>2 DEF IInv, TypeOK, HoldersBusy
    <3>4. holder[fd[p]] # p
      BY <3>1, <3>3 DEF ManagingAt
    <3> QED BY <3>3, <3>4 DEF Managing, ManagingAt
  <2> QED BY <2>1, <2>2, <2>3
<1>2. IInv /\ [Next]_vars =>
        [\A p \in Listeners : (outcome[p] # "already" /\ outcome'[p] = "already") =>
            \/ Live
            \/ \E q \in Processes \ {p} : Managing(q) \/ pc[q] = "release"]_vars
  BY <1>1
<1> QED BY Invariant, <1>2, PTL DEF Spec, AlreadyHasCause

-----------------------------------------------------------------------------
(* What is left at the end. Each name has an owner that is still to remove  *)
(* it, or that was killed or turned away before it could.                   *)

SocketOwned ==
    path \in Listeners =>
        \/ pc[path] \in {"listen", "chmod", "serving", "unlink"}
        \/ pc[path] = "exited" /\ outcome[path] = "crashed"

LockOwned ==
    lockPath \in Listeners =>
        \/ pc[lockPath] \in ManagingAt \cup {"flock", "rmlock"}
        \/ pc[lockPath] = "exited" /\ outcome[lockPath] \in {"already", "crashed"}

OldLockOwned ==
    lockPath = "old" =>
        \A p \in Listeners : pc[p] = "exited" => outcome[p] \notin {"running", "failed"}

Residue == SocketOwned /\ LockOwned /\ OldLockOwned

\* No listener has made anything.
LEMMA ResidueInit == Init => Residue
<1> SUFFICES ASSUME Init PROVE Residue
  OBVIOUS
<1> QED BY UnixSocketAssumption
        DEF Init, Residue, SocketOwned, LockOwned, OldLockOwned, Processes, InitialKinds

\* A listener that goes on keeps the owner of each name, or takes the name away.
LEMMA ResidueListener ==
  ASSUME IInv, Residue, NEW p \in Listeners, Listener(p)
  PROVE  Residue'
<1> USE DEF Goto, Ends
<1>0. /\ p \in Processes /\ \A r \in Listeners : r \in Processes
      /\ p \notin InitialKinds /\ "missing" \notin Listeners /\ "none" \notin Listeners
      /\ "old" \notin Listeners
  BY Names, UnixSocketAssumption DEF Processes, InitialKinds, Inodes
<1>1. \A r \in Listeners : r # p => pc'[r] = pc[r] /\ outcome'[r] = outcome[r]
  BY <1>0 DEF IInv, TypeOK, Listener, Refuse, OpenLock, Flock, Lstat, Dial, Remove, Bind, ListenCall,
     Chmod, Stop, Unlink, CloseSocket, CleanupLstat, CleanupRemove, Unlock, RemoveLock, Crash
<1>2. SocketOwned'
  <2>1. CASE Bind(p)
    BY <1>0, <1>1, <2>1 DEF Bind, IInv, TypeOK, Residue, SocketOwned
  <2>2. CASE Remove(p) \/ Unlink(p) \/ CleanupRemove(p)
    BY <1>0, <2>2 DEF Remove, Unlink, CleanupRemove, SocketOwned
  <2>3. CASE ~(Bind(p) \/ Remove(p) \/ Unlink(p) \/ CleanupRemove(p))
    <3>1. path' = path
      BY <2>3 DEF Listener, Refuse, OpenLock, Flock, Lstat, Dial, ListenCall, Chmod, Stop,
         CloseSocket, CleanupLstat, Unlock, RemoveLock, Crash
    <3>2. CASE path = p
      BY <1>0, <2>3, <3>1, <3>2 DEF IInv, TypeOK, Residue, SocketOwned, Listener, Refuse, OpenLock, Flock,
         Lstat, Dial, ListenCall, Chmod, Stop, CloseSocket, CleanupLstat, Unlock, RemoveLock, Crash
    <3>3. CASE path # p
      BY <1>1, <3>1, <3>3 DEF Residue, SocketOwned
    <3> QED BY <3>2, <3>3
  <2> QED BY <2>1, <2>2, <2>3
<1>3. LockOwned'
  <2>1. CASE OpenLock(p)
    BY <1>0, <1>1, <2>1 DEF OpenLock, IInv, TypeOK, Residue, LockOwned
  <2>2. CASE RemoveLock(p)
    BY <1>0, <2>2 DEF RemoveLock, LockOwned
  <2>3. CASE ~(OpenLock(p) \/ RemoveLock(p))
    <3>1. lockPath' = lockPath
      BY <2>3 DEF Listener, Refuse, Flock, Lstat, Dial, Remove, Bind, ListenCall, Chmod, Stop,
         Unlink, CloseSocket, CleanupLstat, CleanupRemove, Unlock, Crash
    <3>2. CASE lockPath = p
      BY <1>0, <2>3, <3>1, <3>2 DEF IInv, TypeOK, Residue, LockOwned, ManagingAt, Listener, Refuse,
         Flock, Lstat, Dial, Remove, Bind, ListenCall, Chmod, Stop, Unlink, CloseSocket,
         CleanupLstat, CleanupRemove, Unlock, Crash
    <3>3. CASE lockPath # p
      BY <1>1, <3>1, <3>3 DEF Residue, LockOwned
    <3> QED BY <3>2, <3>3
  <2> QED BY <2>1, <2>2, <2>3
<1>4. OldLockOwned'
  <2> SUFFICES ASSUME lockPath' = "old" PROVE pc'[p] = "exited" => outcome'[p] \notin {"running", "failed"}
    <3>1. lockPath' = "old" => lockPath = "old"
      BY <1>0 DEF Listener, Refuse, OpenLock, Flock, Lstat, Dial, Remove, Bind, ListenCall,
         Chmod, Stop, Unlink, CloseSocket, CleanupLstat, CleanupRemove, Unlock, RemoveLock, Crash
    <3> QED BY <1>1, <3>1 DEF Residue, OldLockOwned
  <2> QED BY <1>0 DEF IInv, TypeOK, Listener, Refuse, OpenLock, Flock, Lstat, Dial, Remove, Bind,
          ListenCall, Chmod, Stop, Unlink, CloseSocket, CleanupLstat, CleanupRemove, Unlock,
          RemoveLock, Crash
<1> QED BY <1>2, <1>3, <1>4 DEF Residue

\* Everything else leaves the names to their owners.
LEMMA ResidueNext == IInv /\ Residue /\ [Next]_vars => Residue'
<1> SUFFICES ASSUME IInv, Residue, [Next]_vars PROVE Residue'
  OBVIOUS
<1>1. CASE UNCHANGED vars
  BY <1>1 DEF vars, Residue, SocketOwned, LockOwned, OldLockOwned
<1>2. CASE AlienStops \/ Put
  BY <1>2, Names, UnixSocketAssumption DEF AlienStops, Put, Residue, SocketOwned, LockOwned, OldLockOwned, InitialKinds
<1>3. ASSUME NEW q \in Probers, Prober(q) PROVE Residue'
  <2>1. \A r \in Listeners : pc'[r] = pc[r]
    BY <1>3, Names DEF IInv, TypeOK, Processes, Goto, Prober, Probe, ProbeOpen, ProbeFlock,
       ProbeRelease
  <2>2. UNCHANGED <<path, lockPath, outcome>>
    BY <1>3 DEF Prober, Probe, ProbeOpen, ProbeFlock, ProbeRelease
  <2> QED BY <2>1, <2>2 DEF Residue, SocketOwned, LockOwned, OldLockOwned
<1>4. ASSUME NEW p \in Listeners, Listener(p) PROVE Residue'
  BY <1>4, ResidueListener
<1> QED BY <1>1, <1>2, <1>3, <1>4 DEF Next

\* When all listeners have ended of their own accord and one of them has managed
\* the path, no socket and no lock file of theirs is left but one made by a start
\* that was turned away, for any number of them and whatever the lock files did.
THEOREM NothingIsLeft == Spec => []NoResidue
<1>1. IInv /\ Residue => NoResidue
  <2> SUFFICES ASSUME IInv, Residue,
                      \A p \in Listeners : pc[p] = "exited" /\ outcome[p] # "crashed",
                      NEW q \in Listeners, outcome[q] \in {"running", "failed"}
               PROVE  /\ path \notin Listeners
                      /\ lockPath = "none" \/ \E p \in Listeners : lockPath = p /\ outcome[p] = "already"
    BY DEF NoResidue
  <2>1. path \notin Listeners
    BY DEF Residue, SocketOwned
  <2>2. lockPath # "old"
    BY DEF Residue, OldLockOwned
  <2>3. lockPath \in Listeners => outcome[lockPath] = "already"
    BY DEF Residue, LockOwned, ManagingAt
  <2> QED BY <2>1, <2>2, <2>3 DEF IInv, TypeOK, Inodes
<1> QED BY Invariant, ResidueInit, ResidueNext, <1>1, PTL DEF Spec
=============================================================================
