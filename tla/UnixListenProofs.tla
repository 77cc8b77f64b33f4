-------------------------- MODULE UnixListenProofs --------------------------
(***************************************************************************)
(* UnixListen for any finite set of clients and any connection limit: the  *)
(* accounting of slots and goroutines, and what rests on it. Of a call of  *)
(* Serve nothing is used but its contract.                                 *)
(***************************************************************************)
EXTENDS UnixListen, FiniteSetTheorems, SequenceTheorems, TLAPS

\* How far a client's call of Serve is, given its progress through the listener.
SessionsMatch ==
    \A c \in Clients :
        /\ conn[c] = "none" <=> phase[c] \in {"away", "queued", "refused"}
        /\ conn[c] = "none" => serve[c] = "start"
        /\ serve[c] = "start" => child[c] = "none"
        /\ serve[c] = "returned" => child[c] \in {"none", "reaped"}
        /\ phase[c] \in {"served", "released", "done"} => serve[c] \in {"returned", "gone"}
        /\ phase[c] = "serving" => serve[c] # "returned"
        /\ Alive => serve[c] # "gone"

\* An exit code 0 is decided when nothing is counted any more, and no step
\* after that accepts a connection.
OkMeansIdle ==
    code = "ok" =>
        /\ main \in {"unwind", "cleanup", "exit", "exited"}
        /\ Counted = {}
        /\ \A c \in Clients : child[c] \in {"none", "reaped"}

\* Cleanup has run before the process exits of its own accord.
FilesMatch ==
    /\ main = "exit" \/ (main = "exited" /\ code # "killed") => ~socket /\ ~lock
    /\ main \in {"exit", "exited"} => listener = "closed"
    /\ listener = "closed" => \A c \in Clients : phase[c] # "queued"

IInv == TypeOK /\ SlotsMatch /\ SessionsMatch /\ OkMeansIdle /\ FilesMatch

\* Sets of clients are finite, so their sizes are numbers.
LEMMA Finite ==
  \A S \in SUBSET Clients : IsFiniteSet(S) /\ Cardinality(S) \in Nat
<1> SUFFICES ASSUME NEW S \in SUBSET Clients PROVE IsFiniteSet(S) /\ Cardinality(S) \in Nat
  OBVIOUS
<1>1. IsFiniteSet(S)
  BY UnixListenAssumption, FS_Subset
<1> QED BY <1>1, FS_CardinalityType

\* The invariant holds when the listener starts.
LEMMA InvInit == Init => IInv
<1> SUFFICES ASSUME Init PROVE IInv
  OBVIOUS
<1>1. Holding = {} /\ Counted = {}
  BY DEF Init, Holding, Counted
<1>2. TypeOK
  <2>1. 0 \in 0..MaxConnections /\ <<>> \in Seq(Clients)
    BY UnixListenAssumption
  <2>2. BacklogMatches
    BY DEF Init, BacklogMatches
  <2> QED BY <2>1, <2>2 DEF Init, TypeOK, Phases, files, Serves, Children, Conns
<1>3. SlotsMatch
  BY <1>1, FS_EmptySet DEF Init, SlotsMatch
<1>4. SessionsMatch /\ OkMeansIdle /\ FilesMatch
  BY DEF Init, SessionsMatch, OkMeansIdle, FilesMatch, Alive
<1> QED BY <1>2, <1>3, <1>4 DEF IInv

\* Resetting the queued connections disturbs nothing that is counted.
LEMMA RefuseKeeps ==
  ASSUME IInv, RefuseQueued
  PROVE  /\ backlog' \in Seq(Clients) /\ phase' \in [Clients -> Phases] /\ BacklogMatches'
         /\ Holding' = Holding /\ Counted' = Counted
         /\ \A c \in Clients :
                /\ phase'[c] # "queued"
                /\ phase'[c] = phase[c] \/ (phase[c] = "queued" /\ phase'[c] = "refused")
<1>1. /\ backlog' = <<>>
      /\ phase' = [c \in Clients |-> IF phase[c] = "queued" THEN "refused" ELSE phase[c]]
  BY DEF RefuseQueued
<1>2. backlog' \in Seq(Clients) /\ BacklogMatches'
  BY <1>1 DEF BacklogMatches
<1>3. phase' \in [Clients -> Phases]
  BY <1>1 DEF IInv, TypeOK, Phases
<1>4. Holding' = Holding /\ Counted' = Counted
  BY <1>1 DEF Holding, Counted
<1> QED BY <1>1, <1>2, <1>3, <1>4

\* The steps of the main goroutine and the closer that accept nothing.
LEMMA MainSteps ==
  ASSUME IInv,
         \/ AcquireSlot \/ SeeDone \/ AcceptClosed \/ AcceptFails \/ Finish \/ FinishTimeout
         \/ Stop \/ Cleanup \/ CloserRuns \/ Signal
  PROVE  IInv'
<1>0. Holding \in SUBSET Clients /\ Counted \in SUBSET Clients
  BY DEF Holding, Counted
<1>1. Cardinality(Holding) \in Nat /\ Cardinality(Counted) \in Nat
  BY <1>0, Finite
<1>2. ASSUME UNCHANGED <<backlog, phase, sessions>>
      PROVE  /\ Holding' = Holding /\ Counted' = Counted
             /\ (BacklogMatches' <=> BacklogMatches)
             /\ (Alive' <=> Alive) => SessionsMatch'
  BY <1>2 DEF Holding, Counted, BacklogMatches, SessionsMatch, sessions, IInv
<1>3. CASE AcquireSlot \/ SeeDone \/ AcceptClosed \/ AcceptFails \/ FinishTimeout \/ Stop \/ Signal
  <2>1. /\ UNCHANGED <<files, backlog, wg, phase, sessions>>
        /\ Alive /\ Alive'
    BY <1>3 DEF AcquireSlot, SeeDone, AcceptClosed, AcceptFails, FinishTimeout, Stop, Signal,
                Alive
  <2>2. SlotsMatch' /\ slots' \in 0..MaxConnections
    <3>1. /\ slots = Cardinality(Holding) + (IF main = "accept" THEN 1 ELSE 0)
          /\ slots \in 0..MaxConnections
          /\ wg' = Cardinality(Counted')
      BY <1>2, <2>1 DEF IInv, TypeOK, SlotsMatch
    <3>2. \/ main # "accept" /\ slots < MaxConnections /\ slots' = slots + 1 /\ main' = "accept"
          \/ main = "accept" /\ slots' = slots - 1 /\ main' # "accept"
          \/ main # "accept" /\ slots' = slots /\ main' # "accept"
          \/ slots' = slots /\ main' = main
      BY <1>3 DEF AcquireSlot, SeeDone, AcceptClosed, AcceptFails, FinishTimeout, Stop, Signal
    <3>3. /\ slots' \in 0..MaxConnections
          /\ slots' = Cardinality(Holding) + (IF main' = "accept" THEN 1 ELSE 0)
      BY <1>1, <3>1, <3>2, UnixListenAssumption
    <3> QED BY <1>2, <2>1, <3>1, <3>3 DEF SlotsMatch
  <2>4. TypeOK'
    <3>1. /\ ctxDone' \in BOOLEAN
          /\ main' \in {"acquire", "accept", "finish", "unwind", "cleanup", "exit", "exited"}
          /\ code' \in {"none", "ok", "timeout", "socket", "killed"}
      BY <1>3 DEF IInv, TypeOK, AcquireSlot, SeeDone, AcceptClosed, AcceptFails, FinishTimeout,
                  Stop, Signal
    <3> QED BY <1>2, <2>1, <2>2, <3>1 DEF IInv, TypeOK, files, sessions
  <2>3. OkMeansIdle' /\ FilesMatch'
    BY <1>2, <1>3, <2>1
    DEF IInv, OkMeansIdle, FilesMatch, AcquireSlot, SeeDone, AcceptClosed, AcceptFails,
        FinishTimeout, Stop, Signal, files, sessions
  <2> QED BY <1>2, <2>1, <2>2, <2>3, <2>4 DEF IInv
<1>4. CASE Finish
  <2>1. /\ UNCHANGED <<ctxDone, files, backlog, slots, wg, phase, sessions>>
        /\ main = "finish" /\ wg = 0 /\ code' = "ok" /\ main' = "unwind"
    BY <1>4 DEF Finish
  <2>2. Counted = {}
    BY <1>0, <2>1, Finite, FS_EmptySet DEF IInv, SlotsMatch, Alive
  <2>3. \A c \in Clients : child[c] \in {"none", "reaped"}
    BY <2>1, <2>2 DEF IInv, TypeOK, Counted, SessionsMatch, Phases, Alive
  <2>4. TypeOK' /\ SlotsMatch'
    BY <1>2, <2>1 DEF IInv, TypeOK, SlotsMatch, Alive, files, sessions
  <2>5. OkMeansIdle' /\ FilesMatch'
    BY <1>2, <2>1, <2>2, <2>3 DEF IInv, OkMeansIdle, FilesMatch, files, sessions
  <2> QED BY <1>2, <2>1, <2>4, <2>5 DEF IInv, Alive
<1>5. CASE Cleanup \/ CloserRuns
  <2>1. /\ UNCHANGED <<ctxDone, code, slots, wg, sessions>> /\ RefuseQueued
        /\ listener' = "closed" /\ socket' \in {FALSE, socket} /\ lock' \in {FALSE, lock}
        /\ \/ main = "cleanup" /\ main' = "exit" /\ ~socket' /\ ~lock'
           \/ Alive /\ main # "exit" /\ main' = main
    BY <1>5 DEF Cleanup, CloserRuns, CloseListener, IInv, FilesMatch
  <2>2. Alive /\ Alive'
    BY <2>1 DEF Alive
  <2>3. TypeOK' /\ SlotsMatch'
    BY <2>1, <2>2, RefuseKeeps DEF IInv, TypeOK, SlotsMatch, sessions
  <2>4. SessionsMatch'
    BY <2>1, <2>2, RefuseKeeps DEF IInv, TypeOK, SessionsMatch, sessions, Phases
  <2>5. OkMeansIdle' /\ FilesMatch'
    BY <2>1, <2>2, RefuseKeeps DEF IInv, OkMeansIdle, FilesMatch, sessions, Alive
  <2> QED BY <2>3, <2>4, <2>5 DEF IInv
<1> QED BY <1>3, <1>4, <1>5

\* The end of the process: the counters no longer matter, the files do.
LEMMA ExitSteps ==
  ASSUME IInv, Killed \/ ProcessExit
  PROVE  IInv'
<1>1. PICK exit \in {code, "killed"} : Ends(exit)
  BY DEF Killed, ProcessExit
<1>2. /\ UNCHANGED <<ctxDone, socket, lock, slots, wg, child>>
      /\ RefuseQueued /\ main' = "exited" /\ code' = exit /\ listener' = "closed"
      /\ serve' = [c \in Clients |-> IF conn[c] = "none" THEN serve[c] ELSE "gone"]
      /\ conn' = [c \in Clients |-> IF conn[c] = "none" THEN "none" ELSE "closed"]
      /\ code' = "ok" => main = "exit"
  BY <1>1 DEF Killed, ProcessExit, Ends
<1>3. TypeOK' /\ SlotsMatch'
  BY <1>2, RefuseKeeps DEF IInv, TypeOK, SlotsMatch, Alive, Serves, Conns
<1>4. SessionsMatch'
  BY <1>2, RefuseKeeps DEF IInv, TypeOK, SessionsMatch, Phases, Alive
<1>5. OkMeansIdle' /\ FilesMatch'
  <2>1. code' # "killed" => ~socket' /\ ~lock'
    <3>1. CASE Killed
      BY <1>2, <3>1 DEF Killed, Ends
    <3>2. CASE ProcessExit
      BY <1>2, <3>2 DEF ProcessExit, IInv, FilesMatch
    <3> QED BY <3>1, <3>2
  <2> QED BY <1>2, <2>1, RefuseKeeps DEF IInv, OkMeansIdle, FilesMatch
<1> QED BY <1>3, <1>4, <1>5 DEF IInv

\* A client joins the queue, and the main goroutine takes one from it.
LEMMA QueueSteps ==
  ASSUME IInv, AcceptConn \/ \E c \in Clients : Connect(c)
  PROVE  IInv'
<1>0. Holding \in SUBSET Clients /\ Counted \in SUBSET Clients
  BY DEF Holding, Counted
<1>1. ASSUME NEW c \in Clients, Connect(c) PROVE IInv'
  <2>1. /\ phase' = [phase EXCEPT ![c] = "queued"] /\ backlog' = Append(backlog, c)
        /\ UNCHANGED <<ctxDone, files, main, code, slots, wg, sessions>>
        /\ phase[c] = "away" /\ listener = "open"
    BY <1>1 DEF Connect
  <2>2. backlog' \in Seq(Clients) /\ BacklogMatches'
    <3>1. /\ backlog' \in Seq(Clients) /\ Len(backlog') = Len(backlog) + 1
          /\ Len(backlog) \in Nat
          /\ \A i \in 1..Len(backlog) : backlog'[i] = backlog[i] /\ backlog[i] \in Clients
          /\ backlog'[Len(backlog) + 1] = c
      BY <2>1, AppendProperties, ElementOfSeq DEF IInv, TypeOK
    <3>2. \A i \in 1..Len(backlog) : phase[backlog[i]] = "queued" /\ backlog[i] # c
      BY <2>1 DEF IInv, TypeOK, BacklogMatches
    <3>3. \A i \in 1..Len(backlog') : i \in 1..Len(backlog) \/ i = Len(backlog) + 1
      BY <3>1
    <3> QED BY <2>1, <3>1, <3>2, <3>3 DEF IInv, TypeOK, BacklogMatches
  <2>3. Holding' = Holding /\ Counted' = Counted
    BY <2>1 DEF IInv, TypeOK, Holding, Counted
  <2>4. TypeOK' /\ SlotsMatch'
    BY <2>1, <2>2, <2>3 DEF IInv, TypeOK, SlotsMatch, Alive, files, sessions, Phases
  <2>5. SessionsMatch'
    BY <2>1 DEF IInv, TypeOK, SessionsMatch, sessions, Alive
  <2>6. OkMeansIdle' /\ FilesMatch'
    BY <2>1, <2>3 DEF IInv, OkMeansIdle, FilesMatch, files, sessions
  <2> QED BY <2>4, <2>5, <2>6 DEF IInv
<1>2. CASE AcceptConn
  <2> DEFINE c == Head(backlog)
  <2>1. /\ phase' = [phase EXCEPT ![c] = "serving"] /\ conn' = [conn EXCEPT ![c] = "open"]
        /\ backlog' = Tail(backlog) /\ wg' = wg + 1 /\ main' = "acquire"
        /\ UNCHANGED <<ctxDone, files, code, slots, serve, child>>
        /\ main = "accept" /\ backlog # <<>>
    BY <1>2 DEF AcceptConn
  <2>2. /\ backlog \in Seq(Clients) /\ Len(backlog) \in Nat /\ c \in Clients /\ c = backlog[1]
        /\ 1 \in 1..Len(backlog)
        /\ backlog' \in Seq(Clients) /\ Len(backlog') = Len(backlog) - 1
        /\ \A i \in 1..Len(backlog') : backlog'[i] = backlog[i + 1]
    <3>1. backlog \in Seq(Clients)
      BY DEF IInv, TypeOK
    <3>2. /\ c \in Clients /\ backlog' \in Seq(Clients) /\ Len(backlog') = Len(backlog) - 1
          /\ \A i \in 1..Len(backlog') : backlog'[i] = backlog[i + 1]
      BY <2>1, <3>1, HeadTailProperties
    <3>3. c = backlog[1] /\ Len(backlog) \in Nat \ {0}
      BY <2>1, <3>1, EmptySeq
    <3> QED BY <3>1, <3>2, <3>3
  <2>3. phase[c] = "queued"
    BY <2>2 DEF IInv, TypeOK, BacklogMatches
  <2>4. BacklogMatches'
    <3>1. \A i \in 1..Len(backlog') : i + 1 \in 1..Len(backlog) /\ i + 1 # 1
      BY <2>2
    <3>2. \A i \in 1..Len(backlog') : backlog'[i] # c /\ backlog'[i] \in Clients
                                      /\ phase[backlog'[i]] = "queued"
      <4> SUFFICES ASSUME NEW i \in 1..Len(backlog')
                   PROVE  backlog'[i] # c /\ backlog'[i] \in Clients
                          /\ phase[backlog'[i]] = "queued"
        OBVIOUS
      <4>1. backlog'[i] = backlog[i + 1] /\ i + 1 \in 1..Len(backlog) /\ i + 1 # 1
        BY <2>2, <3>1
      <4>2. backlog[i + 1] # backlog[1] /\ phase[backlog[i + 1]] = "queued"
        <5> HIDE DEF c
        <5>1. /\ \A k \in 1..Len(backlog) : phase[backlog[k]] = "queued"
              /\ \A k, l \in 1..Len(backlog) : backlog[k] = backlog[l] => k = l
          BY DEF IInv, TypeOK, BacklogMatches
        <5>2. 1 \in 1..Len(backlog)
          BY <2>2
        <5> QED BY <5>1, <5>2, <4>1
      <4>3. backlog[i + 1] \in Clients
        BY <2>2, <4>1, ElementOfSeq
      <4> QED BY <2>2, <4>1, <4>2, <4>3
    <3>3. \A i, j \in 1..Len(backlog') : backlog'[i] = backlog'[j] => i = j
      <4> SUFFICES ASSUME NEW i \in 1..Len(backlog'), NEW j \in 1..Len(backlog'),
                          backlog'[i] = backlog'[j]
                   PROVE  i = j
        OBVIOUS
      <4>1. /\ backlog[i + 1] = backlog[j + 1]
            /\ i + 1 \in 1..Len(backlog) /\ j + 1 \in 1..Len(backlog)
        BY <2>2, <3>1
      <4>2. \A k, l \in 1..Len(backlog) : backlog[k] = backlog[l] => k = l
        BY DEF IInv, TypeOK, BacklogMatches
      <4>3. i + 1 = j + 1
        BY <4>1, <4>2
      <4> QED BY <2>2, <4>3
    <3> QED BY <2>1, <2>2, <3>2, <3>3 DEF BacklogMatches, IInv, TypeOK
  <2>5. /\ Holding' = Holding \cup {c} /\ c \notin Holding
        /\ Counted' = Counted \cup {c} /\ c \notin Counted
    BY <2>1, <2>2, <2>3 DEF IInv, TypeOK, Holding, Counted
  <2>6. /\ Cardinality(Holding') = Cardinality(Holding) + 1
        /\ Cardinality(Counted') = Cardinality(Counted) + 1
    BY <1>0, <2>5, Finite, FS_AddElement
  <2>7. SlotsMatch'
    BY <1>0, <2>1, <2>6, Finite DEF IInv, TypeOK, SlotsMatch, Alive
  <2>8. TypeOK'
    BY <2>1, <2>2, <2>4 DEF IInv, TypeOK, files, Phases, Conns
  <2>9. SessionsMatch'
    BY <2>1, <2>2, <2>3 DEF IInv, TypeOK, SessionsMatch, Alive
  <2>10. OkMeansIdle' /\ FilesMatch'
    BY <2>1, <2>2 DEF IInv, TypeOK, OkMeansIdle, FilesMatch, files
  <2> QED BY <2>7, <2>8, <2>9, <2>10 DEF IInv
<1> QED BY <1>1, <1>2

\* The steps of the contract of Serve, as the listener's state sees them.
LEMMA ContractSteps ==
  ASSUME IInv, NEW c \in Clients
  PROVE  /\ StartFails(c) =>
                /\ serve[c] = "start" /\ serve' = [serve EXCEPT ![c] = "returned"]
                /\ UNCHANGED <<ctxDone, child, conn>>
         /\ Start(c) =>
                /\ serve[c] = "start" /\ serve' = [serve EXCEPT ![c] = "running"]
                /\ child' = [child EXCEPT ![c] = "alive"]
                /\ UNCHANGED <<ctxDone, conn>>
         /\ ChildEnds(c) =>
                /\ child[c] = "alive" /\ child' = [child EXCEPT ![c] = "ended"]
                /\ UNCHANGED <<ctxDone, serve, conn>>
         /\ CloseConn(c) =>
                /\ serve[c] = "running" /\ conn[c] = "open"
                /\ conn' = [conn EXCEPT ![c] = "closed"]
                /\ UNCHANGED <<ctxDone, serve, child>>
         /\ Reap(c) =>
                /\ serve[c] = "running" /\ conn[c] = "closed" /\ child[c] = "ended"
                /\ child' = [child EXCEPT ![c] = "reaped"]
                /\ UNCHANGED <<ctxDone, serve, conn>>
         /\ Return(c) =>
                /\ serve[c] = "running" /\ child[c] = "reaped"
                /\ serve' = [serve EXCEPT ![c] = "returned"]
                /\ UNCHANGED <<ctxDone, child, conn>>
         /\ Finalize(c) =>
                /\ serve[c] = "returned" /\ conn[c] = "open"
                /\ conn' = [conn EXCEPT ![c] = "closed"]
                /\ UNCHANGED <<ctxDone, serve, child>>
<1>0. serve \in [Clients -> Serves] /\ child \in [Clients -> Children] /\ conn \in [Clients -> Conns]
  BY DEF IInv, TypeOK
<1>1. ASSUME StartFails(c)
      PROVE  /\ serve[c] = "start" /\ serve' = [serve EXCEPT ![c] = "returned"]
             /\ UNCHANGED <<ctxDone, child, conn>>
  BY <1>0, <1>1 DEF StartFails, CallMoves, Session!StartFails
<1>2. ASSUME Start(c)
      PROVE  /\ serve[c] = "start" /\ serve' = [serve EXCEPT ![c] = "running"]
             /\ child' = [child EXCEPT ![c] = "alive"]
             /\ UNCHANGED <<ctxDone, conn>>
  BY <1>0, <1>2 DEF Start, CallMoves, ChildMoves, Session!Start
<1>3. ASSUME ChildEnds(c)
      PROVE  /\ child[c] = "alive" /\ child' = [child EXCEPT ![c] = "ended"]
             /\ UNCHANGED <<ctxDone, serve, conn>>
  BY <1>0, <1>3 DEF ChildEnds, ChildMoves, Session!ChildEnds
<1>4. ASSUME CloseConn(c)
      PROVE  /\ serve[c] = "running" /\ conn[c] = "open"
             /\ conn' = [conn EXCEPT ![c] = "closed"]
             /\ UNCHANGED <<ctxDone, serve, child>>
  BY <1>0, <1>4 DEF CloseConn, ConnMoves, Session!CloseConn
<1>5. ASSUME Reap(c)
      PROVE  /\ serve[c] = "running" /\ conn[c] = "closed" /\ child[c] = "ended"
             /\ child' = [child EXCEPT ![c] = "reaped"]
             /\ UNCHANGED <<ctxDone, serve, conn>>
  BY <1>0, <1>5 DEF Reap, ChildMoves, Session!Reap
<1>6. ASSUME Return(c)
      PROVE  /\ serve[c] = "running" /\ child[c] = "reaped"
             /\ serve' = [serve EXCEPT ![c] = "returned"]
             /\ UNCHANGED <<ctxDone, child, conn>>
  BY <1>0, <1>6 DEF Return, CallMoves, Session!Return
<1>7. ASSUME Finalize(c)
      PROVE  /\ serve[c] = "returned" /\ conn[c] = "open"
             /\ conn' = [conn EXCEPT ![c] = "closed"]
             /\ UNCHANGED <<ctxDone, serve, child>>
  BY <1>0, <1>7 DEF Finalize, ConnMoves, Session!Finalize
<1> QED BY <1>1, <1>2, <1>3, <1>4, <1>5, <1>6, <1>7

\* The goroutine of a connection until Serve has returned, and what happens to
\* the child and the connection beside it: nothing that is counted changes.
LEMMA ServeSteps ==
  ASSUME IInv, NEW c \in Clients,
         StartFails(c) \/ Start(c) \/ Reap(c) \/ Return(c) \/ ChildEnds(c) \/ CloseConn(c)
         \/ Finalize(c)
  PROVE  IInv'
<1>0. /\ \/ UNCHANGED serve
         \/ serve[c] = "start" /\ serve' = [serve EXCEPT ![c] = "returned"]
                               /\ UNCHANGED <<child, conn>>
                               /\ phase[c] = "serving"
         \/ serve[c] = "start" /\ serve' = [serve EXCEPT ![c] = "running"]
                               /\ child' = [child EXCEPT ![c] = "alive"] /\ UNCHANGED conn
                               /\ phase[c] = "serving"
         \/ serve[c] = "running" /\ serve' = [serve EXCEPT ![c] = "returned"]
                                 /\ child[c] = "reaped" /\ UNCHANGED <<child, conn>>
      /\ \/ UNCHANGED child
         \/ serve[c] = "start" /\ serve' = [serve EXCEPT ![c] = "running"]
                               /\ child' = [child EXCEPT ![c] = "alive"]
                               /\ phase[c] = "serving"
         \/ child[c] = "alive" /\ child' = [child EXCEPT ![c] = "ended"] /\ UNCHANGED serve
         \/ child[c] = "ended" /\ child' = [child EXCEPT ![c] = "reaped"] /\ UNCHANGED serve
      /\ \/ UNCHANGED conn
         \/ conn[c] = "open" /\ conn' = [conn EXCEPT ![c] = "closed"]
                             /\ UNCHANGED <<serve, child>>
  <2>1. \/ StartFails(c) /\ phase[c] = "serving"
        \/ Start(c) /\ phase[c] = "serving"
        \/ Reap(c) \/ Return(c) \/ ChildEnds(c) \/ CloseConn(c) \/ Finalize(c)
    BY DEF StartFails, Start
  <2> QED BY <2>1, ContractSteps
<1>1. /\ UNCHANGED <<ctxDone, files, backlog, main, code, slots, wg>>
      /\ phase' = phase \/ (phase' = [phase EXCEPT ![c] = "served"] /\ serve[c] # "gone"
                            /\ conn[c] # "none" /\ phase[c] = "serving"
                            /\ serve'[c] = "returned")
      /\ serve'[c] = "returned" /\ serve[c] # "returned"
            => phase' = [phase EXCEPT ![c] = "served"]
  <2>1. UNCHANGED <<ctxDone, files, backlog, main, code, slots, wg>>
    <3>1. UNCHANGED ctxDone
      BY ContractSteps
    <3> QED BY <3>1 DEF StartFails, Start, Reap, Return, ChildEnds, CloseConn, Finalize
  <2>2. CASE StartFails(c)
    <3>1. phase' = [phase EXCEPT ![c] = "served"] /\ phase[c] = "serving"
      BY <2>2 DEF StartFails, Served
    <3>2. serve[c] = "start" /\ serve'[c] = "returned"
      BY <2>2, ContractSteps DEF IInv, TypeOK
    <3> QED BY <2>1, <3>1, <3>2 DEF IInv, SessionsMatch
  <2>3. CASE Return(c)
    <3>1. phase' = [phase EXCEPT ![c] = "served"]
      BY <2>3 DEF Return, Served
    <3>2. serve[c] = "running" /\ serve'[c] = "returned"
      BY <2>3, ContractSteps DEF IInv, TypeOK
    <3>3. conn[c] # "none" /\ phase[c] = "serving"
      BY <3>2 DEF IInv, TypeOK, SessionsMatch, Phases
    <3> QED BY <2>1, <3>1, <3>2, <3>3
  <2>4. CASE Start(c) \/ Reap(c) \/ ChildEnds(c) \/ CloseConn(c) \/ Finalize(c)
    <3>1. phase' = phase
      BY <2>4 DEF Start, Reap, ChildEnds, CloseConn, Finalize
    <3>2. serve'[c] = "returned" => serve[c] = "returned"
      BY <2>4, ContractSteps DEF IInv, TypeOK
    <3> QED BY <2>1, <3>1, <3>2
  <2> QED BY <2>2, <2>3, <2>4
<1>2. /\ Holding' = Holding /\ Counted' = Counted
      /\ \A d \in Clients : phase[d] = "queued" <=> phase'[d] = "queued"
      /\ phase' \in [Clients -> Phases]
  BY <1>1 DEF IInv, TypeOK, Holding, Counted, Phases
<1>3. /\ serve' \in [Clients -> Serves]
      /\ child' \in [Clients -> Children]
      /\ conn' \in [Clients -> Conns]
  BY <1>0 DEF IInv, TypeOK, Serves, Children, Conns
<1>4. TypeOK' /\ SlotsMatch'
  <2>1. BacklogMatches'
    BY <1>1, <1>2, ElementOfSeq DEF IInv, TypeOK, BacklogMatches
  <2> QED BY <1>1, <1>2, <1>3, <2>1 DEF IInv, TypeOK, SlotsMatch, Alive, files
<1>5. SessionsMatch'
  BY <1>0, <1>1 DEF IInv, TypeOK, SessionsMatch, Alive
<1>6. OkMeansIdle'
  <2>1. code = "ok" => \A d \in Clients : child'[d] \in {"none", "reaped"}
    BY <1>0 DEF IInv, TypeOK, OkMeansIdle, Counted
  <2> QED BY <1>1, <1>2, <2>1 DEF IInv, OkMeansIdle
<1>7. FilesMatch'
  BY <1>1, <1>2 DEF IInv, FilesMatch, files
<1> QED BY <1>4, <1>5, <1>6, <1>7 DEF IInv

\* Giving the slot back and leaving the wait group.
LEMMA LeaveSteps ==
  ASSUME IInv, NEW c \in Clients, ReleaseSlot(c) \/ WgDone(c)
  PROVE  IInv'
<1>0. Holding \in SUBSET Clients /\ Counted \in SUBSET Clients
  BY DEF Holding, Counted
<1>1. /\ UNCHANGED <<ctxDone, files, backlog, main, code, sessions>> /\ Alive
      /\ \A d \in Clients : phase[d] = "queued" <=> phase'[d] = "queued"
      /\ phase' \in [Clients -> Phases]
  BY DEF ReleaseSlot, WgDone, IInv, TypeOK, Phases
<1>2. BacklogMatches'
  BY <1>1, ElementOfSeq DEF IInv, TypeOK, BacklogMatches
<1>3. SlotsMatch' /\ slots' \in 0..MaxConnections /\ wg' \in Nat /\ Counted' \subseteq Counted
  <2>1. CASE ReleaseSlot(c)
    <3>1. /\ Holding' = Holding \ {c} /\ c \in Holding /\ Counted' = Counted
          /\ slots' = slots - 1 /\ wg' = wg
      BY <2>1 DEF ReleaseSlot, IInv, TypeOK, Holding, Counted
    <3>2. Cardinality(Holding') = Cardinality(Holding) - 1 /\ Cardinality(Holding') \in Nat
      BY <1>0, <3>1, Finite, FS_RemoveElement
    <3>3. /\ slots = Cardinality(Holding) + (IF main = "accept" THEN 1 ELSE 0)
          /\ slots \in 0..MaxConnections /\ wg = Cardinality(Counted) /\ wg \in Nat
      BY <1>1 DEF IInv, TypeOK, SlotsMatch
    <3>4. /\ slots' = Cardinality(Holding') + (IF main = "accept" THEN 1 ELSE 0)
          /\ slots' \in 0..MaxConnections
      BY <1>0, <3>1, <3>2, <3>3, Finite, UnixListenAssumption
    <3> QED BY <1>1, <3>1, <3>3, <3>4 DEF SlotsMatch
  <2>2. CASE WgDone(c)
    <3>1. /\ Counted' = Counted \ {c} /\ c \in Counted /\ Holding' = Holding
          /\ wg' = wg - 1 /\ slots' = slots
      BY <2>2 DEF WgDone, IInv, TypeOK, Holding, Counted
    <3>2. Cardinality(Counted') = Cardinality(Counted) - 1 /\ Cardinality(Counted') \in Nat
      BY <1>0, <3>1, Finite, FS_RemoveElement
    <3>3. wg' = Cardinality(Counted') /\ wg' \in Nat
      BY <1>1, <3>1, <3>2 DEF IInv, TypeOK, SlotsMatch
    <3> QED BY <1>1, <3>1, <3>3 DEF IInv, TypeOK, SlotsMatch
  <2> QED BY <2>1, <2>2
<1>4. TypeOK'
  BY <1>1, <1>2, <1>3 DEF IInv, TypeOK, files, sessions
<1>5. SessionsMatch'
  BY <1>1 DEF ReleaseSlot, WgDone, IInv, TypeOK, SessionsMatch, sessions, Alive
<1>6. OkMeansIdle' /\ FilesMatch'
  BY <1>1, <1>3 DEF IInv, OkMeansIdle, FilesMatch, files, sessions
<1> QED BY <1>3, <1>4, <1>5, <1>6 DEF IInv

\* Every step keeps the invariant.
LEMMA InvNext == IInv /\ [Next]_vars => IInv'
<1> SUFFICES ASSUME IInv, [Next]_vars PROVE IInv'
  OBVIOUS
<1>1. CASE UNCHANGED vars
  <2>1. Holding' = Holding /\ Counted' = Counted
    BY <1>1 DEF vars, Holding, Counted
  <2> QED BY <1>1, <2>1 DEF vars, files, sessions, IInv, TypeOK, BacklogMatches, SlotsMatch,
                            SessionsMatch, OkMeansIdle, FilesMatch, Alive
<1>2. CASE Main \/ AcceptFails \/ CloserRuns \/ Signal \/ Killed
  BY <1>2, MainSteps, QueueSteps, ExitSteps DEF Main
<1>3. ASSUME NEW c \in Clients,
             Goroutine(c) \/ Connect(c) \/ ChildEnds(c) \/ CloseConn(c) \/ Finalize(c)
      PROVE  IInv'
  BY <1>3, ServeSteps, LeaveSteps, QueueSteps DEF Goroutine
<1> QED BY <1>1, <1>2, <1>3 DEF Next

\* The invariant holds in every reachable state.
THEOREM Invariant == Spec => []IInv
  BY InvInit, InvNext, PTL DEF Spec

\* Every state is well typed, and the backlog holds exactly the queued clients.
THEOREM TypeCorrect == Spec => []TypeOK
<1>1. IInv => TypeOK
  BY DEF IInv
<1> QED BY Invariant, <1>1, PTL

\* For any limit and any clients: the semaphore and the wait group count what
\* they stand for, whatever fails, is cancelled or ends out of order.
THEOREM SlotsAreMatched == Spec => []SlotsMatch
<1>1. IInv => SlotsMatch
  BY DEF IInv
<1> QED BY Invariant, <1>1, PTL

\* Never more bridge processes than --max-connections: a child that has not been
\* reaped belongs to a call of Serve, which holds one of the slots.
THEOREM LimitIsKept == Spec => []ConnectionLimit
<1>1. IInv => ConnectionLimit
  <2> SUFFICES ASSUME IInv, Alive
               PROVE  Cardinality({c \in Clients : child[c] \in {"alive", "ended"}})
                          <= MaxConnections
    BY DEF ConnectionLimit
  <2> DEFINE Unreaped == {c \in Clients : child[c] \in {"alive", "ended"}}
  <2>1. Unreaped \subseteq Holding
    BY DEF IInv, TypeOK, SessionsMatch, Holding, Phases
  <2>2. Holding \in SUBSET Clients
    BY DEF Holding
  <2>3. Cardinality(Unreaped) <= Cardinality(Holding)
    BY <2>1, <2>2, Finite, FS_Subset
  <2>4. Cardinality(Holding) <= slots /\ slots <= MaxConnections
    BY <2>2, Finite, UnixListenAssumption DEF IInv, TypeOK, SlotsMatch
  <2>5. Cardinality(Unreaped) \in Nat /\ Cardinality(Holding) \in Nat
    BY <2>2, Finite
  <2> QED BY <2>3, <2>4, <2>5, UnixListenAssumption DEF IInv, TypeOK
<1> QED BY Invariant, <1>1, PTL

\* An exit with code 0 leaves no session and no child behind, and no exit of the
\* listener's own leaves its socket or its lock.
THEOREM ExitIsClean == Spec => []CleanExit
<1>1. IInv => CleanExit
  <2> SUFFICES ASSUME IInv, main = "exited" PROVE CleanExit
    BY DEF CleanExit
  <2>1. ASSUME code = "ok", NEW c \in Clients
        PROVE  phase[c] \in {"away", "refused", "done"} /\ child[c] \in {"none", "reaped"}
    <3>1. c \notin Counted /\ phase[c] # "queued"
      BY <2>1 DEF IInv, OkMeansIdle, FilesMatch
    <3> QED BY <2>1, <3>1 DEF IInv, TypeOK, Phases, Counted, OkMeansIdle
  <2>2. code # "killed" => ~socket /\ ~lock
    BY DEF IInv, FilesMatch
  <2> QED BY <2>1, <2>2 DEF CleanExit
<1> QED BY Invariant, <1>1, PTL
=============================================================================
