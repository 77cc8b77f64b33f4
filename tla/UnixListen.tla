----------------------------- MODULE UnixListen -----------------------------
(***************************************************************************)
(* The unix-listen command: one main goroutine that takes a slot of the    *)
(* semaphore, accepts a connection and starts a goroutine for it; one      *)
(* goroutine per connection that runs execbridge.Serve, gives the slot     *)
(* back and leaves the wait group; one goroutine that closes the listener  *)
(* when the process is signalled. Each call of Serve takes the steps of    *)
(* its contract, module Connection, which module ExecBridge implements.    *)
(***************************************************************************)
EXTENDS Naturals, Sequences, FiniteSets

CONSTANTS
    Clients,          \* the clients that may connect, once each
    MaxConnections    \* --max-connections

ASSUME UnixListenAssumption ==
    /\ IsFiniteSet(Clients)
    /\ MaxConnections \in Nat \ {0}

VARIABLES
    ctxDone,    \* signalCtx
    listener,   \* the listening socket
    socket,     \* the socket file exists
    lock,       \* the lock file exists and is held
    backlog,    \* connections the kernel has queued
    main,       \* the goroutine of runUnixListen
    code,       \* the exit code, once it is decided
    slots,      \* elements in the semaphore channel
    wg,         \* the wait group's counter
    phase,      \* per client: its progress through the listener
    serve,      \* per client: its call of Serve
    child,      \* per client: its child process
    conn        \* per client: the accepted connection on our side

files == <<listener, socket, lock>>
sessions == <<serve, child, conn>>
vars == <<ctxDone, files, backlog, main, code, slots, wg, phase, sessions>>

Alive == main # "exited"

Init ==
    /\ ctxDone = FALSE
    /\ listener = "open" /\ socket = TRUE /\ lock = TRUE
    /\ backlog = <<>>
    /\ main = "acquire"
    /\ code = "none"
    /\ slots = 0 /\ wg = 0
    /\ phase = [c \in Clients |-> "away"]
    /\ serve = [c \in Clients |-> "start"]
    /\ child = [c \in Clients |-> "none"]
    /\ conn = [c \in Clients |-> "none"]

-----------------------------------------------------------------------------
(* Outside the process.                                                     *)

Connect(c) ==
    /\ phase[c] = "away"
    /\ listener = "open" /\ socket
    /\ phase' = [phase EXCEPT ![c] = "queued"]
    /\ backlog' = Append(backlog, c)
    /\ UNCHANGED <<ctxDone, files, main, code, slots, wg, sessions>>

\* SIGINT or SIGTERM while signal.NotifyContext listens for it.
Signal ==
    /\ Alive /\ ~ctxDone
    /\ ctxDone' = TRUE
    /\ UNCHANGED <<files, backlog, main, code, slots, wg, phase, sessions>>

\* The kernel resets the queued connections with the listening socket.
RefuseQueued ==
    /\ backlog' = <<>>
    /\ phase' = [c \in Clients |-> IF phase[c] = "queued" THEN "refused" ELSE phase[c]]

\* The process ends: its goroutines stop where they are, the kernel closes its
\* files, its children live on.
Ends(exit) ==
    /\ main' = "exited"
    /\ code' = exit
    /\ listener' = "closed"
    /\ RefuseQueued
    /\ serve' = [c \in Clients |-> IF conn[c] = "none" THEN serve[c] ELSE "gone"]
    /\ conn' = [c \in Clients |-> IF conn[c] = "none" THEN "none" ELSE "closed"]

\* SIGKILL, or a crash.
Killed ==
    /\ Alive
    /\ Ends("killed")
    /\ UNCHANGED <<ctxDone, socket, lock, slots, wg, child>>

-----------------------------------------------------------------------------
(* The goroutine that closes the listener. Closing unlinks the socket file. *)

CloseListener ==
    /\ listener' = "closed"
    /\ socket' = IF listener = "open" THEN FALSE ELSE socket
    /\ RefuseQueued

\* The variant has nobody close the listener on a signal.
CloserSleeps == FALSE /\ UNCHANGED vars

CloserRuns ==
    /\ Alive /\ ctxDone
    /\ listener = "open"
    /\ CloseListener
    /\ UNCHANGED <<ctxDone, lock, main, code, slots, wg, sessions>>

-----------------------------------------------------------------------------
(* The main goroutine.                                                      *)

AcquireSlotUnbounded ==
    /\ main = "acquire"
    /\ slots <= MaxConnections
    /\ slots' = slots + 1
    /\ main' = "accept"
    /\ UNCHANGED <<ctxDone, files, backlog, code, wg, phase, sessions>>

AcquireSlot ==
    /\ main = "acquire"
    /\ slots < MaxConnections
    /\ slots' = slots + 1
    /\ main' = "accept"
    /\ UNCHANGED <<ctxDone, files, backlog, code, wg, phase, sessions>>

\* With a free slot and a cancelled context the select takes either case.
SeeDone ==
    /\ main = "acquire"
    /\ ctxDone
    /\ main' = "finish"
    /\ UNCHANGED <<ctxDone, files, backlog, code, slots, wg, phase, sessions>>

\* The variant leaves wg.Add to the goroutine it starts, which has not run yet.
AcceptConnAddLate ==
    /\ main = "accept"
    /\ listener = "open" /\ backlog # <<>>
    /\ LET c == Head(backlog) IN
           /\ phase' = [phase EXCEPT ![c] = "serving"]
           /\ conn' = [conn EXCEPT ![c] = "open"]
    /\ backlog' = Tail(backlog)
    /\ main' = "acquire"
    /\ UNCHANGED <<ctxDone, files, code, slots, wg, serve, child>>

AcceptConn ==
    /\ main = "accept"
    /\ listener = "open" /\ backlog # <<>>
    /\ LET c == Head(backlog) IN
           /\ phase' = [phase EXCEPT ![c] = "serving"]
           /\ conn' = [conn EXCEPT ![c] = "open"]
    /\ backlog' = Tail(backlog)
    /\ wg' = wg + 1
    /\ main' = "acquire"
    /\ UNCHANGED <<ctxDone, files, code, slots, serve, child>>

AcceptClosed ==
    /\ main = "accept"
    /\ listener = "closed"
    /\ slots' = slots - 1
    /\ main' = "finish"
    /\ UNCHANGED <<ctxDone, files, backlog, code, wg, phase, sessions>>

\* Accept may fail for any reason, such as too many open files or a client that
\* is gone: fatal to the listener unless it is stopping anyway.
AcceptFails ==
    /\ main = "accept"
    /\ listener = "open"
    /\ slots' = slots - 1
    /\ IF ctxDone THEN main' = "finish" /\ UNCHANGED code
                  ELSE main' = "unwind" /\ code' = "socket"
    /\ UNCHANGED <<ctxDone, files, backlog, wg, phase, sessions>>

\* finishConnections: the wait group or the timer.
Finish ==
    /\ main = "finish"
    /\ wg = 0
    /\ code' = "ok"
    /\ main' = "unwind"
    /\ UNCHANGED <<ctxDone, files, backlog, slots, wg, phase, sessions>>

FinishTimeout ==
    /\ main = "finish"
    /\ code' = "timeout"
    /\ main' = "unwind"
    /\ UNCHANGED <<ctxDone, files, backlog, slots, wg, phase, sessions>>

\* The deferred calls, last first: stop, which cancels signalCtx, ...
Stop ==
    /\ main = "unwind"
    /\ ctxDone' = TRUE
    /\ main' = "cleanup"
    /\ UNCHANGED <<files, backlog, code, slots, wg, phase, sessions>>

\* ... then Cleanup, which removes the socket and the lock.
Cleanup ==
    /\ main = "cleanup"
    /\ listener' = "closed" /\ socket' = FALSE /\ lock' = FALSE
    /\ RefuseQueued
    /\ main' = "exit"
    /\ UNCHANGED <<ctxDone, code, slots, wg, sessions>>

ProcessExit ==
    /\ main = "exit"
    /\ Ends(code)
    /\ UNCHANGED <<ctxDone, socket, lock, slots, wg, child>>

-----------------------------------------------------------------------------
(* The goroutine of a connection: a call of Serve, which takes the steps of its *)
(* contract, and two deferred calls.                                           *)

Serves == {"start", "running", "returned", "gone"}
Children == {"none", "alive", "ended", "reaped"}
Conns == {"none", "open", "closed"}

Session(c) == INSTANCE Connection WITH
    serve <- serve[c], child <- child[c], conn <- conn[c]

\* What of the session of c moves; its own step says how.
CallMoves(c) == \E s \in Serves : serve' = [serve EXCEPT ![c] = s]
ChildMoves(c) == \E p \in Children : child' = [child EXCEPT ![c] = p]
ConnMoves(c) == \E n \in Conns : conn' = [conn EXCEPT ![c] = n]

\* Serve returns to its goroutine, which goes on to the deferred calls.
Served(c) == phase' = [phase EXCEPT ![c] = "served"]

StartFails(c) ==
    /\ Alive /\ phase[c] = "serving"
    /\ CallMoves(c) /\ UNCHANGED <<child, conn>>
    /\ Session(c)!StartFails
    /\ Served(c)
    /\ UNCHANGED <<files, backlog, main, code, slots, wg>>

Start(c) ==
    /\ Alive /\ phase[c] = "serving"
    /\ CallMoves(c) /\ ChildMoves(c) /\ UNCHANGED conn
    /\ Session(c)!Start
    /\ UNCHANGED <<files, backlog, main, code, slots, wg, phase>>

\* By itself, or killed; also after the listening process is gone.
ChildEnds(c) ==
    /\ ChildMoves(c) /\ UNCHANGED <<serve, conn>>
    /\ Session(c)!ChildEnds
    /\ UNCHANGED <<files, backlog, main, code, slots, wg, phase>>

CloseConn(c) ==
    /\ ConnMoves(c) /\ UNCHANGED <<serve, child>>
    /\ Session(c)!CloseConn
    /\ UNCHANGED <<files, backlog, main, code, slots, wg, phase>>

Reap(c) ==
    /\ ChildMoves(c) /\ UNCHANGED <<serve, conn>>
    /\ Session(c)!Reap
    /\ UNCHANGED <<files, backlog, main, code, slots, wg, phase>>

Return(c) ==
    /\ CallMoves(c) /\ UNCHANGED <<child, conn>>
    /\ Session(c)!Return
    /\ Served(c)
    /\ UNCHANGED <<files, backlog, main, code, slots, wg>>

\* The garbage collector finds a connection Serve left open.
Finalize(c) ==
    /\ ConnMoves(c) /\ UNCHANGED <<serve, child>>
    /\ Session(c)!Finalize
    /\ UNCHANGED <<files, backlog, main, code, slots, wg, phase>>

\* The variant gives the slot back for a child that ran, not for a failed Start.
ReleaseSlotOfChild(c) ==
    /\ Alive /\ phase[c] = "served"
    /\ slots' = IF child[c] = "none" THEN slots ELSE slots - 1
    /\ phase' = [phase EXCEPT ![c] = "released"]
    /\ UNCHANGED <<ctxDone, files, backlog, main, code, wg, sessions>>

ReleaseSlot(c) ==
    /\ Alive /\ phase[c] = "served"
    /\ slots' = slots - 1
    /\ phase' = [phase EXCEPT ![c] = "released"]
    /\ UNCHANGED <<ctxDone, files, backlog, main, code, wg, sessions>>

WgDone(c) ==
    /\ Alive /\ phase[c] = "released"
    /\ wg' = wg - 1
    /\ phase' = [phase EXCEPT ![c] = "done"]
    /\ UNCHANGED <<ctxDone, files, backlog, main, code, slots, sessions>>

-----------------------------------------------------------------------------
Main ==
    \/ AcquireSlot \/ SeeDone \/ AcceptConn \/ AcceptClosed
    \/ Finish \/ FinishTimeout \/ Stop \/ Cleanup \/ ProcessExit

Goroutine(c) ==
    \/ StartFails(c) \/ Start(c) \/ Reap(c) \/ Return(c)
    \/ ReleaseSlot(c) \/ WgDone(c)

Next ==
    \/ Main \/ AcceptFails \/ CloserRuns \/ Signal \/ Killed
    \/ \E c \in Clients :
           Goroutine(c) \/ Connect(c) \/ ChildEnds(c) \/ CloseConn(c) \/ Finalize(c)

\* Goroutines run and timers fire; nothing says that an Accept must fail. A cancelled
\* call closes its connection, and a child whose connection is closed or whose call is
\* cancelled is killed.
Fairness ==
    /\ WF_vars(Main) /\ WF_vars(CloserRuns)
    /\ \A c \in Clients :
           /\ WF_vars(Goroutine(c))
           /\ WF_vars(ctxDone /\ CloseConn(c))
           /\ WF_vars((ctxDone \/ conn[c] = "closed") /\ ChildEnds(c))

Spec == Init /\ [][Next]_vars
FairSpec == Spec /\ Fairness

-----------------------------------------------------------------------------
(* Properties.                                                              *)

\* The queued connections are those in the backlog, each once.
BacklogMatches ==
    /\ \A i \in 1..Len(backlog) : phase[backlog[i]] = "queued"
    /\ \A i, j \in 1..Len(backlog) : backlog[i] = backlog[j] => i = j

Phases == {"away", "queued", "serving", "served", "released", "done", "refused"}

\* Types, and the backlog holds what the clients' phases say.
TypeOK ==
    /\ ctxDone \in BOOLEAN
    /\ listener \in {"open", "closed"}
    /\ socket \in BOOLEAN /\ lock \in BOOLEAN
    /\ backlog \in Seq(Clients)
    /\ main \in {"acquire", "accept", "finish", "unwind", "cleanup", "exit", "exited"}
    /\ code \in {"none", "ok", "timeout", "socket", "killed"}
    /\ slots \in 0..MaxConnections
    /\ wg \in Nat
    /\ phase \in [Clients -> Phases]
    /\ serve \in [Clients -> Serves]
    /\ child \in [Clients -> Children]
    /\ conn \in [Clients -> Conns]
    /\ BacklogMatches

Holding == {c \in Clients : phase[c] \in {"serving", "served"}}
Counted == {c \in Clients : phase[c] \in {"serving", "served", "released"}}

\* Every element of the semaphore belongs to the main goroutine waiting in
\* Accept or to a connection that is being served, and the wait group counts
\* exactly the goroutines that have not finished: no path of the loop leaks a
\* slot or gives one back twice.
SlotsMatch ==
    Alive => /\ slots = Cardinality(Holding) + IF main = "accept" THEN 1 ELSE 0
             /\ wg = Cardinality(Counted)

\* The connection limit: at most MaxConnections calls of Serve, and so at most
\* that many bridge processes, exist at a time.
ConnectionLimit ==
    Alive => Cardinality({c \in Clients : child[c] \in {"alive", "ended"}}) <= MaxConnections

\* "SIGTERM reaps children and removes the socket and lock": an exit with code 0
\* leaves no connection half served and no child behind; and no exit of the
\* listener's own, after an accept error or with connections cut short at the
\* shutdown timeout, leaves its socket or its lock.
CleanExit ==
    /\ (main = "exited" /\ code = "ok") =>
           \A c \in Clients : /\ phase[c] \in {"away", "refused", "done"}
                              /\ child[c] \in {"none", "reaped"}
    /\ (main = "exited" /\ code # "killed") => ~socket /\ ~lock

\* A signal ends the process, whatever the connections do.
SignalExits == ctxDone ~> (main = "exited")

\* Every session ends some time: what the listener may only hope for.
SessionsEnd == \A c \in Clients : WF_vars(CloseConn(c))

\* If every session ends some time, a queued connection is served or the
\* listener is on its way out.
QueuedIsServed ==
    SessionsEnd =>
        \A c \in Clients :
            phase[c] = "queued" ~> (phase[c] \in {"serving", "served", "released", "done"}
                                    \/ ctxDone \/ ~Alive)
=============================================================================
