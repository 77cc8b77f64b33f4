----------------------------- MODULE Connection -----------------------------
(***************************************************************************)
(* What the listener may rely on for one accepted connection: the contract *)
(* of execbridge.Serve, seen from outside. The connection owns at most one *)
(* child process; the call does not return before the child it started is  *)
(* dead and reaped and the connection is closed. The listening process may *)
(* end at any time; then nobody runs the rest of the call.                 *)
(***************************************************************************)
VARIABLES
    ctxDone,   \* the caller's context is cancelled
    serve,     \* the call: before Start, running, returned, or ended with the process
    child,     \* the child process
    conn       \* the accepted connection, on our side

vars == <<ctxDone, serve, child, conn>>

Init ==
    /\ ctxDone = FALSE
    /\ serve = "start"
    /\ child = "none"
    /\ conn = "open"

Cancel ==
    /\ ~ctxDone
    /\ ctxDone' = TRUE
    /\ UNCHANGED <<serve, child, conn>>

\* The error return before the child runs: nothing closes the connection.
StartFails ==
    /\ serve = "start"
    /\ serve' = "returned"
    /\ UNCHANGED <<ctxDone, child, conn>>

Start ==
    /\ serve = "start"
    /\ serve' = "running"
    /\ child' = "alive"
    /\ UNCHANGED <<ctxDone, conn>>

ChildEnds ==
    /\ child = "alive"
    /\ child' = "ended"
    /\ UNCHANGED <<ctxDone, serve, conn>>

CloseConn ==
    /\ serve = "running"
    /\ conn = "open"
    /\ conn' = "closed"
    /\ UNCHANGED <<ctxDone, serve, child>>

Reap ==
    /\ serve = "running"
    /\ conn = "closed"
    /\ child = "ended"
    /\ child' = "reaped"
    /\ UNCHANGED <<ctxDone, serve, conn>>

Return ==
    /\ serve = "running"
    /\ child = "reaped"
    /\ serve' = "returned"
    /\ UNCHANGED <<ctxDone, child, conn>>

\* A connection left open is closed when the garbage collector finds it.
Finalize ==
    /\ serve = "returned"
    /\ conn = "open"
    /\ conn' = "closed"
    /\ UNCHANGED <<ctxDone, serve, child>>

\* The listening process ends; the kernel closes what it held.
ProcessEnds ==
    /\ serve # "gone"
    /\ serve' = "gone"
    /\ conn' = "closed"
    /\ UNCHANGED <<ctxDone, child>>

Next ==
    \/ Cancel \/ StartFails \/ Start \/ ChildEnds \/ CloseConn
    \/ Reap \/ Return \/ Finalize \/ ProcessEnds

Spec == Init /\ [][Next]_vars

\* A cancelled call comes to an end.
CancelEnds == ctxDone ~> (serve \in {"returned", "gone"})
=============================================================================
