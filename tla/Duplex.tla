------------------------------- MODULE Duplex -------------------------------
(***************************************************************************)
(* streamcopy.Duplex: two copy goroutines, one per direction, a results    *)
(* channel with room for both, and a coordinator that takes the first      *)
(* result (or the cancellation), closes everything, and then waits for the *)
(* second result, the cancellation or a five-second timer.                 *)
(*                                                                         *)
(* A payload is a count of opaque chunks: the code never looks inside one. *)
(* The two peers are the environment; a module that knows them replaces    *)
(* the environment's actions by its own.                                   *)
(***************************************************************************)
EXTENDS Naturals, Sequences

CONSTANTS
    MaxChunks,        \* the most chunks a peer sends in a direction (bound)
    CloseStopsRead,   \* directions whose blocked Read the closeAll callback ends
    CloseStopsWrite,  \* directions whose Write the closeAll callback makes fail
    OddReads,         \* directions whose closed source may answer a Read, and whose
    OddWrites         \* closed sink a Write, with an error IsNormalError does not know

Dirs == {"l2r", "r2l"}
Other(d) == IF d = "l2r" THEN "r2l" ELSE "l2r"

ASSUME DuplexAssumption ==
    /\ MaxChunks \in Nat
    /\ CloseStopsRead \subseteq Dirs
    /\ CloseStopsWrite \subseteq Dirs
    /\ OddReads \subseteq Dirs
    /\ OddWrites \subseteq Dirs

VARIABLES
    ctxDone,     \* the caller's context is cancelled
    source,      \* per direction: chunks sent so far, and how the stream ends
    sink,        \* per direction: what a Write to the destination meets
    copier,      \* per direction: the goroutine running io.Copy
    readShut,    \* directions whose source handle has been closed on our side
    writeShut,   \* directions whose destination handle has been closed on our side
    results,     \* the results channel
    received,    \* <<first, second>>: what the coordinator has taken so far
    closes,      \* how often the closeAll callback has run
    pc           \* the coordinator

peers == <<source, sink>>
shut  == <<readShut, writeShut>>
vars  == <<ctxDone, source, sink, copier, readShut, writeShut,
           results, received, closes, pc>>

-----------------------------------------------------------------------------
(* Errors by the class the code tells apart: "normal" is any non-nil error  *)
(* that IsNormalError accepts, "failure" any error it does not accept.      *)

CopyErrors == {"nil", "normal", "failure"}
AllErrors  == CopyErrors \cup {"canceled", "timeout"}

IsNormalError(err) == err \in {"nil", "normal"}

\* What an operation on a handle we have closed ourselves may return: os, net and
\* io name such an error, other libraries have their own.
ClosedErrors(odd) == IF odd THEN {"normal", "failure"} ELSE {"normal"}

Entry(d, n, err) == [dir |-> d, bytes |-> n, err |-> err]

\* Variants, here and below, of the definition that follows them, each with one
\* mistake: they show that the properties at the end of the module can fail.
InterruptedSilently(err) == Entry("r2l", 0, "nil")

\* The record the coordinator makes up when it stops waiting: only err is set,
\* so leftToRight is false and bytes is 0.
Interrupted(err) == Entry("r2l", 0, err)

OneResultCap == 1

ResultsCap == 2

Init ==
    /\ ctxDone = FALSE
    /\ source = [d \in Dirs |-> [sent |-> 0, end |-> "open"]]
    /\ sink = [d \in Dirs |-> "open"]
    /\ copier = [d \in Dirs |-> [pc |-> "read", n |-> 0, err |-> "nil"]]
    /\ readShut = {} /\ writeShut = {}
    /\ results = <<>> /\ received = <<>>
    /\ closes = 0
    /\ pc = "first"

-----------------------------------------------------------------------------
(* The peers.                                                               *)

PeerSends(d) ==
    /\ source[d].end = "open"
    /\ source[d].sent < MaxChunks
    /\ source' = [source EXCEPT ![d].sent = @ + 1]
    /\ UNCHANGED <<ctxDone, sink, copier, readShut, writeShut, results, received, closes, pc>>

\* A stream ends in order ("eof") or with an error ("failure"); an end nobody
\* has read yet may still turn into an error.
MayEnd(d, how) == source[d].end = "open" \/ (source[d].end = "eof" /\ how = "failure")

PeerEnds(d, how) ==
    /\ MayEnd(d, how)
    /\ source' = [source EXCEPT ![d].end = how]
    /\ UNCHANGED <<ctxDone, sink, copier, readShut, writeShut, results, received, closes, pc>>

\* The peer stops taking what we write: broken pipe, or another error.
PeerBreaks(d, how) ==
    /\ sink[d] = "open"
    /\ sink' = [sink EXCEPT ![d] = how]
    /\ UNCHANGED <<ctxDone, source, copier, readShut, writeShut, results, received, closes, pc>>

\* The peer that feeds direction d and takes the other one does both at once.
PeerGone(d, how, broken) ==
    /\ MayEnd(d, how)
    /\ sink[Other(d)] = "open"
    /\ source' = [source EXCEPT ![d].end = how]
    /\ sink' = [sink EXCEPT ![Other(d)] = broken]
    /\ UNCHANGED <<ctxDone, copier, readShut, writeShut, results, received, closes, pc>>

Cancel ==
    /\ ~ctxDone
    /\ ctxDone' = TRUE
    /\ UNCHANGED <<source, sink, copier, readShut, writeShut, results, received, closes, pc>>

-----------------------------------------------------------------------------
(* copyDirection: io.Copy, then one send on the results channel.            *)

SetCopier(d, state, err) ==
    /\ copier' = [copier EXCEPT ![d].pc = state, ![d].err = err]
    /\ UNCHANGED <<ctxDone, source, sink, readShut, writeShut, results, received, closes, pc>>

\* A Read that returns data leaves the chunk in the goroutine's hands.
CopyRead(d) ==
    /\ copier[d].pc = "read"
    /\ d \notin readShut
    /\ copier[d].n < source[d].sent
    /\ SetCopier(d, "write", "nil")

\* io.Copy turns io.EOF into nil.
CopyReadEnds(d) ==
    /\ copier[d].pc = "read"
    /\ \/ /\ d \in readShut
          /\ \E err \in ClosedErrors(d \in OddReads) : SetCopier(d, "report", err)
       \/ /\ d \notin readShut
          /\ copier[d].n = source[d].sent
          /\ source[d].end = "eof"
          /\ SetCopier(d, "report", "nil")
       \/ /\ d \notin readShut
          /\ copier[d].n = source[d].sent
          /\ source[d].end = "failure"
          /\ SetCopier(d, "report", "failure")

CopyWrite(d) ==
    /\ copier[d].pc = "write"
    /\ d \notin writeShut
    /\ sink[d] = "open"
    /\ copier' = [copier EXCEPT ![d].pc = "read", ![d].n = @ + 1]
    /\ UNCHANGED <<ctxDone, source, sink, readShut, writeShut, results, received, closes, pc>>

CopyWriteEnds(d) ==
    /\ copier[d].pc = "write"
    /\ \/ /\ d \in writeShut
          /\ \E err \in ClosedErrors(d \in OddWrites) : SetCopier(d, "report", err)
       \/ /\ d \notin writeShut
          /\ sink[d] = "broken"
          /\ SetCopier(d, "report", "normal")
       \/ /\ d \notin writeShut
          /\ sink[d] = "failure"
          /\ SetCopier(d, "report", "failure")

\* The variant goes on after its report, as a retry would, and reports again.
CopyReportsAgain(d) ==
    /\ copier[d].pc = "report"
    /\ Len(results) < ResultsCap
    /\ results' = Append(results, Entry(d, copier[d].n, copier[d].err))
    /\ UNCHANGED <<ctxDone, source, sink, copier, readShut, writeShut, received, closes, pc>>

CopyReports(d) ==
    /\ copier[d].pc = "report"
    /\ Len(results) < ResultsCap
    /\ results' = Append(results, Entry(d, copier[d].n, copier[d].err))
    /\ copier' = [copier EXCEPT ![d].pc = "done"]
    /\ UNCHANGED <<ctxDone, source, sink, readShut, writeShut, received, closes, pc>>

-----------------------------------------------------------------------------
(* The coordinator. Where two cases of a select are ready, Go takes either. *)

closeEveryTime ==
    /\ closes' = closes + 1
    /\ readShut' = readShut \cup CloseStopsRead
    /\ writeShut' = writeShut \cup CloseStopsWrite

\* sync.Once: the callback runs the first time only.
closeOnce ==
    /\ closes' = IF closes = 0 THEN 1 ELSE closes
    /\ readShut' = readShut \cup CloseStopsRead
    /\ writeShut' = writeShut \cup CloseStopsWrite

FirstResult ==
    /\ pc = "first"
    /\ results # <<>>
    /\ received' = <<Head(results)>>
    /\ results' = Tail(results)
    /\ closeOnce
    /\ pc' = "second"
    /\ UNCHANGED <<ctxDone, source, sink, copier>>

FirstWaitsForResultOnly == FirstResult

FirstCanceled ==
    /\ pc = "first"
    /\ ctxDone
    /\ closeOnce
    /\ received' = <<Interrupted("canceled")>>
    /\ pc' = "second"
    /\ UNCHANGED <<ctxDone, source, sink, copier, results>>

Returns(entry) ==
    /\ pc = "second"
    /\ received' = Append(received, entry)
    /\ closeOnce
    /\ pc' = "returned"
    /\ UNCHANGED <<ctxDone, source, sink, copier>>

SecondResult ==
    /\ results # <<>>
    /\ results' = Tail(results)
    /\ Returns(Head(results))

SecondCanceled ==
    /\ ctxDone
    /\ Returns(Interrupted("canceled"))
    /\ UNCHANGED results

SecondWaitsForEver ==
    /\ ctxDone
    /\ Returns(Interrupted("timeout"))
    /\ UNCHANGED results

\* time.After(5s): nothing bounds how slow the other direction may be.
SecondTimeout ==
    /\ Returns(Interrupted("timeout"))
    /\ UNCHANGED results

\* The Result, computed from the two entries after the second select. The error
\* is that of the first entry that has an abnormal one (in the variant, of the
\* last); an entry writes the byte count of its own direction, later ones overwrite.
ResultErrLast ==
    IF ~IsNormalError(received[2].err) THEN received[2].err
    ELSE IF ~IsNormalError(received[1].err) THEN received[1].err
    ELSE "nil"

ResultErr ==
    IF ~IsNormalError(received[1].err) THEN received[1].err
    ELSE IF ~IsNormalError(received[2].err) THEN received[2].err
    ELSE "nil"

ResultReason ==
    CASE ResultErr = "canceled" -> "canceled"
      [] ResultErr = "nil"      -> "eof"
      [] OTHER                  -> "error"

ResultBytes(d) ==
    IF received[2].dir = d THEN received[2].bytes
    ELSE IF received[1].dir = d THEN received[1].bytes
    ELSE 0

\* What the caller closes later than closeAll's first close: by a second close
\* inside the callback, or of its own accord once it has the Result.
CallerCloses(d) ==
    /\ closes > 0
    /\ d \notin readShut
    /\ readShut' = readShut \cup {d}
    /\ UNCHANGED <<ctxDone, source, sink, copier, writeShut, results, received, closes, pc>>

-----------------------------------------------------------------------------
\* Everything io.Copy does except a Write the destination takes.
CopyProgress(d) == CopyRead(d) \/ CopyReadEnds(d) \/ CopyWriteEnds(d) \/ CopyReports(d)

Copy(d) == CopyWrite(d) \/ CopyProgress(d)

Coordinator == FirstResult \/ FirstCanceled \/ SecondResult \/ SecondCanceled \/ SecondTimeout

Peers ==
    \/ \E d \in Dirs : PeerSends(d)
    \/ \E d \in Dirs, how \in {"eof", "failure"} : PeerEnds(d, how)
    \/ \E d \in Dirs, how \in {"broken", "failure"} : PeerBreaks(d, how)
    \/ \E d \in Dirs, how \in {"eof", "failure"}, broken \in {"broken", "failure"} :
           PeerGone(d, how, broken)

Next ==
    \/ Peers
    \/ Cancel
    \/ Coordinator
    \/ \E d \in Dirs : Copy(d) \/ CallerCloses(d)

\* The Go scheduler runs every runnable goroutine; timers fire. A Write into an
\* open sink may block for ever, so CopyWrite gets no fairness, and neither
\* does anything the peers do.
Fairness ==
    /\ WF_vars(Coordinator)
    /\ \A d \in Dirs : WF_vars(CopyProgress(d))

Spec == Init /\ [][Next]_vars
FairSpec == Spec /\ Fairness

-----------------------------------------------------------------------------
(* Properties.                                                              *)

CopyEntries == [dir : Dirs, bytes : 0..MaxChunks, err : CopyErrors]
AllEntries  == [dir : Dirs, bytes : 0..MaxChunks, err : AllErrors]

StreamsOK ==
    /\ ctxDone \in BOOLEAN
    /\ source \in [Dirs -> [sent : 0..MaxChunks, end : {"open", "eof", "failure"}]]
    /\ sink \in [Dirs -> {"open", "broken", "failure"}]
    /\ readShut \subseteq Dirs /\ writeShut \subseteq Dirs

\* Chunks a direction has read: those it has written and the one in its hands.
InHand(d) == IF copier[d].pc = "write" THEN 1 ELSE 0

CopiersOK ==
    /\ copier \in [Dirs -> [pc : {"read", "write", "report", "done"},
                            n : 0..MaxChunks, err : CopyErrors]]
    /\ \A d \in Dirs : copier[d].n + InHand(d) <= source[d].sent

ChannelOK ==
    /\ results \in Seq(CopyEntries) /\ Len(results) <= 2
    /\ received \in Seq(AllEntries)
    /\ Len(received) = IF pc = "first" THEN 0 ELSE IF pc = "second" THEN 1 ELSE 2
    /\ closes \in {0, 1}
    /\ pc \in {"first", "second", "returned"}

\* Types and ranges. A direction never reports more chunks than its source
\* sent, and the results channel never holds more than it has room for.
TypeOK == StreamsOK /\ CopiersOK /\ ChannelOK

Truthful(e) ==
    /\ copier[e.dir].pc = "done"
    /\ e.bytes = copier[e.dir].n
    /\ e.err = copier[e.dir].err

Genuine(e) == e.err \in CopyErrors

\* Every result in the channel, and every result the coordinator has taken and
\* not made up itself, is the exact account of a direction that has ended, and
\* no direction is accounted for twice.
ResultsTruthful ==
    /\ \A i \in 1..Len(results) : Truthful(results[i])
    /\ \A k \in 1..Len(received) : Genuine(received[k]) => Truthful(received[k])
    /\ \A i, j \in 1..Len(results) : results[i].dir = results[j].dir => i = j
    /\ \A k, l \in 1..Len(received) :
           (Genuine(received[k]) /\ Genuine(received[l]) /\ received[k].dir = received[l].dir)
               => k = l
    /\ \A i \in 1..Len(results), k \in 1..Len(received) :
           Genuine(received[k]) => received[k].dir # results[i].dir

\* A nil Err (Reason "eof") is only ever returned when both io.Copy calls have
\* come back without an abnormal error, and then both byte counts are exact,
\* in whichever order the two goroutines, the cancellation and the timer ran.
CleanReturn ==
    (pc = "returned" /\ ResultErr = "nil") =>
        \A d \in Dirs : /\ copier[d].pc = "done"
                        /\ IsNormalError(copier[d].err)
                        /\ ResultBytes(d) = copier[d].n

\* Whatever the two entries are, and although the one made up on a cancellation
\* or a timeout may overwrite a true one, a reported byte count is never higher
\* than what was written, and an error of the direction that ended first is the
\* one returned.
CountsWithinCopied ==
    pc = "returned" =>
        /\ \A d \in Dirs : ResultBytes(d) <= copier[d].n
        /\ (Genuine(received[1]) /\ ~IsNormalError(received[1].err)) =>
               ResultErr = copier[received[1].dir].err

\* "closeAll ... is called exactly once when either direction ends": never
\* before a direction has ended or the caller cancelled, and always before
\* Duplex returns, whatever the second select does.
CloseAllOnce ==
    /\ closes = IF pc = "first" THEN 0 ELSE 1
    /\ closes > 0 => ctxDone \/ \E d \in Dirs : copier[d].pc = "done"

\* Duplex returns once a direction has ended or the caller has cancelled, even
\* if the other direction is never interrupted.
Terminates ==
    (ctxDone \/ \E d \in Dirs : copier[d].pc \in {"report", "done"}) ~> (pc = "returned")

\* Once Duplex has returned and both sources are closed, by closeAll ("must
\* interrupt any blocked reads") or later by the caller, no copy goroutine stays
\* behind for ever, although after a cancellation or a timeout nobody receives
\* its result.
NoLeak == (pc = "returned" /\ readShut = Dirs) ~> (\A d \in Dirs : copier[d].pc = "done")
=============================================================================
