------------------------------- MODULE Stream -------------------------------
(***************************************************************************)
(* One streaming request of the runtime (cmd/vertex-runtime): the handler  *)
(* goroutine (newStreamHandler, writeStream) and the turn's goroutine      *)
(* (newStreamFunc, streamTurn), joined by an unbuffered channel of texts   *)
(* and an error channel with room for one, with the caller, who may hang   *)
(* up at any moment, and net/http, which then cancels the context.         *)
(***************************************************************************)
EXTENDS Naturals, Sequences

CONSTANTS MaxChunks,  \* bound on the texts of one turn
          ErrorLine   \* the trailing ndjson line of a turn that failed

ASSUME StreamAssumption == MaxChunks \in Nat /\ ErrorLine \notin Nat

VARIABLES
    writer,     \* where the handler is
    chunk,      \* the text it received and has not written, 0 for none
    status,     \* the HTTP status it sent, 0 before
    body,       \* the lines it sent: text n is the number n
    turn,       \* where the turn's goroutine is, "none" before it is started
    produced,   \* the texts the conversation has produced
    outcome,    \* streamTurn's result: "running", "ok" or "failed"
    errs,       \* the error channel's buffer: "empty" or "error"
    errsClosed, \* close(errCh) was called
    outClosed,  \* close(out) was called
    caller,     \* "there" or "gone"
    cancelled   \* the request's context is done

handlerVars == <<writer, chunk, status, body>>
turnVars == <<turn, produced, outcome, errs, errsClosed, outClosed>>
vars == <<handlerVars, turnVars, caller, cancelled>>

TypeOK ==
    /\ writer \in {"decoding", "receiving", "encoding", "draining", "done"}
    /\ chunk \in 0..MaxChunks
    /\ status \in {0, 200, 400, 405, 500}
    /\ body \in Seq(1..MaxChunks \cup {ErrorLine})
    /\ turn \in {"none", "opening", "pulling", "offering", "returned", "reported", "closing", "done"}
    /\ produced \in 0..MaxChunks
    /\ outcome \in {"running", "ok", "failed"}
    /\ errs \in {"empty", "error"}
    /\ errsClosed \in BOOLEAN /\ outClosed \in BOOLEAN /\ cancelled \in BOOLEAN
    /\ caller \in {"there", "gone"}

Init ==
    /\ writer = "decoding" /\ chunk = 0 /\ status = 0 /\ body = <<>>
    /\ turn = "none" /\ produced = 0 /\ outcome = "running"
    /\ errs = "empty" /\ errsClosed = FALSE /\ outClosed = FALSE
    /\ caller = "there" /\ cancelled = FALSE
-----------------------------------------------------------------------------
(***************************************************************************)
(* The handler.                                                            *)
(***************************************************************************)

\* A request that is not a POST, or whose body is not the contract's JSON.
Reject ==
    /\ writer = "decoding"
    /\ status' \in {400, 405}
    /\ writer' = "done"
    /\ UNCHANGED <<chunk, body, turnVars, caller, cancelled>>

\* newStreamFunc makes the channels and starts the goroutine.
StartTurn ==
    /\ writer = "decoding"
    /\ writer' = "receiving"
    /\ turn' = "opening"
    /\ UNCHANGED <<chunk, status, body, produced, outcome, errs, errsClosed, outClosed,
                   caller, cancelled>>

\* The first text sends the status; every text is flushed as a line.
Encode ==
    /\ writer = "encoding"
    /\ status' = 200
    /\ body' = Append(body, chunk)
    /\ chunk' = 0
    /\ writer' = "receiving"
    /\ UNCHANGED <<turnVars, caller, cancelled>>

\* Writing to a caller who is gone fails, at the latest once the connection is
\* known to be lost; the handler leaves without draining the channels.
EncodeFails ==
    /\ writer = "encoding"
    /\ caller = "gone"
    /\ status' = 200
    /\ chunk' = 0
    /\ writer' = "done"
    /\ UNCHANGED <<body, turnVars, caller, cancelled>>

\* range chunks ends when the channel is closed.
ChunksEnd ==
    /\ writer = "receiving"
    /\ outClosed
    /\ writer' = "draining"
    /\ UNCHANGED <<chunk, status, body, turnVars, caller, cancelled>>

\* The error channel is closed and empty: the turn is complete.
FinishOk ==
    /\ writer = "draining"
    /\ errs = "empty" /\ errsClosed
    /\ status' = 200
    /\ writer' = "done"
    /\ UNCHANGED <<chunk, body, turnVars, caller, cancelled>>

\* A bug: an error after the first text is dropped, the status being sent.
FinishErrorSilently ==
    /\ writer = "draining"
    /\ errs = "error"
    /\ errs' = "empty"
    /\ status' = IF status = 0 THEN 500 ELSE status
    /\ writer' = "done"
    /\ UNCHANGED <<chunk, body, turn, produced, outcome, errsClosed, outClosed,
                   caller, cancelled>>

\* An error before the first text is an HTTP error, a later one a trailing line.
FinishError ==
    /\ writer = "draining"
    /\ errs = "error"
    /\ errs' = "empty"
    /\ \/ status = 0 /\ status' = 500 /\ UNCHANGED body
       \/ status = 200 /\ body' = Append(body, ErrorLine) /\ UNCHANGED status
    /\ writer' = "done"
    /\ UNCHANGED <<chunk, turn, produced, outcome, errsClosed, outClosed, caller, cancelled>>
-----------------------------------------------------------------------------
(***************************************************************************)
(* The turn's goroutine.                                                   *)
(***************************************************************************)

\* streamTurn returns; the error, if any, is still to be sent.
TurnReturns(how) ==
    /\ turn' = "returned"
    /\ outcome' = how
    /\ UNCHANGED <<handlerVars, produced, errs, errsClosed, outClosed, caller, cancelled>>

\* No message in the input, a session without storage, no conversation.
OpenFails == turn = "opening" /\ TurnReturns("failed")

Open ==
    /\ turn = "opening"
    /\ turn' = "pulling"
    /\ UNCHANGED <<handlerVars, produced, outcome, errs, errsClosed, outClosed,
                   caller, cancelled>>

\* A bug: a chunk without text is sent as well.
NextChunk ==
    /\ turn = "pulling"
    /\ produced < MaxChunks
    /\ produced' \in {produced, produced + 1}
    /\ turn' = "offering"
    /\ UNCHANGED <<handlerVars, outcome, errs, errsClosed, outClosed, caller, cancelled>>

\* The conversation's stream yields a text; anything else it yields is skipped
\* and changes nothing.
NextText ==
    /\ turn = "pulling"
    /\ produced < MaxChunks
    /\ produced' = produced + 1
    /\ turn' = "offering"
    /\ UNCHANGED <<handlerVars, outcome, errs, errsClosed, outClosed, caller, cancelled>>

\* It yields an error, which it does at any time, also for a cancelled context.
ChunkError == turn = "pulling" /\ TurnReturns("failed")

\* Or it is closed.
StreamEnds == turn = "pulling" /\ TurnReturns("ok")

\* out <- text: the channel is unbuffered, so both goroutines step.
Send ==
    /\ turn = "offering" /\ writer = "receiving"
    /\ chunk' = produced
    /\ writer' = "encoding"
    /\ turn' = "pulling"
    /\ UNCHANGED <<status, body, produced, outcome, errs, errsClosed, outClosed,
                   caller, cancelled>>

\* A bug: a text nobody receives at once is dropped.
SendCancelledDropping ==
    /\ turn = "offering"
    /\ turn' = "pulling"
    /\ UNCHANGED <<handlerVars, produced, outcome, errs, errsClosed, outClosed,
                   caller, cancelled>>

\* <-ctx.Done(), which select may choose even when a receiver is ready.
SendCancelled == turn = "offering" /\ cancelled /\ TurnReturns("failed")

\* A bug: the error channel has no room, so the send waits for the handler.
ReportUnbuffered ==
    /\ turn = "returned"
    /\ outcome = "failed" => writer = "draining"
    /\ errs' = IF outcome = "failed" THEN "error" ELSE "empty"
    /\ turn' = "reported"
    /\ UNCHANGED <<handlerVars, produced, outcome, errsClosed, outClosed, caller, cancelled>>

\* errCh <- err never blocks: the channel has room for the one error.
Report ==
    /\ turn = "returned"
    /\ errs' = IF outcome = "failed" THEN "error" ELSE "empty"
    /\ turn' = "reported"
    /\ UNCHANGED <<handlerVars, produced, outcome, errsClosed, outClosed, caller, cancelled>>

\* The deferred calls, last first: close(errCh), then close(out).
CloseErrs ==
    /\ turn = "reported"
    /\ errsClosed' = TRUE
    /\ turn' = "closing"
    /\ UNCHANGED <<handlerVars, produced, outcome, errs, outClosed, caller, cancelled>>

CloseOut ==
    /\ turn = "closing"
    /\ outClosed' = TRUE
    /\ turn' = "done"
    /\ UNCHANGED <<handlerVars, produced, outcome, errs, errsClosed, caller, cancelled>>
-----------------------------------------------------------------------------
(***************************************************************************)
(* The caller and net/http.                                                *)
(***************************************************************************)
HangUp ==
    /\ caller = "there"
    /\ caller' = "gone"
    /\ UNCHANGED <<handlerVars, turnVars, cancelled>>

\* net/http cancels the context when the connection is lost, which it notices
\* some time later, and when the handler has returned.
CancelContext ==
    /\ ~cancelled
    /\ caller = "gone" \/ writer = "done"
    /\ cancelled' = TRUE
    /\ UNCHANGED <<handlerVars, turnVars, caller>>

Handler == Reject \/ StartTurn \/ Encode \/ EncodeFails \/ ChunksEnd \/ FinishOk \/ FinishError

Turn == OpenFails \/ Open \/ NextText \/ ChunkError \/ StreamEnds \/ Send \/ SendCancelled
          \/ Report \/ CloseErrs \/ CloseOut

Next == Handler \/ Turn \/ HangUp \/ CancelContext

Spec == Init /\ [][Next]_vars

\* The scheduler runs both goroutines, the conversation's stream yields something
\* or ends, and net/http cancels the context when it has to.  Nobody hangs up of
\* necessity.
FairSpec == Spec /\ WF_vars(Handler) /\ WF_vars(Turn) /\ WF_vars(CancelContext)
-----------------------------------------------------------------------------
\* The first k texts of a turn.
Texts(k) == [n \in 1..k |-> n]

\* A caller who stays gets the whole story: a complete turn in all its texts, a
\* failed one as an HTTP error when it had produced nothing, else as all texts
\* produced and an error line.  A truncated answer never looks complete.
OutcomeReported ==
    writer = "done" /\ caller = "there" /\ turn # "none" =>
        \/ outcome = "ok" /\ status = 200 /\ body = Texts(produced)
        \/ outcome = "failed" /\ produced = 0 /\ status = 500 /\ body = <<>>
        \/ outcome = "failed" /\ produced > 0 /\ status = 200
             /\ body = Append(Texts(produced), ErrorLine)

\* The response the caller sees implements StreamContract, its progress included.
Contract == INSTANCE StreamContract WITH ended <- writer = "done"
HonoursContract == Contract!Spec

\* Neither goroutine outlives the request for long, however the caller leaves and
\* wherever the other one is: none waits for ever on a channel.
GoroutinesEnd == <>(writer = "done" /\ turn \in {"none", "done"})
=============================================================================
