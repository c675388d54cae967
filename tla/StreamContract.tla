--------------------------- MODULE StreamContract ---------------------------
(***************************************************************************)
(* What POST /api/stream_reasoning_engine promises its caller: a status,   *)
(* sent once and before any line; then the texts of the turn, one line     *)
(* each, in order and without a gap; then the end of the body, which means *)
(* that the turn is complete and every text was sent, or comes with the    *)
(* news that it failed.  A caller that hung up is promised nothing but     *)
(* that the response ends; the turn itself may go on after that.           *)
(***************************************************************************)
EXTENDS Naturals, Sequences

CONSTANTS MaxChunks,  \* bound on the texts of one turn
          ErrorLine   \* the trailing line of a turn that failed

VARIABLES produced, \* the texts the turn has produced
          outcome,  \* how it ended: "running", "ok" or "failed"
          status,   \* the HTTP status sent, 0 before
          body,     \* the lines sent: text n is the number n
          ended,    \* the response is complete
          caller    \* "there" or "gone"

response == <<status, body, ended>>
vars == <<produced, outcome, response, caller>>

Init ==
    /\ produced = 0 /\ outcome = "running"
    /\ status = 0 /\ body = <<>> /\ ended = FALSE /\ caller = "there"

Rejected == status \in {400, 405}

Produce ==
    /\ outcome = "running" /\ ~Rejected
    /\ produced < MaxChunks
    /\ produced' = produced + 1
    /\ UNCHANGED <<outcome, response, caller>>

TurnEnds ==
    /\ outcome = "running" /\ ~Rejected
    /\ outcome' \in {"ok", "failed"}
    /\ UNCHANGED <<produced, response, caller>>

\* A malformed request gets an error, no body and no turn.
Reject ==
    /\ ~ended /\ status = 0
    /\ produced = 0 /\ outcome = "running"
    /\ status' \in {400, 405}
    /\ ended' = TRUE
    /\ UNCHANGED <<produced, outcome, body, caller>>

Line ==
    /\ ~ended /\ status \in {0, 200}
    /\ Len(body) < produced
    /\ status' = 200
    /\ body' = Append(body, Len(body) + 1)
    /\ UNCHANGED <<produced, outcome, ended, caller>>

Finish ==
    /\ ~ended /\ status \in {0, 200}
    /\ outcome = "ok" /\ Len(body) = produced
    /\ status' = 200
    /\ ended' = TRUE
    /\ UNCHANGED <<produced, outcome, body, caller>>

\* A turn that fails before its first text is an HTTP error; one that fails later
\* ends in an error line, because the status is sent already.
Fail ==
    /\ ~ended
    /\ outcome = "failed"
    /\ caller = "there" => Len(body) = produced
    /\ ended' = TRUE
    /\ UNCHANGED <<produced, outcome, caller>>
    /\ \/ status = 0 /\ status' = 500 /\ UNCHANGED body
       \/ status = 200 /\ status' = 200 /\ body' = Append(body, ErrorLine)

\* A response nobody reads any more may end anywhere.
Abandon ==
    /\ ~ended /\ caller = "gone"
    /\ ended' = TRUE
    /\ status' \in {status, 200}
    /\ UNCHANGED <<produced, outcome, body, caller>>

HangUp == caller = "there" /\ caller' = "gone" /\ UNCHANGED <<produced, outcome, response>>

Respond == Reject \/ Line \/ Finish \/ Fail \/ Abandon

Turn == Produce \/ TurnEnds

Next == Turn \/ Respond \/ HangUp

Safety == Init /\ [][Next]_vars

\* The response goes on while it can, and the turn while somebody answers for it.
Spec == Safety /\ WF_vars(Respond) /\ WF_vars(~ended /\ Turn)
=============================================================================
