---------------------------- MODULE StreamProofs ----------------------------
(***************************************************************************)
(* Theorems about Stream, for turns of any length.                         *)
(***************************************************************************)
EXTENDS Stream, TLAPS

Returned == {"returned", "reported", "closing", "done"}
Serving == {"receiving", "encoding", "draining"}

\* Where the two goroutines can be at the same time, and what the error channel
\* holds then.
Control ==
    /\ writer \in {"decoding", "done"} \cup Serving
    /\ turn \in {"none", "opening", "pulling", "offering"} \cup Returned
    /\ outcome \in {"running", "ok", "failed"}
    /\ errs \in {"empty", "error"}
    /\ caller \in {"there", "gone"}
    /\ turn = "none" => writer \in {"decoding", "done"}
    /\ writer = "decoding" => turn = "none"
    /\ writer = "draining" => turn = "done"
    /\ writer = "done" /\ caller = "there" => turn \in {"none", "done"}
    /\ outcome = "running" => turn \notin Returned
    /\ turn \notin Returned => outcome = "running" /\ errs = "empty"
    /\ turn = "returned" => errs = "empty"
    /\ errs = "error" => outcome = "failed"
    /\ turn \in Returned \ {"returned"} /\ outcome = "failed" /\ writer # "done"
         => errs = "error"

\* What closes and cancels: the flags are set by nobody else.
Flags ==
    /\ errsClosed \in BOOLEAN /\ outClosed \in BOOLEAN /\ cancelled \in BOOLEAN
    /\ outClosed => turn = "done"
    /\ cancelled => caller = "gone" \/ writer = "done"

\* The texts the handler has taken from the channel.
Taken == IF writer = "encoding" THEN Len(body) + 1 ELSE Len(body)

\* While the handler serves, every text produced is taken, but for the one on
\* offer and the one a cancelled turn gave up.
Accounted ==
    /\ turn \in {"opening", "pulling"} => produced = Taken
    /\ turn = "offering" => produced = Taken + 1
    /\ turn \in Returned =>
         produced = Taken \/ (produced = Taken + 1 /\ cancelled /\ outcome = "failed")

Data ==
    /\ chunk \in 0..MaxChunks
    /\ status \in {0, 200, 400, 405, 500}
    /\ body \in Seq(1..MaxChunks \cup {ErrorLine})
    /\ produced \in 0..MaxChunks
    /\ writer = "decoding" => produced = 0 /\ chunk = 0 /\ body = <<>> /\ status = 0
    /\ status \in {400, 405} => turn = "none"
    /\ writer \in Serving =>
        /\ \A n \in 1..Len(body) : body[n] = n
        /\ status = IF body = <<>> THEN 0 ELSE 200
        /\ chunk = IF writer = "encoding" THEN Len(body) + 1 ELSE 0
        /\ Accounted
    /\ OutcomeReported

IInv == Control /\ Flags /\ Data
-----------------------------------------------------------------------------
\* Every action preserves the control part, whatever the texts are.
LEMMA ControlStep ==
  ASSUME Control, Flags, [Next]_vars
  PROVE  Control'
<1> USE DEF Control, Returned, Serving, handlerVars, turnVars
<1>1. CASE Reject \/ StartTurn
  BY <1>1 DEF Reject, StartTurn
<1>2. CASE Encode \/ EncodeFails
  BY <1>2 DEF Encode, EncodeFails
<1>3. CASE ChunksEnd
  BY <1>3 DEF ChunksEnd, Flags
<1>4. CASE FinishOk \/ FinishError
  BY <1>4 DEF FinishOk, FinishError
<1>5. CASE OpenFails \/ Open \/ ChunkError \/ StreamEnds
  BY <1>5 DEF OpenFails, Open, ChunkError, StreamEnds, TurnReturns
<1>6. CASE NextText \/ Send
  BY <1>6 DEF NextText, Send
<1>7. CASE SendCancelled
  BY <1>7 DEF SendCancelled, TurnReturns
<1>8. CASE Report
  BY <1>8 DEF Report
<1>9. CASE CloseErrs \/ CloseOut
  BY <1>9 DEF CloseErrs, CloseOut
<1>10. CASE HangUp \/ CancelContext \/ UNCHANGED vars
  BY <1>10 DEF HangUp, CancelContext, vars
<1> QED
  BY <1>1, <1>2, <1>3, <1>4, <1>5, <1>6, <1>7, <1>8, <1>9, <1>10
  DEF Next, Handler, Turn

\* Every action preserves the flags.
LEMMA FlagsStep ==
  ASSUME Control, Flags, [Next]_vars
  PROVE  Flags'
<1> USE DEF Control, Returned, Serving, Flags, handlerVars, turnVars
<1>1. CASE Reject \/ StartTurn \/ Encode \/ EncodeFails \/ ChunksEnd \/ FinishOk \/ FinishError
  BY <1>1 DEF Reject, StartTurn, Encode, EncodeFails, ChunksEnd, FinishOk, FinishError
<1>2. CASE OpenFails \/ Open \/ ChunkError \/ StreamEnds \/ SendCancelled
  BY <1>2 DEF OpenFails, Open, ChunkError, StreamEnds, SendCancelled, TurnReturns
<1>3. CASE NextText \/ Send \/ Report
  BY <1>3 DEF NextText, Send, Report
<1>4. CASE CloseErrs
  BY <1>4, ZenonT(20) DEF CloseErrs
<1>5. CASE CloseOut
  BY <1>5, ZenonT(20) DEF CloseOut
<1>6. CASE HangUp
  BY <1>6, ZenonT(20) DEF HangUp
<1>7. CASE CancelContext
  BY <1>7, ZenonT(20) DEF CancelContext
<1>8. CASE UNCHANGED vars
  BY <1>8 DEF vars
<1> QED
  BY <1>1, <1>2, <1>3, <1>4, <1>5, <1>6, <1>7, <1>8 DEF Next, Handler, Turn

\* Lines that number themselves are the first texts of the turn.
LEMMA LinesAreTexts ==
  ASSUME NEW S, NEW lines \in Seq(S), \A n \in 1..Len(lines) : lines[n] = n
  PROVE  lines = Texts(Len(lines))
BY DEF Texts

\* Writing the text received keeps the data in order.
LEMMA EncodeKeepsData ==
  ASSUME Control, Data, Encode
  PROVE  Data'
<1> USE StreamAssumption DEF Control, Data, Serving, Returned, Encode, turnVars
<1>1. chunk = Len(body) + 1 /\ chunk \in 1..MaxChunks
  BY DEF Accounted, Taken
<1>2. body' \in Seq(1..MaxChunks \cup {ErrorLine}) /\ Len(body') = Len(body) + 1
  BY <1>1
<1>3. \A n \in 1..Len(body') : body'[n] = n
  BY <1>1, <1>2
<1>4. Accounted'
  BY <1>1, <1>2 DEF Accounted, Taken
<1>5. OutcomeReported' /\ body' # <<>>
  BY <1>2 DEF OutcomeReported
<1> QED
  BY <1>1, <1>2, <1>3, <1>4, <1>5

\* A handler that finishes tells the outcome to a caller who is there.
LEMMA FinishKeepsData ==
  ASSUME Control, Flags, Data, FinishOk \/ FinishError
  PROVE  Data'
<1> USE StreamAssumption DEF Control, Data, Serving, Returned, turnVars
<1>1. writer = "draining" /\ turn = "done" /\ writer' = "done"
  BY DEF FinishOk, FinishError
<1>2. body = Texts(Len(body))
  BY <1>1, LinesAreTexts
<1>3. caller = "there" \/ outcome = "ok" => produced = Len(body)
  BY <1>1 DEF Accounted, Taken, Flags
<1>4. CASE FinishOk
  BY <1>1, <1>2, <1>3, <1>4 DEF FinishOk, OutcomeReported
<1>5. CASE FinishError
  <2>1. body' \in Seq(1..MaxChunks \cup {ErrorLine})
    BY <1>5 DEF FinishError
  <2>2. OutcomeReported'
    BY <1>1, <1>2, <1>3, <1>5 DEF FinishError, OutcomeReported
  <2> QED
    BY <1>1, <1>5, <2>1, <2>2 DEF FinishError
<1> QED
  BY <1>4, <1>5

\* Every action preserves the data part.
LEMMA DataStep ==
  ASSUME Control, Flags, Data, [Next]_vars
  PROVE  Data'
<1> USE StreamAssumption DEF Control, Data, Accounted, Taken, OutcomeReported, Serving, Returned,
                             handlerVars, turnVars
<1>1. CASE Reject
  BY <1>1 DEF Reject
<1>2. CASE StartTurn
  BY <1>2 DEF StartTurn
<1>3. CASE Encode
  BY <1>3, EncodeKeepsData
<1>4. CASE EncodeFails
  BY <1>4 DEF EncodeFails
<1>5. CASE ChunksEnd
  BY <1>5 DEF ChunksEnd
<1>6. CASE FinishOk \/ FinishError
  BY <1>6, FinishKeepsData
<1>7. ASSUME NEW how \in {"ok", "failed"}, TurnReturns(how), turn \in {"opening", "pulling"}
      PROVE  Data'
  BY <1>7 DEF TurnReturns
<1>8. CASE Open
  BY <1>8 DEF Open
<1>9. CASE NextText
  BY <1>9 DEF NextText
<1>10. CASE Send
  BY <1>10 DEF Send
<1>11. CASE SendCancelled
  BY <1>11 DEF SendCancelled, TurnReturns
<1>12. CASE Report \/ CloseErrs \/ CloseOut
  BY <1>12 DEF Report, CloseErrs, CloseOut
<1>13. CASE HangUp
  BY <1>13 DEF HangUp
<1>14. CASE CancelContext
  BY <1>14 DEF CancelContext
<1>15. CASE UNCHANGED vars
  BY <1>15 DEF vars
<1> QED
  BY <1>1, <1>2, <1>3, <1>4, <1>5, <1>6, <1>7, <1>8, <1>9, <1>10, <1>11, <1>12, <1>13, <1>14, <1>15
  DEF Next, Handler, Turn, OpenFails, ChunkError, StreamEnds
-----------------------------------------------------------------------------
\* A request starts with nothing unaccounted for.
LEMMA InitHolds == Init => IInv
<1> SUFFICES ASSUME Init PROVE IInv
  OBVIOUS
<1> USE StreamAssumption
<1>1. Control
  BY DEF Init, Control, Returned, Serving
<1>2. Flags
  BY ZenonT(20) DEF Init, Flags
<1>3. body \in Seq(1..MaxChunks \cup {ErrorLine})
  BY DEF Init
<1>4. Data
  BY <1>3 DEF Init, Data, Serving, OutcomeReported
<1> QED BY <1>1, <1>2, <1>4 DEF IInv

\* Every text is accounted for in every reachable state.
LEMMA Inductive == Spec => []IInv
<1>1. IInv /\ [Next]_vars => IInv'
  BY ControlStep, FlagsStep, DataStep DEF IInv
<1> QED BY InitHolds, <1>1, PTL DEF Spec

\* The state of both goroutines stays well-formed.
THEOREM TypeCorrect == Spec => []TypeOK
<1>1. Control => /\ writer \in {"decoding", "receiving", "encoding", "draining", "done"}
                 /\ turn \in {"none", "opening", "pulling", "offering", "returned", "reported",
                              "closing", "done"}
                 /\ outcome \in {"running", "ok", "failed"}
                 /\ errs \in {"empty", "error"}
                 /\ caller \in {"there", "gone"}
  BY DEF Control, Returned, Serving
<1>2. IInv => TypeOK
  BY <1>1, ZenonT(20) DEF IInv, Data, Flags, TypeOK
<1> QED BY Inductive, <1>2, PTL

\* A caller who stays is told how the turn ended and gets every text of it: a
\* truncated answer never looks complete, whatever the two goroutines' order.
THEOREM OutcomeTold == Spec => []OutcomeReported
<1>1. IInv => OutcomeReported
  BY DEF IInv, Data
<1> QED BY Inductive, <1>1, PTL

\* Every step of the handler, the turn and the network is, to the caller, a step
\* the contract of the streaming endpoint allows, or none.
THEOREM ImplementsContract == Spec => Contract!Safety
<1> USE DEF handlerVars, turnVars
<1>1. Init => Contract!Init
  BY DEF Init, Contract!Init
<1>2. IInv /\ [Next]_vars => [Contract!Next]_(Contract!vars)
  <2> SUFFICES ASSUME IInv, [Next]_vars PROVE [Contract!Next]_(Contract!vars)
    OBVIOUS
  <2> USE StreamAssumption DEF Contract!Next, Contract!Respond, Contract!Turn, Contract!vars,
          Contract!response
  <2>1. CASE Reject
    BY <2>1 DEF Reject, Contract!Reject, IInv, Control, Data, Returned
  <2>2. CASE Encode
    <3>1. chunk = Len(body) + 1 /\ chunk <= produced /\ status \in {0, 200}
      BY <2>2 DEF Encode, IInv, Data, Serving, Accounted, Taken, Control
    <3>2. Len(body) \in Nat /\ produced \in Nat
      BY DEF IInv, Data
    <3> QED
      BY <2>2, <3>1, <3>2 DEF Encode, Contract!Line
  <2>3. CASE EncodeFails
    BY <2>3 DEF EncodeFails, Contract!Abandon
  <2>4. CASE FinishOk
    <3>1. status \in {0, 200} /\ turn = "done"
      BY <2>4 DEF FinishOk, IInv, Control, Data, Serving
    <3>2. outcome = "ok"
      BY <2>4, <3>1 DEF FinishOk, IInv, Control, Returned
    <3>3. Len(body) = produced
      BY <2>4, <3>1, <3>2 DEF FinishOk, IInv, Data, Serving, Returned, Accounted, Taken
    <3> QED
      BY <2>4, <3>1, <3>2, <3>3 DEF FinishOk, Contract!Finish
  <2>5. CASE FinishError
    <3>1. outcome = "failed" /\ turn = "done"
      BY <2>5 DEF FinishError, IInv, Control
    <3>2. caller = "there" => Len(body) = produced
      BY <2>5, <3>1 DEF FinishError, IInv, Data, Serving, Returned, Accounted, Taken, Flags
    <3> QED
      BY <2>5, <3>1, <3>2 DEF FinishError, Contract!Fail
  <2>6. CASE HangUp
    BY <2>6 DEF HangUp, Contract!HangUp
  <2>7. CASE NextText
    <3>1. outcome = "running" /\ status \notin {400, 405}
      BY <2>7 DEF NextText, IInv, Control, Data, Returned
    <3> QED
      BY <2>7, <3>1 DEF NextText, Contract!Produce, Contract!Rejected
  <2>8. ASSUME NEW how \in {"ok", "failed"}, TurnReturns(how),
               turn \in {"opening", "pulling", "offering"}
        PROVE  Contract!TurnEnds
    <3>1. outcome = "running" /\ status \notin {400, 405}
      BY <2>8 DEF IInv, Control, Data, Returned
    <3> QED
      BY <2>8, <3>1 DEF TurnReturns, Contract!TurnEnds, Contract!Rejected
  <2>9. CASE StartTurn \/ ChunksEnd \/ Open \/ Send \/ Report \/ CloseErrs \/ CloseOut
             \/ CancelContext \/ UNCHANGED vars
    <3>1. UNCHANGED <<produced, outcome, status, body, caller>> /\ (writer = "done") = (writer' = "done")
      BY <2>9
      DEF StartTurn, ChunksEnd, CancelContext, vars, Open, Send, Report, CloseErrs, CloseOut
    <3> QED
      BY <3>1
  <2> QED
    BY <2>1, <2>2, <2>3, <2>4, <2>5, <2>6, <2>7, <2>8, <2>9
    DEF Next, Handler, Turn, OpenFails, ChunkError, StreamEnds, SendCancelled
<1> QED BY Inductive, <1>1, <1>2, PTL DEF Spec, Contract!Safety
=============================================================================
