--------------------------- MODULE MCSessionStore ---------------------------
(***************************************************************************)
(* Small instances of SessionStore: up to three requests, one of which has *)
(* a tool result in the middle of its turn.                                *)
(***************************************************************************)
EXTENDS SessionStore

CONSTANTS r1, r2, r3

MCTurn == [c \in Requests |->
    IF c = r1 THEN <<"user", "tool", "assistant">> ELSE <<"user", "assistant">>]

\* The requests with the same turn are interchangeable.
MCSymmetry == Permutations({r2, r3})
=============================================================================
