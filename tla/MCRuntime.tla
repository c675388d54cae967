----------------------------- MODULE MCRuntime -----------------------------
(***************************************************************************)
(* A small instance of Runtime: two requests in different sessions and one *)
(* in none; every environment that lets start-up get far, and one for each *)
(* way it can fail.                                                        *)
(***************************************************************************)
EXTENDS Runtime

CONSTANTS r1, r2, r3, s1, s2

MCSessionOf == [r \in Requests |-> CASE r = r1 -> s1 [] r = r2 -> s2 [] OTHER -> None]

Good == [pack |-> "present", named |-> TRUE, bindings |-> "llm", located |-> TRUE,
         tracing |-> "on", tools |-> "valid", engine |-> TRUE]

MCSettings ==
    {[Good EXCEPT !.bindings = b, !.tracing = t, !.engine = e] :
        b \in {"none", "llm"}, t \in {"off", "on"}, e \in BOOLEAN}
    \cup {[Good EXCEPT !.pack = "missing"], [Good EXCEPT !.tracing = "malformed"],
          [Good EXCEPT !.named = FALSE], [Good EXCEPT !.bindings = "malformed"],
          [Good EXCEPT !.located = FALSE],
          [Good EXCEPT !.located = FALSE, !.bindings = "none"],
          [Good EXCEPT !.tools = "malformed"]}
=============================================================================
