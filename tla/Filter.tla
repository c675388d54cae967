------------------------------- MODULE Filter -------------------------------
(***************************************************************************)
(* The loop `for _, x := range s { if x in S { out = append(out, x) } }'.  *)
(* SelectSeq would do for TLC, but takes its test as an operator, of which *)
(* no theorem can be stated.                                               *)
(***************************************************************************)
LOCAL INSTANCE Integers
LOCAL INSTANCE Sequences

\* What the loop has appended after each of its rounds.
Rounds(s, S) ==
    LET out[n \in 0..Len(s)] ==
          IF n = 0 THEN <<>>
          ELSE IF s[n] \in S THEN Append(out[n - 1], s[n]) ELSE out[n - 1]
    IN out

\* The elements of sequence s that are in set S, in the order of s.
Only(s, S) == Rounds(s, S)[Len(s)]
=============================================================================
