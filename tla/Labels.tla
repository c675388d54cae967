-------------------------------- MODULE Labels --------------------------------
(***************************************************************************)
(* Resource labels (labels.go, labels_build.go).  A string is a sequence   *)
(* of characters.  The service takes labels of lowercase letters, digits,  *)
(* hyphens and underscores, of bounded length, whose keys start with a     *)
(* letter; whatever an operator writes is turned into one.                 *)
(***************************************************************************)
EXTENDS Integers, Sequences, FiniteSets, SequencesExt, Filter

CONSTANTS
    Letters,         \* lowercase letters, "k" among them
    Digits,
    Lower,           \* strings.ToLower, for every character there is
    maxLabelLen,
    maxLabelCount,
    LabelPack, LabelAgent, LabelManagedBy,  \* the managed keys
    ManagedByValue

Separators == {"-", "_"}
Allowed == Letters \cup Digits \cup Separators

\* The constraints labels.go states on the text of a label.  Its last one, on the
\* number of labels of a resource, is about a set of them: IsLabelSet.
IsLabelText(s) == Len(s) <= maxLabelLen /\ s \in Seq(Allowed)

IsLabelKey(s) == s # <<>> /\ IsLabelText(s) /\ s[1] \in Letters

IsLabelSet(labels) == Cardinality(DOMAIN labels) <= maxLabelCount

ASSUME LabelAssumption ==
    /\ "k" \in Letters
    /\ maxLabelLen \in Nat \ {0} /\ maxLabelCount \in Nat
    /\ IsLabelKey(LabelPack) /\ IsLabelKey(LabelAgent) /\ IsLabelKey(LabelManagedBy)
    /\ IsLabelText(ManagedByValue)

\* labelDisallowed: every run of characters not allowed becomes one hyphen.
ReplaceDisallowed(s) ==
    LET kept == {n \in DOMAIN s : s[n] \in Allowed \/ n = 1 \/ s[n - 1] \in Allowed}
        at == Only([n \in DOMAIN s |-> n], kept)
    IN  [m \in DOMAIN at |-> IF s[at[m]] \in Allowed THEN s[at[m]] ELSE "-"]

\* strings.Trim of separators at both ends.
Trim(s) ==
    LET inner == {n \in DOMAIN s : s[n] \notin Separators}
    IN  IF inner = {} THEN <<>> ELSE SubSeq(s, Min(inner), Max(inner))

Truncate(s) == IF Len(s) > maxLabelLen THEN SubSeq(s, 1, maxLabelLen) ELSE s

sanitizeLabelValue(s) ==
    LET lower == [n \in DOMAIN s |-> Lower[s[n]]]
    IN  Trim(Truncate(Trim(ReplaceDisallowed(lower))))

\* A bug: the prefix is added to a key that has its full length already.
sanitizeLabelKeyTooLong(s) ==
    LET out == sanitizeLabelValue(s)
    IN  IF out = <<>> \/ out[1] \in Letters THEN out ELSE <<"k">> \o out

\* A key that does not start with a letter gets one in front.
sanitizeLabelKey(s) ==
    LET out == sanitizeLabelValue(s)
    IN  IF out = <<>> \/ out[1] \in Letters THEN out ELSE Truncate(<<"k">> \o out)

\* A bug: keys are only compared as the operator wrote them.
validateLabelsAsWritten(labels) ==
    /\ Cardinality(DOMAIN labels) <= maxLabelCount
    /\ \A k \in DOMAIN labels : sanitizeLabelKey(k) # <<>>

\* Too many labels, a key of which nothing is left, and two keys that become one
\* are refused.
validateLabels(labels) ==
    /\ Cardinality(DOMAIN labels) <= maxLabelCount
    /\ \A k \in DOMAIN labels :
        /\ sanitizeLabelKey(k) # <<>>
        /\ \A j \in DOMAIN labels : sanitizeLabelKey(j) = sanitizeLabelKey(k) => j = k

\* What f sets, and what g sets besides: g was written first.
Over(f, g) ==
    [v \in DOMAIN f \cup DOMAIN g |-> IF v \in DOMAIN f THEN f[v] ELSE g[v]]

managedLabels(packID, agentName) ==
    [k \in {LabelPack, LabelAgent, LabelManagedBy} |->
        IF k = LabelManagedBy THEN ManagedByValue
        ELSE sanitizeLabelValue(IF k = LabelAgent THEN agentName ELSE packID)]

\* The operator's labels under their sanitized keys; validation made the key's
\* origin unique.
userLabels(labels) ==
    [s \in {sanitizeLabelKey(k) : k \in DOMAIN labels} |->
        sanitizeLabelValue(labels[CHOOSE k \in DOMAIN labels : sanitizeLabelKey(k) = s])]

\* A bug: the operator's labels are merged last.
buildLabelsUserWins(labels, packID, agentName) ==
    Over(userLabels(labels), managedLabels(packID, agentName))

\* Managed labels win.
buildLabels(labels, packID, agentName) ==
    Over(managedLabels(packID, agentName), userLabels(labels))
=============================================================================
