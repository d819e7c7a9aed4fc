-------------------------- MODULE SignedRecordsProofs --------------------------
(***************************************************************************)
(* Theorems about signed records, whatever the log, the edits and what     *)
(* clients say of their models.  A canonical form is a list of pairs of a  *)
(* field and what the record says in it, so that the form tells what the   *)
(* record says (FormTells), and the other way round (SaysForm).  What the  *)
(* edits leave alone is in RecordsInv.                                     *)
(***************************************************************************)
EXTENDS SignedRecords, OperatorLemmas

-----------------------------------------------------------------------------
(* The pairs of a canonical form                                           *)

IsSeq(s) == s \in Seq(ToSet(s))

\* What a record says in a field.
Told(record, f) == IF Absent(record, f) THEN Null ELSE record[f]

Lines(record, S) == {<<f, Told(record, f)>> : f \in S}

LineIf(record, f, value) == IF Absent(record, f) THEN {} ELSE {<<f, value>>}

LEMMA CatSet ==
    ASSUME NEW s, NEW t, IsSeq(s), IsSeq(t)
    PROVE  IsSeq(s \o t) /\ ToSet(s \o t) = ToSet(s) \cup ToSet(t)
<1> DEFINE S == ToSet(s) \cup ToSet(t)
<1>1. s \in Seq(S) /\ t \in Seq(S)  BY DEF IsSeq, ToSet
<1>2. PICK m \in Nat : m = Len(s)  BY <1>1
<1>3. PICK n \in Nat : n = Len(t)  BY <1>1
<1>4. s \o t \in Seq(S) /\ Len(s \o t) = m + n /\ DOMAIN (s \o t) = 1 .. m + n
  BY <1>1, <1>2, <1>3
<1>5. DOMAIN s = 1 .. m /\ DOMAIN t = 1 .. n  BY <1>1, <1>2, <1>3
<1>6. \A i \in 1 .. m : (s \o t)[i] = s[i]  BY <1>1, <1>2, <1>3
<1>7. \A i \in 1 .. n : (s \o t)[m + i] = t[i]  BY <1>1, <1>2, <1>3
<1>8. ToSet(s \o t) \subseteq S  BY <1>4 DEF ToSet
<1>9. ToSet(s) \subseteq ToSet(s \o t)
  <2> SUFFICES ASSUME NEW i \in 1 .. m PROVE \E j \in 1 .. m + n : (s \o t)[j] = s[i]
    BY <1>4, <1>5 DEF ToSet
  <2>1. i \in 1 .. m + n  OBVIOUS
  <2> QED BY <2>1, <1>6
<1>10. ToSet(t) \subseteq ToSet(s \o t)
  <2> SUFFICES ASSUME NEW i \in 1 .. n PROVE \E j \in 1 .. m + n : (s \o t)[j] = t[i]
    BY <1>4, <1>5 DEF ToSet
  <2>1. m + i \in 1 .. m + n  OBVIOUS
  <2> QED BY <2>1, <1>7
<1>11. ToSet(s \o t) = S  BY <1>8, <1>9, <1>10
<1> QED BY <1>4, <1>11 DEF IsSeq

LEMMA PairsSet ==
    ASSUME NEW record, NEW fields, NEW n \in Nat, DOMAIN fields = 1 .. n
    PROVE  /\ IsSeq(Pairs(record, fields))
           /\ ToSet(Pairs(record, fields)) = Lines(record, ToSet(fields))
<1> DEFINE s == Pairs(record, fields)
<1>1. s = [i \in 1 .. n |-> <<fields[i], Told(record, fields[i])>>]
  BY DEF Pairs, Pair, Told
<1>2. ToSet(s) = {<<fields[i], Told(record, fields[i])>> : i \in 1 .. n}
  BY <1>1 DEF ToSet
<1>3. s \in Seq(ToSet(s))
  <2>1. \A i \in 1 .. n : s[i] \in ToSet(s)  BY <1>1 DEF ToSet
  <2> QED BY <1>1, <2>1, IsASeq
<1>4. ToSet(s) = Lines(record, ToSet(fields))  BY <1>2 DEF Lines, ToSet
<1> QED BY <1>3, <1>4 DEF IsSeq

LEMMA IfPresentSet ==
    ASSUME NEW record, NEW f, NEW value
    PROVE  /\ IsSeq(IfPresent(record, f, value))
           /\ ToSet(IfPresent(record, f, value)) = LineIf(record, f, value)
<1>1. CASE Absent(record, f)
  BY <1>1 DEF IfPresent, LineIf, IsSeq, ToSet
<1>2. CASE ~Absent(record, f)
  <2> DEFINE s == << <<f, value>> >>
  <2>1. ToSet(s) = {<<f, value>>}  BY DEF ToSet
  <2>2. s \in Seq({<<f, value>>})  OBVIOUS
  <2> QED BY <1>2, <2>1, <2>2 DEF IfPresent, LineIf, IsSeq
<1> QED BY <1>1, <1>2

-----------------------------------------------------------------------------
(* The form of a record of each kind, as a set of lines                    *)

CallFields ==
    {"id", "timestamp", "method", "toolName", "namespace", "upstream", "principal",
     "durationMs", "success", "errorCode", "previousHash"}

CheckpointFields ==
    {"id", "type", "timestamp", "sequence", "recordCount", "previousHash"}

LEMMA CallLines ==
    ASSUME NEW record
    PROVE  ToSet(canonicalizeRecord(record)) =
              Lines(record, CallFields)
              \cup LineIf(record, "decisionContextDigest", Field(record, "decisionContextDigest"))
              \cup LineIf(record, "extensionsDigest", Field(record, "extensionsDigest"))
              \cup LineIf(record, "aiInvocation", canonicalizeValue(Field(record, "aiInvocation")))
              \cup LineIf(record, "parties", Field(record, "parties"))
<1> DEFINE first == <<"id", "timestamp", "method", "toolName", "namespace", "upstream",
                      "principal", "durationMs", "success", "errorCode">>
           a == Pairs(record, first)
           b == IfPresent(record, "decisionContextDigest", Field(record, "decisionContextDigest"))
           c == Pairs(record, <<"previousHash">>)
           d == IfPresent(record, "extensionsDigest", Field(record, "extensionsDigest"))
           e == IfPresent(record, "aiInvocation", canonicalizeValue(Field(record, "aiInvocation")))
           f == IfPresent(record, "parties", Field(record, "parties"))
<1>1. DOMAIN first = 1 .. 10 /\ ToSet(first) = CallFields \ {"previousHash"}
  <2>1. ToSet(first) = {first[i] : i \in 1 .. 10}  BY DEF ToSet
  <2> QED BY <2>1 DEF CallFields
<1>2. DOMAIN <<"previousHash">> = 1 .. 1 /\ ToSet(<<"previousHash">>) = {"previousHash"}
  BY DEF ToSet
<1>3. IsSeq(a) /\ ToSet(a) = Lines(record, CallFields \ {"previousHash"})
  <2> HIDE DEF first
  <2> QED BY <1>1, PairsSet
<1>4. IsSeq(c) /\ ToSet(c) = Lines(record, {"previousHash"})
  BY <1>2, PairsSet
<1>5. IsSeq(b) /\ IsSeq(d) /\ IsSeq(e) /\ IsSeq(f)  BY IfPresentSet
<1>6. /\ ToSet(b) = LineIf(record, "decisionContextDigest", Field(record, "decisionContextDigest"))
      /\ ToSet(d) = LineIf(record, "extensionsDigest", Field(record, "extensionsDigest"))
      /\ ToSet(e) = LineIf(record, "aiInvocation", canonicalizeValue(Field(record, "aiInvocation")))
      /\ ToSet(f) = LineIf(record, "parties", Field(record, "parties"))
  BY IfPresentSet
<1>7. canonicalizeRecord(record) = ((((a \o b) \o c) \o d) \o e) \o f
  BY DEF canonicalizeRecord
<1>8. Lines(record, CallFields) =
         Lines(record, CallFields \ {"previousHash"}) \cup Lines(record, {"previousHash"})
  BY DEF Lines, CallFields
<1> HIDE DEF a, b, c, d, e, f
<1>9. IsSeq(a \o b) /\ ToSet(a \o b) = ToSet(a) \cup ToSet(b)  BY <1>3, <1>5, CatSet
<1> DEFINE ab == a \o b
<1> HIDE DEF ab
<1>10. IsSeq(ab \o c) /\ ToSet(ab \o c) = ToSet(ab) \cup ToSet(c)
  BY <1>4, <1>9, CatSet DEF ab
<1> DEFINE abc == ab \o c
<1> HIDE DEF abc
<1>11. IsSeq(abc \o d) /\ ToSet(abc \o d) = ToSet(abc) \cup ToSet(d)
  BY <1>5, <1>10, CatSet DEF abc
<1> DEFINE abcd == abc \o d
<1> HIDE DEF abcd
<1>12. IsSeq(abcd \o e) /\ ToSet(abcd \o e) = ToSet(abcd) \cup ToSet(e)
  BY <1>5, <1>11, CatSet DEF abcd
<1> DEFINE abcde == abcd \o e
<1> HIDE DEF abcde
<1>13. ToSet(abcde \o f) = ToSet(abcde) \cup ToSet(f)
  BY <1>5, <1>12, CatSet DEF abcde
<1>14. canonicalizeRecord(record) = abcde \o f  BY <1>7, Zenon DEF abcde, abcd, abc, ab
<1>15. ToSet(abcde) = ToSet(a) \cup ToSet(b) \cup ToSet(c) \cup ToSet(d) \cup ToSet(e)
  BY <1>9, <1>10, <1>11, <1>12 DEF abcde, abcd, abc, ab
<1> DEFINE B == LineIf(record, "decisionContextDigest", Field(record, "decisionContextDigest"))
           D == LineIf(record, "extensionsDigest", Field(record, "extensionsDigest"))
           E == LineIf(record, "aiInvocation", canonicalizeValue(Field(record, "aiInvocation")))
           F == LineIf(record, "parties", Field(record, "parties"))
           P == Lines(record, CallFields)
<1>16. ToSet(b) = B /\ ToSet(d) = D /\ ToSet(e) = E /\ ToSet(f) = F  BY <1>6
<1>17. P = ToSet(a) \cup ToSet(c)  BY <1>3, <1>4, <1>8
<1> HIDE DEF B, D, E, F, P
<1>18. ToSet(canonicalizeRecord(record)) = P \cup B \cup D \cup E \cup F
  BY <1>13, <1>14, <1>15, <1>16, <1>17
<1> QED BY <1>18 DEF B, D, E, F, P

LEMMA CheckpointLines ==
    ASSUME NEW record
    PROVE  ToSet(canonicalizeCheckpoint(record)) =
              Lines(record, CheckpointFields)
              \cup LineIf(record, "parties", Field(record, "parties"))
<1> DEFINE first == <<"id", "type", "timestamp", "sequence", "recordCount", "previousHash">>
<1>1. DOMAIN first = 1 .. 6 /\ ToSet(first) = CheckpointFields
  <2>1. ToSet(first) = {first[i] : i \in 1 .. 6}  BY DEF ToSet
  <2> QED BY <2>1 DEF CheckpointFields
<1>2. canonicalizeCheckpoint(record) =
         Pairs(record, first) \o IfPresent(record, "parties", Field(record, "parties"))
  BY DEF canonicalizeCheckpoint
<1> HIDE DEF first
<1>3. IsSeq(Pairs(record, first)) /\ ToSet(Pairs(record, first)) = Lines(record, CheckpointFields)
  BY <1>1, PairsSet
<1> QED BY <1>2, <1>3, IfPresentSet, CatSet

LEMMA ChainBreakLines ==
    ASSUME NEW record
    PROVE  ToSet(canonicalizeChainBreak(record)) = Lines(record, FieldsOf("chain_break"))
<1> DEFINE first == <<"id", "type", "timestamp", "reason", "priorHead", "priorSequence",
                      "priorRecordCount">>
<1>1. DOMAIN first = 1 .. 7 /\ ToSet(first) = FieldsOf("chain_break")
  <2>1. ToSet(first) = {first[i] : i \in 1 .. 7}  BY DEF ToSet
  <2> QED BY <2>1 DEF FieldsOf
<1>2. canonicalizeChainBreak(record) = Pairs(record, first)  BY DEF canonicalizeChainBreak
<1> HIDE DEF first
<1> QED BY <1>1, <1>2, PairsSet

LEMMA ToolDriftLines ==
    ASSUME NEW record
    PROVE  ToSet(canonicalizeToolDrift(record)) = Lines(record, FieldsOf("tool_drift"))
<1> DEFINE first == <<"id", "type", "timestamp", "toolName", "namespace",
                      "previousDefinitionDigest", "newDefinitionDigest",
                      "detectedAtRecord", "previousHash">>
<1>1. DOMAIN first = 1 .. 9 /\ ToSet(first) = FieldsOf("tool_drift")
  <2>1. ToSet(first) = {first[i] : i \in 1 .. 9}  BY DEF ToSet
  <2> QED BY <2>1 DEF FieldsOf
<1>2. canonicalizeToolDrift(record) = Pairs(record, first)  BY DEF canonicalizeToolDrift
<1> HIDE DEF first
<1> QED BY <1>1, <1>2, PairsSet

-----------------------------------------------------------------------------
(* The form tells what the record says                                     *)

LEMMA KindIs ==
    ASSUME NEW record
    PROVE  /\ Kind(record) \in Kinds
           /\ Kind(record) # "call" => Field(record, "type") = Text(Kind(record))
  BY DEF Kind, Kinds, Text

LEMMA ToldNull ==
    ASSUME NEW record, NEW f
    PROVE  /\ Absent(record, f) <=> Told(record, f) = Null
           /\ ~Absent(record, f) => Told(record, f) = Field(record, f)
  BY DEF Absent, Told, Field

LEMMA FormIs ==
    ASSUME NEW record
    PROVE  /\ Kind(record) = "call" => canonicalize(record) = canonicalizeRecord(record)
           /\ Kind(record) = "checkpoint" => canonicalize(record) = canonicalizeCheckpoint(record)
           /\ Kind(record) = "chain_break" => canonicalize(record) = canonicalizeChainBreak(record)
           /\ Kind(record) = "tool_drift" => canonicalize(record) = canonicalizeToolDrift(record)
  BY DEF canonicalize

LEMMA LinesHave ==
    ASSUME NEW record, NEW S, NEW f, NEW value
    PROVE  <<f, value>> \in Lines(record, S) <=> f \in S /\ value = Told(record, f)
  BY DEF Lines

LEMMA LineIfHas ==
    ASSUME NEW record, NEW g, NEW x, NEW f, NEW value
    PROVE  <<f, value>> \in LineIf(record, g, x) <=> ~Absent(record, g) /\ f = g /\ value = x
  BY DEF LineIf

\* The form of a call has a line for each field, the optional ones if they are there.
LEMMA CallHas ==
    ASSUME NEW record, NEW f, NEW value
    PROVE  <<f, value>> \in ToSet(canonicalizeRecord(record)) <=>
              \/ f \in CallFields /\ value = Told(record, f)
              \/ /\ f \in {"decisionContextDigest", "extensionsDigest", "parties"}
                 /\ ~Absent(record, f) /\ value = Told(record, f)
              \/ /\ f = "aiInvocation" /\ ~Absent(record, f)
                 /\ value = canonicalizeValue(Field(record, f))
<1> DEFINE line == <<f, value>>
<1>1. line \in Lines(record, CallFields) <=> f \in CallFields /\ value = Told(record, f)
  BY LinesHave
<1>2. \A g \in {"decisionContextDigest", "extensionsDigest", "parties"} :
         line \in LineIf(record, g, Field(record, g)) <=>
            ~Absent(record, g) /\ f = g /\ value = Told(record, g)
  BY LineIfHas, ToldNull
<1>3. line \in LineIf(record, "aiInvocation", canonicalizeValue(Field(record, "aiInvocation"))) <=>
         /\ ~Absent(record, "aiInvocation") /\ f = "aiInvocation"
         /\ value = canonicalizeValue(Field(record, "aiInvocation"))
  BY LineIfHas
<1> HIDE DEF line
<1> QED BY <1>1, <1>2, <1>3, CallLines DEF line

LEMMA CheckpointHas ==
    ASSUME NEW record, NEW f, NEW value
    PROVE  <<f, value>> \in ToSet(canonicalizeCheckpoint(record)) <=>
              \/ f \in CheckpointFields /\ value = Told(record, f)
              \/ f = "parties" /\ ~Absent(record, f) /\ value = Told(record, f)
<1> DEFINE line == <<f, value>>
<1>1. line \in Lines(record, CheckpointFields) <=> f \in CheckpointFields /\ value = Told(record, f)
  BY LinesHave
<1>2. line \in LineIf(record, "parties", Field(record, "parties")) <=>
         ~Absent(record, "parties") /\ f = "parties" /\ value = Told(record, "parties")
  BY LineIfHas, ToldNull
<1> HIDE DEF line
<1> QED BY <1>1, <1>2, CheckpointLines DEF line

\* What is not null in a field has a line of its own, and no other value has.
LEMMA FormHas ==
    ASSUME NEW record, NEW f \in FieldsOf(Kind(record)), f # "aiInvocation",
           NEW value, value # Null
    PROVE  <<f, value>> \in ToSet(canonicalize(record)) <=> value = Told(record, f)
<1>1. CASE Kind(record) = "call"
  <2>1. f \in CallFields \cup {"decisionContextDigest", "extensionsDigest", "parties"}
    BY <1>1 DEF FieldsOf, CallFields
  <2> QED BY <1>1, <2>1, FormIs, CallHas, ToldNull DEF CallFields
<1>2. CASE Kind(record) = "checkpoint"
  <2>1. f \in CheckpointFields \cup {"parties"}  BY <1>2 DEF FieldsOf, CheckpointFields
  <2> QED BY <1>2, <2>1, FormIs, CheckpointHas, ToldNull DEF CheckpointFields
<1>3. CASE Kind(record) = "chain_break"
  BY <1>3, FormIs, ChainBreakLines, LinesHave
<1>4. CASE Kind(record) = "tool_drift"
  BY <1>4, FormIs, ToolDriftLines, LinesHave
<1> QED BY <1>1, <1>2, <1>3, <1>4, KindIs DEF Kinds

\* The form has the type of every record but a call.
LEMMA TypeLine ==
    ASSUME NEW record, NEW value
    PROVE  <<"type", value>> \in ToSet(canonicalize(record)) <=>
              Kind(record) # "call" /\ value = Text(Kind(record))
<1>1. Kind(record) # "call" => Told(record, "type") = Text(Kind(record))
  <2>1. Text(Kind(record)) # Null /\ Text(Kind(record)) # Undefined
    BY DEF Text, Null, Undefined
  <2> QED BY <2>1, KindIs, ToldNull DEF Absent
<1>2. CASE Kind(record) = "call"
  BY <1>2, FormIs, CallHas DEF CallFields
<1>3. CASE Kind(record) = "checkpoint"
  BY <1>1, <1>3, FormIs, CheckpointHas DEF CheckpointFields
<1>4. CASE Kind(record) = "chain_break"
  <2>1. "type" \in FieldsOf("chain_break")  BY DEF FieldsOf
  <2> QED BY <1>1, <1>4, <2>1, FormIs, ChainBreakLines, LinesHave
<1>5. CASE Kind(record) = "tool_drift"
  <2>1. "type" \in FieldsOf("tool_drift")  BY DEF FieldsOf
  <2> QED BY <1>1, <1>5, <2>1, FormIs, ToolDriftLines, LinesHave
<1> QED BY <1>2, <1>3, <1>4, <1>5, KindIs DEF Kinds

LEMMA SaysIs ==
    ASSUME NEW r, NEW s
    PROVE  Says(r) = Says(s) <=>
              /\ Kind(r) = Kind(s)
              /\ \A f \in FieldsOf(Kind(r)) : Told(r, f) = Told(s, f)
<1> DEFINE R == [f \in FieldsOf(Kind(r)) |-> Told(r, f)]
           S == [f \in FieldsOf(Kind(s)) |-> Told(s, f)]
<1>1. Says(r) = <<Kind(r), R>> /\ Says(s) = <<Kind(s), S>>  BY DEF Says, Told
<1>2. ASSUME Says(r) = Says(s)
      PROVE  Kind(r) = Kind(s) /\ \A f \in FieldsOf(Kind(r)) : Told(r, f) = Told(s, f)
  <2>1. Kind(r) = Kind(s) /\ R = S
    <3> HIDE DEF R, S
    <3> QED BY <1>1, <1>2
  <2> QED BY <2>1
<1>3. ASSUME Kind(r) = Kind(s), \A f \in FieldsOf(Kind(r)) : Told(r, f) = Told(s, f)
      PROVE  Says(r) = Says(s)
  <2>1. R = S  BY <1>3
  <2> HIDE DEF R, S
  <2> QED BY <1>1, <1>3, <2>1
<1> QED BY <1>2, <1>3

\* The canonical forms of what two records say of a model tell that apart.
InvocationsTold(r, s) ==
    LET x == Field(r, "aiInvocation")
        y == Field(s, "aiInvocation")
    IN ~Absent(r, "aiInvocation") /\ ~Absent(s, "aiInvocation")
          /\ canonicalizeValue(x) = canonicalizeValue(y) => x = y

LEMMA FormTellsInvocation ==
    ASSUME NEW r, NEW s, Kind(r) = "call", Kind(s) = "call", InvocationsTold(r, s),
           ToSet(canonicalize(r)) = ToSet(canonicalize(s))
    PROVE  Told(r, "aiInvocation") = Told(s, "aiInvocation")
<1> DEFINE g == "aiInvocation"
<1>1. \A value : <<g, value>> \in ToSet(canonicalize(r)) <=>
                    ~Absent(r, g) /\ value = canonicalizeValue(Field(r, g))
  BY CallHas, FormIs DEF CallFields
<1>2. \A value : <<g, value>> \in ToSet(canonicalize(s)) <=>
                    ~Absent(s, g) /\ value = canonicalizeValue(Field(s, g))
  BY CallHas, FormIs DEF CallFields
<1>3. Absent(r, g) <=> Absent(s, g)  BY <1>1, <1>2
<1>4. ~Absent(r, g) => canonicalizeValue(Field(r, g)) = canonicalizeValue(Field(s, g))
  BY <1>1, <1>2
<1> QED BY <1>3, <1>4, ToldNull DEF InvocationsTold

\* Records of the same form say the same.
LEMMA FormTells ==
    ASSUME NEW r, NEW s, canonicalize(r) = canonicalize(s),
           Kind(r) = "call" /\ Kind(s) = "call" => InvocationsTold(r, s)
    PROVE  Says(r) = Says(s)
<1>1. ToSet(canonicalize(r)) = ToSet(canonicalize(s))  OBVIOUS
<1>2. Kind(r) = Kind(s)
  <2>1. Kind(r) # "call" => Kind(s) # "call" /\ Text(Kind(r)) = Text(Kind(s))
    BY <1>1, TypeLine
  <2>2. Kind(s) # "call" => Kind(r) # "call" /\ Text(Kind(r)) = Text(Kind(s))
    BY <1>1, TypeLine
  <2>3. Text(Kind(r)) = Text(Kind(s)) => Kind(r) = Kind(s)  BY DEF Text
  <2> QED BY <2>1, <2>2, <2>3
<1>3. ASSUME NEW f \in FieldsOf(Kind(r)), f # "aiInvocation"
      PROVE  Told(r, f) = Told(s, f)
  <2>1. \A value : value # Null =>
           (<<f, value>> \in ToSet(canonicalize(r)) <=> value = Told(r, f))
    BY <1>3, FormHas
  <2>2. \A value : value # Null =>
           (<<f, value>> \in ToSet(canonicalize(s)) <=> value = Told(s, f))
    BY <1>2, <1>3, FormHas
  <2> DEFINE T == ToSet(canonicalize(r))
  <2>3. \A value : value # Null => (<<f, value>> \in T <=> value = Told(s, f))
    BY <1>1, <2>2
  <2> HIDE DEF T
  <2>4. \A value : value # Null => (value = Told(r, f) <=> value = Told(s, f))
    BY <2>1, <2>3 DEF T
  <2>5. CASE Told(r, f) = Null
    BY <2>4, <2>5
  <2>6. CASE Told(r, f) # Null
    BY <2>4, <2>6
  <2> QED BY <2>5, <2>6
<1>4. "aiInvocation" \in FieldsOf(Kind(r)) => Kind(r) = "call"
  BY KindIs DEF FieldsOf, Kinds
<1>5. "aiInvocation" \in FieldsOf(Kind(r)) => Told(r, "aiInvocation") = Told(s, "aiInvocation")
  BY <1>1, <1>2, <1>4, FormTellsInvocation
<1> QED BY <1>2, <1>3, <1>5, SaysIs

LEMMA SamePairs ==
    ASSUME NEW r, NEW s, NEW fields, NEW n \in Nat, DOMAIN fields = 1 .. n,
           \A f \in ToSet(fields) : Told(r, f) = Told(s, f)
    PROVE  Pairs(r, fields) = Pairs(s, fields)
<1>1. \A i \in DOMAIN fields : fields[i] \in ToSet(fields)  BY DEF ToSet
<1>2. \A f : Pair(r, f) = <<f, Told(r, f)>> /\ Pair(s, f) = <<f, Told(s, f)>>
  BY DEF Pair, Told
<1>3. \A i \in DOMAIN fields : Pair(r, fields[i]) = Pair(s, fields[i])
  BY <1>1, <1>2
<1> QED BY <1>3 DEF Pairs

LEMMA SameIfPresent ==
    ASSUME NEW r, NEW s, NEW f, Told(r, f) = Told(s, f)
    PROVE  /\ IfPresent(r, f, Field(r, f)) = IfPresent(s, f, Field(s, f))
           /\ IfPresent(r, f, canonicalizeValue(Field(r, f)))
                 = IfPresent(s, f, canonicalizeValue(Field(s, f)))
  BY ToldNull DEF IfPresent

\* Records that say the same have the same form.
LEMMA SaysForm ==
    ASSUME NEW r, NEW s, Says(r) = Says(s)
    PROVE  canonicalize(r) = canonicalize(s)
<1>1. /\ Kind(r) = Kind(s)
      /\ \A f \in FieldsOf(Kind(r)) : Told(r, f) = Told(s, f)
  BY SaysIs
<1>2. CASE Kind(r) = "call"
  <2> DEFINE first == <<"id", "timestamp", "method", "toolName", "namespace", "upstream",
                        "principal", "durationMs", "success", "errorCode">>
             second == <<"previousHash">>
  <2>1. \A f \in CallFields \cup {"decisionContextDigest", "extensionsDigest",
                                  "aiInvocation", "parties"} : Told(r, f) = Told(s, f)
    BY <1>1, <1>2 DEF FieldsOf, CallFields
  <2>2. DOMAIN first = 1 .. 10 /\ ToSet(first) \subseteq CallFields
    <3>1. ToSet(first) = {first[i] : i \in 1 .. 10}  BY DEF ToSet
    <3> QED BY <3>1 DEF CallFields
  <2>3. DOMAIN second = 1 .. 1 /\ ToSet(second) \subseteq CallFields
    BY DEF ToSet, CallFields
  <2>4. Pairs(r, first) = Pairs(s, first)
    <3> HIDE DEF first
    <3>1. \A f \in ToSet(first) : Told(r, f) = Told(s, f)  BY <2>1, <2>2
    <3> QED BY <2>2, <3>1, SamePairs
  <2>5. Pairs(r, second) = Pairs(s, second)
    <3> HIDE DEF second
    <3>1. \A f \in ToSet(second) : Told(r, f) = Told(s, f)  BY <2>1, <2>3
    <3> QED BY <2>3, <3>1, SamePairs
  <2>6. \A f \in {"decisionContextDigest", "extensionsDigest", "aiInvocation", "parties"} :
           /\ IfPresent(r, f, Field(r, f)) = IfPresent(s, f, Field(s, f))
           /\ IfPresent(r, f, canonicalizeValue(Field(r, f)))
                 = IfPresent(s, f, canonicalizeValue(Field(s, f)))
    BY <2>1, SameIfPresent
  <2>7. canonicalizeRecord(r) = canonicalizeRecord(s)
    <3> HIDE DEF first, second
    <3>1. \A q : canonicalizeRecord(q) =
             Pairs(q, first)
             \o IfPresent(q, "decisionContextDigest", Field(q, "decisionContextDigest"))
             \o Pairs(q, second)
             \o IfPresent(q, "extensionsDigest", Field(q, "extensionsDigest"))
             \o IfPresent(q, "aiInvocation", canonicalizeValue(Field(q, "aiInvocation")))
             \o IfPresent(q, "parties", Field(q, "parties"))
      BY DEF canonicalizeRecord, first, second
    <3> QED BY <2>4, <2>5, <2>6, <3>1
  <2> QED BY <1>1, <1>2, <2>7, FormIs
<1>3. CASE Kind(r) = "checkpoint"
  <2> DEFINE first == <<"id", "type", "timestamp", "sequence", "recordCount", "previousHash">>
  <2>1. \A f \in CheckpointFields \cup {"parties"} : Told(r, f) = Told(s, f)
    BY <1>1, <1>3 DEF FieldsOf, CheckpointFields
  <2>2. DOMAIN first = 1 .. 6 /\ ToSet(first) \subseteq CheckpointFields
    <3>1. ToSet(first) = {first[i] : i \in 1 .. 6}  BY DEF ToSet
    <3> QED BY <3>1 DEF CheckpointFields
  <2>3. \A q : canonicalizeCheckpoint(q) =
                 Pairs(q, first) \o IfPresent(q, "parties", Field(q, "parties"))
    BY DEF canonicalizeCheckpoint
  <2>4. Pairs(r, first) = Pairs(s, first)
    <3> HIDE DEF first
    <3>1. \A f \in ToSet(first) : Told(r, f) = Told(s, f)  BY <2>1, <2>2
    <3> QED BY <2>2, <3>1, SamePairs
  <2>5. IfPresent(r, "parties", Field(r, "parties")) = IfPresent(s, "parties", Field(s, "parties"))
    BY <2>1, SameIfPresent
  <2> HIDE DEF first
  <2> QED BY <1>1, <1>3, <2>3, <2>4, <2>5, FormIs
<1>4. CASE Kind(r) = "chain_break"
  <2> DEFINE first == <<"id", "type", "timestamp", "reason", "priorHead", "priorSequence",
                        "priorRecordCount">>
  <2>1. DOMAIN first = 1 .. 7 /\ ToSet(first) \subseteq FieldsOf(Kind(r))
    <3>1. ToSet(first) = {first[i] : i \in 1 .. 7}  BY DEF ToSet
    <3> QED BY <1>4, <3>1 DEF FieldsOf
  <2>2. \A q : canonicalizeChainBreak(q) = Pairs(q, first)  BY DEF canonicalizeChainBreak
  <2> HIDE DEF first
  <2>3. Pairs(r, first) = Pairs(s, first)  BY <1>1, <2>1, SamePairs
  <2> QED BY <1>1, <1>4, <2>2, <2>3, FormIs
<1>5. CASE Kind(r) = "tool_drift"
  <2> DEFINE first == <<"id", "type", "timestamp", "toolName", "namespace",
                        "previousDefinitionDigest", "newDefinitionDigest",
                        "detectedAtRecord", "previousHash">>
  <2>1. DOMAIN first = 1 .. 9 /\ ToSet(first) \subseteq FieldsOf(Kind(r))
    <3>1. ToSet(first) = {first[i] : i \in 1 .. 9}  BY DEF ToSet
    <3> QED BY <1>5, <3>1 DEF FieldsOf
  <2>2. \A q : canonicalizeToolDrift(q) = Pairs(q, first)  BY DEF canonicalizeToolDrift
  <2> HIDE DEF first
  <2>3. Pairs(r, first) = Pairs(s, first)  BY <1>1, <2>1, SamePairs
  <2> QED BY <1>1, <1>5, <2>2, <2>3, FormIs
<1> QED BY <1>2, <1>3, <1>4, <1>5, KindIs DEF Kinds

-----------------------------------------------------------------------------
(* Fields, and what depends on them                                        *)

LEMMA WithField ==
    ASSUME NEW record, NEW f, NEW value, NEW g
    PROVE  Field(With(record, f, value), g) = IF g = f THEN value ELSE Field(record, g)
<1>1. CASE value = Undefined
  BY <1>1 DEF With, Without, Field
<1>2. CASE value # Undefined
  BY <1>2 DEF With, Field
<1> QED BY <1>1, <1>2

LEMMA BodyField ==
    ASSUME NEW record, NEW f
    PROVE  Field(Body(record), f) = IF f = "attestation" THEN Undefined ELSE Field(record, f)
  BY DEF Body, Without, Field

\* What a record says is in its fields, but not in its attestation.
LEMMA SaysOfFields ==
    ASSUME NEW r, NEW s, \A f : f # "attestation" => Field(r, f) = Field(s, f)
    PROVE  Kind(r) = Kind(s) /\ Says(r) = Says(s)
<1>1. Kind(r) = Kind(s)
  <2>1. Field(r, "type") = Field(s, "type")  OBVIOUS
  <2> QED BY <2>1 DEF Kind
<1>2. "attestation" \notin FieldsOf(Kind(r))  BY KindIs DEF FieldsOf, Kinds
<1>3. \A f \in FieldsOf(Kind(r)) : Told(r, f) = Told(s, f)
  <2> SUFFICES ASSUME NEW f \in FieldsOf(Kind(r)) PROVE Told(r, f) = Told(s, f)
    OBVIOUS
  <2>1. Field(r, f) = Field(s, f)  BY <1>2
  <2>2. Absent(r, f) <=> Absent(s, f)  BY <2>1 DEF Absent
  <2> QED BY <2>1, <2>2, ToldNull
<1> QED BY <1>1, <1>3, SaysIs

LEMMA BodySays ==
    ASSUME NEW record
    PROVE  Kind(Body(record)) = Kind(record) /\ Says(Body(record)) = Says(record)
<1>1. \A f : f # "attestation" => Field(Body(record), f) = Field(record, f)
  BY BodyField
<1> QED BY <1>1, SaysOfFields

\* Whether a record can be signed is in what it says.
LEMMA SignableSays ==
    ASSUME NEW r, NEW s, Says(r) = Says(s), Signable(r)
    PROVE  Signable(s)
<1>1. /\ Kind(r) = Kind(s)
      /\ \A f \in FieldsOf(Kind(r)) : Told(r, f) = Told(s, f)
  BY SaysIs
<1>2. Required(Kind(r)) \cup Checked(Kind(r)) \subseteq FieldsOf(Kind(r))
  <2>1. CASE Kind(r) = "call"  BY <2>1 DEF Required, Checked, FieldsOf
  <2>2. CASE Kind(r) = "checkpoint"  BY <2>2 DEF Required, Checked, FieldsOf
  <2>3. CASE Kind(r) = "chain_break"  BY <2>3 DEF Required, Checked, FieldsOf
  <2>4. CASE Kind(r) = "tool_drift"  BY <2>4 DEF Required, Checked, FieldsOf
  <2> QED BY <2>1, <2>2, <2>3, <2>4, KindIs DEF Kinds
<1>3. \A f \in FieldsOf(Kind(r)) : Absent(r, f) <=> Absent(s, f)
  BY <1>1, ToldNull
<1>4. \A f \in FieldsOf(Kind(r)) : ~Absent(s, f) => Field(r, f) = Field(s, f)
  BY <1>1, <1>3, ToldNull
<1>5. \A f \in Required(Kind(s)) : ~Absent(s, f)
  BY <1>1, <1>2, <1>3 DEF Signable
<1>6. ASSUME NEW f \in Required(Kind(s)) \cup Checked(Kind(s))
      PROVE  Field(s, f) # Lone
  <2>1. CASE Absent(s, f)
    <3>1. Lone # Null /\ Lone # Undefined  BY DEF Lone, Text, Null, Undefined
    <3> QED BY <2>1, <3>1 DEF Absent
  <2>2. CASE ~Absent(s, f)
    <3>1. Field(r, f) = Field(s, f)  BY <1>1, <1>2, <1>4, <2>2
    <3> QED BY <1>1, <3>1 DEF Signable
  <2> QED BY <2>1, <2>2
<1>7. ASSUME Kind(s) = "call" PROVE Canonicalizable(Field(s, "aiInvocation"))
  <2>1. CASE Absent(s, "aiInvocation")
    BY <2>1, ValueAssumption DEF Absent
  <2>2. CASE ~Absent(s, "aiInvocation")
    <3>1. "aiInvocation" \in FieldsOf(Kind(r))  BY <1>1, <1>7 DEF FieldsOf
    <3>2. Field(r, "aiInvocation") = Field(s, "aiInvocation")  BY <1>4, <2>2, <3>1
    <3> QED BY <1>1, <1>7, <3>2 DEF Signable
  <2> QED BY <2>1, <2>2
<1> QED BY <1>5, <1>6, <1>7 DEF Signable

-----------------------------------------------------------------------------
(* Keys and signatures                                                     *)

LEMMA KeysIs ==
    ASSUME config \in Configs, NEW p \in Processes
    PROVE  /\ NamesKey => SignerKey(p) = VerifierKey /\ SignerKey(p) # NoKey
           /\ ~NamesKey => SignerKey(p) = NoKey \/ SignerKey(p) # VerifierKey
           /\ VerifierKey # NoKey
<1>1. /\ config.enabled \in BOOLEAN /\ config.secret \in BOOLEAN
      /\ config.keyPath \in BOOLEAN /\ config.algorithm \in {"hmac-sha256", "ed25519"}
      /\ p # Reader
  BY ConstantsAssumption
<1>2. CASE ~config.enabled
  <2>1. ~NamesKey /\ SignerKey(p) = NoKey  BY <1>2 DEF NamesKey, SignerKey
  <2>2. VerifierKey # NoKey  BY DEF VerifierKey, Ed25519Key, Key, NoKey
  <2> QED BY <2>1, <2>2
<1>3. CASE config.enabled /\ config.algorithm = "ed25519"
  <2>1. NamesKey <=> config.keyPath  BY <1>1, <1>3 DEF NamesKey
  <2>2. SignerKey(p) = Ed25519Key(p)  BY <1>3 DEF SignerKey
  <2>3. VerifierKey = Ed25519Key(Reader)  BY <1>3 DEF VerifierKey
  <2> QED BY <1>1, <2>1, <2>2, <2>3 DEF Ed25519Key, Key, NoKey
<1>4. CASE config.enabled /\ config.algorithm = "hmac-sha256"
  <2>1. NamesKey <=> config.secret  BY <1>1, <1>4 DEF NamesKey
  <2>2. SignerKey(p) = IF config.secret THEN Key("hmac", "secret", 0)
                       ELSE Key("hmac", "random", p)
    BY <1>4 DEF SignerKey
  <2>3. VerifierKey = IF config.secret THEN Key("hmac", "secret", 0) ELSE Ed25519Key(Reader)
    BY <1>4 DEF VerifierKey
  <2> QED BY <1>1, <2>1, <2>2, <2>3 DEF Ed25519Key, Key, NoKey
<1> QED BY <1>1, <1>2, <1>3, <1>4

\* A signature is no other text.
LEMMA SignIs ==
    ASSUME NEW record, NEW key, key # NoKey
    PROVE  /\ sign(record, key) = <<"signature", key, canonicalize(record)>>
           /\ sign(record, key) \notin Scalars \cup {Text("")}
<1>1. sign(record, key) = <<"signature", key, canonicalize(record)>>  BY DEF sign
<1>2. ASSUME NEW c PROVE <<"signature", key, c>> \notin Scalars \cup {Text("")}
  BY DEF Scalars, Text, Null, Undefined
<1> QED BY <1>1, <1>2

LEMMA SignSays ==
    ASSUME NEW r, NEW s, NEW key, Says(r) = Says(s)
    PROVE  sign(r, key) = sign(s, key)
  BY SaysForm DEF sign

-----------------------------------------------------------------------------
(* The invariant                                                           *)

Keys == {SignerKey(p) : p \in Processes}

Lists ==
    /\ IsSeq(written) /\ IsSeq(log)
    /\ Len(log) = Len(written)
    /\ ~NamesKey => log = written

\* A record is signed as it was written, with one of some keys, ...
SignedRight(record, keys) ==
    /\ \E key \in keys : Field(record, "attestation") = sign(Body(record), key)
    /\ Signable(Body(record))
    /\ Field(record, "aiInvocation") \in Invocations \cup {Undefined}

\* ... and names the record before it, unless it starts a chain.
LinkedRight(records, i) ==
    Kind(records[i]) # "chain_break" =>
        Field(records[i], "previousHash") =
            IF i = 1 THEN Text("genesis") ELSE hashRecord(records[i - 1])

\* No edit makes a signature, nor a value that is no invocation.
EditedRight(edited, record) ==
    /\ Field(edited, "attestation") \in Scalars \cup {Field(record, "attestation")}
    /\ Field(edited, "aiInvocation") \in Invocations \cup {Undefined}

RecordsInv ==
    /\ config \in Configs
    /\ Lists
    /\ \A i \in DOMAIN written : SignedRight(written[i], Keys) /\ LinkedRight(written, i)
    /\ \A i \in DOMAIN log : EditedRight(log[i], written[i])

LEMMA SeqSet ==
    ASSUME NEW S, NEW s \in Seq(S)
    PROVE  IsSeq(s) /\ Len(s) \in Nat /\ DOMAIN s = 1 .. Len(s)
<1>1. PICK n \in Nat : n = Len(s)  OBVIOUS
<1>2. DOMAIN s = 1 .. n /\ s = [i \in 1 .. n |-> s[i]]  BY <1>1
<1>3. \A i \in 1 .. n : s[i] \in ToSet(s)  BY <1>2 DEF ToSet
<1>4. [i \in 1 .. n |-> s[i]] \in Seq(ToSet(s))  BY <1>3, IsASeq
<1> QED BY <1>1, <1>2, <1>4 DEF IsSeq

LEMMA ListsDomain ==
    ASSUME Lists
    PROVE  /\ Len(log) \in Nat /\ DOMAIN log = 1 .. Len(log) /\ DOMAIN written = 1 .. Len(log)
           /\ Len(written) = Len(log)
  BY SeqSet DEF Lists, IsSeq

\* What a client says is in the records of executed calls, and in no other.
LEMMA RecordsInvocation ==
    ASSUME NEW record \in Records
    PROVE  Field(record, "aiInvocation") \in Invocations \cup {Undefined}
<1>1. CASE record = UnknownCall
  BY <1>1, WithField DEF UnknownCall, CallRecord, Field
<1>2. CASE \E x \in Invocations : record = ExecutedCall(x)
  BY <1>2, WithField DEF ExecutedCall, CallRecord, Field
<1>3. CASE record \in {Checkpoint, ChainBreak, ToolDrift}
  BY <1>3 DEF Checkpoint, ChainBreak, ToolDrift, Field
<1> QED BY <1>1, <1>2, <1>3 DEF Records

LEMMA HashDefined == ASSUME NEW record PROVE hashRecord(record) # Undefined
  BY DEF hashRecord, Undefined

\* The fields of the next record.
LEMMA SignedFields ==
    ASSUME NEW record, NEW p
    PROVE  /\ Kind(Signed(record, p)) = Kind(record)
           /\ Field(Signed(record, p), "attestation") =
                 sign(Body(Signed(record, p)), SignerKey(p))
           /\ Field(Signed(record, p), "aiInvocation") = Field(record, "aiInvocation")
           /\ Kind(record) # "chain_break" =>
                 Field(Signed(record, p), "previousHash") = lastHash
<1> DEFINE link == IF Kind(record) = "chain_break" THEN "priorHead" ELSE "previousHash"
           linked == IF link = "priorHead" /\ log = <<>> THEN record
                     ELSE With(record, link, lastHash)
           next == With(linked, "attestation", sign(linked, SignerKey(p)))
<1>1. Signed(record, p) = next  BY DEF Signed
<1>2. \A f : f # link => Field(linked, f) = Field(record, f)  BY WithField
<1>3. Kind(record) # "chain_break" => link = "previousHash" /\ Field(linked, link) = lastHash
  BY WithField
<1>4. link \in {"priorHead", "previousHash"}  OBVIOUS
<1> HIDE DEF linked, link
<1>5. \A f : f # "attestation" => Field(next, f) = Field(linked, f)
  BY WithField
<1>6. Field(next, "attestation") = sign(linked, SignerKey(p))  BY WithField
<1> HIDE DEF next
<1>7. Says(next) = Says(linked)  BY <1>5, SaysOfFields
<1>8. sign(linked, SignerKey(p)) = sign(Body(next), SignerKey(p))
  BY <1>7, BodySays, SignSays
<1>9. Field(next, "type") = Field(record, "type")  BY <1>2, <1>4, <1>5
<1>10. Kind(next) = Kind(record)  BY <1>9 DEF Kind
<1>11. Field(next, "aiInvocation") = Field(record, "aiInvocation")  BY <1>2, <1>4, <1>5
<1>12. Kind(record) # "chain_break" => Field(next, "previousHash") = lastHash
  BY <1>3, <1>5
<1> QED BY <1>1, <1>6, <1>8, <1>10, <1>11, <1>12

LEMMA RecordsInitial == Init => RecordsInv
<1> SUFFICES ASSUME Init PROVE RecordsInv
  OBVIOUS
<1>1. <<>> \in Seq(ToSet(<<>>))  OBVIOUS
<1> QED BY <1>1 DEF Init, RecordsInv, Lists, IsSeq

\* Nothing about keys changes.
LEMMA SameConfig ==
    ASSUME config' = config
    PROVE  Keys' = Keys /\ (NamesKey' <=> NamesKey)
  BY DEF Keys, SignerKey, Ed25519Key, NamesKey

\* A write adds a record that is signed and linked.
LEMMA WriteKeeps ==
    ASSUME RecordsInv, NEW record \in Records, NEW p \in Processes, Write(record, p)
    PROVE  RecordsInv'
<1> DEFINE next == Signed(record, p)
           n == Len(log)
<1>1. /\ config' = config /\ log' = Append(log, next) /\ written' = log'
      /\ log = written /\ Signable(Body(next))
  BY DEF Write
<1>2. n \in Nat /\ DOMAIN log = 1 .. n  BY ListsDomain DEF RecordsInv
<1>3. Field(next, "attestation") = sign(Body(next), SignerKey(p))  BY SignedFields
<1>4. Field(next, "aiInvocation") \in Invocations \cup {Undefined}
  BY SignedFields, RecordsInvocation
<1>5. Kind(next) # "chain_break" => Field(next, "previousHash") = lastHash
  BY SignedFields
<1>6. lastHash = IF n = 0 THEN Text("genesis") ELSE hashRecord(log[n])
  <2>1. log = <<>> <=> n = 0  BY <1>2 DEF RecordsInv, Lists, IsSeq
  <2> QED BY <2>1 DEF lastHash, Last
<1> HIDE DEF next
<1>7. SignedRight(next, Keys)
  BY <1>1, <1>3, <1>4 DEF SignedRight, Keys
<1>8. IsSeq(log') /\ DOMAIN log' = 1 .. n + 1
  <2> DEFINE S == ToSet(log) \cup {next}
  <2>1. log \in Seq(S)  BY DEF RecordsInv, Lists, IsSeq
  <2> HIDE DEF S
  <2>2. next \in S  BY DEF S
  <2>3. Append(log, next) \in Seq(S) /\ Len(Append(log, next)) = n + 1  BY <2>1, <2>2
  <2> QED BY <1>1, <2>3, SeqSet
<1>9. (\A i \in 1 .. n : log'[i] = log[i]) /\ log'[n + 1] = next
  <2>1. log \in Seq(ToSet(log))  BY DEF RecordsInv, Lists, IsSeq
  <2> QED BY <1>1, <1>2, <2>1
<1>10. config' \in Configs  BY <1>1 DEF RecordsInv
<1>11. Lists'  BY <1>1, <1>8 DEF Lists
<1>12. ASSUME NEW i \in 1 .. n + 1
       PROVE  SignedRight(log'[i], Keys) /\ LinkedRight(log', i) /\ EditedRight(log'[i], log'[i])
  <2>1. CASE i \in 1 .. n
    <3>1. SignedRight(log[i], Keys) /\ LinkedRight(log, i)  BY <1>1, <1>2, <2>1 DEF RecordsInv
    <3>2. log'[i] = log[i]  BY <1>9, <2>1
    <3>3. i # 1 => i - 1 \in 1 .. n  BY <1>2, <2>1
    <3>4. i # 1 => log'[i - 1] = log[i - 1]  BY <1>9, <3>3
    <3>5. LinkedRight(log', i)  BY <3>1, <3>2, <3>4 DEF LinkedRight
    <3>6. EditedRight(log'[i], log'[i])  BY <3>1, <3>2 DEF SignedRight, EditedRight
    <3> QED BY <3>1, <3>2, <3>5, <3>6
  <2>2. CASE i = n + 1
    <3>1. log'[i] = next  BY <1>9, <2>2
    <3>2. i = 1 <=> n = 0  BY <1>2, <2>2
    <3>3. n # 0 => i - 1 = n /\ n \in 1 .. n  BY <1>2, <2>2
    <3>4. n # 0 => log'[i - 1] = log[n]  BY <1>9, <3>3
    <3>5. LinkedRight(log', i)  BY <1>5, <1>6, <3>1, <3>2, <3>4 DEF LinkedRight
    <3>6. EditedRight(log'[i], log'[i])  BY <1>4, <3>1 DEF EditedRight
    <3> QED BY <1>7, <3>1, <3>5, <3>6
  <2> QED BY <1>2, <2>1, <2>2
<1>13. Keys' = Keys  BY <1>1, SameConfig
<1> QED BY <1>1, <1>8, <1>10, <1>11, <1>12, <1>13 DEF RecordsInv

\* An edit leaves what was written alone, and makes no signature.
LEMMA EditKeeps ==
    ASSUME RecordsInv, NamesKey, NEW i \in DOMAIN log, NEW f, NEW value, Edit(i, f, value),
           f = "attestation" => value \in Scalars,
           f = "aiInvocation" => value \in Invocations \cup {Undefined}
    PROVE  RecordsInv'
<1> DEFINE edited == With(log[i], f, value)
           n == Len(log)
<1>1. config' = config /\ written' = written /\ log' = [log EXCEPT ![i] = edited]
  BY DEF Edit
<1>2. n \in Nat /\ DOMAIN log = 1 .. n /\ DOMAIN written = 1 .. n /\ Len(written) = n
  BY ListsDomain DEF RecordsInv
<1>3. EditedRight(edited, written[i])
  <2>1. EditedRight(log[i], written[i])  BY DEF RecordsInv
  <2>2. \A g : Field(edited, g) = IF g = f THEN value ELSE Field(log[i], g)  BY WithField
  <2> HIDE DEF edited
  <2> QED BY <2>1, <2>2 DEF EditedRight
<1> HIDE DEF edited
<1>4. log' \in Seq(ToSet(log) \cup {edited}) /\ DOMAIN log' = 1 .. n
  <2>1. log \in Seq(ToSet(log) \cup {edited})  BY DEF RecordsInv, Lists, IsSeq
  <2>2. [log EXCEPT ![i] = edited] \in Seq(ToSet(log) \cup {edited})  BY <2>1, ExceptSeq
  <2> QED BY <1>1, <1>2, <2>2
<1>5. IsSeq(log') /\ Len(log') = n
  <2>1. Len(log') \in Nat /\ DOMAIN log' = 1 .. Len(log') /\ IsSeq(log')  BY <1>4, SeqSet
  <2>2. Len(log') = n
    <3> DEFINE m == Len(log')
    <3>1. m \in Nat /\ 1 .. m = 1 .. n  BY <1>4, <2>1
    <3> HIDE DEF m, n
    <3>2. m \in 1 .. m \/ m = 0  BY <3>1
    <3>3. n \in 1 .. n \/ n = 0  BY <1>2
    <3>4. m <= n /\ n <= m  BY <1>2, <3>1, <3>2, <3>3
    <3>5. m = n  BY <1>2, <3>1, <3>4
    <3> QED BY <3>5 DEF m
  <2> QED BY <2>1, <2>2
<1>6. Keys' = Keys /\ NamesKey'  BY <1>1, SameConfig
<1>7. Lists'  BY <1>1, <1>2, <1>5, <1>6 DEF RecordsInv, Lists
<1>8. \A j \in 1 .. n : EditedRight(log'[j], written[j])
  <2>1. \A j \in 1 .. n : log'[j] = IF j = i THEN edited ELSE log[j]  BY <1>1, <1>2
  <2>2. \A j \in 1 .. n : EditedRight(log[j], written[j])  BY <1>2 DEF RecordsInv
  <2> QED BY <1>3, <2>1, <2>2
<1> QED BY <1>1, <1>2, <1>4, <1>6, <1>7, <1>8 DEF RecordsInv

LEMMA RecordsStep == RecordsInv /\ [Next]_vars => RecordsInv'
<1> SUFFICES ASSUME RecordsInv, [Next]_vars PROVE RecordsInv'
  OBVIOUS
<1>1. ASSUME NEW record \in Records, NEW p \in Processes, Write(record, p) PROVE RecordsInv'
  BY <1>1, WriteKeeps
<1>2. ASSUME MayEdit, NEW i \in DOMAIN log, EditScalar(i) PROVE RecordsInv'
  <2>1. PICK f \in Fields, value \in Scalars : Edit(i, f, value)  BY <1>2 DEF EditScalar
  <2>2. f # "aiInvocation"  BY <2>1 DEF Fields
  <2> QED BY <1>2, <2>1, <2>2, EditKeeps DEF MayEdit
<1>3. ASSUME MayEdit, NEW i \in DOMAIN log, EditText(i) PROVE RecordsInv'
  <2>1. PICK f \in TextFields : Edit(i, f, Lone)  BY <1>3 DEF EditText
  <2>2. PICK kind \in Kinds : f \in Required(kind) \cup Checked(kind)
    BY <2>1 DEF TextFields
  <2>3. f \notin {"attestation", "aiInvocation"}
    <3>1. CASE kind = "call"  BY <3>1, <2>2 DEF Required, Checked
    <3>2. CASE kind = "checkpoint"  BY <3>2, <2>2 DEF Required, Checked
    <3>3. CASE kind = "chain_break"  BY <3>3, <2>2 DEF Required, Checked
    <3>4. CASE kind = "tool_drift"  BY <3>4, <2>2 DEF Required, Checked
    <3> QED BY <3>1, <3>2, <3>3, <3>4 DEF Kinds
  <2> QED BY <1>3, <2>1, <2>3, EditKeeps DEF MayEdit
<1>4. ASSUME MayEdit, NEW i \in DOMAIN log, EditType(i) PROVE RecordsInv'
  <2>1. PICK type \in Kinds : Edit(i, "type", Text(type))  BY <1>4 DEF EditType
  <2> QED BY <1>4, <2>1, EditKeeps DEF MayEdit
<1>5. ASSUME MayEdit, NEW i \in DOMAIN log, EditInvocation(i) PROVE RecordsInv'
  <2>1. PICK value \in Invocations \cup {Undefined} : Edit(i, "aiInvocation", value)
    BY <1>5 DEF EditInvocation
  <2> QED BY <1>5, <2>1, EditKeeps DEF MayEdit
<1>6. ASSUME MayEdit, NEW i \in DOMAIN log, EditParties(i) PROVE RecordsInv'
  <2>1. PICK value : Edit(i, "parties", value)  BY <1>6 DEF EditParties
  <2> QED BY <1>6, <2>1, EditKeeps DEF MayEdit
<1>7. ASSUME MayEdit, NEW i \in DOMAIN log, EditLink(i) PROVE RecordsInv'
  <2>1. Edit(i, "previousHash", hashRecord(log[i - 1]))  BY <1>7 DEF EditLink
  <2> QED BY <1>7, <2>1, EditKeeps DEF MayEdit
<1>8. ASSUME UNCHANGED vars PROVE RecordsInv'
  <2>1. config' = config /\ written' = written /\ log' = log  BY <1>8 DEF vars
  <2>2. Keys' = Keys /\ (NamesKey' <=> NamesKey)  BY <2>1, SameConfig
  <2>3. Lists'  BY <2>1, <2>2 DEF RecordsInv, Lists
  <2> QED BY <2>1, <2>2, <2>3 DEF RecordsInv
<1> QED BY <1>1, <1>2, <1>3, <1>4, <1>5, <1>6, <1>7, <1>8 DEF Next, Finished

\* What was written is signed and linked, the lines are as many as were
\* written, and no edit makes a signature.
THEOREM RecordsKept == Spec => []RecordsInv
  BY RecordsInitial, RecordsStep, PTL DEF Spec

-----------------------------------------------------------------------------
(* Signatures                                                              *)

LEMMA KeyNamed ==
    ASSUME RecordsInv
    PROVE  /\ NamesKey => \A key \in Keys : key = VerifierKey
           /\ ~NamesKey => \A key \in Keys : key = NoKey \/ key # VerifierKey
           /\ VerifierKey # NoKey
<1>1. config \in Configs  BY DEF RecordsInv
<1>2. VerifierKey # NoKey  BY DEF VerifierKey, Ed25519Key, Key, NoKey
<1> QED BY <1>1, <1>2, KeysIs DEF Keys

\* The attestation of a record that was signed, and of one that is as it was.
LEMMA AttestationIs ==
    ASSUME RecordsInv, NEW i \in DOMAIN log
    PROVE  /\ "attestation" \in DOMAIN written[i]
           /\ \E key \in Keys : Field(written[i], "attestation") = sign(Body(written[i]), key)
           /\ Attested(log[i]) => Field(log[i], "attestation") = log[i].attestation
<1>1. i \in DOMAIN written  BY ListsDomain DEF RecordsInv
<1>2. PICK key \in Keys : Field(written[i], "attestation") = sign(Body(written[i]), key)
  BY <1>1 DEF RecordsInv, SignedRight
<1>3. sign(Body(written[i]), key) # Undefined
  <2>1. CASE key = NoKey  BY <2>1 DEF sign, Text, Undefined
  <2>2. CASE key # NoKey  BY <2>2, SignIs DEF Scalars
  <2> QED BY <2>1, <2>2
<1>4. "attestation" \in DOMAIN written[i]  BY <1>2, <1>3 DEF Field
<1>5. Attested(log[i]) => Field(log[i], "attestation") = log[i].attestation
  BY DEF Attested, Field
<1> QED BY <1>2, <1>4, <1>5

LEMMA InvocationsApart ==
    ASSUME NEW r, NEW s, Signable(Body(r)), Signable(Body(s)),
           Field(r, "aiInvocation") \in Invocations \cup {Undefined},
           Field(s, "aiInvocation") \in Invocations \cup {Undefined},
           Kind(Body(r)) = "call", Kind(Body(s)) = "call"
    PROVE  InvocationsTold(Body(r), Body(s))
<1> DEFINE x == Field(Body(r), "aiInvocation")
           y == Field(Body(s), "aiInvocation")
<1>1. x \in Invocations \cup {Undefined} /\ y \in Invocations \cup {Undefined}
  BY BodyField
<1>2. Canonicalizable(x) /\ Canonicalizable(y)  BY DEF Signable
<1>3. ~Absent(Body(r), "aiInvocation") => x # Undefined  BY DEF Absent
<1>4. ~Absent(Body(s), "aiInvocation") => y # Undefined  BY DEF Absent
<1>5. InvocationsTold(Body(r), Body(s)) <=>
         (~Absent(Body(r), "aiInvocation") /\ ~Absent(Body(s), "aiInvocation")
             /\ canonicalizeValue(x) = canonicalizeValue(y) => x = y)
  BY DEF InvocationsTold
<1> HIDE DEF x, y
<1> QED BY <1>1, <1>2, <1>3, <1>4, <1>5, ValueAssumption

\* Under a key that the configuration names, the records that verify are those
\* that have their attestation and say what they said.
LEMMA ValidIs ==
    ASSUME RecordsInv, NamesKey, NEW i \in DOMAIN log
    PROVE  SignatureValid(i) <=>
              /\ Field(log[i], "attestation") = Field(written[i], "attestation")
              /\ Says(log[i]) = Says(written[i])
<1> DEFINE r == log[i]
           s == written[i]
<1>1. i \in DOMAIN written  BY ListsDomain DEF RecordsInv
<1>2. SignedRight(s, Keys) /\ EditedRight(r, s)  BY <1>1 DEF RecordsInv
<1>3. Field(s, "attestation") = sign(Body(s), VerifierKey)
  BY <1>2, KeyNamed DEF SignedRight
<1>4. VerifierKey # NoKey  BY KeyNamed
<1>5. SignatureValid(i) <=>
         /\ Attested(r) /\ Signable(Body(r))
         /\ Field(r, "attestation") = sign(Body(r), VerifierKey)
  BY AttestationIs DEF SignatureValid
<1>6. Says(Body(r)) = Says(r) /\ Says(Body(s)) = Says(s)  BY BodySays
<1> HIDE DEF r, s
<1>7. ASSUME SignatureValid(i)
      PROVE  Field(r, "attestation") = Field(s, "attestation") /\ Says(r) = Says(s)
  <2>1. sign(Body(r), VerifierKey) = <<"signature", VerifierKey, canonicalize(Body(r))>>
    BY <1>4, SignIs
  <2>2. sign(Body(s), VerifierKey) = <<"signature", VerifierKey, canonicalize(Body(s))>>
    BY <1>4, SignIs
  <2>3. sign(Body(r), VerifierKey) \notin Scalars  BY <1>4, SignIs
  <2>4. Field(r, "attestation") = Field(s, "attestation")
    BY <1>2, <1>5, <1>7, <2>3 DEF EditedRight
  <2>5. canonicalize(Body(r)) = canonicalize(Body(s))
    BY <1>3, <1>5, <1>7, <2>1, <2>2, <2>4
  <2>6. Kind(Body(r)) = "call" /\ Kind(Body(s)) = "call" => InvocationsTold(Body(r), Body(s))
    BY <1>2, <1>5, <1>7, InvocationsApart DEF SignedRight, EditedRight
  <2>7. Says(Body(r)) = Says(Body(s))  BY <2>5, <2>6, FormTells
  <2> QED BY <1>6, <2>4, <2>7
<1>8. ASSUME Field(r, "attestation") = Field(s, "attestation"), Says(r) = Says(s)
      PROVE  SignatureValid(i)
  <2>1. Signable(Body(r))  BY <1>2, <1>6, <1>8, SignableSays DEF SignedRight
  <2>2. sign(Body(r), VerifierKey) = sign(Body(s), VerifierKey)  BY <1>6, <1>8, SignSays
  <2>3. Field(r, "attestation") = sign(Body(r), VerifierKey)  BY <1>3, <1>8, <2>2
  <2>4. Attested(r)  BY <1>4, <2>3, SignIs DEF Attested, Scalars
  <2> QED BY <1>5, <2>1, <2>3, <2>4
<1> QED BY <1>7, <1>8 DEF r, s

\* Without a key that the configuration names nothing verifies.
LEMMA UnnamedInvalid ==
    ASSUME RecordsInv, ~NamesKey, NEW i \in DOMAIN log
    PROVE  ~SignatureValid(i)
<1>1. log[i] = written[i]  BY DEF RecordsInv, Lists
<1>2. PICK key \in Keys : Field(log[i], "attestation") = sign(Body(log[i]), key)
  BY <1>1, AttestationIs
<1>3. VerifierKey # NoKey /\ (key = NoKey \/ key # VerifierKey)  BY KeyNamed
<1>4. CASE key = NoKey
  <2>1. Field(log[i], "attestation") = Text("")  BY <1>2, <1>4 DEF sign
  <2> QED BY <2>1 DEF SignatureValid, Attested
<1>5. CASE key # NoKey
  <2> DEFINE c == canonicalize(Body(log[i]))
  <2>1. sign(Body(log[i]), key) = <<"signature", key, c>>  BY <1>5, SignIs
  <2>2. sign(Body(log[i]), VerifierKey) = <<"signature", VerifierKey, c>>  BY <1>3, SignIs
  <2> HIDE DEF c
  <2>3. sign(Body(log[i]), key) # sign(Body(log[i]), VerifierKey)  BY <1>3, <1>5, <2>1, <2>2
  <2>4. Attested(log[i]) => log[i].attestation = sign(Body(log[i]), key)
    BY <1>2, AttestationIs
  <2> QED BY <2>3, <2>4 DEF SignatureValid
<1> QED BY <1>4, <1>5

LEMMA RecordsVerify == RecordsInv => VerifiesIffUnchanged
<1> SUFFICES ASSUME RecordsInv, NEW i \in DOMAIN log,
                    Field(log[i], "attestation") = written[i].attestation
             PROVE  SignatureValid(i) <=> NamesKey /\ Says(log[i]) = Says(written[i])
  BY DEF VerifiesIffUnchanged
<1>1. Field(written[i], "attestation") = written[i].attestation
  BY AttestationIs DEF Field
<1>2. CASE NamesKey
  BY <1>1, <1>2, ValidIs
<1>3. CASE ~NamesKey
  BY <1>3, UnnamedInvalid
<1> QED BY <1>2, <1>3

\* In every log, and however it was edited, a record that has its attestation
\* verifies exactly when the configuration names the key and the record says
\* what it said when it was written.
THEOREM RecordsVerifyIffUnchanged == Spec => []VerifiesIffUnchanged
  BY RecordsKept, RecordsVerify, PTL

-----------------------------------------------------------------------------
(* The link of the next record                                             *)

\* The line before a line is the last one that is attested.
LEMMA LineBeforeIs ==
    ASSUME RecordsInv, NEW i \in DOMAIN log
    PROVE  /\ i = 1 => LineBefore(i) = 0
           /\ i # 1 /\ Attested(log[i - 1]) => LineBefore(i) = i - 1
<1> DEFINE S == {0} \cup {j \in 1 .. i - 1 : Attested(log[j])}
<1>1. i \in Nat /\ i >= 1  BY ListsDomain DEF RecordsInv
<1>2. S \subseteq 0 .. i - 1 /\ 0 \in S  BY <1>1
<1>3. IsFiniteSet(S)
  <2>1. i - 1 \in Int /\ 0 \in Int  BY <1>1
  <2>2. IsFiniteSet(0 .. i - 1)  BY <2>1, FS_Interval
  <2> HIDE DEF S
  <2> QED BY <1>2, <2>2, FS_Subset
<1>4. LineBefore(i) = Max(S)  BY DEF LineBefore
<1>5. i # 1 /\ Attested(log[i - 1]) => i - 1 \in S  BY <1>1
<1> HIDE DEF S
<1>6. Max(S) \in S /\ \A x \in S : Max(S) >= x
  <2>1. S \in SUBSET Int /\ S # {}  BY <1>1, <1>2
  <2> QED BY <1>3, <2>1, MaxIsGreatest
<1> DEFINE m == Max(S)
<1> HIDE DEF m
<1>7. m \in 0 .. i - 1 /\ \A x \in S : m >= x  BY <1>2, <1>6 DEF m
<1>8. i = 1 => m = 0  BY <1>7
<1>9. i - 1 \in S => m = i - 1  BY <1>1, <1>7
<1> QED BY <1>4, <1>5, <1>8, <1>9 DEF m

LEMMA LinkIs ==
    ASSUME RecordsInv, NEW i \in DOMAIN log, Attested(log[i]),
           i # 1 => Attested(log[i - 1])
    PROVE  LinkValid(i) <=>
              Field(log[i], "previousHash") =
                 IF i = 1 THEN Text("genesis") ELSE hashRecord(log[i - 1])
<1>1. i \in Nat /\ i >= 1  BY ListsDomain DEF RecordsInv
<1>2. CASE i = 1
  BY <1>2, LineBeforeIs DEF LinkValid
<1>3. CASE i # 1
  <2>1. LineBefore(i) = i - 1 /\ i - 1 # 0  BY <1>1, <1>3, LineBeforeIs
  <2> QED BY <1>3, <2>1 DEF LinkValid
<1> QED BY <1>2, <1>3

\* Nobody edited the log: it is signed and linked.
LEMMA UneditedAccepted ==
    ASSUME RecordsInv, NamesKey, log = written
    PROVE  ~Aborts /\ \A i \in Reported : Kind(log[i]) = "chain_break"
<1>1. \A i \in DOMAIN log : SignatureValid(i)  BY ValidIs
<1>2. \A i \in DOMAIN log : Attested(log[i]) /\ Signable(Body(log[i]))
  BY <1>1 DEF SignatureValid
<1>3. ~Aborts  BY <1>2 DEF Aborts
<1>4. ASSUME NEW i \in DOMAIN log, Kind(log[i]) # "chain_break" PROVE LinkValid(i)
  <2>1. DOMAIN log = 1 .. Len(log) /\ Len(log) \in Nat  BY ListsDomain DEF RecordsInv
  <2>2. i # 1 => Attested(log[i - 1])
    <3>1. i # 1 => i - 1 \in DOMAIN log  BY <2>1
    <3> QED BY <1>2, <3>1
  <2>3. LinkedRight(log, i)  BY DEF RecordsInv
  <2> QED BY <1>2, <1>4, <2>2, <2>3, LinkIs DEF LinkedRight
<1> QED BY <1>1, <1>3, <1>4 DEF Reported

\* A record whose edit no error shows says what it said, ...
LEMMA UnreportedSays ==
    ASSUME RecordsInv, NamesKey, NEW i \in DOMAIN log, i \notin Reported
    PROVE  /\ SignatureValid(i) /\ LinkValid(i) /\ Attested(log[i])
           /\ Says(log[i]) = Says(written[i])
<1>1. SignatureValid(i) /\ LinkValid(i)  BY DEF Reported
<1> QED BY <1>1, ValidIs DEF LinkValid

\* ... and if the next one is linked to it, it was not edited.
LEMMA LinkedUnedited ==
    ASSUME RecordsInv, NamesKey, NEW i \in DOMAIN log, i \notin Reported,
           i + 1 \in DOMAIN log, i + 1 \notin Reported, Kind(log[i + 1]) # "chain_break"
    PROVE  log[i] = written[i]
<1> DEFINE k == i + 1
<1>1. i \in Nat /\ i >= 1 /\ k # 1 /\ k - 1 = i /\ k \in DOMAIN written
  BY ListsDomain DEF RecordsInv
<1>2. Attested(log[i]) /\ Attested(log[k])  BY UnreportedSays
<1>3. LinkValid(k) /\ Says(log[k]) = Says(written[k])  BY UnreportedSays
<1> HIDE DEF k
<1>4. k \in DOMAIN log /\ Kind(log[k]) # "chain_break"  BY DEF k
<1>5. Field(log[k], "previousHash") = hashRecord(log[i])
  BY <1>1, <1>2, <1>3, <1>4, LinkIs
<1>6. /\ Kind(written[k]) # "chain_break"
      /\ "previousHash" \in FieldsOf(Kind(log[k]))
      /\ Told(log[k], "previousHash") = Told(written[k], "previousHash")
  <2>1. Kind(written[k]) = Kind(log[k])  BY <1>3, SaysIs
  <2>2. "previousHash" \in FieldsOf(Kind(log[k]))  BY <1>4, KindIs DEF FieldsOf, Kinds
  <2> QED BY <1>3, <1>4, <2>1, <2>2, SaysIs
<1>7. Field(written[k], "previousHash") = hashRecord(written[i])
  <2>1. LinkedRight(written, k)  BY <1>1 DEF RecordsInv
  <2> QED BY <1>1, <1>6, <2>1 DEF LinkedRight
<1>8. \A x : hashRecord(x) # Null /\ hashRecord(x) # Undefined
  BY DEF hashRecord, Null, Undefined
<1>9. hashRecord(log[i]) = hashRecord(written[i])
  <2>1. ~Absent(log[k], "previousHash")  BY <1>5, <1>8 DEF Absent
  <2>2. ~Absent(written[k], "previousHash")  BY <1>7, <1>8 DEF Absent
  <2> QED BY <1>5, <1>6, <1>7, <2>1, <2>2, ToldNull
<1> QED BY <1>9 DEF hashRecord

LEMMA RecordsFindEdits == RecordsInv => VerifyFindsEdits
<1> SUFFICES ASSUME RecordsInv, NamesKey
             PROVE  /\ log = written => /\ ~Aborts
                                        /\ \A i \in Reported : Kind(log[i]) = "chain_break"
                    /\ ~Aborts => \A i \in DOMAIN log :
                          log[i] # written[i] =>
                             \/ {i, i + 1} \cap Reported # {}
                             \/ LastOfChain(i) /\ Says(log[i]) = Says(written[i])
  BY DEF VerifyFindsEdits
<1>1. log = written => ~Aborts /\ \A i \in Reported : Kind(log[i]) = "chain_break"
  BY UneditedAccepted
<1>2. ASSUME NEW i \in DOMAIN log, log[i] # written[i], {i, i + 1} \cap Reported = {}
      PROVE  LastOfChain(i) /\ Says(log[i]) = Says(written[i])
  <2>1. Says(log[i]) = Says(written[i])  BY <1>2, UnreportedSays
  <2>2. i # Len(log) => i + 1 \in DOMAIN log  BY ListsDomain DEF RecordsInv
  <2>3. i # Len(log) => Kind(log[i + 1]) = "chain_break"  BY <1>2, <2>2, LinkedUnedited
  <2> QED BY <2>1, <2>3 DEF LastOfChain
<1> QED BY <1>1, <1>2

\* verify() accepts every log nobody edited, but for its chain_breaks, and
\* whatever edits were made to a log, it reports the edited record or the next
\* one, unless the edited one ends a chain and says what it said.
THEOREM VerifyFindsEveryEdit == Spec => []VerifyFindsEdits
  BY RecordsKept, RecordsFindEdits, PTL

-----------------------------------------------------------------------------
(* Projections                                                             *)

\* The fields that a call may have without an attribution to somebody else.
WitnessedFields == ToSet(GATEWAY_WITNESSED_FIELDS)

AssertedFields == {"decisionContextDigest", "aiInvocation"}

\* The attribution of a call is of the fields it has.
CallRight(record) ==
    Kind(record) = "call" =>
        /\ "parties" \in DOMAIN record
        /\ record.parties = buildParties("decisionContextDigest" \in DOMAIN record,
                                         "aiInvocation" \in DOMAIN record)
        /\ DOMAIN record \subseteq
              WitnessedFields \cup AssertedFields \cup {"parties", "attestation"}

CallsInv == \A i \in DOMAIN written : CallRight(written[i])

LEMMA WitnessedAre ==
    /\ WitnessedFields =
          {"id", "timestamp", "method", "toolName", "namespace", "upstream", "principal",
           "durationMs", "success", "errorCode", "previousHash"}
    /\ WitnessedFields \cap AssertedFields = {}
    /\ "parties" \notin WitnessedFields /\ "attestation" \notin WitnessedFields
<1>1. DOMAIN GATEWAY_WITNESSED_FIELDS = 1 .. 11  BY DEF GATEWAY_WITNESSED_FIELDS
<1>2. WitnessedFields = {GATEWAY_WITNESSED_FIELDS[i] : i \in 1 .. 11}
  BY <1>1 DEF WitnessedFields, ToSet
<1>3. WitnessedFields =
          {"id", "timestamp", "method", "toolName", "namespace", "upstream", "principal",
           "durationMs", "success", "errorCode", "previousHash"}
  BY <1>2 DEF GATEWAY_WITNESSED_FIELDS
<1> QED BY <1>3 DEF AssertedFields

Adds(new, record, f, value) ==
    /\ DOMAIN new = DOMAIN record \cup {f}
    /\ new[f] = value
    /\ \A g \in DOMAIN record : g # f => new[g] = record[g]

LEMMA WithDomain ==
    ASSUME NEW record, NEW f, NEW value, value # Undefined
    PROVE  Adds(With(record, f, value), record, f, value)
  BY DEF With, Adds

LEMMA PartiesDefined ==
    ASSUME NEW a, NEW b PROVE buildParties(a, b) # Undefined
<1>1. ASSUME NEW s PROVE List(s) # Undefined  BY DEF List, Undefined
<1> QED BY <1>1 DEF buildParties

\* A call as the gateway gives it to the log.
LEMMA CallRecordIs ==
    ASSUME NEW opts,
           DOMAIN opts \subseteq (WitnessedFields \cup AssertedFields) \ {"previousHash"}
    PROVE  LET record == CallRecord(opts) IN
           /\ "parties" \in DOMAIN record
           /\ record.parties = buildParties("decisionContextDigest" \in DOMAIN record,
                                            "aiInvocation" \in DOMAIN record)
           /\ DOMAIN record \subseteq WitnessedFields \cup AssertedFields \cup {"parties"}
<1> DEFINE fields == DOMAIN opts \cup {"id", "timestamp", "method", "success", "durationMs"}
           given == [f \in fields |-> IF f \in DOMAIN opts THEN opts[f] ELSE Given]
           parties == buildParties("decisionContextDigest" \in DOMAIN opts,
                                   "aiInvocation" \in DOMAIN opts)
           record == With(given, "parties", parties)
<1>1. CallRecord(opts) = record  BY DEF CallRecord
<1>2. parties # Undefined  BY PartiesDefined
<1>3. DOMAIN given = fields  OBVIOUS
<1>4. /\ "decisionContextDigest" \in DOMAIN opts <=> "decisionContextDigest" \in fields
      /\ "aiInvocation" \in DOMAIN opts <=> "aiInvocation" \in fields
  OBVIOUS
<1>5. fields \subseteq WitnessedFields \cup AssertedFields  BY WitnessedAre
<1> HIDE DEF fields, given
<1>6. DOMAIN record = fields \cup {"parties"} /\ record.parties = parties
  <2> HIDE DEF parties
  <2>1. Adds(record, given, "parties", parties)  BY <1>2, WithDomain
  <2> HIDE DEF record
  <2> QED BY <1>3, <2>1 DEF Adds
<1>7. /\ "decisionContextDigest" \in DOMAIN record <=> "decisionContextDigest" \in DOMAIN opts
      /\ "aiInvocation" \in DOMAIN record <=> "aiInvocation" \in DOMAIN opts
  BY <1>4, <1>6
<1>8. parties = buildParties("decisionContextDigest" \in DOMAIN record,
                             "aiInvocation" \in DOMAIN record)
  BY <1>7 DEF buildParties, When
<1> HIDE DEF record, parties
<1> QED BY <1>1, <1>5, <1>6, <1>8

LEMMA RecordsCall ==
    ASSUME NEW record \in Records, Kind(record) = "call"
    PROVE  /\ "parties" \in DOMAIN record
           /\ record.parties = buildParties("decisionContextDigest" \in DOMAIN record,
                                            "aiInvocation" \in DOMAIN record)
           /\ DOMAIN record \subseteq WitnessedFields \cup AssertedFields \cup {"parties"}
<1>1. CASE record = UnknownCall
  <2> DEFINE opts == [toolName |-> Given, errorCode |-> Given]
  <2>1. DOMAIN opts \subseteq (WitnessedFields \cup AssertedFields) \ {"previousHash"}
    BY WitnessedAre
  <2>2. record = CallRecord(opts)  BY <1>1 DEF UnknownCall
  <2> HIDE DEF opts
  <2> QED BY <2>1, <2>2, CallRecordIs
<1>2. CASE \E x \in Invocations : record = ExecutedCall(x)
  <2>1. PICK x \in Invocations : record = ExecutedCall(x)  BY <1>2
  <2> DEFINE opts == [toolName |-> Given, namespace |-> Given, upstream |-> Given,
                      principal |-> Given, decisionContextDigest |-> Given,
                      aiInvocation |-> x]
  <2>2. DOMAIN opts \subseteq (WitnessedFields \cup AssertedFields) \ {"previousHash"}
    BY WitnessedAre DEF AssertedFields
  <2>3. record = CallRecord(opts)  BY <2>1 DEF ExecutedCall
  <2> HIDE DEF opts
  <2> QED BY <2>2, <2>3, CallRecordIs
<1>3. CASE record \in {Checkpoint, ChainBreak, ToolDrift}
  BY <1>3 DEF Checkpoint, ChainBreak, ToolDrift, Kind, Field, Text
<1> QED BY <1>1, <1>2, <1>3 DEF Records

\* The link and the attestation add nothing to what is attributed.
LEMMA SignedCall ==
    ASSUME NEW record \in Records, NEW p, lastHash # Undefined,
           sign(Body(Signed(record, p)), SignerKey(p)) # Undefined
    PROVE  CallRight(Signed(record, p))
<1> SUFFICES ASSUME Kind(Signed(record, p)) = "call"
             PROVE  CallRight(Signed(record, p))
  BY DEF CallRight
<1>1. Kind(record) = "call"  BY SignedFields
<1> DEFINE linked == With(record, "previousHash", lastHash)
           next == With(linked, "attestation", sign(linked, SignerKey(p)))
<1>2. Signed(record, p) = next  BY <1>1 DEF Signed
<1>3. sign(linked, SignerKey(p)) # Undefined
  <2>1. Field(next, "attestation") = sign(linked, SignerKey(p))
    <3> HIDE DEF linked
    <3> QED BY WithField
  <2>2. Field(next, "attestation") = sign(Body(Signed(record, p)), SignerKey(p))
    BY <1>2, SignedFields
  <2> QED BY <2>1, <2>2
<1>4. /\ DOMAIN linked = DOMAIN record \cup {"previousHash"}
      /\ \A g \in DOMAIN record : g # "previousHash" => linked[g] = record[g]
  <2>1. Adds(linked, record, "previousHash", lastHash)  BY WithDomain
  <2> HIDE DEF linked
  <2> QED BY <2>1 DEF Adds
<1> HIDE DEF linked
<1>5. /\ DOMAIN next = DOMAIN linked \cup {"attestation"}
      /\ \A g \in DOMAIN linked : g # "attestation" => next[g] = linked[g]
  <2>1. Adds(next, linked, "attestation", sign(linked, SignerKey(p)))
    BY <1>3, WithDomain
  <2> HIDE DEF next
  <2> QED BY <2>1 DEF Adds
<1> HIDE DEF next
<1>6. /\ DOMAIN next = DOMAIN record \cup {"previousHash", "attestation"}
      /\ "parties" \in DOMAIN record => next.parties = record.parties
  BY <1>4, <1>5
<1>7. /\ "decisionContextDigest" \in DOMAIN next <=> "decisionContextDigest" \in DOMAIN record
      /\ "aiInvocation" \in DOMAIN next <=> "aiInvocation" \in DOMAIN record
  BY <1>6
<1>8. buildParties("decisionContextDigest" \in DOMAIN record, "aiInvocation" \in DOMAIN record)
         = buildParties("decisionContextDigest" \in DOMAIN next, "aiInvocation" \in DOMAIN next)
  BY <1>7 DEF buildParties, When
<1>9. "previousHash" \in WitnessedFields  BY WitnessedAre
<1> QED BY <1>1, <1>2, <1>6, <1>8, <1>9, RecordsCall DEF CallRight

\* Every call in the log has its attribution.
LEMMA CallsKept == Spec => []CallsInv
<1>1. Init => CallsInv  BY DEF Init, CallsInv
<1>2. RecordsInv /\ CallsInv /\ [Next]_vars => CallsInv'
  <2> SUFFICES ASSUME RecordsInv, CallsInv, [Next]_vars PROVE CallsInv'
    OBVIOUS
  <2>1. CASE written' = written  BY <2>1 DEF CallsInv
  <2>2. CASE written' # written
    <3>1. PICK record \in Records, p \in Processes : Write(record, p)
      BY <2>2 DEF Next, vars, Finished, EditScalar, EditText, EditType, EditInvocation,
                  EditParties, EditLink, Edit
    <3> DEFINE next == Signed(record, p)
               n == Len(written)
    <3>2. written' = Append(written, next) /\ log = written  BY <3>1 DEF Write
    <3>3. written \in Seq(ToSet(written)) /\ n \in Nat /\ DOMAIN written = 1 .. n
      BY SeqSet DEF RecordsInv, Lists, IsSeq
    <3>4. lastHash # Undefined
      <4>1. Text("genesis") # Undefined  BY DEF Text, Undefined
      <4> QED BY <4>1, HashDefined DEF lastHash
    <3>5. sign(Body(next), SignerKey(p)) # Undefined
      <4>1. CASE SignerKey(p) = NoKey  BY <4>1 DEF sign, Text, Undefined
      <4>2. CASE SignerKey(p) # NoKey  BY <4>2, SignIs DEF Scalars
      <4> QED BY <4>1, <4>2
    <3>6. CallRight(next)  BY <3>4, <3>5, SignedCall
    <3> HIDE DEF next
    <3>7. /\ DOMAIN written' = 1 .. n + 1
          /\ \A i \in 1 .. n : written'[i] = written[i]
          /\ written'[n + 1] = next
      BY <3>2, <3>3
    <3>8. ASSUME NEW i \in 1 .. n + 1 PROVE CallRight(written'[i])
      <4>1. CASE i \in 1 .. n  BY <3>3, <3>7, <4>1 DEF CallsInv
      <4>2. CASE i = n + 1  BY <3>6, <3>7, <4>2
      <4> QED BY <3>3, <4>1, <4>2
    <3> QED BY <3>7, <3>8 DEF CallsInv
  <2> QED BY <2>1, <2>2
<1> QED BY <1>1, <1>2, RecordsKept, PTL DEF Spec

\* The parts of an attribution.
Paths(e) == {path[2] : path \in ToSet(e[2].scope[2])}

LEMMA AttributionIs ==
    ASSUME NEW party, NEW role, NEW scope
    PROVE  LET e == PartyAttribution(party, role, scope) IN
           e[2].party[2] = party /\ e[2].role[2] = role /\ Paths(e) = ToSet(scope)
<1> DEFINE texts == [i \in DOMAIN scope |-> Text(scope[i])]
           f == [party |-> Text(party), role |-> Text(role), scope |-> List(texts)]
           e == PartyAttribution(party, role, scope)
<1>1. e = <<"object", f>>  BY DEF PartyAttribution, Object
<1>2. e[2] = f  BY <1>1
<1>3. e[2].party = Text(party) /\ e[2].role = Text(role) /\ e[2].scope = List(texts)
  BY <1>2
<1>4. \A x : Text(x)[2] = x /\ List(x)[2] = x  BY DEF Text, List
<1>5. ToSet(texts) = {Text(scope[i]) : i \in DOMAIN scope}
  <2>1. DOMAIN texts = DOMAIN scope /\ \A i \in DOMAIN scope : texts[i] = Text(scope[i])
    OBVIOUS
  <2> HIDE DEF texts
  <2> QED BY <2>1 DEF ToSet
<1>6. {path[2] : path \in ToSet(texts)} = {scope[i] : i \in DOMAIN scope}
  <2> HIDE DEF texts
  <2> QED BY <1>4, <1>5
<1> HIDE DEF e, f, texts
<1>7. Paths(e) = ToSet(scope)
  <2>1. e[2].scope[2] = texts  BY <1>3, <1>4
  <2>2. Paths(e) = {path[2] : path \in ToSet(texts)}  BY <2>1 DEF Paths
  <2>3. ToSet(scope) = {scope[i] : i \in DOMAIN scope}  BY DEF ToSet
  <2> QED BY <1>6, <2>2, <2>3
<1> QED BY <1>3, <1>4, <1>7 DEF e

GatewayEntry == PartyAttribution("gateway", "witness", GATEWAY_WITNESSED_FIELDS)
PolicyEntry == PartyAttribution("policy-engine", "asserter", <<"decisionContextDigest">>)
ClientEntry == PartyAttribution("client", "asserter", <<"aiInvocation">>)

LEMMA EntriesKnown ==
    /\ GatewayEntry[2].party[2] = "gateway" /\ GatewayEntry[2].role[2] = "witness"
    /\ Paths(GatewayEntry) = WitnessedFields
    /\ PolicyEntry[2].party[2] = "policy-engine" /\ PolicyEntry[2].role[2] = "asserter"
    /\ Paths(PolicyEntry) = {"decisionContextDigest"}
    /\ ClientEntry[2].party[2] = "client" /\ ClientEntry[2].role[2] = "asserter"
    /\ Paths(ClientEntry) = {"aiInvocation"}
<1>1. ToSet(<<"decisionContextDigest">>) = {"decisionContextDigest"}
      /\ ToSet(<<"aiInvocation">>) = {"aiInvocation"}
  BY DEF ToSet
<1> QED BY <1>1, AttributionIs DEF GatewayEntry, PolicyEntry, ClientEntry, WitnessedFields

\* Who a call is attributed to.
LEMMA EntriesAre ==
    ASSUME NEW record, Kind(record) = "call", CallRight(record), NEW e
    PROVE  e \in Entries(record) <=>
              \/ e = GatewayEntry
              \/ "decisionContextDigest" \in DOMAIN record /\ e = PolicyEntry
              \/ "aiInvocation" \in DOMAIN record /\ e = ClientEntry
<1> DEFINE D == "decisionContextDigest" \in DOMAIN record
           A == "aiInvocation" \in DOMAIN record
           first == <<GatewayEntry>>
           second == When(D, <<PolicyEntry>>)
           third == When(A, <<ClientEntry>>)
           all == (first \o second) \o third
<1>1. "parties" \in DOMAIN record /\ record.parties = List(all)
  BY DEF CallRight, buildParties, GatewayEntry, PolicyEntry, ClientEntry
<1>2. \A x : IsSeq(<<x>>) /\ ToSet(<<x>>) = {x}
  <2> TAKE x
  <2>1. ToSet(<<x>>) = {x}  BY DEF ToSet
  <2>2. <<x>> \in Seq({x})  OBVIOUS
  <2> QED BY <2>1, <2>2 DEF IsSeq
<1>3. IsSeq(<<>>) /\ ToSet(<<>>) = {}
  <2>1. ToSet(<<>>) = {}  BY DEF ToSet
  <2> QED BY <2>1 DEF IsSeq
<1>4. IsSeq(first) /\ ToSet(first) = {GatewayEntry}  BY <1>2
<1>5. IsSeq(second) /\ ToSet(second) = IF D THEN {PolicyEntry} ELSE {}
  <2>1. CASE D  BY <1>2, <2>1 DEF When
  <2>2. CASE ~D  BY <1>3, <2>2 DEF When
  <2> QED BY <2>1, <2>2
<1>6. IsSeq(third) /\ ToSet(third) = IF A THEN {ClientEntry} ELSE {}
  <2>1. CASE A  BY <1>2, <2>1 DEF When
  <2>2. CASE ~A  BY <1>3, <2>2 DEF When
  <2> QED BY <2>1, <2>2
<1> HIDE DEF first, second, third
<1>7. IsSeq(first \o second) /\ ToSet(first \o second) = ToSet(first) \cup ToSet(second)
  BY <1>4, <1>5, CatSet
<1> DEFINE pair == first \o second
<1> HIDE DEF pair
<1>8. ToSet(pair \o third) = ToSet(pair) \cup ToSet(third)
  BY <1>6, <1>7, CatSet DEF pair
<1>9. ToSet(all) = {GatewayEntry} \cup (IF D THEN {PolicyEntry} ELSE {})
                                 \cup (IF A THEN {ClientEntry} ELSE {})
  BY <1>4, <1>5, <1>6, <1>7, <1>8 DEF pair
<1> HIDE DEF all, D, A
<1>10. ~Absent(record, "parties")
  BY <1>1 DEF Absent, Field, List, Null, Undefined
<1>11. record.parties[2] = all  BY <1>1 DEF List
<1>12. Entries(record) = {x \in ToSet(all) : x[2].role[2] \in VALID_ROLES}
  BY <1>10, <1>11 DEF Entries
<1>13. \A x \in {GatewayEntry, PolicyEntry, ClientEntry} : x[2].role[2] \in VALID_ROLES
  BY EntriesKnown DEF VALID_ROLES
<1> QED BY <1>9, <1>12, <1>13 DEF D, A

\* The fields attributed to a role and a party of a call.
LEMMA ScopeIs ==
    ASSUME NEW record, Kind(record) = "call", CallRight(record), NEW role, NEW party
    PROVE  scopeForRoleAndParty(record, role, party) =
              (IF role = "witness" /\ party \in {AnyParty, "gateway"}
               THEN WitnessedFields ELSE {})
              \cup (IF /\ role = "asserter" /\ party \in {AnyParty, "policy-engine"}
                       /\ "decisionContextDigest" \in DOMAIN record
                    THEN {"decisionContextDigest"} ELSE {})
              \cup (IF /\ role = "asserter" /\ party \in {AnyParty, "client"}
                       /\ "aiInvocation" \in DOMAIN record
                    THEN {"aiInvocation"} ELSE {})
<1> DEFINE E == {d \in Entries(record) : d[2].role[2] = role /\ party \in {AnyParty, d[2].party[2]}}
           S == scopeForRoleAndParty(record, role, party)
           G == role = "witness" /\ party \in {AnyParty, "gateway"}
           P == /\ role = "asserter" /\ party \in {AnyParty, "policy-engine"}
                /\ "decisionContextDigest" \in DOMAIN record
           C == /\ role = "asserter" /\ party \in {AnyParty, "client"}
                /\ "aiInvocation" \in DOMAIN record
<1>1. S = UNION {Paths(e) : e \in E}  BY DEF scopeForRoleAndParty, Paths
<1>2. \A e : e \in E <=> (G /\ e = GatewayEntry) \/ (P /\ e = PolicyEntry) \/ (C /\ e = ClientEntry)
  BY EntriesAre, EntriesKnown
<1> HIDE DEF E, S, G, P, C
<1>3. S = (IF G THEN Paths(GatewayEntry) ELSE {}) \cup (IF P THEN Paths(PolicyEntry) ELSE {})
          \cup (IF C THEN Paths(ClientEntry) ELSE {})
  BY <1>1, <1>2
<1> QED BY <1>3, EntriesKnown DEF S, G, P, C

\* A projection shows the fields in its scope that the record has, and names its party.
LEMMA ProjectionIs ==
    ASSUME NEW record, NEW role, NEW party
    PROVE  /\ DOMAIN projectByRole(record, role, party).fields[2] =
                 scopeForRoleAndParty(record, role, party) \cap DOMAIN record
           /\ party # AnyParty =>
                 Field(projectByRole(record, role, party), "party") = Text(party)
<1> DEFINE scope == scopeForRoleAndParty(record, role, party)
           shown == [f \in scope \cap DOMAIN record |-> record[f]]
           projection == [type |-> Text("witness-projection"),
                          projectionOf |-> hashRecord(record), role |-> Text(role),
                          scope |-> List(Sorted(scope)), fields |-> Object(shown)]
           named == With(projection, "party", Text(party))
<1>1. projectByRole(record, role, party) = IF party = AnyParty THEN projection ELSE named
  BY DEF projectByRole
<1>2. Text(party) # Undefined  BY DEF Text, Undefined
<1>3. DOMAIN shown = scope \cap DOMAIN record  OBVIOUS
<1>4. Object(shown)[2] = shown
  <2> HIDE DEF shown
  <2> QED BY DEF Object
<1>5. "fields" \in DOMAIN projection /\ projection.fields = Object(shown)
  OBVIOUS
<1> HIDE DEF projection, shown, scope
<1>6. Adds(named, projection, "party", Text(party))  BY <1>2, WithDomain
<1> HIDE DEF named
<1>7. named.fields = Object(shown)  BY <1>5, <1>6 DEF Adds
<1>8. Field(named, "party") = Text(party)  BY <1>6 DEF Adds, Field
<1> QED BY <1>1, <1>3, <1>4, <1>5, <1>7, <1>8 DEF scope

\* Canonical forms of objects tell which text is at the key "party".
FormTellsParty ==
    \A f, g, p, q :
        /\ Field(f, "party") = Text(p) /\ Field(g, "party") = Text(q)
        /\ canonicalizeValue(Object(f)) = canonicalizeValue(Object(g))
        => p = q

LEMMA DigestsApart ==
    ASSUME FormTellsParty, NEW record, NEW role, NEW p, NEW q, p # q,
           p # AnyParty, q # AnyParty
    PROVE  projectionDigest(projectByRole(record, role, p))
              # projectionDigest(projectByRole(record, role, q))
<1> DEFINE x == projectByRole(record, role, p)
           y == projectByRole(record, role, q)
<1>1. Field(x, "party") = Text(p) /\ Field(y, "party") = Text(q)  BY ProjectionIs
<1> HIDE DEF x, y
<1>2. canonicalizeValue(Object(x)) # canonicalizeValue(Object(y))  BY <1>1 DEF FormTellsParty
<1>3. ASSUME NEW a, NEW b, a # b
      PROVE  <<"sha256", List(<<PROJECTION_DOMAIN_TAG, a>>)>>
                # <<"sha256", List(<<PROJECTION_DOMAIN_TAG, b>>)>>
  BY <1>3 DEF List
<1>4. projectionDigest(x) # projectionDigest(y)  BY <1>2, <1>3 DEF projectionDigest
<1> QED BY <1>4 DEF x, y

LEMMA CallSplit ==
    ASSUME FormTellsParty, NEW record, Kind(record) = "call", CallRight(record)
    PROVE  LET shown(role, party) == DOMAIN projectByRole(record, role, party).fields[2] IN
           /\ shown("witness", AnyParty) \cup shown("asserter", AnyParty)
                 = DOMAIN record \ {"parties", "attestation"}
           /\ shown("witness", AnyParty) \cap shown("asserter", AnyParty) = {}
           /\ \A role \in rolesInRecord(record) :
                 \A p, q \in partiesForRole(record, role) :
                    p # q => /\ shown(role, p) \cap shown(role, q) = {}
                             /\ projectionDigest(projectByRole(record, role, p))
                                   # projectionDigest(projectByRole(record, role, q))
<1> DEFINE shown(role, party) == DOMAIN projectByRole(record, role, party).fields[2]
           S(role, party) == scopeForRoleAndParty(record, role, party)
<1>1. \A role, party : shown(role, party) = S(role, party) \cap DOMAIN record
  BY ProjectionIs
<1> HIDE DEF shown, S
<1>2. S("witness", AnyParty) = WitnessedFields
  BY ScopeIs DEF S
<1>3. S("asserter", AnyParty) \cap DOMAIN record = AssertedFields \cap DOMAIN record
  BY ScopeIs DEF S, AssertedFields
<1>4. /\ DOMAIN record \subseteq WitnessedFields \cup AssertedFields \cup {"parties", "attestation"}
      /\ {"parties", "attestation"} \cap (WitnessedFields \cup AssertedFields) = {}
  BY WitnessedAre DEF CallRight, AssertedFields
<1>5. /\ shown("witness", AnyParty) \cup shown("asserter", AnyParty)
            = DOMAIN record \ {"parties", "attestation"}
      /\ shown("witness", AnyParty) \cap shown("asserter", AnyParty) = {}
  BY <1>1, <1>2, <1>3, <1>4, WitnessedAre
<1>6. ASSUME NEW role, NEW p \in partiesForRole(record, role),
             NEW q \in partiesForRole(record, role), p # q
      PROVE  /\ shown(role, p) \cap shown(role, q) = {}
             /\ p # AnyParty /\ q # AnyParty
  <2>1. \A r : r \in partiesForRole(record, role) =>
           \/ role = "witness" /\ r = "gateway"
           \/ role = "asserter" /\ r \in {"policy-engine", "client"}
    BY EntriesAre, EntriesKnown DEF partiesForRole
  <2>2. role = "asserter" /\ {p, q} = {"policy-engine", "client"}  BY <1>6, <2>1
  <2>3. S("asserter", "policy-engine") \cap S("asserter", "client") = {}
    BY ScopeIs DEF S, AnyParty
  <2> QED BY <1>1, <2>2, <2>3 DEF AnyParty
<1>7. ASSUME NEW role \in rolesInRecord(record), NEW p \in partiesForRole(record, role),
             NEW q \in partiesForRole(record, role), p # q
      PROVE  /\ shown(role, p) \cap shown(role, q) = {}
             /\ projectionDigest(projectByRole(record, role, p))
                   # projectionDigest(projectByRole(record, role, q))
  BY <1>6, <1>7, DigestsApart
<1> QED BY <1>5, <1>7 DEF shown

LEMMA ProjectionsAre ==
    ASSUME FormTellsParty, CallsInv
    PROVE  ProjectionsSplit
  BY CallSplit DEF CallsInv, ProjectionsSplit

\* If canonical forms tell which party an object names, the projections of every
\* call in the log split it: each field but the attribution and the attestation
\* is shown by one role and by one party of it, and no other, and the
\* projections of two parties have different digests.
THEOREM ProjectionsSplitCalls ==
    ASSUME FormTellsParty
    PROVE  Spec => []ProjectionsSplit
<1>1. CallsInv => ProjectionsSplit  BY ProjectionsAre
<1> QED BY <1>1, CallsKept, PTL

=============================================================================
