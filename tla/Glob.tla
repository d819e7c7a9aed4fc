-------------------------------- MODULE Glob --------------------------------
(***************************************************************************)
(* globMatch() of src/src/policy/engine.ts, beside what "*" means.  A text *)
(* is a sequence of characters.                                            *)
(***************************************************************************)
EXTENDS Integers, Sequences, SequencesExt, FiniteSetsExt, Selection

Star == "*"

NoMatch == -1

Stars(pattern) == {i \in DOMAIN pattern : pattern[i] = Star}

\* Where the n-th star is; one more than there are is past the end.
Cut(pattern, n) ==
    CASE n = 0 -> 0
      [] n \in 1 .. Cardinality(Stars(pattern)) -> Nth(Stars(pattern), n)
      [] OTHER -> Len(pattern) + 1

\* pattern.split("*"): what is between a star and the next.
Parts(pattern) ==
    [n \in 1 .. Cardinality(Stars(pattern)) + 1 |->
        SubSeq(pattern, Cut(pattern, n - 1) + 1, Cut(pattern, n) - 1)]

\* value.indexOf(part, pos), as the places the part may be at.
Occurrences(part, value, pos) ==
    {k \in pos .. Len(value) - Len(part) : SubSeq(value, k + 1, k + Len(part)) = part}

\* Mutant: the last part may overlap what came before it.
MutantFitsAtEnd(part, value, pos) ==
    Len(value) - Len(part) \in Occurrences(part, value, 0)

FitsAtEnd(part, value, pos) ==
    Len(value) - Len(part) \in Occurrences(part, value, pos)

\* How far the value is used up after the i-th part.
Advance(parts, i, value, pos) ==
    LET part == parts[i]
        next == Occurrences(part, value, pos)
    IN IF pos = NoMatch \/ part = <<>> THEN pos
       ELSE CASE i = 1 -> IF IsPrefix(part, value) THEN Len(part) ELSE NoMatch
              [] i > 1 /\ i = Len(parts) ->
                    IF FitsAtEnd(part, value, pos) THEN pos ELSE NoMatch
              [] OTHER -> IF next = {} THEN NoMatch ELSE Min(next) + Len(part)

globMatch(pattern, value) ==
    IF Stars(pattern) = {} THEN pattern = value
    ELSE LET parts == Parts(pattern)
             pos[i \in 0 .. Len(parts)] ==
                 IF i = 0 THEN 0 ELSE Advance(parts, i, value, pos[i - 1])
         IN pos[Len(parts)] # NoMatch

\* A star stands for any characters, every other character for itself: there
\* are places in the value where the stars may end.
Wildcard(pattern, value) ==
    \E ends \in [Stars(pattern) -> 0 .. Len(value)] :
        LET at(i) == LET star == Max({0} \cup {s \in Stars(pattern) : s <= i})
                     IN IF star = 0 THEN i ELSE ends[star] + (i - star)
        IN /\ at(Len(pattern)) = Len(value)
           /\ \A i \in DOMAIN pattern :
                 IF pattern[i] = Star THEN at(i - 1) <= at(i)
                 ELSE at(i) <= Len(value) /\ pattern[i] = value[at(i)]

=============================================================================
