--------------------------- MODULE CanonicalValues ---------------------------
(***************************************************************************)
(* The canonical form of a value: canonicalizeValue() of                   *)
(* src/src/attestation/signer.ts.                                          *)
(***************************************************************************)
EXTENDS JsonValues

SortedKeys(f) == SelectSeq(KeyOrder, LAMBDA k : k \in DOMAIN f /\ f[k] # Undefined)

\* It throws on texts and numbers that not every language writes alike.
RECURSIVE HasForm(_)
HasForm(value) ==
    CASE value[1] = "array"  -> \A i \in DOMAIN value[2] : HasForm(value[2][i])
      [] value[1] = "object" -> \A k \in DOMAIN value[2] : HasForm(value[2][k])
      [] OTHER -> value \notin {Lone, Unsafe}

\* Mutant: one tag for lists and objects, so that {} is [].
MutantTagged(tag, s) == List(<<Text("L"), List(s)>>)

Tagged(tag, s) == List(<<Text(tag), List(s)>>)

RECURSIVE ValueForm(_)
ValueForm(value) ==
    CASE value = Undefined -> Null
      [] value[1] = "array" ->
            Tagged("L", [i \in DOMAIN value[2] |-> ValueForm(value[2][i])])
      [] value[1] = "object" ->
            LET keys == SortedKeys(value[2]) IN
            Tagged("M", [i \in DOMAIN keys |->
                            List(<<Text(keys[i]), ValueForm(value[2][keys[i]])>>)])
      [] OTHER -> value

-----------------------------------------------------------------------------

\* JSON values of two levels.
Leaves == {Undefined, Null, Text("a"), Text("M"), Number(1)}
Values(inner) ==
    Leaves \cup {List(s) : s \in BoundedSeq(inner, 2)}
           \cup {Object(f) : f \in UNION {[K -> inner] : K \in SUBSET {"a", "b"}}}

\* The value JSON.parse would read back: a key that is undefined is not there.
RECURSIVE Meaning(_)
Meaning(value) ==
    CASE value = Undefined -> Null
      [] value[1] = "array" -> List([i \in DOMAIN value[2] |-> Meaning(value[2][i])])
      [] value[1] = "object" ->
            Object([k \in {j \in DOMAIN value[2] : value[2][j] # Undefined} |->
                        Meaning(value[2][k])])
      [] OTHER -> value

=============================================================================
