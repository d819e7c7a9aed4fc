----------------------------- MODULE JsonValues -----------------------------
(***************************************************************************)
(* JSON values: a value is a tuple that starts with its kind, and an       *)
(* object is a function from its keys, of which KeyOrder gives the order   *)
(* .sort() puts them in.  JSON.stringify of a canonical form is that form. *)
(* Of texts and numbers only those are told apart that signer.ts tells     *)
(* apart: a text with an unpaired surrogate, and a number that is no safe  *)
(* integer.                                                                *)
(***************************************************************************)
EXTENDS Integers, Sequences, SequencesExt

Text(x)   == <<"string", x>>
Number(n) == <<"number", n>>
List(s)   == <<"array", s>>
Object(f) == <<"object", f>>
Null      == <<"null">>
Undefined == <<"undefined">>   \* a field that is absent

Lone   == Text("unpaired surrogate")
Unsafe == Number("not a safe integer")

\* The keys of the objects that are canonicalized, sorted.
KeyOrder ==
    <<"a", "aiInvocation", "b", "decisionContextDigest", "durationMs",
      "errorCode", "extensionsDigest", "fields", "id", "invocationReason",
      "method", "model", "namespace", "party", "previousHash", "principal",
      "projectionOf", "role", "scope", "success", "timestamp", "toolName",
      "turnId", "type", "upstream">>

=============================================================================
