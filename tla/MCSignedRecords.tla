--------------------------- MODULE MCSignedRecords ---------------------------
EXTENDS SignedRecords, CanonicalValues

Config(enabled, algorithm, named) ==
    [enabled |-> enabled, algorithm |-> algorithm, secret |-> named, keyPath |-> named]

MCConfigs ==
    {Config(TRUE, "ed25519", TRUE), Config(FALSE, "ed25519", TRUE),
     Config(TRUE, "ed25519", FALSE), Config(TRUE, "hmac-sha256", FALSE)}

\* An object, the list of its pairs, and an object that cannot be signed.
MCInvocations ==
    {Object([turnId |-> Given]), List(<<List(<<Text("turnId"), Given>>)>>),
     Object([turnId |-> Unsafe])}

\* Values have the same canonical form exactly when they mean the same
\* (canonicalizeValue; README.md:162, "type-tagged and injective").  No state
\* has a part in it, so that the initial ones are asked.
CanonicalInjective ==
    Init =>
        LET sample == Values(Values(Leaves))
            pairs == {<<ValueForm(x), Meaning(x)>> : x \in sample}
        IN /\ Cardinality({p[1] : p \in pairs}) = Cardinality(pairs)
           /\ Cardinality({p[2] : p \in pairs}) = Cardinality(pairs)

=============================================================================
