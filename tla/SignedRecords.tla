---------------------------- MODULE SignedRecords ----------------------------
(***************************************************************************)
(* Records from the writer to a reader: what AuditLog writes and a signer  *)
(* signs, a log that is edited where it lies, `mcp-audit verify` in a      *)
(* process of its own (cli.ts, verify.ts), and the projections of          *)
(* src/src/attestation/witness.ts.                                         *)
(*                                                                         *)
(* A signature is the key and the canonical form, a hash is the record it  *)
(* is of: both tell two things apart exactly when they differ.             *)
(***************************************************************************)
EXTENDS CanonicalForm, FiniteSets, FiniteSetsExt

CONSTANTS
    Configs,       \* config.attestation
    Processes,     \* bound: the gateway processes that write the log in turn
    Invocations,   \* what clients say of their models
    MaxRecords,    \* bound on the log
    MaxEdits       \* bound on the edits

Reader == 0   \* the process that verifies

ASSUME ConstantsAssumption ==
    /\ Configs \subseteq [enabled : BOOLEAN, algorithm : {"hmac-sha256", "ed25519"},
                          secret : BOOLEAN, keyPath : BOOLEAN]
    /\ Processes \subseteq Nat \ {Reader}
    /\ MaxRecords \in Nat /\ MaxEdits \in Nat

\* canonicalizeValue() tells apart what clients say, where it does not throw.
ASSUME ValueAssumption ==
    /\ Undefined \notin Invocations
    /\ Canonicalizable(Undefined) /\ Canonicalizable(Null)
    /\ \A x, y \in Invocations :
          Canonicalizable(x) /\ Canonicalizable(y) /\ canonicalizeValue(x) = canonicalizeValue(y)
             => x = y

VARIABLES
    config,    \* config.attestation: never changes
    written,   \* history: the records as they were written
    log        \* the records as they are

vars == <<config, written, log>>

-----------------------------------------------------------------------------
(* Signers                                                                 *)

NoKey == <<"none">>

Key(algorithm, source, owner) == <<algorithm, source, owner>>

\* A key that the configuration does not name is made by the process that
\* needs one, and kept nowhere.
Ed25519Key(p) ==
    IF config.keyPath THEN Key("ed25519", "file", 0) ELSE Key("ed25519", "random", p)

\* createSigner()
SignerKey(p) ==
    CASE ~config.enabled -> NoKey
      [] config.enabled /\ config.algorithm = "ed25519" -> Ed25519Key(p)
      [] OTHER -> IF config.secret THEN Key("hmac", "secret", 0) ELSE Key("hmac", "random", p)

\* verify() of cli.ts reads the same configuration.
VerifierKey ==
    IF config.algorithm = "hmac-sha256" /\ config.secret THEN Key("hmac", "secret", 0)
    ELSE Ed25519Key(Reader)

\* With attestation disabled the signature is the empty text.
sign(record, key) ==
    IF key = NoKey THEN Text("") ELSE <<"signature", key, canonicalize(record)>>

\* Mutant: the hash covers no more than the signature.
MutantHashRecord(record) == <<"sha256", canonicalize(record)>>

hashRecord(record) == <<"sha256", record>>

-----------------------------------------------------------------------------
(* The records AuditLog writes                                             *)

\* A field that is Undefined is absent.
Without(record, S) == [f \in DOMAIN record \ S |-> record[f]]
With(record, f, value) ==
    IF value = Undefined THEN Without(record, {f})
    ELSE [g \in DOMAIN record \cup {f} |-> IF g = f THEN value ELSE record[g]]

PartyAttribution(party, role, scope) ==
    Object([party |-> Text(party), role |-> Text(role),
            scope |-> List([i \in DOMAIN scope |-> Text(scope[i])])])

GATEWAY_WITNESSED_FIELDS ==
    <<"id", "timestamp", "method", "toolName", "namespace", "upstream", "principal",
      "durationMs", "success", "errorCode", "previousHash">>

When(condition, s) == IF condition THEN s ELSE <<>>

\* Mutant: what the client says of its model is put down to the gateway too.
MutantBuildParties(hasDecisionContext, hasAiInvocation) ==
    List(<<PartyAttribution("gateway", "witness",
               GATEWAY_WITNESSED_FIELDS \o When(hasAiInvocation, <<"aiInvocation">>))>>
         \o When(hasDecisionContext,
                 <<PartyAttribution("policy-engine", "asserter", <<"decisionContextDigest">>)>>)
         \o When(hasAiInvocation,
                 <<PartyAttribution("client", "asserter", <<"aiInvocation">>)>>))

buildParties(hasDecisionContext, hasAiInvocation) ==
    List(<<PartyAttribution("gateway", "witness", GATEWAY_WITNESSED_FIELDS)>>
         \o When(hasDecisionContext,
                 <<PartyAttribution("policy-engine", "asserter", <<"decisionContextDigest">>)>>)
         \o When(hasAiInvocation,
                 <<PartyAttribution("client", "asserter", <<"aiInvocation">>)>>))

Given == Text("given")

\* A call, of which opts are the fields that not every call has.
CallRecord(opts) ==
    LET has(f) == f \in DOMAIN opts
        fields == DOMAIN opts \cup {"id", "timestamp", "method", "success", "durationMs"}
    IN With([f \in fields |-> IF has(f) THEN opts[f] ELSE Given],
            "parties", buildParties(has("decisionContextDigest"), has("aiInvocation")))

UnknownCall == CallRecord([toolName |-> Given, errorCode |-> Given])

ExecutedCall(invocation) ==
    CallRecord([toolName |-> Given, namespace |-> Given, upstream |-> Given, principal |-> Given,
                decisionContextDigest |-> Given, aiInvocation |-> invocation])

Checkpoint ==
    [id |-> Given, type |-> Text("checkpoint"), timestamp |-> Given, sequence |-> Given,
     recordCount |-> Given,
     parties |-> List(<<PartyAttribution("gateway", "witness",
                            <<"sequence", "recordCount", "previousHash">>)>>)]

ChainBreak ==
    [id |-> Given, type |-> Text("chain_break"), timestamp |-> Given, reason |-> Given,
     priorSequence |-> Given, priorRecordCount |-> Given]

ToolDrift ==
    [id |-> Given, type |-> Text("tool_drift"), timestamp |-> Given, toolName |-> Given,
     namespace |-> Given, previousDefinitionDigest |-> Given, newDefinitionDigest |-> Given,
     detectedAtRecord |-> Given]

Records ==
    {UnknownCall, Checkpoint, ChainBreak, ToolDrift} \cup {ExecutedCall(x) : x \in Invocations}

lastHash == IF log = <<>> THEN Text("genesis") ELSE hashRecord(Last(log))

\* The next record has its place in the chain and its signature.  A chain_break
\* names the head it gives up, if there was one.
Signed(record, p) ==
    LET link == IF Kind(record) = "chain_break" THEN "priorHead" ELSE "previousHash"
        linked == IF link = "priorHead" /\ log = <<>> THEN record
                  ELSE With(record, link, lastHash)
    IN With(linked, "attestation", sign(linked, SignerKey(p)))

Body(record) == Without(record, {"attestation"})

-----------------------------------------------------------------------------

Init ==
    /\ config \in Configs
    /\ written = <<>> /\ log = <<>>

\* By any process: after a restart the head comes from the log (AuditLog), and
\* the signer is made anew.
Write(record, p) ==
    /\ log = written /\ Len(log) < MaxRecords
    /\ Signable(Body(Signed(record, p)))
    /\ log' = Append(log, Signed(record, p))
    /\ written' = log'
    /\ UNCHANGED config

EditedFields(i) ==
    {f \in DOMAIN log[i] \cup DOMAIN written[i] : Field(log[i], f) # Field(written[i], f)}

Edits == Cardinality(UNION {{i} \X EditedFields(i) : i \in DOMAIN log})

\* The fields of types.ts, and one no type has.
Fields ==
    {"id", "timestamp", "method", "toolName", "namespace", "upstream", "principal",
     "durationMs", "success", "errorCode", "decisionContextDigest", "extensionsDigest",
     "previousHash", "sequence", "recordCount", "reason", "priorHead", "priorSequence",
     "priorRecordCount", "previousDefinitionDigest", "newDefinitionDigest",
     "detectedAtRecord", "attestation", "note"}

Scalars == {Undefined, Null, Text("other")}

Kinds == {"call", "checkpoint", "chain_break", "tool_drift"}

\* The fields of which some signer reads the text.
TextFields == UNION {Required(kind) \cup Checked(kind) : kind \in Kinds}

\* What a field may be made: of the structured fields also the type, the
\* attribution, the invocation, and the link that would mend the chain.
Edit(i, f, value) ==
    /\ Field(log[i], f) = Field(written[i], f) /\ Field(log[i], f) # value
    /\ log' = [log EXCEPT ![i] = With(@, f, value)]
    /\ UNCHANGED <<config, written>>

EditScalar(i) == \E f \in Fields, value \in Scalars : Edit(i, f, value)

EditText(i) == \E f \in TextFields : Edit(i, f, Lone)

EditType(i) == \E type \in Kinds : Edit(i, "type", Text(type))

EditInvocation(i) ==
    \E value \in Invocations \cup {Undefined} : Edit(i, "aiInvocation", value)

EditParties(i) ==
    \E value \in {Undefined, buildParties(TRUE, FALSE), buildParties(FALSE, TRUE)} :
        Edit(i, "parties", value)

EditLink(i) == i > 1 /\ Edit(i, "previousHash", hashRecord(log[i - 1]))

\* The configuration names the key, so that every process has the same one.
NamesKey ==
    /\ config.enabled
    /\ IF config.algorithm = "ed25519" THEN config.keyPath ELSE config.secret

\* Edits are tried only where records verify before them.
MayEdit == NamesKey /\ Edits < MaxEdits

Finished == ~MayEdit /\ (log # written \/ Len(log) = MaxRecords) /\ UNCHANGED vars

Next ==
    \/ \E record \in Records, p \in Processes : Write(record, p)
    \/ MayEdit /\ \E i \in DOMAIN log :
          \/ EditScalar(i) \/ EditText(i) \/ EditType(i)
          \/ EditInvocation(i) \/ EditParties(i) \/ EditLink(i)
    \/ Finished

Spec == Init /\ [][Next]_vars

-----------------------------------------------------------------------------
(* verify()                                                                *)

Attested(record) == Field(record, "attestation") \notin {Undefined, Null, Text("")}

\* The signer throws, and with it verifyAuditLog: there is no result.
Aborts == \E i \in DOMAIN log : Attested(log[i]) /\ ~Signable(Body(log[i]))

SignatureValid(i) ==
    /\ Attested(log[i]) /\ Signable(Body(log[i]))
    /\ log[i].attestation = sign(Body(log[i]), VerifierKey)

\* The line the hash of which the i-th has to name.
LineBefore(i) == Max({0} \cup {j \in 1 .. i - 1 : Attested(log[j])})

LinkValid(i) ==
    /\ Attested(log[i])
    /\ Field(log[i], "previousHash") =
          IF LineBefore(i) = 0 THEN Text("genesis") ELSE hashRecord(log[LineBefore(i)])

\* The lines in the errors of the result.
Reported == {i \in DOMAIN log : ~(SignatureValid(i) /\ LinkValid(i))}

-----------------------------------------------------------------------------
(* Projections (witness.ts)                                                *)

VALID_ROLES == {"witness", "asserter"}

Entries(record) ==
    IF Absent(record, "parties") THEN {}
    ELSE {e \in ToSet(record.parties[2]) : e[2].role[2] \in VALID_ROLES}

rolesInRecord(record) == {e[2].role[2] : e \in Entries(record)}

partiesForRole(record, role) ==
    {e[2].party[2] : e \in {d \in Entries(record) : d[2].role[2] = role}}

AnyParty == "any"   \* the optional argument is not given

scopeForRoleAndParty(record, role, party) ==
    UNION {{path[2] : path \in ToSet(e[2].scope[2])} :
           e \in {d \in Entries(record) : /\ d[2].role[2] = role
                                        /\ party \in {AnyParty, d[2].party[2]}}}

Sorted(paths) ==
    LET order == SelectSeq(KeyOrder, LAMBDA k : k \in paths)
    IN [i \in DOMAIN order |-> Text(order[i])]

projectByRole(record, role, party) ==
    LET scope == scopeForRoleAndParty(record, role, party)
        projection == [type |-> Text("witness-projection"),
                       projectionOf |-> hashRecord(record), role |-> Text(role),
                       scope |-> List(Sorted(scope)),
                       fields |-> Object([f \in scope \cap DOMAIN record |-> record[f]])]
    IN IF party = AnyParty THEN projection
       ELSE With(projection, "party", Text(party))

PROJECTION_DOMAIN_TAG == Text("WitnessProjection/v1")

projectionDigest(projection) ==
    <<"sha256", List(<<PROJECTION_DOMAIN_TAG, canonicalizeValue(Object(projection))>>)>>

-----------------------------------------------------------------------------

\* Every field types.ts gives a record of a kind, but for the attestation.
FieldsOf(kind) ==
    CASE kind = "call" ->
            {"id", "timestamp", "method", "toolName", "namespace", "upstream", "principal",
             "durationMs", "success", "errorCode", "decisionContextDigest",
             "extensionsDigest", "aiInvocation", "parties", "previousHash"}
      [] kind = "checkpoint" ->
            {"id", "type", "timestamp", "sequence", "recordCount", "previousHash", "parties"}
      [] kind = "chain_break" ->
            {"id", "type", "timestamp", "reason", "priorHead", "priorSequence",
             "priorRecordCount"}
      [] kind = "tool_drift" ->
            {"id", "type", "timestamp", "toolName", "namespace", "previousDefinitionDigest",
             "newDefinitionDigest", "detectedAtRecord", "previousHash"}

\* What a record says: its kind and its fields; null says as little as absence.
Says(record) ==
    <<Kind(record), [f \in FieldsOf(Kind(record)) |->
                        IF Absent(record, f) THEN Null ELSE record[f]]>>

\* A record verifies, in another process and whichever process wrote it, exactly
\* when the configuration names the key and the record says what it said: no
\* edit of a field of any kind of record, no edit of its type, and no two edits
\* that make up for each other get through (canonicalize, sign, verify).
VerifiesIffUnchanged ==
    \A i \in DOMAIN log :
        Field(log[i], "attestation") = written[i].attestation =>
            (SignatureValid(i) <=> NamesKey /\ Says(log[i]) = Says(written[i]))

\* Nothing follows the record whose link names its hash.
LastOfChain(i) == i = Len(log) \/ Kind(log[i + 1]) = "chain_break"

\* verify() accepts a log that nobody edited, but for its chain_breaks, and
\* finds edits: one that no signature covers by the link of the next record,
\* also when that one is edited to fit.  Only at the end of a chain, and only
\* in what it does not say, can a record be edited with no error in the result
\* (verifyAuditLog).
VerifyFindsEdits ==
    NamesKey =>
        /\ log = written => /\ ~Aborts
                            /\ \A i \in Reported : Kind(log[i]) = "chain_break"
        /\ ~Aborts => \A i \in DOMAIN log :
              log[i] # written[i] =>
                  \/ {i, i + 1} \cap Reported # {}
                  \/ LastOfChain(i) /\ Says(log[i]) = Says(written[i])

\* The projections of a record as it was written split it: each of its fields,
\* but the attribution and the attestation, is in the projection of one role
\* and of one party, and no other, and projections differ in their digests.
ProjectionsSplit ==
    log = written => \A i \in DOMAIN written :
        LET record == written[i]
            shown(role, party) == DOMAIN projectByRole(record, role, party).fields[2]
        IN Kind(record) = "call" =>
            /\ shown("witness", AnyParty) \cup shown("asserter", AnyParty)
                  = DOMAIN record \ {"parties", "attestation"}
            /\ shown("witness", AnyParty) \cap shown("asserter", AnyParty) = {}
            /\ \A role \in rolesInRecord(record) :
                  \A p, q \in partiesForRole(record, role) :
                     p # q => /\ shown(role, p) \cap shown(role, q) = {}
                              /\ projectionDigest(projectByRole(record, role, p))
                                    # projectionDigest(projectByRole(record, role, q))

-----------------------------------------------------------------------------
(* What the documentation promises and the code does not keep              *)

\* docs/SECURITY-DESIGN.md:258: the Ed25519 key is made on first run and its
\* public key logged, so that records nobody edited verify in another process;
\* a key that the configuration does not name is gone with its process.
RecordsVerifyLater ==
    config.enabled /\ log = written => \A i \in DOMAIN log : SignatureValid(i)

=============================================================================
