----------------------------- MODULE PolicyEngine -----------------------------
(***************************************************************************)
(* The policy engine of src/src/policy/engine.ts, as the gateway drives    *)
(* it: evaluate() and, when it allows the call, recordInvocation(), with   *)
(* no other call in between (gateway.ts:195-230 has no await there), while *)
(* the clock goes on.  Both rate windows of a key start with its first     *)
(* call and are replaced by the first call after they end.                 *)
(*                                                                         *)
(* Time is counted in ticks.  An entry of a rate table that does not exist *)
(* is one that has ended: the code treats them alike.                      *)
(***************************************************************************)
EXTENDS Glob

CONSTANTS
    Principals,   \* the names of callers, each a sequence of characters
    NoPrincipal,  \* the caller of a request that names none
    Anonymous,    \* "anonymous", which may be the name of a caller
    Tools,        \* the catalog: name, originalName and namespace of each tool
    Policies,     \* config.policy: defaultEffect and rules
    NoLimit,      \* maxPerMinute or maxPerHour is absent
    Minute, Hour, \* the length of the windows, in ticks
    MaxTime,      \* bound on the clock
    MaxCalls      \* bound on the calls admitted under a key

Callers == Principals \cup {NoPrincipal}

\* A fraction limits like the next integer.
Limits == (Nat \ {0}) \cup {NoLimit}

RateLimits == [maxPerMinute : Limits, maxPerHour : Limits]

ASSUME ConstantsAssumption ==
    /\ Principals \cup {Anonymous} \cup {t.name : t \in Tools} \subseteq Seq(STRING)
    /\ NoPrincipal \notin Principals /\ NoLimit \notin Nat
    /\ Minute \in Nat \ {0} /\ Hour \in Nat /\ Minute <= Hour
    /\ MaxTime \in Nat /\ MaxCalls \in Nat
    /\ \A t, u \in Tools : t.name = u.name => t = u

ASSUME PolicyAssumption ==
    \A config \in Policies :
        /\ config.rules \in Seq([effect : {"allow", "deny"},
                                 principals : SUBSET Seq(STRING),
                                 namespaces : SUBSET STRING,
                                 tools : SUBSET Seq(STRING),
                                 rateLimit : RateLimits])
        /\ config.defaultEffect \in {"allow", "deny"}

VARIABLES
    policy,        \* config.policy: never changes
    now,           \* Date.now()
    minuteCounts,  \* RateLimitState.minuteCounts, by key
    hourCounts,    \* RateLimitState.hourCounts
    pending,       \* the call between evaluate and recordInvocation
    admitted       \* history: the calls recorded, by key

vars == <<policy, now, minuteCounts, hourCounts, pending, admitted>>

-----------------------------------------------------------------------------
(* Rules                                                                   *)

matchesPattern(value, patterns) == \E p \in patterns : globMatch(p, value)

\* A list that is empty or absent leaves the rule open; one of principals
\* never matches a request that names none, or the empty name, not even "*".
ruleMatches(rule, principal, tool) ==
    /\ rule.principals # {} =>
          principal \notin {NoPrincipal, <<>>} /\ matchesPattern(principal, rule.principals)
    /\ rule.namespaces # {} => tool.namespace \in rule.namespaces
    /\ rule.tools # {} => \/ matchesPattern(tool.name, rule.tools)
                          \/ matchesPattern(tool.originalName, rule.tools)

Matching(config, principal, tool) ==
    {i \in DOMAIN config.rules : ruleMatches(config.rules[i], principal, tool)}

NoLimits == [maxPerMinute |-> NoLimit, maxPerHour |-> NoLimit]

\* What the first rule that matches says, or the default, which has no limit.
Verdict ==
    [config \in Policies |-> [principal \in Callers |-> [tool \in Tools |->
        LET matching == Matching(config, principal, tool)
            matchedRule == config.rules[Min(matching)]
        IN IF matching = {} THEN [effect |-> config.defaultEffect, rateLimit |-> NoLimits]
           ELSE [effect |-> matchedRule.effect, rateLimit |-> matchedRule.rateLimit]]]]

Allowed(principal, tool) == Verdict[policy][principal][tool].effect = "allow"

Limit(principal, tool) == Verdict[policy][principal][tool].rateLimit

-----------------------------------------------------------------------------
(* Rates                                                                   *)

\* The names are joined by a colon, which either of them may have in it.
Key(principal, tool) ==
    (IF principal = NoPrincipal THEN Anonymous ELSE principal) \o <<":">> \o tool.name

Keys == {Key(p, t) : p \in Callers, t \in Tools}

Window == [count : Nat, resetAt : Nat]

NoWindow == [count |-> 0, resetAt |-> 0]

\* Mutant: a window never ends.
MutantOpen(entry) == entry.count > 0

Open(entry) == entry.resetAt > now

Full(entry, limit) == limit # NoLimit /\ Open(entry) /\ entry.count >= limit

\* Mutant: the hour is not looked at.
MutantCheckRateLimit(key, limit) == Full(minuteCounts[key], limit.maxPerMinute)

checkRateLimit(key, limit) ==
    \/ Full(minuteCounts[key], limit.maxPerMinute)
    \/ Full(hourCounts[key], limit.maxPerHour)

Counted(entry, length) ==
    IF Open(entry) THEN [entry EXCEPT !.count = @ + 1]
    ELSE [count |-> 1, resetAt |-> now + length]

-----------------------------------------------------------------------------

NoCall == <<>>

CallOf(p, t) == <<p, t>>

Init ==
    /\ policy \in Policies
    /\ now = 0
    /\ minuteCounts = [k \in Keys |-> NoWindow]
    /\ hourCounts = [k \in Keys |-> NoWindow]
    /\ pending = NoCall
    /\ admitted = [k \in Keys |-> <<>>]

Tick ==
    /\ now < MaxTime /\ now' = now + 1
    /\ UNCHANGED <<policy, minuteCounts, hourCounts, pending, admitted>>

RateLimited(p, t) == Allowed(p, t) /\ checkRateLimit(Key(p, t), Limit(p, t))

\* Mutant: only the rate is looked at.
MutantEvaluate(p, t) ==
    /\ pending = NoCall
    /\ ~RateLimited(p, t)
    /\ pending' = CallOf(p, t)
    /\ UNCHANGED <<policy, now, minuteCounts, hourCounts, admitted>>

\* evaluate() of a call it allows; one that is denied, by a rule or for its
\* rate, changes nothing.
Evaluate(p, t) ==
    /\ pending = NoCall
    /\ Allowed(p, t) /\ ~RateLimited(p, t)
    /\ pending' = CallOf(p, t)
    /\ UNCHANGED <<policy, now, minuteCounts, hourCounts, admitted>>

\* Every call that is allowed counts, whether or not its rule has a limit.
recordInvocation(p, t) ==
    /\ pending = CallOf(p, t)
    /\ Len(admitted[Key(p, t)]) < MaxCalls
    /\ minuteCounts' = [minuteCounts EXCEPT ![Key(p, t)] = Counted(@, Minute)]
    /\ hourCounts' = [hourCounts EXCEPT ![Key(p, t)] = Counted(@, Hour)]
    /\ admitted' = [admitted EXCEPT ![Key(p, t)] =
                      Append(@, [caller |-> p, tool |-> t, time |-> now])]
    /\ pending' = NoCall
    /\ UNCHANGED <<policy, now>>

\* The tools a caller is shown: those a call to would be allowed now.
filterTools(p) == {t \in Tools : Allowed(p, t) /\ ~RateLimited(p, t)}

Finished == now = MaxTime /\ UNCHANGED vars

Next ==
    \/ Tick \/ Finished
    \/ \E p \in Callers, t \in Tools :
          Evaluate(p, t) \/ recordInvocation(p, t)

Spec == Init /\ [][Next]_vars

-----------------------------------------------------------------------------

\* Calls of another caller, or to another tool, are counted under the same key.
Shared(p, t) ==
    \E q \in Callers, u \in Tools : <<q, u>> # <<p, t>> /\ Key(q, u) = Key(p, t)

Call == [caller : Callers, tool : Tools, time : 0 .. MaxTime]

\* Where the calls of a caller to a tool are, and when it made them.
OwnPlaces(p, t) ==
    {i \in DOMAIN admitted[Key(p, t)] :
        admitted[Key(p, t)][i].caller = p /\ admitted[Key(p, t)][i].tool = t}

OwnCalls(p, t) == InOrder(admitted[Key(p, t)], OwnPlaces(p, t))

Times(calls) == [i \in DOMAIN calls |-> calls[i].time]

\* The types; a window that is open ends within its length and has counted at
\* least one call, each call was counted under its own key and not later than
\* now, and one is between the two steps only when a rule, or the default,
\* allows it.
TypeOK ==
    /\ policy \in Policies /\ now \in 0 .. MaxTime
    /\ minuteCounts \in [Keys -> Window] /\ hourCounts \in [Keys -> Window]
    /\ \A k \in Keys :
          /\ minuteCounts[k].resetAt <= now + Minute
          /\ hourCounts[k].resetAt <= now + Hour
          /\ Open(minuteCounts[k]) => minuteCounts[k].count > 0
          /\ Open(hourCounts[k]) => hourCounts[k].count > 0
    /\ \/ pending = NoCall
       \/ \E p \in Callers, t \in Tools : pending = CallOf(p, t) /\ Allowed(p, t)
    /\ admitted \in [Keys -> Seq(Call)]
    /\ \A k \in Keys : \A i \in DOMAIN admitted[k] :
          /\ Key(admitted[k][i].caller, admitted[k][i].tool) = k
          /\ admitted[k][i].time <= now

\* Of 2 * limit calls in a row, the last is a window's length after the first.
Spread(times, limit, length) ==
    limit # NoLimit =>
        \A i \in DOMAIN times :
            i + 2 * limit - 1 \in DOMAIN times =>
                times[i + 2 * limit - 1] - times[i] >= length

\* Tumbling windows let through at most 2 * limit - 1 calls of a caller to a
\* tool in any time of the length of a window, wherever that time begins, though
\* the clock may go on between the check and the count (checkRateLimit,
\* incrementCounter), and whoever else is counted under the same key.
RatesKept ==
    \A p \in Callers, t \in Tools :
        /\ Spread(Times(OwnCalls(p, t)), Limit(p, t).maxPerMinute, Minute)
        /\ Spread(Times(OwnCalls(p, t)), Limit(p, t).maxPerHour, Hour)

\* The calls that may be held against a caller: its own to the tool, and those
\* the key cannot tell from them.
Against(p, t) == IF Shared(p, t) THEN DOMAIN admitted[Key(p, t)] ELSE OwnPlaces(p, t)

UsedUp(p, t, limit, length) ==
    /\ limit # NoLimit
    /\ Cardinality({i \in Against(p, t) : admitted[Key(p, t)][i].time > now - length}) >= limit

\* A caller is refused a tool for its rate, and not shown it, only while the
\* calls of the last minute, or hour, are as many as its rule allows: its own
\* calls to that tool, unless another caller and tool have names that join to the
\* same text, and then theirs, too.  Others do not count, nor do those of earlier
\* windows, and a caller that waits is let in again.
RefusalsEarned ==
    \A p \in Callers : \A t \in Tools \ filterTools(p) :
        Allowed(p, t) => \/ UsedUp(p, t, Limit(p, t).maxPerMinute, Minute)
                         \/ UsedUp(p, t, Limit(p, t).maxPerHour, Hour)

\* Globs mean what their stars mean, for every pattern and value of these
\* lengths: parts may overlap neither each other nor the end (globMatch).  No
\* state has a part in it, so that the initial ones are asked.
GlobMeansWildcards ==
    Init =>
        \A pattern \in BoundedSeq({"a", "b", Star}, 5), value \in BoundedSeq({"a", "b"}, 6) :
            globMatch(pattern, value) <=> Wildcard(pattern, value)

-----------------------------------------------------------------------------
(* Why the rates are kept: the inductive invariant of PolicyEngineProofs   *)

\* A counter and the calls counted under its key: it has counted some of the last
\* of them, and these came after the window began.
Tally(times, entry, length) ==
    /\ entry.count <= Len(times)
    /\ \A i \in DOMAIN times :
          i + entry.count > Len(times) => times[i] + length >= entry.resetAt

\* A counter and the calls of one caller to one tool, of which it has counted the
\* last own ones.  Its calls before these came before the window, and those limit
\* calls before the first of these a window earlier.  When these are as many as the
\* limit, or as the counter, nobody's call came before them: the first opened it.
OwnTally(times, entry, own, limit, length) ==
    /\ own <= limit
    /\ \A i \in DOMAIN times :
          /\ i + own <= Len(times) => times[i] + length <= entry.resetAt
          /\ i + own = Len(times) + 1 /\ own \in {entry.count, limit}
                => times[i] + length <= entry.resetAt
          /\ i + own + limit <= Len(times) + 1 => times[i] + 2 * length <= entry.resetAt

Within(times, entry, limit, length) ==
    limit # NoLimit =>
        /\ \E own \in 0 .. entry.count : OwnTally(times, entry, own, limit, length)
        /\ Spread(times, limit, length)

\* The call between the two steps has still room in its windows.
PendingHasRoom ==
    \A p \in Callers, t \in Tools :
        pending = CallOf(p, t) => ~checkRateLimit(Key(p, t), Limit(p, t))

TalliesMatch ==
    \A k \in Keys : /\ Tally(Times(admitted[k]), minuteCounts[k], Minute)
                    /\ Tally(Times(admitted[k]), hourCounts[k], Hour)

OwnTalliesMatch ==
    \A p \in Callers, t \in Tools :
        LET times == Times(OwnCalls(p, t))
        IN  /\ Within(times, minuteCounts[Key(p, t)], Limit(p, t).maxPerMinute, Minute)
            /\ Within(times, hourCounts[Key(p, t)], Limit(p, t).maxPerHour, Hour)

RateInv == TypeOK /\ PendingHasRoom /\ TalliesMatch /\ OwnTalliesMatch

-----------------------------------------------------------------------------

\* docs/SECURITY-DESIGN.md:33: "per-principal, per-tool" counters.  Requests
\* that name nobody are counted with those of a caller named "anonymous", and
\* those of a caller a to the tool s/b:s/f with those of a caller a:s/b to s/f.
CountedApart == \A p \in Callers, t \in Tools : ~Shared(p, t)

=============================================================================
