-------------------------- MODULE PolicyEngineProofs --------------------------
(***************************************************************************)
(* Theorems about the policy engine, for every value of the constants:     *)
(* types, the rates its windows let through, whom it refuses, and what its *)
(* globs mean.                                                             *)
(***************************************************************************)
EXTENDS PolicyEngine, OperatorLemmas

-----------------------------------------------------------------------------
(* The rule that decides                                                   *)

\* The limits of a rule have their type.
LEMMA RuleLimits ==
    ASSUME NEW config \in Policies, NEW i \in DOMAIN config.rules
    PROVE  config.rules[i].rateLimit \in RateLimits
<1> DEFINE Rule == [effect : {"allow", "deny"}, principals : SUBSET Seq(STRING),
                    namespaces : SUBSET STRING, tools : SUBSET Seq(STRING),
                    rateLimit : RateLimits]
<1>1. config.rules \in Seq(Rule)  BY PolicyAssumption
<1>2. config.rules[i] \in Rule
  <2> HIDE DEF Rule
  <2> QED BY <1>1, ElementOfSeq
<1> QED BY <1>2

\* The verdict has the limits of a rule, or none.
LEMMA LimitType ==
    ASSUME NEW config \in Policies, NEW p \in Callers, NEW t \in Tools
    PROVE  Verdict[config][p][t].rateLimit \in RateLimits
<1> DEFINE matching == Matching(config, p, t)
<1>1. NoLimits \in RateLimits  BY DEF NoLimits, RateLimits, Limits
<1>2. ASSUME matching # {}
      PROVE  config.rules[Min(matching)].rateLimit \in RateLimits
  <2>1. matching \subseteq 1 .. Len(config.rules) /\ Len(config.rules) \in Nat
    <3>1. config.rules \in Seq([effect : {"allow", "deny"},
                                 principals : SUBSET Seq(STRING),
                                 namespaces : SUBSET STRING,
                                 tools : SUBSET Seq(STRING),
                                 rateLimit : RateLimits])
      BY PolicyAssumption
    <3>2. DOMAIN config.rules = 1 .. Len(config.rules) /\ Len(config.rules) \in Nat
      BY <3>1, LenProperties
    <3> QED BY <3>2 DEF Matching
  <2>2. IsFiniteSet(matching)
    <3> HIDE DEF matching
    <3>1. IsFiniteSet(1 .. Len(config.rules))  BY <2>1, FS_Interval
    <3> QED BY <2>1, <3>1, FS_Subset
  <2>3. matching \subseteq Int  BY <2>1
  <2>4. Min(matching) \in matching
    <3> HIDE DEF matching
    <3>1. \E m \in matching : \A x \in matching : m <= x  BY <1>2, <2>2, <2>3, LeastExists
    <3> QED BY <3>1 DEF Min
  <2>5. Min(matching) \in DOMAIN config.rules  BY <2>4 DEF Matching
  <2> QED BY <2>5, RuleLimits
<1>3. CASE matching = {}
  BY <1>1, <1>3 DEF Verdict
<1>4. CASE matching # {}
  BY <1>2, <1>4 DEF Verdict
<1> QED BY <1>3, <1>4

\* The limits of the policy that is configured.
LEMMA LimitOfCall ==
    ASSUME policy \in Policies, NEW p \in Callers, NEW t \in Tools
    PROVE  /\ Limit(p, t).maxPerMinute \in Limits
           /\ Limit(p, t).maxPerHour \in Limits
<1>1. Limit(p, t) \in RateLimits  BY LimitType DEF Limit
<1> QED BY <1>1 DEF RateLimits

-----------------------------------------------------------------------------
(* One counter                                                             *)

\* Counting a call keeps the types of a counter and how far ahead it ends
\* (incrementCounter).
LEMMA CountedType ==
    ASSUME NEW entry \in Window, NEW length \in Nat, now \in Nat,
           entry.resetAt <= now + length
    PROVE  /\ Counted(entry, length) \in Window
           /\ Counted(entry, length).count > 0
           /\ Counted(entry, length).resetAt <= now + length
  BY DEF Counted, Window, Open

\* Counting a call keeps the counter and the calls in step.
LEMMA CountedTallies ==
    ASSUME NEW times \in Seq(Nat), NEW entry \in Window, NEW length \in Nat, now \in Nat,
           entry.resetAt <= now + length, Tally(times, entry, length)
    PROVE  Tally(Append(times, now), Counted(entry, length), length)
<1> DEFINE longer == Append(times, now)
<1>1. /\ Len(times) \in Nat /\ Len(longer) = Len(times) + 1
      /\ DOMAIN times = 1 .. Len(times) /\ DOMAIN longer = 1 .. Len(times) + 1
      /\ \A i \in 1 .. Len(times) : longer[i] = times[i] /\ times[i] \in Nat
      /\ longer[Len(times) + 1] = now
  BY AppendProperties, LenProperties, ElementOfSeq
<1> HIDE DEF longer
<1>2. CASE Open(entry)
  <2>1. /\ Counted(entry, length).count = entry.count + 1
        /\ Counted(entry, length).resetAt = entry.resetAt
    BY <1>2 DEF Counted, Window
  <2> QED BY <1>1, <1>2, <2>1, SMTT(20) DEF Tally, Window
<1>3. CASE ~Open(entry)
  <2>1. /\ Counted(entry, length).count = 1
        /\ Counted(entry, length).resetAt = now + length
    BY <1>3 DEF Counted
  <2> QED BY <1>1, <1>3, <2>1 DEF Tally, Window
<1> QED BY <1>2, <1>3 DEF longer

\* The invariant of the calls of one caller to one tool, with their number and
\* their times as numbers.
OwnParts(times, n, count, resetAt, own, limit, length) ==
    /\ own \in 0 .. count /\ own <= limit
    /\ \A i \in 1 .. n : times[i] \in Nat
    /\ \A i \in 1 .. n : i + own <= n => times[i] + length <= resetAt
    /\ \A i \in 1 .. n :
          i + own = n + 1 /\ own \in {count, limit} => times[i] + length <= resetAt
    /\ \A i \in 1 .. n : i + own + limit <= n + 1 => times[i] + 2 * length <= resetAt
    /\ \A i \in 1 .. n : i + 2 * limit - 1 \in 1 .. n =>
          times[i + 2 * limit - 1] - times[i] >= length

\* Nothing else is in Within.
LEMMA WithinParts ==
    ASSUME NEW times \in Seq(Nat), NEW n, n = Len(times), NEW entry \in Window,
           NEW length \in Nat, NEW limit, limit # NoLimit
    PROVE  Within(times, entry, limit, length) <=>
              \E own : OwnParts(times, n, entry.count, entry.resetAt, own, limit, length)
<1>1. DOMAIN times = 1 .. n /\ \A i \in 1 .. n : times[i] \in Nat
  BY LenProperties, ElementOfSeq
<1> QED BY <1>1, Zenon DEF Within, OwnTally, OwnParts, Spread

\* A window that is over has ended after each call with limit calls from it on.
LEMMA WindowOver ==
    ASSUME NEW times, NEW n \in Nat, NEW count \in Nat, NEW resetAt \in Nat, NEW own,
           NEW limit \in Nat \ {0}, NEW length \in Nat,
           OwnParts(times, n, count, resetAt, own, limit, length),
           now \in Nat, resetAt <= now, NEW i \in 1 .. n, i + limit <= n + 1
    PROVE  times[i] + length <= now
<1>1. own \in Nat /\ own <= limit  BY DEF OwnParts
<1>2. i + own <= n \/ (i + own = n + 1 /\ own = limit)  BY <1>1
<1>3. own = limit => own \in {count, limit}  OBVIOUS
<1>4. times[i] + length <= resetAt /\ times[i] \in Nat  BY <1>2, <1>3 DEF OwnParts
<1> QED BY <1>4

\* Where another own call is counted, and the window is full or had only own ones,
\* so had it before.
LEMMA WindowFilled ==
    ASSUME NEW times, NEW n \in Nat, NEW count \in Nat, NEW resetAt \in Nat, NEW own,
           NEW limit \in Nat \ {0}, NEW length \in Nat,
           OwnParts(times, n, count, resetAt, own, limit, length),
           count > 0, count < limit, NEW i \in Nat \ {0}, i + (own + 1) = (n + 1) + 1,
           own + 1 \in {count + 1, limit}
    PROVE  i \in 1 .. n /\ times[i] + length <= resetAt
<1>1. own \in Nat /\ own <= count  BY DEF OwnParts
<1>2. own + 1 = count + 1 \/ own + 1 = limit  OBVIOUS
<1>3. own = count  BY <1>1, <1>2
<1>4. i + own = n + 1  BY <1>1
<1>5. i \in 1 .. n  BY <1>3, <1>4
<1> QED BY <1>3, <1>4, <1>5 DEF OwnParts

\* Counting a call that the window has room for keeps the rate: where it opens
\* a window, the first of the 2 * limit calls that end with it is at or before
\* the first of the window that has ended; where it does not, a window earlier.
LEMMA OwnCounted ==
    ASSUME NEW times \in Seq(Nat), NEW entry \in Window, NEW length \in Nat, now \in Nat,
           NEW limit \in Limits,
           entry.resetAt <= now + length, Open(entry) => entry.count > 0,
           \A i \in DOMAIN times : times[i] <= now,
           Within(times, entry, limit, length), ~Full(entry, limit)
    PROVE  Within(Append(times, now), Counted(entry, length), limit, length)
<1> DEFINE longer == Append(times, now)
           after == Counted(entry, length)
<1>1. SUFFICES ASSUME limit # NoLimit PROVE Within(longer, after, limit, length)
  BY DEF Within
<1> PICK n \in Nat, count \in Nat, resetAt \in Nat :
       n = Len(times) /\ count = entry.count /\ resetAt = entry.resetAt
  BY LenProperties DEF Window
<1>2. limit \in Nat \ {0}  BY <1>1 DEF Limits
<1>3. /\ longer \in Seq(Nat) /\ Len(longer) = n + 1
      /\ \A i \in 1 .. n : longer[i] = times[i]
      /\ longer[n + 1] = now
  BY AppendProperties
<1>4. after \in Window  BY CountedType
<1>5. PICK own : OwnParts(times, n, count, resetAt, own, limit, length)
  BY <1>1, WithinParts
<1>6. own \in Nat /\ own <= limit /\ own <= count  BY <1>2, <1>5 DEF OwnParts
<1>7. \A i \in 1 .. n : times[i] \in Nat /\ times[i] <= now
  BY <1>5, LenProperties DEF OwnParts
<1>8. \A i \in 1 .. n + 1 : i \in 1 .. n \/ i = n + 1  OBVIOUS
<1>9. \A i \in 1 .. n + 1 : longer[i] \in Nat /\ longer[i] <= now
  BY <1>3, <1>7, <1>8
\* The 2 * limit calls that end with the new one.
<1>10. ASSUME \A i \in 1 .. n : i + 2 * limit - 1 = n + 1 => now - times[i] >= length
       PROVE  \A i \in 1 .. n + 1 : i + 2 * limit - 1 \in 1 .. n + 1 =>
                 longer[i + 2 * limit - 1] - longer[i] >= length
  <2> SUFFICES ASSUME NEW i \in 1 .. n + 1, NEW j \in 1 .. n + 1, j = i + 2 * limit - 1
               PROVE  longer[j] - longer[i] >= length
    OBVIOUS
  <2>1. i \in 1 .. n  BY <1>2
  <2>2. CASE j = n + 1  BY <1>3, <1>10, <2>1, <2>2
  <2>3. CASE j \in 1 .. n
    <3>1. times[j] - times[i] >= length  BY <1>5, <2>1, <2>3 DEF OwnParts
    <3> QED BY <1>3, <2>1, <2>3, <3>1
  <2> QED BY <1>8, <2>2, <2>3
<1> HIDE DEF longer, after
<1>11. CASE Open(entry)
  <2>1. after.count = count + 1 /\ after.resetAt = resetAt
    BY <1>11 DEF after, Counted, Window
  <2>2. count < limit /\ own < limit  BY <1>1, <1>2, <1>6, <1>11 DEF Full
  <2>3. resetAt <= now + length /\ count > 0  BY <1>11
  <2>4. ASSUME NEW i \in 1 .. n, i + own + limit <= n + 1
        PROVE  times[i] + 2 * length <= resetAt
    BY <1>5, <2>4 DEF OwnParts
  <2>5. ASSUME NEW i \in 1 .. n, i + 2 * limit - 1 = n + 1
        PROVE  now - times[i] >= length
    <3>1. i + own + limit <= n + 1  BY <1>2, <1>6, <2>2, <2>5
    <3>2. times[i] + 2 * length <= resetAt  BY <2>4, <3>1
    <3> QED BY <1>7, <2>3, <3>2
  <2>6. ASSUME NEW i \in 1 .. n + 1, i + (own + 1) <= n + 1
        PROVE  longer[i] + length <= resetAt
    <3>1. i \in 1 .. n /\ i + own <= n  BY <1>6, <2>6
    <3>2. times[i] + length <= resetAt  BY <1>5, <3>1 DEF OwnParts
    <3> QED BY <1>3, <3>1, <3>2
  <2>7. ASSUME NEW i \in 1 .. n + 1, i + (own + 1) = (n + 1) + 1,
               own + 1 \in {count + 1, limit}
        PROVE  longer[i] + length <= resetAt
    <3>1. count \in Nat /\ i \in Nat \ {0}  OBVIOUS
    <3>2. i \in 1 .. n /\ times[i] + length <= resetAt
      BY <1>2, <1>5, <2>2, <2>3, <2>7, <3>1, WindowFilled
    <3> QED BY <1>3, <3>2
  <2>8. ASSUME NEW i \in 1 .. n + 1, i + (own + 1) + limit <= (n + 1) + 1
        PROVE  longer[i] + 2 * length <= resetAt
    <3>1. i \in 1 .. n /\ i + own + limit <= n + 1  BY <1>2, <1>6, <2>8
    <3> QED BY <1>3, <2>4, <3>1
  <2>9. own + 1 \in 0 .. count + 1 /\ own + 1 <= limit  BY <1>2, <1>6, <2>2
  <2>10. OwnParts(longer, n + 1, count + 1, resetAt, own + 1, limit, length)
    BY <1>9, <1>10, <2>5, <2>6, <2>7, <2>8, <2>9 DEF OwnParts
  <2> QED BY <1>1, <1>3, <1>4, <2>1, <2>10, WithinParts DEF longer, after
<1>12. CASE ~Open(entry)
  <2>1. after.count = 1 /\ after.resetAt = now + length
    BY <1>12 DEF after, Counted
  <2>2. resetAt <= now  BY <1>12 DEF Open
  <2>3. ASSUME NEW i \in 1 .. n, i + limit <= n + 1
        PROVE  times[i] + length <= now
    BY <1>2, <1>5, <2>2, <2>3, WindowOver
  <2>4. ASSUME NEW i \in 1 .. n, i + 2 * limit - 1 = n + 1
        PROVE  now - times[i] >= length
    <3>1. i + limit <= n + 1  BY <1>2, <2>4
    <3>2. times[i] + length <= now  BY <2>3, <3>1
    <3> QED BY <1>7, <3>2
  <2>5. \A i \in 1 .. n + 1 : longer[i] + length <= now + length  BY <1>9
  <2>6. ASSUME NEW i \in 1 .. n + 1, i + 1 + limit <= (n + 1) + 1
        PROVE  longer[i] + 2 * length <= now + length
    <3>1. i \in 1 .. n /\ i + limit <= n + 1  BY <1>2, <2>6
    <3>2. times[i] + length <= now  BY <2>3, <3>1
    <3>3. longer[i] = times[i] /\ times[i] \in Nat  BY <1>3, <1>7, <3>1
    <3>4. times[i] + 2 * length <= now + length  BY <3>2, <3>3
    <3> QED BY <3>3, <3>4
  <2>7. 1 \in 0 .. 1 /\ 1 <= limit  BY <1>2
  <2>8. OwnParts(longer, n + 1, 1, now + length, 1, limit, length)
    BY <1>9, <1>10, <2>4, <2>5, <2>6, <2>7 DEF OwnParts
  <2> QED BY <1>1, <1>3, <1>4, <2>1, <2>8, WithinParts DEF longer, after
<1> QED BY <1>11, <1>12 DEF longer, after

\* So does counting a call of another caller, or to another tool, under the same
\* key: it takes away room, or opens a window in which there is no own call yet.
LEMMA OtherCounted ==
    ASSUME NEW times \in Seq(Nat), NEW entry \in Window, NEW length \in Nat, now \in Nat,
           NEW limit \in Limits, entry.resetAt <= now + length,
           \A i \in DOMAIN times : times[i] <= now,
           Within(times, entry, limit, length)
    PROVE  Within(times, Counted(entry, length), limit, length)
<1> DEFINE after == Counted(entry, length)
<1>1. SUFFICES ASSUME limit # NoLimit PROVE Within(times, after, limit, length)
  BY DEF Within
<1> PICK n \in Nat, count \in Nat, resetAt \in Nat :
       n = Len(times) /\ count = entry.count /\ resetAt = entry.resetAt
  BY LenProperties DEF Window
<1>2. limit \in Nat \ {0}  BY <1>1 DEF Limits
<1>3. after \in Window  BY CountedType
<1>4. PICK own : OwnParts(times, n, count, resetAt, own, limit, length)
  BY <1>1, WithinParts
<1>5. own \in Nat /\ own <= limit /\ own <= count  BY <1>2, <1>4 DEF OwnParts
<1>6. \A i \in 1 .. n : times[i] \in Nat /\ times[i] <= now
  BY <1>4, LenProperties DEF OwnParts
<1> HIDE DEF after
<1>7. CASE Open(entry)
  <2>1. after.count = count + 1 /\ after.resetAt = resetAt
    BY <1>7 DEF after, Counted, Window
  <2>2. own \in {count + 1, limit} => own \in {count, limit}  BY <1>5
  <2>3. own \in 0 .. count + 1  BY <1>5
  <2>4. OwnParts(times, n, count + 1, resetAt, own, limit, length)
    BY <1>4, <2>2, <2>3 DEF OwnParts
  <2> QED BY <1>1, <1>3, <2>1, <2>4, WithinParts
<1>8. CASE ~Open(entry)
  <2>1. after.count = 1 /\ after.resetAt = now + length
    BY <1>8 DEF after, Counted
  <2>2. resetAt <= now  BY <1>8 DEF Open
  <2>3. ASSUME NEW i \in 1 .. n, i + limit <= n + 1
        PROVE  times[i] + 2 * length <= now + length
    <3>1. times[i] + length <= now  BY <1>2, <1>4, <2>2, <2>3, WindowOver
    <3> QED BY <1>6, <3>1
  <2>4. \A i \in 1 .. n : times[i] + length <= now + length  BY <1>6
  <2>5. 0 \in 0 .. 1 /\ 0 <= limit /\ 0 \notin {1, limit}  BY <1>2
  <2>6. \A i \in 1 .. n : i + 0 + limit <= n + 1 => times[i] + 2 * length <= now + length
    BY <1>2, <2>3
  <2>7. OwnParts(times, n, 1, now + length, 0, limit, length)
    BY <1>4, <2>4, <2>5, <2>6 DEF OwnParts
  <2> QED BY <1>1, <1>3, <2>1, <2>7, WithinParts
<1> QED BY <1>7, <1>8 DEF after

-----------------------------------------------------------------------------
(* Types                                                                   *)

\* What is counted has a counter.
LEMMA KeyInKeys ==
    ASSUME NEW p \in Callers, NEW t \in Tools
    PROVE  Key(p, t) \in Keys
  BY DEF Keys

\* At the start no window is open.
LEMMA InitTypeOK == Init => TypeOK
<1> SUFFICES ASSUME Init PROVE TypeOK  OBVIOUS
<1>1. NoWindow \in Window /\ ~Open(NoWindow) /\ NoWindow.resetAt = 0
  BY DEF Init, NoWindow, Window, Open
<1>2. admitted \in [Keys -> Seq(Call)] /\ \A k \in Keys : DOMAIN admitted[k] = {}
  BY EmptySeq DEF Init
<1>3. minuteCounts \in [Keys -> Window] /\ hourCounts \in [Keys -> Window]
  BY <1>1 DEF Init
<1>4. \A k \in Keys : minuteCounts[k] = NoWindow /\ hourCounts[k] = NoWindow
  BY DEF Init
<1> QED BY <1>1, <1>2, <1>3, <1>4, ConstantsAssumption DEF Init, TypeOK

\* Time closes windows and opens none.
LEMMA TickTypeOK == TypeOK /\ Tick => TypeOK'
<1> SUFFICES ASSUME TypeOK, Tick PROVE TypeOK'  OBVIOUS
<1>1. now \in 0 .. MaxTime /\ now' = now + 1 /\ now' \in 0 .. MaxTime
  BY ConstantsAssumption DEF TypeOK, Tick
<1>2. \A k \in Keys : minuteCounts[k] \in Window /\ hourCounts[k] \in Window
  BY DEF TypeOK
<1>3. \A k \in Keys :
         /\ minuteCounts[k].resetAt <= now' + Minute
         /\ hourCounts[k].resetAt <= now' + Hour
         /\ Open(minuteCounts[k])' => minuteCounts[k].count > 0
         /\ Open(hourCounts[k])' => hourCounts[k].count > 0
  BY <1>1, <1>2, ConstantsAssumption DEF TypeOK, Tick, Open, Window
<1>4. \A k \in Keys : \A i \in DOMAIN admitted[k] : admitted[k][i].time <= now'
  <2> SUFFICES ASSUME NEW k \in Keys, NEW i \in DOMAIN admitted[k]
               PROVE  admitted[k][i].time <= now'
    OBVIOUS
  <2>1. admitted[k][i] \in Call  BY ElementOfSeq, LenProperties DEF TypeOK
  <2>2. admitted[k][i].time \in 0 .. MaxTime  BY <2>1 DEF Call
  <2>3. admitted[k][i].time <= now  BY DEF TypeOK
  <2> QED BY <1>1, <2>2, <2>3
<1>5. UNCHANGED <<policy, minuteCounts, hourCounts, pending, admitted>>  BY DEF Tick
<1> QED BY <1>1, <1>3, <1>4, <1>5 DEF TypeOK, Allowed, Open

\* Only calls that are allowed get between the two steps.
LEMMA EvaluateTypeOK ==
    ASSUME TypeOK, NEW p \in Callers, NEW t \in Tools, Evaluate(p, t)
    PROVE  TypeOK'
  BY DEF TypeOK, Evaluate, Allowed, Open

\* Counting a call starts or fills the two windows of its key.
LEMMA RecordTypeOK ==
    ASSUME TypeOK, NEW p \in Callers, NEW t \in Tools, recordInvocation(p, t)
    PROVE  TypeOK'
<1> DEFINE key == Key(p, t)
           call == [caller |-> p, tool |-> t, time |-> now]
<1>1. key \in Keys  BY KeyInKeys
<1>2. /\ minuteCounts' = [minuteCounts EXCEPT ![key] = Counted(minuteCounts[key], Minute)]
      /\ hourCounts' = [hourCounts EXCEPT ![key] = Counted(hourCounts[key], Hour)]
      /\ admitted' = [admitted EXCEPT ![key] = Append(admitted[key], call)]
      /\ pending' = NoCall /\ policy' = policy /\ now' = now
  BY DEF recordInvocation
<1>3. now \in 0 .. MaxTime /\ now \in Nat /\ Minute \in Nat /\ Hour \in Nat
  BY ConstantsAssumption DEF TypeOK
<1>4. /\ minuteCounts[key] \in Window /\ minuteCounts[key].resetAt <= now + Minute
      /\ hourCounts[key] \in Window /\ hourCounts[key].resetAt <= now + Hour
  BY <1>1 DEF TypeOK
<1>5. /\ Counted(minuteCounts[key], Minute) \in Window
      /\ Counted(minuteCounts[key], Minute).count > 0
      /\ Counted(minuteCounts[key], Minute).resetAt <= now + Minute
      /\ Counted(hourCounts[key], Hour) \in Window
      /\ Counted(hourCounts[key], Hour).count > 0
      /\ Counted(hourCounts[key], Hour).resetAt <= now + Hour
  BY <1>3, <1>4, CountedType
<1>6. call \in Call /\ call.time = now /\ Key(call.caller, call.tool) = key
  BY <1>3 DEF Call
<1>7. admitted[key] \in Seq(Call)  BY <1>1 DEF TypeOK
<1> HIDE DEF key, call
<1>8. minuteCounts' \in [Keys -> Window] /\ hourCounts' \in [Keys -> Window]
  BY <1>2, <1>5 DEF TypeOK
<1>9. \A k \in Keys :
         /\ minuteCounts'[k].resetAt <= now + Minute
         /\ hourCounts'[k].resetAt <= now + Hour
         /\ minuteCounts'[k].resetAt > now => minuteCounts'[k].count > 0
         /\ hourCounts'[k].resetAt > now => hourCounts'[k].count > 0
  BY <1>1, <1>2, <1>5 DEF TypeOK, Open
<1>10. admitted' \in [Keys -> Seq(Call)]
  <2>1. Append(admitted[key], call) \in Seq(Call)  BY <1>6, <1>7, AppendProperties
  <2> QED BY <1>2, <2>1 DEF TypeOK
<1>11. ASSUME NEW k \in Keys, NEW i \in DOMAIN admitted'[k]
       PROVE  /\ Key(admitted'[k][i].caller, admitted'[k][i].tool) = k
              /\ admitted'[k][i].time <= now
  <2>1. CASE i \in DOMAIN admitted[k] /\ admitted'[k][i] = admitted[k][i]
    BY <2>1 DEF TypeOK
  <2>2. CASE k = key /\ admitted'[k][i] = call  BY <1>3, <1>6, <2>2
  <2>3. k # key => admitted'[k] = admitted[k]  BY <1>2 DEF TypeOK
  <2>4. ASSUME k = key PROVE \/ i \in DOMAIN admitted[k] /\ admitted'[k][i] = admitted[k][i]
                             \/ admitted'[k][i] = call
    <3>1. admitted'[k] = Append(admitted[key], call)  BY <1>1, <1>2, <2>4 DEF TypeOK
    <3> QED BY <1>6, <1>7, <2>4, <3>1, AppendProperties, LenProperties
  <2> QED BY <2>1, <2>2, <2>3, <2>4
<1> QED BY <1>2, <1>8, <1>9, <1>10, <1>11 DEF TypeOK, Open

\* Every step keeps the types.
LEMMA NextTypeOK == TypeOK /\ [Next]_vars => TypeOK'
<1> SUFFICES ASSUME TypeOK, [Next]_vars PROVE TypeOK'  OBVIOUS
<1>1. CASE UNCHANGED vars  BY <1>1 DEF vars, TypeOK, Allowed, Open
<1>2. CASE Tick  BY <1>2, TickTypeOK
<1>3. CASE Finished  BY <1>1, <1>3 DEF Finished
<1>4. ASSUME NEW p \in Callers, NEW t \in Tools, Evaluate(p, t) PROVE TypeOK'
  BY <1>4, EvaluateTypeOK
<1>5. ASSUME NEW p \in Callers, NEW t \in Tools, recordInvocation(p, t) PROVE TypeOK'
  BY <1>5, RecordTypeOK
<1> QED BY <1>1, <1>2, <1>3, <1>4, <1>5 DEF Next

\* Counters have their types in every behaviour, a window that is open ends
\* within its length and has counted a call, and calls are counted under the
\* joined names of their caller and tool (incrementCounter, recordInvocation).
THEOREM TypeCorrect == Spec => []TypeOK
  BY InitTypeOK, NextTypeOK, PTL DEF Spec

-----------------------------------------------------------------------------
(* The calls under a key, and those of one caller to one tool among them   *)

\* Calls have times that are numbers.
LEMMA TimesType ==
    ASSUME NEW calls \in Seq(Call)
    PROVE  /\ Times(calls) \in Seq(Nat) /\ Len(Times(calls)) = Len(calls)
           /\ DOMAIN Times(calls) = DOMAIN calls
           /\ \A i \in DOMAIN calls : Times(calls)[i] = calls[i].time
<1>1. DOMAIN calls = 1 .. Len(calls) /\ Len(calls) \in Nat  BY LenProperties
<1>2. \A i \in 1 .. Len(calls) : calls[i].time \in Nat
  <2> SUFFICES ASSUME NEW i \in 1 .. Len(calls) PROVE calls[i].time \in Nat  OBVIOUS
  <2>1. calls[i] \in Call  BY ElementOfSeq
  <2> QED BY <2>1, ConstantsAssumption DEF Call
<1>3. Times(calls) \in [1 .. Len(calls) -> Nat]  BY <1>1, <1>2 DEF Times
<1>4. Times(calls) \in Seq(Nat)  BY <1>1, <1>3, SeqDef
<1> QED BY <1>1, <1>3, <1>4, LenProperties DEF Times

\* The times of one more call.
LEMMA TimesAppend ==
    ASSUME NEW calls \in Seq(Call), NEW call \in Call
    PROVE  Times(Append(calls, call)) = Append(Times(calls), call.time)
<1> DEFINE n == Len(calls) + 1
           left == Times(Append(calls, call))
           right == Append(Times(calls), call.time)
<1>1. call.time \in Nat  BY ConstantsAssumption DEF Call
<1>2. /\ Append(calls, call) \in Seq(Call) /\ Len(Append(calls, call)) = n
      /\ \A i \in 1 .. Len(calls) : Append(calls, call)[i] = calls[i]
      /\ Append(calls, call)[n] = call
  BY AppendProperties
<1>3. /\ Times(calls) \in Seq(Nat) /\ Len(Times(calls)) = Len(calls)
      /\ \A i \in 1 .. Len(calls) : Times(calls)[i] = calls[i].time
  BY TimesType, LenProperties
<1>4. /\ left \in Seq(Nat) /\ Len(left) = n
      /\ \A i \in 1 .. n : left[i] = Append(calls, call)[i].time
  BY <1>2, TimesType, LenProperties
<1>5. /\ right \in Seq(Nat) /\ Len(right) = n
      /\ \A i \in 1 .. Len(calls) : right[i] = Times(calls)[i]
      /\ right[n] = call.time
  BY <1>1, <1>3, AppendProperties
<1> HIDE DEF left, right
<1>6. \A i \in 1 .. n : left[i] = right[i]
  <2>1. Len(calls) \in Nat /\ \A i \in 1 .. n : i \in 1 .. Len(calls) \/ i = n
    BY LenProperties
  <2> QED BY <1>2, <1>3, <1>4, <1>5, <2>1
<1>7. left = right  BY <1>4, <1>5, <1>6, SeqEqual
<1> QED BY <1>7 DEF left, right

\* The calls of one caller to one tool are some of those under their key.
LEMMA OwnCallsType ==
    ASSUME TypeOK, NEW p \in Callers, NEW t \in Tools
    PROVE  /\ admitted[Key(p, t)] \in Seq(Call)
           /\ OwnPlaces(p, t) \in SUBSET (1 .. Len(admitted[Key(p, t)]))
           /\ OwnCalls(p, t) \in Seq(Call)
           /\ Times(OwnCalls(p, t)) \in Seq(Nat)
           /\ \A i \in DOMAIN Times(OwnCalls(p, t)) : Times(OwnCalls(p, t))[i] <= now
<1> DEFINE calls == admitted[Key(p, t)]
           own == OwnCalls(p, t)
<1>1. calls \in Seq(Call)  BY KeyInKeys DEF TypeOK
<1>2. OwnPlaces(p, t) \in SUBSET (1 .. Len(calls))  BY <1>1, LenProperties DEF OwnPlaces
<1>3. own \in Seq(Call) /\ \A n \in DOMAIN own : \E i \in OwnPlaces(p, t) : own[n] = calls[i]
  <2> HIDE DEF calls
  <2> QED BY <1>1, <1>2, SelectType DEF OwnCalls, calls
<1>4. \A i \in OwnPlaces(p, t) : calls[i].time <= now  BY KeyInKeys DEF OwnPlaces, TypeOK
<1> HIDE DEF calls, own
<1>5. /\ Times(own) \in Seq(Nat)
      /\ \A n \in DOMAIN Times(own) : n \in DOMAIN own /\ Times(own)[n] = own[n].time
  BY <1>3, TimesType
<1>6. \A n \in DOMAIN Times(own) : Times(own)[n] <= now  BY <1>3, <1>4, <1>5
<1> QED BY <1>1, <1>2, <1>3, <1>5, <1>6 DEF calls, own

\* A call counted is the last of its caller to its tool, and none of another's.
LEMMA OwnStep ==
    ASSUME TypeOK, NEW p \in Callers, NEW t \in Tools, recordInvocation(p, t),
           NEW q \in Callers, NEW u \in Tools
    PROVE  Times(OwnCalls(q, u))' = IF q = p /\ u = t THEN Append(Times(OwnCalls(q, u)), now)
                                    ELSE Times(OwnCalls(q, u))
<1> DEFINE k == Key(q, u)
           call == [caller |-> p, tool |-> t, time |-> now]
           calls == admitted[k]
           places == OwnPlaces(q, u)
           later == {i \in DOMAIN admitted'[k] :
                        admitted'[k][i].caller = q /\ admitted'[k][i].tool = u}
<1>1. /\ k \in Keys /\ Key(p, t) \in Keys
      /\ admitted' = [admitted EXCEPT ![Key(p, t)] = Append(admitted[Key(p, t)], call)]
  BY KeyInKeys DEF recordInvocation
<1>2. call \in Call /\ call.caller = p /\ call.tool = t /\ call.time = now
  BY DEF Call, TypeOK
<1>3. /\ calls \in Seq(Call) /\ OwnCalls(q, u) \in Seq(Call)
      /\ places \in SUBSET (1 .. Len(calls))
  BY OwnCallsType
<1>4. Times(OwnCalls(q, u))' = Times(InOrder(admitted'[k], later))
  BY DEF Times, OwnCalls, OwnPlaces, Key
<1>5. OwnCalls(q, u) = InOrder(calls, places)  BY DEF OwnCalls
<1>6. places = {i \in DOMAIN calls : calls[i].caller = q /\ calls[i].tool = u}
  BY DEF OwnPlaces
<1> HIDE DEF call, places
<1>7. CASE k # Key(p, t)
  <2>1. admitted'[k] = calls  BY <1>1, <1>7 DEF TypeOK
  <2>2. later = places  BY <1>6, <2>1
  <2>3. ~(q = p /\ u = t)  BY <1>7
  <2> QED BY <1>4, <1>5, <2>1, <2>2, <2>3
<1>8. CASE k = Key(p, t)
  <2>1. admitted'[k] = Append(calls, call)  BY <1>1, <1>8 DEF TypeOK
  <2> HIDE DEF k, calls
  <2>2. /\ Len(calls) \in Nat /\ DOMAIN calls = 1 .. Len(calls)
        /\ DOMAIN Append(calls, call) = 1 .. (Len(calls) + 1)
        /\ \A i \in 1 .. Len(calls) : Append(calls, call)[i] = calls[i]
        /\ Append(calls, call)[Len(calls) + 1] = call
    BY <1>2, <1>3, AppendProperties, LenProperties
  <2>3. GrowsBy(calls, places, call)  BY <1>2, <1>3, SelectAppend
  <2>4. CASE q = p /\ u = t
    <3>1. later = places \cup {Len(calls) + 1}  BY <1>2, <1>6, <2>1, <2>2, <2>4
    <3> HIDE DEF later
    <3>2. InOrder(admitted'[k], later) = Append(OwnCalls(q, u), call)
      BY <1>5, <2>1, <2>3, <3>1 DEF GrowsBy
    <3> QED BY <1>2, <1>3, <1>4, <2>4, <3>2, TimesAppend
  <2>5. CASE ~(q = p /\ u = t)
    <3>1. later = places  BY <1>2, <1>6, <2>1, <2>2, <2>5
    <3> HIDE DEF later
    <3>2. InOrder(admitted'[k], later) = OwnCalls(q, u)
      BY <1>5, <2>1, <2>3, <3>1 DEF GrowsBy
    <3> QED BY <1>4, <2>5, <3>2
  <2> QED BY <2>4, <2>5
<1> QED BY <1>7, <1>8

-----------------------------------------------------------------------------
(* The invariant behind the rates                                          *)

\* At the start nothing is counted.
LEMMA InitRateInv == Init => RateInv
<1> SUFFICES ASSUME Init PROVE RateInv  OBVIOUS
<1>1. TypeOK  BY InitTypeOK
<1>2. PendingHasRoom  BY DEF Init, PendingHasRoom, NoCall, CallOf
<1>3. ASSUME NEW times \in Seq(Nat), Len(times) = 0, NEW length, NEW limit \in Limits
      PROVE  /\ Tally(times, NoWindow, length)
             /\ Within(times, NoWindow, limit, length)
  <2>1. DOMAIN times = {}  BY <1>3, LenProperties
  <2>2. Tally(times, NoWindow, length)  BY <1>3, <2>1 DEF Tally, NoWindow
  <2>3. limit # NoLimit => OwnTally(times, NoWindow, 0, limit, length)
    BY <2>1 DEF OwnTally, Limits
  <2>4. 0 \in 0 .. NoWindow.count  BY DEF NoWindow
  <2> QED BY <2>1, <2>2, <2>3, <2>4 DEF Within, Spread
<1>4. \A k \in Keys : /\ minuteCounts[k] = NoWindow /\ hourCounts[k] = NoWindow
                      /\ admitted[k] = <<>>
  BY DEF Init
<1>5. Times(<<>>) \in Seq(Nat) /\ Len(Times(<<>>)) = 0
  BY TimesType, EmptySeq
<1>6. \A p \in Callers, t \in Tools : OwnCalls(p, t) = <<>>
  <2> SUFFICES ASSUME NEW p \in Callers, NEW t \in Tools PROVE OwnCalls(p, t) = <<>>
    OBVIOUS
  <2>1. OwnPlaces(p, t) = {}  BY <1>4, KeyInKeys DEF OwnPlaces
  <2> QED BY <2>1, SelectNone DEF OwnCalls
<1>7. NoLimit \in Limits  BY DEF Limits
<1>8. TalliesMatch  BY <1>3, <1>4, <1>5, <1>7 DEF TalliesMatch
<1>9. OwnTalliesMatch
  BY <1>1, <1>3, <1>4, <1>5, <1>6, KeyInKeys, LimitOfCall DEF OwnTalliesMatch, TypeOK
<1> QED BY <1>1, <1>2, <1>8, <1>9 DEF RateInv

\* What counts no call keeps the counters in step.
LEMMA TalliesKept ==
    ASSUME RateInv, UNCHANGED <<policy, minuteCounts, hourCounts, admitted>>
    PROVE  TalliesMatch' /\ OwnTalliesMatch'
<1>1. TalliesMatch /\ OwnTalliesMatch  BY DEF RateInv
<1>2. TalliesMatch'  BY <1>1 DEF TalliesMatch, Tally, Times
<1>3. \A p \in Callers, t \in Tools :
         /\ Times(OwnCalls(p, t))' = Times(OwnCalls(p, t))
         /\ Limit(p, t)' = Limit(p, t) /\ Key(p, t)' = Key(p, t)
  BY DEF Times, OwnCalls, OwnPlaces, Limit, Key
<1>4. OwnTalliesMatch'  BY <1>1, <1>3 DEF OwnTalliesMatch, Within, OwnTally, Spread
<1> QED BY <1>2, <1>4

\* Time changes no counter, and makes no window full.
LEMMA TickRateInv == RateInv /\ Tick => RateInv'
<1> SUFFICES ASSUME RateInv, Tick PROVE RateInv'  OBVIOUS
<1>1. TypeOK /\ TypeOK' /\ PendingHasRoom  BY TickTypeOK DEF RateInv
<1>2. now \in Nat /\ now' = now + 1  BY <1>1, ConstantsAssumption DEF TypeOK, Tick
<1>3. UNCHANGED <<policy, minuteCounts, hourCounts, pending, admitted>>  BY DEF Tick
<1>4. ASSUME NEW entry \in Window, NEW limit, ~Full(entry, limit)
      PROVE  ~(limit # NoLimit /\ entry.resetAt > now' /\ entry.count >= limit)
  BY <1>2, <1>4 DEF Full, Open, Window
<1>5. PendingHasRoom'
  <2>1. \A p \in Callers, t \in Tools :
           /\ minuteCounts[Key(p, t)] \in Window /\ hourCounts[Key(p, t)] \in Window
    BY <1>1, KeyInKeys DEF TypeOK
  <2> QED BY <1>1, <1>3, <1>4, <2>1 DEF PendingHasRoom, checkRateLimit, Full, Open, Limit
<1> QED BY <1>1, <1>3, <1>5, TalliesKept DEF RateInv

\* A call gets between the two steps only when its windows have room.
LEMMA EvaluateRateInv ==
    ASSUME RateInv, NEW p \in Callers, NEW t \in Tools, Evaluate(p, t)
    PROVE  RateInv'
<1>1. TypeOK'  BY EvaluateTypeOK DEF RateInv
<1>2. /\ pending' = CallOf(p, t) /\ ~checkRateLimit(Key(p, t), Limit(p, t))
      /\ UNCHANGED <<policy, now, minuteCounts, hourCounts, admitted>>
  BY DEF Evaluate, RateLimited
<1>3. PendingHasRoom'
  BY <1>2 DEF PendingHasRoom, CallOf, checkRateLimit, Full, Open, Limit
<1> QED BY <1>1, <1>2, <1>3, TalliesKept DEF RateInv

\* Counting a call keeps the counters of its key in step, with the calls of its
\* own caller to its tool and with those of all others under that key, and leaves
\* the counters of other keys alone.
LEMMA RecordRateInv ==
    ASSUME RateInv, NEW p \in Callers, NEW t \in Tools, recordInvocation(p, t)
    PROVE  RateInv'
<1> DEFINE key == Key(p, t)
           call == [caller |-> p, tool |-> t, time |-> now]
<1>1. /\ TypeOK /\ TypeOK' /\ PendingHasRoom /\ TalliesMatch /\ OwnTalliesMatch
      /\ now \in Nat /\ Minute \in Nat /\ Hour \in Nat
  BY RecordTypeOK, ConstantsAssumption DEF RateInv, TypeOK
<1>2. /\ minuteCounts' = [minuteCounts EXCEPT ![key] = Counted(minuteCounts[key], Minute)]
      /\ hourCounts' = [hourCounts EXCEPT ![key] = Counted(hourCounts[key], Hour)]
      /\ admitted' = [admitted EXCEPT ![key] = Append(admitted[key], call)]
      /\ pending = CallOf(p, t) /\ pending' = NoCall /\ policy' = policy /\ now' = now
  BY DEF recordInvocation
<1>3. PendingHasRoom'  BY <1>2 DEF PendingHasRoom, NoCall, CallOf
<1>4. /\ key \in Keys
      /\ minuteCounts[key] \in Window /\ minuteCounts[key].resetAt <= now + Minute
      /\ Open(minuteCounts[key]) => minuteCounts[key].count > 0
      /\ hourCounts[key] \in Window /\ hourCounts[key].resetAt <= now + Hour
      /\ Open(hourCounts[key]) => hourCounts[key].count > 0
  BY <1>1, KeyInKeys DEF TypeOK
<1>5. \A k \in Keys :
         /\ k # key => /\ minuteCounts'[k] = minuteCounts[k]
                       /\ hourCounts'[k] = hourCounts[k]
                       /\ admitted'[k] = admitted[k]
         /\ k = key => /\ minuteCounts'[k] = Counted(minuteCounts[k], Minute)
                       /\ hourCounts'[k] = Counted(hourCounts[k], Hour)
                       /\ admitted'[k] = Append(admitted[k], call)
  BY <1>1, <1>2 DEF TypeOK
<1>6. TalliesMatch'
  <2>1. SUFFICES ASSUME NEW k \in Keys
                 PROVE  /\ Tally(Times(admitted'[k]), minuteCounts'[k], Minute)
                        /\ Tally(Times(admitted'[k]), hourCounts'[k], Hour)
    BY DEF TalliesMatch, Tally, Times
  <2>2. /\ Tally(Times(admitted[k]), minuteCounts[k], Minute)
        /\ Tally(Times(admitted[k]), hourCounts[k], Hour)
    BY <1>1 DEF TalliesMatch
  <2>3. CASE k # key  BY <1>5, <2>2, <2>3
  <2>4. CASE k = key
    <3>1. admitted[k] \in Seq(Call) /\ call \in Call /\ call.time = now
      BY <1>1 DEF TypeOK, Call
    <3>2. Times(admitted'[k]) = Append(Times(admitted[k]), now)
      BY <1>5, <2>4, <3>1, TimesAppend
    <3>3. Times(admitted[k]) \in Seq(Nat)  BY <3>1, TimesType
    <3> HIDE DEF key, call
    <3> QED BY <1>1, <1>4, <1>5, <2>2, <2>4, <3>2, <3>3, CountedTallies
  <2> QED BY <2>3, <2>4
<1>7. OwnTalliesMatch'
  <2>1. SUFFICES ASSUME NEW q \in Callers, NEW u \in Tools
                 PROVE  /\ Within(Times(OwnCalls(q, u))', minuteCounts'[Key(q, u)],
                                  Limit(q, u).maxPerMinute, Minute)
                        /\ Within(Times(OwnCalls(q, u))', hourCounts'[Key(q, u)],
                                  Limit(q, u).maxPerHour, Hour)
    <3>1. \A q \in Callers, u \in Tools :
             Limit(q, u)' = Limit(q, u) /\ Key(q, u)' = Key(q, u)
      BY <1>2 DEF Limit, Key
    <3> QED BY <2>1, <3>1 DEF OwnTalliesMatch, Within, OwnTally, Spread
  <2> DEFINE times == Times(OwnCalls(q, u))
             later == Times(OwnCalls(q, u))'
  <2>2. /\ Within(times, minuteCounts[Key(q, u)], Limit(q, u).maxPerMinute, Minute)
        /\ Within(times, hourCounts[Key(q, u)], Limit(q, u).maxPerHour, Hour)
    BY <1>1 DEF OwnTalliesMatch
  <2>3. later = IF q = p /\ u = t THEN Append(times, now) ELSE times
    BY <1>1, OwnStep
  <2>4. times \in Seq(Nat) /\ \A i \in DOMAIN times : times[i] <= now
    BY <1>1, OwnCallsType
  <2>5. Limit(q, u).maxPerMinute \in Limits /\ Limit(q, u).maxPerHour \in Limits
    BY <1>1, LimitOfCall DEF TypeOK
  <2>6. Key(q, u) \in Keys  BY KeyInKeys
  <2> HIDE DEF times, later, call
  <2>7. CASE Key(q, u) # key
    <3>1. later = times  BY <2>3, <2>7
    <3> QED BY <1>5, <2>2, <2>6, <2>7, <3>1 DEF times, later
  <2>8. CASE q = p /\ u = t
    <3>1. /\ ~Full(minuteCounts[key], Limit(q, u).maxPerMinute)
          /\ ~Full(hourCounts[key], Limit(q, u).maxPerHour)
      BY <1>1, <1>2, <2>8 DEF PendingHasRoom, checkRateLimit
    <3>2. Key(q, u) = key /\ later = Append(times, now)  BY <2>3, <2>8
    <3> HIDE DEF key
    <3>3. Within(later, Counted(minuteCounts[key], Minute), Limit(q, u).maxPerMinute, Minute)
      BY <1>1, <1>4, <2>2, <2>4, <2>5, <3>1, <3>2, OwnCounted
    <3>4. Within(later, Counted(hourCounts[key], Hour), Limit(q, u).maxPerHour, Hour)
      BY <1>1, <1>4, <2>2, <2>4, <2>5, <3>1, <3>2, OwnCounted
    <3> QED BY <1>4, <1>5, <3>2, <3>3, <3>4 DEF later
  <2>9. CASE Key(q, u) = key /\ ~(q = p /\ u = t)
    <3>1. later = times  BY <2>3, <2>9
    <3> HIDE DEF key
    <3>2. Within(times, Counted(minuteCounts[key], Minute), Limit(q, u).maxPerMinute, Minute)
      BY <1>1, <1>4, <2>2, <2>4, <2>5, <2>9, OtherCounted
    <3>3. Within(times, Counted(hourCounts[key], Hour), Limit(q, u).maxPerHour, Hour)
      BY <1>1, <1>4, <2>2, <2>4, <2>5, <2>9, OtherCounted
    <3> QED BY <1>4, <1>5, <2>9, <3>1, <3>2, <3>3 DEF later
  <2> QED BY <2>7, <2>8, <2>9
<1> QED BY <1>1, <1>3, <1>6, <1>7 DEF RateInv

\* Every step keeps the invariant.
LEMMA NextRateInv == RateInv /\ [Next]_vars => RateInv'
<1> SUFFICES ASSUME RateInv, [Next]_vars PROVE RateInv'  OBVIOUS
<1>1. CASE UNCHANGED vars
  <2>1. TypeOK'  BY <1>1, NextTypeOK DEF RateInv
  <2>2. PendingHasRoom'
    BY <1>1 DEF RateInv, vars, PendingHasRoom, checkRateLimit, Full, Open, Limit
  <2> QED BY <1>1, <2>1, <2>2, TalliesKept DEF RateInv, vars
<1>2. CASE Tick  BY <1>2, TickRateInv
<1>3. CASE Finished  BY <1>1, <1>3 DEF Finished
<1>4. ASSUME NEW p \in Callers, NEW t \in Tools, Evaluate(p, t) PROVE RateInv'
  BY <1>4, EvaluateRateInv
<1>5. ASSUME NEW p \in Callers, NEW t \in Tools, recordInvocation(p, t) PROVE RateInv'
  BY <1>5, RecordRateInv
<1> QED BY <1>1, <1>2, <1>3, <1>4, <1>5 DEF Next

\* Whatever the policy, no time as long as a window sees 2 * limit calls of one
\* caller to one tool, whoever else is counted under the same key (checkRateLimit,
\* incrementCounter).
THEOREM TumblingWindows == Spec => []RatesKept
<1>1. RateInv => RatesKept
  BY DEF RateInv, OwnTalliesMatch, RatesKept, Within, Spread
<1> QED BY <1>1, InitRateInv, NextRateInv, PTL DEF Spec

-----------------------------------------------------------------------------
(* Refusals                                                                *)

\* The calls that may be held against a caller are all those under its key: no
\* other caller and tool have calls there unless their names join to it.
LEMMA AgainstAll ==
    ASSUME TypeOK, NEW p \in Callers, NEW t \in Tools
    PROVE  Against(p, t) = DOMAIN admitted[Key(p, t)]
<1> DEFINE calls == admitted[Key(p, t)]
<1>1. ASSUME ~Shared(p, t), NEW i \in DOMAIN calls
      PROVE  calls[i].caller = p /\ calls[i].tool = t
  <2>1. calls \in Seq(Call)  BY KeyInKeys DEF TypeOK
  <2>2. calls[i] \in Call
    <3> HIDE DEF calls
    <3> QED BY <1>1, <2>1, ElementOfSeq, LenProperties
  <2>3. calls[i].caller \in Callers /\ calls[i].tool \in Tools  BY <2>2 DEF Call
  <2>4. Key(calls[i].caller, calls[i].tool) = Key(p, t)  BY <1>1, KeyInKeys DEF TypeOK
  <2> QED BY <1>1, <2>3, <2>4 DEF Shared
<1> QED BY <1>1 DEF Against, OwnPlaces

\* The calls a full window has counted were made not longer ago than it is long.
LEMMA FullIsUsedUp ==
    ASSUME TypeOK, NEW p \in Callers, NEW t \in Tools,
           NEW entry \in Window, NEW length \in Nat, NEW limit \in Limits,
           Tally(Times(admitted[Key(p, t)]), entry, length), Full(entry, limit)
    PROVE  UsedUp(p, t, limit, length)
<1> DEFINE calls == admitted[Key(p, t)]
           times == Times(calls)
           n == Len(calls)
           recent == {i \in Against(p, t) : calls[i].time > now - length}
           counted == (n - entry.count) + 1 .. n
<1>1. calls \in Seq(Call)  BY KeyInKeys DEF TypeOK
<1>2. now \in Nat  BY ConstantsAssumption DEF TypeOK
<1>3. /\ n \in Nat /\ DOMAIN calls = 1 .. n /\ Len(times) = n /\ DOMAIN times = 1 .. n
      /\ \A i \in 1 .. n : times[i] = calls[i].time /\ times[i] \in Nat
  <2> HIDE DEF calls
  <2>1. /\ times \in Seq(Nat) /\ Len(times) = Len(calls) /\ DOMAIN times = DOMAIN calls
        /\ \A i \in DOMAIN calls : times[i] = calls[i].time
    BY <1>1, TimesType
  <2> HIDE DEF times
  <2> QED BY <1>1, <2>1, LenProperties, ElementOfSeq
<1>4. Tally(times, entry, length)  OBVIOUS
<1>5. Against(p, t) = 1 .. n  BY <1>3, AgainstAll
<1> HIDE DEF calls, times
<1>6. /\ limit \in Nat /\ limit # NoLimit /\ entry.count \in Nat /\ entry.count >= limit
      /\ entry.resetAt \in Nat /\ entry.resetAt > now /\ entry.count <= n
  BY <1>3, <1>4 DEF Full, Open, Limits, Window, Tally
<1>7. counted \subseteq recent
  <2>1. SUFFICES ASSUME NEW i \in counted PROVE i \in recent  OBVIOUS
  <2>2. i \in 1 .. n /\ i + entry.count > n  BY <1>3, <1>6
  <2>3. times[i] + length >= entry.resetAt  BY <1>3, <1>4, <2>2 DEF Tally
  <2>4. times[i] > now - length  BY <1>2, <1>3, <1>6, <2>2, <2>3
  <2> QED BY <1>3, <1>5, <2>2, <2>4
<1>8. IsFiniteSet(recent)
  <2>1. IsFiniteSet(1 .. n)  BY <1>3, FS_Interval
  <2>2. recent \in SUBSET (1 .. n)  BY <1>5
  <2> HIDE DEF recent
  <2> QED BY <2>1, <2>2, FS_Subset
<1>9. Cardinality(counted) = entry.count
  <2>1. (n - entry.count) + 1 \in Int /\ n \in Int  BY <1>3, <1>6
  <2>2. Cardinality(counted) = IF (n - entry.count) + 1 > n THEN 0
                               ELSE n - ((n - entry.count) + 1) + 1
    BY <2>1, FS_Interval
  <2> QED BY <1>3, <1>6, <2>2
<1>10. Cardinality(counted) <= Cardinality(recent) /\ Cardinality(recent) \in Nat
  <2> HIDE DEF recent, counted
  <2> QED BY <1>7, <1>8, FS_Subset, FS_CardinalityType
<1>11. Cardinality(recent) >= limit
  <2> HIDE DEF recent, counted
  <2> QED BY <1>6, <1>9, <1>10
<1> QED BY <1>6, <1>11 DEF UsedUp, calls

\* A caller is refused for its rate only by as many calls of the last minute or
\* hour as its rule allows: its own to the same tool and, where the key does not
\* tell them apart, those of callers and tools whose names join to the same text
\* (checkRateLimit, filterTools).
THEOREM RefusalsAreEarned == Spec => []RefusalsEarned
<1>1. ASSUME RateInv PROVE RefusalsEarned
  <2>1. TypeOK /\ TalliesMatch  BY <1>1 DEF RateInv
  <2>2. SUFFICES ASSUME NEW p \in Callers, NEW t \in Tools \ filterTools(p), Allowed(p, t)
                 PROVE  \/ UsedUp(p, t, Limit(p, t).maxPerMinute, Minute)
                        \/ UsedUp(p, t, Limit(p, t).maxPerHour, Hour)
    BY DEF RefusalsEarned
  <2>3. \/ Full(minuteCounts[Key(p, t)], Limit(p, t).maxPerMinute)
        \/ Full(hourCounts[Key(p, t)], Limit(p, t).maxPerHour)
    BY <2>2 DEF filterTools, RateLimited, checkRateLimit
  <2>4. /\ Tally(Times(admitted[Key(p, t)]), minuteCounts[Key(p, t)], Minute)
        /\ Tally(Times(admitted[Key(p, t)]), hourCounts[Key(p, t)], Hour)
    BY <2>1, KeyInKeys DEF TalliesMatch
  <2>5. /\ Minute \in Nat /\ Hour \in Nat
        /\ minuteCounts[Key(p, t)] \in Window /\ hourCounts[Key(p, t)] \in Window
    BY <2>1, KeyInKeys, ConstantsAssumption DEF TypeOK
  <2>6. Limit(p, t).maxPerMinute \in Limits /\ Limit(p, t).maxPerHour \in Limits
    BY <2>1, LimitOfCall DEF TypeOK
  <2> QED BY <2>1, <2>3, <2>4, <2>5, <2>6, FullIsUsedUp
<1> QED BY <1>1, InitRateInv, NextRateInv, PTL DEF Spec

-----------------------------------------------------------------------------
(* The stars of a pattern, and the parts between them                      *)


\* The stars of a pattern are places of it.
LEMMA StarsArePlaces ==
    ASSUME NEW S, NEW pattern \in Seq(S)
    PROVE  /\ Len(pattern) \in Nat /\ Stars(pattern) \in SUBSET (1 .. Len(pattern))
           /\ IsFiniteSet(Stars(pattern)) /\ Cardinality(Stars(pattern)) \in Nat
           /\ Stars(pattern) # {} => Cardinality(Stars(pattern)) >= 1
<1>1. Len(pattern) \in Nat /\ DOMAIN pattern = 1 .. Len(pattern)  BY LenProperties
<1>2. Stars(pattern) \in SUBSET (1 .. Len(pattern))  BY <1>1 DEF Stars
<1>3. IsFiniteSet(Stars(pattern)) /\ Cardinality(Stars(pattern)) \in Nat
  BY <1>1, <1>2, PlacesFinite
<1>4. Stars(pattern) # {} => Cardinality(Stars(pattern)) >= 1
  <2>1. Stars(pattern) # {} => Cardinality(Stars(pattern)) # 0  BY <1>3, FS_EmptySet
  <2> QED BY <1>3, <2>1
<1> QED BY <1>1, <1>2, <1>3, <1>4

\* The cuts of a pattern: its stars in their order, between its two ends.
CutsAreStars(pattern, c, n) ==
    /\ Cut(pattern, 0) = 0 /\ Cut(pattern, c + 1) = n + 1
    /\ \A k \in 1 .. c : Cut(pattern, k) \in 1 .. n /\ pattern[Cut(pattern, k)] = Star
    /\ \A k \in 1 .. c + 1 : Cut(pattern, k - 1) < Cut(pattern, k)
    /\ \A k \in 0 .. c + 1 : Cut(pattern, k) \in 0 .. n + 1

\* They are that, for every pattern that has stars.
LEMMA CutOrder ==
    ASSUME NEW S, NEW pattern \in Seq(S), Stars(pattern) # {}
    PROVE  CutsAreStars(pattern, Cardinality(Stars(pattern)), Len(pattern))
<1> DEFINE stars == Stars(pattern)
           c == Cardinality(stars)
           n == Len(pattern)
           C(k) == Cut(pattern, k)
<1>1. /\ n \in Nat /\ stars \in SUBSET (1 .. n) /\ c \in Nat /\ c >= 1
      /\ \A i \in stars : pattern[i] = Star
  BY StarsArePlaces DEF Stars
<1>2. /\ C(0) = 0 /\ C(c + 1) = n + 1
      /\ \A k \in 1 .. c : C(k) = Nth(stars, k)
  <2>1. C(0) = 0  BY DEF Cut
  <2>2. c + 1 # 0 /\ c + 1 \notin 1 .. c  BY <1>1
  <2>3. C(c + 1) = n + 1
    <3> HIDE DEF c
    <3> QED BY <2>2 DEF Cut, c
  <2>4. \A k \in 1 .. c : k # 0  BY <1>1
  <2> QED BY <2>1, <2>3, <2>4 DEF Cut
<1> HIDE DEF C, n, stars
<1>3. \A k \in 1 .. c : C(k) \in stars  BY <1>1, <1>2, NthIsPlace
<1>4. ASSUME NEW k \in 1 .. c, NEW l \in 1 .. c, k < l PROVE C(k) < C(l)
  BY <1>1, <1>2, <1>4, NthInOrder
<1> HIDE DEF c
<1>5. \A k \in 1 .. c : C(k) \in 1 .. n  BY <1>1, <1>3
<1>6. ASSUME NEW k \in 1 .. c + 1 PROVE C(k - 1) < C(k)
  <2>1. CASE k = 1  BY <1>1, <1>2, <1>5, <2>1
  <2>2. CASE k # 1 /\ k # c + 1
    <3>1. k - 1 \in 1 .. c /\ k \in 1 .. c /\ k - 1 < k  BY <1>1, <2>2
    <3> QED BY <1>4, <3>1
  <2>3. CASE k # 1 /\ k = c + 1
    <3>1. k - 1 \in 1 .. c  BY <1>1, <2>3
    <3> QED BY <1>1, <1>2, <1>5, <2>3, <3>1
  <2> QED BY <2>1, <2>2, <2>3
<1>7. ASSUME NEW k \in 0 .. c + 1 PROVE C(k) \in 0 .. n + 1
  <2>1. k = 0 \/ k \in 1 .. c \/ k = c + 1  BY <1>1
  <2>2. CASE k = 0  BY <1>1, <1>2, <2>2
  <2>3. CASE k \in 1 .. c  BY <1>1, <1>5, <2>3
  <2>4. CASE k = c + 1  BY <1>1, <1>2, <2>4
  <2> QED BY <2>1, <2>2, <2>3, <2>4
<1> QED BY <1>1, <1>2, <1>3, <1>5, <1>6, <1>7 DEF CutsAreStars, C, c, n, stars

\* The last star up to a place of the pattern is the last cut before it.
LastStar(pattern, i) == Max({0} \cup {s \in Stars(pattern) : s <= i})

\* A place after the (k-1)-st cut and before the k-th.
Between(pattern, k, i) == Cut(pattern, k - 1) <= i /\ i < Cut(pattern, k)

\* The last star up to such a place is the (k-1)-st cut, and no other place there
\* is a star.
LEMMA LastStarIsCut ==
    ASSUME NEW S, NEW pattern \in Seq(S), Stars(pattern) # {},
           NEW k \in 1 .. Cardinality(Stars(pattern)) + 1,
           NEW i \in 0 .. Len(pattern), Between(pattern, k, i)
    PROVE  /\ LastStar(pattern, i) = Cut(pattern, k - 1)
           /\ i \in Stars(pattern) <=> k > 1 /\ i = Cut(pattern, k - 1)
<1> DEFINE stars == Stars(pattern)
           c == Cardinality(stars)
           n == Len(pattern)
           C(q) == Cut(pattern, q)
           upto == {0} \cup {s \in stars : s <= i}
<1>1. n \in Nat /\ stars \in SUBSET (1 .. n) /\ c \in Nat /\ c >= 1  BY StarsArePlaces
<1>2. /\ C(0) = 0 /\ C(c + 1) = n + 1
      /\ \A q \in 0 .. c + 1 : C(q) \in 0 .. n + 1
      /\ \A q \in 1 .. c : C(q) \in stars
  <2>1. CutsAreStars(pattern, c, n)  BY CutOrder
  <2>2. DOMAIN pattern = 1 .. n  BY LenProperties
  <2>3. \A q \in 1 .. c : C(q) \in stars  BY <2>1, <2>2 DEF CutsAreStars, Stars
  <2> QED BY <2>1, <2>3 DEF CutsAreStars
<1>3. \A q \in 1 .. c : C(q) = Nth(stars, q)
  <2>1. \A q \in 1 .. c : q # 0  BY <1>1
  <2> QED BY <2>1 DEF Cut
<1>4. C(k - 1) <= i /\ i < C(k)  BY DEF Between
<1>5. k - 1 \in 0 .. c + 1 /\ k \in 0 .. c + 1  BY <1>1
\* A star before the k-th cut is not after the one before that.
<1>6. ASSUME NEW s \in stars, s < C(k) PROVE s <= C(k - 1) /\ k > 1
  <2>1. PICK q \in 1 .. c : C(q) = s
    <3> HIDE DEF C, c
    <3>1. \E q \in 1 .. c : Nth(stars, q) = s  BY <1>1, PlaceIsNth DEF c
    <3> QED BY <1>3, <3>1
  <2>2. q < k
    <3>1. SUFFICES ASSUME k <= q PROVE FALSE  BY <1>1
    <3>2. k \in 1 .. c  BY <1>1, <3>1
    <3>3. CASE k = q  BY <1>1, <1>6, <2>1, <3>3
    <3>4. CASE k < q
      <4>1. Nth(stars, k) < Nth(stars, q)  BY <1>1, <3>2, <3>4, NthInOrder
      <4>2. C(k) < s  BY <1>3, <2>1, <3>2, <4>1
      <4> HIDE DEF C
      <4> QED BY <1>1, <1>2, <1>5, <1>6, <4>2
    <3> QED BY <1>1, <3>1, <3>3, <3>4
  <2>3. k > 1 /\ k - 1 \in 1 .. c  BY <1>1, <2>2
  <2>4. CASE q = k - 1  BY <1>1, <2>1, <2>3, <2>4
  <2>5. CASE q < k - 1
    <3>1. Nth(stars, q) < Nth(stars, k - 1)  BY <1>1, <2>3, <2>5, NthInOrder
    <3>2. s < C(k - 1)  BY <1>3, <2>1, <2>3, <3>1
    <3> HIDE DEF C
    <3> QED BY <1>1, <1>2, <1>5, <2>3, <3>2
  <2> QED BY <1>1, <2>2, <2>3, <2>4, <2>5
<1>7. C(k - 1) \in upto
  <2>1. CASE k = 1  BY <1>2, <2>1
  <2>2. CASE k > 1
    <3>1. k - 1 \in 1 .. c  BY <1>1, <2>2
    <3> HIDE DEF C
    <3> QED BY <1>2, <1>4, <3>1
  <2> QED BY <1>1, <2>1, <2>2
<1>8. \A s \in upto : s <= C(k - 1)
  <2> HIDE DEF C
  <2>1. C(k - 1) \in Int /\ C(k) \in Int /\ 0 <= C(k - 1)  BY <1>1, <1>2, <1>5
  <2>2. ASSUME NEW s \in stars, s <= i PROVE s <= C(k - 1)
    <3>1. s \in Int  BY <1>1
    <3>2. s < C(k)  BY <1>4, <2>1, <2>2, <3>1
    <3> QED BY <1>6, <3>2
  <2> QED BY <2>1, <2>2
<1>9. Max(upto) = C(k - 1)
  <2>1. upto \in SUBSET (0 .. n)  BY <1>1
  <2>2. IsFiniteSet(upto)
    <3>1. IsFiniteSet(0 .. n)  BY <1>1, FS_Interval
    <3> HIDE DEF upto
    <3> QED BY <2>1, <3>1, FS_Subset
  <2> HIDE DEF upto, C
  <2>3. upto \in SUBSET Int /\ upto # {}  BY <1>1, <1>7, <2>1
  <2>4. Max(upto) \in upto /\ \A x \in upto : Max(upto) >= x  BY <2>2, <2>3, MaxIsGreatest
  <2>5. Max(upto) >= C(k - 1) /\ Max(upto) <= C(k - 1)  BY <1>7, <1>8, <2>4
  <2>6. Max(upto) \in Int /\ C(k - 1) \in Int  BY <1>7, <2>3, <2>4
  <2> QED BY <2>5, <2>6
<1>10. i \in stars <=> k > 1 /\ i = C(k - 1)
  <2>1. ASSUME i \in stars PROVE k > 1 /\ i = C(k - 1)
    <3> HIDE DEF C
    <3>1. i < C(k)  BY <1>4
    <3>2. i <= C(k - 1) /\ k > 1  BY <1>6, <2>1, <3>1
    <3>3. C(k - 1) \in Int  BY <1>1, <1>2, <1>5
    <3> QED BY <1>4, <3>2, <3>3
  <2>2. ASSUME k > 1, i = C(k - 1) PROVE i \in stars
    <3>1. k - 1 \in 1 .. c  BY <1>1, <2>2
    <3> QED BY <1>2, <2>2, <3>1
  <2> QED BY <2>1, <2>2
<1> QED BY <1>9, <1>10 DEF LastStar

\* Every place of a pattern is between two cuts.
LEMMA PlaceIsBetween ==
    ASSUME NEW S, NEW pattern \in Seq(S), Stars(pattern) # {}, NEW i \in 0 .. Len(pattern)
    PROVE  \E k \in 1 .. Cardinality(Stars(pattern)) + 1 : Between(pattern, k, i)
<1> DEFINE c == Cardinality(Stars(pattern))
           n == Len(pattern)
           C(q) == Cut(pattern, q)
           after == {q \in 1 .. c + 1 : i < C(q)}
<1>1. n \in Nat /\ c \in Nat /\ c >= 1  BY StarsArePlaces
<1>2. /\ C(0) = 0 /\ C(c + 1) = n + 1
      /\ \A q \in 0 .. c + 1 : C(q) \in 0 .. n + 1
  BY CutOrder DEF CutsAreStars
<1> HIDE DEF C, c, n
<1>3. PICK k \in after : \A q \in after : k <= q
  <2>1. c + 1 \in after  BY <1>1, <1>2 DEF n
  <2>2. after \in SUBSET Int /\ IsFiniteSet(after)
    <3>1. IsFiniteSet(1 .. c + 1)  BY <1>1, FS_Interval
    <3>2. after \subseteq 1 .. c + 1 /\ after \subseteq Int  BY <1>1
    <3> HIDE DEF after
    <3> QED BY <3>1, <3>2, FS_Subset
  <2> HIDE DEF after
  <2> QED BY <2>1, <2>2, LeastExists
<1>4. C(k - 1) <= i
  <2>1. k - 1 \in 0 .. c + 1 /\ k \in 1 .. c + 1  BY <1>1, <1>3
  <2>2. CASE k = 1  BY <1>2, <2>2
  <2>3. CASE k > 1
    <3>1. k - 1 \in 1 .. c + 1 /\ ~(k <= k - 1)  BY <1>1, <2>1, <2>3
    <3>2. ~(i < C(k - 1))  BY <1>3, <3>1
    <3> QED BY <1>1, <1>2, <2>1, <3>2
  <2> QED BY <2>1, <2>2, <2>3
<1> QED BY <1>3, <1>4 DEF Between, C, c

\* A stretch of a text, by its characters.
LEMMA Stretch ==
    ASSUME NEW S, NEW text \in Seq(S), NEW k \in Nat, NEW l \in Nat, k + l <= Len(text)
    PROVE  /\ SubSeq(text, k + 1, k + l) \in Seq(S)
           /\ Len(SubSeq(text, k + 1, k + l)) = l
           /\ \A j \in 1 .. l : SubSeq(text, k + 1, k + l)[j] = text[k + j]
<1> DEFINE stretch == SubSeq(text, k + 1, k + l)
<1>1. PICK m \in Nat : m = Len(text)  BY LenProperties
<1>2. \A i \in k + 1 .. k + l : text[i] \in S
  <2>1. \A i \in k + 1 .. k + l : i \in 1 .. m  BY <1>1
  <2> QED BY <1>1, <2>1, ElementOfSeq
<1>3. /\ stretch \in Seq(S)
      /\ Len(stretch) = IF k + 1 <= k + l THEN (k + l) - (k + 1) + 1 ELSE 0
      /\ \A j \in 1 .. (k + l) - (k + 1) + 1 : stretch[j] = text[(k + 1) + j - 1]
  BY <1>2, SubSeqProperties
<1>4. /\ (k + l) - (k + 1) + 1 = l /\ (~(k + 1 <= k + l) => l = 0)
      /\ \A j \in Int : (k + 1) + j - 1 = k + j
  OBVIOUS
<1> HIDE DEF stretch
<1>5. Len(stretch) = l  BY <1>3, <1>4
<1>6. ASSUME NEW j \in 1 .. l PROVE stretch[j] = text[k + j]
  <2>1. j \in 1 .. (k + l) - (k + 1) + 1  BY <1>4
  <2>2. stretch[j] = text[(k + 1) + j - 1]  BY <1>3, <2>1
  <2>3. (k + 1) + j - 1 = k + j  OBVIOUS
  <2> QED BY <2>2, <2>3
<1> QED BY <1>3, <1>5, <1>6 DEF stretch

\* The n-th part is what the pattern has between its n-1st and its n-th cut.
LEMMA PartsAreBetween ==
    ASSUME NEW S, NEW pattern \in Seq(S), Stars(pattern) # {},
           NEW k \in 1 .. Cardinality(Stars(pattern)) + 1
    PROVE  /\ Len(Parts(pattern)) = Cardinality(Stars(pattern)) + 1
           /\ Parts(pattern)[k] \in Seq(S)
           /\ Len(Parts(pattern)[k]) = Cut(pattern, k) - Cut(pattern, k - 1) - 1
           /\ \A j \in 1 .. Len(Parts(pattern)[k]) :
                 Parts(pattern)[k][j] = pattern[Cut(pattern, k - 1) + j]
<1> DEFINE c == Cardinality(Stars(pattern))
           n == Len(pattern)
           a == Cut(pattern, k - 1)
           b == Cut(pattern, k)
<1>1. n \in Nat /\ c \in Nat  BY StarsArePlaces
<1>2. a \in 0 .. n + 1 /\ b \in 0 .. n + 1 /\ a < b
  <2>1. CutsAreStars(pattern, c, n)  BY CutOrder
  <2>2. k - 1 \in 0 .. c + 1 /\ k \in 0 .. c + 1  BY <1>1
  <2> QED BY <2>1, <2>2 DEF CutsAreStars
<1>3. Len(Parts(pattern)) = c + 1
  <2> HIDE DEF c
  <2> QED BY <1>1 DEF Parts, c
<1>4. Parts(pattern)[k] = SubSeq(pattern, a + 1, b - 1)  BY DEF Parts
<1> HIDE DEF a, b
<1>5. PICK d \in Nat : d = b - a - 1  BY <1>1, <1>2
<1>6. b - 1 = a + d /\ a \in Nat /\ a + d <= n  BY <1>1, <1>2, <1>5
<1> HIDE DEF n
<1>7. /\ SubSeq(pattern, a + 1, a + d) \in Seq(S)
      /\ Len(SubSeq(pattern, a + 1, a + d)) = d
      /\ \A j \in 1 .. d : SubSeq(pattern, a + 1, a + d)[j] = pattern[a + j]
  BY <1>6, Stretch DEF n
<1> QED BY <1>3, <1>4, <1>5, <1>6, <1>7 DEF a, b

-----------------------------------------------------------------------------
(* Where a part may be                                                     *)

\* The part is there in the value.
Fits(part, value, start) ==
    /\ start \in Nat /\ start + Len(part) <= Len(value)
    /\ \A j \in 1 .. Len(part) : value[start + j] = part[j]

\* It is what indexOf() and endsWith() compare.
LEMMA StretchIsPart ==
    ASSUME NEW S, NEW part \in Seq(S), NEW value \in Seq(S), NEW k \in Nat,
           k + Len(part) <= Len(value)
    PROVE  SubSeq(value, k + 1, k + Len(part)) = part <=> Fits(part, value, k)
<1> DEFINE l == Len(part)
           stretch == SubSeq(value, k + 1, k + l)
<1>1. PICK p \in Nat : p = Len(part)  BY LenProperties
<1>2. PICK m \in Nat : m = Len(value)  BY LenProperties
<1>3. /\ stretch \in Seq(S) /\ Len(stretch) = l
      /\ \A j \in 1 .. l : stretch[j] = value[k + j]
  <2>1. l \in Nat /\ k + l <= Len(value)  BY <1>1
  <2> HIDE DEF l
  <2> QED BY <2>1, Stretch
<1> HIDE DEF stretch
<1>4. ASSUME \A j \in 1 .. l : value[k + j] = part[j] PROVE stretch = part
  <2>1. \A j \in 1 .. Len(stretch) : stretch[j] = part[j]  BY <1>3, <1>4
  <2> QED BY <1>3, <2>1, SeqEqual
<1>5. stretch = part => \A j \in 1 .. l : value[k + j] = part[j]  BY <1>3
<1> QED BY <1>4, <1>5 DEF Fits, stretch

\* What one turn of the loop of globMatch does to pos, in terms of where the
\* part fits: it goes on when the part fits somewhere, and no further than
\* behind the first such place.
Turn(part, i, last, value, pos, next) ==
    LET behind == Len(part) IN
    /\ next \in (0 .. Len(value)) \cup {NoMatch}
    /\ next # NoMatch => \E start \in pos .. Len(value) :
          /\ Fits(part, value, start) /\ (i = 1 => start = 0)
          /\ i = last => start + behind = Len(value)
          /\ i # last => next = start + behind
    /\ \A start \in pos .. Len(value) :
          /\ Fits(part, value, start) /\ (i = 1 => start = 0)
          /\ i = last => start + behind = Len(value)
          => next # NoMatch /\ (i # last => next <= start + behind)

\* Advance, the body of the loop, does that.
LEMMA AdvanceTurns ==
    ASSUME NEW S, NEW value \in Seq(S), NEW parts, Len(parts) \in Nat, Len(parts) > 1,
           NEW i \in 1 .. Len(parts), parts[i] \in Seq(S),
           NEW pos \in 0 .. Len(value), i = 1 => pos = 0
    PROVE  Turn(parts[i], i, Len(parts), value, pos, Advance(parts, i, value, pos))
<1> DEFINE part == parts[i]
           last == Len(parts)
           next == Advance(parts, i, value, pos)
           places == Occurrences(part, value, pos)
<1>1. PICK l \in Nat : l = Len(part)  BY LenProperties
<1>2. PICK m \in Nat : m = Len(value)  BY LenProperties
<1>3. /\ pos # NoMatch /\ NoMatch = -1 /\ pos \in 0 .. m
      /\ last \in Nat /\ last > 1
  BY <1>2 DEF NoMatch
<1>4. \A k : k \in places <=> k \in pos .. m /\ Fits(part, value, k)
  <2>1. ASSUME NEW k, k \in pos .. m - l
        PROVE  SubSeq(value, k + 1, k + l) = part <=> Fits(part, value, k)
    <3>1. k \in Nat /\ k + l <= m  BY <1>1, <1>2, <1>3, <2>1
    <3> QED BY <1>1, <1>2, <3>1, StretchIsPart
  <2>2. ASSUME NEW k, k \in pos .. m, Fits(part, value, k) PROVE k \in pos .. m - l
    BY <1>1, <1>2, <1>3, <2>2 DEF Fits
  <2>3. \A k \in pos .. m - l : k \in pos .. m  BY <1>1, <1>2, <1>3
  <2> HIDE DEF part
  <2> QED BY <1>1, <1>2, <2>1, <2>2, <2>3 DEF Occurrences
<1>5. ASSUME part = <<>> PROVE Turn(part, i, last, value, pos, next)
  <2>1. next = pos  BY <1>5 DEF Advance
  <2>2. l = 0  BY <1>1, <1>5
  <2>3. \A k \in pos .. m : Fits(part, value, k)  BY <1>1, <1>2, <1>3, <2>2 DEF Fits
  <2>4. \E start \in pos .. m :
          /\ Fits(part, value, start) /\ (i = 1 => start = 0)
          /\ i = last => start + l = m
          /\ i # last => pos = start + l
    <3>1. CASE i = last
      <4>1. m \in pos .. m /\ i # 1 /\ m + l = m  BY <1>2, <1>3, <2>2, <3>1
      <4> QED BY <2>3, <3>1, <4>1
    <3>2. CASE i # last
      <4>1. pos \in pos .. m /\ pos + l = pos  BY <1>2, <1>3, <2>2
      <4> QED BY <2>3, <3>2, <4>1
    <3> QED BY <3>1, <3>2
  <2>5. \A start \in pos .. m : pos <= start + l  BY <1>2, <1>3, <2>2
  <2> HIDE DEF next, part, last
  <2> QED BY <1>1, <1>2, <1>3, <2>1, <2>4, <2>5 DEF Turn
<1>6. ASSUME part # <<>>, i = 1 PROVE Turn(part, i, last, value, pos, next)
  <2>1. next = IF IsPrefix(part, value) THEN l ELSE NoMatch
    BY <1>1, <1>3, <1>6 DEF Advance
  <2>2. IsPrefix(part, value) <=> Fits(part, value, 0)
    <3>1. SubSeq(part, 1, l) = part
      <4>1. SubSeq(part, 0 + 1, 0 + l) = part <=> Fits(part, part, 0)
        BY <1>1, StretchIsPart
      <4>2. Fits(part, part, 0)  BY <1>1 DEF Fits
      <4> HIDE DEF part
      <4> QED BY <1>1, <4>1, <4>2
    <3>2. l <= m => (SubSeq(value, 1, l) = part <=> Fits(part, value, 0))
      <4>1. ASSUME l <= m PROVE SubSeq(value, 0 + 1, 0 + l) = part <=> Fits(part, value, 0)
        BY <1>1, <1>2, <4>1, StretchIsPart
      <4> HIDE DEF part
      <4> QED BY <1>1, <4>1
    <3>3. Fits(part, value, 0) => l <= m  BY <1>1, <1>2 DEF Fits
    <3> HIDE DEF part
    <3> QED BY <1>1, <1>2, <3>1, <3>2, <3>3 DEF IsPrefix
  <2>3. Fits(part, value, 0) => l \in 0 .. m /\ 0 \in pos .. m
    BY <1>1, <1>2, <1>3, <1>6 DEF Fits
  <2>4. i # last
    <3> HIDE DEF last
    <3> QED BY <1>3, <1>6
  <2>5. \A start \in pos .. m : start = 0 => l <= start + l  BY <1>1, <1>2, <1>3
  <2>6. l # NoMatch /\ 0 + l = l  BY <1>1, <1>3
  <2> HIDE DEF next, part, last
  <2> QED BY <1>1, <1>2, <1>3, <1>6, <2>1, <2>2, <2>3, <2>4, <2>5, <2>6 DEF Turn
<1>7. ASSUME part # <<>>, i # 1, i = last
      PROVE Turn(part, i, last, value, pos, next)
  <2>1. next = IF FitsAtEnd(part, value, pos) THEN pos ELSE NoMatch
    <3>1. i > 1  BY <1>7
    <3> QED BY <1>3, <1>7, <3>1 DEF Advance
  <2>2. FitsAtEnd(part, value, pos) <=> m - l \in pos .. m /\ Fits(part, value, m - l)
    BY <1>1, <1>2, <1>4 DEF FitsAtEnd
  <2>3. \A start \in pos .. m : start + l = m <=> start = m - l  BY <1>1, <1>2, <1>3
  <2> HIDE DEF next, part, last
  <2> QED BY <1>1, <1>2, <1>3, <1>7, <2>1, <2>2, <2>3 DEF Turn
<1>8. ASSUME part # <<>>, i # 1, i # last
      PROVE Turn(part, i, last, value, pos, next)
  <2>1. next = IF places = {} THEN NoMatch ELSE Min(places) + l
    <3>1. ~(pos = NoMatch \/ part = <<>>) /\ ~(part # <<>> /\ i = 1)
          /\ ~(part # <<>> /\ i > 1 /\ i = last)
      BY <1>3, <1>8
    <3> QED BY <1>1, <3>1 DEF Advance
  <2>2. places # {} => Min(places) \in places /\ \A k \in places : Min(places) <= k
    <3>1. places \in SUBSET (pos .. m)  BY <1>4
    <3>2. IsFiniteSet(pos .. m) /\ \A k \in pos .. m : k \in Int  BY <1>2, <1>3, FS_Interval
    <3> HIDE DEF places
    <3>3. IsFiniteSet(places) /\ places \in SUBSET Int  BY <3>1, <3>2, FS_Subset
    <3> QED BY <3>3, MinIsLeast
  <2>3. ASSUME NEW k \in places PROVE k \in pos .. m /\ k + l \in 0 .. m /\ k + l # NoMatch
    BY <1>1, <1>2, <1>3, <1>4 DEF Fits
  <2>4. \A k \in places, j \in places : j <= k => j + l <= k + l  BY <1>1, <1>2, <1>3, <2>3
  <2>5. \A k : k \in places => k \in pos .. m /\ Fits(part, value, k)  BY <1>4
  <2>6. \A k \in pos .. m : Fits(part, value, k) => k \in places  BY <1>4
  <2> HIDE DEF next, part, last, places
  <2>7. CASE places = {}
    BY <1>1, <1>2, <1>3, <1>8, <2>1, <2>6, <2>7 DEF Turn
  <2>8. CASE places # {}
    <3>1. next = Min(places) + l /\ Min(places) \in places  BY <2>1, <2>2, <2>8
    <3> QED BY <1>1, <1>2, <1>3, <1>8, <2>2, <2>3, <2>4, <2>5, <2>6, <3>1 DEF Turn
  <2> QED BY <2>7, <2>8
<1> QED BY <1>5, <1>6, <1>7, <1>8

-----------------------------------------------------------------------------
(* The loop of globMatch                                                   *)

\* The values of pos in the loop.
IsRun(pos, parts, value) ==
    pos = [i \in 0 .. Len(parts) |-> IF i = 0 THEN 0 ELSE Advance(parts, i, value, pos[i - 1])]

\* The loop has such values.
LEMMA LoopRuns ==
    ASSUME NEW parts, Len(parts) \in Nat, NEW value
    PROVE  \E pos : IsRun(pos, parts, value)
<1> DEFINE Upto(m, pos) ==
              pos = [i \in 0 .. m |-> IF i = 0 THEN 0 ELSE Advance(parts, i, value, pos[i - 1])]
           bad == {m \in 0 .. Len(parts) : ~ \E pos : Upto(m, pos)}
<1>1. PICK last \in Nat : last = Len(parts)  OBVIOUS
<1>2. ASSUME bad # {} PROVE FALSE
  <2>1. bad \in SUBSET Int /\ IsFiniteSet(bad)
    <3>1. IsFiniteSet(0 .. last)  BY <1>1, FS_Interval
    <3>2. bad \subseteq 0 .. last /\ bad \subseteq Int  BY <1>1
    <3> HIDE DEF bad
    <3> QED BY <3>1, <3>2, FS_Subset
  <2>2. PICK m \in bad : \A l \in bad : m <= l
    <3> HIDE DEF bad
    <3> QED BY <1>2, <2>1, LeastExists
  <2>3. m \in 0 .. last /\ ~ \E pos : Upto(m, pos)  BY <1>1, <2>2
  <2>4. CASE m = 0
    <3>1. Upto(0, [i \in 0 .. 0 |-> 0])  OBVIOUS
    <3> HIDE DEF Upto
    <3> QED BY <2>3, <2>4, <3>1
  <2>5. CASE m # 0
    <3>1. m - 1 \in 0 .. last /\ ~(m <= m - 1)  BY <2>3, <2>5
    <3>2. PICK before : Upto(m - 1, before)  BY <1>1, <2>2, <3>1
    <3> DEFINE pos == [i \in 0 .. m |-> IF i = m THEN Advance(parts, m, value, before[m - 1])
                                        ELSE before[i]]
    <3>3. \A i \in 0 .. m - 1 : before[i] =
             IF i = 0 THEN 0 ELSE Advance(parts, i, value, before[i - 1])
      <4> HIDE DEF pos
      <4> QED BY <3>2
    <3>4. \A i \in 0 .. m - 1 : pos[i] = before[i]  BY <2>3
    <3>5. pos[m] = Advance(parts, m, value, before[m - 1])  BY <2>3
    <3>6. pos = [i \in 0 .. m |-> pos[i]]  OBVIOUS
    <3> HIDE DEF pos
    <3>7. ASSUME NEW i \in 0 .. m
          PROVE  pos[i] = IF i = 0 THEN 0 ELSE Advance(parts, i, value, pos[i - 1])
      <4>1. CASE i = m
        <5>1. m - 1 \in 0 .. m - 1  BY <2>3, <2>5
        <5> QED BY <2>5, <3>4, <3>5, <4>1, <5>1
      <4>2. CASE i # m /\ i # 0
        <5>1. i \in 0 .. m - 1 /\ i - 1 \in 0 .. m - 1  BY <2>3, <4>2
        <5> QED BY <3>3, <3>4, <4>2, <5>1
      <4>3. CASE i # m /\ i = 0
        <5>1. i \in 0 .. m - 1  BY <2>3, <4>3
        <5> QED BY <3>3, <3>4, <4>3, <5>1
      <4> QED BY <4>1, <4>2, <4>3
    <3>8. Upto(m, pos)  BY <3>6, <3>7
    <3> HIDE DEF Upto
    <3> QED BY <2>3, <3>8
  <2> QED BY <2>4, <2>5
<1>3. last \notin bad /\ last \in 0 .. Len(parts)
  <2> HIDE DEF bad
  <2> QED BY <1>1, <1>2
<1> QED BY <1>1, <1>3 DEF IsRun

\* globMatch() answers by the last of them.
LEMMA GlobMatchIsRun ==
    ASSUME NEW pattern, NEW value, Stars(pattern) # {}, Len(Parts(pattern)) \in Nat
    PROVE  \E pos : /\ IsRun(pos, Parts(pattern), value)
                    /\ globMatch(pattern, value) <=> pos[Len(Parts(pattern))] # NoMatch
<1> DEFINE run == CHOOSE pos : IsRun(pos, Parts(pattern), value)
<1>1. IsRun(run, Parts(pattern), value)  BY LoopRuns
<1>2. globMatch(pattern, value) <=> run[Len(Parts(pattern))] # NoMatch
  BY DEF globMatch, IsRun
<1> QED BY <1>1, <1>2

\* Until there is no match, each value of pos is the turn of a part.
LEMMA RunTurns ==
    ASSUME NEW S, NEW pattern \in Seq(S), NEW value \in Seq(S), Stars(pattern) # {},
           NEW pos, IsRun(pos, Parts(pattern), value)
    PROVE  LET last == Cardinality(Stars(pattern)) + 1 IN
           /\ pos[0] = 0 /\ \A i \in 0 .. last : pos[i] \in (0 .. Len(value)) \cup {NoMatch}
           /\ \A i \in 1 .. last :
                 /\ pos[i - 1] = NoMatch => pos[i] = NoMatch
                 /\ pos[i - 1] # NoMatch =>
                       Turn(Parts(pattern)[i], i, last, value, pos[i - 1], pos[i])
<1> DEFINE last == Cardinality(Stars(pattern)) + 1
           parts == Parts(pattern)
           Typed(p) == p \in (0 .. Len(value)) \cup {NoMatch}
           bad == {i \in 0 .. last : ~Typed(pos[i])}
<1>1. /\ last \in Nat /\ last > 1 /\ Len(parts) = last
      /\ \A i \in 1 .. last : parts[i] \in Seq(S)
  <2>1. last \in Nat /\ last > 1  BY StarsArePlaces
  <2>2. \A i \in 1 .. last : Len(parts) = last /\ parts[i] \in Seq(S)  BY PartsAreBetween
  <2>3. 1 \in 1 .. last  BY <2>1
  <2> HIDE DEF last, parts
  <2> QED BY <2>1, <2>2, <2>3
<1>2. PICK m \in Nat : m = Len(value)  BY LenProperties
<1> HIDE DEF last, parts
<1>3. pos[0] = 0 /\ \A i \in 1 .. last : pos[i] = Advance(parts, i, value, pos[i - 1])
  BY <1>1 DEF IsRun, parts
<1>4. ASSUME NEW i \in 1 .. last, pos[i - 1] = NoMatch PROVE pos[i] = NoMatch
  BY <1>3, <1>4 DEF Advance
<1>5. ASSUME NEW i \in 1 .. last, Typed(pos[i - 1]), pos[i - 1] # NoMatch
      PROVE  Turn(parts[i], i, last, value, pos[i - 1], pos[i])
  <2>1. pos[i - 1] \in 0 .. Len(value)  BY <1>5
  <2>2. i = 1 => pos[i - 1] = 0  BY <1>3
  <2>3. Turn(parts[i], i, last, value, pos[i - 1], Advance(parts, i, value, pos[i - 1]))
    BY <1>1, <2>1, <2>2, AdvanceTurns
  <2> QED BY <1>3, <2>3
<1>6. ASSUME bad # {} PROVE FALSE
  <2>1. bad \in SUBSET Int /\ IsFiniteSet(bad)
    <3>1. IsFiniteSet(0 .. last)  BY <1>1, FS_Interval
    <3>2. bad \subseteq 0 .. last /\ bad \subseteq Int  BY <1>1
    <3> HIDE DEF bad
    <3> QED BY <3>1, <3>2, FS_Subset
  <2>2. PICK i \in bad : \A l \in bad : i <= l
    <3> HIDE DEF bad
    <3> QED BY <1>6, <2>1, LeastExists
  <2>3. i \in 0 .. last /\ ~Typed(pos[i])  BY <2>2
  <2>4. Typed(pos[0])  BY <1>2, <1>3
  <2>5. i # 0  BY <2>3, <2>4
  <2>6. i \in 1 .. last /\ i - 1 \in 0 .. last /\ ~(i <= i - 1)  BY <1>1, <2>3, <2>5
  <2>7. Typed(pos[i - 1])
    <3> HIDE DEF Typed
    <3> QED BY <2>2, <2>6
  <2>8. pos[i - 1] = NoMatch => Typed(pos[i])  BY <1>4, <2>6
  <2>9. pos[i - 1] # NoMatch => Typed(pos[i])  BY <1>5, <2>6, <2>7 DEF Turn
  <2> QED BY <2>3, <2>8, <2>9
<1>7. \A i \in 0 .. last : Typed(pos[i])  BY <1>6
<1>8. ASSUME NEW i \in 1 .. last PROVE i - 1 \in 0 .. last  BY <1>1
<1> QED BY <1>3, <1>4, <1>5, <1>7, <1>8 DEF last, parts

-----------------------------------------------------------------------------
(* What both say: the parts can be laid out along the value                *)

\* The parts begin at these places, none before the one before it has ended,
\* the first at the start of the value, and the last ends where the value does.
LaidOut(parts, last, value, begin) ==
    /\ begin \in [1 .. last -> 0 .. Len(value)] /\ begin[1] = 0
    /\ \A k \in 1 .. last : Fits(parts[k], value, begin[k])
    /\ \A k \in 1 .. last - 1 : begin[k] + Len(parts[k]) <= begin[k + 1]
    /\ begin[last] + Len(parts[last]) = Len(value)

\* The loop reaches its end exactly when there is such a layout: it takes the
\* first place for each part, which leaves the most for those that follow.
LEMMA LoopFindsLayouts ==
    ASSUME NEW S, NEW pattern \in Seq(S), NEW value \in Seq(S), Stars(pattern) # {},
           NEW pos, IsRun(pos, Parts(pattern), value)
    PROVE  LET last == Cardinality(Stars(pattern)) + 1 IN
           pos[last] # NoMatch <=> \E begin : LaidOut(Parts(pattern), last, value, begin)
<1> DEFINE last == Cardinality(Stars(pattern)) + 1
           parts == Parts(pattern)
<1>1. /\ last \in Nat /\ last > 1
      /\ \A i \in 1 .. last : Len(parts[i]) \in Nat
  <2>1. last \in Nat /\ last > 1  BY StarsArePlaces
  <2>2. \A i \in 1 .. last : parts[i] \in Seq(S)  BY PartsAreBetween
  <2>3. \A t \in Seq(S) : Len(t) \in Nat  OBVIOUS
  <2> QED BY <2>1, <2>2, <2>3
<1>2. PICK m \in Nat : m = Len(value)  BY LenProperties
<1>3. /\ pos[0] = 0 /\ \A i \in 0 .. last : pos[i] \in (0 .. m) \cup {NoMatch}
      /\ \A i \in 1 .. last :
            /\ pos[i - 1] = NoMatch => pos[i] = NoMatch
            /\ pos[i - 1] # NoMatch => Turn(parts[i], i, last, value, pos[i - 1], pos[i])
  BY <1>2, RunTurns
<1> HIDE DEF last, parts
<1>4. ASSUME pos[last] # NoMatch
      PROVE  \E begin : LaidOut(parts, last, value, begin)
  <2> DEFINE dead == {i \in 0 .. last : pos[i] = NoMatch}
             At(i, start) == /\ Fits(parts[i], value, start) /\ (i = 1 => start = 0)
                             /\ i = last => start + Len(parts[i]) = m
                             /\ i # last => pos[i] = start + Len(parts[i])
             place(i) == CHOOSE start \in pos[i - 1] .. m : At(i, start)
             begin == [i \in 1 .. last |-> place(i)]
  <2>1. ASSUME dead # {} PROVE FALSE
    <3>1. dead \in SUBSET Int /\ IsFiniteSet(dead)
      <4>1. IsFiniteSet(0 .. last)  BY <1>1, FS_Interval
      <4>2. dead \subseteq 0 .. last /\ dead \subseteq Int  BY <1>1
      <4> HIDE DEF dead
      <4> QED BY <4>1, <4>2, FS_Subset
    <3>2. PICK g \in dead : \A l \in dead : g >= l
      <4> HIDE DEF dead
      <4> QED BY <2>1, <3>1, GreatestExists
    <3>3. g \in 0 .. last /\ pos[g] = NoMatch  BY <3>2
    <3>4. g # last  BY <1>4, <3>3
    <3>5. g + 1 \in 1 .. last /\ g + 1 \in 0 .. last /\ (g + 1) - 1 = g /\ ~(g >= g + 1)
      BY <1>1, <3>3, <3>4
    <3>6. pos[g + 1] = NoMatch  BY <1>3, <3>3, <3>5
    <3>7. g + 1 \in dead  BY <3>5, <3>6
    <3> HIDE DEF dead
    <3> QED BY <3>2, <3>5, <3>7
  <2>2. ASSUME NEW i \in 0 .. last PROVE pos[i] \in 0 .. m /\ pos[i] # NoMatch
    BY <1>3, <2>1
  <2>3. ASSUME NEW i \in 1 .. last PROVE begin[i] \in pos[i - 1] .. m /\ At(i, begin[i])
    <3>1. i - 1 \in 0 .. last /\ i \in 0 .. last  BY <1>1
    <3>2. Turn(parts[i], i, last, value, pos[i - 1], pos[i])  BY <1>3, <2>2, <3>1
    <3>3. \E start \in pos[i - 1] .. m : At(i, start)  BY <1>2, <2>2, <3>1, <3>2 DEF Turn
    <3>4. place(i) \in pos[i - 1] .. m /\ At(i, place(i))
      <4> HIDE DEF At
      <4> QED BY <3>3
    <3> HIDE DEF place, At
    <3> QED BY <3>4
  <2> HIDE DEF place
  <2>4. begin = [i \in 1 .. last |-> begin[i]]  OBVIOUS
  <2> HIDE DEF begin
  <2>5. ASSUME NEW i \in 1 .. last PROVE begin[i] \in 0 .. m /\ Fits(parts[i], value, begin[i])
    <3>1. i - 1 \in 0 .. last  BY <1>1
    <3> QED BY <1>2, <2>2, <2>3, <3>1
  <2>6. begin \in [1 .. last -> 0 .. m]  BY <2>4, <2>5
  <2>7. begin[1] = 0 /\ begin[last] + Len(parts[last]) = m
    <3>1. 1 \in 1 .. last /\ last \in 1 .. last  BY <1>1
    <3> QED BY <2>3, <3>1
  <2>8. ASSUME NEW k \in 1 .. last - 1 PROVE begin[k] + Len(parts[k]) <= begin[k + 1]
    <3>1. k \in 1 .. last /\ k # last /\ k + 1 \in 1 .. last /\ (k + 1) - 1 = k /\ k \in 0 .. last
      BY <1>1
    <3>2. pos[k] = begin[k] + Len(parts[k])  BY <2>3, <3>1
    <3>3. begin[k + 1] \in pos[k] .. m  BY <2>3, <3>1
    <3> QED BY <1>2, <2>2, <3>1, <3>2, <3>3
  <2> QED BY <1>2, <2>5, <2>6, <2>7, <2>8 DEF LaidOut
<1>5. ASSUME NEW begin, LaidOut(parts, last, value, begin) PROVE pos[last] # NoMatch
  <2> DEFINE Ahead(i) == /\ pos[i] # NoMatch
                         /\ i \in 1 .. last - 1 => pos[i] <= begin[i] + Len(parts[i])
             bad == {i \in 0 .. last : ~Ahead(i)}
  <2>1. ASSUME bad # {} PROVE FALSE
    <3>1. bad \in SUBSET Int /\ IsFiniteSet(bad)
      <4>1. IsFiniteSet(0 .. last)  BY <1>1, FS_Interval
      <4>2. bad \subseteq 0 .. last /\ bad \subseteq Int  BY <1>1
      <4> HIDE DEF bad
      <4> QED BY <4>1, <4>2, FS_Subset
    <3>2. PICK i \in bad : \A l \in bad : i <= l
      <4> HIDE DEF bad
      <4> QED BY <2>1, <3>1, LeastExists
    <3>3. i \in 0 .. last /\ ~Ahead(i)  BY <3>2
    <3>4. Ahead(0)  BY <1>1, <1>2, <1>3 DEF NoMatch
    <3>5. i # 0
      <4> HIDE DEF Ahead
      <4> QED BY <3>3, <3>4
    <3>6. i \in 1 .. last /\ i - 1 \in 0 .. last /\ ~(i <= i - 1)  BY <1>1, <3>3, <3>5
    <3>7. Ahead(i - 1)
      <4> HIDE DEF Ahead
      <4> QED BY <3>2, <3>6
    <3>8. pos[i - 1] \in 0 .. m /\ Turn(parts[i], i, last, value, pos[i - 1], pos[i])
      BY <1>3, <3>6, <3>7
    <3>9. begin[i] \in 0 .. m /\ Fits(parts[i], value, begin[i])
          /\ (i = 1 => begin[i] = 0) /\ (i = last => begin[i] + Len(parts[i]) = m)
      BY <1>2, <1>5, <3>6 DEF LaidOut
    <3>10. pos[i - 1] <= begin[i]
      <4>1. CASE i = 1
        BY <1>2, <1>3, <3>9, <4>1
      <4>2. CASE i # 1
        <5>1. i - 1 \in 1 .. last - 1 /\ (i - 1) + 1 = i /\ i - 1 \in 1 .. last
          BY <1>1, <3>6, <4>2
        <5>2. pos[i - 1] <= begin[i - 1] + Len(parts[i - 1])  BY <3>7, <5>1
        <5>3. begin[i - 1] + Len(parts[i - 1]) <= begin[i] /\ begin[i - 1] \in 0 .. m
          BY <1>2, <1>5, <5>1 DEF LaidOut
        <5> QED BY <1>1, <1>2, <3>8, <3>9, <5>1, <5>2, <5>3
      <4> QED BY <4>1, <4>2
    <3>11. begin[i] \in pos[i - 1] .. m  BY <1>2, <3>8, <3>9, <3>10
    <3>12. pos[i] # NoMatch /\ (i # last => pos[i] <= begin[i] + Len(parts[i]))
      BY <1>2, <3>8, <3>9, <3>11 DEF Turn
    <3>13. i \in 1 .. last - 1 => i # last  BY <1>1
    <3> QED BY <3>3, <3>12, <3>13
  <2>2. last \in 0 .. last  BY <1>1
  <2> QED BY <2>1, <2>2
<1> QED BY <1>4, <1>5 DEF last, parts

-----------------------------------------------------------------------------
(* What a glob means, by such layouts                                      *)

\* The functions inside Wildcard.
At(pattern, ends, i) ==
    LET star == LastStar(pattern, i) IN IF star = 0 THEN i ELSE ends[star] + (i - star)

StarsEndAt(pattern, value, ends) ==
    /\ At(pattern, ends, Len(pattern)) = Len(value)
    /\ \A i \in DOMAIN pattern :
          IF pattern[i] = Star THEN At(pattern, ends, i - 1) <= At(pattern, ends, i)
          ELSE At(pattern, ends, i) <= Len(value) /\ pattern[i] = value[At(pattern, ends, i)]

\* A star ends where the part after it begins.
Agree(pattern, last, ends, begin) ==
    begin[1] = 0 /\ \A k \in 2 .. last : ends[Cut(pattern, k - 1)] = begin[k]

\* Every place between two cuts is as far into its part as into the pattern.
AsFar(pattern, last, ends, begin) ==
    \A k \in 1 .. last, i \in 0 .. Len(pattern) :
        Between(pattern, k, i) =>
            At(pattern, ends, i) = begin[k] + (i - Cut(pattern, k - 1))

\* Between two cuts it is so.
LEMMA PlaceInPart ==
    ASSUME NEW S, NEW pattern \in Seq(S), Stars(pattern) # {}, NEW m \in Nat,
           NEW last, last = Cardinality(Stars(pattern)) + 1,
           NEW ends \in [Stars(pattern) -> 0 .. m], NEW begin \in [1 .. last -> 0 .. m],
           Agree(pattern, last, ends, begin)
    PROVE  AsFar(pattern, last, ends, begin)
<1> SUFFICES ASSUME NEW k \in 1 .. last, NEW i \in 0 .. Len(pattern), Between(pattern, k, i)
             PROVE  At(pattern, ends, i) = begin[k] + (i - Cut(pattern, k - 1))
  BY DEF AsFar
<1>1. last \in Nat /\ last > 1 /\ Len(pattern) \in Nat
  BY StarsArePlaces
<1>2. LastStar(pattern, i) = Cut(pattern, k - 1)  BY LastStarIsCut
<1>3. Cut(pattern, 0) = 0 /\ \A q \in 1 .. last - 1 : Cut(pattern, q) > 0
  <2>1. CutsAreStars(pattern, last - 1, Len(pattern))
    <3>1. last - 1 = Cardinality(Stars(pattern))  BY StarsArePlaces
    <3> QED BY <3>1, CutOrder
  <2> QED BY <1>1, <2>1 DEF CutsAreStars
<1>4. CASE k = 1
  BY <1>1, <1>2, <1>3, <1>4 DEF At, Agree
<1>5. CASE k # 1
  <2>1. k - 1 \in 1 .. last - 1 /\ k \in 2 .. last  BY <1>1, <1>5
  <2>2. Cut(pattern, k - 1) # 0  BY <1>3, <2>1
  <2>3. ends[Cut(pattern, k - 1)] = begin[k]  BY <2>1 DEF Agree
  <2> QED BY <1>2, <2>2, <2>3 DEF At
<1> QED BY <1>4, <1>5

\* The cuts, the parts and the places between, by their numbers.
Measured(pattern, n, last, k) ==
    LET a == Cut(pattern, k - 1)
        b == Cut(pattern, k)
        part == Parts(pattern)[k]
    IN  /\ a \in 0 .. n /\ b \in 1 .. n + 1 /\ a < b
        /\ Len(part) \in Nat /\ b = a + Len(part) + 1
        /\ k = 1 => a = 0
        /\ k = last => b = n + 1
        /\ k # last => b \in 1 .. n /\ pattern[b] = Star
        /\ \A j \in 1 .. Len(part) :
              /\ a + j \in 1 .. n /\ Between(pattern, k, a + j)
              /\ pattern[a + j] # Star /\ part[j] = pattern[a + j]

\* They are that, for every pattern that has stars.
LEMMA PartsAreMeasured ==
    ASSUME NEW S, NEW pattern \in Seq(S), Stars(pattern) # {}, NEW n, n = Len(pattern),
           NEW last, last = Cardinality(Stars(pattern)) + 1, NEW k \in 1 .. last
    PROVE  Measured(pattern, n, last, k)
<1> DEFINE a == Cut(pattern, k - 1)
           b == Cut(pattern, k)
           part == Parts(pattern)[k]
           c == Cardinality(Stars(pattern))
<1>1. last \in Nat /\ last > 1 /\ n \in Nat /\ c = last - 1 /\ DOMAIN pattern = 1 .. n
  BY StarsArePlaces, LenProperties
<1>2. CutsAreStars(pattern, c, n)  BY CutOrder
<1> HIDE DEF c
<1>3. k - 1 \in 0 .. c + 1 /\ k \in 0 .. c + 1 /\ k \in 1 .. c + 1  BY <1>1
<1>4. a \in 0 .. n + 1 /\ b \in 0 .. n + 1 /\ a < b
  BY <1>2, <1>3 DEF CutsAreStars
<1>5. (k = 1 => a = 0) /\ (k = last => b = n + 1)
  BY <1>1, <1>2 DEF CutsAreStars
<1>6. k # last => b \in 1 .. n /\ pattern[b] = Star
  <2>1. k # last => k \in 1 .. c  BY <1>1
  <2> QED BY <1>2, <2>1 DEF CutsAreStars
<1>7. part \in Seq(S) /\ Len(part) = b - a - 1 /\ \A j \in 1 .. Len(part) : part[j] = pattern[a + j]
  BY PartsAreBetween
<1> HIDE DEF a, b, part
<1>8. a \in 0 .. n /\ b \in 1 .. n + 1 /\ Len(part) \in Nat /\ b = a + Len(part) + 1
  BY <1>1, <1>4, <1>7
<1>9. ASSUME NEW j \in 1 .. Len(part)
      PROVE  a + j \in 1 .. n /\ Between(pattern, k, a + j) /\ pattern[a + j] # Star
  <2>1. a + j \in 1 .. n /\ a <= a + j /\ a + j < b /\ a + j # a  BY <1>1, <1>4, <1>8
  <2>2. Between(pattern, k, a + j)  BY <2>1 DEF Between, a, b
  <2>3. a + j \in 0 .. Len(pattern)  BY <1>1, <2>1
  <2>4. a + j \notin Stars(pattern)  BY <2>1, <2>2, <2>3, LastStarIsCut DEF a
  <2> QED BY <1>1, <2>1, <2>2, <2>4 DEF Stars
<1> QED BY <1>1, <1>4, <1>5, <1>6, <1>7, <1>8, <1>9 DEF Measured, a, b, part

\* Then the stars end where they may exactly when the parts are laid out.
LEMMA LayoutsEndStars ==
    ASSUME NEW S, NEW pattern \in Seq(S), NEW value \in Seq(S), Stars(pattern) # {},
           NEW last, last = Cardinality(Stars(pattern)) + 1,
           NEW ends \in [Stars(pattern) -> 0 .. Len(value)],
           NEW begin \in [1 .. last -> 0 .. Len(value)],
           Agree(pattern, last, ends, begin)
    PROVE  StarsEndAt(pattern, value, ends) <=> LaidOut(Parts(pattern), last, value, begin)
<1> DEFINE parts == Parts(pattern)
           at(i) == At(pattern, ends, i)
           C(k) == Cut(pattern, k)
<1>1. PICK m \in Nat : m = Len(value)  BY LenProperties
<1>2. PICK n \in Nat : n = Len(pattern) /\ DOMAIN pattern = 1 .. n  BY LenProperties
<1>3. last \in Nat /\ last > 1  BY StarsArePlaces
<1>4. ASSUME NEW k \in 1 .. last
      PROVE  /\ C(k - 1) \in 0 .. n /\ C(k) \in 1 .. n + 1 /\ C(k - 1) < C(k)
             /\ Len(parts[k]) \in Nat /\ C(k) = C(k - 1) + Len(parts[k]) + 1
             /\ k = 1 => C(k - 1) = 0
             /\ k = last => C(k) = n + 1
             /\ k # last => C(k) \in 1 .. n /\ pattern[C(k)] = Star
             /\ \A j \in 1 .. Len(parts[k]) :
                   /\ C(k - 1) + j \in 1 .. n /\ Between(pattern, k, C(k - 1) + j)
                   /\ pattern[C(k - 1) + j] # Star /\ parts[k][j] = pattern[C(k - 1) + j]
  <2>1. Measured(pattern, n, last, k)  BY <1>2, PartsAreMeasured
  <2> QED BY <2>1 DEF Measured
<1>5. ASSUME NEW k \in 1 .. last, NEW i \in 0 .. n, C(k - 1) <= i, i < C(k)
      PROVE  at(i) = begin[k] + (i - C(k - 1))
  <2>1. Between(pattern, k, i)  BY <1>5 DEF Between
  <2>2. i \in 0 .. Len(pattern)  BY <1>2
  <2>3. AsFar(pattern, last, ends, begin)
    <3> HIDE DEF at, C, parts
    <3>1. ends \in [Stars(pattern) -> 0 .. m] /\ begin \in [1 .. last -> 0 .. m]  BY <1>1
    <3> QED BY <1>1, <3>1, PlaceInPart
  <2> QED BY <2>1, <2>2, <2>3 DEF AsFar
<1>6. begin[1] = 0 /\ \A k \in 1 .. last : begin[k] \in 0 .. m  BY <1>1 DEF Agree
<1> HIDE DEF parts, at, C
\* The places of a part, its end, and the star before the next.
<1>7. ASSUME NEW k \in 1 .. last, NEW j \in 1 .. Len(parts[k])
      PROVE  at(C(k - 1) + j) = begin[k] + j /\ C(k - 1) + j \in 1 .. n
  <2> DEFINE a == C(k - 1)
             l == Len(parts[k])
  <2>0. a \in 0 .. n /\ l \in Nat /\ C(k) = a + l + 1 /\ a + j \in 1 .. n  BY <1>4
  <2> HIDE DEF a, l
  <2>1. a + j \in 1 .. n /\ a <= a + j /\ a + j < C(k)  BY <2>0 DEF l
  <2>2. a + j \in 0 .. n  BY <2>1
  <2>3. at(a + j) = begin[k] + ((a + j) - a)  BY <1>5, <2>1, <2>2 DEF a
  <2>4. (a + j) - a = j  BY <2>0
  <2> QED BY <2>1, <2>3, <2>4 DEF a
<1>8. ASSUME NEW k \in 1 .. last PROVE at(C(k) - 1) = begin[k] + Len(parts[k])
  <2>1. C(k) - 1 \in 0 .. n /\ C(k - 1) <= C(k) - 1 /\ C(k) - 1 < C(k)
        /\ (C(k) - 1) - C(k - 1) = Len(parts[k])
    <3> DEFINE a == C(k - 1)
               b == C(k)
               l == Len(parts[k])
    <3>1. a \in 0 .. n /\ b \in 1 .. n + 1 /\ l \in Nat /\ b = a + l + 1  BY <1>4
    <3> HIDE DEF a, b, l
    <3>2. b - 1 \in 0 .. n /\ a <= b - 1 /\ b - 1 < b /\ (b - 1) - a = l  BY <3>1
    <3> QED BY <3>2 DEF a, b, l
  <2> QED BY <1>5, <2>1
<1>9. ASSUME NEW k \in 1 .. last - 1 PROVE at(C(k)) = begin[k + 1] /\ C(k) \in 1 .. n
  <2>1. k \in 1 .. last /\ k # last /\ k + 1 \in 1 .. last /\ (k + 1) - 1 = k  BY <1>3
  <2>2. C(k) \in 1 .. n  BY <1>4, <2>1
  <2>3. C(k) < C(k + 1)
    <3>1. C((k + 1) - 1) < C(k + 1)  BY <1>4, <2>1
    <3> QED BY <2>1, <3>1
  <2>4. C(k) <= C(k) /\ C(k) - C(k) = 0 /\ C(k) \in 0 .. n  BY <1>2, <2>2
  <2>5. C((k + 1) - 1) <= C(k)  BY <2>1, <2>4
  <2>6. at(C(k)) = begin[k + 1] + (C(k) - C((k + 1) - 1))  BY <1>5, <2>1, <2>3, <2>4, <2>5
  <2>7. begin[k + 1] \in 0 .. m  BY <1>6, <2>1
  <2> QED BY <1>1, <2>1, <2>2, <2>4, <2>6, <2>7
<1>10. at(n) = begin[last] + Len(parts[last])
  <2>1. last \in 1 .. last  BY <1>3
  <2>2. C(last) - 1 = n  BY <1>2, <1>4, <2>1
  <2> QED BY <1>8, <2>1, <2>2
<1>11. ASSUME StarsEndAt(pattern, value, ends) PROVE LaidOut(parts, last, value, begin)
  <2>1. /\ at(n) = m
        /\ \A i \in 1 .. n : pattern[i] = Star => at(i - 1) <= at(i)
        /\ \A i \in 1 .. n : pattern[i] # Star => at(i) <= m /\ pattern[i] = value[at(i)]
    BY <1>1, <1>2, <1>11 DEF StarsEndAt, at
  <2>2. ASSUME NEW k \in 1 .. last PROVE Fits(parts[k], value, begin[k])
    <3>1. ASSUME NEW j \in 1 .. Len(parts[k])
          PROVE  begin[k] + j <= m /\ value[begin[k] + j] = parts[k][j]
      <4>1. at(C(k - 1) + j) = begin[k] + j /\ C(k - 1) + j \in 1 .. n  BY <1>7
      <4>2. pattern[C(k - 1) + j] # Star /\ parts[k][j] = pattern[C(k - 1) + j]  BY <1>4
      <4> QED BY <2>1, <4>1, <4>2
    <3>2. begin[k] \in 0 .. m /\ Len(parts[k]) \in Nat  BY <1>4, <1>6
    <3>3. begin[k] + Len(parts[k]) <= m
      <4>1. CASE Len(parts[k]) = 0  BY <1>1, <3>2, <4>1
      <4>2. CASE Len(parts[k]) # 0
        <5>1. Len(parts[k]) \in 1 .. Len(parts[k])  BY <3>2, <4>2
        <5> QED BY <3>1, <5>1
      <4> QED BY <4>1, <4>2
    <3> QED BY <1>1, <3>1, <3>2, <3>3 DEF Fits
  <2>3. ASSUME NEW k \in 1 .. last - 1 PROVE begin[k] + Len(parts[k]) <= begin[k + 1]
    <3>1. at(C(k)) = begin[k + 1] /\ C(k) \in 1 .. n  BY <1>9
    <3>2. k \in 1 .. last /\ k # last  BY <1>3
    <3>3. pattern[C(k)] = Star /\ at(C(k) - 1) = begin[k] + Len(parts[k])  BY <1>4, <1>8, <3>2
    <3> QED BY <2>1, <3>1, <3>3
  <2> QED BY <1>1, <1>6, <1>10, <2>1, <2>2, <2>3 DEF LaidOut
<1>12. ASSUME LaidOut(parts, last, value, begin) PROVE StarsEndAt(pattern, value, ends)
  <2>1. at(n) = m  BY <1>1, <1>10, <1>12 DEF LaidOut
  <2>2. ASSUME NEW i \in 1 .. n, pattern[i] = Star PROVE at(i - 1) <= at(i)
    <3>1. PICK k \in 1 .. last : Between(pattern, k, i)
      <4>1. i \in 0 .. Len(pattern)  BY <1>2
      <4> QED BY <4>1, PlaceIsBetween
    <3>2. k > 1 /\ i = C(k - 1)
      <4>1. i \in Stars(pattern) /\ i \in 0 .. Len(pattern)  BY <1>2, <2>2 DEF Stars
      <4> QED BY <3>1, <4>1, LastStarIsCut DEF C
    <3>3. k - 1 \in 1 .. last - 1 /\ (k - 1) + 1 = k /\ k - 1 \in 1 .. last  BY <1>3, <3>2
    <3>4. at(i) = begin[k]  BY <1>9, <3>2, <3>3
    <3>5. at(i - 1) = begin[k - 1] + Len(parts[k - 1])  BY <1>8, <3>2, <3>3
    <3>6. begin[k - 1] + Len(parts[k - 1]) <= begin[(k - 1) + 1]  BY <1>12, <3>3 DEF LaidOut
    <3> QED BY <3>3, <3>4, <3>5, <3>6
  <2>3. ASSUME NEW i \in 1 .. n, pattern[i] # Star
        PROVE  at(i) <= m /\ pattern[i] = value[at(i)]
    <3>1. PICK k \in 1 .. last : Between(pattern, k, i)
      <4>1. i \in 0 .. Len(pattern)  BY <1>2
      <4> QED BY <4>1, PlaceIsBetween
    <3>2. C(k - 1) <= i /\ i < C(k)  BY <3>1 DEF Between, C
    <3>3. i # C(k - 1)
      <4>1. i \notin Stars(pattern) /\ i \in 0 .. Len(pattern)  BY <1>2, <2>3 DEF Stars
      <4>2. ~(k > 1 /\ i = C(k - 1))  BY <3>1, <4>1, LastStarIsCut DEF C
      <4>3. CASE k = 1  BY <1>2, <1>4, <4>3
      <4>4. CASE k # 1  BY <1>3, <4>2, <4>4
      <4> QED BY <4>3, <4>4
    <3> DEFINE j == i - C(k - 1)
    <3>4. j \in 1 .. Len(parts[k]) /\ C(k - 1) + j = i
      <4> DEFINE a == C(k - 1)
                 b == C(k)
                 l == Len(parts[k])
      <4>1. a \in 0 .. n /\ b \in 1 .. n + 1 /\ l \in Nat /\ b = a + l + 1  BY <1>4
      <4>2. a <= i /\ i < b /\ i # a  BY <3>2, <3>3
      <4> HIDE DEF a, b, l
      <4>3. i - a \in 1 .. l /\ a + (i - a) = i  BY <4>1, <4>2
      <4> QED BY <4>3 DEF a, l
    <3> HIDE DEF j
    <3>5. at(i) = begin[k] + j  BY <1>7, <3>4
    <3>6. parts[k][j] = pattern[i]  BY <1>4, <3>4
    <3>7. value[begin[k] + j] = parts[k][j] /\ begin[k] + Len(parts[k]) <= m
      BY <1>1, <1>12, <3>4 DEF LaidOut, Fits
    <3>8. begin[k] \in 0 .. m /\ Len(parts[k]) \in Nat  BY <1>4, <1>6
    <3> QED BY <1>1, <3>4, <3>5, <3>6, <3>7, <3>8
  <2> QED BY <1>1, <1>2, <2>1, <2>2, <2>3 DEF StarsEndAt, at
<1> QED BY <1>11, <1>12 DEF parts

\* A pattern with stars stands for the values its parts can be laid out along.
LEMMA WildcardIsLayout ==
    ASSUME NEW S, NEW pattern \in Seq(S), NEW value \in Seq(S), Stars(pattern) # {}
    PROVE  LET last == Cardinality(Stars(pattern)) + 1 IN
           Wildcard(pattern, value) <=> \E begin : LaidOut(Parts(pattern), last, value, begin)
<1> DEFINE stars == Stars(pattern)
           c == Cardinality(stars)
           last == c + 1
           parts == Parts(pattern)
           C(k) == Cut(pattern, k)
<1>1. PICK m \in Nat : m = Len(value)  BY LenProperties
<1>2. PICK n \in Nat : n = Len(pattern)  BY LenProperties
<1>3. c \in Nat /\ last \in Nat /\ last > 1 /\ stars \in SUBSET (1 .. n)
  BY <1>2, StarsArePlaces
<1>4. \A k \in 2 .. last : C(k - 1) \in stars
  <2>1. CutsAreStars(pattern, c, n)  BY <1>2, CutOrder
  <2>2. DOMAIN pattern = 1 .. n  BY <1>2, LenProperties
  <2>3. \A k \in 2 .. last : k - 1 \in 1 .. c  BY <1>3
  <2> HIDE DEF c
  <2> QED BY <2>1, <2>2, <2>3 DEF CutsAreStars, Stars
<1>5. Wildcard(pattern, value) <=>
         \E ends \in [stars -> 0 .. m] : StarsEndAt(pattern, value, ends)
  BY <1>1 DEF Wildcard, StarsEndAt, At, LastStar
<1>6. ASSUME NEW ends \in [stars -> 0 .. m], StarsEndAt(pattern, value, ends)
      PROVE  \E begin : LaidOut(parts, last, value, begin)
  <2> DEFINE begin == [k \in 1 .. last |-> IF k = 1 THEN 0 ELSE ends[C(k - 1)]]
  <2>1. \A k \in 1 .. last : begin[k] = IF k = 1 THEN 0 ELSE ends[C(k - 1)]  OBVIOUS
  <2>2. begin \in [1 .. last -> 0 .. m]
    <3>1. \A k \in 1 .. last : k # 1 => k \in 2 .. last  BY <1>3
    <3> HIDE DEF C, last, stars
    <3>2. \A k \in 1 .. last : k # 1 => ends[C(k - 1)] \in 0 .. m  BY <1>4, <3>1
    <3>3. 0 \in 0 .. m  OBVIOUS
    <3> QED BY <3>2, <3>3
  <2> HIDE DEF begin
  <2>3. Agree(pattern, last, ends, begin)
    <3>1. 1 \in 1 .. last /\ \A k \in 2 .. last : k \in 1 .. last /\ k # 1  BY <1>3
    <3> HIDE DEF last
    <3> QED BY <2>1, <3>1 DEF Agree
  <2>4. LaidOut(parts, last, value, begin)
    <3> HIDE DEF parts
    <3> QED BY <1>1, <1>6, <2>2, <2>3, LayoutsEndStars DEF parts
  <2> QED BY <2>4
<1>7. ASSUME NEW begin, LaidOut(parts, last, value, begin)
      PROVE  \E ends \in [stars -> 0 .. m] : StarsEndAt(pattern, value, ends)
  <2> DEFINE rank(s) == Cardinality({j \in stars : j <= s}) + 1
             ends == [s \in stars |-> begin[rank(s)]]
  <2>1. ASSUME NEW s \in stars PROVE \E k \in 2 .. last : C(k - 1) = s /\ rank(s) = k
    <3> HIDE DEF stars
    <3>1. PICK k \in 1 .. c : Nth(stars, k) = s  BY <1>3, PlaceIsNth
    <3>2. Cardinality({j \in stars : j <= s}) = k  BY <1>3, <3>1, NthCounts
    <3>3. k + 1 \in 2 .. last /\ (k + 1) - 1 = k /\ k # 0  BY <1>3
    <3>4. C(k) = s  BY <3>1, <3>3 DEF Cut, stars
    <3> QED BY <3>2, <3>3, <3>4
  <2>2. ASSUME NEW k \in 2 .. last PROVE rank(C(k - 1)) = k
    <3> HIDE DEF stars
    <3>1. k - 1 \in 1 .. c /\ k - 1 # 0 /\ (k - 1) + 1 = k  BY <1>3
    <3>2. C(k - 1) = Nth(stars, k - 1)  BY <3>1 DEF Cut, stars
    <3>3. Cardinality({j \in stars : j <= Nth(stars, k - 1)}) = k - 1  BY <1>3, <3>1, NthCounts
    <3> QED BY <3>1, <3>2, <3>3
  <2>3. begin \in [1 .. last -> 0 .. m] /\ begin[1] = 0  BY <1>1, <1>7 DEF LaidOut
  <2>4. \A k \in 2 .. last : k \in 1 .. last  BY <1>3
  <2> HIDE DEF rank, last, C, stars
  <2>5. \A s \in stars : begin[rank(s)] \in 0 .. m  BY <2>1, <2>3, <2>4
  <2>6. ends \in [stars -> 0 .. m]  BY <2>5
  <2>7. \A k \in 2 .. last : ends[C(k - 1)] = begin[k]  BY <1>4, <2>2
  <2>8. Agree(pattern, last, ends, begin)  BY <2>3, <2>7 DEF Agree, C
  <2> HIDE DEF ends
  <2>9. StarsEndAt(pattern, value, ends)
    BY <1>1, <1>7, <2>3, <2>6, <2>8, LayoutsEndStars DEF last, stars
  <2> QED BY <2>6, <2>9
<1> QED BY <1>5, <1>6, <1>7

\* globMatch() answers what the stars of a pattern mean: for texts of any length,
\* over any characters, a value matches exactly when the stars can stand for some
\* of its characters and all others for themselves.
THEOREM GlobIsWildcard ==
    ASSUME NEW S, NEW pattern \in Seq(S), NEW value \in Seq(S)
    PROVE  globMatch(pattern, value) <=> Wildcard(pattern, value)
<1>1. PICK m \in Nat : m = Len(value)  BY LenProperties
<1>2. PICK n \in Nat : n = Len(pattern) /\ DOMAIN pattern = 1 .. n  BY LenProperties
<1>3. CASE Stars(pattern) # {}
  <2> DEFINE last == Cardinality(Stars(pattern)) + 1
  <2>1. Len(Parts(pattern)) = last /\ last \in Nat
    <3>1. last \in Nat /\ 1 \in 1 .. last  BY <1>3, StarsArePlaces
    <3> QED BY <1>3, <3>1, PartsAreBetween
  <2>2. PICK pos : /\ IsRun(pos, Parts(pattern), value)
                   /\ globMatch(pattern, value) <=> pos[last] # NoMatch
    <3> HIDE DEF last
    <3> QED BY <1>3, <2>1, GlobMatchIsRun
  <2> QED BY <1>3, <2>2, LoopFindsLayouts, WildcardIsLayout
<1>4. CASE Stars(pattern) = {}
  <2>1. globMatch(pattern, value) <=> pattern = value  BY <1>4 DEF globMatch
  <2>2. \A i : LastStar(pattern, i) = 0
    <3>1. \A i : {0} \cup {s \in Stars(pattern) : s <= i} = {0}  BY <1>4
    <3>2. Max({0}) = 0
      <4>1. IsFiniteSet({0})  BY FS_Singleton
      <4>2. {0} \in SUBSET Int /\ {0} # {}  OBVIOUS
      <4> QED BY <4>1, <4>2, MaxIsGreatest
    <3> QED BY <3>1, <3>2 DEF LastStar
  <2>3. \A ends, i : At(pattern, ends, i) = i  BY <2>2 DEF At
  <2>4. \A i \in 1 .. n : pattern[i] # Star  BY <1>2, <1>4 DEF Stars
  <2>5. \A ends : StarsEndAt(pattern, value, ends) <=>
                     n = m /\ \A i \in 1 .. n : i <= m /\ pattern[i] = value[i]
    BY <1>1, <1>2, <2>3, <2>4 DEF StarsEndAt
  <2>6. (n = m /\ \A i \in 1 .. n : i <= m /\ pattern[i] = value[i]) <=> pattern = value
    <3>1. ASSUME n = m, \A i \in 1 .. n : pattern[i] = value[i] PROVE pattern = value
      BY <1>1, <1>2, <3>1, SeqEqual
    <3>2. pattern = value => n = m /\ \A i \in 1 .. n : i <= m /\ pattern[i] = value[i]
      BY <1>1, <1>2
    <3> QED BY <3>1, <3>2
  <2>7. Wildcard(pattern, value) <=>
           \E ends \in [Stars(pattern) -> 0 .. m] : StarsEndAt(pattern, value, ends)
    BY <1>1 DEF Wildcard, StarsEndAt, At, LastStar
  <2>8. \E ends : ends \in [Stars(pattern) -> 0 .. m]
    <3>1. [s \in Stars(pattern) |-> 0] \in [Stars(pattern) -> 0 .. m]  BY <1>1
    <3> QED BY <3>1
  <2> QED BY <2>1, <2>5, <2>6, <2>7, <2>8
<1> QED BY <1>3, <1>4

\* So the globs of the rules mean what their stars mean, in every state.
THEOREM GlobsMeanWildcards == Spec => []GlobMeansWildcards
<1>1. GlobMeansWildcards
  <2>1. ASSUME NEW S, NEW n \in Nat, NEW text \in BoundedSeq(S, n) PROVE text \in Seq(S)
    BY <2>1 DEF BoundedSeq, SeqOf
  <2>2. ASSUME NEW pattern \in BoundedSeq({"a", "b", Star}, 5),
               NEW value \in BoundedSeq({"a", "b"}, 6)
        PROVE  globMatch(pattern, value) <=> Wildcard(pattern, value)
    <3>1. pattern \in Seq({"a", "b", Star})  BY <2>1
    <3>2. value \in Seq({"a", "b"})  BY <2>1
    <3>3. pattern \in Seq({"a", "b", Star}) /\ value \in Seq({"a", "b", Star})
      <4>1. \A t \in Seq({"a", "b"}) : t \in Seq({"a", "b", Star})  OBVIOUS
      <4> QED BY <3>1, <3>2, <4>1
    <3> QED BY <3>3, GlobIsWildcard
  <2> QED BY <2>2 DEF GlobMeansWildcards
<1> QED BY <1>1, PTL

=============================================================================
