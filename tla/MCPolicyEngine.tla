---------------------------- MODULE MCPolicyEngine ----------------------------
EXTENDS PolicyEngine

\* A caller of the name "anonymous", here n, one of another, and one whose name
\* has a colon in it.
fOfS == <<"a", ":", "s", "/", "f">>
CallerNames == {<<"a">>, <<"n">>, fOfS}
anonymous == <<"n">>

ToolOf(ns, original) ==
    [name |-> <<ns, "/">> \o original, originalName |-> original, namespace |-> ns]

\* The key of the calls to colon by a is that of the calls to f by a:s/f.
f == ToolOf("s", <<"f">>)
g == ToolOf("s", <<"g">>)
colon == ToolOf("s", <<"f", ":", "s", "/", "f">>)

Rule(effect, principals, namespaces, tools, minute, hour) ==
    [effect |-> effect, principals |-> principals, namespaces |-> namespaces,
     tools |-> tools, rateLimit |-> [maxPerMinute |-> minute, maxPerHour |-> hour]]

WithColon == <<"*", ":", "*">>

\* Callers and tools with a colon are left to the policy that is about them.
NoColons == <<Rule("deny", {WithColon}, {}, {}, NoLimit, NoLimit),
              Rule("deny", {}, {}, {WithColon}, NoLimit, NoLimit)>>

\* Two calls a minute for everyone but n; g is denied by its original name.
EveryMinute ==
    [defaultEffect |-> "deny",
     rules |-> NoColons \o
               <<Rule("deny", {}, {}, {<<"g">>}, NoLimit, NoLimit),
                 Rule("deny", {<<"*", "n">>}, {}, {}, NoLimit, NoLimit),
                 Rule("allow", {}, {"s"}, {<<"*", "/", "f">>}, 2, NoLimit)>>]

\* Named callers have one call a minute and two an hour, the others none.
EveryHour ==
    [defaultEffect |-> "deny",
     rules |-> NoColons \o
               <<Rule("deny", {}, {"s"}, {<<"s", "/", "g", "*">>}, NoLimit, NoLimit),
                 Rule("allow", {<<"*">>}, {}, {}, 1, 2)>>]

\* Two tools under one rule.
TwoTools ==
    [defaultEffect |-> "deny",
     rules |-> NoColons \o
               <<Rule("allow", {<<"a", "*">>}, {}, {<<"*">>}, NoLimit, 1)>>]

\* Two callers under one key, with different limits.
Joined ==
    [defaultEffect |-> "deny",
     rules |-> <<Rule("allow", {<<"a">>}, {}, {WithColon}, 1, NoLimit),
                 Rule("allow", {WithColon}, {}, {<<"f">>}, 2, NoLimit)>>]

ToolSet == {f, g, colon}
PolicySet == {EveryMinute, EveryHour, TwoTools, Joined}

=============================================================================
