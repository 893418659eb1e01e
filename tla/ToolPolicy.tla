----------------------------- MODULE ToolPolicy -----------------------------
(***************************************************************************)
(* The way of a tool call through the operator's tool_policy: which tools  *)
(* a run presents to the model (src/gateway/runner/agent_runner.py with    *)
(* tool_scopes, get_tools_for_agent and visible_tools), what evaluate of   *)
(* src/gateway/policy.py says of a call, and which tool of which server    *)
(* call_tool of src/gateway/mcp/manager.py then runs, while servers come   *)
(* and go.                                                                 *)
(*                                                                         *)
(* The three places name a tool differently.  A name is a sequence of its  *)
(* underscores and of the pieces between them: the server <<"a", "_">>     *)
(* registers its tool <<"t">> as <<"a", "_", "_", "_", "t">>, that is,     *)
(* a___t.  A glob is the set of names it matches.  Of an input only its    *)
(* relation to the regular expression matters: found in it, or not, as in  *)
(* one too big to search.                                                  *)
(*                                                                         *)
(* One run is modelled.  Runs share only the registry, which changes here  *)
(* at any time, and the policy, which never does.                          *)
(***************************************************************************)
EXTENDS Naturals, Sequences

CONSTANTS
    Server,     \* the names of config.mcp_servers
    Tool,       \* the names tools have on their servers
    Lists,      \* the answers of a server to tools/list
    Stray,      \* names a model may make up
    Agent,      \* agents
    Entries,    \* the tools: list of each agent.yaml
    Policies,   \* the policies an operator may configure
    Underscore, \* the piece of a name that is an underscore
    None        \* no run, no call, no server field

Names == Seq(STRING)
Rules == [allow : BOOLEAN, server : Names \cup {None}, tool : SUBSET Names,
          agent : SUBSET Agent, regex : BOOLEAN]
Input == {"found", "unfound"}

ASSUME PolicyAssumption ==
    /\ Server \subseteq Names \ {<<>>} /\ Tool \subseteq Names /\ Lists \subseteq SUBSET Tool
    /\ Stray \subseteq Names \ {<<>>}
    /\ None \notin Agent /\ Underscore \in STRING
    /\ \A p \in Policies : p.rules \in Seq(Rules)

VARIABLES
    policy,     \* ToolPolicy: default_allow and the rules
    registry,   \* MCPManager._tools: the tools with their registered names
    agent,      \* the agent of the run
    resolved,   \* get_tools_for_agent at the start of the run
    offered,    \* what visible_tools left of them
    call,       \* the tool call that passed evaluate
    ran         \* the call before, if a server got it

run  == <<agent, resolved, offered>>
vars == <<policy, registry, run, call, ran>>

-----------------------------------------------------------------------------
(* The policy.                                                             *)

\* server, tool and agent fields; an absent one matches everything.
MatchesStatic(r, a, s, t) ==
    (r.server = None \/ r.server = s) /\ t \in r.tool /\ a \in r.agent

Matches(r, a, s, t, i) ==
    MatchesStatic(r, a, s, t) /\ (r.regex => i = "found")

\* evaluate: the first rule that matches decides, otherwise the default.
Allowed(a, s, t, i) ==
    \/ \E k \in DOMAIN policy.rules :
          /\ policy.rules[k].allow /\ Matches(policy.rules[k], a, s, t, i)
          /\ \A j \in DOMAIN policy.rules : j < k => ~Matches(policy.rules[j], a, s, t, i)
    \/ /\ policy.default
       /\ \A k \in DOMAIN policy.rules : ~Matches(policy.rules[k], a, s, t, i)

\* Mutant of VisibleTools: a tool that some rule denies is hidden.
VisibleToolsUndenied(a, tools) ==
    IF policy.default THEN tools
    ELSE {t \in tools :
            /\ \E k \in DOMAIN policy.rules : policy.rules[k].allow
                  /\ MatchesStatic(policy.rules[k], a, t.server, t.name)
            /\ \A k \in DOMAIN policy.rules : ~policy.rules[k].allow
                  => ~MatchesStatic(policy.rules[k], a, t.server, t.name)}

VisibleTools(a, tools) ==
    IF policy.default THEN tools
    ELSE {t \in tools : \E k \in DOMAIN policy.rules :
             policy.rules[k].allow /\ MatchesStatic(policy.rules[k], a, t.server, t.name)}

-----------------------------------------------------------------------------
(* Names.                                                                  *)

Separator == <<Underscore, Underscore>>

Registered(s, t) == s \o Separator \o t

\* Where a name has two underscores in a row.
Cuts(n) ==
    {k \in DOMAIN n : k + 1 \in DOMAIN n /\ n[k] = Underscore /\ n[k + 1] = Underscore}

CutAt(n, k) == [server |-> SubSeq(n, 1, k - 1), tool |-> SubSeq(n, k + 2, Len(n))]

\* Mutant of Split: rpartition, the name is cut at the last separator.
SplitLast(n) ==
    IF Cuts(n) = {} THEN [server |-> <<>>, tool |-> n]
    ELSE CutAt(n, CHOOSE k \in Cuts(n) : \A j \in Cuts(n) : j <= k)

\* tool_name.partition("__"): the name is cut at the first separator.
Split(n) ==
    IF Cuts(n) = {} THEN [server |-> n, tool |-> <<>>]
    ELSE CutAt(n, CHOOSE k \in Cuts(n) : \A j \in Cuts(n) : k <= j)

\* A server name that partition gives back: the first separator of a registered
\* name is the one that was put in, not one inside the server's name or one that
\* begins with an underscore at its end.
Plain(s) == Cuts(s) = {} /\ s # <<>> /\ s[Len(s)] # Underscore

-----------------------------------------------------------------------------
Init ==
    /\ policy \in Policies
    /\ registry = {} /\ agent = None /\ resolved = {} /\ offered = {}
    /\ call = None /\ ran = None

\* _cache_tools after a start or a restart: server s lists the tools T.  A
\* registered name that another server has already is taken over.
CacheTools(s, T) ==
    /\ registry' = {r \in registry : \A t \in T : Registered(s, t) # Registered(r.server, r.name)}
                     \cup {[server |-> s, name |-> t] : t \in T}
    /\ UNCHANGED <<policy, run, call, ran>>

\* The monitor found the process dead.
DropTools(s) ==
    /\ registry' = {r \in registry : r.server # s}
    /\ UNCHANGED <<policy, run, call, ran>>

\* tool_scopes: of several entries for one server the last one counts.
InScope(a, r) ==
    \E k \in DOMAIN Entries[a] :
        /\ Entries[a][k].server = r.server
        /\ \A j \in DOMAIN Entries[a] : j > k => Entries[a][j].server # r.server
        /\ r.name \in Entries[a][k].tools

\* run(): the tools are resolved and filtered once.
StartRun(a) ==
    /\ agent = None
    /\ agent' = a
    /\ resolved' = {r \in registry : InScope(a, r)}
    /\ offered' = VisibleTools(a, resolved')
    /\ UNCHANGED <<policy, registry, call, ran>>

EndRun ==
    /\ agent # None /\ call = None
    /\ agent' = None /\ resolved' = {} /\ offered' = {} /\ ran' = None
    /\ UNCHANGED <<policy, registry, call>>

\* _execute_tool_call: whatever name the model asks for, evaluate is asked
\* about its two halves.  A call it denies goes no further.  No tool_policy in
\* the configuration is the same as default allow without rules.
Evaluate(n, i) ==
    /\ agent # None /\ call = None
    /\ Allowed(agent, Split(n).server, Split(n).tool, i)
    /\ call' = [name |-> n, input |-> i] /\ ran' = None
    /\ UNCHANGED <<policy, registry, run>>

\* call_tool finds the tool and its server runs.  The registry may have changed
\* since evaluate: wait_for runs call_tool in a task of its own.
CallTool ==
    /\ call # None
    /\ \E r \in registry :
          /\ Registered(r.server, r.name) = call.name
          /\ ran' = [server |-> r.server, name |-> r.name, input |-> call.input]
    /\ call' = None
    /\ UNCHANGED <<policy, registry, run>>

\* An unknown tool, or a server that is down: an error result.
CallFails ==
    /\ call # None
    /\ call' = None
    /\ UNCHANGED <<policy, registry, run, ran>>

Asked == Stray \cup {Registered(s, t) : s \in Server, t \in Tool}

Next ==
    \/ \E s \in Server, T \in Lists : CacheTools(s, T)
    \/ \E s \in Server : DropTools(s)
    \/ \E a \in Agent : StartRun(a)
    \/ \E n \in Asked, i \in Input : Evaluate(n, i)
    \/ EndRun \/ CallTool \/ CallFails

Spec == Init /\ [][Next]_vars

-----------------------------------------------------------------------------
(* Properties.  Both are about servers whose own name has no separator and *)
(* does not end in an underscore: for another one evaluate is asked about  *)
(* a server that is not the one call_tool reaches.                         *)

\* A call that a server got is within the policy, read from the server's side:
\* every deny rule that matches it has an allow rule before it that matches it
\* too, and under default deny some allow rule matches (evaluate, policy.py).
RunsWithinPolicy ==
    ran # None /\ Plain(ran.server) =>
        LET Hit(k, b) == /\ k \in DOMAIN policy.rules /\ policy.rules[k].allow = b
                         /\ Matches(policy.rules[k], agent, ran.server, ran.name, ran.input)
        IN  /\ \A k \in DOMAIN policy.rules :
                  Hit(k, FALSE) => \E j \in 1..(k - 1) : Hit(j, TRUE)
            /\ policy.default \/ \E k \in DOMAIN policy.rules : Hit(k, TRUE)

\* visible_tools hides only what cannot be called (policy.py:107-112): a tool
\* that the run resolved and that a server ran for it was offered to the model.
HiddenToolsNeverRun ==
    ran # None /\ Plain(ran.server) =>
        LET t == [server |-> ran.server, name |-> ran.name]
        IN  t \in resolved => t \in offered

===============================================================================
