---------------------------- MODULE MCToolPolicy ----------------------------
(* Two servers, of which only the first has a plain name, and three tools:    *)
(* a___t is the tool t of a_, and the tool _t of a; a__b__t is b__t of a.     *)
EXTENDS ToolPolicy

a     == <<"a">>
a_    == <<"a", Underscore>>
t     == <<"t">>
_t    == <<Underscore, "t">>
b__t  == <<"b", Underscore, Underscore, "t">>

MCServer == {a, a_}
MCTool   == {t, _t, b__t}
MCStray  == {a}
MCLists  == {MCTool}

\* All that a name can be cut into.
Any == UNION {{Split(n).tool, SplitLast(n).tool} : n \in Asked} \cup MCTool

\* Everything of the first server, of which a later entry leaves one tool.
MCEntries == [x |-> << [server |-> a, tools |-> Any] >>,
              y |-> << [server |-> a, tools |-> Any],
                       [server |-> a_, tools |-> Any],
                       [server |-> a, tools |-> {t}] >>]

\* A rule is for both agents or for one; one about the input is about every
\* tool, and one for one agent is about every server.
Rule == {r \in [allow : BOOLEAN, regex : BOOLEAN, server : {None} \cup MCServer,
                tool : {Any, {t}}, agent : {{"x", "y"}, {"x"}}] :
            /\ r.agent = {"x"} => r.server = None
            /\ r.regex => r.tool = Any}

MCPolicies == [default : BOOLEAN,
               rules : {<<>>} \cup {<<r>> : r \in Rule}
                         \cup {<<q, r>> : q \in Rule, r \in Rule}]

===============================================================================
