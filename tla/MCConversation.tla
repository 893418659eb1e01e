--------------------------- MODULE MCConversation ---------------------------
(* Every provider, a bare name and an unknown prefix, alone or with a fallback *)
(* to any other; every kind of tool result.                                    *)
EXTENDS Conversation

Strings == {<<p, "m">> : p \in Prefixes \cup {"other"}} \cup {<<"m">>}

MCAgents == [models : {<<m, n>> : m \in Strings, n \in Strings}, thinking : {"unset", "on"}]

MCAsked == [model : {<<>>}, thinking : {"unset", "off"}]
             \cup [model : {<<"openrouter", "anthropic", "m">>}, thinking : {"unknown"}]

MCConfigs == {[keys |-> Provider, resource |-> TRUE, url |-> FALSE],
              [keys |-> Provider \ {"anthropic", "google"}, resource |-> FALSE, url |-> TRUE]}

MCOutputs == {o \in Output : o.text # "none" \/ o.media}

===============================================================================
