-------------------------- MODULE ToolPolicyProofs --------------------------
(***************************************************************************)
(* Proofs about ToolPolicy for every set of servers, tools, agents and     *)
(* policies: what a server runs is what evaluate was asked about, as long  *)
(* as the server's own name has no separator and does not end in an        *)
(* underscore.                                                             *)
(***************************************************************************)
EXTENDS ToolPolicy, SequenceTheorems, TLAPS

\* A registered name, element by element.
LEMMA Joined ==
    ASSUME NEW s \in Names, NEW t \in Names
    PROVE  LET n == Registered(s, t)
               m == Len(s)
           IN  /\ n \in Seq(STRING) /\ m \in Nat /\ Len(t) \in Nat /\ Len(n) = m + 2 + Len(t)
               /\ \A k \in 1..m : n[k] = s[k]
               /\ n[m + 1] = Underscore /\ n[m + 2] = Underscore
               /\ \A k \in 1..Len(t) : n[m + 2 + k] = t[k]
<1> DEFINE m == Len(s)
           u == s \o Separator
<1>1. s \in Seq(STRING) /\ t \in Seq(STRING) /\ m \in Nat /\ Len(t) \in Nat
  BY LenProperties DEF Names
<1>2. /\ Separator \in Seq(STRING) /\ Len(Separator) = 2
      /\ Separator[1] = Underscore /\ Separator[2] = Underscore
  BY PolicyAssumption DEF Separator
<1> HIDE DEF m
<1>3. /\ u \in Seq(STRING) /\ Len(u) = m + 2
      /\ \A k \in 1..(m + 2) : u[k] = IF k <= m THEN s[k] ELSE Separator[k - m]
  <2>1. /\ u \in Seq(STRING) /\ Len(u) = m + Len(Separator)
        /\ \A k \in 1..(m + Len(Separator)) : u[k] = IF k <= m THEN s[k] ELSE Separator[k - m]
    BY <1>1, <1>2, ConcatProperties DEF m
  <2> QED BY <1>2, <2>1
<1> HIDE DEF u
<1>4. /\ u \o t \in Seq(STRING) /\ Len(u \o t) = m + 2 + Len(t)
      /\ \A k \in 1..(m + 2 + Len(t)) : (u \o t)[k] = IF k <= m + 2 THEN u[k] ELSE t[k - (m + 2)]
  <2>1. /\ u \o t \in Seq(STRING) /\ Len(u \o t) = Len(u) + Len(t)
        /\ \A k \in 1..(Len(u) + Len(t)) : (u \o t)[k] = IF k <= Len(u) THEN u[k] ELSE t[k - Len(u)]
    BY <1>1, <1>3, ConcatProperties
  <2> QED BY <1>3, <2>1
<1> DEFINE n == u \o t
<1> HIDE DEF n
<1>5. \A k \in 1..m : n[k] = s[k]
  BY <1>1, <1>3, <1>4 DEF n
<1>6. n[m + 1] = Underscore /\ n[m + 2] = Underscore
  BY <1>1, <1>2, <1>3, <1>4 DEF n
<1>7. ASSUME NEW k \in 1..Len(t) PROVE n[m + 2 + k] = t[k]
  <2> DEFINE j == m + 2 + k
  <2>1. j \in 1..(m + 2 + Len(t)) /\ ~(j <= m + 2) /\ j - (m + 2) = k
    BY <1>1
  <2> HIDE DEF j
  <2>2. n[j] = t[j - (m + 2)]
    BY <1>4, <2>1 DEF n
  <2>3. n[j] = t[k]
    BY <2>1, <2>2
  <2> QED BY <2>3 DEF j
<1>8. n = Registered(s, t)
  BY DEF n, u, Registered
<1> QED BY <1>1, <1>4, <1>5, <1>6, <1>7, <1>8 DEF m, n

\* A piece of a sequence is what it was made of, element by element.
LEMMA Piece ==
    ASSUME NEW n \in Seq(STRING), NEW p \in Seq(STRING), NEW i \in Nat,
           i + Len(p) <= Len(n), \A k \in 1..Len(p) : n[i + k] = p[k]
    PROVE  SubSeq(n, i + 1, i + Len(p)) = p
<1> DEFINE q == SubSeq(n, i + 1, i + Len(p))
<1>1. Len(p) \in Nat /\ Len(n) \in Nat
  BY LenProperties
<1>2. /\ q \in Seq(STRING) /\ Len(q) = Len(p)
      /\ \A k \in 1..Len(q) : q[k] = n[i + k]
  <2>1. \A k \in (i + 1)..(i + Len(p)) : n[k] \in STRING
    BY <1>1, ElementOfSeq
  <2>2. /\ q \in Seq(STRING)
        /\ Len(q) = IF i + 1 <= i + Len(p) THEN i + Len(p) - (i + 1) + 1 ELSE 0
        /\ \A k \in 1..(i + Len(p) - (i + 1) + 1) : q[k] = n[i + 1 + k - 1]
    BY <1>1, <2>1, SubSeqProperties
  <2>3. Len(q) = Len(p) /\ i + Len(p) - (i + 1) + 1 = Len(p)
    BY <1>1, <2>2
  <2> HIDE DEF q
  <2>4. \A k \in 1..Len(q) : i + 1 + k - 1 = i + k
    BY <1>1
  <2> QED BY <2>2, <2>3, <2>4
<1> HIDE DEF q
<1>3. q = p
  BY <1>1, <1>2, SeqEqual
<1> QED BY <1>3 DEF q

\* A registered name splits into the names it was made of.
LEMMA SplitRegistered ==
    ASSUME NEW s \in Names, NEW t \in Names, Plain(s)
    PROVE  Split(Registered(s, t)).server = s /\ Split(Registered(s, t)).tool = t
<1> DEFINE m == Len(s)
           n == Registered(s, t)
<1>1. /\ n \in Seq(STRING) /\ m \in Nat /\ Len(t) \in Nat /\ Len(n) = m + 2 + Len(t)
      /\ \A k \in 1..m : n[k] = s[k]
      /\ n[m + 1] = Underscore /\ n[m + 2] = Underscore
      /\ \A k \in 1..Len(t) : n[m + 2 + k] = t[k]
  BY Joined
<1>2. s \in Seq(STRING) /\ t \in Seq(STRING)
  BY DEF Names
<1> HIDE DEF n
<1>3. DOMAIN n = 1..Len(n) /\ DOMAIN s = 1..m
  BY <1>1, <1>2, LenProperties
<1>4. /\ \A k \in 1..m : k + 1 \in 1..m => s[k] # Underscore \/ s[k + 1] # Underscore
      /\ m \in 1..m => s[m] # Underscore
  BY <1>3 DEF Plain, Cuts
<1> HIDE DEF m
<1>5. m + 1 \in Cuts(n)
  <2>1. m + 1 \in 1..Len(n) /\ m + 1 + 1 \in 1..Len(n) /\ m + 1 + 1 = m + 2
    BY <1>1
  <2> QED BY <1>1, <1>3, <2>1 DEF Cuts
<1>6. ASSUME NEW k \in Cuts(n) PROVE m + 1 <= k
  <2>1. k \in 1..Len(n) /\ n[k] = Underscore /\ n[k + 1] = Underscore
    BY <1>3 DEF Cuts
  <2>2. CASE k = m
    BY <1>1, <1>4, <2>1, <2>2
  <2>3. CASE k < m
    <3>1. k \in 1..m /\ k + 1 \in 1..m
      BY <1>1, <2>1, <2>3
    <3>2. s[k] = Underscore /\ s[k + 1] = Underscore
      BY <1>1, <2>1, <3>1
    <3> QED BY <1>4, <3>1, <3>2
  <2> QED BY <1>1, <2>1, <2>2, <2>3
<1>7. (CHOOSE k \in Cuts(n) : \A j \in Cuts(n) : k <= j) = m + 1
  <2>1. Cuts(n) \subseteq Nat
    BY <1>1, <1>3 DEF Cuts
  <2>2. \A k \in Cuts(n) : (\A j \in Cuts(n) : k <= j) => k = m + 1
    <3>1. ASSUME NEW k \in Cuts(n), \A j \in Cuts(n) : k <= j PROVE k = m + 1
      <4>1. k <= m + 1 /\ m + 1 <= k /\ k \in Nat
        BY <1>5, <1>6, <2>1, <3>1
      <4> QED BY <1>1, <4>1
    <3> QED BY <3>1
  <2>3. \E k \in Cuts(n) : \A j \in Cuts(n) : k <= j
    BY <1>5, <1>6
  <2> QED BY <2>2, <2>3
<1>8. Split(n) = CutAt(n, m + 1)
  BY <1>5, <1>7 DEF Split
<1>9. SubSeq(n, 1, m) = s
  <2>1. SubSeq(n, 0 + 1, 0 + Len(s)) = s
    <3>1. 0 + Len(s) <= Len(n) /\ \A k \in 1..Len(s) : n[0 + k] = s[k]
      BY <1>1 DEF m
    <3> QED BY <1>1, <1>2, <3>1, Piece
  <2>2. 0 + 1 = 1 /\ 0 + Len(s) = m
    BY <1>1 DEF m
  <2> QED BY <2>1, <2>2
<1>10. SubSeq(n, m + 3, Len(n)) = t
  <2>1. SubSeq(n, (m + 2) + 1, (m + 2) + Len(t)) = t
    <3>1. m + 2 \in Nat /\ m + 2 + Len(t) <= Len(n)
      BY <1>1
    <3> QED BY <1>1, <1>2, <3>1, Piece
  <2>2. (m + 2) + 1 = m + 3 /\ (m + 2) + Len(t) = Len(n)
    BY <1>1
  <2> QED BY <2>1, <2>2
<1>11. CutAt(n, m + 1).server = s /\ CutAt(n, m + 1).tool = t
  <2> DEFINE k == m + 1
  <2>1. k - 1 = m /\ k + 2 = m + 3
    BY <1>1
  <2> HIDE DEF k
  <2>2. CutAt(n, k).server = SubSeq(n, 1, k - 1) /\ CutAt(n, k).tool = SubSeq(n, k + 2, Len(n))
    BY DEF CutAt
  <2>3. CutAt(n, k).server = s /\ CutAt(n, k).tool = t
    BY <1>9, <1>10, <2>1, <2>2
  <2> QED BY <2>3 DEF k
<1> QED BY <1>8, <1>11 DEF n

\* What Allowed promises: no deny rule comes first, and default deny is lifted.
\* It depends on the policy alone, not on how the call was named.
LEMMA AllowedMeans ==
    ASSUME policy.rules \in Seq(Rules), NEW a, NEW s, NEW t, NEW i, Allowed(a, s, t, i)
    PROVE  /\ \A k \in DOMAIN policy.rules :
                 ~policy.rules[k].allow /\ Matches(policy.rules[k], a, s, t, i)
                   => \E j \in 1..(k - 1) : /\ j \in DOMAIN policy.rules /\ policy.rules[j].allow
                                            /\ Matches(policy.rules[j], a, s, t, i)
           /\ \/ policy.default
              \/ \E k \in DOMAIN policy.rules :
                    policy.rules[k].allow /\ Matches(policy.rules[k], a, s, t, i)
<1> DEFINE H(k) == Matches(policy.rules[k], a, s, t, i)
<1>1. DOMAIN policy.rules = 1..Len(policy.rules) /\ Len(policy.rules) \in Nat
  OBVIOUS
<1>2. CASE \E k \in DOMAIN policy.rules :
              /\ policy.rules[k].allow /\ H(k)
              /\ \A j \in DOMAIN policy.rules : j < k => ~H(j)
  <2>1. PICK k \in DOMAIN policy.rules :
              /\ policy.rules[k].allow /\ H(k)
              /\ \A j \in DOMAIN policy.rules : j < k => ~H(j)
    BY <1>2
  <2> HIDE DEF H
  <2>2. ASSUME NEW d \in DOMAIN policy.rules, ~policy.rules[d].allow, H(d)
        PROVE  k \in 1..(d - 1)
    <3>1. d # k /\ ~(d < k)
      BY <2>1, <2>2
    <3>2. k \in Nat /\ d \in Nat /\ 1 <= k
      BY <1>1
    <3> QED BY <3>1, <3>2
  <2> USE DEF H
  <2> QED BY <2>1, <2>2
<1>3. CASE policy.default /\ \A k \in DOMAIN policy.rules : ~H(k)
  BY <1>3
<1> QED BY <1>2, <1>3 DEF Allowed

-----------------------------------------------------------------------------
(* The invariant.                                                          *)

\* The tools are registered under the names of configured servers; a run has
\* offered what is visible of its tools; a call in flight has passed evaluate
\* under its two halves, and so had the call that a plain server ran.
PolicyInv ==
    /\ policy \in Policies
    /\ registry \subseteq [server : Server, name : Tool]
    /\ agent = None => call = None /\ ran = None
    /\ agent # None => offered = VisibleTools(agent, resolved)
    /\ call # None =>
          Allowed(agent, Split(call.name).server, Split(call.name).tool, call.input)
    /\ ran # None /\ Plain(ran.server) =>
          Allowed(agent, ran.server, ran.name, ran.input)

\* PolicyInv holds in every reachable state.
LEMMA PolicyInvariant == Spec => []PolicyInv
<1>1. Init => PolicyInv
  BY DEF Init, PolicyInv
<1>2. ASSUME PolicyInv, [Next]_vars PROVE PolicyInv'
  <2> USE <1>2 DEF PolicyInv
  <2>1. ASSUME NEW s \in Server, NEW T \in Lists, CacheTools(s, T) PROVE PolicyInv'
    <3>1. registry' \subseteq [server : Server, name : Tool]
      BY <2>1, PolicyAssumption DEF CacheTools
    <3> QED BY <2>1, <3>1 DEF CacheTools, run, VisibleTools, Allowed
  <2>2. ASSUME NEW s \in Server, DropTools(s) PROVE PolicyInv'
    BY <2>2 DEF DropTools, run, VisibleTools, Allowed
  <2>3. ASSUME NEW a \in Agent, StartRun(a) PROVE PolicyInv'
    <3>1. /\ call = None /\ ran = None /\ UNCHANGED <<policy, registry, call, ran>>
          /\ agent' = a /\ offered' = VisibleTools(a, resolved')
      BY <2>3 DEF StartRun
    <3>2. a # None
      BY PolicyAssumption
    <3> QED BY <3>1, <3>2 DEF VisibleTools
  <2>4. CASE EndRun
    BY <2>4 DEF EndRun
  <2>5. ASSUME NEW n \in Asked, NEW i \in Input, Evaluate(n, i) PROVE PolicyInv'
    <3>1. /\ agent # None /\ Allowed(agent, Split(n).server, Split(n).tool, i)
          /\ call' = [name |-> n, input |-> i] /\ ran' = None
          /\ UNCHANGED <<policy, registry, agent, resolved, offered>>
      BY <2>5 DEF Evaluate, run
    <3>2. Allowed(agent, Split(n).server, Split(n).tool, i)'
      BY <3>1 DEF Allowed
    <3>3. call'.name = n /\ call'.input = i
      BY <3>1
    <3>4. VisibleTools(agent, resolved)' = VisibleTools(agent, resolved)
      BY <3>1 DEF VisibleTools
    <3> QED BY <3>1, <3>2, <3>3, <3>4
  <2>6. CASE CallTool
    <3>1. PICK r \in registry :
             /\ Registered(r.server, r.name) = call.name
             /\ ran' = [server |-> r.server, name |-> r.name, input |-> call.input]
      BY <2>6 DEF CallTool
    <3>2. /\ call # None /\ agent # None /\ call' = None
          /\ UNCHANGED <<policy, registry, agent, resolved, offered>>
      BY <2>6 DEF CallTool, run
    <3>3. ASSUME Plain(r.server) PROVE Allowed(agent, r.server, r.name, call.input)
      <4>1. r.server \in Names /\ r.name \in Names
        BY PolicyAssumption
      <4>2. Split(call.name).server = r.server /\ Split(call.name).tool = r.name
        BY <3>1, <3>3, <4>1, SplitRegistered
      <4> QED BY <3>2, <4>2
    <3>4. ran'.server = r.server /\ ran'.name = r.name /\ ran'.input = call.input
      BY <3>1
    <3>5. Plain(ran'.server) => Allowed(agent, ran.server, ran.name, ran.input)'
      BY <3>2, <3>3, <3>4 DEF Allowed
    <3>6. VisibleTools(agent, resolved)' = VisibleTools(agent, resolved)
      BY <3>2 DEF VisibleTools
    <3> QED BY <3>2, <3>5, <3>6
  <2>7. CASE CallFails
    BY <2>7 DEF CallFails, run, VisibleTools, Allowed
  <2>8. CASE UNCHANGED vars
    BY <2>8 DEF vars, run, VisibleTools, Allowed
  <2> QED BY <1>2, <2>1, <2>2, <2>3, <2>4, <2>5, <2>6, <2>7, <2>8 DEF Next
<1> QED BY <1>1, <1>2, PTL DEF Spec

-----------------------------------------------------------------------------
\* Whatever the policy, the tools and the order in which servers come and go, a
\* call that a server got is within the policy, if the server's name has no
\* separator and does not end in an underscore.
THEOREM PolicyObeyed == Spec => []RunsWithinPolicy
<1>1. PolicyInv => RunsWithinPolicy
  <2> SUFFICES ASSUME PolicyInv, ran # None, Plain(ran.server)
               PROVE  RunsWithinPolicy
    BY DEF RunsWithinPolicy
  <2>1. policy.rules \in Seq(Rules)
    BY PolicyAssumption DEF PolicyInv
  <2>2. Allowed(agent, ran.server, ran.name, ran.input)
    BY DEF PolicyInv
  <2>3. \A k \in DOMAIN policy.rules : policy.rules[k].allow \in BOOLEAN
    <3>1. \A k \in DOMAIN policy.rules : policy.rules[k] \in Rules
      BY <2>1, ElementOfSeq, LenProperties
    <3> QED BY <3>1 DEF Rules
  <2> QED BY <2>1, <2>2, <2>3, AllowedMeans DEF RunsWithinPolicy
<1> QED BY <1>1, PolicyInvariant, PTL

\* Whatever the policy, a tool that visible_tools hid from a run is not run for
\* it by a server whose name has no separator and does not end in an underscore: an allowed call has an allow rule that matches its tool without its input.
THEOREM HidingIsSound == Spec => []HiddenToolsNeverRun
<1>1. PolicyInv => HiddenToolsNeverRun
  <2> SUFFICES ASSUME PolicyInv, ran # None, Plain(ran.server),
                      NEW t, t = [server |-> ran.server, name |-> ran.name], t \in resolved
               PROVE  t \in offered
    BY DEF HiddenToolsNeverRun
  <2>1. Allowed(agent, ran.server, ran.name, ran.input) /\ offered = VisibleTools(agent, resolved)
    BY DEF PolicyInv
  <2>2. t.server = ran.server /\ t.name = ran.name
    OBVIOUS
  <2> QED BY <2>1, <2>2 DEF Allowed, Matches, VisibleTools
<1> QED BY <1>1, PolicyInvariant, PTL

===============================================================================
