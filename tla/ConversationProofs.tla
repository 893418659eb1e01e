------------------------- MODULE ConversationProofs -------------------------
(***************************************************************************)
(* Proofs about Conversation for any agents, requests, configurations,     *)
(* tool results and status codes.                                          *)
(***************************************************************************)
EXTENDS Conversation, SequenceTheorems, WellFoundedInduction, TLAPS

(***************************************************************************)
(* _dedupe_preserve_order.  Induction is over a set of numbers, as a least *)
(* element of its complement: the provers cannot instantiate an operator.  *)
(***************************************************************************)

LEMMA LeastNumber ==
    ASSUME NEW T, T \subseteq Nat, T # {}
    PROVE  \E n \in T : \A m \in T : ~(m < n)
<1> DEFINE R == {ss \in Nat \X Nat : ss[1] < ss[2]}
<1>1. IsWellFoundedOn(R, Nat)
  BY NatLessThanWellFounded DEF OpToRel
<1>2. \A m, n \in Nat : m < n => <<m, n>> \in R
  OBVIOUS
<1> HIDE DEF R
<1>3. PICK n \in T : \A m \in T : ~ (<<m, n>> \in R)
  BY <1>1, WFMin
<1>4. \A m \in T : ~(m < n)
  BY <1>2, <1>3
<1> QED BY <1>4

LEMMA Induction ==
    ASSUME NEW T, 0 \in T, \A n \in Nat : n \in T => n + 1 \in T
    PROVE  Nat \subseteq T
<1> SUFFICES ASSUME ~(Nat \subseteq T) PROVE FALSE
  OBVIOUS
<1> DEFINE B == {n \in Nat : n \notin T}
<1>1. B \subseteq Nat /\ B # {}
  OBVIOUS
<1>2. PICK n \in B : \A m \in B : ~(m < n)
  <2> HIDE DEF B
  <2> QED BY <1>1, LeastNumber
<1>3. n # 0 /\ n \in Nat /\ n - 1 \in Nat /\ n - 1 \notin B
  BY <1>2
<1>4. n - 1 \in T /\ (n - 1) + 1 = n
  BY <1>3
<1> QED BY <1>2, <1>3, <1>4

\* What the loop has kept after i of the models of s: each of them once, and a
\* model before all that came up later.
Kept(s, i, c) ==
    /\ \A k \in 1..Len(c) : \E j \in 1..i : c[k] = s[j]
    /\ \A j \in 1..i : \E k \in 1..Len(c) : c[k] = s[j]
    /\ \A k, l \in 1..Len(c) : k < l =>
          \E j \in 1..i : s[j] = c[k] /\ \A m \in 1..Len(s) : s[m] = c[l] => j < m

LEMMA KeptOneMore ==
    ASSUME NEW S, NEW s \in Seq(S), NEW i \in Nat, i + 1 <= Len(s), NEW c \in Seq(S), Kept(s, i, c),
           ~ \E j \in 1..i : s[j] = s[i + 1]
    PROVE  Append(c, s[i + 1]) \in Seq(S) /\ Kept(s, i + 1, Append(c, s[i + 1]))
<1> DEFINE d == Append(c, s[i + 1])
           n == Len(c) + 1
<1>1. Len(s) \in Nat /\ Len(c) \in Nat /\ i + 1 \in 1..Len(s) /\ s[i + 1] \in S
  BY LenProperties, ElementOfSeq
<1>2. d \in Seq(S) /\ Len(d) = n /\ d[n] = s[i + 1] /\ \A k \in 1..Len(c) : d[k] = c[k]
  BY <1>1, AppendProperties
<1> HIDE DEF d
<1>a. /\ \A k \in 1..Len(d) : k \in 1..Len(c) \/ k = n
      /\ \A j \in 1..(i + 1) : j \in 1..i \/ j = i + 1
      /\ n \in 1..Len(d) /\ i + 1 \in 1..(i + 1)
      /\ 1..i \subseteq 1..(i + 1) /\ 1..Len(c) \subseteq 1..Len(d)
  BY <1>1, <1>2
<1>3. ASSUME NEW k \in 1..Len(d) PROVE \E j \in 1..(i + 1) : d[k] = s[j]
  <2>1. CASE k \in 1..Len(c)
    <3>1. PICK j \in 1..i : c[k] = s[j]
      BY <2>1 DEF Kept
    <3> QED BY <1>2, <1>a, <2>1, <3>1
  <2>2. CASE k = n
    BY <1>2, <1>a, <2>2
  <2> QED BY <1>a, <2>1, <2>2
<1>4. ASSUME NEW j \in 1..(i + 1) PROVE \E k \in 1..Len(d) : d[k] = s[j]
  <2>1. CASE j \in 1..i
    <3>1. PICK k \in 1..Len(c) : c[k] = s[j]
      BY <2>1 DEF Kept
    <3> QED BY <1>2, <1>a, <3>1
  <2>2. CASE j = i + 1
    BY <1>2, <1>a, <2>2
  <2> QED BY <1>a, <2>1, <2>2
<1>5. ASSUME NEW k \in 1..Len(d), NEW l \in 1..Len(d), k < l
      PROVE  \E j \in 1..(i + 1) : s[j] = d[k] /\ \A m \in 1..Len(s) : s[m] = d[l] => j < m
  <2>1. k \in 1..Len(c) /\ d[k] = c[k]
    BY <1>1, <1>2, <1>5
  <2>2. CASE l \in 1..Len(c)
    <3>1. PICK j \in 1..i : s[j] = c[k] /\ \A m \in 1..Len(s) : s[m] = c[l] => j < m
      BY <2>1, <2>2, <1>5 DEF Kept
    <3>2. d[l] = c[l] /\ j \in 1..(i + 1)
      BY <1>2, <2>2
    <3> QED BY <2>1, <3>1, <3>2
  <2>3. CASE l = n
    <3>1. PICK j \in 1..i : s[j] = c[k]
      BY <2>1 DEF Kept
    <3>2. \A m \in 1..Len(s) : s[m] = d[l] => j < m
      <4> SUFFICES ASSUME NEW m \in 1..Len(s), s[m] = s[i + 1], ~(j < m) PROVE FALSE
        BY <1>2, <2>3
      <4>1. m \in 1..i
        BY <1>1
      <4> QED BY <4>1
    <3> QED BY <2>1, <3>1, <3>2
  <2> QED BY <1>a, <2>2, <2>3
<1> QED BY <1>2, <1>3, <1>4, <1>5 DEF Kept, d

\* The candidates of a run are the models asked for, each once and in the order
\* in which they first appear: what AgentRunner assumes of Candidates.
THEOREM DedupePreservesOrder ==
    ASSUME NEW S, NEW s \in Seq(S)
    PROVE  /\ Dedupe(s) \in Seq(S)
           /\ Kept(s, Len(s), Dedupe(s))
<1> DEFINE Body(c, i) == IF i = 0 THEN <<>>
                         ELSE IF \E j \in 1..(i - 1) : s[j] = s[i] THEN c
                         ELSE Append(c, s[i])
           f[i \in 0..Len(s)] ==
               IF i = 0 THEN <<>>
               ELSE IF \E j \in 1..(i - 1) : s[j] = s[i] THEN f[i - 1]
               ELSE Append(f[i - 1], s[i])
<1>0. Len(s) \in Nat
  BY LenProperties
<1>1. Dedupe(s) = f[Len(s)]
  BY DEF Dedupe
<1>2. \E g : g = [i \in 0..Len(s) |-> Body(g[i - 1], i)]
  <2> DEFINE T == {n \in Nat : \E g : g = [i \in 0..n |-> Body(g[i - 1], i)]}
  <2>1. 0 \in T
    <3>1. [i \in 0..0 |-> <<>>] = [i \in 0..0 |-> Body([j \in 0..0 |-> <<>>][i - 1], i)]
      OBVIOUS
    <3> QED BY <3>1
  <2>2. ASSUME NEW n \in Nat, n \in T PROVE n + 1 \in T
    <3>1. PICK g : g = [i \in 0..n |-> Body(g[i - 1], i)]
      BY <2>2
    <3> DEFINE h == [i \in 0..(n + 1) |-> IF i = n + 1 THEN Body(g[n], n + 1) ELSE g[i]]
    <3> HIDE DEF Body
    <3>2. ASSUME NEW i \in 0..(n + 1) PROVE h[i] = Body(h[i - 1], i)
      <4>1. CASE i = n + 1
        <5>1. h[i - 1] = g[n] /\ h[i] = Body(g[n], n + 1)
          BY <4>1
        <5> QED BY <4>1, <5>1
      <4>2. CASE i \in 1..n
        <5>1. i - 1 \in 0..n /\ i \in 0..n /\ h[i] = g[i] /\ h[i - 1] = g[i - 1]
          BY <4>2
        <5>2. g[i] = Body(g[i - 1], i)
          BY <3>1, <5>1
        <5> QED BY <5>1, <5>2
      <4>3. CASE i = 0
        <5>1. h[i] = g[i] /\ g[i] = Body(g[i - 1], i)
          BY <3>1, <4>3
        <5>2. \A c : Body(c, i) = <<>>
          BY <4>3 DEF Body
        <5> QED BY <5>1, <5>2
      <4> QED BY <4>1, <4>2, <4>3
    <3>3. h = [i \in 0..(n + 1) |-> Body(h[i - 1], i)]
      <4>1. h = [i \in 0..(n + 1) |-> h[i]]
        OBVIOUS
      <4>2. \A i \in 0..(n + 1) : h[i] = Body(h[i - 1], i)
        BY <3>2
      <4> HIDE DEF h
      <4>3. [i \in 0..(n + 1) |-> h[i]] = [i \in 0..(n + 1) |-> Body(h[i - 1], i)]
        BY ONLY <4>2
      <4> QED BY <4>1, <4>3
    <3>4. \E e : e = [i \in 0..(n + 1) |-> Body(e[i - 1], i)]
      <4> HIDE DEF h
      <4> QED BY <3>3
    <3>5. n + 1 \in Nat
      OBVIOUS
    <3> HIDE DEF h
    <3> QED BY <3>4, <3>5, Zenon
  <2>3. Nat \subseteq T
    <3> HIDE DEF T
    <3> QED BY <2>1, <2>2, Induction
  <2> QED BY <1>0, <2>3
<1>3. f = [i \in 0..Len(s) |-> Body(f[i - 1], i)]
  BY <1>2
<1>4. \A i \in 0..Len(s) : f[i] = Body(f[i - 1], i)
  <2> HIDE DEF Body
  <2>1. \A g : g = [i \in 0..Len(s) |-> Body(g[i - 1], i)] => \A i \in 0..Len(s) : g[i] = Body(g[i - 1], i)
    OBVIOUS
  <2> HIDE DEF f
  <2> QED BY <1>3, <2>1
<1> DEFINE T == {n \in Nat : n <= Len(s) => f[n] \in Seq(S) /\ Kept(s, n, f[n])}
<1> HIDE DEF f
<1>5. 0 \in T
  <2>1. f[0] = <<>>
    BY <1>0, <1>4
  <2>2. Kept(s, 0, <<>>)
    BY DEF Kept
  <2> QED BY <2>1, <2>2, EmptySeq
<1>6. ASSUME NEW n \in Nat, n \in T PROVE n + 1 \in T
  <2> SUFFICES ASSUME n + 1 <= Len(s) PROVE f[n + 1] \in Seq(S) /\ Kept(s, n + 1, f[n + 1])
    OBVIOUS
  <2>1. f[n] \in Seq(S) /\ Kept(s, n, f[n])
    BY <1>0, <1>6
  <2>2. f[n + 1] = IF \E j \in 1..n : s[j] = s[n + 1] THEN f[n] ELSE Append(f[n], s[n + 1])
    BY <1>0, <1>4
  <2>3. CASE \E j \in 1..n : s[j] = s[n + 1]
    <3>1. f[n + 1] = f[n]
      BY <2>2, <2>3
    <3>2. Kept(s, n + 1, f[n])
      <4>1. ASSUME NEW j \in 1..(n + 1) PROVE \E k \in 1..Len(f[n]) : f[n][k] = s[j]
        <5>1. PICK m \in 1..n : s[m] = s[j]
          BY <2>3
        <5> QED BY <2>1, <5>1 DEF Kept
      <4>2. 1..n \subseteq 1..(n + 1)
        OBVIOUS
      <4> QED BY <2>1, <4>1, <4>2 DEF Kept
    <3> QED BY <2>1, <3>1, <3>2
  <2>4. CASE ~ \E j \in 1..n : s[j] = s[n + 1]
    <3>1. f[n + 1] = Append(f[n], s[n + 1])
      BY <2>2, <2>4
    <3> QED BY <2>1, <2>4, <3>1, KeptOneMore
  <2> QED BY <2>3, <2>4
<1>7. Nat \subseteq T
  <2> HIDE DEF T
  <2> QED BY <1>5, <1>6, Induction
<1> QED BY <1>0, <1>1, <1>7

-----------------------------------------------------------------------------
(* Routing and answers.                                                    *)

LEMMA OneOrMore ==
    ASSUME NEW m \in ModelStrings
    PROVE  /\ m \in Seq(STRING) /\ Len(m) \in Nat /\ Len(m) >= 1
           /\ Len(m) = 1 \/ Len(m) > 1
           /\ ~(Len(m) = 1 /\ Len(m) > 1)
<1>1. m \in Seq(STRING)
  BY DEF ModelStrings
<1>2. Len(m) \in Nat /\ Len(m) >= 1
  BY EmptySeq, LenProperties DEF ModelStrings
<1>3. \A n \in Nat : n >= 1 => (n = 1 \/ n > 1) /\ ~(n = 1 /\ n > 1)
  OBVIOUS
<1> QED BY <1>1, <1>2, <1>3

\* The table of prefixes and the chain of the router agree on every string, and
\* the prefix is taken off the name that goes on the wire, if it is one.
LEMMA TableMatchesRouter ==
    ASSUME NEW m \in ModelStrings
    PROVE  /\ Route(m).provider = ProviderKey(m) /\ ProviderKey(m) \in Provider
           /\ Prefixed(m) => Route(m).model = Tail(m) /\ Tail(m) # m
           /\ ~Prefixed(m) => Route(m).model = m
<1>1. /\ m \in Seq(STRING) /\ Len(m) \in Nat /\ Len(m) >= 1
      /\ (Len(m) = 1 \/ Len(m) > 1) /\ ~(Len(m) = 1 /\ Len(m) > 1)
  BY OneOrMore
<1>2. Tail(m) # m
  <2>1. Len(Tail(m)) = Len(m) - 1
    BY <1>1, HeadTailProperties, EmptySeq
  <2> QED BY <1>1, <2>1
<1>3. CASE ~Prefixed(m)
  <2>1. ProviderKey(m) = "anthropic"
    BY <1>3 DEF ProviderKey
  <2>2. Route(m) = [provider |-> "anthropic", model |-> m]
    <3>1. CASE Len(m) = 1
      BY <3>1 DEF Route
    <3>2. CASE ~(Len(m) = 1) /\ m[1] \notin Prefixes
      BY <3>2 DEF Route, Prefixes
    <3> QED BY <1>1, <1>3, <3>1, <3>2, Zenon DEF Prefixed
  <2>3. Route(m).provider = "anthropic" /\ Route(m).model = m /\ "anthropic" \in Provider
    BY <2>2 DEF Provider
  <2> QED BY <1>3, <2>1, <2>3
<1>4. CASE Prefixed(m)
  <2>1. m[1] \in Prefixes /\ ~(Len(m) = 1)
    BY <1>1, <1>4, Zenon DEF Prefixed
  <2>2. ProviderKey(m) = IF m[1] = "ollama-cloud" THEN "ollama_cloud" ELSE m[1]
    BY <1>4, <2>1 DEF ProviderKey, PrefixToProvider
  <2>3. Route(m) = [provider |-> ProviderKey(m), model |-> Tail(m)]
    BY <2>1, <2>2 DEF Route, Prefixes
  <2>4. ProviderKey(m) \in Provider
    BY <2>1, <2>2 DEF Prefixes, Provider
  <2> QED BY <1>2, <1>4, <2>3, <2>4
<1> QED BY <1>3, <1>4

\* What became of an answer tells what it was, whichever provider read it.
Unreadable(p, r) ==
    \/ r.kind \in {"timeout", "notjson", "shapeless"}
    \/ r.kind = "envelope" /\ p = "anthropic"
    \/ r.kind = "message" /\ r.calls \in {"noid", "badargs"}
Lossless(p, r, got) ==
    /\ (r.kind = "message" /\ r.calls # "none") =>
          \/ got.calls /\ got.stop = "tools"
          \/ r.finish # "tools" /\ p # "ollama_cloud"
    /\ (r.kind = "message" /\ r.text # "none" /\ ~got.text) =>
          r.text = "reasoning" /\ p \in {"anthropic", "openai", "azure", "yolo"}

LEMMA AnswersAreRead ==
    ASSUME NEW p \in Provider, NEW r \in Failures \cup Messages
    PROVE  /\ Complete(p, r).kind = "ProviderError" =>
                /\ r.kind \in {"http", "envelope", "connection"}
                /\ Complete(p, r).status = IF r.kind = "connection" THEN 0 ELSE r.status
           /\ Complete(p, r).kind = "exception" => Unreadable(p, r)
           /\ Complete(p, r).kind = "response" =>
                Lossless(p, r, Complete(p, r)) /\ Complete(p, r).text \in BOOLEAN
<1> DEFINE Fine(q, c) ==
             /\ c.kind = "ProviderError" =>
                  /\ r.kind \in {"http", "envelope", "connection"}
                  /\ c.status = IF r.kind = "connection" THEN 0 ELSE r.status
             /\ c.kind = "exception" => Unreadable(q, r)
             /\ c.kind = "response" => Lossless(q, r, c) /\ c.text \in BOOLEAN
<1> USE DEF ProviderError, Exception, Response, Unreadable, Lossless, ErrorEnvelope
<1>1. /\ r.kind \in {"http", "envelope", "timeout", "connection", "notjson", "shapeless", "message"}
      /\ r.kind = "message" => /\ r.text \in {"content", "reasoning", "none"}
                               /\ r.calls \in {"none", "good", "noid", "badargs"}
                               /\ r.finish \in {"tools", "other"}
  BY DEF Failures, Messages
<1>2. ASSUME NEW q \in Provider \ {"anthropic"}, NEW b \in BOOLEAN,
             b \/ q \in {"openai", "azure", "yolo"}, q # "ollama_cloud"
      PROVE  Fine(q, Completion(r, b))
  BY <1>1, <1>2 DEF Completion
<1>3. Fine("ollama_cloud", OllamaCloudComplete(r))
  BY <1>1 DEF OllamaCloudComplete, Completion
<1>4. Fine("anthropic", AnthropicComplete(r))
  BY <1>1 DEF AnthropicComplete
<1> HIDE DEF Fine
<1>5. Fine(p, Complete(p, r))
  BY <1>2, <1>3, <1>4 DEF Provider, Complete, OpenAIComplete, AzureComplete, YoloComplete,
     OpenRouterComplete, GoogleComplete, OllamaComplete
<1> QED BY <1>5 DEF Fine

-----------------------------------------------------------------------------
(* The inductive invariant.                                                *)

\* The models asked for, before those that come twice are dropped.
Wanted == IF asked.model = <<>> THEN agent.models ELSE <<asked.model>> \o Tail(agent.models)

Turn == [output : Outputs, shape : {"openai", "anthropic"},
         content : [form : {"blocks", "dump", "text", "repr"}, text : Text, media : BOOLEAN]]

\* The candidates are those models, throughout; until the run is over there is
\* one left to ask and a turn left to take.
Live ==
    /\ candidates = Dedupe(Wanted)
    /\ pc # "over" => /\ index \in 1..Len(candidates)
                      /\ result.status = "running"
                      /\ Len(history) = 0 \/ Len(history) < MaxIterations

\* A turn holds its output as the converter of its shape left it.
Converted ==
    \A i \in DOMAIN history :
        history[i].content = IF history[i].shape = "openai" THEN ToOpenAI(history[i].output)
                                                            ELSE ToAnthropic(history[i].output)

\* Where no fallback changes sides, every turn has the shape of the candidates.
Shaped ==
    /\ pc = "tools" => compat = (ProviderKey(candidates[index]) # "anthropic")
    /\ pc # "over" /\ Uniform => \A i \in DOMAIN history :
          history[i].shape = IF ProviderKey(candidates[index]) # "anthropic" THEN "openai" ELSE "anthropic"

LEMMA CandidatesFit ==
    ASSUME agent \in Agents, asked \in Asked, candidates = Dedupe(Wanted)
    PROVE  /\ candidates \in Seq(ModelStrings) /\ Len(candidates) \in Nat /\ Len(candidates) >= 1
           /\ Kept(Wanted, Len(Wanted), candidates)
<1>1. agent.models \in Seq(ModelStrings) /\ agent.models # <<>> /\ asked.model \in ModelStrings \cup {<<>>}
  BY ConversationAssumption
<1>2. Wanted \in Seq(ModelStrings) /\ Len(Wanted) \in Nat /\ Len(Wanted) >= 1
  <2>1. CASE asked.model = <<>>
    BY <1>1, <2>1, EmptySeq, LenProperties DEF Wanted
  <2>2. CASE asked.model # <<>>
    <3>1. <<asked.model>> \in Seq(ModelStrings) /\ Len(<<asked.model>>) = 1
      BY <1>1, <2>2
    <3>2. Tail(agent.models) \in Seq(ModelStrings) /\ Len(Tail(agent.models)) \in Nat
      BY <1>1, HeadTailProperties, LenProperties
    <3>3. <<asked.model>> \o Tail(agent.models) \in Seq(ModelStrings)
          /\ Len(<<asked.model>> \o Tail(agent.models)) = 1 + Len(Tail(agent.models))
      BY <3>1, <3>2, ConcatProperties
    <3> QED BY <2>2, <3>2, <3>3 DEF Wanted
  <2> QED BY <2>1, <2>2
<1>3. candidates \in Seq(ModelStrings) /\ Kept(Wanted, Len(Wanted), candidates)
  BY <1>2, DedupePreservesOrder
<1>4. Len(candidates) \in Nat
  BY <1>3, LenProperties
<1>5. PICK k \in 1..Len(candidates) : candidates[k] = Wanted[1]
  BY <1>2, <1>3 DEF Kept
<1> QED BY <1>3, <1>4, <1>5

\* The candidate that is asked, and where it leads.
LEMMA Asking ==
    ASSUME TypeOK, Live, pc # "over"
    PROVE  /\ candidates[index] \in ModelStrings /\ index \in DOMAIN candidates
           /\ index \in Nat /\ Len(candidates) \in Nat
           /\ Route(candidates[index]).provider = ProviderKey(candidates[index])
           /\ ProviderKey(candidates[index]) \in Provider
           /\ Request.provider = ProviderKey(candidates[index])
           /\ Request.model = Route(candidates[index]).model
<1>a. agent \in Agents /\ asked \in Asked /\ candidates = Dedupe(Wanted)
  BY DEF TypeOK, Live
<1>b. candidates \in Seq(ModelStrings) /\ Len(candidates) \in Nat
  BY <1>a, CandidatesFit
<1>1. candidates \in Seq(ModelStrings) /\ index \in 1..Len(candidates) /\ Len(candidates) \in Nat
  BY <1>b DEF Live
<1>2. candidates[index] \in ModelStrings /\ index \in DOMAIN candidates /\ index \in Nat
  BY <1>1, ElementOfSeq
<1>3. Route(candidates[index]).provider = ProviderKey(candidates[index])
      /\ ProviderKey(candidates[index]) \in Provider
  BY <1>2, TableMatchesRouter
<1>4. Request.provider = Route(candidates[index]).provider /\ Request.model = Route(candidates[index]).model
  BY DEF Request
<1> QED BY <1>1, <1>2, <1>3, <1>4

\* A result is converted to content of a type.
LEMMA ConvertedTyped ==
    ASSUME NEW o \in Outputs
    PROVE  /\ ToOpenAI(o) \in [form : {"blocks", "dump", "text", "repr"}, text : Text, media : BOOLEAN]
           /\ ToAnthropic(o) \in [form : {"blocks", "dump", "text", "repr"}, text : Text, media : BOOLEAN]
<1>1. o.text \in Text /\ o.media \in BOOLEAN
  BY ConversationAssumption DEF Output
<1>2. "none" \in Text /\ FALSE \in BOOLEAN
  BY DEF Text
<1>3. ASSUME NEW f \in {"blocks", "dump", "text", "repr"}, NEW t \in Text, NEW b \in BOOLEAN
      PROVE  [form |-> f, text |-> t, media |-> b]
               \in [form : {"blocks", "dump", "text", "repr"}, text : Text, media : BOOLEAN]
  OBVIOUS
<1>4. ExtractText(o) \in [form : {"blocks", "dump", "text", "repr"}, text : Text, media : BOOLEAN]
  BY <1>1, <1>2, <1>3 DEF ExtractText
<1> QED BY <1>1, <1>3, <1>4 DEF ToOpenAI, ToAnthropic

LEMMA FrameInvariant == Spec => [](TypeOK /\ Live)
<1> DEFINE Content == [form : {"blocks", "dump", "text", "repr"}, text : Text, media : BOOLEAN]
           Status  == {"running", "ok", "error", "max_iterations"}
           Ending  == [status : Status, provider : Provider \cup {"none"}, text : BOOLEAN]
<1>0. ASSUME NEW s \in Status, NEW q \in Provider \cup {"none"}, NEW t \in BOOLEAN
      PROVE  [status |-> s, provider |-> q, text |-> t] \in Ending
  OBVIOUS
<1>b. /\ [status |-> "error", provider |-> "none", text |-> FALSE] \in Ending
      /\ [status |-> "max_iterations", provider |-> "none", text |-> FALSE] \in Ending
  OBVIOUS
<1>1. Init => TypeOK /\ Live
  <2> SUFFICES ASSUME Init PROVE TypeOK /\ Live
    OBVIOUS
  <2>1. agent \in Agents /\ asked \in Asked /\ candidates = Dedupe(Wanted)
    BY DEF Init, Wanted
  <2>2. candidates \in Seq(ModelStrings) /\ Len(candidates) \in Nat /\ Len(candidates) >= 1
    BY <2>1, CandidatesFit
  <2>3. index \in 1..(Len(candidates) + 1) /\ index \in 1..Len(candidates)
    BY <2>2 DEF Init
  <2>4. history \in Seq(Turn) /\ Len(history) = 0 /\ Len(history) <= MaxIterations + 1
    BY ConversationAssumption, EmptySeq DEF Init
  <2>5. result \in Ending
    BY <1>0 DEF Init
  <2>6. TypeOK
    BY <2>1, <2>2, <2>3, <2>4, <2>5 DEF Init, TypeOK, Turn
  <2> QED BY <2>1, <2>3, <2>4, <2>6 DEF Init, Live
<1>2. TypeOK /\ Live /\ [Next]_vars => TypeOK' /\ Live'
  <2> SUFFICES ASSUME TypeOK, Live, [Next]_vars PROVE TypeOK' /\ Live'
    OBVIOUS
  <2>1. CASE UNCHANGED vars
    BY <2>1 DEF TypeOK, Live, Wanted, vars, given
  <2>a. ASSUME Next PROVE pc # "over" /\ UNCHANGED given
    BY <2>a DEF Next, LlmFails, LlmCrashes, SdkRefuses, Answer, Retry, Tools
  <2>b. ASSUME UNCHANGED given, pc # "over",
               index' \in 1..(Len(candidates) + 1), compat' \in BOOLEAN,
               history' \in Seq(Turn), Len(history') <= MaxIterations + 1,
               pc' \in {"asking", "retry", "tools", "over"},
               reply' \in {NoReply} \cup Failures \cup Messages, result' \in Ending
        PROVE  TypeOK'
    BY <2>b DEF TypeOK, Turn, given
  <2>c. ASSUME UNCHANGED given, pc # "over",
               pc' # "over" => /\ index' \in 1..Len(candidates) /\ result' = result
                               /\ Len(history') = 0 \/ Len(history') < MaxIterations
        PROVE  Live'
    BY <2>c DEF Live, Wanted, given
  <2>d. /\ index \in 1..(Len(candidates) + 1) /\ compat \in BOOLEAN
        /\ history \in Seq(Turn) /\ Len(history) <= MaxIterations + 1
        /\ pc \in {"asking", "retry", "tools", "over"}
        /\ reply \in {NoReply} \cup Failures \cup Messages /\ result \in Ending
    BY DEF TypeOK, Turn
  <2>e. ASSUME pc # "over"
        PROVE  /\ index \in 1..Len(candidates) /\ Len(candidates) \in Nat /\ index \in Nat
               /\ Len(history) = 0 \/ Len(history) < MaxIterations
               /\ ProviderKey(candidates[index]) \in Provider /\ Request.provider \in Provider
    BY <2>e, Asking DEF Live
  <2>2. ASSUME NEW r \in Failures \cup Messages, LlmFails(r) PROVE TypeOK' /\ Live'
    <3>1. pc # "over" /\ UNCHANGED <<given, compat, history>>
      BY <2>2 DEF LlmFails
    <3>2. /\ index' \in 1..(Len(candidates) + 1) /\ pc' \in {"asking", "retry", "tools", "over"}
          /\ reply' \in {NoReply} \cup Failures \cup Messages
          /\ pc' # "over" => index' \in 1..Len(candidates) /\ result' = result
      BY <2>d, <2>e, <2>2, <3>1 DEF LlmFails, Over
    <3>3. result' \in Ending
      <4>1. result' = result \/ result' = [status |-> "error", provider |-> "none", text |-> FALSE]
        BY <2>2 DEF LlmFails, Over
      <4> HIDE DEF Ending
      <4> QED BY <1>b, <2>d, <4>1
    <3> HIDE DEF Ending
    <3>4. TypeOK'
      BY <2>b, <2>d, <3>1, <3>2, <3>3
    <3>5. Live'
      BY <2>c, <2>e, <3>1, <3>2
    <3> QED BY <3>4, <3>5
  <2>3. CASE Retry
    <3>1. /\ pc # "over" /\ pc' = "asking" /\ reply' = NoReply
          /\ UNCHANGED <<given, index, compat, history, result>>
      BY <2>3 DEF Retry
    <3> HIDE DEF Ending
    <3>2. TypeOK'
      BY <2>b, <2>d, <3>1
    <3>3. Live'
      BY <2>c, <2>e, <3>1
    <3> QED BY <3>2, <3>3
  <2>4. ASSUME NEW r \in Failures \cup Messages, LlmCrashes(r) PROVE TypeOK' /\ Live'
    <3>1. /\ pc # "over" /\ pc' = "over" /\ reply' = r
          /\ result' = [status |-> "error", provider |-> "none", text |-> FALSE]
          /\ UNCHANGED <<given, index, compat, history>>
      BY <2>4 DEF LlmCrashes, Over
    <3>2. result' \in Ending
      BY <1>0, <3>1
    <3> HIDE DEF Ending
    <3>3. TypeOK'
      BY <2>b, <2>d, <3>1, <3>2
    <3>4. Live'
      BY <2>c, <3>1
    <3> QED BY <3>3, <3>4
  <2>7. CASE SdkRefuses
    <3>1. /\ pc # "over" /\ pc' = "over" /\ reply' = NoReply
          /\ result' = [status |-> "error", provider |-> "none", text |-> FALSE]
          /\ UNCHANGED <<given, index, compat, history>>
      BY <2>7 DEF SdkRefuses, Over
    <3>2. result' \in Ending
      BY <1>0, <3>1
    <3> HIDE DEF Ending
    <3>3. TypeOK'
      BY <2>b, <2>d, <3>1, <3>2
    <3>4. Live'
      BY <2>c, <3>1
    <3> QED BY <3>3, <3>4
  <2>5. ASSUME NEW r \in Failures \cup Messages, Answer(r) PROVE TypeOK' /\ Live'
    <3> DEFINE got == Complete(Request.provider, r)
    <3>1. pc # "over" /\ got.kind = "response" /\ UNCHANGED <<given, index, history>>
      BY <2>5 DEF Answer
    <3>2. compat' \in BOOLEAN
      BY <2>5 DEF Answer
    <3>3. \/ pc' = "tools" /\ UNCHANGED <<reply, result>>
          \/ /\ pc' = "over" /\ reply' = r
             /\ result' = [status |-> "ok", provider |-> ProviderKey(candidates[index]), text |-> got.text]
      BY <2>5 DEF Answer, Over
    <3>4. got.text \in BOOLEAN
      BY <2>e, <3>1, AnswersAreRead
    <3> HIDE DEF got
    <3>5. result' \in Ending
      BY <1>0, <2>d, <2>e, <3>1, <3>3, <3>4
    <3> HIDE DEF Ending
    <3>6. TypeOK'
      BY <2>b, <2>d, <3>1, <3>2, <3>3, <3>5
    <3>7. Live'
      BY <2>c, <2>e, <3>1, <3>3
    <3> QED BY <3>6, <3>7
  <2>6. ASSUME NEW o \in Outputs, Tools(o) PROVE TypeOK' /\ Live'
    <3> DEFINE t == [output |-> o, shape |-> IF compat THEN "openai" ELSE "anthropic",
                     content |-> IF compat THEN ToOpenAI(o) ELSE ToAnthropic(o)]
    <3>1. /\ pc # "over" /\ history' = Append(history, t)
          /\ UNCHANGED <<given, index, compat, reply>>
      BY <2>6 DEF Tools
    <3>2. \/ pc' = "over" /\ result' = [status |-> "max_iterations", provider |-> "none", text |-> FALSE]
          \/ pc' = "asking" /\ result' = result /\ ~(Len(history) + 1 >= MaxIterations)
      BY <2>6 DEF Tools, Over
    <3>3. t \in Turn
      BY ConvertedTyped DEF Turn
    <3> HIDE DEF t
    <3>4. history' \in Seq(Turn) /\ Len(history') = Len(history) + 1 /\ Len(history) \in Nat
      BY <2>d, <3>1, <3>3, AppendProperties, LenProperties
    <3>5. Len(history') <= MaxIterations + 1 /\ MaxIterations \in Nat
      BY ConversationAssumption, <2>e, <3>1, <3>4
    <3>6. result' \in Ending
      <4> HIDE DEF Ending
      <4> QED BY <1>b, <2>d, <3>2
    <3> HIDE DEF Ending
    <3>7. TypeOK'
      BY <2>b, <2>d, <3>1, <3>2, <3>4, <3>5, <3>6
    <3>8. pc' # "over" => result' = result /\ Len(history') < MaxIterations
      BY <3>2, <3>4, <3>5
    <3>9. Live'
      BY <2>c, <2>e, <3>1, <3>8
    <3> QED BY <3>7, <3>9
  <2> QED BY <2>1, <2>2, <2>3, <2>4, <2>5, <2>6, <2>7 DEF Next
<1> QED BY <1>1, <1>2, PTL DEF Spec

\* The run is typed: at most one candidate is left behind beyond the last, and
\* the history never outgrows the iterations.
THEOREM ConversationTypeCorrect == Spec => []TypeOK
  BY FrameInvariant, PTL

-----------------------------------------------------------------------------
(* Requests.                                                               *)

\* Where no fallback changes sides, the next candidate is on the same one.
LEMMA SameSide ==
    ASSUME Uniform, candidates \in Seq(ModelStrings), NEW i \in DOMAIN candidates, NEW j \in DOMAIN candidates
    PROVE  (ProviderKey(candidates[i]) # "anthropic") = (ProviderKey(candidates[j]) # "anthropic")
<1>1. candidates[i] \in ModelStrings /\ candidates[j] \in ModelStrings
  BY ElementOfSeq, LenProperties
<1>2. /\ Route(candidates[i]).provider = ProviderKey(candidates[i])
      /\ Route(candidates[j]).provider = ProviderKey(candidates[j])
  BY <1>1, TableMatchesRouter
<1> QED BY <1>2 DEF Uniform

LEMMA TurnsInvariant == Spec => [](Converted /\ Shaped)
<1>1. Init => Converted /\ Shaped
  BY EmptySeq DEF Init, Converted, Shaped
<1>2. TypeOK /\ Live /\ Converted /\ Shaped /\ [Next]_vars => Converted' /\ Shaped'
  <2> SUFFICES ASSUME TypeOK, Live, Converted, Shaped, [Next]_vars PROVE Converted' /\ Shaped'
    OBVIOUS
  <2>1. CASE UNCHANGED vars
    BY <2>1 DEF Converted, Shaped, Uniform, vars, given
  <2>a. ASSUME UNCHANGED <<given, index, history>>, pc # "over",
               pc' = "tools" => compat' = (ProviderKey(candidates[index]) # "anthropic")
        PROVE  Converted' /\ Shaped'
    BY <2>a DEF Converted, Shaped, Uniform, given
  <2>2. ASSUME NEW r \in Failures \cup Messages, LlmFails(r) PROVE Converted' /\ Shaped'
    <3>1. UNCHANGED <<given, compat, history>> /\ pc # "over" /\ pc' # "tools"
      BY <2>2 DEF LlmFails, Over
    <3>2. CASE index' = index
      BY <2>a, <3>1, <3>2
    <3>3. CASE index' = index + 1 /\ index < Len(candidates)
      <4>1. candidates \in Seq(ModelStrings) /\ index \in DOMAIN candidates /\ index + 1 \in DOMAIN candidates
        BY <3>1, <3>3, Asking DEF TypeOK
      <4>2. Uniform => (ProviderKey(candidates[index]) # "anthropic")
                          = (ProviderKey(candidates[index + 1]) # "anthropic")
        BY <4>1, SameSide
      <4> QED BY <3>1, <3>3, <4>2 DEF Converted, Shaped, Uniform, given
    <3>4. CASE pc' = "over"
      BY <3>1, <3>4 DEF Converted, Shaped, given
    <3> QED BY <2>2, <3>2, <3>3, <3>4 DEF LlmFails, Over
  <2>3. CASE Retry
    BY <2>3, <2>a DEF Retry
  <2>4. ASSUME NEW r \in Failures \cup Messages, LlmCrashes(r) PROVE Converted' /\ Shaped'
    BY <2>4, <2>a DEF LlmCrashes, Over
  <2>7. CASE SdkRefuses
    BY <2>7, <2>a DEF SdkRefuses, Over
  <2>5. ASSUME NEW r \in Failures \cup Messages, Answer(r) PROVE Converted' /\ Shaped'
    BY <2>5, <2>a DEF Answer
  <2>6. ASSUME NEW o \in Outputs, Tools(o) PROVE Converted' /\ Shaped'
    <3> DEFINE t == [output |-> o, shape |-> IF compat THEN "openai" ELSE "anthropic",
                     content |-> IF compat THEN ToOpenAI(o) ELSE ToAnthropic(o)]
    <3>1. /\ pc = "tools" /\ pc' # "tools" /\ history' = Append(history, t)
          /\ UNCHANGED <<given, index, compat>>
      BY <2>6 DEF Tools, Over
    <3>2. compat = (ProviderKey(candidates[index]) # "anthropic")
      BY <3>1 DEF Shaped
    <3>3. t \in Turn
      BY ConvertedTyped DEF Turn
    <3>4. /\ t.content = IF t.shape = "openai" THEN ToOpenAI(t.output) ELSE ToAnthropic(t.output)
          /\ t.shape = IF ProviderKey(candidates[index]) # "anthropic" THEN "openai" ELSE "anthropic"
      BY <3>2
    <3> HIDE DEF t
    <3>5. ASSUME NEW i \in DOMAIN history' PROVE (i \in DOMAIN history /\ history'[i] = history[i]) \/ history'[i] = t
      <4>1. history \in Seq(Turn)
        BY DEF TypeOK, Turn
      <4> QED BY <3>1, <3>3, <4>1, AppendProperties, LenProperties
    <3>6. Converted'
      BY <3>4, <3>5 DEF Converted
    <3>7. Shaped'
      BY <3>1, <3>4, <3>5 DEF Shaped, Uniform, given
    <3> QED BY <3>6, <3>7
  <2> QED BY <2>1, <2>2, <2>3, <2>4, <2>5, <2>6, <2>7 DEF Next
<1> QED BY <1>1, <1>2, FrameInvariant, PTL DEF Spec

\* What goes on the wire of a turn in the history.
LEMMA OnTheWire ==
    ASSUME TypeOK, NEW i \in DOMAIN history
    PROVE  history[i] \in Turn /\ Request.turns[i] = Wire(Request.provider, history[i])
<1>1. history \in Seq(Turn)
  BY DEF TypeOK, Turn
<1>2. history[i] \in Turn
  BY <1>1, ElementOfSeq, LenProperties
<1>3. Request.turns[i] = Wire(Request.provider, history[i])
  BY DEF Request
<1> QED BY <1>2, <1>3

\* Every request has tool definitions and, unless the candidates mix Anthropic
\* with others, a history in the shape its provider reads: router.py and the
\* converters of tool_translator.py agree after every fallback.
THEOREM RequestsFit == Spec => []RequestFitsProvider
<1>1. TypeOK /\ Live /\ Shaped => RequestFitsProvider
  <2> SUFFICES ASSUME TypeOK, Live, Shaped, pc = "asking"
               PROVE  /\ Request.tools = IF Request.provider = "anthropic" THEN "anthropic" ELSE "openai"
                      /\ Uniform => \A i \in DOMAIN history : Request.turns[i].shape = Reads(Request.provider)
    BY DEF RequestFitsProvider
  <2> DEFINE p == ProviderKey(candidates[index])
  <2>1. Request.provider = p /\ p \in Provider
    BY Asking
  <2>2. Request.tools = IF Request.provider = "anthropic" THEN "anthropic" ELSE "openai"
    BY <2>1 DEF Request, ToolShape
  <2>3. ASSUME Uniform, NEW i \in DOMAIN history PROVE Request.turns[i].shape = Reads(Request.provider)
    <3>1. history[i].shape = IF p # "anthropic" THEN "openai" ELSE "anthropic"
      BY <2>3 DEF Shaped
    <3>2. history[i] \in Turn /\ Request.turns[i] = Wire(p, history[i])
      BY <2>1, OnTheWire
    <3> HIDE DEF p
    <3>4. Normalized(history[i]).shape = IF history[i].shape # "openai" THEN history[i].shape ELSE "native"
      BY <3>2 DEF Normalized, Turn
    <3>5. Wire(p, history[i]).shape = Reads(p)
      BY <3>1, <3>4 DEF Wire, Reads
    <3> QED BY <2>1, <3>2, <3>5
  <2> QED BY <2>2, <2>3
<1> QED BY <1>1, FrameInvariant, TurnsInvariant, PTL

\* What a converter and the wire keep of a result.
Faithful(o, p, sent) ==
    /\ o.media /\ ~sent.media => (o.error /\ o.text # "none") \/ p = "ollama_cloud"
    /\ o.text # "none" /\ sent.text = "none" => p = "ollama_cloud" /\ o.error /\ o.text = "list"

LEMMA ConversionIsFaithful ==
    ASSUME NEW o, NEW p, NEW turn \in Turn,
           turn.content = IF turn.shape = "openai" THEN ToOpenAI(o) ELSE ToAnthropic(o)
    PROVE  Faithful(o, p, Wire(p, turn).content)
<1>1. CASE ~(p = "ollama_cloud" /\ turn.shape = "openai")
  <2>1. Wire(p, turn) = turn
    BY <1>1 DEF Wire, Normalized
  <2> QED BY <2>1 DEF Faithful, ToOpenAI, ToAnthropic, ExtractText
<1>2. CASE p = "ollama_cloud" /\ turn.shape = "openai"
  <2> DEFINE c == turn.content
  <2>1. Wire(p, turn).content =
          CASE c.form = "dump" -> [form |-> "text", text |-> c.text, media |-> FALSE]
            [] c.form = "text" /\ c.text = "list" -> [form |-> "text", text |-> "none", media |-> FALSE]
            [] OTHER -> c
    BY <1>2 DEF Wire, Normalized, Turn
  <2>2. CASE o.error
    BY <1>2, <2>1, <2>2 DEF Faithful, ToOpenAI, ExtractText
  <2>3. CASE ~o.error
    <3>1. c.form = "dump" /\ c.text = o.text
      BY <1>2, <2>3 DEF ToOpenAI
    <3>2. Wire(p, turn).content.text = o.text
      BY <2>1, <3>1
    <3> QED BY <1>2, <3>2 DEF Faithful
  <2> QED BY <2>2, <2>3
<1> QED BY <1>1, <1>2

\* What a tool returned is whole in every later request, but for the exceptions
\* named in OutputReachesModel: the converters of tool_translator.py and
\* _normalize_messages of Ollama Cloud, whichever model answered in between.
THEOREM OutputsReachTheModel == Spec => []OutputReachesModel
<1>1. TypeOK /\ Converted => OutputReachesModel
  <2> SUFFICES ASSUME TypeOK, Converted, NEW i \in DOMAIN history
               PROVE  Faithful(history[i].output, Request.provider, Request.turns[i].content)
    BY DEF OutputReachesModel, Faithful
  <2>1. history[i] \in Turn /\ Request.turns[i] = Wire(Request.provider, history[i])
    BY OnTheWire
  <2>2. Faithful(history[i].output, Request.provider, Wire(Request.provider, history[i]).content)
    BY <2>1, ConversionIsFaithful DEF Converted
  <2> QED BY <2>1, <2>2
<1> QED BY <1>1, FrameInvariant, TurnsInvariant, PTL

\* An agent without findings, asked for as it is: every request of its runs is
\* to a provider with credentials and a host (but yolo's), by a name without a
\* prefix, and thinks as the agent says.  provider_configured_map and the table
\* of router.py say in advance what the router and the providers do.
THEOREM SilenceIsSound == Spec => []SilentValidationHolds
<1>1. TypeOK /\ Live => SilentValidationHolds
  <2> SUFFICES ASSUME TypeOK, Live, pc = "asking", Findings(agent) = {}, asked.model = <<>>,
                      asked.thinking = "unset"
               PROVE  /\ Request.thinking <=> agent.thinking = "on"
                      /\ Keyed(Request.provider)
                      /\ Addressable(Request.provider) \/ Request.provider = "yolo"
                      /\ Request.model # candidates[index] <=> Len(candidates[index]) > 1
    BY DEF SilentValidationHolds
  <2> DEFINE m == candidates[index]
             p == ProviderKey(m)
  <2>1. /\ m \in ModelStrings /\ p \in Provider /\ Request.provider = p
        /\ Request.model = Route(m).model
    BY Asking
  <2>2. \E i \in DOMAIN agent.models : m = agent.models[i]
    <3>1. agent \in Agents /\ asked \in Asked /\ candidates = Dedupe(Wanted) /\ Wanted = agent.models
      BY DEF TypeOK, Live, Wanted
    <3>2. Kept(agent.models, Len(agent.models), candidates) /\ index \in 1..Len(candidates)
      BY <3>1, CandidatesFit DEF Live
    <3>3. PICK j \in 1..Len(agent.models) : m = agent.models[j]
      BY <3>2 DEF Kept
    <3>4. 1..Len(agent.models) = DOMAIN agent.models
      BY <3>1, ConversationAssumption, LenProperties
    <3> QED BY <3>3, <3>4
  <2>3. /\ ~(Len(m) > 1 /\ ~Prefixed(m))
        /\ Len(m) = 1 \/ Prefixed(m) => Configured(p)
        /\ ~(agent.thinking = "on" /\ p # "anthropic")
    <3> DEFINE models == {agent.models[i] : i \in DOMAIN agent.models}
    <3>1. m \in models
      BY <2>2
    <3> HIDE DEF m, models
    <3>2. Findings(agent) =
            {[field |-> "model", severity |-> "error", value |-> n] :
                n \in {n \in models : Len(n) > 1 /\ ~Prefixed(n)}}
            \cup {[field |-> "model", severity |-> "warning", value |-> n] :
                n \in {n \in models : (Len(n) = 1 \/ Prefixed(n)) /\ ~Configured(ProviderKey(n))}}
            \cup {[field |-> "thinking_level", severity |-> "warning", value |-> n] :
                n \in {n \in models : agent.thinking = "on" /\ ProviderKey(n) \notin ThinkingCapable}}
      BY DEF Findings, models
    <3>3. /\ {n \in models : Len(n) > 1 /\ ~Prefixed(n)} = {}
          /\ {n \in models : (Len(n) = 1 \/ Prefixed(n)) /\ ~Configured(ProviderKey(n))} = {}
          /\ {n \in models : agent.thinking = "on" /\ ProviderKey(n) \notin ThinkingCapable} = {}
      BY <3>2
    <3> QED BY <3>1, <3>3 DEF ThinkingCapable
  <2>4. /\ Prefixed(m) => Route(m).model # m
        /\ ~Prefixed(m) => Route(m).model = m
    BY <2>1, TableMatchesRouter
  <2>5. Len(m) = 1 \/ Len(m) > 1
    BY <2>1, OneOrMore
  <2>6. Request.thinking <=> agent.thinking = "on"
    <3>1. Request.thinking = Budgeted(Request.provider) /\ Thinking = agent.thinking
      BY <2>1 DEF Request, Thinking
    <3> QED BY <2>1, <2>3, <3>1 DEF Budgeted
  <2> HIDE DEF m, p
  <2>7. Configured(p)
    BY <2>3, <2>5
  <2>8. Keyed(p) /\ (Addressable(p) \/ p = "yolo")
    BY <2>7 DEF Keyed, Addressable, Configured
  <2>9. Request.model # m <=> Len(m) > 1
    BY <2>1, <2>3, <2>4 DEF Prefixed
  <2> QED BY <2>1, <2>6, <2>8, <2>9 DEF m
<1> QED BY <1>1, FrameInvariant, PTL

-----------------------------------------------------------------------------
(* Ends.                                                                   *)

LEMMA EndsInvariant == Spec => [](FailuresFallOver /\ AnswerIsWhole)
<1>1. Init => FailuresFallOver /\ AnswerIsWhole
  BY DEF Init, FailuresFallOver, AnswerIsWhole
<1>2. TypeOK /\ Live /\ FailuresFallOver /\ AnswerIsWhole /\ [Next]_vars => FailuresFallOver' /\ AnswerIsWhole'
  <2> SUFFICES ASSUME TypeOK, Live, FailuresFallOver, AnswerIsWhole, [Next]_vars
               PROVE  FailuresFallOver' /\ AnswerIsWhole'
    OBVIOUS
  <2>1. CASE UNCHANGED vars
    BY <2>1 DEF FailuresFallOver, AnswerIsWhole, Request, Thinking, vars, given
  <2>a. ASSUME pc' # "retry", result'.status \notin {"ok", "error"} PROVE FailuresFallOver' /\ AnswerIsWhole'
    BY <2>a DEF FailuresFallOver, AnswerIsWhole
  <2>b. ASSUME pc # "over"
        PROVE  /\ result.status = "running" /\ Request.provider \in Provider
               /\ Request.provider = ProviderKey(candidates[index]) /\ index \in Nat /\ Len(candidates) \in Nat
    BY <2>b, Asking DEF Live
  <2>c. ASSUME UNCHANGED <<given, index>> PROVE Request'.provider = Request.provider
    BY <2>c DEF Request, given
  <2>2. ASSUME NEW r \in Failures \cup Messages, LlmFails(r) PROVE FailuresFallOver' /\ AnswerIsWhole'
    <3>1. pc = "asking" /\ Failed(r).kind = "ProviderError" /\ UNCHANGED given
      BY <2>2 DEF LlmFails
    <3>2. CASE /\ Failed(r).status \in RetryableStatusCodes \cup {0}
               /\ pc' = "retry" /\ reply' = r /\ UNCHANGED result
      <4>1. Transient(r)
        <5>1. CASE r.kind = "timeout"
          BY <5>1 DEF Transient
        <5>2. CASE r.kind # "timeout"
          <6>1. /\ r.kind \in {"http", "envelope", "connection"}
                /\ r.kind # "connection" => r.status \in RetryableStatusCodes \cup {0}
            <7>1. Failed(r) = Complete(Request.provider, r)
              BY <5>2 DEF Failed
            <7> QED BY <2>b, <3>1, <3>2, <7>1, AnswersAreRead
          <6>2. r.kind = "http" => r.status # 0
            BY ConversationAssumption, <6>1 DEF Failures, Messages
          <6> QED BY <6>1, <6>2 DEF Transient
        <5> QED BY <5>1, <5>2
      <4> QED BY <2>b, <3>1, <3>2, <4>1 DEF FailuresFallOver, AnswerIsWhole, Transient
    <3>3. CASE UNCHANGED <<pc, reply, result>>
      BY <2>a, <2>b, <3>1, <3>3
    <3>4. CASE index = Len(candidates) /\ index' = index + 1 /\ Over("error", "none", FALSE)
      <4>1. ~(index' <= Len(candidates')) /\ pc' = "over" /\ result'.status = "error"
        BY <2>b, <3>1, <3>4 DEF Over, given
      <4> QED BY <4>1 DEF FailuresFallOver, AnswerIsWhole
    <3> QED BY <2>2, <3>2, <3>3, <3>4 DEF LlmFails
  <2>3. CASE Retry
    <3>1. pc # "over" /\ pc' # "retry" /\ UNCHANGED result
      BY <2>3 DEF Retry
    <3> QED BY <2>a, <2>b, <3>1
  <2>4. ASSUME NEW r \in Failures \cup Messages, LlmCrashes(r) PROVE FailuresFallOver' /\ AnswerIsWhole'
    <3>1. /\ pc = "asking" /\ r.kind # "timeout" /\ Failed(r) = Exception /\ reply' = r
          /\ pc' = "over" /\ result'.status = "error" /\ UNCHANGED <<given, index>>
      BY <2>4 DEF LlmCrashes, Over
    <3>2. Complete(Request.provider, r).kind = "exception"
      BY <3>1 DEF Failed, Exception
    <3>3. Unreadable(Request.provider, r)
      BY <2>b, <3>1, <3>2, AnswersAreRead
    <3>4. Request'.provider = Request.provider
      BY <2>c, <3>1
    <3> QED BY <3>1, <3>3, <3>4 DEF FailuresFallOver, AnswerIsWhole, Unreadable
  <2>7. CASE SdkRefuses
    <3>1. /\ pc' = "over" /\ result'.status = "error" /\ reply' = NoReply /\ UNCHANGED <<given, index>>
          /\ Request.provider = "anthropic"
      BY <2>7 DEF SdkRefuses, Over
    <3>2. Request'.provider = "anthropic"
      BY <2>c, <3>1
    <3> QED BY <3>1, <3>2 DEF FailuresFallOver, AnswerIsWhole
  <2>5. ASSUME NEW r \in Failures \cup Messages, Answer(r) PROVE FailuresFallOver' /\ AnswerIsWhole'
    <3> DEFINE got == Complete(Request.provider, r)
    <3>1. pc = "asking" /\ got.kind = "response" /\ UNCHANGED <<given, index>>
      BY <2>5 DEF Answer
    <3>2. Lossless(Request.provider, r, got)
      BY <2>b, <3>1, AnswersAreRead
    <3>3. Request'.provider = Request.provider
      BY <2>c, <3>1
    <3>4. CASE got.calls /\ got.stop = "tools"
      <4>1. pc' = "tools" /\ UNCHANGED result
        BY <2>5, <3>4 DEF Answer
      <4> QED BY <2>a, <2>b, <3>1, <4>1
    <3>5. CASE ~(got.calls /\ got.stop = "tools")
      <4>1. /\ pc' = "over" /\ reply' = r
            /\ result' = [status |-> "ok", provider |-> ProviderKey(candidates[index]), text |-> got.text]
        BY <2>5, <3>5 DEF Answer, Over
      <4> HIDE DEF got
      <4>2. result'.status = "ok" /\ result'.provider = Request'.provider /\ result'.text = got.text
        BY <2>b, <3>1, <3>3, <4>1
      <4> QED BY <3>2, <3>3, <3>5, <4>1, <4>2 DEF FailuresFallOver, AnswerIsWhole, Lossless
    <3> QED BY <3>4, <3>5
  <2>6. ASSUME NEW o \in Outputs, Tools(o) PROVE FailuresFallOver' /\ AnswerIsWhole'
    <3>1. /\ pc # "over" /\ pc' # "retry"
          /\ result' = [status |-> "max_iterations", provider |-> "none", text |-> FALSE] \/ UNCHANGED result
      BY <2>6 DEF Tools, Over
    <3> QED BY <2>a, <2>b, <3>1
  <2> QED BY <2>1, <2>2, <2>3, <2>4, <2>5, <2>6, <2>7 DEF Next
<1> QED BY <1>1, <1>2, FrameInvariant, PTL DEF Spec

\* Only what upstream calls transient is retried, and an error ends the run with
\* candidates left only after an answer in none of the forms its provider reads, or
\* if Anthropic's SDK sent no request: error_from_http and
\* raise_if_error_envelope make the two ways of failing one.
THEOREM FailuresJudgedAlike == Spec => []FailuresFallOver
  BY EndsInvariant, PTL

\* The provider AgentRunResult names is the one that answered, and what was lost
\* of the answer is what AnswerIsWhole lists: the parsers of the providers.
THEOREM AnswersWhole == Spec => []AnswerIsWhole
  BY EndsInvariant, PTL

===============================================================================
