-------------------------- MODULE AgentStoreProofs --------------------------
(***************************************************************************)
(* Proofs about AgentStore for any number of agents, texts, edits, SIGHUPs *)
(* and nested reloads: what was acknowledged is served, and a reload that  *)
(* interrupted no other catches up with the disk.                          *)
(***************************************************************************)
EXTENDS AgentStore, SequenceTheorems, TLAPS

Built    == [yaml : Buildable, soul : Soul]
Accepted == [yaml : Good \cup Misnamed, soul : Soul]
Final    == Accepted \cup {Absent}

\* A load_agents call has an agent still to read, or has seen it as it is.
Saw(c, a, d) == a \in c.todo \/ c.seen[a] = View(d)
AllSaw(a) == \A k \in 1..Len(scans) : Saw(scans[k], a, disk[a])

\* The request being handled, and the text it brings.
Handled ==
    /\ up # "serving" => stage = "idle"
    /\ stage = "idle" => job = NoJob
    /\ stage \notin {"idle", "reloading"} => job.agent \in Agent
    /\ stage \in {"yaml", "soul"} => job.dir \in Accepted
    /\ stage = "unlinkSoul" => job.dir = Absent
    /\ job.dir \in Final

\* What a response promised, or the files on their way to it.
Kept(a) ==
    /\ pledged[a] \in Dir =>
          /\ job.agent # a /\ pledged[a] \in Final /\ disk[a] = pledged[a]
          /\ up = "serving" => registry[a] = View(pledged[a])
          /\ AllSaw(a)
    /\ pledged[a] = Pending =>
          /\ job.agent = a /\ stage # "idle"
          /\ stage \in {"soul", "unlinkSoul"} => disk[a].yaml = job.dir.yaml
          /\ stage \in {"reload", "reloading"} => disk[a] = job.dir
          /\ stage = "reloading" => AllSaw(a)

\* The outermost reload, or the registry it left.
Caught(a) ==
    a \notin stale =>
        IF scans = << >> THEN up = "serving" => registry[a] = View(disk[a])
                         ELSE Saw(scans[Len(scans)], a, disk[a])

\* What the registry, the disk and the scans have of an agent is among the pairs
\* that were acknowledged or edited; a write under way is not done with them.
AllSeen(c, a, S) == \A k \in 1..Len(c) : c[k].seen[a] \in S
Asked(a)   == intended[a] \cup {Absent}
Unmixed(a) ==
    a \notin disturbed =>
        /\ job.agent = a => pledged[a] = Pending
        /\ stage \in {"idle", "yaml"} \/ job.agent # a =>
              /\ registry[a] \in Asked(a) /\ View(disk[a]) \in Asked(a)
              /\ AllSeen(scans, a, Asked(a))

Unbroken == edits = 0 => \A a \in Agent : disk[a].yaml \in Buildable \cup Misnamed \cup {None}

StoreInv ==
    /\ TypeOK /\ Handled /\ Unbroken
    /\ \A a \in Agent : Kept(a) /\ Caught(a) /\ Unmixed(a)

-----------------------------------------------------------------------------
(* Texts and scans.                                                        *)

\* The empty directory, and what is none of the texts.
LEMMA Texts ==
    /\ Absent \in Dir /\ Absent \notin Whole /\ Absent.yaml = None /\ Absent.soul = None
    /\ \A d \in Whole : d \in Dir
    /\ Built \subseteq Whole /\ Final \subseteq Dir /\ Final \subseteq Whole \cup {Absent}
    /\ None \notin Buildable /\ None \notin Good /\ Good \subseteq Buildable /\ Buildable \subseteq Yaml
    /\ None \notin Misnamed /\ Misnamed \subseteq Yaml /\ Misnamed \cap Buildable = {}
    /\ NoJob.agent = None /\ NoJob.dir = Absent /\ None \notin Agent
BY StoreAssumption DEF Absent, Dir, Whole, Built, Accepted, Final, Yaml, Buildable, NoJob

\* What the loader sees: what builds, or nothing; what was accepted as it is, unless
\* it was accepted under another name.
LEMMA Views ==
    /\ \A d \in Dir : View(d) \in {Absent} \cup Built
    /\ \A d \in Final : View(d) = IF d.yaml \in Misnamed THEN Absent ELSE d
    /\ \A d \in Dir : d.yaml = None => View(d) = Absent
<1>1. ASSUME NEW d \in Dir PROVE View(d) \in {Absent} \cup Built
  <2>1. CASE Listed(d) /\ d.yaml \in Buildable
    <3>1. d \in Built
      BY <2>1 DEF Dir, Listed, Built
    <3> QED BY <2>1, <3>1 DEF View
  <2>2. CASE ~(Listed(d) /\ d.yaml \in Buildable)
    BY <2>2 DEF View
  <2> QED BY <2>1, <2>2
<1>2. ASSUME NEW d \in Final PROVE View(d) = IF d.yaml \in Misnamed THEN Absent ELSE d
  <2>1. CASE d = Absent
    BY <2>1, Texts DEF View
  <2>2. CASE d \in Accepted /\ d.yaml \in Good
    <3>1. d.soul \in Soul /\ d.yaml # None /\ d.soul # None
      BY <2>2, StoreAssumption, Texts DEF Accepted
    <3> QED BY <2>2, <3>1, Texts DEF View, Listed
  <2>3. CASE d \in Accepted /\ d.yaml \in Misnamed
    BY <2>3, Texts DEF View
  <2> QED BY <2>1, <2>2, <2>3 DEF Final, Accepted
<1>3. \A d \in Dir : d.yaml = None => View(d) = Absent
  BY DEF View, Listed
<1> QED BY <1>1, <1>2, <1>3

\* A scan that begins has every agent to read that it can see.
LEMMA NewScanSees ==
    ASSUME TypeOK
    PROVE  /\ NewScan \in Scan
           /\ \A a \in Agent : Saw(NewScan, a, disk[a])
<1>1. NewScan.todo = {a \in Agent : disk[a].yaml # None} /\ NewScan.seen = Nothing
  BY DEF NewScan
<1>2. Nothing \in Registry
  BY DEF Nothing, Registry
<1>3. NewScan \in Scan
  BY <1>1, <1>2 DEF NewScan, Scan
<1>4. ASSUME NEW a \in Agent PROVE Saw(NewScan, a, disk[a])
  <2>1. disk[a] \in Dir /\ Nothing[a] = Absent
    BY DEF TypeOK, Nothing
  <2> QED BY <1>1, <2>1, Views DEF Saw
<1> QED BY <1>3, <1>4

LEMMA PushedScan ==
    ASSUME TypeOK, scans' = <<NewScan>> \o scans
    PROVE  /\ scans' \in Seq(Scan) /\ Len(scans') = Len(scans) + 1 /\ scans' # << >>
           /\ scans'[1] = NewScan
           /\ \A k \in 1..Len(scans) : scans'[k + 1] = scans[k]
           /\ \A k \in 1..Len(scans') : k = 1 \/ (k - 1 \in 1..Len(scans) /\ scans'[k] = scans[k - 1])
<1>1. NewScan \in Scan /\ scans \in Seq(Scan)
  BY NewScanSees DEF TypeOK
<1>2. <<NewScan>> \in Seq(Scan) /\ Len(<<NewScan>>) = 1 /\ <<NewScan>>[1] = NewScan
  BY <1>1
<1>3. /\ scans' \in Seq(Scan) /\ Len(scans') = 1 + Len(scans)
      /\ \A i \in 1..(1 + Len(scans)) :
            scans'[i] = IF i <= 1 THEN <<NewScan>>[i] ELSE scans[i - 1]
  BY <1>1, <1>2, ConcatProperties
<1>4. Len(scans) \in Nat
  BY <1>1, LenProperties
<1>5. scans' # << >>
  BY <1>3, <1>4, EmptySeq
<1> QED BY <1>2, <1>3, <1>4, <1>5

LEMMA OneScan ==
    ASSUME TypeOK, scans' = <<NewScan>>
    PROVE  /\ scans' \in Seq(Scan) /\ Len(scans') = 1 /\ scans' # << >> /\ scans'[1] = NewScan
           /\ \A k \in 1..Len(scans') : k = 1
<1>1. NewScan \in Scan
  BY NewScanSees
<1>2. scans' \in Seq(Scan) /\ Len(scans') = 1 /\ scans'[1] = NewScan
  BY <1>1
<1> QED BY <1>2, EmptySeq

LEMMA PoppedScan ==
    ASSUME TypeOK, scans # << >>, scans' = Tail(scans)
    PROVE  /\ scans' \in Seq(Scan) /\ Len(scans') = Len(scans) - 1 /\ Len(scans) >= 1
           /\ \A k \in 1..Len(scans') : k + 1 \in 1..Len(scans) /\ scans'[k] = scans[k + 1]
           /\ scans' = << >> <=> Len(scans) = 1
<1>1. scans \in Seq(Scan) /\ Len(scans) \in Nat /\ Len(scans) # 0
  BY LenProperties, EmptySeq DEF TypeOK
<1>2. scans' \in Seq(Scan) /\ Len(scans') = Len(scans) - 1
      /\ \A k \in 1..Len(scans') : scans'[k] = scans[k + 1]
  BY <1>1, HeadTailProperties
<1>3. scans' = << >> <=> Len(scans') = 0
  BY <1>2, EmptySeq
<1> QED BY <1>1, <1>2, <1>3

LEMMA ReadScan ==
    ASSUME TypeOK, NEW a \in Agent, ReadAgent(a)
    PROVE  /\ scans' \in Seq(Scan) /\ Len(scans') = Len(scans) /\ scans # << >> /\ scans' # << >>
           /\ \A k \in 1..Len(scans) : k # 1 => scans'[k] = scans[k]
           /\ scans'[1].todo = scans[1].todo \ {a}
           /\ scans'[1].seen = [scans[1].seen EXCEPT ![a] = View(disk[a])]
           /\ scans[1].seen \in Registry
<1>1. /\ scans # << >> /\ scans \in Seq(Scan) /\ disk[a] \in Dir
      /\ scans' = [scans EXCEPT ![1] = [todo |-> scans[1].todo \ {a},
                                        seen |-> [scans[1].seen EXCEPT ![a] = View(disk[a])]]]
  BY DEF ReadAgent, Reading, TypeOK
<1> DEFINE c == [todo |-> scans[1].todo \ {a},
                 seen |-> [scans[1].seen EXCEPT ![a] = View(disk[a])]]
<1>2. Len(scans) \in Nat /\ 1 \in 1..Len(scans) /\ scans[1] \in Scan
  BY <1>1, LenProperties, EmptySeq, ElementOfSeq
<1>3. scans[1].todo \subseteq Agent /\ scans[1].seen \in Registry
      /\ scans[1] = [todo |-> scans[1].todo, seen |-> scans[1].seen]
  BY <1>2 DEF Scan
<1>4. c \in Scan
  <2>1. View(disk[a]) \in {Absent} \cup [yaml : Buildable, soul : Soul]
    BY <1>1, Views DEF Built
  <2>2. [scans[1].seen EXCEPT ![a] = View(disk[a])] \in Registry
    BY <1>3, <2>1 DEF Registry
  <2> QED BY <1>3, <2>2 DEF Scan
<1>5. scans' = [scans EXCEPT ![1] = c]
  BY <1>1
<1> HIDE DEF c
<1>6. scans' \in Seq(Scan) /\ Len(scans') = Len(scans) /\ scans'[1] = c
      /\ \A k \in 1..Len(scans) : k # 1 => scans'[k] = scans[k]
  <2>1. /\ [scans EXCEPT ![1] = c] \in Seq(Scan) /\ Len([scans EXCEPT ![1] = c]) = Len(scans)
        /\ \A k \in 1..Len(scans) : [scans EXCEPT ![1] = c][k] = IF k = 1 THEN c ELSE scans[k]
    BY <1>1, <1>2, <1>4, ExceptSeq
  <2> QED BY <1>2, <1>5, <2>1
<1>7. scans' # << >>
  BY <1>2, <1>6, EmptySeq
<1> QED BY <1>1, <1>3, <1>6, <1>7 DEF c

\* Every create and update that is accepted brings two files.
LEMMA Requests ==
    ASSUME TypeOK, NEW a \in Agent, (\E n, o \in BOOLEAN : CreateAgent(a, n, o)) \/ UpdateAgent(a)
    PROVE  \E d \in Whole, n \in BOOLEAN : BeginWrite(a, n, d)
<1>1. \A y \in Yaml, s \in Soul : [yaml |-> y, soul |-> s] \in Whole
  BY DEF Whole
<1>2. disk[a] \in Dir /\ NoSoul \in Soul
  BY StoreAssumption DEF TypeOK
<1>3. ASSUME UpdateAgent(a) PROVE \E d \in Whole, n \in BOOLEAN : BeginWrite(a, n, d)
  <2>1. disk[a].yaml \in Yaml /\ disk[a].soul \in Soul \cup {None}
    BY <1>2, <1>3 DEF UpdateAgent, Dir
  <2> QED BY <1>1, <1>2, <1>3, <2>1 DEF UpdateAgent
<1>4. ASSUME NEW m \in BOOLEAN, NEW o \in BOOLEAN, CreateAgent(a, m, o) PROVE \E d \in Whole, n \in BOOLEAN : BeginWrite(a, n, d)
  BY <1>1, <1>4 DEF CreateAgent
<1> QED BY <1>3, <1>4

-----------------------------------------------------------------------------
(* Types.                                                                  *)

LEMMA StoreTypes == TypeOK /\ Handled /\ [Next]_vars => TypeOK'
<1> SUFFICES ASSUME TypeOK, Handled, [Next]_vars PROVE TypeOK'
  OBVIOUS
<1> USE DEF process, ghosts
<1>0. /\ up \in {"down", "booting", "serving"} /\ disk \in [Agent -> Dir] /\ registry \in Registry
      /\ stage \in {"idle", "yaml", "soul", "unlinkSoul", "reload", "reloading"}
      /\ job \in [agent : Agent \cup {None}, dir : Whole \cup {Absent}]
      /\ scans \in Seq(Scan) /\ Len(scans) <= MaxNest /\ Len(scans) \in Nat
      /\ edits \in 0..MaxEdits /\ hups \in 0..MaxHups
      /\ pledged \in [Agent -> Dir \cup {Unknown, Pending}] /\ intended \in [Agent -> SUBSET Dir]
      /\ disturbed \subseteq Agent /\ stale \subseteq Agent
      /\ MaxNest \in Nat \ {0} /\ MaxEdits \in Nat /\ MaxHups \in Nat /\ Target \subseteq Agent
  BY StoreAssumption, LenProperties DEF TypeOK
<1>a. NoJob \in [agent : Agent \cup {None}, dir : Whole \cup {Absent}] /\ Nothing \in Registry
  BY DEF NoJob, Nothing, Registry
<1>b. CutShort => /\ pledged' \in [Agent -> Dir \cup {Unknown, Pending}] /\ disturbed' \subseteq Agent
                  /\ intended' \in [Agent -> SUBSET Dir]
  BY <1>0 DEF CutShort
<1>1. ASSUME NEW a \in Agent, ReadAgent(a) PROVE TypeOK'
  <2>1. /\ scans' \in Seq(Scan) /\ Len(scans') = Len(scans)
        /\ UNCHANGED <<up, registry, stage, job, disk, edits, hups, ghosts, stale>>
    BY <1>1, ReadScan DEF ReadAgent
  <2> QED BY <1>0, <2>1 DEF TypeOK
<1>2. ASSUME NEW a \in Agent, ReloadRaises(a) PROVE TypeOK'
  <2>1. /\ stage' = "idle" /\ job' = NoJob /\ scans' = << >> /\ CutShort /\ stale' = Agent
        /\ up' \in {"down", up} /\ registry' \in {registry, Nothing}
        /\ UNCHANGED <<disk, edits, hups>>
    BY <1>2 DEF ReloadRaises, Forget
  <2>2. scans' \in Seq(Scan) /\ Len(scans') = 0
    BY <2>1
  <2> QED BY <1>0, <1>a, <1>b, <2>1, <2>2 DEF TypeOK
<1>3. ASSUME NEW a \in Agent, NEW d \in Dir, Edit(a, d) PROVE TypeOK'
  <2>1. /\ edits < MaxEdits /\ edits' = edits + 1 /\ disk' = [disk EXCEPT ![a] = d]
        /\ pledged' = [pledged EXCEPT ![a] = Unknown] /\ stale' = stale \cup {a}
        /\ intended' = [intended EXCEPT ![a] = IF a \in disturbed' THEN {} ELSE intended[a] \cup {d}]
        /\ disturbed' \in {disturbed, disturbed \cup {a}}
        /\ UNCHANGED <<up, registry, stage, job, scans, hups>>
    BY <1>3 DEF Edit
  <2>2. /\ disk' \in [Agent -> Dir] /\ pledged' \in [Agent -> Dir \cup {Unknown, Pending}]
        /\ intended' \in [Agent -> SUBSET Dir] /\ edits' \in 0..MaxEdits
    BY <1>0, <2>1
  <2> QED BY <1>0, <2>1, <2>2 DEF TypeOK
<1>4. ASSUME NEW a \in Agent, EditYaml(a) \/ EditSoul(a) PROVE TypeOK'
  <2>1. disk[a] \in Dir
    BY <1>0
  <2>2. \A y \in Yaml \cup {None} : [disk[a] EXCEPT !.yaml = y] \in Dir
    BY <2>1 DEF Dir
  <2>3. \A s \in Soul \cup {None} : [disk[a] EXCEPT !.soul = s] \in Dir
    BY <2>1 DEF Dir
  <2> QED BY <1>3, <1>4, <2>2, <2>3 DEF EditYaml, EditSoul
<1>5. ASSUME NEW a \in Agent, NEW d \in Whole, NEW n \in BOOLEAN, BeginWrite(a, n, d) PROVE TypeOK'
  <2>1. /\ stage' = "yaml" /\ job' = [agent |-> a, dir |-> d]
        /\ pledged' = [pledged EXCEPT ![a] = Pending]
        /\ UNCHANGED <<up, registry, scans, disk, edits, hups, intended, disturbed, stale>>
    BY <1>5 DEF BeginWrite
  <2>2. /\ pledged' \in [Agent -> Dir \cup {Unknown, Pending}]
        /\ job' \in [agent : Agent \cup {None}, dir : Whole \cup {Absent}]
    BY <1>0, <2>1, Texts
  <2> QED BY <1>0, <2>1, <2>2 DEF TypeOK
<1>6. ASSUME NEW a \in Agent, (\E n, o \in BOOLEAN : CreateAgent(a, n, o)) \/ UpdateAgent(a) PROVE TypeOK'
  BY <1>5, <1>6, Requests
<1>7. CASE WriteYaml \/ WriteSoul \/ UnlinkSoul
  <2>1. /\ job.agent \in Agent /\ stage \in {"yaml", "soul", "unlinkSoul"}
        /\ \/ stage # "unlinkSoul" /\ job.dir \in Accepted
           \/ stage = "unlinkSoul"
    BY <1>7 DEF WriteYaml, WriteSoul, UnlinkSoul, Handled
  <2>2. disk[job.agent] \in Dir
    BY <1>0, <2>1
  <2>3. PICK d \in Dir : disk' = [disk EXCEPT ![job.agent] = d]
    <3>1. /\ stage # "unlinkSoul" => /\ [disk[job.agent] EXCEPT !.yaml = job.dir.yaml] \in Dir
                                     /\ [disk[job.agent] EXCEPT !.soul = job.dir.soul] \in Dir
          /\ [disk[job.agent] EXCEPT !.soul = None] \in Dir
      BY <2>1, <2>2, Texts DEF Dir, Accepted
    <3> QED BY <1>7, <2>1, <3>1 DEF WriteYaml, WriteSoul, UnlinkSoul
  <2>4. disk' \in [Agent -> Dir]
    BY <1>0, <2>1, <2>3
  <2>5. /\ stage' \in {"soul", "reload"} /\ stale' = stale \cup {job.agent}
        /\ UNCHANGED <<up, registry, job, scans, edits, hups, ghosts>>
    BY <1>7 DEF WriteYaml, WriteSoul, UnlinkSoul
  <2> QED BY <1>0, <2>1, <2>4, <2>5 DEF TypeOK
<1>8. ASSUME NEW a \in Agent, DeleteAgent(a) PROVE TypeOK'
  <2>1. /\ disk' = [disk EXCEPT ![a].yaml = None] /\ stage' = "unlinkSoul"
        /\ job' = [agent |-> a, dir |-> Absent] /\ pledged' = [pledged EXCEPT ![a] = Pending]
        /\ stale' = stale \cup {a}
        /\ UNCHANGED <<up, registry, scans, edits, hups, intended, disturbed>>
    BY <1>8 DEF DeleteAgent
  <2>2. [disk[a] EXCEPT !.yaml = None] \in Dir
    BY <1>0 DEF Dir
  <2>3. disk' \in [Agent -> Dir] /\ pledged' \in [Agent -> Dir \cup {Unknown, Pending}]
    BY <1>0, <2>1, <2>2
  <2> QED BY <1>0, <2>1, <2>3 DEF TypeOK
<1>9. CASE BeginReload \/ PostReload \/ Boot
  <2>1. scans' = <<NewScan>> /\ stale' = {} /\ stage' \in {stage, "reloading"} /\ up' \in {up, "booting"}
        /\ UNCHANGED <<registry, job, disk, edits, hups, ghosts>>
    BY <1>9 DEF BeginReload, PostReload, Boot
  <2>2. scans' \in Seq(Scan) /\ Len(scans') <= MaxNest
    BY <1>0, <2>1, OneScan
  <2> QED BY <1>0, <2>1, <2>2 DEF TypeOK
<1>10. CASE Install
  <2>1. /\ scans # << >> /\ registry' = scans[1].seen /\ scans' = Tail(scans) /\ up' = "serving"
        /\ stage' \in {stage, "idle"} /\ job' \in {job, NoJob} /\ UNCHANGED <<disk, edits, hups, stale>>
    BY <1>10 DEF Install, Forget
  <2>2. scans' \in Seq(Scan) /\ Len(scans') <= MaxNest /\ 1 \in 1..Len(scans)
    BY <1>0, <2>1, PoppedScan
  <2>3. registry' \in Registry
    <3>1. scans \in Seq(Scan)
      BY <1>0
    <3>2. scans[1] \in Scan
      BY ONLY <3>1, <2>2, ElementOfSeq
    <3> QED BY <2>1, <3>2 DEF Scan
  <2>4. /\ pledged' \in [Agent -> Dir \cup {Unknown, Pending}] /\ intended' \in [Agent -> SUBSET Dir]
        /\ disturbed' \subseteq Agent
    <3>1. job.dir \in Dir
      BY <1>0, Texts
    <3> QED BY <1>0, <1>10, <3>1 DEF Install, Acknowledge
  <2> QED BY <1>0, <1>a, <2>1, <2>2, <2>3, <2>4 DEF TypeOK
<1>11. CASE Sighup
  <2>1. /\ hups < MaxHups /\ hups' = hups + 1 /\ Len(scans) < MaxNest /\ scans' = <<NewScan>> \o scans
        /\ stale' \in {stale, {}} /\ UNCHANGED <<up, registry, stage, job, disk, edits, ghosts>>
    BY <1>11 DEF Sighup
  <2>2. scans' \in Seq(Scan) /\ Len(scans') <= MaxNest
    BY <1>0, <2>1, PushedScan
  <2> QED BY <1>0, <2>1, <2>2 DEF TypeOK
<1>12. CASE Crash
  <2>1. /\ up' = "down" /\ registry' = Nothing /\ scans' = << >> /\ stage' = "idle" /\ job' = NoJob
        /\ CutShort /\ stale' = Agent /\ UNCHANGED <<disk, edits, hups>>
    BY <1>12 DEF Crash, Forget
  <2>2. scans' \in Seq(Scan) /\ Len(scans') = 0
    BY <2>1
  <2> QED BY <1>0, <1>a, <1>b, <2>1, <2>2 DEF TypeOK
<1>13. CASE WriteFails
  <2>1. /\ stage' = "idle" /\ job' = NoJob /\ CutShort
        /\ UNCHANGED <<up, registry, scans, disk, edits, hups, stale>>
    BY <1>13 DEF WriteFails, Forget
  <2> QED BY <1>0, <1>a, <1>b, <2>1 DEF TypeOK
<1>14. CASE UNCHANGED vars
  BY <1>0, <1>14 DEF vars, TypeOK
<1> QED
  BY <1>0, <1>1, <1>2, <1>4, <1>6, <1>7, <1>8, <1>9, <1>10, <1>11, <1>12, <1>13, <1>14 DEF Next

-----------------------------------------------------------------------------
(* The request, and what cannot break a directory.                         *)

LEMMA HandledKeeps == TypeOK /\ Handled /\ [Next]_vars => Handled'
<1> SUFFICES ASSUME TypeOK, Handled, [Next]_vars PROVE Handled'
  OBVIOUS
<1> USE Texts DEF process, ghosts
<1>1. CASE \E a \in Agent : ReadAgent(a) \/ EditYaml(a) \/ EditSoul(a)
  BY <1>1 DEF ReadAgent, EditYaml, EditSoul, Edit, Handled
<1>2. CASE (\E a \in Agent : ReloadRaises(a)) \/ Crash \/ WriteFails
  BY <1>2 DEF ReloadRaises, Crash, WriteFails, Running, Forget, Handled, Final
<1>3. ASSUME NEW a \in Target, (\E n, o \in BOOLEAN : CreateAgent(a, n, o)) \/ UpdateAgent(a) PROVE Handled'
  <2>1. a \in Agent
    BY StoreAssumption
  <2>2. PICK d \in Whole, n \in BOOLEAN : BeginWrite(a, n, d)
    BY <1>3, <2>1, Requests
  <2>3. /\ Running /\ stage' = "yaml" /\ job' = [agent |-> a, dir |-> d]
        /\ d \in Accepted /\ UNCHANGED up
    BY <2>2 DEF BeginWrite, Accepts, Whole, Accepted
  <2> QED BY <2>1, <2>3 DEF Handled, Running, Final
<1>4. CASE WriteYaml \/ WriteSoul \/ UnlinkSoul
  BY <1>4 DEF WriteYaml, WriteSoul, UnlinkSoul, Running, Handled
<1>5. ASSUME NEW a \in Target, DeleteAgent(a) PROVE Handled'
  BY <1>5, StoreAssumption DEF DeleteAgent, Running, Handled, Final
<1>6. CASE BeginReload \/ PostReload \/ Boot
  BY <1>6 DEF BeginReload, PostReload, Boot, Running, Handled
<1>7. CASE Install
  BY <1>7 DEF Install, Forget, Handled, Final
<1>8. CASE Sighup
  BY <1>8 DEF Sighup, Handled
<1>9. CASE UNCHANGED vars
  BY <1>9 DEF vars, Handled
<1> QED BY <1>1, <1>2, <1>3, <1>4, <1>5, <1>6, <1>7, <1>8, <1>9 DEF Next

\* Only an edit can put a text on the disk that does not build.
LEMMA UnbrokenKeeps == TypeOK /\ Handled /\ Unbroken /\ [Next]_vars => Unbroken'
<1> SUFFICES ASSUME TypeOK, Handled, Unbroken, [Next]_vars, NEW b \in Agent, edits' = 0
             PROVE  disk'[b].yaml \in Buildable \cup Misnamed \cup {None}
  BY DEF Unbroken
<1> USE DEF process, ghosts
<1>0. edits \in Int /\ edits >= 0 /\ disk \in [Agent -> Dir] /\ disk[b] \in Dir
  BY StoreAssumption DEF TypeOK
<1>1. CASE UNCHANGED <<disk, edits>>
  BY <1>1 DEF Unbroken
<1>2. CASE \E a \in Agent : EditYaml(a) \/ EditSoul(a)
  BY <1>0, <1>2 DEF EditYaml, EditSoul, Edit
<1>3. CASE WriteYaml
  <2>1. /\ job.agent \in Agent /\ job.dir.yaml \in Buildable \cup Misnamed /\ UNCHANGED edits
        /\ disk' = [disk EXCEPT ![job.agent] = [disk[job.agent] EXCEPT !.yaml = job.dir.yaml]]
    BY <1>3, Texts DEF WriteYaml, Handled, Accepted
  <2>2. disk[job.agent] \in Dir
    BY <1>0, <2>1
  <2>3. [disk[job.agent] EXCEPT !.yaml = job.dir.yaml].yaml = job.dir.yaml
    BY <2>2 DEF Dir
  <2> QED BY <1>0, <2>1, <2>3 DEF Unbroken
<1>4. CASE WriteSoul \/ UnlinkSoul
  <2>1. PICK s : /\ disk' = [disk EXCEPT ![job.agent] = [disk[job.agent] EXCEPT !.soul = s]]
                 /\ UNCHANGED edits /\ job.agent \in Agent
    BY <1>4 DEF WriteSoul, UnlinkSoul, Handled
  <2>2. disk[job.agent] \in Dir
    BY <1>0, <2>1
  <2>3. [disk[job.agent] EXCEPT !.soul = s].yaml = disk[job.agent].yaml
    BY <2>2 DEF Dir
  <2> QED BY <1>0, <2>1, <2>3 DEF Unbroken
<1>5. ASSUME NEW a \in Target, DeleteAgent(a) PROVE disk'[b].yaml \in Buildable \cup Misnamed \cup {None}
  <2>1. /\ disk' = [disk EXCEPT ![a] = [disk[a] EXCEPT !.yaml = None]] /\ UNCHANGED edits
        /\ a \in Agent /\ disk[a] \in Dir
    BY <1>0, <1>5, StoreAssumption DEF DeleteAgent
  <2>2. [disk[a] EXCEPT !.yaml = None].yaml = None
    BY <2>1 DEF Dir
  <2> QED BY <1>0, <2>1, <2>2 DEF Unbroken
<1> QED
  <2>1. \A a \in Agent : ReadAgent(a) \/ ReloadRaises(a) => UNCHANGED <<disk, edits>>
    BY DEF ReadAgent, ReloadRaises
  <2>2. \A a \in Target : (\E n, o \in BOOLEAN : CreateAgent(a, n, o)) \/ UpdateAgent(a) => UNCHANGED <<disk, edits>>
    BY DEF CreateAgent, UpdateAgent, BeginWrite
  <2>3. Install \/ BeginReload \/ PostReload \/ Sighup \/ Boot \/ Crash \/ WriteFails \/ UNCHANGED vars
          => UNCHANGED <<disk, edits>>
    BY DEF Install, BeginReload, PostReload, Sighup, Boot, Crash, WriteFails, vars
  <2> QED BY <1>1, <1>2, <1>3, <1>4, <1>5, <2>1, <2>2, <2>3 DEF Next

-----------------------------------------------------------------------------
(* What the scans have seen.                                               *)

\* Reading one agent more spoils nothing that was seen.
LEMMA ReadSees ==
    ASSUME TypeOK, NEW b \in Agent, ReadAgent(b), NEW a \in Agent, NEW k \in 1..Len(scans),
           Saw(scans[k], a, disk[a])
    PROVE  Saw(scans'[k], a, disk'[a])
<1>1. /\ k # 1 => scans'[k] = scans[k]
      /\ scans'[1].todo = scans[1].todo \ {b}
      /\ scans'[1].seen = [scans[1].seen EXCEPT ![b] = View(disk[b])]
      /\ scans[1].seen \in Registry /\ disk' = disk
  BY ReadScan DEF ReadAgent
<1>2. CASE k # 1
  BY <1>1, <1>2
<1>3. CASE k = 1 /\ a = b
  <2>1. scans'[1].seen[a] = View(disk[a])
    BY <1>1, <1>3 DEF Registry
  <2> QED BY <1>1, <1>3, <2>1 DEF Saw
<1>4. CASE k = 1 /\ a # b
  <2>1. scans'[1].seen[a] = scans[1].seen[a] /\ (a \in scans'[1].todo <=> a \in scans[1].todo)
    BY <1>1, <1>4 DEF Registry
  <2> QED BY <1>1, <1>4, <2>1 DEF Saw
<1> QED BY <1>2, <1>3, <1>4

\* Neither does a reload that begins or ends.
LEMMA SawKeeps ==
    ASSUME TypeOK, NEW a \in Agent, disk'[a] = disk[a], AllSaw(a),
           \/ scans' = scans
           \/ scans' = <<NewScan>> \/ scans' = <<NewScan>> \o scans
           \/ scans # << >> /\ scans' = Tail(scans)
           \/ \E b \in Agent : ReadAgent(b)
    PROVE  AllSaw(a)'
<1>0. Saw(NewScan, a, disk[a])
  BY NewScanSees
<1>1. CASE scans' = scans
  BY <1>1 DEF AllSaw
<1>2. CASE scans' = <<NewScan>>
  BY <1>0, <1>2, OneScan DEF AllSaw
<1>3. CASE scans' = <<NewScan>> \o scans
  <2>1. ASSUME NEW k \in 1..Len(scans') PROVE Saw(scans'[k], a, disk[a])
    <3>1. scans'[1] = NewScan /\ (k = 1 \/ (k - 1 \in 1..Len(scans) /\ scans'[k] = scans[k - 1]))
      BY <1>3, PushedScan
    <3> QED BY <1>0, <3>1 DEF AllSaw
  <2> QED BY <2>1 DEF AllSaw
<1>4. CASE scans # << >> /\ scans' = Tail(scans)
  <2>1. ASSUME NEW k \in 1..Len(scans') PROVE Saw(scans'[k], a, disk[a])
    <3>1. k + 1 \in 1..Len(scans) /\ scans'[k] = scans[k + 1]
      BY <1>4, PoppedScan
    <3> QED BY <3>1 DEF AllSaw
  <2> QED BY <2>1 DEF AllSaw
<1>5. CASE \E b \in Agent : ReadAgent(b)
  <2>1. PICK b \in Agent : ReadAgent(b)
    BY <1>5
  <2>2. Len(scans') = Len(scans)
    BY <2>1, ReadScan
  <2>3. \A k \in 1..Len(scans) : Saw(scans'[k], a, disk'[a])
    BY <2>1, ReadSees DEF AllSaw
  <2> QED BY <2>2, <2>3 DEF AllSaw
<1> QED BY <1>1, <1>2, <1>3, <1>4, <1>5

\* A reload that begins alone is about to see everything.
LEMMA FreshSees ==
    ASSUME TypeOK, NEW a \in Agent, disk'[a] = disk[a], scans' = <<NewScan>>
    PROVE  AllSaw(a)' /\ scans' # << >> /\ Saw(scans'[Len(scans')], a, disk'[a])
<1>1. Saw(NewScan, a, disk[a])
  BY NewScanSees
<1> QED BY <1>1, OneScan DEF AllSaw

\* The registry a reload leaves is what it saw.
LEMMA InstalledIsSeen ==
    ASSUME TypeOK, NEW a \in Agent, Install, Saw(scans[1], a, disk[a])
    PROVE  registry'[a] = View(disk[a])
BY DEF Install, Saw

-----------------------------------------------------------------------------
(* Promises.                                                               *)

\* A step that leaves an agent, its promise and the request alone.
LEMMA KeptAside ==
    ASSUME TypeOK, NEW a \in Agent, Kept(a), disk'[a] = disk[a], pledged'[a] = pledged[a],
           UNCHANGED <<stage, job>>,
           up' = "serving" => up = "serving" /\ registry'[a] = registry[a],
           AllSaw(a) => AllSaw(a)'
    PROVE  Kept(a)'
BY DEF Kept

LEMMA KeptByRequests ==
    ASSUME TypeOK, Handled, NEW a \in Agent, Kept(a),
           \/ WriteYaml \/ WriteSoul \/ UnlinkSoul
           \/ \E b \in Agent, d \in Whole, n \in BOOLEAN : BeginWrite(b, n, d)
           \/ \E b \in Agent : DeleteAgent(b)
    PROVE  Kept(a)'
<1> USE DEF process, ghosts
<1>0. disk \in [Agent -> Dir] /\ pledged \in [Agent -> Dir \cup {Unknown, Pending}] /\ disk[a] \in Dir
      /\ Pending \notin Dir
  BY StoreAssumption DEF TypeOK
<1>1. ASSUME NEW b \in Agent, NEW d \in Whole, NEW n \in BOOLEAN, BeginWrite(b, n, d) PROVE Kept(a)'
  <2>1. /\ stage = "idle" /\ stage' = "yaml" /\ job'.agent = b
        /\ pledged' = [pledged EXCEPT ![b] = Pending]
        /\ UNCHANGED <<up, registry, scans, disk>>
    BY <1>1 DEF BeginWrite
  <2>2. AllSaw(a) => AllSaw(a)'
    BY <2>1, SawKeeps
  <2>3. pledged'[a] = IF a = b THEN Pending ELSE pledged[a]
    BY <1>0, <2>1
  <2> QED BY <1>0, <2>1, <2>2, <2>3 DEF Kept
<1>2. ASSUME NEW b \in Agent, DeleteAgent(b) PROVE Kept(a)'
  <2>1. /\ stage = "idle" /\ stage' = "unlinkSoul" /\ job'.agent = b /\ job'.dir = Absent
        /\ pledged' = [pledged EXCEPT ![b] = Pending]
        /\ disk' = [disk EXCEPT ![b] = [disk[b] EXCEPT !.yaml = None]]
        /\ UNCHANGED <<up, registry, scans>>
    BY <1>2 DEF DeleteAgent
  <2>2. CASE a = b
    <3>1. pledged'[a] = Pending /\ disk'[a].yaml = None /\ job'.dir.yaml = None
      BY <1>0, <2>1, <2>2, Texts DEF Dir
    <3> QED BY <1>0, <2>1, <2>2, <3>1 DEF Kept
  <2>3. CASE a # b
    <3>1. pledged'[a] = pledged[a] /\ disk'[a] = disk[a]
      BY <1>0, <2>1, <2>3
    <3>2. AllSaw(a) => AllSaw(a)'
      BY <2>1, <3>1, SawKeeps
    <3> QED BY <2>1, <2>3, <3>1, <3>2 DEF Kept
  <2> QED BY <2>2, <2>3
<1>3. CASE WriteYaml \/ WriteSoul \/ UnlinkSoul
  <2>1. /\ job.agent \in Agent /\ stage \in {"yaml", "soul", "unlinkSoul"}
        /\ UNCHANGED <<up, registry, job, scans, pledged>>
    BY <1>3 DEF WriteYaml, WriteSoul, UnlinkSoul, Handled
  <2>2. CASE a # job.agent
    <3>1. disk'[a] = disk[a]
      BY <1>0, <1>3, <2>2 DEF WriteYaml, WriteSoul, UnlinkSoul
    <3>2. AllSaw(a) => AllSaw(a)'
      BY <2>1, <3>1, SawKeeps
    <3> QED BY <1>0, <2>1, <2>2, <3>1, <3>2 DEF Kept
  <2>3. CASE a = job.agent /\ WriteYaml
    <3>1. stage' = "soul" /\ disk'[a] = [disk[a] EXCEPT !.yaml = job.dir.yaml]
      BY <1>0, <2>3 DEF WriteYaml
    <3>2. disk'[a].yaml = job.dir.yaml
      BY <1>0, <3>1 DEF Dir
    <3> QED BY <2>1, <2>3, <3>1, <3>2 DEF Kept
  <2>4. CASE a = job.agent /\ (WriteSoul \/ UnlinkSoul)
    <3>1. stage \in {"soul", "unlinkSoul"} /\ stage' = "reload"
      BY <2>4 DEF WriteSoul, UnlinkSoul
    <3>2. ASSUME disk[a].yaml = job.dir.yaml PROVE disk'[a] = job.dir
      <4>1. CASE WriteSoul
        <5>1. disk'[a] = [disk[a] EXCEPT !.soul = job.dir.soul] /\ job.dir \in Accepted
          BY <1>0, <2>4, <4>1 DEF WriteSoul, Handled
        <5> QED BY <1>0, <3>2, <5>1 DEF Dir, Accepted
      <4>2. CASE UnlinkSoul
        <5>1. disk'[a] = [disk[a] EXCEPT !.soul = None] /\ job.dir = Absent
          BY <1>0, <2>4, <4>2 DEF UnlinkSoul, Handled
        <5> QED BY <1>0, <3>2, <5>1 DEF Dir, Absent
      <4> QED BY <2>4, <4>1, <4>2
    <3> QED BY <2>1, <2>4, <3>1, <3>2 DEF Kept
  <2> QED BY <1>3, <2>2, <2>3, <2>4
<1> QED BY <1>1, <1>2, <1>3

\* The end of a reload is where a request is answered.
LEMMA KeptByInstall ==
    ASSUME TypeOK, Handled, NEW a \in Agent, Kept(a), Install
    PROVE  Kept(a)'
<1>1. /\ scans # << >> /\ scans' = Tail(scans) /\ up' = "serving" /\ UNCHANGED disk
      /\ IF Answered THEN stage' = "idle" /\ job' = NoJob ELSE UNCHANGED <<stage, job>>
      /\ Acknowledge
  BY DEF Install, Forget
<1>2. /\ pledged \in [Agent -> Dir \cup {Unknown, Pending}] /\ disk[a] \in Dir /\ None \notin Agent
      /\ NoJob.agent = None /\ Final \subseteq Dir /\ Pending \notin Dir
  BY StoreAssumption, Texts DEF TypeOK
<1>3. (AllSaw(a) => AllSaw(a)') /\ disk'[a] = disk[a]
  BY <1>1, SawKeeps
<1>4. AllSaw(a) => registry'[a] = View(disk[a])
  <2>1. 1 \in 1..Len(scans)
    BY <1>1, PoppedScan DEF TypeOK
  <2> QED BY <2>1, InstalledIsSeen DEF AllSaw
<1>5. CASE Answered /\ job.agent = a /\ pledged[a] = Pending
  <2>1. pledged'[a] = job.dir /\ stage = "reloading" /\ disk[a] = job.dir /\ AllSaw(a)
    BY <1>1, <1>2, <1>5 DEF Acknowledge, Answered, Kept
  <2>2. job.dir \in Final
    BY DEF Handled
  <2>3. job' = NoJob
    BY <1>1, <1>5
  <2> QED BY <1>2, <1>3, <1>4, <2>1, <2>2, <2>3 DEF Kept
<1>6. CASE ~(Answered /\ job.agent = a /\ pledged[a] = Pending)
  <2>1. pledged'[a] = pledged[a]
    BY <1>1, <1>2, <1>6 DEF Acknowledge, ghosts
  <2>2. ASSUME pledged[a] \in Dir PROVE Kept(a)'
    <3>1. job.agent # a /\ pledged[a] \in Final /\ disk[a] = pledged[a] /\ AllSaw(a)
      BY <2>2 DEF Kept
    <3>2. job'.agent # a
      BY <1>1, <1>2, <3>1
    <3> QED BY <1>2, <1>3, <1>4, <2>1, <2>2, <3>1, <3>2 DEF Kept
  <2>3. ASSUME pledged[a] = Pending PROVE Kept(a)'
    <3>1. job.agent = a /\ ~Answered
      BY <1>6, <2>3 DEF Kept
    <3>2. UNCHANGED <<stage, job>>
      BY <1>1, <3>1
    <3> QED BY <1>2, <1>3, <2>1, <2>3, <3>1, <3>2 DEF Kept
  <2>4. ASSUME pledged[a] \notin Dir, pledged[a] # Pending PROVE Kept(a)'
    BY <2>1, <2>4 DEF Kept
  <2> QED BY <2>2, <2>3, <2>4
<1> QED BY <1>5, <1>6

LEMMA KeptByEnds ==
    ASSUME TypeOK, NEW a \in Agent, Kept(a),
           Crash \/ WriteFails \/ \E b \in Agent : ReloadRaises(b)
    PROVE  Kept(a)'
<1>1. /\ scans' = << >> /\ job' = NoJob /\ CutShort /\ UNCHANGED disk
      /\ up' = "serving" => up = "serving" /\ registry' = registry
  BY DEF Crash, ReloadRaises, WriteFails, Running, Forget
<1>2. pledged'[a] = IF pledged[a] = Pending THEN Unknown ELSE pledged[a]
  BY <1>1 DEF CutShort
<1>3. Unknown \notin Dir /\ Unknown # Pending /\ Pending \notin Dir /\ job'.agent # a
  BY <1>1, StoreAssumption, Texts
<1>4. AllSaw(a)'
  <2>1. Len(scans') = 0
    BY <1>1
  <2> QED BY <2>1 DEF AllSaw
<1> QED BY <1>1, <1>2, <1>3, <1>4 DEF Kept

LEMMA KeptKeeps ==
    TypeOK /\ Handled /\ [Next]_vars => \A a \in Agent : Kept(a) => Kept(a)'
<1> SUFFICES ASSUME TypeOK, Handled, [Next]_vars, NEW a \in Agent, Kept(a) PROVE Kept(a)'
  OBVIOUS
<1> USE DEF process, ghosts
<1>0. /\ disk \in [Agent -> Dir] /\ pledged \in [Agent -> Dir \cup {Unknown, Pending}]
      /\ Unknown \notin Dir /\ Unknown # Pending /\ Target \subseteq Agent
  BY StoreAssumption DEF TypeOK
<1>1. ASSUME NEW b \in Agent, ReadAgent(b) PROVE Kept(a)'
  <2>1. UNCHANGED <<up, registry, stage, job, disk, pledged>>
    BY <1>1 DEF ReadAgent
  <2>2. AllSaw(a) => AllSaw(a)'
    BY <1>1, <2>1, SawKeeps
  <2> QED BY <2>1, <2>2, KeptAside
<1>2. ASSUME NEW b \in Agent, NEW d, Edit(b, d) PROVE Kept(a)'
  <2>1. /\ disk' = [disk EXCEPT ![b] = d] /\ pledged' = [pledged EXCEPT ![b] = Unknown]
        /\ UNCHANGED <<up, registry, stage, job, scans>>
    BY <1>2 DEF Edit
  <2>2. CASE a = b
    <3>1. pledged'[a] = Unknown
      BY <1>0, <2>1, <2>2
    <3> QED BY <1>0, <3>1 DEF Kept
  <2>3. CASE a # b
    <3>1. disk'[a] = disk[a] /\ pledged'[a] = pledged[a]
      BY <1>0, <2>1, <2>3
    <3>2. AllSaw(a) => AllSaw(a)'
      BY <2>1, <3>1, SawKeeps
    <3> QED BY <2>1, <3>1, <3>2, KeptAside
  <2> QED BY <2>2, <2>3
<1>3. ASSUME NEW b \in Target, (\E n, o \in BOOLEAN : CreateAgent(b, n, o)) \/ UpdateAgent(b) PROVE Kept(a)'
  <2>1. b \in Agent
    BY <1>0
  <2>2. \E d \in Whole, n \in BOOLEAN : BeginWrite(b, n, d)
    BY <1>3, <2>1, Requests
  <2> QED BY <2>1, <2>2, KeptByRequests
<1>4. CASE \E b \in Target : DeleteAgent(b)
  BY <1>0, <1>4, KeptByRequests
<1>5. CASE WriteYaml \/ WriteSoul \/ UnlinkSoul
  BY <1>5, KeptByRequests
<1>6. CASE BeginReload \/ PostReload
  <2>1. /\ Running /\ stage \in {"idle", "reload"} /\ stage' = "reloading" /\ scans' = <<NewScan>>
        /\ UNCHANGED <<up, registry, job, disk, pledged>>
    BY <1>6 DEF BeginReload, PostReload
  <2>2. AllSaw(a)'
    BY <2>1, FreshSees
  <2> QED BY <2>1, <2>2 DEF Kept
<1>7. CASE Boot
  <2>1. up' = "booting" /\ scans' = <<NewScan>> /\ UNCHANGED <<stage, job, disk, pledged>>
    BY <1>7 DEF Boot
  <2>2. AllSaw(a)'
    BY <2>1, FreshSees
  <2> QED BY <2>1, <2>2, KeptAside
<1>8. CASE Sighup
  <2>1. scans' = <<NewScan>> \o scans /\ UNCHANGED <<up, registry, stage, job, disk, pledged>>
    BY <1>8 DEF Sighup
  <2>2. AllSaw(a) => AllSaw(a)'
    BY <2>1, SawKeeps
  <2> QED BY <2>1, <2>2, KeptAside
<1>9. CASE UNCHANGED vars
  <2>1. UNCHANGED <<up, registry, stage, job, disk, pledged, scans>>
    BY <1>9 DEF vars
  <2>2. AllSaw(a) => AllSaw(a)'
    BY <2>1, SawKeeps
  <2> QED BY <2>1, <2>2, KeptAside
<1> QED BY <1>1, <1>2, <1>3, <1>4, <1>5, <1>6, <1>7, <1>8, <1>9, KeptByInstall, KeptByEnds
        DEF Next, EditYaml, EditSoul

-----------------------------------------------------------------------------
(* What an edit waits for.                                                 *)

LEMMA CaughtKeeps ==
    TypeOK /\ Handled /\ [Next]_vars => \A a \in Agent : Caught(a) => Caught(a)'
<1> SUFFICES ASSUME TypeOK, Handled, [Next]_vars, NEW a \in Agent, Caught(a), a \notin stale'
             PROVE  IF scans' = << >> THEN up' = "serving" => registry'[a] = View(disk'[a])
                                      ELSE Saw(scans'[Len(scans')], a, disk'[a])
  BY DEF Caught
<1> DEFINE Goal == IF scans' = << >> THEN up' = "serving" => registry'[a] = View(disk'[a])
                                     ELSE Saw(scans'[Len(scans')], a, disk'[a])
<1> SUFFICES Goal
  OBVIOUS
<1> USE DEF process, ghosts
<1>0. disk \in [Agent -> Dir] /\ Target \subseteq Agent /\ Len(scans) \in Nat
      /\ (scans # << >> => Len(scans) \in 1..Len(scans))
  BY StoreAssumption, LenProperties, EmptySeq DEF TypeOK
<1>1. ASSUME UNCHANGED <<up, registry, scans>>, disk'[a] = disk[a], stale \subseteq stale' PROVE Goal
  BY <1>1 DEF Caught
<1>2. ASSUME scans' = <<NewScan>>, disk'[a] = disk[a] PROVE Goal
  BY <1>2, FreshSees
<1>3. ASSUME NEW b \in Agent, ReadAgent(b) PROVE Goal
  <2>1. scans # << >> /\ scans' # << >> /\ Len(scans') = Len(scans) /\ UNCHANGED stale
    BY <1>3, ReadScan DEF ReadAgent
  <2>2. Saw(scans[Len(scans)], a, disk[a])
    BY <2>1 DEF Caught
  <2> QED BY <1>0, <1>3, <2>1, <2>2, ReadSees
<1>4. ASSUME NEW b \in Agent, ReloadRaises(b) PROVE FALSE
  BY <1>4 DEF ReloadRaises
<1>5. ASSUME NEW b \in Agent, NEW d, Edit(b, d) PROVE Goal
  <2>1. a # b /\ disk'[a] = disk[a] /\ UNCHANGED <<up, registry, scans>> /\ stale \subseteq stale'
    BY <1>0, <1>5 DEF Edit
  <2> QED BY <1>1, <2>1
<1>6. ASSUME NEW b \in Target, (\E n, o \in BOOLEAN : CreateAgent(b, n, o)) \/ UpdateAgent(b) PROVE Goal
  <2>1. UNCHANGED <<up, registry, scans, disk, stale>>
    BY <1>6 DEF CreateAgent, UpdateAgent, BeginWrite
  <2> QED BY <1>1, <2>1
<1>7. ASSUME NEW b \in Target, DeleteAgent(b) PROVE Goal
  <2>1. a # b /\ disk'[a] = disk[a] /\ UNCHANGED <<up, registry, scans>> /\ stale \subseteq stale'
    BY <1>0, <1>7 DEF DeleteAgent
  <2> QED BY <1>1, <2>1
<1>8. CASE WriteYaml \/ WriteSoul \/ UnlinkSoul
  <2>1. /\ stale' = stale \cup {job.agent} /\ UNCHANGED <<up, registry, scans>>
        /\ \E d : disk' = [disk EXCEPT ![job.agent] = d]
    BY <1>8 DEF WriteYaml, WriteSoul, UnlinkSoul
  <2>2. disk'[a] = disk[a]
    BY <1>0, <2>1
  <2> QED BY <1>1, <2>1, <2>2
<1>9. CASE BeginReload \/ PostReload \/ Boot
  BY <1>2, <1>9 DEF BeginReload, PostReload, Boot
<1>10. CASE Install
  <2>1. /\ scans # << >> /\ scans' = Tail(scans) /\ UNCHANGED <<disk, stale>>
    BY <1>10 DEF Install
  <2>2. Saw(scans[Len(scans)], a, disk[a])
    BY <2>1 DEF Caught
  <2>3. CASE Len(scans) = 1
    <3>1. scans' = << >>
      BY <2>1, <2>3, PoppedScan
    <3>2. registry'[a] = View(disk[a])
      BY <1>10, <2>2, <2>3, InstalledIsSeen
    <3> QED BY <2>1, <3>1, <3>2
  <2>4. CASE Len(scans) # 1
    <3>1. scans' # << >> /\ Len(scans') = Len(scans) - 1 /\ Len(scans) >= 1
      BY <2>1, <2>4, PoppedScan
    <3>2. Len(scans') \in 1..Len(scans') /\ Len(scans') + 1 = Len(scans)
      BY <1>0, <2>4, <3>1
    <3>3. scans'[Len(scans')] = scans[Len(scans)]
      BY <2>1, <3>2, PoppedScan
    <3> QED BY <2>1, <2>2, <3>1, <3>3
  <2> QED BY <2>3, <2>4
<1>11. CASE Sighup
  <2>1. /\ scans' = <<NewScan>> \o scans /\ UNCHANGED <<up, registry, disk>>
        /\ stale' = IF scans = << >> THEN {} ELSE stale
    BY <1>11 DEF Sighup
  <2>2. /\ Len(scans') = Len(scans) + 1 /\ scans' # << >> /\ scans'[1] = NewScan
        /\ \A k \in 1..Len(scans) : scans'[k + 1] = scans[k]
    BY <2>1, PushedScan
  <2>3. CASE scans = << >>
    <3>1. Len(scans) = 0
      BY <2>3
    <3> QED BY <2>1, <2>2, <3>1, NewScanSees
  <2>4. CASE scans # << >>
    <3>1. scans'[Len(scans')] = scans[Len(scans)]
      BY <1>0, <2>2, <2>4
    <3> QED BY <2>1, <2>2, <2>4, <3>1 DEF Caught
  <2> QED BY <2>3, <2>4
<1>12. ASSUME Crash PROVE FALSE
  BY <1>12 DEF Crash
<1>13. CASE WriteFails \/ UNCHANGED vars
  BY <1>1, <1>13 DEF WriteFails, vars
<1> HIDE DEF Goal
<1> QED BY <1>3, <1>4, <1>5, <1>6, <1>7, <1>8, <1>9, <1>10, <1>11, <1>12, <1>13
        DEF Next, EditYaml, EditSoul

-----------------------------------------------------------------------------
(* What was acknowledged, or edited.                                       *)

LEMMA SeenKeeps ==
    ASSUME TypeOK, NEW a \in Agent, NEW S, Absent \in S, AllSeen(scans, a, S), View(disk[a]) \in S,
           \/ scans' = scans \/ scans' = << >>
           \/ scans' = <<NewScan>> \/ scans' = <<NewScan>> \o scans
           \/ scans # << >> /\ scans' = Tail(scans)
           \/ \E b \in Agent : ReadAgent(b)
    PROVE  AllSeen(scans', a, S)
<1>0. NewScan.seen[a] = Absent
  BY DEF NewScan, Nothing
<1>1. CASE scans' = scans
  BY <1>1
<1>2. CASE scans' = << >>
  BY <1>2 DEF AllSeen
<1>3. CASE scans' = <<NewScan>>
  BY <1>0, <1>3, OneScan DEF AllSeen
<1>4. CASE scans' = <<NewScan>> \o scans
  <2>1. ASSUME NEW k \in 1..Len(scans') PROVE scans'[k].seen[a] \in S
    <3>1. scans'[1] = NewScan /\ (k = 1 \/ (k - 1 \in 1..Len(scans) /\ scans'[k] = scans[k - 1]))
      BY <1>4, PushedScan
    <3> QED BY <1>0, <3>1 DEF AllSeen
  <2> QED BY <2>1 DEF AllSeen
<1>5. CASE scans # << >> /\ scans' = Tail(scans)
  <2>1. ASSUME NEW k \in 1..Len(scans') PROVE scans'[k].seen[a] \in S
    <3>1. k + 1 \in 1..Len(scans) /\ scans'[k] = scans[k + 1]
      BY <1>5, PoppedScan
    <3> QED BY <3>1 DEF AllSeen
  <2> QED BY <2>1 DEF AllSeen
<1>6. ASSUME NEW b \in Agent, ReadAgent(b) PROVE AllSeen(scans', a, S)
  <2>1. /\ Len(scans') = Len(scans) /\ scans[1].seen \in Registry
        /\ \A k \in 1..Len(scans) : k # 1 => scans'[k] = scans[k]
        /\ scans'[1].seen = [scans[1].seen EXCEPT ![b] = View(disk[b])]
    BY <1>6, ReadScan
  <2>2. scans'[1].seen[a] \in {scans[1].seen[a], View(disk[a])}
    BY <2>1 DEF Registry
  <2>3. ASSUME NEW k \in 1..Len(scans) PROVE scans'[k].seen[a] \in S
    <3>1. scans[k].seen[a] \in S
      BY DEF AllSeen
    <3>2. CASE k = 1
      BY <2>2, <3>1, <3>2
    <3>3. CASE k # 1
      BY <2>1, <3>1, <3>3
    <3> QED BY <3>2, <3>3
  <2> QED BY <2>1, <2>3 DEF AllSeen
<1> QED BY <1>1, <1>2, <1>3, <1>4, <1>5, <1>6

\* A step that leaves the files and the request of an agent alone, and may ask
\* for more of it.
LEMMA UnmixedAside ==
    ASSUME TypeOK, NEW a \in Agent, Unmixed(a), disk'[a] = disk[a], pledged'[a] = pledged[a],
           intended[a] \subseteq intended'[a], a \in disturbed => a \in disturbed',
           registry'[a] \in {registry[a], Absent} \/ (scans # << >> /\ registry'[a] = scans[1].seen[a]),
           job'.agent = a => job.agent = a,
           stage' \in {"idle", "yaml"} \/ job'.agent # a => stage \in {"idle", "yaml"} \/ job.agent # a,
           \/ scans' = scans \/ scans' = << >>
           \/ scans' = <<NewScan>> \/ scans' = <<NewScan>> \o scans
           \/ scans # << >> /\ scans' = Tail(scans)
           \/ \E b \in Agent : ReadAgent(b)
    PROVE  Unmixed(a)'
<1> DEFINE S == Asked(a)
<1>1. Absent \in S /\ S \subseteq Asked(a)'
  BY DEF Asked
<1>2. CASE a \in disturbed
  BY <1>2 DEF Unmixed
<1>3. CASE a \notin disturbed /\ (stage \in {"idle", "yaml"} \/ job.agent # a)
  <2>1. registry[a] \in S /\ View(disk[a]) \in S /\ AllSeen(scans, a, S)
    BY <1>3 DEF Unmixed
  <2> HIDE DEF S
  <2>2. AllSeen(scans', a, S)
    BY <1>1, <2>1, SeenKeeps
  <2>3. registry'[a] \in S
    <3>1. scans # << >> => 1 \in 1..Len(scans)
      BY LenProperties, EmptySeq DEF TypeOK
    <3> QED BY <1>1, <2>1, <3>1 DEF AllSeen
  <2>4. AllSeen(scans', a, Asked(a)') /\ registry'[a] \in Asked(a)' /\ View(disk'[a]) \in Asked(a)'
    BY <1>1, <2>1, <2>2, <2>3 DEF AllSeen
  <2>5. job'.agent = a => pledged'[a] = Pending
    BY <1>3 DEF Unmixed
  <2> QED BY <2>4, <2>5 DEF Unmixed
<1>4. CASE a \notin disturbed /\ ~(stage \in {"idle", "yaml"} \/ job.agent # a)
  BY <1>4 DEF Unmixed
<1> QED BY <1>2, <1>3, <1>4

LEMMA UnmixedByRequests ==
    ASSUME TypeOK, Handled, NEW a \in Agent, Unmixed(a),
           \/ WriteYaml \/ WriteSoul \/ UnlinkSoul
           \/ \E b \in Agent, d \in Whole, n \in BOOLEAN : BeginWrite(b, n, d)
           \/ \E b \in Agent : DeleteAgent(b)
    PROVE  Unmixed(a)'
<1> USE DEF process, ghosts
<1>0. /\ disk \in [Agent -> Dir] /\ pledged \in [Agent -> Dir \cup {Unknown, Pending}]
      /\ intended \in [Agent -> SUBSET Dir] /\ (stage = "idle" => job.agent # a)
  BY Texts DEF TypeOK, Handled
<1>1. ASSUME NEW b \in Agent, NEW d \in Whole, NEW n \in BOOLEAN, BeginWrite(b, n, d) PROVE Unmixed(a)'
  <2>1. /\ stage = "idle" /\ stage' = "yaml" /\ job'.agent = b
        /\ pledged' = [pledged EXCEPT ![b] = Pending]
        /\ UNCHANGED <<up, registry, scans, disk, intended, disturbed>>
    BY <1>1 DEF BeginWrite
  <2>2. a = b => pledged'[a] = Pending
    BY <1>0, <2>1
  <2>3. CASE a = b
    <3>1. Asked(a) \subseteq Asked(a)'
      BY <2>1 DEF Asked
    <3> QED BY <2>1, <2>2, <2>3, <3>1 DEF Unmixed, AllSeen
  <2>4. CASE a # b
    <3>1. pledged'[a] = pledged[a]
      BY <1>0, <2>1, <2>4
    <3> QED BY <2>1, <2>2, <2>4, <3>1, UnmixedAside
  <2> QED BY <2>3, <2>4
<1>2. ASSUME NEW b \in Agent, DeleteAgent(b) PROVE Unmixed(a)'
  <2>1. /\ stage = "idle" /\ stage' = "unlinkSoul" /\ job'.agent = b
        /\ pledged' = [pledged EXCEPT ![b] = Pending]
        /\ \E d : disk' = [disk EXCEPT ![b] = d]
        /\ UNCHANGED <<up, registry, scans, intended, disturbed>>
    BY <1>2 DEF DeleteAgent
  <2>2. CASE a = b
    <3>1. pledged'[a] = Pending
      BY <1>0, <2>1, <2>2
    <3> QED BY <2>1, <2>2, <3>1 DEF Unmixed
  <2>3. CASE a # b
    <3>1. pledged'[a] = pledged[a] /\ disk'[a] = disk[a]
      BY <1>0, <2>1, <2>3
    <3> QED BY <2>1, <2>3, <3>1, UnmixedAside
  <2> QED BY <2>2, <2>3
<1>3. CASE WriteYaml \/ WriteSoul \/ UnlinkSoul
  <2>1. /\ job.agent \in Agent /\ stage' \in {"soul", "reload"}
        /\ \E d : disk' = [disk EXCEPT ![job.agent] = d]
        /\ UNCHANGED <<up, registry, job, scans, pledged, intended, disturbed>>
    BY <1>3 DEF WriteYaml, WriteSoul, UnlinkSoul, Handled
  <2>2. CASE a = job.agent
    BY <2>1, <2>2 DEF Unmixed
  <2>3. CASE a # job.agent
    <3>1. disk'[a] = disk[a]
      BY <1>0, <2>1, <2>3
    <3> QED BY <2>1, <2>3, <3>1, UnmixedAside
  <2> QED BY <2>2, <2>3
<1> QED BY <1>1, <1>2, <1>3

\* The answer makes its pair the only one; another agent keeps what it had.
LEMMA UnmixedByInstall ==
    ASSUME TypeOK, Handled, NEW a \in Agent, Kept(a), Unmixed(a), Install
    PROVE  Unmixed(a)'
<1>1. /\ scans # << >> /\ scans' = Tail(scans) /\ UNCHANGED disk /\ registry' = scans[1].seen
      /\ IF Answered THEN stage' = "idle" /\ job' = NoJob ELSE UNCHANGED <<stage, job>>
      /\ Acknowledge
  BY DEF Install, Forget
<1>2. /\ pledged \in [Agent -> Dir \cup {Unknown, Pending}] /\ intended \in [Agent -> SUBSET Dir]
      /\ None \notin Agent /\ NoJob.agent = None
  BY Texts DEF TypeOK
<1>3. CASE Answered /\ job.agent = a /\ pledged[a] = Pending
  <2>1. intended'[a] = {job.dir} /\ disk[a] = job.dir /\ AllSaw(a) /\ job'.agent # a
    BY <1>1, <1>2, <1>3 DEF Acknowledge, Answered, Kept
  <2>2. View(disk[a]) \in {job.dir, Absent}
    BY <2>1 DEF View
  <2>3. registry'[a] = View(disk[a])
    <3>1. 1 \in 1..Len(scans)
      BY <1>1, PoppedScan DEF TypeOK
    <3> QED BY <2>1, <3>1, InstalledIsSeen DEF AllSaw
  <2>4. Len(scans') = 0
    BY <1>1, <1>3, PoppedScan DEF Answered
  <2>5. AllSeen(scans', a, Asked(a)')
    BY <2>4 DEF AllSeen
  <2>6. job.dir \in Asked(a)' /\ Absent \in Asked(a)'
    BY <2>1 DEF Asked
  <2>7. registry'[a] \in Asked(a)' /\ View(disk'[a]) \in Asked(a)'
    BY <1>1, <2>2, <2>3, <2>6
  <2> QED BY <2>1, <2>5, <2>7 DEF Unmixed
<1>4. CASE ~(Answered /\ job.agent = a /\ pledged[a] = Pending)
  <2>1. pledged'[a] = pledged[a] /\ intended'[a] = intended[a] /\ (a \in disturbed <=> a \in disturbed')
    BY <1>1, <1>2, <1>4 DEF Acknowledge, ghosts
  <2>2. CASE a \in disturbed
    BY <2>1, <2>2 DEF Unmixed
  <2>3. CASE a \notin disturbed
    <3>1. ~(Answered /\ job.agent = a)
      BY <1>4, <2>3 DEF Unmixed
    <3> QED BY <1>1, <1>2, <2>1, <3>1, UnmixedAside
  <2> QED BY <2>2, <2>3
<1> QED BY <1>3, <1>4

LEMMA UnmixedByEnds ==
    ASSUME TypeOK, NEW a \in Agent, Unmixed(a),
           Crash \/ WriteFails \/ \E b \in Agent : ReloadRaises(b)
    PROVE  Unmixed(a)'
<1>1. /\ scans' = << >> /\ job' = NoJob /\ CutShort /\ UNCHANGED disk
      /\ registry' \in {registry, Nothing}
  BY DEF Crash, ReloadRaises, WriteFails, Running, Forget
<1>2. /\ disturbed' = IF stage \notin {"idle", "yaml"} /\ job.agent # None
                      THEN disturbed \cup {job.agent} ELSE disturbed
      /\ intended'[a] = IF a \in disturbed' THEN {} ELSE intended[a]
      /\ job'.agent # a /\ a # None
  BY <1>1, Texts DEF CutShort
<1>3. registry'[a] \in {registry[a], Absent}
  BY <1>1 DEF Nothing
<1>4. AllSeen(scans', a, Asked(a)')
  BY <1>1 DEF AllSeen
<1>5. ASSUME a \notin disturbed' PROVE registry'[a] \in Asked(a)' /\ View(disk'[a]) \in Asked(a)'
  <2>1. a \notin disturbed /\ (stage \in {"idle", "yaml"} \/ job.agent # a)
    BY <1>2, <1>5
  <2>2. intended'[a] = intended[a]
    BY <1>2, <1>5
  <2> QED BY <1>1, <1>3, <2>1, <2>2 DEF Unmixed, Asked
<1> QED BY <1>2, <1>4, <1>5 DEF Unmixed

LEMMA UnmixedKeeps ==
    TypeOK /\ Handled /\ [Next]_vars => \A a \in Agent : Kept(a) /\ Unmixed(a) => Unmixed(a)'
<1> SUFFICES ASSUME TypeOK, Handled, [Next]_vars, NEW a \in Agent, Kept(a), Unmixed(a)
             PROVE  Unmixed(a)'
  OBVIOUS
<1> USE DEF process, ghosts
<1>0. /\ disk \in [Agent -> Dir] /\ pledged \in [Agent -> Dir \cup {Unknown, Pending}]
      /\ intended \in [Agent -> SUBSET Dir] /\ Target \subseteq Agent
      /\ (stage = "idle" => job.agent # a)
  BY StoreAssumption, Texts DEF TypeOK, Handled
<1>1. ASSUME NEW b \in Agent, ReadAgent(b) PROVE Unmixed(a)'
  <2>1. UNCHANGED <<registry, stage, job, disk, pledged, intended, disturbed>>
    BY <1>1 DEF ReadAgent
  <2> QED BY <1>1, <2>1, UnmixedAside
<1>2. ASSUME NEW b \in Agent, NEW d, Edit(b, d) PROVE Unmixed(a)'
  <2>1. /\ disk' = [disk EXCEPT ![b] = d] /\ pledged' = [pledged EXCEPT ![b] = Unknown]
        /\ intended' = [intended EXCEPT ![b] = IF b \in disturbed' THEN {} ELSE intended[b] \cup {d}]
        /\ disturbed' = IF job.agent = b THEN disturbed \cup {b} ELSE disturbed
        /\ UNCHANGED <<registry, stage, job, scans>>
    BY <1>2 DEF Edit
  <2>2. CASE a # b
    <3>1. disk'[a] = disk[a] /\ pledged'[a] = pledged[a] /\ intended'[a] = intended[a]
      BY <1>0, <2>1, <2>2
    <3> QED BY <2>1, <3>1, UnmixedAside
  <2>3. CASE a = b /\ (job.agent = a \/ a \in disturbed)
    BY <2>1, <2>3 DEF Unmixed
  <2>4. CASE a = b /\ job.agent # a /\ a \notin disturbed
    <3>1. a \notin disturbed' /\ disk'[a] = d /\ View(d) \in {d, Absent}
          /\ intended'[a] = intended[a] \cup {d}
      BY <1>0, <2>1, <2>4 DEF View
    <3>2. registry[a] \in Asked(a) /\ AllSeen(scans, a, Asked(a)) /\ Asked(a) \subseteq Asked(a)'
      BY <2>4, <3>1 DEF Unmixed, Asked
    <3>3. View(disk'[a]) \in Asked(a)'
      BY <3>1 DEF Asked
    <3> QED BY <2>1, <2>4, <3>2, <3>3 DEF Unmixed, AllSeen
  <2> QED BY <2>2, <2>3, <2>4
<1>3. ASSUME NEW b \in Target, (\E n, o \in BOOLEAN : CreateAgent(b, n, o)) \/ UpdateAgent(b) PROVE Unmixed(a)'
  <2>1. b \in Agent
    BY <1>0
  <2>2. \E d \in Whole, n \in BOOLEAN : BeginWrite(b, n, d)
    BY <1>3, <2>1, Requests
  <2> QED BY <2>1, <2>2, UnmixedByRequests
<1>4. CASE \E b \in Target : DeleteAgent(b)
  BY <1>0, <1>4, UnmixedByRequests
<1>5. CASE WriteYaml \/ WriteSoul \/ UnlinkSoul
  BY <1>5, UnmixedByRequests
<1>6. CASE BeginReload \/ PostReload
  <2>1. /\ stage \in {"idle", "reload"} /\ stage' = "reloading" /\ scans' = <<NewScan>>
        /\ UNCHANGED <<registry, job, disk, pledged, intended, disturbed>>
    BY <1>6 DEF BeginReload, PostReload
  <2> QED BY <1>0, <2>1, UnmixedAside
<1>7. CASE Boot \/ Sighup
  <2>1. /\ scans' = <<NewScan>> \/ scans' = <<NewScan>> \o scans
        /\ UNCHANGED <<registry, stage, job, disk, pledged, intended, disturbed>>
    BY <1>7 DEF Boot, Sighup
  <2> QED BY <2>1, UnmixedAside
<1>8. CASE UNCHANGED vars
  <2>1. UNCHANGED <<registry, stage, job, scans, disk, pledged, intended, disturbed>>
    BY <1>8 DEF vars
  <2> QED BY <2>1, UnmixedAside
<1> QED BY <1>1, <1>2, <1>3, <1>4, <1>5, <1>6, <1>7, <1>8, UnmixedByInstall, UnmixedByEnds
        DEF Next, EditYaml, EditSoul

-----------------------------------------------------------------------------
(* The invariant, and what it gives.                                       *)

LEMMA StoreInit == Init => StoreInv
<1> SUFFICES ASSUME Init PROVE StoreInv
  OBVIOUS
<1>1. /\ up = "down" /\ registry = Nothing /\ stage = "idle" /\ job = NoJob /\ scans = << >>
      /\ disk \in [Agent -> {Absent} \cup [yaml : Good, soul : Soul]] /\ edits = 0 /\ hups = 0
      /\ pledged = [a \in Agent |-> Unknown] /\ intended = [a \in Agent |-> {disk[a]}]
      /\ disturbed = {} /\ stale = Agent
  BY DEF Init
<1>2. TypeOK
  <2>1. disk \in [Agent -> Dir] /\ intended \in [Agent -> SUBSET Dir]
    <3>1. \A a \in Agent : disk[a] \in Dir
      BY <1>1, Texts DEF Final, Accepted
    <3> QED BY <1>1, <3>1
  <2>2. pledged \in [Agent -> Dir \cup {Unknown, Pending}]
    BY <1>1
  <2>3. registry \in Registry /\ job \in [agent : Agent \cup {None}, dir : Whole \cup {Absent}]
    BY <1>1 DEF Nothing, Registry, NoJob
  <2>4. scans \in Seq(Scan) /\ Len(scans) <= MaxNest /\ edits \in 0..MaxEdits /\ hups \in 0..MaxHups
    BY <1>1, StoreAssumption
  <2> QED BY <1>1, <2>1, <2>2, <2>3, <2>4 DEF TypeOK
<1>3. Handled
  BY <1>1, Texts DEF Handled, Final
<1>4. Unbroken
  <2>1. \A a \in Agent : disk[a] = Absent \/ disk[a] \in [yaml : Good, soul : Soul]
    BY <1>1
  <2> QED BY <2>1, Texts DEF Unbroken
<1>5. ASSUME NEW a \in Agent PROVE Kept(a) /\ Caught(a) /\ Unmixed(a)
  <2>1. pledged[a] \notin Dir /\ pledged[a] # Pending
    BY <1>1, StoreAssumption
  <2>2. /\ job.agent # a /\ registry[a] = Absent /\ intended[a] = {disk[a]}
        /\ View(disk[a]) \in {disk[a], Absent} /\ AllSeen(scans, a, Asked(a))
    BY <1>1, Texts DEF Nothing, View, AllSeen
  <2> QED BY <1>1, <2>1, <2>2 DEF Kept, Caught, Unmixed, Asked
<1> QED BY <1>2, <1>3, <1>4, <1>5 DEF StoreInv

LEMMA StoreStep == StoreInv /\ [Next]_vars => StoreInv'
BY StoreTypes, HandledKeeps, UnbrokenKeeps, KeptKeeps, CaughtKeeps, UnmixedKeeps DEF StoreInv

LEMMA StoreInvariant == Spec => []StoreInv
BY StoreInit, StoreStep, PTL DEF Spec

\* Whatever writes, signals, edits and crashes come, in any order, the agents
\* directory, the registry and the reloads under way have the types of the code.
THEOREM StoreTypeCorrect == Spec => []TypeOK
<1>1. StoreInv => TypeOK
  BY DEF StoreInv
<1> QED BY <1>1, StoreInvariant, PTL

\* What a create, update or delete was answered stays on the disk and in the
\* registry that reload and the SIGHUP handler rebuild, however many agents,
\* nested reloads and restarts there are; what was created under another spelling
\* of its directory's name stays on the disk, and out of the registry.
THEOREM AnswerStands == Spec => []AcknowledgedIsServed
<1>1. StoreInv => AcknowledgedIsServed
  <2> SUFFICES ASSUME StoreInv, NEW a \in Agent, pledged[a] \in Dir
               PROVE  /\ disk[a] = pledged[a]
                      /\ up = "serving" =>
                            registry[a] = IF pledged[a].yaml \in Misnamed THEN Absent ELSE pledged[a]
    BY DEF AcknowledgedIsServed
  <2>1. /\ pledged[a] \in Final /\ disk[a] = pledged[a]
        /\ up = "serving" => registry[a] = View(pledged[a])
    BY DEF StoreInv, Kept
  <2> QED BY <2>1, Views
<1> QED BY <1>1, StoreInvariant, PTL

\* A registry entry that mixes two writes does not outlive the write that a
\* SIGHUP found half done, unless that write was cut short or met an edit.
THEOREM MixIsPassing == Spec => []MixedOnlyIfDisturbed
<1>1. StoreInv => MixedOnlyIfDisturbed
  <2> SUFFICES ASSUME StoreInv, stage = "idle", NEW a \in Agent, a \notin disturbed
               PROVE  registry[a] \in intended[a] \cup {Absent}
    BY DEF MixedOnlyIfDisturbed
  <2> QED BY DEF StoreInv, Unmixed, Asked
<1> QED BY <1>1, StoreInvariant, PTL

\* The writes of agent_writer.py leave a directory that builds in every state,
\* between their two files as well, if the name of the request is the directory's.
THEOREM WritesLeaveBuildable == Spec => []OnlyEditsBreakAgents
<1>1. StoreInv => OnlyEditsBreakAgents
  BY DEF StoreInv, Unbroken, OnlyEditsBreakAgents
<1> QED BY <1>1, StoreInvariant, PTL

\* A reload that interrupted no other serves what is on the disk, however many
\* SIGHUPs nested in it.
THEOREM OuterReloadCatchesUp == Spec => []ReloadsCatchUp
<1>1. StoreInv => ReloadsCatchUp
  BY DEF StoreInv, Caught, ReloadsCatchUp, Running
<1> QED BY <1>1, StoreInvariant, PTL

===============================================================================
