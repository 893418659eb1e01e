------------------------------ MODULE AgentStore ------------------------------
(***************************************************************************)
(* The agents directory and the registry loaded from it: agent_writer.py,  *)
(* agents/loader.py and the endpoints of main.py that call them.           *)
(*                                                                         *)
(* An agent is a directory with an agent.yaml and a soul.md.  The registry *)
(* is rebuilt by reload, which is called at the end of every write, by     *)
(* POST /reload and by the SIGHUP handler.  Python runs that handler       *)
(* between two bytecodes of the main thread, so it nests inside a write or *)
(* inside a reload that has begun; nothing else interleaves, because a     *)
(* write awaits nothing after its validation.  The process can die between *)
(* any two steps, and an operator edits the files by hand.                 *)
(*                                                                         *)
(* A yaml text is represented by what the loader makes of it in the        *)
(* directory it is written to.  POST /agents takes any name that the text  *)
(* has too, and Path(agents_dir) / name is the directory: b for the name b *)
(* but also for b/ or ./b, under which the text builds, though in the      *)
(* directory b it does not (Misnamed).  For a name like x/y it is one that *)
(* the loader never looks at: of such a request only the reload remains.   *)
(* A refused request and POST /agents/validate are no steps.               *)
(***************************************************************************)
EXTENDS Integers, Sequences

CONSTANTS
    NAgents,   \* directory names, numbered in the order sorted() gives them
    Target,    \* bound: the ones that requests name
    Good,      \* agent.yaml texts that build an agent
    Unserved,  \* ones that build an agent whose model or server is unknown
    Skipped,   \* ones that raise YAMLError, ValueError or ValidationError
    Misnamed,  \* those of them that build under another spelling of the directory
    Poison,    \* ones whose AgentConfig(**raw, ...) raises TypeError
    Soul,      \* soul.md texts
    NoSoul,    \* the empty text
    None,      \* no file
    Unknown,   \* no acknowledged state
    Pending,   \* a write of the agent is under way
    MaxEdits,  \* bound: edits by hand
    MaxHups,   \* bound: SIGHUPs
    MaxNest    \* bound: reloads nested in one another

Agent     == 1..NAgents
Buildable == Good \cup Unserved
Yaml      == Buildable \cup Skipped \cup Poison
Dir       == [yaml : Yaml \cup {None}, soul : Soul \cup {None}]
Whole     == [yaml : Yaml, soul : Soul]
Absent    == [yaml |-> None, soul |-> None]
Registry  == [Agent -> {Absent} \cup [yaml : Buildable, soul : Soul]]

ASSUME StoreAssumption ==
    /\ Target \subseteq Agent
    /\ NAgents \in Nat /\ MaxEdits \in Nat /\ MaxHups \in Nat /\ MaxNest \in Nat \ {0}
    /\ NoSoul \in Soul /\ Misnamed \subseteq Skipped
    /\ None \notin Yaml \cup Soul \cup Agent /\ Unknown \notin Dir /\ Pending \notin Dir /\ Pending # Unknown
    /\ Good \cap (Unserved \cup Skipped \cup Poison) = {}
    /\ Buildable \cap (Skipped \cup Poison) = {} /\ Skipped \cap Poison = {}

VARIABLES
    up,        \* "down", "booting" (load_agents of the lifespan) or "serving"
    disk,      \* the directories
    registry,  \* _state["agents"]; Absent for an agent it does not have
    stage,     \* where the request being handled is
    job,       \* its agent and the files it is to leave there
    scans,     \* the load_agents calls under way, the innermost first
    edits,     \* number of edits so far
    hups,      \* number of SIGHUPs so far
    pledged,   \* what the last response said of an agent, until it is changed
    intended,  \* the pair of the last write that was acknowledged, and what edits by
               \* hand made of it; nothing for an agent in disturbed
    disturbed, \* agents whose last write was cut short or edited under way
    stale      \* agents whose files changed since the last reload that interrupted
               \* no other began, or that lost it

process == <<up, registry, stage, job, scans>>
ghosts  == <<pledged, intended, disturbed>>
vars    == <<process, disk, edits, hups, ghosts, stale>>

Scan == [todo : SUBSET Agent, seen : Registry]

TypeOK ==
    /\ up \in {"down", "booting", "serving"}
    /\ disk \in [Agent -> Dir]
    /\ registry \in Registry
    /\ stage \in {"idle", "yaml", "soul", "unlinkSoul", "reload", "reloading"}
    /\ job \in [agent : Agent \cup {None}, dir : Whole \cup {Absent}]
    /\ scans \in Seq(Scan) /\ Len(scans) <= MaxNest
    /\ edits \in 0..MaxEdits /\ hups \in 0..MaxHups
    /\ pledged \in [Agent -> Dir \cup {Unknown, Pending}]
    /\ intended \in [Agent -> SUBSET Dir]
    /\ disturbed \subseteq Agent /\ stale \subseteq Agent

NoJob   == [agent |-> None, dir |-> Absent]
Nothing == [a \in Agent |-> Absent]

Init ==
    /\ up = "down" /\ registry = Nothing
    /\ stage = "idle" /\ job = NoJob /\ scans = << >>
    /\ disk \in [Agent -> {Absent} \cup [yaml : Good, soul : Soul]]
    /\ edits = 0 /\ hups = 0
    /\ pledged = [a \in Agent |-> Unknown]
    /\ intended = [a \in Agent |-> {disk[a]}]
    /\ disturbed = {} /\ stale = Agent

Listed(d) == d.yaml # None /\ d.soul # None
View(d)   == IF Listed(d) /\ d.yaml \in Buildable THEN d ELSE Absent

-----------------------------------------------------------------------------
(* load_agents: one glob, then one directory after the other.              *)

NewScan == [todo |-> {a \in Agent : disk[a].yaml # None}, seen |-> Nothing]

Least(S) == CHOOSE a \in S : \A b \in S : a <= b

Reading(a) == scans # << >> /\ scans[1].todo # {} /\ a = Least(scans[1].todo)

\* The loop skips a directory without a soul.md before it reads the yaml, and
\* does not catch the TypeError, nor the FileNotFoundError of a yaml that was
\* there for the glob.
Raises(d) == d.soul # None /\ d.yaml \in Poison \cup {None}

\* Mutant: the loop registers what does not build, or lacks its soul.md.
ReadAgentSoulless(a) ==
    /\ Reading(a) /\ disk[a].yaml \notin Poison \cup {None}
    /\ scans' = [scans EXCEPT ![1] = [todo |-> @.todo \ {a},
                    seen |-> [@.seen EXCEPT ![a] = [disk[a] EXCEPT !.soul = NoSoul]]]]
    /\ UNCHANGED <<up, registry, stage, job, disk, edits, hups, ghosts, stale>>
ReadAgent(a) ==
    /\ Reading(a) /\ ~Raises(disk[a])
    /\ scans' = [scans EXCEPT ![1] = [todo |-> @.todo \ {a},
                                     seen |-> [@.seen EXCEPT ![a] = View(disk[a])]]]
    /\ UNCHANGED <<up, registry, stage, job, disk, edits, hups, ghosts, stale>>

Forget == stage' = "idle" /\ job' = NoJob

\* The request ends without its response.
CutShort ==
    /\ pledged' = [a \in Agent |-> IF pledged[a] = Pending THEN Unknown ELSE pledged[a]]
    /\ disturbed' = IF stage \notin {"idle", "yaml"} /\ job.agent # None
                    THEN disturbed \cup {job.agent}
                    ELSE disturbed
    /\ intended' = [a \in Agent |-> IF a \in disturbed' THEN {} ELSE intended[a]]

\* What raises in a handler of a signal raises in the code it interrupted, so
\* everything on the stack ends: the start, or the request, which answers 500.
\* Raised out of the event loop itself it ends the process, or is only logged,
\* as the loop in use has it.
ReloadRaises(a) ==
    /\ Reading(a) /\ Raises(disk[a])
    /\ Forget /\ scans' = << >>
    /\ CutShort
    /\ \/ up' = "down" /\ registry' = Nothing /\ stage = "idle"
       \/ up = "serving" /\ UNCHANGED <<up, registry>>
    /\ stale' = Agent
    /\ UNCHANGED <<disk, edits, hups>>

\* The end of a reload; it is also the end of the start, or of the request
\* whose reload this is.
Answered == stage = "reloading" /\ Len(scans) = 1

Acknowledge ==
    IF Answered /\ job.agent # None /\ pledged[job.agent] = Pending
    THEN /\ pledged' = [pledged EXCEPT ![job.agent] = job.dir]
         /\ intended' = [intended EXCEPT ![job.agent] = {job.dir}]
         /\ disturbed' = disturbed \ {job.agent}
    ELSE UNCHANGED ghosts

\* Mutant: the new registry is merged into the old one.
InstallMerging ==
    /\ scans # << >> /\ scans[1].todo = {}
    /\ registry' = [a \in Agent |-> IF scans[1].seen[a] = Absent THEN registry[a]
                                   ELSE scans[1].seen[a]]
    /\ scans' = Tail(scans)
    /\ up' = "serving"
    /\ IF Answered THEN Forget ELSE UNCHANGED <<stage, job>>
    /\ Acknowledge
    /\ UNCHANGED <<disk, edits, hups, stale>>

Install ==
    /\ scans # << >> /\ scans[1].todo = {}
    /\ registry' = scans[1].seen
    /\ scans' = Tail(scans)
    /\ up' = "serving"
    /\ IF Answered THEN Forget ELSE UNCHANGED <<stage, job>>
    /\ Acknowledge
    /\ UNCHANGED <<disk, edits, hups, stale>>

-----------------------------------------------------------------------------
(* The endpoints.                                                          *)

Running == up = "serving" /\ scans = << >>

\* Mutant: the candidate is the directory as it is, without the new entry.
AcceptsStale(a, own, d) ==
    \A b \in Agent : Listed(disk[b]) => disk[b].yaml \in Good

\* load_agents_from_raw raises for any directory that does not build, and
\* _model_errors_for refuses what is wrong with the agent being written.  The
\* candidate has the new text under the name of the request, so that beside it
\* the directory is in it as it is, if the name is not its own.
Accepts(a, own, d) ==
    /\ \A b \in Agent : Listed(disk[b]) => disk[b].yaml \in Buildable \/ (own /\ b = a)
    /\ d.yaml \in IF own THEN Good ELSE Misnamed

BeginWrite(a, own, d) ==
    /\ Running /\ stage = "idle"
    /\ Accepts(a, own, d)
    /\ stage' = "yaml" /\ job' = [agent |-> a, dir |-> d]
    /\ pledged' = [pledged EXCEPT ![a] = Pending]
    /\ UNCHANGED <<up, registry, scans, disk, edits, hups, intended, disturbed, stale>>

CreateAgent(a, own, overwrite) ==
    /\ disk[a].yaml = None \/ overwrite
    /\ \E y \in Yaml, s \in Soul : BeginWrite(a, own, [yaml |-> y, soul |-> s])

\* A file that is not in the body is filled in from the disk.  The name is a
\* segment of the URL, so the directory's own.
UpdateAgent(a) ==
    /\ disk[a].yaml # None
    /\ \/ \E y \in Yaml, s \in Soul : BeginWrite(a, TRUE, [yaml |-> y, soul |-> s])
       \/ \E s \in Soul : BeginWrite(a, TRUE, [yaml |-> disk[a].yaml, soul |-> s])
       \/ \E y \in Yaml :
            BeginWrite(a, TRUE, [yaml |-> y,
                                 soul |-> IF disk[a].soul = None THEN NoSoul ELSE disk[a].soul])

WriteYaml ==
    /\ Running /\ stage = "yaml"
    /\ disk' = [disk EXCEPT ![job.agent].yaml = job.dir.yaml]
    /\ stage' = "soul"
    /\ stale' = stale \cup {job.agent}
    /\ UNCHANGED <<up, registry, job, scans, edits, hups, ghosts>>

\* Mutant: the request answers without its reload, if one ran meanwhile.
WriteSoulLast ==
    /\ Running /\ stage = "soul"
    /\ disk' = [disk EXCEPT ![job.agent].soul = job.dir.soul]
    /\ Forget
    /\ pledged' = [pledged EXCEPT ![job.agent] = job.dir]
    /\ stale' = stale \cup {job.agent}
    /\ UNCHANGED <<up, registry, scans, edits, hups, intended, disturbed>>

WriteSoul ==
    /\ Running /\ stage = "soul"
    /\ disk' = [disk EXCEPT ![job.agent].soul = job.dir.soul]
    /\ stage' = "reload"
    /\ stale' = stale \cup {job.agent}
    /\ UNCHANGED <<up, registry, job, scans, edits, hups, ghosts>>

DeleteAgent(a) ==
    /\ Running /\ stage = "idle"
    /\ disk[a].yaml # None
    /\ disk' = [disk EXCEPT ![a].yaml = None]
    /\ stage' = "unlinkSoul" /\ job' = [agent |-> a, dir |-> Absent]
    /\ pledged' = [pledged EXCEPT ![a] = Pending]
    /\ stale' = stale \cup {a}
    /\ UNCHANGED <<up, registry, scans, edits, hups, intended, disturbed>>

UnlinkSoul ==
    /\ Running /\ stage = "unlinkSoul"
    /\ disk' = [disk EXCEPT ![job.agent].soul = None]
    /\ stage' = "reload"
    /\ stale' = stale \cup {job.agent}
    /\ UNCHANGED <<up, registry, job, scans, edits, hups, ghosts>>

\* mkdir, write_text, os.replace or unlink raises OSError, a full disk perhaps:
\* the request answers 500 and leaves the files as they are.
WriteFails ==
    /\ Running /\ stage \in {"yaml", "soul", "unlinkSoul"}
    /\ Forget /\ CutShort
    /\ UNCHANGED <<up, registry, scans, disk, edits, hups, stale>>

BeginReload ==
    /\ Running /\ stage = "reload"
    /\ stage' = "reloading" /\ scans' = <<NewScan>>
    /\ stale' = {}
    /\ UNCHANGED <<up, registry, job, disk, edits, hups, ghosts>>

\* POST /reload; also a create whose files are outside the loader's view.
PostReload ==
    /\ Running /\ stage = "idle"
    /\ stage' = "reloading" /\ scans' = <<NewScan>>
    /\ stale' = {}
    /\ UNCHANGED <<up, registry, job, disk, edits, hups, ghosts>>

-----------------------------------------------------------------------------
(* Signals, the end of the process, and the operator.                      *)

Sighup ==
    /\ up = "serving" /\ hups < MaxHups /\ Len(scans) < MaxNest
    /\ hups' = hups + 1
    /\ scans' = <<NewScan>> \o scans
    /\ stale' = IF scans = << >> THEN {} ELSE stale
    /\ UNCHANGED <<up, registry, stage, job, disk, edits, ghosts>>

Boot ==
    /\ up = "down"
    /\ up' = "booting" /\ scans' = <<NewScan>>
    /\ stale' = {}
    /\ UNCHANGED <<registry, stage, job, disk, edits, hups, ghosts>>

\* A SIGHUP before its handler is installed does this too.
Crash ==
    /\ up # "down"
    /\ up' = "down" /\ registry' = Nothing /\ scans' = << >> /\ Forget
    /\ CutShort
    /\ stale' = Agent
    /\ UNCHANGED <<disk, edits, hups>>

\* An operator changes or removes one file.
Edit(a, d) ==
    /\ edits < MaxEdits
    /\ edits' = edits + 1
    /\ d # disk[a]
    /\ disk' = [disk EXCEPT ![a] = d]
    /\ pledged' = [pledged EXCEPT ![a] = Unknown]
    /\ disturbed' = IF job.agent = a THEN disturbed \cup {a} ELSE disturbed
    /\ intended' = [intended EXCEPT ![a] = IF a \in disturbed' THEN {} ELSE @ \cup {d}]
    /\ stale' = stale \cup {a}
    /\ UNCHANGED <<process, hups>>

EditYaml(a) == \E y \in Yaml \cup {None} : Edit(a, [disk[a] EXCEPT !.yaml = y])
EditSoul(a) == \E s \in Soul \cup {None} : Edit(a, [disk[a] EXCEPT !.soul = s])

Next ==
    \/ \E a \in Agent :
         \/ ReadAgent(a)
         \/ ReloadRaises(a)
         \/ EditYaml(a)
         \/ EditSoul(a)
    \/ \E a \in Target :
         \/ \E own, overwrite \in BOOLEAN : CreateAgent(a, own, overwrite)
         \/ UpdateAgent(a)
         \/ DeleteAgent(a)
    \/ Install
    \/ WriteYaml
    \/ WriteSoul
    \/ UnlinkSoul
    \/ WriteFails
    \/ BeginReload
    \/ PostReload
    \/ Sighup
    \/ Boot
    \/ Crash

Spec == Init /\ [][Next]_vars

-----------------------------------------------------------------------------

\* What a create, update or delete was answered is what the directory holds
\* and what the registry serves, whatever signals nested in the reloads since
\* and however often the process was restarted, until the agent is written
\* again or edited by hand.  A create under another spelling of the name of the
\* directory is answered as well, and from then on the agent is not served (nor
\* is one under a name with a slash inside, which the loader never looks at).
AcknowledgedIsServed ==
    \A a \in Agent : pledged[a] \in Dir =>
        /\ disk[a] = pledged[a]
        /\ up = "serving" =>
              registry[a] = IF pledged[a].yaml \in Misnamed THEN Absent ELSE pledged[a]

\* Between requests the registry serves no mix of an agent.yaml and a soul.md
\* of different writes, unless a write of that agent was cut short between its
\* files (by an error of the file system, by the end of the process, or by a
\* reload that raised in a signal handler) or met an edit: the mix a SIGHUP may
\* register in the middle of a write does not outlive the write.
MixedOnlyIfDisturbed ==
    (Running /\ stage = "idle") =>
        \A a \in Agent \ disturbed : registry[a] \in intended[a] \cup {Absent}

\* While nobody edits by hand, every directory builds in every state, between
\* the two files of a write and after a crash there too, so that every start
\* and every reload takes all of it: "can't leave a ... invalid agent
\* directory" of the docstring of agent_writer.py.  The one exception is what a
\* create under another spelling of the directory's name has left.
OnlyEditsBreakAgents ==
    edits = 0 => \A a \in Agent : disk[a].yaml \in Buildable \cup Misnamed \cup {None}

\* What is on the disk is what is served, once a reload that interrupted no other
\* has run from its beginning: an edit by hand is served after the next SIGHUP
\* or POST /reload, whatever signals and failed reloads came before, and a
\* signal that nests in a reload is the only one that an edit may miss.
ReloadsCatchUp ==
    (Running /\ stage = "idle") =>
        \A a \in Agent \ stale : registry[a] = View(disk[a])

===============================================================================
