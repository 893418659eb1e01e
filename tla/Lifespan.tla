------------------------------ MODULE Lifespan ------------------------------
(***************************************************************************)
(* The life of the gateway process: the start in the order of the lifespan *)
(* of main.py, with load_config, bootstrap_identity of auth/device.py and  *)
(* the SIGHUP handler of agents/loader.py, under the systemd unit of       *)
(* deploy/systemd, which restarts it when it fails.                        *)
(*                                                                         *)
(* A step raises or not by what the operator left on the disk.  What the   *)
(* gateway itself leaves there are the two identity files.  write_text     *)
(* truncates before it writes, so the process may end with a file torn.    *)
(* The identities are numbered; the operator copies the token of one into  *)
(* the configuration of the client.  AgentStore and MCPManager have what   *)
(* happens inside load_agents and start_all.                               *)
(***************************************************************************)
EXTENDS Naturals

CONSTANTS
    None,        \* no file
    Torn,        \* a file that was truncated and not written
    MaxEnds,     \* bound: how often the process is killed
    MaxRemovals  \* bound: how often the operator removes identity files

\* config.yaml, by where it makes the start raise: it is missing, does not parse
\* or does not validate; logging.dir cannot be made; a regular expression of a
\* rule does not compile, or max_concurrent_runs is negative.
Config   == {"good", "unreadable", "nologdir", "badpolicy"}
Identity == 1..(1 + MaxEnds + MaxRemovals)

ASSUME LifespanAssumption ==
    /\ MaxEnds \in Nat /\ MaxRemovals \in Nat
    /\ None \notin Nat /\ Torn \notin Nat /\ None # Torn

VARIABLES
    unit,     \* systemd: "active", "stopped", or "lost" after a clean exit
    pc,       \* the step of the process, "down" without one
    config,   \* config.yaml
    agents,   \* whether load_agents returns for the agents directory
    used,     \* the config object of the process, or of the last one
    device,   \* device.json: the number of its deviceId
    auth,     \* device-auth.json: the number of its token
    token,    \* its _state["operator_token"]
    fresh,    \* number of identities generated
    copied,   \* the token the client has, None if it has none to rely on
    removed,  \* files were removed since the last identity was written
    ends, removals

files   == <<device, auth, fresh>>
process == <<pc, used, token>>
ops     == <<config, agents, removals>>
ghosts  == <<copied, removed>>
vars    == <<unit, process, files, ops, ghosts, ends>>

Starting == {"main", "config", "logging", "identity", "device", "opening", "auth",
             "agents", "servers", "policy", "handler"}

TypeOK ==
    /\ unit \in {"active", "stopped", "lost"}
    /\ pc \in Starting \cup {"serving", "stopping", "down"}
    /\ config \in Config /\ used \in Config /\ agents \in BOOLEAN
    /\ {device, auth} \subseteq Identity \cup {None, Torn}
    /\ {token, copied} \subseteq Identity \cup {None}
    /\ fresh \in Identity \cup {0}
    /\ removed \in BOOLEAN
    /\ ends \in 0..MaxEnds /\ removals \in 0..MaxRemovals

Init ==
    /\ unit = "stopped" /\ pc = "down" /\ token = None
    /\ config \in Config /\ used = "good" /\ agents \in BOOLEAN
    /\ device = None /\ auth = None /\ fresh = 0
    /\ copied = None /\ removed = FALSE
    /\ ends = 0 /\ removals = 0

-----------------------------------------------------------------------------
(* The start.                                                              *)

\* A step of the start returns or raises; uvicorn then exits with a failure.
Step(from, ok, to) == pc = from /\ pc' = IF ok THEN to ELSE "down"

\* __main__ reads the file for the host and the port, the lifespan again.
LoadForServer ==
    /\ Step("main", config # "unreadable", "config")
    /\ UNCHANGED <<unit, used, token, files, ops, ghosts, ends>>

LoadConfig ==
    /\ Step("config", config # "unreadable", "logging")
    /\ used' = config
    /\ UNCHANGED <<unit, token, files, ops, ghosts, ends>>

SetupLogging ==
    /\ Step("logging", used # "nologdir", "identity")
    /\ UNCHANGED <<unit, used, token, files, ops, ghosts, ends>>

\* Mutant of Bootstrap: only device.json tells a first start.
BootstrapByDevice ==
    /\ IF device = None
       THEN /\ Step("identity", TRUE, "device")
            /\ fresh' = fresh + 1 /\ device' = Torn
            /\ UNCHANGED <<auth, token>>
       ELSE /\ Step("identity", auth \notin {None, Torn}, "agents")
            /\ token' = IF auth \in {None, Torn} THEN token ELSE auth
            /\ UNCHANGED files
    /\ UNCHANGED <<unit, used, ops, ghosts, ends>>

\* Mutant of Bootstrap: only the file that is missing is written.
BootstrapMissing ==
    /\ IF device = None \/ auth = None
       THEN /\ Step("identity", TRUE, IF device = None THEN "device" ELSE "auth")
            /\ fresh' = fresh + 1
            /\ device' = IF device = None THEN Torn ELSE device
            /\ auth' = IF device = None THEN auth ELSE Torn
            /\ UNCHANGED token
       ELSE /\ Step("identity", auth # Torn, "agents")
            /\ token' = IF auth = Torn THEN token ELSE auth
            /\ UNCHANGED files
    /\ UNCHANGED <<unit, used, ops, ghosts, ends>>

\* bootstrap_identity: if either file is missing, both are written anew, else
\* device-auth.json is parsed.
Bootstrap ==
    /\ IF device = None \/ auth = None
       THEN /\ Step("identity", TRUE, "device")
            /\ fresh' = fresh + 1 /\ device' = Torn
            /\ UNCHANGED <<auth, token>>
       ELSE /\ Step("identity", auth # Torn, "agents")
            /\ token' = IF auth = Torn THEN token ELSE auth
            /\ UNCHANGED files
    /\ UNCHANGED <<unit, used, ops, ghosts, ends>>

WriteDevice ==
    /\ Step("device", TRUE, "opening")
    /\ device' = fresh
    /\ UNCHANGED <<unit, used, token, auth, fresh, ops, ghosts, ends>>

\* The second write_text truncates its file; until then an older one is whole.
OpenAuth ==
    /\ Step("opening", TRUE, "auth")
    /\ auth' = Torn
    /\ UNCHANGED <<unit, used, token, device, fresh, ops, ghosts, ends>>

WriteAuth ==
    /\ Step("auth", TRUE, "agents")
    /\ auth' = fresh /\ token' = fresh
    /\ removed' = FALSE
    /\ UNCHANGED <<unit, used, device, fresh, ops, copied, ends>>

LoadAgents ==
    /\ Step("agents", agents, "servers")
    /\ UNCHANGED <<unit, used, token, files, ops, ghosts, ends>>

\* start_all returns whichever servers start.
StartServers ==
    /\ Step("servers", TRUE, "policy")
    /\ UNCHANGED <<unit, used, token, files, ops, ghosts, ends>>

\* ToolPolicy and the semaphore; if they raise, no stop_all stops the servers.
BuildPolicy ==
    /\ Step("policy", used # "badpolicy", "handler")
    /\ UNCHANGED <<unit, used, token, files, ops, ghosts, ends>>

InstallHandler ==
    /\ Step("handler", TRUE, "serving")
    /\ UNCHANGED <<unit, used, token, files, ops, ghosts, ends>>

Start == LoadForServer \/ LoadConfig \/ SetupLogging \/ Bootstrap \/ WriteDevice
           \/ OpenAuth \/ WriteAuth \/ LoadAgents \/ StartServers \/ BuildPolicy \/ InstallHandler

-----------------------------------------------------------------------------
(* Signals, the end of the process, systemd.                               *)

Die == pc' = "down" /\ UNCHANGED <<used, token>>

\* SIGKILL, or a write that raises: a failure.
Kill ==
    /\ pc # "down" /\ ends < MaxEnds /\ ends' = ends + 1
    /\ Die
    /\ UNCHANGED <<unit, files, ops, ghosts>>

\* Before the handler is installed SIGHUP ends the process, and for systemd
\* that is a clean exit.
HupTooEarly ==
    /\ pc \in Starting /\ ends < MaxEnds /\ ends' = ends + 1
    /\ Die
    /\ unit' = "lost"
    /\ UNCHANGED <<files, ops, ghosts>>

\* Once it is installed, _reload raises if load_agents does; where that ends the
\* process, it is a failure.
HupRaises ==
    /\ pc \in {"serving", "stopping"} /\ ~agents
    /\ Die
    /\ UNCHANGED <<unit, files, ops, ghosts, ends>>

\* stop_all, aclose, shutdown_tracing.
Stop ==
    /\ pc = "serving"
    /\ pc' = "stopping" /\ unit' = "stopped"
    /\ UNCHANGED <<used, token, files, ops, ghosts, ends>>

Stopped ==
    /\ pc = "stopping"
    /\ Die
    /\ UNCHANGED <<unit, files, ops, ghosts, ends>>

\* Restart=on-failure.
Restart ==
    /\ unit = "active" /\ pc = "down"
    /\ pc' = "main"
    /\ UNCHANGED <<unit, used, token, files, ops, ghosts, ends>>

-----------------------------------------------------------------------------
(* The operator.                                                           *)

StartUnit ==
    /\ unit # "active" /\ pc = "down"
    /\ unit' = "active"
    /\ UNCHANGED <<process, files, ops, ghosts, ends>>

EditConfig ==
    /\ config' \in Config
    /\ UNCHANGED <<unit, process, files, agents, removals, ghosts, ends>>

EditAgents ==
    /\ agents' = ~agents
    /\ UNCHANGED <<unit, process, files, config, removals, ghosts, ends>>

\* Step 8 of install.md.  A token read while files are missing is no promise.
CopyToken ==
    /\ auth \in Identity
    /\ copied' = IF removed THEN None ELSE auth
    /\ UNCHANGED <<unit, process, files, ops, removed, ends>>

\* Either file or both, but not while bootstrap_identity writes them.
RemoveFiles ==
    /\ removals < MaxRemovals /\ removals' = removals + 1
    /\ pc \notin {"device", "opening", "auth"}
    /\ device' \in {None, device} /\ auth' \in {None, auth}
    /\ <<device', auth'>> # <<device, auth>>
    /\ copied' = None /\ removed' = TRUE
    /\ UNCHANGED <<unit, process, fresh, config, agents, ends>>

Next == \/ Start \/ Kill \/ HupTooEarly \/ HupRaises \/ Stop \/ Stopped \/ Restart
        \/ StartUnit \/ EditConfig \/ EditAgents \/ CopyToken \/ RemoveFiles

Spec == Init /\ [][Next]_vars

\* The start awaits nothing without a timeout, and RestartSec passes.
FairSpec == Spec /\ WF_vars(Start) /\ WF_vars(Restart)

-----------------------------------------------------------------------------

\* Wherever the process was killed or failed, in the middle of the first start
\* too: a token the operator has copied is the one the gateway accepts whenever
\* it serves, and the two identity files belong together, unless files were
\* removed by hand.
IdentityHolds ==
    pc = "serving" =>
        /\ copied # None => token = copied
        /\ ~removed => device = token /\ auth = token

\* What keeps a start from succeeding, other than the operator's own files: a
\* device-auth.json that was torn, which no later start repairs.
Blocked == config # "good" \/ ~agents \/ (device # None /\ auth = Torn)

\* However often it was killed, a gateway that is to run comes up again, unless
\* it is blocked, or a SIGHUP met its start, after which nobody restarts it.
ComesUp ==
    (unit = "active") ~> (pc = "serving" \/ Blocked \/ unit # "active")

===============================================================================
