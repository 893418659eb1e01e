--------------------------- MODULE LifespanProofs ---------------------------
(***************************************************************************)
(* Proofs about Lifespan for any number of kills and removals: the types,  *)
(* and that a token once copied is the one a serving gateway accepts.      *)
(***************************************************************************)
EXTENDS Lifespan, TLAPS

\* The steps of the start that follow the identity.
Later == {"agents", "servers", "policy", "handler", "serving"}

\* Every identity but the first is paid for by a kill or by a removal.  An identity
\* is on its way when its two files are being written.
Counted ==
    /\ fresh <= 1 + ends + removals
    /\ (device = None \/ auth = None) /\ pc \notin {"device", "opening"} => fresh <= ends + removals

Writing ==
    /\ pc \in {"device", "opening", "auth"} => copied = None /\ fresh > 0 /\ device # None
    /\ pc \in {"opening", "auth"} => device = fresh
    /\ pc = "auth" => auth = Torn

\* Files nobody removed: a token stands beside its own device, and it is the copied one.
Paired ==
    /\ ~removed /\ auth \in Identity => device = auth /\ pc \notin {"device", "opening"}
    /\ copied # None => ~removed /\ auth = copied

Held == pc \in Later =>
            /\ token \in Identity
            /\ ~removed => auth = token

LifeInv == TypeOK /\ Counted /\ Writing /\ Paired /\ Held

-----------------------------------------------------------------------------

LEMMA LifeInit == Init => LifeInv
<1> SUFFICES ASSUME Init PROVE LifeInv
  OBVIOUS
<1>1. /\ unit = "stopped" /\ pc = "down" /\ token = None /\ config \in Config /\ used = "good"
      /\ agents \in BOOLEAN /\ device = None /\ auth = None /\ fresh = 0 /\ copied = None
      /\ removed = FALSE /\ ends = 0 /\ removals = 0
  BY DEF Init
<1>2. None \notin Identity /\ 0 \in 0..MaxEnds /\ 0 \in 0..MaxRemovals
  BY LifespanAssumption DEF Identity
<1>3. TypeOK
  BY <1>1, <1>2 DEF TypeOK, Config
<1>4. Counted /\ Writing /\ Paired /\ Held
  BY <1>1, <1>2 DEF Counted, Writing, Paired, Held, Later
<1> QED BY <1>3, <1>4 DEF LifeInv

LEMMA LifeNext == LifeInv /\ [Next]_vars => LifeInv'
<1> SUFFICES ASSUME LifeInv, [Next]_vars PROVE LifeInv'
  OBVIOUS
<1> USE LifespanAssumption DEF LifeInv
<1>1. CASE Start
  <2>1. CASE LoadForServer \/ LoadConfig \/ SetupLogging \/ LoadAgents \/ StartServers
               \/ BuildPolicy \/ InstallHandler
    <3>1. UNCHANGED <<unit, config, agents, token, device, auth, fresh, copied, removed, ends, removals>>
      BY <2>1 DEF LoadForServer, LoadConfig, SetupLogging, LoadAgents, StartServers,
         BuildPolicy, InstallHandler, files, ops, ghosts
    <3>2. used' \in Config /\ pc' \in Starting \cup {"serving", "down"}
      BY <2>1 DEF LoadForServer, LoadConfig, SetupLogging, LoadAgents, StartServers,
         BuildPolicy, InstallHandler, Step, TypeOK, Starting
    <3>3. pc \notin {"device", "opening"} /\ pc' \notin {"device", "opening", "auth"}
      BY <2>1 DEF LoadForServer, LoadConfig, SetupLogging, LoadAgents, StartServers,
         BuildPolicy, InstallHandler, Step
    <3>4. pc' \in Later => pc \in Later
      BY <2>1 DEF LoadForServer, LoadConfig, SetupLogging, LoadAgents, StartServers,
         BuildPolicy, InstallHandler, Step, Later
    <3>5. TypeOK'
      BY <3>1, <3>2 DEF TypeOK
    <3>6. Counted' /\ Writing' /\ Paired' /\ Held'
      BY <3>1, <3>3, <3>4 DEF Counted, Writing, Paired, Held
    <3> QED BY <3>5, <3>6
  <2>2. CASE Bootstrap /\ (device = None \/ auth = None)
    <3>1. /\ pc = "identity" /\ pc' = "device" /\ fresh' = fresh + 1 /\ device' = Torn
          /\ UNCHANGED <<unit, used, config, agents, auth, token, copied, removed, ends, removals>>
      BY <2>2 DEF Bootstrap, Step, ops, ghosts
    <3>2. TypeOK'
      BY <3>1, <2>2 DEF TypeOK, Counted, Identity, Starting
    <3>3. Counted'
      BY <3>1, <2>2 DEF Counted, TypeOK, Identity
    <3>4. ~removed => auth \notin Identity
      BY <2>2 DEF Paired, Identity
    <3>5. copied = None
      BY <3>4 DEF Paired, TypeOK
    <3> QED BY <3>1, <3>2, <3>3, <3>4, <3>5 DEF Writing, Paired, Held, Later, TypeOK, Identity
  <2>3. CASE Bootstrap /\ ~(device = None \/ auth = None)
    <3>1. /\ pc = "identity" /\ pc' = (IF auth # Torn THEN "agents" ELSE "down")
          /\ token' = (IF auth = Torn THEN token ELSE auth)
          /\ UNCHANGED <<unit, used, config, agents, device, auth, fresh, copied, removed, ends, removals>>
      BY <2>3 DEF Bootstrap, Step, files, ops, ghosts
    <3>2. TypeOK'
      BY <3>1, <2>3 DEF TypeOK, Starting
    <3> QED BY <3>1, <3>2, <2>3 DEF Counted, Writing, Paired, Held, Later, TypeOK
  <2>4. CASE WriteDevice
    <3>1. /\ pc = "device" /\ pc' = "opening" /\ device' = fresh
          /\ UNCHANGED <<unit, used, config, agents, token, auth, fresh, copied, removed, ends, removals>>
      BY <2>4 DEF WriteDevice, Step, ops, ghosts
    <3>2. fresh \in Identity /\ fresh # None
      BY <3>1 DEF TypeOK, Writing, Identity
    <3> QED BY <3>1, <3>2 DEF TypeOK, Counted, Writing, Paired, Held, Later, Starting, Identity
  <2>5. CASE OpenAuth
    <3>1. /\ pc = "opening" /\ pc' = "auth" /\ auth' = Torn
          /\ UNCHANGED <<unit, used, config, agents, token, device, fresh, copied, removed, ends, removals>>
      BY <2>5 DEF OpenAuth, Step, ops, ghosts
    <3>2. fresh \in Identity /\ fresh # None
      BY <3>1 DEF TypeOK, Writing, Identity
    <3> QED BY <3>1, <3>2 DEF TypeOK, Counted, Writing, Paired, Held, Later, Starting, Identity
  <2>6. CASE WriteAuth
    <3>1. /\ pc = "auth" /\ pc' = "agents" /\ auth' = fresh /\ token' = fresh /\ removed' = FALSE
          /\ UNCHANGED <<unit, used, config, agents, device, fresh, copied, ends, removals>>
      BY <2>6 DEF WriteAuth, Step, ops
    <3>2. fresh \in Identity /\ fresh # None /\ device = fresh /\ copied = None
      BY <3>1 DEF TypeOK, Writing, Identity
    <3> QED BY <3>1, <3>2 DEF TypeOK, Counted, Writing, Paired, Held, Later, Starting
  <2> QED BY <1>1, <2>1, <2>2, <2>3, <2>4, <2>5, <2>6 DEF Start
<1>2. CASE Kill \/ HupTooEarly
  <2>1. /\ pc' = "down" /\ ends < MaxEnds /\ ends' = ends + 1 /\ unit' \in {unit, "lost"}
        /\ UNCHANGED <<used, config, agents, token, device, auth, fresh, copied, removed, removals>>
    BY <1>2 DEF Kill, HupTooEarly, Die, files, ops, ghosts
  <2>2. TypeOK'
    BY <2>1 DEF TypeOK
  <2>3. Counted'
    BY <2>1 DEF Counted, TypeOK, Identity
  <2> QED BY <2>1, <2>2, <2>3 DEF Writing, Paired, Held, Later
<1>3. CASE HupRaises \/ Stop \/ Stopped \/ Restart
  <2>1. /\ pc' \in {"down", "stopping", "main"} /\ pc \notin {"device", "opening"} /\ unit' \in {unit, "stopped"}
        /\ UNCHANGED <<used, config, agents, token, device, auth, fresh, copied, removed, ends, removals>>
    BY <1>3 DEF HupRaises, Stop, Stopped, Restart, Die, files, ops, ghosts
  <2> QED BY <2>1 DEF TypeOK, Counted, Writing, Paired, Held, Later, Starting
<1>4. CASE StartUnit \/ EditConfig \/ EditAgents
  <2>1. /\ unit' \in {unit, "active"} /\ config' \in Config /\ agents' \in BOOLEAN
        /\ UNCHANGED <<pc, used, token, device, auth, fresh, copied, removed, ends, removals>>
    BY <1>4 DEF StartUnit, EditConfig, EditAgents, process, files, ops, ghosts, TypeOK
  <2> QED BY <2>1 DEF TypeOK, Counted, Writing, Paired, Held
<1>5. CASE CopyToken
  <2>1. /\ auth \in Identity /\ copied' = (IF removed THEN None ELSE auth)
        /\ UNCHANGED <<unit, pc, used, config, agents, token, device, auth, fresh, removed, ends, removals>>
    BY <1>5 DEF CopyToken, process, files, ops
  <2>2. ~removed => pc \notin {"device", "opening", "auth"}
    BY <2>1 DEF Paired, Writing, Identity
  <2> QED BY <2>1, <2>2 DEF TypeOK, Counted, Writing, Paired, Held
<1>6. CASE RemoveFiles
  <2>1. /\ removals < MaxRemovals /\ removals' = removals + 1 /\ pc \notin {"device", "opening", "auth"}
        /\ device' \in {None, device} /\ auth' \in {None, auth} /\ copied' = None /\ removed' = TRUE
        /\ UNCHANGED <<unit, pc, used, config, agents, token, fresh, ends>>
    BY <1>6 DEF RemoveFiles, process
  <2>2. TypeOK'
    BY <2>1 DEF TypeOK
  <2>3. Counted'
    BY <2>1 DEF Counted, TypeOK, Identity
  <2> QED BY <2>1, <2>2, <2>3 DEF Writing, Paired, Held
<1>7. CASE UNCHANGED vars
  BY <1>7 DEF vars, process, files, ops, ghosts, TypeOK, Counted, Writing, Paired, Held
<1> QED BY <1>1, <1>2, <1>3, <1>4, <1>5, <1>6, <1>7 DEF Next

LEMMA LifeInvariant == Spec => []LifeInv
BY LifeInit, LifeNext, PTL DEF Spec

-----------------------------------------------------------------------------

\* The variables keep their types, however often the process is killed; among them
\* the number of identities ever generated.
THEOREM LifeTypeCorrect == Spec => []TypeOK
<1>1. LifeInv => TypeOK
  BY DEF LifeInv
<1> QED BY LifeInvariant, <1>1, PTL

\* A copied token stays valid through kills, failed starts and SIGHUPs at any step:
\* bootstrap_identity keeps a pair of files that is complete, and writes both anew
\* only while no complete pair can have been seen.
THEOREM CopiedTokenStaysValid == Spec => []IdentityHolds
<1>1. LifeInv => IdentityHolds
  BY DEF LifeInv, IdentityHolds, Paired, Held, Later, TypeOK
<1> QED BY LifeInvariant, <1>1, PTL

===============================================================================
