------------------------------ MODULE Restart -------------------------------
(***************************************************************************)
(* Enrollment on a hub that may be killed and started again.  What it      *)
(* knows then is what its two registry files hold: the trust registry's is *)
(* written by every handler and every 30 s, the node registry's every 60 s *)
(* only.  Devices keep what they were sent; administrators keep what they  *)
(* decided; everything that was running is gone.                           *)
(*                                                                         *)
(* os.WriteFile truncates the file it overwrites.  A crash in the middle   *)
(* leaves one that Load refuses, and NewMeshServer goes on with an empty   *)
(* registry.  authFile and nodesFile are what Load makes of the files.     *)
(***************************************************************************)
EXTENDS Enrollment

CONSTANT MaxCrashes  \* bound

ASSUME MaxCrashesAssumption == MaxCrashes \in Nat

VARIABLES
  nodesFile,  \* node registry, as last written to its file
  crashes     \* how often the hub was killed

restartVars == <<vars, nodesFile, crashes>>

RestartInit == Init /\ nodesFile = EmptyMap /\ crashes = 0

File == {"auth", "nodes"}

-----------------------------------------------------------------------------

\* A tick of the node registry's PersistLoop.  It copies the registry and writes the
\* copy later: until then the file is as old as if the tick had not come yet.
PersistNodesTick ==
  /\ nodesFile # nodes
  /\ nodesFile' = nodes
  /\ UNCHANGED <<vars, crashes>>

\* Mutant: only what was approved is taken back from the file.
LoadAuthApprovedOnly(torn) ==
  [m \in {n \in DOMAIN authFile : "auth" \notin torn /\ Auth!IsApproved(authFile, n)} |->
     authFile[m]]

\* Registry.Load and NodeRegistry.Load: every entry as it was saved, if there is a file
\* that can be read.
LoadAuth(torn) == IF "auth" \in torn THEN EmptyMap ELSE authFile

LoadNodes(torn) == IF "nodes" \in torn THEN EmptyMap ELSE nodesFile

\* The hub is killed, and NewMeshServer loads what is left.  torn: the files that were
\* being overwritten.  A PersistLoop may do that at any time, changes or no changes.
Crash(torn) ==
  /\ crashes < MaxCrashes
  /\ crashes' = crashes + 1
  /\ auth' = LoadAuth(torn) /\ authFile' = auth'
  /\ nodes' = LoadNodes(torn) /\ nodesFile' = nodes'
  /\ call' = [w \in Worker |-> Idle]
  /\ unsaved' = {}
  /\ UNCHANGED <<sent, granted>>

RestartNext ==
  \/ Next /\ UNCHANGED <<nodesFile, crashes>>
  \/ PersistNodesTick
  \/ \E torn \in SUBSET File : Crash(torn)

RestartSpec == RestartInit /\ [][RestartNext]_restartVars

\* The handlers of Enrollment are as fair here as there: a crash ends one, and then
\* nothing is owed any more.
FairRestartSpec == RestartSpec /\ Fairness

-----------------------------------------------------------------------------

\* handleEnrollmentRequest: "Persist immediately so the admin sees it even if the server
\* restarts".  A crash that finds no handler at work on a device, its last save not
\* failed, and the file whole, changes nothing of what the hub knows of the device's
\* trust: neither a pending request nor a decision that was answered is lost, and none
\* is undone.
AnsweredSurvives ==
  [][\A torn \in SUBSET {"nodes"}, m \in Mac :
       Crash(torn) /\ m \notin unsaved /\ (\A w \in Worker : call[w].mac # m) =>
         /\ m \in DOMAIN auth' <=> m \in DOMAIN auth
         /\ m \in DOMAIN auth => auth'[m] = auth[m]]_restartVars

=============================================================================
