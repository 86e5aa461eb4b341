--------------------------- MODULE RestartProofs ----------------------------
(***************************************************************************)
(* Theorems about Restart, for every set of devices, keys, requests and    *)
(* crashes: what has been answered is on disk, a crash takes nothing of it *)
(* back, and trust is extended to no key that nobody approved.             *)
(***************************************************************************)
EXTENDS Restart, EnrollmentProofs

(***************************************************************************)
(* What is owed to the trust registry's file.                              *)
(***************************************************************************)

Owing == {"choose", "assign", "replace", "joinAck", "idSet", "configSet",
          "rejectAck", "persist"}

Owes(w, m) == call[w].mac = m /\ call[w].at \in Owing

\* Entries are never removed, so the file knows no device that memory does not.
FileIsOlder == DOMAIN authFile \subseteq DOMAIN auth

SavedOrOwed == FileIsOlder /\ AuthFileOwed

LEMMA OwedMeansOwes ==
  AuthFileOwed <=>
    \A m \in DOMAIN auth :
      \/ m \in DOMAIN authFile /\ authFile[m] = auth[m]
      \/ m \in unsaved
      \/ \E w \in Worker : Owes(w, m)
BY DEF AuthFileOwed, Owes, Owing

\* A step that saves.
LEMMA SavingStep ==
  ASSUME authFile' = auth, auth' = auth
  PROVE  SavedOrOwed'
BY DEF SavedOrOwed, FileIsOlder, AuthFileOwed

\* A step that neither saves nor changes what is to be saved.
LEMMA IdleStep ==
  ASSUME SavedOrOwed, UNCHANGED <<auth, authFile, unsaved>>,
         \A w \in Worker, m \in Mac : Owes(w, m) => Owes(w, m)',
         DOMAIN auth \subseteq Mac
  PROVE  SavedOrOwed'
<1>1. AuthFileOwed'
  <2>. SUFFICES ASSUME NEW m \in DOMAIN auth,
                       ~(m \in DOMAIN authFile /\ authFile[m] = auth[m]),
                       m \notin unsaved
                PROVE  \E w \in Worker : Owes(w, m)'
    BY DEF AuthFileOwed, Owes, Owing
  <2>. QED BY OwedMeansOwes DEF SavedOrOwed
<1>. QED BY <1>1 DEF SavedOrOwed, FileIsOlder

\* A step that changes one entry, by a handler that owes it from then on.
LEMMA ChangingStep ==
  ASSUME SavedOrOwed, UNCHANGED <<authFile, unsaved>>, NEW x \in Mac, NEW v \in Worker,
         DOMAIN auth' = DOMAIN auth \cup {x},
         \A m \in DOMAIN auth : m # x => auth'[m] = auth[m],
         Owes(v, x)',
         \A w \in Worker, m \in Mac : Owes(w, m) => Owes(w, m)',
         DOMAIN auth \subseteq Mac
  PROVE  SavedOrOwed'
<1>1. AuthFileOwed'
  <2>. SUFFICES ASSUME NEW m \in DOMAIN auth',
                       ~(m \in DOMAIN authFile /\ authFile[m] = auth'[m]),
                       m \notin unsaved
                PROVE  \E w \in Worker : Owes(w, m)'
    BY DEF AuthFileOwed, Owes, Owing
  <2>. QED BY OwedMeansOwes DEF SavedOrOwed
<1>. QED BY <1>1 DEF SavedOrOwed, FileIsOlder

\* A step whose save fails, for the devices in M.
LEMMA FailingStep ==
  ASSUME SavedOrOwed, UNCHANGED auth, NEW M, SaveFails(M),
         \A w \in Worker, m \in Mac : Owes(w, m) => m \in M \/ Owes(w, m)',
         DOMAIN auth \subseteq Mac
  PROVE  SavedOrOwed'
<1>1. CASE UNCHANGED authFile /\ unsaved' = unsaved \cup {m \in M : Differs(m)}
  <2>1. AuthFileOwed'
    <3>. SUFFICES ASSUME NEW m \in DOMAIN auth,
                         ~(m \in DOMAIN authFile /\ authFile[m] = auth[m]),
                         m \notin unsaved'
                  PROVE  \E w \in Worker : Owes(w, m)'
      BY <1>1 DEF AuthFileOwed, Owes, Owing
    <3>1. m \notin M /\ m \notin unsaved
      BY <1>1 DEF Differs
    <3>. QED BY <3>1, OwedMeansOwes DEF SavedOrOwed
  <2>. QED BY <1>1, <2>1 DEF SavedOrOwed, FileIsOlder
<1>2. CASE authFile' = EmptyMap /\ unsaved' = DOMAIN auth
  BY <1>2 DEF SavedOrOwed, FileIsOlder, AuthFileOwed, EmptyMap
<1>. QED BY <1>1, <1>2 DEF SaveFails

\* A handler's own step: the others owe what they owed, and it goes on owing.
LEMMA OwnStep ==
  ASSUME NEW v \in Worker,
         \A w \in Worker : w # v => call'[w].mac = call[w].mac /\ call'[w].at = call[w].at,
         call[v].at \in Owing => call'[v].at \in Owing /\ call'[v].mac = call[v].mac
  PROVE  \A w \in Worker, m \in Mac : Owes(w, m) => Owes(w, m)'
BY DEF Owes

\* What the steps of an approval do to the record of the handler that takes them.
LEMMA ApprovalStep ==
  ASSUME TInv, NEW w \in Worker,
         \/ ChooseFreeID(w) \/ DetectHotswap(w) \/ Assign(w) \/ Replace(w)
         \/ SendJoinAck(w) \/ SendNodeIDSet(w) \/ SendConfigSet(w)
  PROVE  /\ \A v \in Worker : v # w => call'[v] = call[v]
         /\ call'[w].mac = call[w].mac /\ call'[w].at \in Owing
         /\ UNCHANGED <<auth, authFile, unsaved, granted>>
<1>1. call \in [Worker -> Call]
  BY DEF TInv, TypeOK
<1>2. CASE ChooseFreeID(w)
  BY <1>1, <1>2 DEF ChooseFreeID, Owing, Call
<1>3. CASE DetectHotswap(w)
  <2>1. \A m : Inherit(call[w], m).mac = call[w].mac /\ Inherit(call[w], m).at = "assign"
    BY <1>1 DEF Inherit, Call
  <2>. QED BY <1>1, <1>3, <2>1 DEF DetectHotswap, Goto, Owing, Call
<1>4. CASE Assign(w) \/ Replace(w)
  BY <1>1, <1>4 DEF Assign, Replace, Goto, Owing, Call
<1>5. CASE SendJoinAck(w)
  BY <1>1, <1>5 DEF SendJoinAck, AfterIDSet, Owing, Call
<1>6. CASE SendNodeIDSet(w) \/ SendConfigSet(w)
  BY <1>1, <1>6 DEF SendNodeIDSet, SendConfigSet, AfterIDSet, Goto, Owing, Call
<1>. QED BY <1>2, <1>3, <1>4, <1>5, <1>6

\* Orphan changes neither where a handler is nor which device it works on.
LEMMA OrphanQuiet ==
  ASSUME TInv, NEW w \in Worker, NEW m \in Mac
  PROVE  Orphan(call[w], m).mac = call[w].mac /\ Orphan(call[w], m).at = call[w].at
BY DEF Orphan, TInv, TypeOK, Call

\* Handlers, and the PersistLoop, while the hub runs.
LEMMA NextSaved ==
  ASSUME TInv, SavedOrOwed, [Next]_vars
  PROVE  SavedOrOwed'
<1>. /\ DOMAIN auth \subseteq Mac /\ auth \in [DOMAIN auth -> Auth!NodeAuth]
     /\ call \in [Worker -> Call]
  BY DEF TInv, TypeOK, Auth!IsAuthRegistry
<1>1. ASSUME NEW l \in Link, NEW m \in Mac, NEW k \in Key, JoinRequest(l, m, k)
      PROVE  SavedOrOwed'
  <2>. l \in Worker /\ call[l].at = "idle"
    BY <1>1 DEF Worker, JoinRequest, At
  <2>1. CASE Auth!ApprovedSameKey(auth, m, k)
    <3>1. call' = [call EXCEPT ![l] = [Idle EXCEPT !.at = "resend", !.mac = m]]
          /\ UNCHANGED <<auth, authFile, unsaved>>
      BY <1>1, <2>1 DEF JoinRequest
    <3>2. \A w \in Worker, n \in Mac : Owes(w, n) => Owes(w, n)'
      BY <3>1 DEF Owes, Owing
    <3>. QED BY <3>1, <3>2, IdleStep
  <2>2. CASE ~Auth!ApprovedSameKey(auth, m, k)
    <3> DEFINE c == [Idle EXCEPT !.at = "persist", !.mac = m]
    <3>1. /\ auth' = Auth!AddPending(auth, m, k)
          /\ call' = [w \in Worker |-> IF w = l THEN c ELSE Orphan(call[w], m)]
          /\ UNCHANGED <<authFile, unsaved>>
      BY <1>1, <2>2 DEF JoinRequest
    <3>2. c.at = "persist" /\ c.mac = m
      BY DEF Idle
    <3> HIDE DEF c
    <3>3. Owes(l, m)'
      BY <3>1, <3>2 DEF Owes, Owing
    <3>4. \A w \in Worker, n \in Mac : Owes(w, n) => Owes(w, n)'
      BY <3>1, <3>2, OrphanQuiet DEF Owes, Owing
    <3>5. /\ DOMAIN auth' = DOMAIN auth \cup {m}
          /\ \A n \in DOMAIN auth : n # m => auth'[n] = auth[n]
      BY <3>1 DEF Auth!AddPending, Auth!Put
    <3>. QED BY <3>1, <3>3, <3>4, <3>5, ChangingStep
  <2>. QED BY <2>1, <2>2
<1>2. ASSUME NEW l \in Link, NEW m \in Mac, NEW t \in AdapterType, HealthReport(l, m, t)
      PROVE  SavedOrOwed'
  BY <1>2, IdleStep DEF HealthReport, Owes
<1>3. ASSUME NEW l \in Link, ResendJoinAck(l)
      PROVE  SavedOrOwed'
  <2>1. /\ l \in Worker /\ call[l].at = "resend" /\ UNCHANGED <<auth, authFile, unsaved>>
        /\ \A w \in Worker : w # l => call'[w] = call[w]
    BY <1>3 DEF Worker, ResendJoinAck, At
  <2>. QED BY <2>1, OwnStep, IdleStep DEF Owing
<1>4. ASSUME NEW l \in Link, ApproveAgain(l)
      PROVE  SavedOrOwed'
  <2>. PICK m \in Mac : m = call[l].mac
    BY <1>4 DEF Worker, ApproveAgain, At, TInv, CallOK
  <2>1. l \in Worker /\ call[l].at = "approve" /\ m \in DOMAIN auth
    BY <1>4 DEF Worker, ApproveAgain, At, TInv, CallOK
  <2>2. auth' = Auth!Approve(auth, m) /\ UNCHANGED <<authFile, unsaved>>
    BY <1>4 DEF ApproveAgain
  <2>3. \A w \in Worker : /\ call'[w].mac = call[w].mac
                          /\ call'[w].at = IF w = l THEN "choose" ELSE call[w].at
    BY <1>4, <2>1, GotoMac DEF ApproveAgain, Step
  <2>4. Owes(l, m)' /\ \A w \in Worker, n \in Mac : Owes(w, n) => Owes(w, n)'
    BY <2>1, <2>3 DEF Owes, Owing
  <2>5. /\ DOMAIN auth' = DOMAIN auth \cup {m}
        /\ \A n \in DOMAIN auth : n # m => auth'[n] = auth[n]
    BY <2>1, <2>2 DEF Auth!Approve
  <2>. QED BY <2>1, <2>2, <2>4, <2>5, ChangingStep
<1>5. ASSUME NEW a \in Admin, NEW m \in Mac, NEW id \in NodeID,
             NEW name \in Name \cup {EmptyName}, NEW zone \in Zone \cup {EmptyZone},
             NEW type \in TypeAsked, ApproveRequest(a, m, id, name, zone, type)
      PROVE  SavedOrOwed'
  <2> DEFINE c == [Idle EXCEPT !.at = "choose", !.mac = m, !.id = id,
                               !.name = name, !.zone = zone, !.type = type]
  <2>1. /\ a \in Worker /\ call[a].at = "idle" /\ m \in DOMAIN auth
        /\ auth' = Auth!Approve(auth, m) /\ UNCHANGED <<authFile, unsaved>>
        /\ call' = [call EXCEPT ![a] = c]
    BY <1>5 DEF Worker, ApproveRequest, At
  <2>2. c.at = "choose" /\ c.mac = m
    BY DEF Idle
  <2> HIDE DEF c
  <2>3. Owes(a, m)' /\ \A w \in Worker, n \in Mac : Owes(w, n) => Owes(w, n)'
    BY <2>1, <2>2 DEF Owes, Owing
  <2>4. /\ DOMAIN auth' = DOMAIN auth \cup {m}
        /\ \A n \in DOMAIN auth : n # m => auth'[n] = auth[n]
    BY <2>1 DEF Auth!Approve
  <2>. QED BY <2>1, <2>3, <2>4, ChangingStep
<1>6. ASSUME NEW a \in Admin, NEW m \in Mac, RejectRequest(a, m)
      PROVE  SavedOrOwed'
  <2> DEFINE c == [Idle EXCEPT !.at = "rejectAck", !.mac = m]
  <2>1. /\ a \in Worker /\ call[a].at = "idle" /\ m \in DOMAIN auth
        /\ auth' = Auth!Reject(auth, m) /\ UNCHANGED <<authFile, unsaved>>
        /\ call' = [call EXCEPT ![a] = c]
    BY <1>6 DEF Worker, RejectRequest, At
  <2>2. c.at = "rejectAck" /\ c.mac = m
    BY DEF Idle
  <2> HIDE DEF c
  <2>3. Owes(a, m)' /\ \A w \in Worker, n \in Mac : Owes(w, n) => Owes(w, n)'
    BY <2>1, <2>2 DEF Owes, Owing
  <2>4. /\ DOMAIN auth' = DOMAIN auth \cup {m}
        /\ \A n \in DOMAIN auth : n # m => auth'[n] = auth[n]
    BY <2>1 DEF Auth!Reject
  <2>. QED BY <2>1, <2>3, <2>4, ChangingStep
<1>7. ASSUME NEW a \in Admin, NEW id \in NodeID \ {0}, NEW type \in TypeAsked \ {"named"},
             UpdateRequest(a, id, type)
      PROVE  SavedOrOwed'
  <2>1. /\ a \in Worker /\ call[a].at = "idle" /\ UNCHANGED <<auth, authFile, unsaved>>
        /\ \A w \in Worker : w # a => call'[w] = call[w]
    BY <1>7 DEF Worker, UpdateRequest, At
  <2>. QED BY <2>1, OwnStep, IdleStep DEF Owing
<1>8. ASSUME NEW a \in Admin, SendRejection(a)
      PROVE  SavedOrOwed'
  <2>1. a \in Worker /\ UNCHANGED <<auth, authFile, unsaved>>
    BY <1>8 DEF Worker, SendRejection
  <2>2. \A w \in Worker : /\ call'[w].mac = call[w].mac
                          /\ call'[w].at = IF w = a THEN "persist" ELSE call[w].at
    BY <1>8, <2>1, GotoMac DEF SendRejection, Step
  <2>. QED BY <2>1, <2>2, OwnStep, IdleStep DEF Owing
<1>9. ASSUME NEW a \in Admin, Configure(a) \/ Update(a) \/ Remove(a)
      PROVE  SavedOrOwed'
  <2>1. /\ a \in Worker /\ call[a].at \notin Owing /\ UNCHANGED <<auth, authFile, unsaved>>
        /\ \A w \in Worker : w # a => call'[w] = call[w]
    BY <1>9 DEF Worker, Configure, Update, Remove, At, Owing
  <2>. QED BY <2>1, OwnStep, IdleStep
<1>10. ASSUME NEW w \in Worker,
              \/ ChooseFreeID(w) \/ DetectHotswap(w) \/ Assign(w) \/ Replace(w)
              \/ SendJoinAck(w) \/ SendNodeIDSet(w) \/ SendConfigSet(w)
       PROVE  SavedOrOwed'
  BY <1>10, ApprovalStep, OwnStep, IdleStep
<1>11. ASSUME NEW w \in Worker, Persist(w)
       PROVE  SavedOrOwed'
  BY <1>11, SavingStep DEF Persist, Save
<1>12. CASE PersistTick
  <2>1. CASE Save
    BY <1>12, <2>1, SavingStep DEF PersistTick, Save
  <2>2. CASE SaveFails({})
    <3>1. UNCHANGED <<auth, call>>
      BY <1>12 DEF PersistTick
    <3>. QED BY <2>2, <3>1, FailingStep DEF Owes
  <2>. QED BY <1>12, <2>1, <2>2 DEF PersistTick
<1>13. CASE UNCHANGED vars
  BY <1>13, IdleStep DEF vars, Owes
<1>14. ASSUME NEW a \in Admin, NEW id \in NodeID \ {0}, DeleteRequest(a, id)
       PROVE  SavedOrOwed'
  <2>1. /\ a \in Worker /\ call[a].at = "idle" /\ UNCHANGED <<auth, authFile, unsaved>>
        /\ \A w \in Worker : w # a => call'[w] = call[w]
    BY <1>14 DEF Worker, DeleteRequest, At
  <2>. QED BY <2>1, OwnStep, IdleStep DEF Owing
<1>15. ASSUME NEW w \in Worker, PersistFails(w)
       PROVE  SavedOrOwed'
  <2>1. /\ UNCHANGED auth /\ SaveFails({call[w].mac})
        /\ \A v \in Worker : v # w => call'[v] = call[v]
    BY <1>15 DEF PersistFails
  <2>2. \A v \in Worker, m \in Mac : Owes(v, m) => m \in {call[w].mac} \/ Owes(v, m)'
    BY <2>1 DEF Owes
  <2>. QED BY <2>1, <2>2, FailingStep
<1>. QED
  BY <1>1, <1>2, <1>3, <1>4, <1>5, <1>6, <1>7, <1>8, <1>9, <1>10, <1>11, <1>12, <1>13,
     <1>14, <1>15
  DEF Next, LinkStep, AdminStep, ApproveStep

-----------------------------------------------------------------------------
(* The invariant of the hub that may be killed.                            *)

RestartInv == TInv /\ IsNodeRegistry(nodesFile) /\ SavedOrOwed

LEMMA InitRestartInv == RestartInit => RestartInv
<1>. SUFFICES ASSUME RestartInit PROVE RestartInv
  OBVIOUS
<1>1. TInv /\ IsNodeRegistry(nodesFile)
  BY InitTInv DEF RestartInit, IsNodeRegistry, EmptyMap
<1>2. SavedOrOwed
  BY DEF RestartInit, Init, SavedOrOwed, FileIsOlder, AuthFileOwed, EmptyMap
<1>. QED BY <1>1, <1>2 DEF RestartInv

\* A crash leaves a hub that knows what the files hold and runs nothing.
LEMMA CrashKeepsInv ==
  ASSUME RestartInv, NEW torn \in SUBSET File, Crash(torn)
  PROVE  RestartInv'
<1>1. /\ auth' = LoadAuth(torn) /\ authFile' = auth'
      /\ nodes' = LoadNodes(torn) /\ nodesFile' = nodes'
      /\ call' = [w \in Worker |-> Idle] /\ unsaved' = {}
      /\ UNCHANGED <<sent, granted>>
  BY DEF Crash
<1>2. Auth!IsAuthRegistry(LoadAuth(torn))
  BY DEF LoadAuth, RestartInv, TInv, TypeOK, Auth!IsAuthRegistry, EmptyMap
<1>3. IsNodeRegistry(LoadNodes(torn))
  BY DEF LoadNodes, RestartInv, IsNodeRegistry, EmptyMap
<1>4. TypeOK'
  <2>1. call' \in [Worker -> Call]
    BY <1>1, IdleType
  <2>2. /\ sent \in [Mac -> [answer : Answer, id : NodeID]] /\ granted \subseteq Mac \X Key
    BY DEF RestartInv, TInv, TypeOK
  <2>. QED BY <1>1, <1>2, <1>3, <2>1, <2>2 DEF TypeOK
<1>5. CallOK'
  BY <1>1 DEF CallOK, Idle
<1>6. SavedOrOwed'
  BY <1>1 DEF SavedOrOwed, FileIsOlder, AuthFileOwed
<1>. QED BY <1>1, <1>3, <1>4, <1>5, <1>6 DEF RestartInv, TInv

LEMMA NextRestartInv == RestartInv /\ [RestartNext]_restartVars => RestartInv'
<1>. SUFFICES ASSUME RestartInv, [RestartNext]_restartVars PROVE RestartInv'
  OBVIOUS
<1>1. CASE [Next]_vars /\ UNCHANGED nodesFile
  BY <1>1, NextTInv, NextSaved DEF RestartInv
<1>2. CASE PersistNodesTick
  <2>1. TInv' /\ SavedOrOwed'
    BY <1>2, NextTInv, NextSaved DEF PersistNodesTick, RestartInv
  <2>2. IsNodeRegistry(nodesFile)'
    BY <1>2 DEF PersistNodesTick, RestartInv, TInv, TypeOK
  <2>. QED BY <2>1, <2>2 DEF RestartInv
<1>3. ASSUME NEW torn \in SUBSET File, Crash(torn)
      PROVE  RestartInv'
  BY <1>3, CrashKeepsInv
<1>4. CASE UNCHANGED restartVars
  BY <1>1, <1>4 DEF restartVars
<1>. QED BY <1>1, <1>2, <1>3, <1>4 DEF RestartNext

\* RestartInv holds throughout, crashes or no crashes.
LEMMA RestartInvInvariant == RestartSpec => []RestartInv
BY InitRestartInv, NextRestartInv, PTL DEF RestartSpec

\* No handler answers before its decision is on disk or its save has failed, whatever
\* is saved at the same time and however often the hub is killed.
THEOREM FileOwed == RestartSpec => []AuthFileOwed
<1>1. RestartInv => AuthFileOwed
  BY DEF RestartInv, SavedOrOwed
<1>. QED BY <1>1, RestartInvInvariant, PTL

\* The step AnsweredSurvives is about.
LEMMA CrashKeepsAnswered ==
  ASSUME RestartInv, NEW torn \in SUBSET {"nodes"}, NEW m \in Mac, Crash(torn),
         m \notin unsaved, \A w \in Worker : call[w].mac # m
  PROVE  /\ m \in DOMAIN auth' <=> m \in DOMAIN auth
         /\ m \in DOMAIN auth => auth'[m] = auth[m]
<1>1. auth' = authFile
  BY DEF Crash, LoadAuth
<1>2. m \in DOMAIN auth => m \in DOMAIN authFile /\ authFile[m] = auth[m]
  BY DEF RestartInv, SavedOrOwed, AuthFileOwed
<1>. QED BY <1>1, <1>2 DEF RestartInv, SavedOrOwed, FileIsOlder

\* "Persist immediately so the admin sees it even if the server restarts": what was
\* answered about a device, its save not failed, is what the hub knows of it after a
\* crash that did not tear the file.
THEOREM DecisionsSurvive == RestartSpec => AnsweredSurvives
<1>1. RestartInv /\ [RestartNext]_restartVars =>
        [\A torn \in SUBSET {"nodes"}, m \in Mac :
           Crash(torn) /\ m \notin unsaved /\ (\A w \in Worker : call[w].mac # m) =>
             /\ m \in DOMAIN auth' <=> m \in DOMAIN auth
             /\ m \in DOMAIN auth => auth'[m] = auth[m]]_restartVars
  BY CrashKeepsAnswered
<1>. QED BY <1>1, RestartInvInvariant, PTL DEF RestartSpec, AnsweredSurvives

(***************************************************************************)
(* Trust.  What is approved, in memory or on disk, was granted; and on a   *)
(* hub with one serial link a resend approves the key it found approved,   *)
(* because only that link's own handler replaces keys.                     *)
(***************************************************************************)

Granted(a, m) == <<m, a[m].publicKey>> \in granted

ResendOfGranted ==
  \A l \in Link : call[l].at \in {"resend", "approve"} => Granted(auth, call[l].mac)

FileWasGranted ==
  \A m \in DOMAIN authFile : Auth!IsApproved(authFile, m) => Granted(authFile, m)

TrustInv == ApprovedKeyWasGranted /\ FileWasGranted /\ ResendOfGranted

OneLink == \A k, l \in Link : k = l

\* Nothing is approved that was not, and the link's handler does not begin to resend.
LEMMA TrustQuiet ==
  ASSUME TrustInv, UNCHANGED <<auth, granted>>, authFile' \in {auth, authFile, EmptyMap},
         \A l \in Link : call'[l].at \in {"resend", "approve"} =>
                           call[l].at \in {"resend", "approve"} /\ call'[l].mac = call[l].mac
  PROVE  TrustInv'
<1>1. ApprovedKeyWasGranted'
  BY DEF TrustInv, ApprovedKeyWasGranted
<1>2. FileWasGranted'
  BY DEF TrustInv, ApprovedKeyWasGranted, FileWasGranted, Granted, EmptyMap
<1>3. ResendOfGranted'
  BY DEF TrustInv, ResendOfGranted, Granted
<1>. QED BY <1>1, <1>2, <1>3 DEF TrustInv

\* One entry's status changes, to approved only if its key is granted by then; keys stay.
LEMMA TrustDecision ==
  ASSUME TInv, TrustInv, NEW x \in DOMAIN auth, NEW s \in {"approved", "rejected"},
         auth' = [auth EXCEPT ![x].status = s], UNCHANGED authFile,
         granted \subseteq granted',
         s = "approved" => <<x, auth[x].publicKey>> \in granted',
         \A l \in Link : call'[l].at \in {"resend", "approve"} => call'[l] = call[l]
  PROVE  TrustInv'
<1>1. DOMAIN auth' = DOMAIN auth /\ \A m \in DOMAIN auth : auth'[m].publicKey = auth[m].publicKey
  BY DEF TInv, TypeOK, Auth!IsAuthRegistry, Auth!NodeAuth
<1>2. \A m \in DOMAIN auth : m # x => auth'[m] = auth[m]
  OBVIOUS
<1>3. ApprovedKeyWasGranted'
  <2>1. auth'[x].status = s
    BY DEF TInv, TypeOK, Auth!IsAuthRegistry, Auth!NodeAuth
  <2>. QED BY <1>1, <1>2, <2>1 DEF TrustInv, ApprovedKeyWasGranted, Auth!IsApproved
<1>4. FileWasGranted'
  BY DEF TrustInv, FileWasGranted, Granted
<1>5. ResendOfGranted'
  <2>1. \A l \in Link : call[l].at \in {"resend", "approve"} => call[l].mac \in DOMAIN auth
    BY DEF TInv, CallOK, Worker
  <2>. QED BY <1>1, <2>1 DEF TrustInv, ResendOfGranted, Granted
<1>. QED BY <1>3, <1>4, <1>5 DEF TrustInv

LEMMA NextTrust ==
  ASSUME OneLink, TInv, TrustInv, [Next]_vars
  PROVE  TrustInv'
<1>. /\ DOMAIN auth \subseteq Mac /\ auth \in [DOMAIN auth -> Auth!NodeAuth]
     /\ call \in [Worker -> Call] /\ \A l \in Link : l \in Worker
     /\ \A a \in Admin : a \notin Link
  BY WorkerAssumption DEF TInv, TypeOK, Auth!IsAuthRegistry, Worker
<1>1. ASSUME NEW l \in Link, NEW m \in Mac, NEW k \in Key, JoinRequest(l, m, k)
      PROVE  TrustInv'
  <2>1. CASE Auth!ApprovedSameKey(auth, m, k)
    <3>1. call' = [call EXCEPT ![l] = [Idle EXCEPT !.at = "resend", !.mac = m]]
          /\ UNCHANGED <<auth, authFile, granted>>
      BY <1>1, <2>1 DEF JoinRequest
    <3>2. call'[l].mac = m /\ Granted(auth, m)
      BY <2>1, <3>1 DEF Idle, Auth!ApprovedSameKey, TrustInv, ApprovedKeyWasGranted,
                       Auth!IsApproved, Granted
    <3>3. ResendOfGranted'
      BY <3>1, <3>2 DEF ResendOfGranted, Granted, OneLink
    <3>. QED BY <3>1, <3>3 DEF TrustInv, ApprovedKeyWasGranted, FileWasGranted, Granted
  <2>2. CASE ~Auth!ApprovedSameKey(auth, m, k)
    <3>1. /\ auth' = Auth!AddPending(auth, m, k)
          /\ call' = [w \in Worker |-> IF w = l THEN [Idle EXCEPT !.at = "persist", !.mac = m]
                                       ELSE Orphan(call[w], m)]
          /\ UNCHANGED <<authFile, granted>>
      BY <1>1, <2>2 DEF JoinRequest
    <3>2. ApprovedKeyWasGranted'
      BY <3>1 DEF TrustInv, ApprovedKeyWasGranted, Auth!AddPending, Auth!Put, Auth!IsApproved
    <3>3. call'[l].at = "persist"
      BY <3>1 DEF Idle
    <3>4. ResendOfGranted'
      BY <3>3 DEF ResendOfGranted, OneLink
    <3>. QED BY <3>1, <3>2, <3>4 DEF TrustInv, FileWasGranted, Granted
  <2>. QED BY <2>1, <2>2
<1>2. ASSUME NEW l \in Link, NEW m \in Mac, NEW t \in AdapterType, HealthReport(l, m, t)
      PROVE  TrustInv'
  BY <1>2, TrustQuiet DEF HealthReport
<1>3. ASSUME NEW l \in Link, ResendJoinAck(l)
      PROVE  TrustInv'
  <2>1. call[l].at = "resend" /\ UNCHANGED <<auth, authFile, granted>>
        /\ \A w \in Worker : w # l => call'[w] = call[w]
    BY <1>3 DEF ResendJoinAck, At
  <2>2. call'[l].mac = call[l].mac
    BY <1>3 DEF ResendJoinAck, Call
  <2>. QED BY <2>1, <2>2, TrustQuiet
<1>4. ASSUME NEW l \in Link, ApproveAgain(l)
      PROVE  TrustInv'
  <2>. PICK m \in Mac : m = call[l].mac
    BY <1>4 DEF ApproveAgain, At, TInv, CallOK
  <2>1. call[l].at = "approve" /\ m \in DOMAIN auth
    BY <1>4 DEF ApproveAgain, At, TInv, CallOK
  <2>2. auth' = [auth EXCEPT ![m].status = "approved"] /\ UNCHANGED <<authFile, granted>>
    BY <1>4 DEF ApproveAgain, Auth!Approve
  <2>3. <<m, auth[m].publicKey>> \in granted
    BY <2>1 DEF TrustInv, ResendOfGranted, Granted
  <2>4. call'[l].at = "choose" /\ \A k \in Link : k = l
    BY <1>4 DEF ApproveAgain, Goto, OneLink, Call
  <2>. QED BY <2>1, <2>2, <2>3, <2>4, TrustDecision
<1>5. ASSUME NEW a \in Admin, NEW m \in Mac, NEW id \in NodeID,
             NEW name \in Name \cup {EmptyName}, NEW zone \in Zone \cup {EmptyZone},
             NEW type \in TypeAsked, ApproveRequest(a, m, id, name, zone, type)
      PROVE  TrustInv'
  <2>1. /\ m \in DOMAIN auth /\ UNCHANGED authFile
        /\ auth' = [auth EXCEPT ![m].status = "approved"]
        /\ granted' = granted \cup {<<m, auth[m].publicKey>>}
        /\ \A l \in Link : call'[l] = call[l]
    BY <1>5 DEF ApproveRequest, Auth!Approve
  <2>. QED BY <2>1, TrustDecision
<1>6. ASSUME NEW a \in Admin, NEW m \in Mac, RejectRequest(a, m)
      PROVE  TrustInv'
  <2>1. /\ m \in DOMAIN auth /\ UNCHANGED <<authFile, granted>>
        /\ auth' = [auth EXCEPT ![m].status = "rejected"]
        /\ \A l \in Link : call'[l] = call[l]
    BY <1>6 DEF RejectRequest, Auth!Reject
  <2>. QED BY <2>1, TrustDecision
<1>7. ASSUME NEW a \in Admin, NEW id \in NodeID \ {0}, NEW type \in TypeAsked \ {"named"},
             UpdateRequest(a, id, type)
      PROVE  TrustInv'
  <2>1. UNCHANGED <<auth, authFile, granted>> /\ \A l \in Link : call'[l] = call[l]
    BY <1>7 DEF UpdateRequest
  <2>. QED BY <2>1, TrustQuiet
<1>8. ASSUME NEW a \in Admin, NEW id \in NodeID \ {0}, DeleteRequest(a, id)
      PROVE  TrustInv'
  <2>1. UNCHANGED <<auth, authFile, granted>> /\ \A l \in Link : call'[l] = call[l]
    BY <1>8 DEF DeleteRequest
  <2>. QED BY <2>1, TrustQuiet
<1>9. ASSUME NEW a \in Admin,
             SendRejection(a) \/ Configure(a) \/ Update(a) \/ Remove(a)
      PROVE  TrustInv'
  <2>1. UNCHANGED <<auth, authFile, granted>> /\ \A l \in Link : call'[l] = call[l]
    BY <1>9 DEF SendRejection, Goto, Configure, Update, Remove
  <2>. QED BY <2>1, TrustQuiet
<1>10. ASSUME NEW w \in Worker,
              \/ ChooseFreeID(w) \/ DetectHotswap(w) \/ Assign(w) \/ Replace(w)
              \/ SendJoinAck(w) \/ SendNodeIDSet(w) \/ SendConfigSet(w)
       PROVE  TrustInv'
  <2>1. /\ \A v \in Worker : v # w => call'[v] = call[v]
        /\ call'[w].at \in Owing /\ UNCHANGED <<auth, authFile, granted>>
    BY <1>10, ApprovalStep
  <2>. QED BY <2>1, TrustQuiet DEF Owing
<1>11. ASSUME NEW w \in Worker, Persist(w)
       PROVE  TrustInv'
  <2>1. /\ \A v \in Worker : v # w => call'[v] = call[v]
        /\ UNCHANGED <<auth, granted>> /\ authFile' = auth
    BY <1>11 DEF Persist, Save
  <2>2. call'[w].at \in {"configure", "idle"}
    BY <1>11 DEF Persist, Idle, Call
  <2>. QED BY <2>1, <2>2, TrustQuiet
<1>12. CASE PersistTick
  BY <1>12, TrustQuiet DEF PersistTick, Save, SaveFails
<1>13. CASE UNCHANGED vars
  BY <1>13, TrustQuiet DEF vars
<1>14. ASSUME NEW w \in Worker, PersistFails(w)
       PROVE  TrustInv'
  <2>1. /\ \A v \in Worker : v # w => call'[v] = call[v]
        /\ UNCHANGED <<auth, granted>> /\ authFile' \in {authFile, EmptyMap}
    BY <1>14 DEF PersistFails, SaveFails
  <2>2. call'[w].at = "idle"
    BY <1>14 DEF PersistFails, Idle
  <2>. QED BY <2>1, <2>2, TrustQuiet
<1>. QED
  BY <1>1, <1>2, <1>3, <1>4, <1>5, <1>6, <1>7, <1>8, <1>9, <1>10, <1>11, <1>12, <1>13, <1>14
  DEF Next, LinkStep, AdminStep, ApproveStep

\* Self-healing resends extend trust to no key that no administrator approved for that
\* device, on a hub with one serial link and through any number of crashes.
THEOREM TrustIsGranted ==
  ASSUME OneLink
  PROVE  RestartSpec => []ApprovedKeyWasGranted
<1>1. RestartInit => TrustInv
  BY DEF RestartInit, Init, TrustInv, ApprovedKeyWasGranted, FileWasGranted,
         ResendOfGranted, Worker, Idle, EmptyMap
<1>2. RestartInv /\ TrustInv /\ [RestartNext]_restartVars => TrustInv'
  <2>. SUFFICES ASSUME RestartInv, TrustInv, [RestartNext]_restartVars PROVE TrustInv'
    OBVIOUS
  <2>1. CASE [Next]_vars
    BY <2>1, NextTrust DEF RestartInv
  <2>2. ASSUME NEW torn \in SUBSET File, Crash(torn)
        PROVE  TrustInv'
    <3>1. /\ auth' = LoadAuth(torn) /\ authFile' = auth' /\ granted' = granted
          /\ \A l \in Link : call'[l].at = "idle"
      BY <2>2 DEF Crash, Worker, Idle
    <3>2. FileWasGranted'
      BY <3>1 DEF LoadAuth, EmptyMap, FileWasGranted, TrustInv, Granted
    <3>3. ApprovedKeyWasGranted'
      BY <3>1, <3>2 DEF FileWasGranted, ApprovedKeyWasGranted, Granted
    <3>. QED BY <3>1, <3>2, <3>3 DEF TrustInv, ResendOfGranted
  <2>. QED BY <2>1, <2>2 DEF RestartNext, restartVars, PersistNodesTick
<1>3. TrustInv => ApprovedKeyWasGranted
  BY DEF TrustInv
<1>. QED BY <1>1, <1>2, <1>3, RestartInvInvariant, PTL DEF RestartSpec

=============================================================================
