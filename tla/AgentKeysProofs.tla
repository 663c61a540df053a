-------------------------- MODULE AgentKeysProofs --------------------------
(***************************************************************************)
(* Proofs about AgentKeys, for any number of processes, hosts, accounts,   *)
(* keys and faults.  IInv is inductive; every safety theorem follows.      *)
(***************************************************************************)
EXTENDS AgentKeys, TLAPS

USE ConstantsAssumption

\* A step keeps the core of the invariant, and the owner of each revoked binding.
Keeps == CoreInv' /\ \A h \in Hosts : HasOwner(h) => HasOwner(h)'

LEMMA InitInvariant == Init => IInv
<1> SUFFICES ASSUME Init PROVE IInv
    OBVIOUS
<1> USE DEF Init, Idle
<1>1. PICK o \in Orgs, hasId \in BOOLEAN :
        keys = [k \in Keys |->
                  IF k = legacy THEN [status |-> "active", host |-> DefaultHost,
                                      org |-> o, hasId |-> hasId]
                  ELSE Unissued]
      OBVIOUS
<1>2. TypeOK
      BY <1>1 DEF TypeOK, KeyRecords, Jobs, Statuses, Documents, Pcs, Unissued, AllCommands
<1>3. JobShape /\ CreatedFresh /\ DocumentInstalled /\ RevokedFirst
      BY DEF JobShape, CreatedFresh, DocumentInstalled, RevokedFirst
<1>4. BindingInstalled
      BY <1>1 DEF BindingInstalled
<1>5. RevokedBindingHasOwner
      BY <1>1 DEF RevokedBindingHasOwner, HasOwner, Binding, Unissued
<1> QED BY <1>2, <1>3, <1>4, <1>5 DEF IInv, CoreInv

-----------------------------------------------------------------------------
(* Steps that only move one command, or only touch hosts.yml.                *)

\* The condition under which a command may be in state r, keys and files as
\* they are: JobShape, DocumentInstalled and RevokedFirst for one job, which
\* has nothing to save.
Sound(r) ==
    /\ r.pc # "save"
    /\ r.pc \in {"credential", "load", "legacy", "revoke", "create", "launch"} => r.host \in Hosts
    /\ r.pc = "legacy" => r.host = DefaultHost
    /\ r.pc = "revoke" => r.cmd = "regenerate"
    /\ r.pc \in {"revoke", "launch"} => r.document \in Keys
    /\ r.document \in Keys =>
         /\ r.pc \in {"revoke", "launch"} \/ (r.pc = "create" /\ r.cmd = "regenerate")
         /\ r.document \in installed
         /\ keys[r.document].host = r.host
         /\ r.pc = "create" => \/ keys[r.document].status # "active"
                               \/ ~keys[r.document].hasId
                               \/ keys[r.document].org # r.org

\* A step that only gives command p a sound new state, and strands what p had
\* revoked and not replaced, preserves the invariant.
LEMMA QuietStep ==
    ASSUME CoreInv,
           NEW p \in Procs, NEW r \in Jobs, Sound(r),
           job' = [job EXCEPT ![p] = r],
           UNCHANGED <<keys, file, legacy, hostsFile, installed>>,
           stranded \subseteq stranded', stranded' \subseteq Keys,
           Unreplaced(p) \subseteq stranded',
           faults' \in 0..MaxFaults
    PROVE  Keeps
<1> USE DEF CoreInv, TypeOK, hostsFile
<1>1. TypeOK'
      OBVIOUS
<1>2. JobShape'
      BY DEF JobShape, Sound
<1>3. CreatedFresh'
      BY DEF CreatedFresh, Sound
<1>4. DocumentInstalled' /\ BindingInstalled'
      BY DEF DocumentInstalled, BindingInstalled, Sound
<1>5. RevokedFirst'
      BY DEF RevokedFirst, Sound
<1>6. \A h \in Hosts : HasOwner(h) => HasOwner(h)'
  <2> SUFFICES ASSUME NEW h \in Hosts, HasOwner(h),
                      Binding(h) \in Keys, keys[Binding(h)].status = "retired",
                      Binding(h) \notin stranded'
               PROVE  \E q \in Procs : job'[q].host = h /\ Binding(h) \in Unreplaced(q)'
      BY DEF HasOwner, Binding
  <2>1. PICK q \in Procs : job[q].host = h /\ Binding(h) \in Unreplaced(q)
      BY DEF HasOwner
  <2>2. q # p
      BY <2>1
  <2>3. job'[q] = job[q]
      BY <2>2
  <2> QED BY <2>1, <2>3 DEF Unreplaced
<1> QED BY <1>1, <1>2, <1>3, <1>4, <1>5, <1>6 DEF Keeps

\* hosts.yml is no part of the invariant but for its type.
LEMMA HostsFileStep ==
    ASSUME CoreInv, Authentication PROVE Keeps
<1> USE DEF Authentication, AuthUse, AuthLogin, CoreInv, history
<1>1. TypeOK'
      BY DEF TypeOK
<1>2. UNCHANGED <<keys, file, legacy, job, installed, stranded, faults>>
      OBVIOUS
<1> QED BY <1>1, <1>2 DEF Keeps, JobShape, CreatedFresh, DocumentInstalled, BindingInstalled,
             RevokedFirst, HasOwner, Binding, Unreplaced

LEMMA IdleSound == Idle \in Jobs /\ Sound(Idle)
BY DEF Idle, Jobs, Pcs, Documents, Sound

\* A command that has a binding to revoke, or has revoked one, is at one of two
\* steps; at every other step it strands nothing when it stops.
LEMMA NothingUnreplaced ==
    ASSUME NEW p \in Procs, job[p].pc \notin {"create", "save"}
    PROVE  Unreplaced(p) = {}
BY DEF Unreplaced

LEMMA BeginStep == ASSUME CoreInv, NEW p \in Procs, Begin(p) PROVE Keeps
<1>1. PICK cmd \in Commands, explicit \in Hosts \cup {None} :
        job' = [job EXCEPT ![p] = [Idle EXCEPT !.pc = "engine", !.cmd = cmd,
                                               !.explicit = explicit]]
      BY DEF Begin
<1> DEFINE r == [Idle EXCEPT !.pc = "engine", !.cmd = cmd, !.explicit = explicit]
<1>2. r \in Jobs /\ Sound(r)
      BY IdleSound DEF Idle, Jobs, Pcs, Sound
<1>3. Unreplaced(p) = {}
      BY NothingUnreplaced DEF Begin
<1> QED BY <1>1, <1>2, <1>3, QuietStep DEF Begin, history, CoreInv, TypeOK

LEMMA ResolveEngineStep == ASSUME CoreInv, NEW p \in Procs, ResolveEngine(p) PROVE Keeps
<1> DEFINE r == [job[p] EXCEPT !.pc = IF job[p].cmd = "agent" THEN "hostname" ELSE "target"]
<1>1. r \in Jobs /\ Sound(r)
      BY DEF ResolveEngine, CoreInv, TypeOK, JobShape, Jobs, Pcs, Sound
<1>2. job' = [job EXCEPT ![p] = r]
      BY DEF ResolveEngine, Goto, CoreInv, TypeOK
<1>3. Unreplaced(p) = {}
      BY NothingUnreplaced DEF ResolveEngine
<1> QED BY <1>1, <1>2, <1>3, QuietStep DEF ResolveEngine, history, CoreInv, TypeOK

LEMMA ResolveHostnameStep == ASSUME CoreInv, NEW p \in Procs, ResolveHostname(p) PROVE Keeps
<1> DEFINE h == ResolvedHost(p)
           r == [job[p] EXCEPT !.pc = IF job[p].pc = "hostname" THEN "load" ELSE "credential",
                               !.host = h]
<1>1. job[p].pc \in {"hostname", "target"} /\ Unreplaced(p) = {}
      BY NothingUnreplaced DEF ResolveHostname
<1>2. CASE h \in Supported
  <2>1. job[p] \in Jobs /\ h \in Hosts /\ job[p].document \notin Keys
        BY <1>1, <1>2 DEF CoreInv, TypeOK, JobShape
  <2>2. r \in Jobs /\ r.pc \in {"load", "credential"} /\ r.host = h /\ r.document \notin Keys
    <3> HIDE DEF h
    <3> QED BY <2>1 DEF Jobs, Pcs
  <2>3. Sound(r)
    <3> HIDE DEF r, h
    <3> QED BY <2>1, <2>2 DEF Sound
  <2>4. job' = [job EXCEPT ![p] = r]
        BY <1>1, <1>2 DEF ResolveHostname, CoreInv, TypeOK
  <2> QED BY <1>1, <2>2, <2>3, <2>4, QuietStep DEF ResolveHostname, history, CoreInv, TypeOK
<1>3. CASE h \notin Supported
  <2>1. job' = [job EXCEPT ![p] = Idle]
        BY <1>3 DEF ResolveHostname, Finish
  <2> QED BY <1>1, <2>1, IdleSound, QuietStep DEF ResolveHostname, history, CoreInv, TypeOK
<1> QED BY <1>2, <1>3

LEMMA ReadCredentialStep == ASSUME CoreInv, NEW p \in Procs, ReadCredential(p) PROVE Keeps
<1> DEFINE org == account[job[p].host]
           r == [job[p] EXCEPT !.org = org,
                               !.pc = IF job[p].cmd = "agent" THEN "create" ELSE "load"]
<1>1. Unreplaced(p) = {}
      BY NothingUnreplaced DEF ReadCredential
<1>2. CASE org = None
      BY <1>1, <1>2, IdleSound, QuietStep DEF ReadCredential, Finish, history, CoreInv, TypeOK
<1>3. CASE org # None
  <2>1. r \in Jobs /\ Sound(r)
        BY <1>3 DEF ReadCredential, CoreInv, TypeOK, JobShape, Jobs, Pcs, Sound
  <2>2. job' = [job EXCEPT ![p] = r]
        BY <1>3 DEF ReadCredential, CoreInv, TypeOK
  <2> QED BY <1>1, <2>1, <2>2, QuietStep DEF ReadCredential, history, CoreInv, TypeOK
<1> QED BY <1>2, <1>3

\* What Load returned puts the command in a sound state if the document comes
\* from one of the binding files of its host.
LEMMA LoadedSound ==
    ASSUME CoreInv, NEW p \in Procs, job[p].pc \in {"load", "legacy"},
           NEW document \in Documents,
           document \in Keys => document \in installed /\ keys[document].host = job[p].host,
           Loaded(p, document)
    PROVE  \E r \in Jobs : Sound(r) /\ job' = [job EXCEPT ![p] = r]
<1> DEFINE next == AfterLoad(job[p].cmd, document)
           r == [job[p] EXCEPT !.pc = next, !.document = document]
<1>1. CASE next = "idle"
      BY <1>1, IdleSound DEF Loaded
<1>2. CASE next # "idle"
  <2>1. /\ next \in Pcs \ {"save", "credential", "load", "legacy"}
        /\ next = "revoke" => job[p].cmd = "regenerate"
        /\ next \in {"revoke", "launch"} => document \in Keys
        /\ next = "create" => job[p].cmd = "regenerate" \/ document = None
        /\ next = "create" /\ document \in Keys => ~keys[document].hasId
        /\ document \in Keys => next \in {"revoke", "launch", "create"}
        BY <1>2 DEF AfterLoad, Pcs
  <2>2. r \in Jobs
    <3>1. job[p] \in Jobs /\ next \in Pcs
          BY <2>1 DEF CoreInv, TypeOK
    <3> HIDE DEF next
    <3> QED BY <3>1 DEF Jobs
  <2>3. Sound(r)
    <3>1. job[p] \in Jobs /\ job[p].host \in Hosts
          BY DEF CoreInv, TypeOK, JobShape
    <3>2. /\ r.pc = next /\ r.document = document
          /\ r.host = job[p].host /\ r.cmd = job[p].cmd /\ r.org = job[p].org
          BY <3>1 DEF Jobs
    <3> HIDE DEF next, r
    <3> QED BY <2>1, <3>1, <3>2 DEF Sound
  <2>4. job' = [job EXCEPT ![p] = r]
        BY <1>2 DEF Loaded
  <2> QED BY <2>2, <2>3, <2>4
<1> QED BY <1>1, <1>2

LEMMA LoadHostFileStep == ASSUME CoreInv, NEW p \in Procs, LoadHostFile(p) PROVE Keeps
<1> DEFINE document == file[job[p].host]
<1>1. /\ job[p].pc = "load" /\ Unreplaced(p) = {}
      /\ job[p] \in Jobs /\ job[p].host \in Hosts
      BY NothingUnreplaced DEF LoadHostFile, CoreInv, TypeOK, JobShape
<1>2. CASE Goto(p, "legacy") /\ job[p].host = DefaultHost
  <2> DEFINE r == [job[p] EXCEPT !.pc = "legacy"]
  <2>1. r \in Jobs /\ Sound(r)
        BY <1>1, <1>2 DEF CoreInv, JobShape, Jobs, Pcs, Sound
  <2>2. job' = [job EXCEPT ![p] = r]
        BY <1>2 DEF Goto, CoreInv, TypeOK
  <2> QED BY <2>1, <2>2, <1>1, QuietStep DEF LoadHostFile, history, CoreInv, TypeOK
<1>3. CASE Loaded(p, document)
  <2>1. PICK r \in Jobs : Sound(r) /\ job' = [job EXCEPT ![p] = r]
        BY <1>1, <1>3, LoadedSound DEF CoreInv, TypeOK, BindingInstalled
  <2> QED BY <2>1, <1>1, QuietStep DEF LoadHostFile, history, CoreInv, TypeOK
<1> QED BY <1>2, <1>3 DEF LoadHostFile

LEMMA LoadLegacyFileStep == ASSUME CoreInv, NEW p \in Procs, LoadLegacyFile(p) PROVE Keeps
<1>1. job[p].pc = "legacy" /\ Unreplaced(p) = {} /\ job[p].host = DefaultHost
      BY NothingUnreplaced DEF LoadLegacyFile, CoreInv, JobShape
<1>2. legacy \in Documents
      BY DEF CoreInv, TypeOK, Documents
<1>3. PICK r \in Jobs : Sound(r) /\ job' = [job EXCEPT ![p] = r]
      BY <1>1, <1>2, LoadedSound DEF LoadLegacyFile, CoreInv, BindingInstalled
<1> QED BY <1>1, <1>3, QuietStep DEF LoadLegacyFile, history, CoreInv, TypeOK

LEMMA ConfirmStep == ASSUME CoreInv, NEW p \in Procs, Confirm(p) PROVE Keeps
<1> DEFINE r == [job[p] EXCEPT !.pc = "target"]
<1>1. Unreplaced(p) = {}
      BY NothingUnreplaced DEF Confirm
<1>2. CASE Goto(p, "target")
  <2>1. r \in Jobs /\ Sound(r)
        BY DEF Confirm, CoreInv, TypeOK, JobShape, Jobs, Pcs, Sound
  <2>2. job' = [job EXCEPT ![p] = r]
        BY <1>2 DEF Goto, CoreInv, TypeOK
  <2> QED BY <1>1, <2>1, <2>2, QuietStep DEF Confirm, history, CoreInv, TypeOK
<1>3. CASE Finish(p)
      BY <1>1, <1>3, IdleSound, QuietStep DEF Confirm, Finish, history, CoreInv, TypeOK
<1> QED BY <1>2, <1>3 DEF Confirm

LEMMA LaunchStep == ASSUME CoreInv, NEW p \in Procs, Launch(p) PROVE Keeps
<1>1. Unreplaced(p) = {}
      BY NothingUnreplaced DEF Launch
<1> QED BY <1>1, IdleSound, QuietStep DEF Launch, Finish, history, CoreInv, TypeOK

LEMMA InterruptStep == ASSUME CoreInv, NEW p \in Procs, Interrupt(p) PROVE Keeps
<1>1. Unreplaced(p) \subseteq Keys
      BY DEF Unreplaced
<1>2. faults' \in 0..MaxFaults
      BY DEF Interrupt, Fault, CoreInv, TypeOK
<1> QED BY <1>1, <1>2, IdleSound, QuietStep DEF Interrupt, Finish, CoreInv, TypeOK

-----------------------------------------------------------------------------
(* Steps that change what the console knows of a key or what a file holds.   *)

\* The console revokes the document p read, and p goes on to the replacement or
\* leaves the key stranded.
LEMMA RetireStep ==
    ASSUME CoreInv,
           NEW p \in Procs, NEW r \in Jobs, NEW k, k = job[p].document,
           job[p].pc = "revoke", keys[k].status = "active",
           keys' = [keys EXCEPT ![k].status = "retired"],
           job' = [job EXCEPT ![p] = r],
           \/ r = Idle /\ k \in stranded'
           \/ r = [job[p] EXCEPT !.pc = "create"],
           UNCHANGED <<file, legacy, hostsFile, installed>>,
           stranded \subseteq stranded', stranded' \subseteq Keys,
           faults' \in 0..MaxFaults
    PROVE  Keeps
<1> USE DEF hostsFile
<1>1. /\ k \in Keys /\ k \in installed /\ keys[k].host = job[p].host
      /\ job[p].cmd = "regenerate" /\ job[p].host \in Hosts
      BY DEF CoreInv, JobShape, DocumentInstalled
<1>2. keys \in [Keys -> KeyRecords] /\ job \in [Procs -> Jobs]
      BY DEF CoreInv, TypeOK
<1>3. keys' \in [Keys -> KeyRecords]
      BY <1>1, <1>2 DEF KeyRecords, Statuses
<1>4. /\ keys'[k].status = "retired"
      /\ \A l \in Keys : /\ l # k => keys'[l] = keys[l]
                         /\ keys'[l].host = keys[l].host
                         /\ keys'[l].org = keys[l].org
                         /\ keys'[l].hasId = keys[l].hasId
                         /\ keys'[l].status # keys[l].status => l = k
      BY <1>1, <1>2 DEF KeyRecords
<1>5. /\ job'[p] = r
      /\ \A q \in Procs \ {p} : job'[q] = job[q]
      BY <1>2
<1>6. \/ r.pc = "idle" /\ r.document = None /\ k \in stranded'
      \/ /\ r.pc = "create" /\ r.document = k
         /\ r.host = job[p].host /\ r.cmd = "regenerate"
      BY <1>1, <1>2 DEF Idle, Jobs
<1>7. TypeOK'
      BY <1>2, <1>3 DEF CoreInv, TypeOK
<1>8. JobShape'
      BY <1>1, <1>5, <1>6 DEF CoreInv, JobShape
<1>9. CreatedFresh'
      BY <1>1, <1>4, <1>5, <1>6 DEF CoreInv, CreatedFresh
<1>10. DocumentInstalled'
      BY <1>1, <1>4, <1>5, <1>6 DEF CoreInv, DocumentInstalled
<1>11. BindingInstalled'
      BY <1>4, <1>1 DEF CoreInv, BindingInstalled, TypeOK
<1>12. RevokedFirst'
      BY <1>4, <1>5, <1>6 DEF CoreInv, RevokedFirst
<1>13. \A h \in Hosts : HasOwner(h) => HasOwner(h)'
  <2> SUFFICES ASSUME NEW h \in Hosts, HasOwner(h),
                      Binding(h) \in Keys, keys'[Binding(h)].status = "retired",
                      Binding(h) \notin stranded'
               PROVE  \E q \in Procs : job'[q].host = h /\ Binding(h) \in Unreplaced(q)'
      BY DEF HasOwner, Binding
  <2>1. CASE Binding(h) = k
    <3>1. r.pc = "create" /\ r.document = k /\ r.host = job[p].host /\ r.cmd = "regenerate"
          BY <2>1, <1>6
    <3>2. keys[k].host = h
          BY <2>1, <1>1 DEF CoreInv, BindingInstalled, Binding
    <3> QED BY <2>1, <3>1, <3>2, <1>1, <1>4, <1>5 DEF Unreplaced
  <2>2. CASE Binding(h) # k
    <3>1. keys'[Binding(h)] = keys[Binding(h)]
          BY <2>2, <1>4
    <3>2. PICK q \in Procs : job[q].host = h /\ Binding(h) \in Unreplaced(q)
          BY <3>1 DEF CoreInv, HasOwner
    <3>3. q # p
          BY <3>2 DEF Unreplaced
    <3> QED BY <3>1, <3>2, <3>3, <1>5 DEF Unreplaced
  <2> QED BY <2>1, <2>2
<1> QED BY <1>7, <1>8, <1>9, <1>10, <1>11, <1>12, <1>13 DEF Keeps, CoreInv

LEMMA RevokeBoundKeyStep == ASSUME CoreInv, NEW p \in Procs, RevokeBoundKey(p) PROVE Keeps
<1> DEFINE k == job[p].document
           r == [job[p] EXCEPT !.pc = "create"]
<1>1. /\ job[p].pc = "revoke" /\ Unreplaced(p) = {}
      /\ job[p] \in Jobs /\ job[p].cmd = "regenerate" /\ job[p].host \in Hosts
      /\ k \in Keys /\ k \in installed /\ keys[k].host = job[p].host
      BY NothingUnreplaced DEF RevokeBoundKey, CoreInv, TypeOK, JobShape, DocumentInstalled
<1>2. PICK answer \in {RevokeAnswer(k, job[p].host, job[p].org), "refused"} :
        /\ IF answer = "refused" THEN Fault ELSE UNCHANGED faults
        /\ keys' = IF answer = "ok" THEN [keys EXCEPT ![k].status = "retired"] ELSE keys
        /\ IF answer = "ok" \/ IsKeyAlreadyGone(answer) THEN Goto(p, "create") ELSE Finish(p)
      BY DEF RevokeBoundKey
<1>3. UNCHANGED <<file, legacy, hostsFile, installed, stranded>> /\ faults' \in 0..MaxFaults
      BY <1>2 DEF RevokeBoundKey, Fault, CoreInv, TypeOK
<1>4. r \in Jobs /\ r.pc = "create" /\ r.host = job[p].host /\ r.org = job[p].org
      /\ r.cmd = "regenerate" /\ r.document = k
      BY <1>1 DEF Jobs, Pcs
<1>5. stranded \subseteq Keys
      BY DEF CoreInv, TypeOK
<1>6. Goto(p, "create") => job' = [job EXCEPT ![p] = r]
      BY DEF Goto, CoreInv, TypeOK
<1>7. CASE answer = "ok"
  <2>1. keys[k].status = "active"
        BY <1>7, <1>2 DEF RevokeAnswer
  <2>2. job' = [job EXCEPT ![p] = r] /\ keys' = [keys EXCEPT ![k].status = "retired"]
        BY <1>7, <1>2, <1>6
  <2> QED BY <1>1, <1>3, <1>4, <1>5, <2>1, <2>2, RetireStep
<1>8. CASE answer # "ok" /\ IsKeyAlreadyGone(answer)
  <2>1. keys[k].status # "active" \/ keys[k].org # job[p].org
        BY <1>1, <1>2, <1>8 DEF RevokeAnswer, IsKeyAlreadyGone
  <2>2. Sound(r)
    <3> HIDE DEF r
    <3> QED BY <1>1, <1>4, <2>1 DEF Sound
  <2>3. job' = [job EXCEPT ![p] = r] /\ UNCHANGED keys
        BY <1>2, <1>6, <1>8
  <2> QED BY <1>1, <1>3, <1>4, <1>5, <2>2, <2>3, QuietStep
<1>9. CASE answer # "ok" /\ ~IsKeyAlreadyGone(answer)
  <2>1. job' = [job EXCEPT ![p] = Idle] /\ UNCHANGED keys
        BY <1>2, <1>9 DEF Finish
  <2> QED BY <1>1, <1>3, <1>5, <2>1, IdleSound, QuietStep
<1> QED BY <1>7, <1>8, <1>9

LEMMA RevokeReplyLostStep == ASSUME CoreInv, NEW p \in Procs, RevokeReplyLost(p) PROVE Keeps
<1> DEFINE k == job[p].document
<1>1. job[p].pc = "revoke" /\ k \in Keys /\ keys[k].status = "active"
      BY DEF RevokeReplyLost, RevokeAnswer, CoreInv, JobShape
<1>2. faults' \in 0..MaxFaults /\ stranded \subseteq Keys
      BY DEF RevokeReplyLost, Fault, CoreInv, TypeOK
<1>3. /\ keys' = [keys EXCEPT ![k].status = "retired"]
      /\ stranded' = stranded \cup {k}
      /\ job' = [job EXCEPT ![p] = Idle]
      /\ UNCHANGED <<file, legacy, hostsFile, installed>>
      BY DEF RevokeReplyLost, Finish
<1> QED BY <1>1, <1>2, <1>3, IdleSound, RetireStep

\* The console issues key k to p, which learns it or stops without it.
LEMMA IssueStep ==
    ASSUME CoreInv,
           NEW p \in Procs, NEW r \in Jobs, NEW k \in Unused, NEW record \in KeyRecords,
           job[p].pc = "create",
           record.status = "active", record.host = job[p].host,
           keys' = [keys EXCEPT ![k] = record],
           job' = [job EXCEPT ![p] = r],
           \/ r = Idle /\ stranded' = stranded \cup Unreplaced(p)
           \/ r = [job[p] EXCEPT !.pc = "save", !.created = k] /\ UNCHANGED stranded,
           UNCHANGED <<file, legacy, hostsFile, installed>>,
           faults' \in 0..MaxFaults
    PROVE  Keeps
<1> USE DEF hostsFile
<1>1. k \in Keys /\ keys[k].status = "unused" /\ k \notin installed
      BY DEF Unused, CoreInv, BindingInstalled
<1>2. keys \in [Keys -> KeyRecords] /\ job \in [Procs -> Jobs] /\ installed \subseteq Keys
      BY DEF CoreInv, TypeOK
<1>3. /\ keys' \in [Keys -> KeyRecords]
      /\ keys'[k] = record
      /\ \A l \in Keys \ {k} : keys'[l] = keys[l]
      BY <1>1, <1>2
<1>4. /\ job'[p] = r
      /\ \A q \in Procs \ {p} : job'[q] = job[q]
      BY <1>2
<1>5. \/ /\ r.pc = "idle" /\ r.document = None
         /\ stranded' = stranded \cup Unreplaced(p)
      \/ /\ r.pc = "save" /\ r.created = k /\ r.document = job[p].document
         /\ r.host = job[p].host /\ r.org = job[p].org /\ r.cmd = job[p].cmd
         /\ stranded' = stranded
  <2>1. CASE r = Idle /\ stranded' = stranded \cup Unreplaced(p)
        BY <2>1 DEF Idle
  <2>2. CASE r = [job[p] EXCEPT !.pc = "save", !.created = k] /\ UNCHANGED stranded
    <3>1. job[p] \in Jobs
          BY <1>2
    <3> QED BY <2>2, <3>1 DEF Jobs
  <2> QED BY <2>1, <2>2
<1>6. TypeOK'
      BY <1>2, <1>3 DEF CoreInv, TypeOK, Unreplaced
<1>7. JobShape'
      BY <1>4, <1>5 DEF CoreInv, JobShape
<1>8. CreatedFresh'
      BY <1>1, <1>3, <1>4, <1>5 DEF CoreInv, CreatedFresh
<1>9. DocumentInstalled'
      BY <1>1, <1>3, <1>4, <1>5 DEF CoreInv, DocumentInstalled
<1>10. BindingInstalled'
      BY <1>1, <1>2, <1>3 DEF CoreInv, BindingInstalled
<1>11. RevokedFirst'
      BY <1>1, <1>3, <1>4, <1>5 DEF CoreInv, RevokedFirst, DocumentInstalled
<1>12. \A h \in Hosts : HasOwner(h) => HasOwner(h)'
  <2> SUFFICES ASSUME NEW h \in Hosts, HasOwner(h),
                      Binding(h) \in Keys, keys'[Binding(h)].status = "retired",
                      Binding(h) \notin stranded'
               PROVE  \E q \in Procs : job'[q].host = h /\ Binding(h) \in Unreplaced(q)'
      BY DEF HasOwner, Binding
  <2>1. keys'[Binding(h)] = keys[Binding(h)]
      BY <1>1, <1>3 DEF CoreInv, BindingInstalled, Binding
  <2>2. PICK q \in Procs : job[q].host = h /\ Binding(h) \in Unreplaced(q)
      BY <1>5, <2>1 DEF CoreInv, HasOwner
  <2>3. CASE q = p
      BY <1>4, <1>5, <2>1, <2>2, <2>3 DEF Unreplaced
  <2>4. CASE q # p
      BY <1>4, <2>1, <2>2, <2>4 DEF Unreplaced
  <2> QED BY <2>3, <2>4
<1> QED BY <1>6, <1>7, <1>8, <1>9, <1>10, <1>11, <1>12 DEF Keeps, CoreInv

LEMMA IssuedRecord ==
    ASSUME CoreInv, NEW p \in Procs, job[p].pc = "create", NEW hasId \in BOOLEAN
    PROVE  /\ Issued(p, hasId) \in KeyRecords
           /\ Issued(p, hasId).status = "active"
           /\ Issued(p, hasId).host = job[p].host
<1>1. job[p].host \in Hosts /\ job[p].org \in Orgs \cup {None}
      BY DEF CoreInv, JobShape, TypeOK, Jobs
<1> QED BY <1>1 DEF Issued, KeyRecords, Statuses

LEMMA CreateKeyStep == ASSUME CoreInv, NEW p \in Procs, CreateKey(p) PROVE Keeps
<1>1. PICK k \in Unused, hasId \in BOOLEAN :
        /\ keys' = [keys EXCEPT ![k] = Issued(p, hasId)]
        /\ job' = [job EXCEPT ![p].pc = "save", ![p].created = k]
        /\ IF hasId THEN UNCHANGED faults ELSE Fault
      BY DEF CreateKey
<1> DEFINE r == [job[p] EXCEPT !.pc = "save", !.created = k]
<1>2. job[p].pc = "create" /\ job \in [Procs -> Jobs] /\ k \in Keys
      BY DEF CreateKey, CoreInv, TypeOK, Unused
<1>3. r \in Jobs /\ job' = [job EXCEPT ![p] = r]
      BY <1>1, <1>2 DEF Jobs, Pcs
<1>4. faults' \in 0..MaxFaults
      BY <1>1 DEF Fault, CoreInv, TypeOK
<1>5. UNCHANGED <<file, legacy, hostsFile, installed, stranded>>
      BY DEF CreateKey
<1> QED BY <1>1, <1>2, <1>3, <1>4, <1>5, IssuedRecord, IssueStep

LEMMA CreateReplyLostStep == ASSUME CoreInv, NEW p \in Procs, CreateReplyLost(p) PROVE Keeps
<1>1. PICK k \in Unused : keys' = [keys EXCEPT ![k] = Issued(p, TRUE)]
      BY DEF CreateReplyLost
<1>2. faults' \in 0..MaxFaults
      BY DEF CreateReplyLost, Fault, CoreInv, TypeOK
<1>3. /\ job[p].pc = "create"
      /\ job' = [job EXCEPT ![p] = Idle] /\ stranded' = stranded \cup Unreplaced(p)
      /\ UNCHANGED <<file, legacy, hostsFile, installed>>
      BY DEF CreateReplyLost, Finish
<1> QED BY <1>1, <1>2, <1>3, IdleSound, IssuedRecord, IssueStep

LEMMA SaveBindingStep == ASSUME CoreInv, NEW p \in Procs, SaveBinding(p) PROVE Keeps
<1> DEFINE k == job[p].created
           g == job[p].host
<1>1. /\ job[p].pc = "save" /\ g \in Hosts
      /\ k \in Keys \ installed /\ keys[k].status \in {"active", "withdrawn"}
      /\ keys[k].host = g
      BY DEF SaveBinding, CoreInv, JobShape, CreatedFresh
<1>2. /\ file' = [file EXCEPT ![g] = k] /\ installed' = installed \cup {k}
      /\ job' = [job EXCEPT ![p] = Idle]
      /\ UNCHANGED <<keys, legacy, selected, account, stranded, faults>>
      BY DEF SaveBinding, Finish, hostsFile
<1>3. TypeOK'
      BY <1>1, <1>2, IdleSound DEF CoreInv, TypeOK, Documents
<1>4. /\ job'[p].pc = "idle" /\ job'[p].document = None
      /\ \A q \in Procs \ {p} : job'[q] = job[q]
      BY <1>2 DEF CoreInv, TypeOK, Idle
<1>5. /\ file'[g] = k
      /\ \A h \in Hosts \ {g} : file'[h] = file[h]
      BY <1>1, <1>2 DEF CoreInv, TypeOK
<1> HIDE DEF k, g
<1>6. JobShape'
      BY <1>4 DEF CoreInv, JobShape
<1>7. CreatedFresh'
  <2>1. \A q \in Procs \ {p} : job[q].pc = "save" => job[q].created # k
        BY <1>1 DEF CoreInv, CreatedFresh, k
  <2> QED BY <1>2, <1>4, <2>1 DEF CoreInv, CreatedFresh
<1>8. DocumentInstalled'
      BY <1>2, <1>4 DEF CoreInv, DocumentInstalled
<1>9. BindingInstalled'
      BY <1>1, <1>2, <1>5 DEF CoreInv, BindingInstalled
<1>10. RevokedFirst'
      BY <1>2, <1>4 DEF CoreInv, RevokedFirst
<1>11. \A h \in Hosts : HasOwner(h) => HasOwner(h)'
  <2> SUFFICES ASSUME NEW h \in Hosts, HasOwner(h),
                      Binding(h)' \in Keys, keys[Binding(h)'].status = "retired",
                      Binding(h)' \notin stranded
               PROVE  \E q \in Procs : job'[q].host = h /\ Binding(h)' \in Unreplaced(q)'
      BY <1>2 DEF HasOwner
  <2>1. h # g
      BY <1>1, <1>5 DEF Binding
  <2>2. Binding(h)' = Binding(h)
      BY <1>2, <1>5, <2>1 DEF Binding
  <2>3. PICK q \in Procs : job[q].host = h /\ Binding(h) \in Unreplaced(q)
      BY <2>2 DEF CoreInv, HasOwner
  <2>4. q # p
      BY <2>1, <2>3 DEF g
  <2> QED BY <1>2, <1>4, <2>2, <2>3, <2>4 DEF Unreplaced
<1> QED BY <1>3, <1>6, <1>7, <1>8, <1>9, <1>10, <1>11 DEF Keeps, CoreInv

\* What a save binds has not been revoked by the CLI.
LEMMA SavedHasOwner ==
    ASSUME CoreInv, NEW p \in Procs, SaveBinding(p), NEW g, g = job[p].host PROVE HasOwner(g)'
<1> DEFINE k == job[p].created
<1>1. /\ k \in Keys /\ keys[k].status \in {"active", "withdrawn"} /\ g \in Hosts
      /\ file' = [file EXCEPT ![g] = k] /\ UNCHANGED <<keys, legacy>>
      BY DEF SaveBinding, CoreInv, JobShape, CreatedFresh
<1>2. file'[g] = k
      BY <1>1 DEF CoreInv, TypeOK
<1> HIDE DEF k
<1>3. Binding(g)' = k
      BY <1>1, <1>2 DEF Binding
<1> QED BY <1>1, <1>3 DEF HasOwner

LEMMA DamageBindingStep == ASSUME CoreInv, NEW h \in Hosts, DamageBinding(h) PROVE Keeps
<1>1. /\ file' = [file EXCEPT ![h] = Damaged]
      /\ UNCHANGED <<keys, legacy, selected, account, job, installed, stranded>>
      BY DEF DamageBinding, hostsFile
<1>2. TypeOK'
      BY <1>1 DEF DamageBinding, Fault, CoreInv, TypeOK, Documents
<1>3. \A g \in Hosts : Binding(g)' \in Keys => Binding(g)' = Binding(g)
      BY <1>1 DEF Binding, CoreInv, TypeOK
<1>4. BindingInstalled'
      BY <1>1 DEF CoreInv, BindingInstalled, TypeOK
<1>5. \A g \in Hosts : HasOwner(g) => HasOwner(g)'
      BY <1>1, <1>3 DEF CoreInv, HasOwner, Unreplaced
<1>6. JobShape' /\ CreatedFresh' /\ DocumentInstalled' /\ RevokedFirst'
      BY <1>1 DEF CoreInv, JobShape, CreatedFresh, DocumentInstalled, RevokedFirst
<1> QED BY <1>2, <1>4, <1>5, <1>6 DEF Keeps, CoreInv

LEMMA WithdrawKeyStep == ASSUME CoreInv, NEW k \in Keys, WithdrawKey(k) PROVE Keeps
<1>1. /\ keys' = [keys EXCEPT ![k].status = "withdrawn"]
      /\ keys[k].status = "active"
      /\ UNCHANGED <<file, legacy, selected, account, job, installed, stranded>>
      BY DEF WithdrawKey, hostsFile
<1>2. keys \in [Keys -> KeyRecords] /\ installed \subseteq Keys
      BY DEF CoreInv, TypeOK
<1>3. TypeOK'
  <2>1. keys' \in [Keys -> KeyRecords]
        BY <1>1, <1>2 DEF KeyRecords, Statuses
  <2> QED BY <1>1, <2>1 DEF WithdrawKey, Fault, CoreInv, TypeOK
<1>4. /\ keys'[k].status = "withdrawn"
      /\ \A l \in Keys : /\ l # k => keys'[l] = keys[l]
                         /\ keys'[l].host = keys[l].host
                         /\ keys'[l].org = keys[l].org
                         /\ keys'[l].hasId = keys[l].hasId
                         /\ keys'[l].status # keys[l].status => l = k
      BY <1>1, <1>2 DEF KeyRecords
<1>5. JobShape'
      BY <1>1 DEF CoreInv, JobShape
<1>6. CreatedFresh'
      BY <1>1, <1>4 DEF CoreInv, CreatedFresh
<1>7. DocumentInstalled'
      BY <1>1, <1>4 DEF CoreInv, DocumentInstalled
<1>8. BindingInstalled'
      BY <1>1, <1>2, <1>4 DEF CoreInv, BindingInstalled
<1>9. RevokedFirst'
      BY <1>1, <1>4 DEF CoreInv, RevokedFirst
<1>10. \A h \in Hosts : HasOwner(h) => HasOwner(h)'
  <2> SUFFICES ASSUME NEW h \in Hosts, HasOwner(h),
                      Binding(h) \in Keys, keys'[Binding(h)].status = "retired",
                      Binding(h) \notin stranded
               PROVE  \E q \in Procs : job[q].host = h /\ Binding(h) \in Unreplaced(q)'
      BY <1>1 DEF HasOwner, Binding
  <2>1. keys'[Binding(h)] = keys[Binding(h)]
      BY <1>4
  <2>2. PICK q \in Procs : job[q].host = h /\ Binding(h) \in Unreplaced(q)
      BY <2>1 DEF CoreInv, HasOwner
  <2> QED BY <1>1, <2>1, <2>2 DEF Unreplaced
<1> QED BY <1>3, <1>5, <1>6, <1>7, <1>8, <1>9, <1>10 DEF Keeps, CoreInv

-----------------------------------------------------------------------------
\* A step in which no command and no file changes.
LEMMA StillStep ==
    ASSUME CoreInv, UNCHANGED <<keys, file, legacy, hostsFile, job, installed, stranded, faults>>
    PROVE  Keeps
<1>1. CoreInv'
      BY DEF hostsFile, CoreInv, TypeOK, JobShape, CreatedFresh, DocumentInstalled,
             BindingInstalled, RevokedFirst
<1>2. \A h \in Hosts : HasOwner(h) => HasOwner(h)'
      BY DEF HasOwner, Binding, Unreplaced
<1> QED BY <1>1, <1>2 DEF Keeps

LEMMA CommandStep ==
    ASSUME CoreInv, NEW p \in Procs, Begin(p) \/ Step(p) \/ Failure(p) PROVE Keeps
BY BeginStep, ResolveEngineStep, ResolveHostnameStep, ReadCredentialStep,
   LoadHostFileStep, LoadLegacyFileStep, ConfirmStep, RevokeBoundKeyStep,
   CreateKeyStep, SaveBindingStep, LaunchStep, RevokeReplyLostStep,
   CreateReplyLostStep, InterruptStep
DEF Step, Failure

\* A command is at another step, or has stopped; it saved neither before nor after.
LEMMA MovesOn ==
    ASSUME CoreInv, NEW p \in Procs,
           \/ Begin(p) \/ ResolveEngine(p) \/ ResolveHostname(p)
           \/ ReadCredential(p) \/ LoadHostFile(p) \/ LoadLegacyFile(p)
           \/ Confirm(p) \/ RevokeBoundKey(p) \/ Launch(p)
           \/ RevokeReplyLost(p) \/ CreateReplyLost(p)
    PROVE  \A q \in Procs : job'[q] = job[q] \/ (job[q].pc # "save" /\ job'[q].pc # "save")
<1>1. job \in [Procs -> Jobs] /\ job[p] \in Jobs
      BY DEF CoreInv, TypeOK
<1>2. job[p].pc # "save"
      BY DEF Begin, ResolveEngine, ResolveHostname, ReadCredential,
             LoadHostFile, LoadLegacyFile, Confirm, RevokeBoundKey,
             Launch, RevokeReplyLost, CreateReplyLost
<1>3. Idle.pc = "idle"
      BY DEF Idle
<1>4. ASSUME NEW next, next # "save", Goto(p, next)
      PROVE  job'[p].pc # "save" /\ \A q \in Procs \ {p} : job'[q] = job[q]
      BY <1>1, <1>4 DEF Goto, Jobs
<1>5. ASSUME Finish(p)
      PROVE  job'[p].pc # "save" /\ \A q \in Procs \ {p} : job'[q] = job[q]
      BY <1>1, <1>3, <1>5 DEF Finish
<1>6. ASSUME NEW document, Loaded(p, document)
      PROVE  job'[p].pc # "save" /\ \A q \in Procs \ {p} : job'[q] = job[q]
  <2> DEFINE next == AfterLoad(job[p].cmd, document)
             r == IF next = "idle" THEN Idle
                  ELSE [job[p] EXCEPT !.pc = next, !.document = document]
  <2>1. next # "save"
        BY DEF AfterLoad
  <2>2. job' = [job EXCEPT ![p] = r]
        BY <1>6 DEF Loaded
  <2> HIDE DEF next
  <2>3. r.pc # "save"
        BY <1>1, <1>3, <2>1 DEF Jobs
  <2> HIDE DEF r
  <2> QED BY <1>1, <2>2, <2>3
<1>7. job'[p].pc # "save" /\ \A q \in Procs \ {p} : job'[q] = job[q]
  <2>1. CASE Begin(p)
    <3>1. PICK cmd \in Commands, explicit \in Hosts \cup {None} :
            job' = [job EXCEPT ![p] = [Idle EXCEPT !.pc = "engine", !.cmd = cmd,
                                                         !.explicit = explicit]]
          BY <2>1 DEF Begin
    <3> QED BY <1>1, <3>1 DEF Idle
  <2>2. CASE ResolveHostname(p)
    <3>1. \/ Finish(p)
          \/ job' = [job EXCEPT ![p].pc = "load", ![p].host = ResolvedHost(p)]
          \/ job' = [job EXCEPT ![p].pc = "credential", ![p].host = ResolvedHost(p)]
          BY <2>2 DEF ResolveHostname
    <3> QED BY <1>1, <1>5, <3>1 DEF Jobs
  <2>3. CASE ReadCredential(p)
    <3>1. \/ Finish(p)
          \/ job' = [job EXCEPT ![p].org = account[job[p].host],
                               ![p].pc = IF job[p].cmd = "agent" THEN "create" ELSE "load"]
          BY <2>3 DEF ReadCredential
    <3> QED BY <1>1, <1>5, <3>1 DEF Jobs
  <2>4. CASE ResolveEngine(p)
        BY <1>4, <2>4 DEF ResolveEngine
  <2>5. CASE LoadHostFile(p) \/ LoadLegacyFile(p)
        BY <1>4, <1>6, <2>5 DEF LoadHostFile, LoadLegacyFile
  <2>6. CASE Confirm(p) \/ RevokeBoundKey(p)
        BY <1>4, <1>5, <2>6 DEF Confirm, RevokeBoundKey
  <2>7. CASE Launch(p) \/ RevokeReplyLost(p) \/ CreateReplyLost(p)
        BY <1>5, <2>7 DEF Launch, RevokeReplyLost, CreateReplyLost
  <2> QED BY <2>1, <2>2, <2>3, <2>4, <2>5, <2>6, <2>7
<1> QED BY <1>2, <1>7

\* No step gives a key that was ever a binding to another host.
LEMMA IssuersStay ==
    ASSUME CoreInv,
           \/ \E p \in Procs : Begin(p) \/ Step(p) \/ Failure(p)
           \/ Accident
    PROVE  /\ installed \subseteq installed'
           /\ \A k \in installed : keys'[k].host = keys[k].host
<1>1. /\ keys \in [Keys -> KeyRecords] /\ installed \subseteq Keys
      /\ \A k \in installed : keys[k].status # "unused"
      BY DEF CoreInv, TypeOK, BindingInstalled
<1>2. ASSUME NEW k \in Keys, NEW s \in Statuses, keys' = [keys EXCEPT ![k].status = s]
      PROVE  \A l \in installed : keys'[l].host = keys[l].host
      BY <1>1, <1>2 DEF KeyRecords
<1>3. ASSUME NEW k \in Unused, NEW record, keys' = [keys EXCEPT ![k] = record]
      PROVE  \A l \in installed : keys'[l].host = keys[l].host
      BY <1>1, <1>3 DEF Unused
<1>4. CASE \E p \in Procs : RevokeBoundKey(p) \/ RevokeReplyLost(p)
  <2>1. PICK p \in Procs : RevokeBoundKey(p) \/ RevokeReplyLost(p)
        BY <1>4
  <2>2. job[p].document \in Keys /\ UNCHANGED installed
        BY <2>1 DEF RevokeBoundKey, RevokeReplyLost, CoreInv, JobShape
  <2>3. UNCHANGED keys \/ keys' = [keys EXCEPT ![job[p].document].status = "retired"]
        BY <2>1 DEF RevokeBoundKey, RevokeReplyLost
  <2> QED BY <1>2, <2>2, <2>3 DEF Statuses
<1>5. CASE \E p \in Procs : CreateKey(p) \/ CreateReplyLost(p)
  <2>1. /\ \E k \in Unused : \E record : keys' = [keys EXCEPT ![k] = record]
        /\ UNCHANGED installed
        BY <1>5 DEF CreateKey, CreateReplyLost
  <2> QED BY <1>3, <2>1
<1>6. CASE \E k \in Keys : WithdrawKey(k)
      BY <1>2, <1>6 DEF WithdrawKey, Statuses
<1>7. CASE \/ \E p \in Procs : \/ Begin(p) \/ ResolveEngine(p) \/ ResolveHostname(p)
                             \/ ReadCredential(p) \/ LoadHostFile(p) \/ LoadLegacyFile(p)
                             \/ Confirm(p) \/ SaveBinding(p) \/ Launch(p) \/ Interrupt(p)
           \/ \E h \in Hosts : DamageBinding(h)
  <2>1. UNCHANGED keys /\ installed \subseteq installed'
        BY <1>7 DEF Begin, ResolveEngine, ResolveHostname, ReadCredential, LoadHostFile,
             LoadLegacyFile, Confirm, SaveBinding, Launch, Interrupt, DamageBinding, history
  <2> QED BY <2>1
<1> QED BY <1>4, <1>5, <1>6, <1>7 DEF Step, Failure, Accident, WithdrawKey

LEMMA InvariantStep == IInv /\ [Next]_vars => IInv'
<1> SUFFICES ASSUME IInv, [Next]_vars PROVE IInv'
    OBVIOUS
<1>1. CoreInv
      BY DEF IInv
<1>2. CASE \E p \in Procs : Begin(p) \/ Step(p) \/ Failure(p)
      BY <1>1, <1>2, CommandStep DEF IInv, Keeps, RevokedBindingHasOwner
<1>3. CASE Accident
      BY <1>1, <1>3, DamageBindingStep, WithdrawKeyStep
      DEF Accident, IInv, Keeps, RevokedBindingHasOwner
<1>4. CASE Authentication
      BY <1>1, <1>4, HostsFileStep DEF IInv, Keeps, RevokedBindingHasOwner
<1>5. CASE UNCHANGED vars
  <2>1. Keeps
        BY <1>1, <1>5, StillStep DEF vars, hostsFile
  <2> QED BY <2>1 DEF IInv, Keeps, RevokedBindingHasOwner
<1> QED BY <1>2, <1>3, <1>4, <1>5 DEF Next

\* The inductive invariant holds in every reachable state of every instance.
THEOREM Invariance == Spec => []IInv
BY InitInvariant, InvariantStep, PTL DEF Spec

\* Every variable keeps its type: what a command carries from one step to the
\* next is what that step expects.
THEOREM TypeCorrect == Spec => []TypeOK
BY Invariance, PTL DEF IInv, CoreInv

\* A key revoked by the CLI stays bound only while the command that revoked it
\* is replacing it, or after that command died.
THEOREM RevokedBindingsHaveOwners == Spec => []RevokedBindingHasOwner
BY Invariance, PTL DEF IInv, CoreInv

\* Bindings, saves and launches pair a host with a key its console issued.
THEOREM HostsAreIsolated == Spec => []HostIsolation
<1>1. IInv => HostIsolation
      BY DEF IInv, CoreInv, HostIsolation, BindingInstalled, CreatedFresh, DocumentInstalled, JobShape
<1> QED BY <1>1, Invariance, PTL

\* No Save replaces an active key that its command could have revoked.
THEOREM ReplacedKeysWereRevoked == Spec => ReplacedKeyWasRevoked
<1>1. IInv => \A p \in Procs : ReplacesRevokedKey(p)
  <2> SUFFICES ASSUME IInv, NEW p \in Procs, Saves(p),
                      Binding(job[p].host) \in Keys,
                      job[p].document = Binding(job[p].host)
               PROVE  LET k == Binding(job[p].host)
                      IN  keys[k].status # "active" \/ ~keys[k].hasId \/ keys[k].org # job[p].org
      BY DEF ReplacesRevokedKey
  <2> QED BY DEF IInv, CoreInv, RevokedFirst, Saves
<1>2. IInv => [\A p \in Procs : ReplacesRevokedKey(p)]_vars
      BY <1>1
<1> QED BY <1>2, Invariance, PTL DEF ReplacedKeyWasRevoked

-----------------------------------------------------------------------------
(* AgentKeys implements KeyLifecycle under the mapping of AgentKeys!Lifecycle. *)

LEMMA LifecycleInit == Init => Lifecycle!Init
<1> SUFFICES ASSUME Init PROVE Lifecycle!Init
    OBVIOUS
<1>1. PICK o \in Orgs, hasId \in BOOLEAN :
        keys = [k \in Keys |->
                  IF k = legacy THEN [status |-> "active", host |-> DefaultHost,
                                      org |-> o, hasId |-> hasId]
                  ELSE Unissued]
      BY DEF Init
<1> DEFINE L == {legacy} \cap Keys
<1>2. L \in SUBSET LegacyKeys /\ installed = L
      BY DEF Init
<1>3. /\ [k \in Keys |-> keys[k].status] = [k \in Keys |-> IF k \in L THEN "active" ELSE "unused"]
      /\ [k \in Keys |-> keys[k].host] = [k \in Keys |-> IF k \in L THEN DefaultHost ELSE None]
      BY <1>1 DEF Unissued
<1>4. \A k, l \in L : k = l
      OBVIOUS
<1>5. file = [h \in Hosts |-> None]
      BY DEF Init
<1> HIDE DEF L
<1> QED BY <1>2, <1>3, <1>4, <1>5 DEF Lifecycle!Init

LEMMA LifecycleStep == IInv /\ [Next]_vars => [Lifecycle!Next]_(Lifecycle!lifecycleVars)
<1> SUFFICES ASSUME IInv, [Next]_vars PROVE [Lifecycle!Next]_(Lifecycle!lifecycleVars)
    OBVIOUS
<1> DEFINE status == [k \in Keys |-> keys[k].status]
           issuer == [k \in Keys |-> keys[k].host]
<1>0. keys \in [Keys -> KeyRecords]
      BY DEF IInv, CoreInv, TypeOK
<1>1. ASSUME UNCHANGED <<keys, file, installed>>
      PROVE  UNCHANGED Lifecycle!lifecycleVars
      BY <1>1 DEF Lifecycle!lifecycleVars
<1>2. ASSUME NEW k \in Keys, NEW s \in Statuses, keys' = [keys EXCEPT ![k].status = s]
      PROVE  status' = [status EXCEPT ![k] = s] /\ issuer' = issuer
      BY <1>0, <1>2 DEF KeyRecords
<1>3. ASSUME NEW p \in Procs, job[p].pc = "revoke", keys[job[p].document].status = "active",
             keys' = [keys EXCEPT ![job[p].document].status = "retired"],
             UNCHANGED <<file, installed>>
      PROVE  Lifecycle!Next
  <2>1. job[p].document \in Keys /\ job[p].document \in installed
        BY <1>3 DEF IInv, CoreInv, JobShape, DocumentInstalled
  <2>2. Lifecycle!Retire(job[p].document)
        BY <1>2, <1>3, <2>1 DEF Lifecycle!Retire, Statuses
  <2> QED BY <2>1, <2>2 DEF Lifecycle!Next, Lifecycle!Retire
<1>4. ASSUME NEW p \in Procs, RevokeBoundKey(p)
      PROVE  Lifecycle!Next \/ UNCHANGED Lifecycle!lifecycleVars
  <2>1. UNCHANGED <<file, installed>> /\ job[p].pc = "revoke"
        BY <1>4 DEF RevokeBoundKey
  <2>2. \/ /\ keys[job[p].document].status = "active"
           /\ keys' = [keys EXCEPT ![job[p].document].status = "retired"]
        \/ UNCHANGED keys
        BY <1>4 DEF RevokeBoundKey, RevokeAnswer
  <2> QED BY <1>1, <1>3, <2>1, <2>2
<1>5. ASSUME NEW p \in Procs, RevokeReplyLost(p) PROVE Lifecycle!Next
      BY <1>3, <1>5 DEF RevokeReplyLost, RevokeAnswer
<1>6. ASSUME NEW p \in Procs, CreateKey(p) \/ CreateReplyLost(p) PROVE Lifecycle!Next
  <2>1. PICK k \in Unused, hasId \in BOOLEAN : keys' = [keys EXCEPT ![k] = Issued(p, hasId)]
        BY <1>6 DEF CreateKey, CreateReplyLost
  <2>2. k \in Keys /\ job[p].host \in Hosts /\ UNCHANGED <<file, installed>>
        BY <1>6 DEF CreateKey, CreateReplyLost, Unused, IInv, CoreInv, JobShape
  <2>3. /\ status' = [status EXCEPT ![k] = "active"]
        /\ issuer' = [issuer EXCEPT ![k] = job[p].host]
        BY <1>0, <2>1, <2>2 DEF Issued
  <2>4. Lifecycle!Issue(k, job[p].host)
        BY <2>2, <2>3 DEF Lifecycle!Issue, Unused
  <2> QED BY <2>2, <2>4 DEF Lifecycle!Next, Lifecycle!Issue
<1>7. ASSUME NEW p \in Procs, SaveBinding(p) PROVE Lifecycle!Next
  <2>1. /\ job[p].host \in Hosts /\ job[p].created \in Keys \ installed
        /\ keys[job[p].created].status \in {"active", "withdrawn"}
        /\ keys[job[p].created].host = job[p].host
        BY <1>7 DEF SaveBinding, IInv, CoreInv, JobShape, CreatedFresh
  <2>2. Lifecycle!Bind(job[p].created, job[p].host)
        BY <1>7, <2>1 DEF SaveBinding, Lifecycle!Bind
  <2> QED BY <2>1, <2>2 DEF Lifecycle!Next
<1>8. ASSUME NEW h \in Hosts, DamageBinding(h) PROVE Lifecycle!Next
  <2>1. Lifecycle!Damage(h)
        BY <1>8 DEF DamageBinding, Lifecycle!Damage
  <2> QED BY <2>1 DEF Lifecycle!Next
<1>9. ASSUME NEW k \in Keys, WithdrawKey(k) PROVE Lifecycle!Next
  <2>1. Lifecycle!Withdraw(k)
        BY <1>2, <1>9 DEF WithdrawKey, Lifecycle!Withdraw, Statuses
  <2> QED BY <2>1 DEF Lifecycle!Next
<1>10. ASSUME NEW p \in Procs,
              \/ Begin(p) \/ ResolveEngine(p) \/ ResolveHostname(p) \/ ReadCredential(p)
              \/ LoadHostFile(p) \/ LoadLegacyFile(p) \/ Confirm(p) \/ Launch(p) \/ Interrupt(p)
       PROVE  UNCHANGED Lifecycle!lifecycleVars
  <2>1. UNCHANGED <<keys, file, installed>>
        BY <1>10 DEF Begin, ResolveEngine, ResolveHostname, ReadCredential, LoadHostFile,
             LoadLegacyFile, Confirm, Launch, Interrupt, history
  <2> QED BY <1>1, <2>1
<1>11. ASSUME Authentication PROVE UNCHANGED Lifecycle!lifecycleVars
      BY <1>1, <1>11 DEF Authentication, AuthUse, AuthLogin, history
<1>12. ASSUME UNCHANGED vars PROVE UNCHANGED Lifecycle!lifecycleVars
      BY <1>1, <1>12 DEF vars
<1> QED BY <1>4, <1>5, <1>6, <1>7, <1>8, <1>9, <1>10, <1>11, <1>12
        DEF Next, Step, Failure, Accident

\* However commands interleave, fail and die, what they do to keys and bindings
\* is what KeyLifecycle allows.
THEOREM LifecycleImplemented == Spec => ImplementsLifecycle
BY LifecycleInit, LifecycleStep, Invariance, PTL
   DEF Spec, ImplementsLifecycle, Lifecycle!Spec
=============================================================================
