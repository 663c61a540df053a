------------------------- MODULE DurableKeysProofs --------------------------
(***************************************************************************)
(* Proofs about DurableKeys, for any number of processes, hosts, keys and  *)
(* power losses.  The commands' steps are those of AgentKeys on what the   *)
(* file system shows, so the lemmas about AgentKeys serve here as they are;    *)
(* DurableAssumption is what AgentKeys assumes of the same constants.      *)
(***************************************************************************)
EXTENDS DurableKeys, TLAPS

USE DurableAssumption

Agent == INSTANCE OneCommandProofs WITH file <- File

USE DEF Agent!AllCommands

-----------------------------------------------------------------------------
(* AgentKeys, seen from its proofs, is AgentKeys seen from DurableKeys.      *)

Same ==
    /\ Cmd!CoreInv <=> Agent!CoreInv
    /\ \A h \in Hosts : Cmd!HasOwner(h) <=> Agent!HasOwner(h)

LEMMA SameInvariant == Same
<1>1. Cmd!TypeOK <=> Agent!TypeOK
      BY DEF Cmd!TypeOK, Agent!TypeOK, Cmd!KeyRecords, Agent!KeyRecords, Cmd!Jobs, Agent!Jobs,
             Cmd!Documents, Agent!Documents, Cmd!Statuses, Agent!Statuses, Cmd!Pcs, Agent!Pcs
<1>2. /\ Cmd!JobShape <=> Agent!JobShape
      /\ Cmd!CreatedFresh <=> Agent!CreatedFresh
      /\ Cmd!DocumentInstalled <=> Agent!DocumentInstalled
      /\ Cmd!BindingInstalled <=> Agent!BindingInstalled
      /\ Cmd!RevokedFirst <=> Agent!RevokedFirst
      BY DEF Cmd!JobShape, Agent!JobShape, Cmd!CreatedFresh, Agent!CreatedFresh,
             Cmd!DocumentInstalled, Agent!DocumentInstalled, Cmd!BindingInstalled,
             Agent!BindingInstalled, Cmd!RevokedFirst, Agent!RevokedFirst
<1>3. \A h \in Hosts : Cmd!HasOwner(h) <=> Agent!HasOwner(h)
      BY DEF Cmd!HasOwner, Agent!HasOwner, Cmd!Binding, Agent!Binding, Cmd!Unreplaced,
             Agent!Unreplaced
<1> QED BY <1>1, <1>2, <1>3 DEF Same, Cmd!CoreInv, Agent!CoreInv

LEMMA SameReading ==
    ASSUME NEW p \in Procs
    PROVE  /\ Cmd!Begin(p) => Agent!Begin(p)
           /\ Cmd!ResolveEngine(p) => Agent!ResolveEngine(p)
           /\ Cmd!ResolveHostname(p) => Agent!ResolveHostname(p)
           /\ Cmd!ReadCredential(p) => Agent!ReadCredential(p)
           /\ Cmd!LoadHostFile(p) => Agent!LoadHostFile(p)
           /\ Cmd!LoadLegacyFile(p) => Agent!LoadLegacyFile(p)
           /\ Cmd!Confirm(p) => Agent!Confirm(p)
           /\ Cmd!Launch(p) => Agent!Launch(p)
<1> USE DEF Cmd!hostsFile, Agent!hostsFile, Cmd!history, Agent!history, Cmd!Idle, Agent!Idle,
            Cmd!Goto, Agent!Goto, Cmd!Finish, Agent!Finish
<1>1. Cmd!Begin(p) => Agent!Begin(p)
      BY DEF Cmd!Begin, Agent!Begin, Cmd!Unused, Agent!Unused, Cmd!Running, Agent!Running,
             Cmd!Cardinality, Agent!Cardinality
<1>2. Cmd!ResolveEngine(p) => Agent!ResolveEngine(p)
      BY DEF Cmd!ResolveEngine, Agent!ResolveEngine
<1>3. Cmd!ResolveHostname(p) => Agent!ResolveHostname(p)
      BY DEF Cmd!ResolveHostname, Agent!ResolveHostname, Cmd!ResolvedHost, Agent!ResolvedHost
<1>4. Cmd!ReadCredential(p) => Agent!ReadCredential(p)
      BY DEF Cmd!ReadCredential, Agent!ReadCredential
<1>5. ASSUME NEW document, Cmd!Loaded(p, document) PROVE Agent!Loaded(p, document)
  <2>1. Cmd!AfterLoad(job[p].cmd, document) = Agent!AfterLoad(job[p].cmd, document)
        BY DEF Cmd!AfterLoad, Agent!AfterLoad
  <2> QED BY <1>5, <2>1 DEF Cmd!Loaded, Agent!Loaded
<1>6. Cmd!LoadHostFile(p) => Agent!LoadHostFile(p)
      BY <1>5 DEF Cmd!LoadHostFile, Agent!LoadHostFile
<1>7. Cmd!LoadLegacyFile(p) => Agent!LoadLegacyFile(p)
      BY <1>5 DEF Cmd!LoadLegacyFile, Agent!LoadLegacyFile
<1>8. (Cmd!Confirm(p) => Agent!Confirm(p)) /\ (Cmd!Launch(p) => Agent!Launch(p))
      BY DEF Cmd!Confirm, Agent!Confirm, Cmd!Launch, Agent!Launch
<1> QED BY <1>1, <1>2, <1>3, <1>4, <1>6, <1>7, <1>8

LEMMA SameWriting ==
    ASSUME NEW p \in Procs
    PROVE  /\ Cmd!RevokeBoundKey(p) => Agent!RevokeBoundKey(p)
           /\ Cmd!RevokeReplyLost(p) => Agent!RevokeReplyLost(p)
           /\ Cmd!CreateKey(p) => Agent!CreateKey(p)
           /\ Cmd!CreateReplyLost(p) => Agent!CreateReplyLost(p)
           /\ Cmd!SaveBinding(p) => Agent!SaveBinding(p)
           /\ Cmd!Interrupt(p) => Agent!Interrupt(p)
           /\ \A h \in Hosts : Cmd!DamageBinding(h) => Agent!DamageBinding(h)
           /\ \A k \in Keys : Cmd!WithdrawKey(k) => Agent!WithdrawKey(k)
<1> USE DEF Cmd!hostsFile, Agent!hostsFile, Cmd!history, Agent!history, Cmd!Idle, Agent!Idle,
            Cmd!Goto, Agent!Goto, Cmd!Finish, Agent!Finish, Cmd!Fault, Agent!Fault
<1>1. Cmd!RevokeBoundKey(p) => Agent!RevokeBoundKey(p)
      BY DEF Cmd!RevokeBoundKey, Agent!RevokeBoundKey, Cmd!RevokeAnswer, Agent!RevokeAnswer,
             Cmd!IsKeyAlreadyGone, Agent!IsKeyAlreadyGone
<1>2. Cmd!RevokeReplyLost(p) => Agent!RevokeReplyLost(p)
      BY DEF Cmd!RevokeReplyLost, Agent!RevokeReplyLost, Cmd!RevokeAnswer, Agent!RevokeAnswer
<1>3. Cmd!CreateKey(p) => Agent!CreateKey(p)
      BY DEF Cmd!CreateKey, Agent!CreateKey, Cmd!Unused, Agent!Unused, Cmd!Issued, Agent!Issued
<1>4. Cmd!CreateReplyLost(p) => Agent!CreateReplyLost(p)
      BY DEF Cmd!CreateReplyLost, Agent!CreateReplyLost, Cmd!Unused, Agent!Unused, Cmd!Issued,
             Agent!Issued, Cmd!Unreplaced, Agent!Unreplaced
<1>5. Cmd!SaveBinding(p) => Agent!SaveBinding(p)
      BY DEF Cmd!SaveBinding, Agent!SaveBinding
<1>6. Cmd!Interrupt(p) => Agent!Interrupt(p)
      BY DEF Cmd!Interrupt, Agent!Interrupt, Cmd!Unreplaced, Agent!Unreplaced
<1>7. /\ \A h \in Hosts : Cmd!DamageBinding(h) => Agent!DamageBinding(h)
      /\ \A k \in Keys : Cmd!WithdrawKey(k) => Agent!WithdrawKey(k)
      BY DEF Cmd!DamageBinding, Agent!DamageBinding, Cmd!WithdrawKey, Agent!WithdrawKey
<1> QED BY <1>1, <1>2, <1>3, <1>4, <1>5, <1>6, <1>7

\* What a step of the commands keeps, in the terms of DurableKeys.
LEMMA Kept ==
    ASSUME Agent!Keeps
    PROVE  Cmd!CoreInv' /\ \A h \in Hosts : Cmd!HasOwner(h) => Cmd!HasOwner(h)'
<1>1. Same /\ Same'
      BY SameInvariant, PTL
<1> QED BY <1>1 DEF Same, Agent!Keeps

-----------------------------------------------------------------------------
(* The invariant.                                                            *)

LEMMA DurableInitInvariant == Init => DurableInv
<1> SUFFICES ASSUME Init PROVE DurableInv
    OBVIOUS
<1>1. Cmd!CoreInv /\ \A h \in Hosts : Cmd!HasOwner(h)
  <2>1. Cmd!Init => Agent!Init
        BY DEF Cmd!Init, Agent!Init, Cmd!Idle, Agent!Idle, Cmd!Unissued, Agent!Unissued
  <2>2. Agent!IInv
        BY <2>1, Agent!InitInvariant DEF Init
  <2> QED BY <2>2, SameInvariant DEF Same, Agent!IInv, Agent!RevokedBindingHasOwner
<1>2. /\ value = [h \in Hosts |-> None] /\ recent = [h \in Hosts |-> {None}]
      /\ pending = [p \in Procs |-> None] /\ undone = {}
      /\ \A p \in Procs : job[p].pc = "idle"
      BY DEF Init, Store!Init, Cmd!Init, Cmd!Idle
<1>3. DurableTypeOK /\ RecentGenuine /\ SaveUnderWay
      BY <1>2 DEF DurableTypeOK, RecentGenuine, SaveUnderWay
<1> QED BY <1>1, <1>3 DEF DurableInv, RevokedBindingHasCause

\* A step of the commands that leaves the binding files and their calls alone.
LEMMA StoreAlone ==
    ASSUME DurableInv, Agent!Keeps, UNCHANGED store, undone' = undone,
           installed \subseteq installed', \A k \in installed : keys'[k].host = keys[k].host,
           \A p \in Procs : job'[p] = job[p] \/ (job[p].pc # "save" /\ job'[p].pc # "save")
    PROVE  DurableInv'
<1>1. Cmd!CoreInv' /\ \A h \in Hosts : Cmd!HasOwner(h) => Cmd!HasOwner(h)'
      BY Kept
<1>2. UNCHANGED <<value, recent, pending>>
      BY DEF store
<1>3. DurableTypeOK' /\ RecentGenuine'
      BY <1>2 DEF DurableInv, DurableTypeOK, RecentGenuine
<1>4. SaveUnderWay'
      BY <1>2 DEF DurableInv, SaveUnderWay
<1>5. RevokedBindingHasCause'
      BY <1>1 DEF DurableInv, RevokedBindingHasCause
<1> QED BY <1>1, <1>3, <1>4, <1>5 DEF DurableInv

LEMMA DurableMovesStep ==
    ASSUME DurableInv, NEW p \in Procs, Begin(p) \/ Step(p) \/ ReplyLost(p) PROVE DurableInv'
<1>1. /\ Cmd!CoreInv /\ Agent!CoreInv /\ UNCHANGED store /\ undone' = undone
      BY SameInvariant DEF Same, DurableInv, Begin, Step, ReplyLost
<1>2. \/ Agent!Begin(p) \/ Agent!ResolveEngine(p) \/ Agent!ResolveHostname(p)
      \/ Agent!ReadCredential(p) \/ Agent!LoadHostFile(p) \/ Agent!LoadLegacyFile(p)
      \/ Agent!Confirm(p) \/ Agent!RevokeBoundKey(p) \/ Agent!Launch(p)
      \/ Agent!RevokeReplyLost(p) \/ Agent!CreateReplyLost(p)
      BY SameReading, SameWriting DEF Begin, Step, ReplyLost
<1>3. Agent!Begin(p) \/ Agent!Step(p) \/ Agent!Failure(p)
      BY <1>2 DEF Agent!Step, Agent!Failure
<1>4. Agent!Keeps
      BY <1>1, <1>3, Agent!CommandStep
<1>5. installed \subseteq installed' /\ \A k \in installed : keys'[k].host = keys[k].host
      BY <1>1, <1>3, Agent!IssuersStay
<1>6. \A q \in Procs : job'[q] = job[q] \/ (job[q].pc # "save" /\ job'[q].pc # "save")
      BY <1>1, <1>2, Agent!MovesOn
<1> QED BY <1>1, <1>4, <1>5, <1>6, StoreAlone

LEMMA DurableWithdrawStep ==
    ASSUME DurableInv, NEW k \in Keys, WithdrawKey(k) PROVE DurableInv'
<1>1. /\ Agent!CoreInv /\ UNCHANGED store /\ undone' = undone /\ UNCHANGED job
      /\ Agent!WithdrawKey(k)
  <2>1. Agent!WithdrawKey(k)
        BY DEF WithdrawKey, Cmd!WithdrawKey, Agent!WithdrawKey, Cmd!hostsFile, Agent!hostsFile,
               Cmd!Fault, Agent!Fault
  <2> QED BY <2>1, SameInvariant DEF Same, DurableInv, WithdrawKey, Agent!WithdrawKey
<1>2. Agent!Keeps
      BY <1>1, Agent!WithdrawKeyStep
<1>3. installed \subseteq installed' /\ \A l \in installed : keys'[l].host = keys[l].host
      BY <1>1, Agent!IssuersStay DEF Agent!Accident
<1> QED BY <1>1, <1>2, <1>3, StoreAlone

\* The console has issued a key and Save is called.
LEMMA DurableCreateStep ==
    ASSUME DurableInv, NEW p \in Procs, CreateKey(p) PROVE DurableInv'
<1>1. PICK k \in Keys : /\ Store!Invoke(p, job[p].host, k, Private)
                        /\ Cmd!CreateKey(p) /\ job'[p].created = k
      BY DEF CreateKey
<1>2. Agent!CoreInv /\ Agent!CreateKey(p) /\ undone' = undone
      BY <1>1, SameInvariant, SameWriting DEF Same, DurableInv, CreateKey
<1>3. Agent!Keeps
      BY <1>2, Agent!CreateKeyStep
<1>4. installed \subseteq installed' /\ \A l \in installed : keys'[l].host = keys[l].host
      BY <1>2, Agent!IssuersStay DEF Agent!Step
<1>5. Cmd!CoreInv' /\ \A h \in Hosts : Cmd!HasOwner(h) => Cmd!HasOwner(h)'
      BY <1>3, Kept
<1>6. /\ UNCHANGED <<value, recent>> /\ pending[p] = None
      /\ pending' = [pending EXCEPT ![p] = [path |-> job[p].host, data |-> k, mode |-> Private]]
      BY <1>1 DEF Store!Invoke
<1>7. /\ job[p] \in Cmd!Jobs /\ job'[p].pc = "save" /\ job'[p].host = job[p].host
      /\ \A q \in Procs \ {p} : job'[q] = job[q]
  <2>1. job \in [Procs -> Cmd!Jobs] /\ job[p] \in Cmd!Jobs
        BY DEF DurableInv, Cmd!CoreInv, Cmd!TypeOK
  <2>2. PICK l \in Agent!Unused : job' = [job EXCEPT ![p].pc = "save", ![p].created = l]
        BY <1>2 DEF Agent!CreateKey
  <2> QED BY <2>1, <2>2 DEF Cmd!Jobs
<1>8. SaveUnderWay'
      BY <1>1, <1>6, <1>7 DEF DurableInv, DurableTypeOK, SaveUnderWay
<1>9. DurableTypeOK' /\ RecentGenuine'
  <2>1. job[p].host \in Hosts
        BY DEF CreateKey, DurableInv, Cmd!CoreInv, Cmd!JobShape
  <2>2. pending' \in [Procs -> [path : Hosts, data : Keys, mode : {Private}] \cup {None}]
        BY <1>6, <2>1 DEF DurableInv, DurableTypeOK
  <2> QED BY <1>2, <1>4, <1>6, <2>2 DEF DurableInv, DurableTypeOK, RecentGenuine
<1>10. RevokedBindingHasCause'
      BY <1>2, <1>5 DEF DurableInv, RevokedBindingHasCause
<1> QED BY <1>5, <1>8, <1>9, <1>10 DEF DurableInv

\* Save returns: the new key is genuine, and no revoked key is bound there any more.
LEMMA DurableSaveStep ==
    ASSUME DurableInv, NEW p \in Procs, SaveBinding(p) PROVE DurableInv'
<1>0. PICK g \in Hosts, k \in Keys : g = job[p].host /\ k = job[p].created /\ keys[k].host = g
      BY DEF SaveBinding, DurableInv, Cmd!CoreInv, Cmd!JobShape, Cmd!CreatedFresh
<1> DEFINE written == [data |-> k, mode |-> Private]
<1>1. /\ Agent!CoreInv /\ Agent!SaveBinding(p) /\ job[p].pc = "save" /\ Store!Commit(p)
      /\ undone' = undone \ {g}
      BY <1>0, SameInvariant, SameWriting DEF Same, DurableInv, SaveBinding
<1>2. Agent!Keeps
      BY <1>1, Agent!SaveBindingStep
<1>3. Cmd!CoreInv' /\ \A h \in Hosts : Cmd!HasOwner(h) => Cmd!HasOwner(h)'
      BY <1>2, Kept
<1>4. /\ installed \subseteq installed' /\ \A l \in installed : keys'[l].host = keys[l].host
      /\ k \in installed' /\ UNCHANGED keys
  <2>1. Agent!Step(p)
        BY <1>1 DEF Agent!Step
  <2> QED BY <1>0, <1>1, <2>1, Agent!IssuersStay DEF Agent!SaveBinding
<1>5. pending[p] = [path |-> g, data |-> k, mode |-> Private]
      BY <1>0, <1>1 DEF DurableInv, SaveUnderWay
<1>6. /\ value' = [value EXCEPT ![g] = written]
      /\ recent' = [recent EXCEPT ![g] = @ \cup {written}]
      /\ pending' = [pending EXCEPT ![p] = None]
      BY <1>1, <1>5 DEF Store!Commit
<1>7. /\ job'[p].pc = "idle" /\ \A q \in Procs \ {p} : job'[q] = job[q]
      BY <1>1 DEF Agent!SaveBinding, Agent!Finish, Agent!Idle, DurableInv, Cmd!CoreInv, Cmd!TypeOK
<1>8. written \in Files /\ written.data = k
      BY <1>0 DEF Files
<1> HIDE DEF written
<1>9. DurableTypeOK'
      BY <1>1, <1>0, <1>6, <1>8 DEF DurableInv, DurableTypeOK
<1>10. RecentGenuine'
  <2> SUFFICES ASSUME NEW h \in Hosts, NEW saved \in recent'[h], saved # None, saved.data \in Keys
               PROVE  saved.data \in installed' /\ keys'[saved.data].host = h
      BY DEF RecentGenuine
  <2>1. recent'[h] \subseteq recent[h] \cup (IF h = g THEN {written} ELSE {})
        BY <1>0, <1>6 DEF DurableInv, DurableTypeOK
  <2>2. CASE saved \in recent[h]
        BY <1>4, <2>2 DEF DurableInv, RecentGenuine
  <2>3. CASE saved = written /\ h = g
        BY <1>4, <1>0, <1>8, <2>3
  <2> QED BY <2>1, <2>2, <2>3
<1>11. SaveUnderWay'
      BY <1>6, <1>7 DEF DurableInv, DurableTypeOK, SaveUnderWay
<1>12. Cmd!HasOwner(g)'
  <2>1. Agent!HasOwner(g)'
        BY <1>0, <1>1, Agent!SavedHasOwner
  <2>2. Same'
        BY SameInvariant, PTL
  <2> QED BY <1>0, <2>1, <2>2 DEF Same
<1>13. RevokedBindingHasCause'
      BY <1>1, <1>3, <1>12 DEF DurableInv, RevokedBindingHasCause
<1> QED BY <1>3, <1>9, <1>10, <1>11, <1>13 DEF DurableInv

\* Write has failed, or the command died, within Save or elsewhere.
LEMMA DurableStopStep ==
    ASSUME DurableInv, NEW p \in Procs, SaveFails(p) \/ Interrupt(p) PROVE DurableInv'
<1>1. /\ Agent!CoreInv /\ Agent!Interrupt(p) /\ UNCHANGED <<value, recent, undone>>
      /\ (UNCHANGED pending /\ job[p].pc # "save") \/ pending' = [pending EXCEPT ![p] = None]
  <2>1. Agent!CoreInv /\ Agent!Interrupt(p) /\ undone' = undone
        BY SameInvariant, SameWriting DEF Same, DurableInv, SaveFails, Interrupt
  <2>2. /\ UNCHANGED <<value, recent>>
        /\ (UNCHANGED pending /\ job[p].pc # "save") \/ pending' = [pending EXCEPT ![p] = None]
        BY DEF SaveFails, Interrupt, Store!Reject, Store!Die, store
  <2> QED BY <2>1, <2>2
<1>2. Agent!Keeps
      BY <1>1, Agent!InterruptStep
<1>3. Cmd!CoreInv' /\ \A h \in Hosts : Cmd!HasOwner(h) => Cmd!HasOwner(h)'
      BY <1>2, Kept
<1>4. /\ job'[p].pc = "idle" /\ \A q \in Procs \ {p} : job'[q] = job[q]
      /\ UNCHANGED <<keys, installed>>
      BY <1>1 DEF Agent!Interrupt, Agent!Finish, Agent!Idle, DurableInv, Cmd!CoreInv, Cmd!TypeOK
<1>5. SaveUnderWay'
      BY <1>1, <1>4 DEF DurableInv, DurableTypeOK, SaveUnderWay
<1>6. DurableTypeOK' /\ RecentGenuine'
      BY <1>1, <1>4 DEF DurableInv, DurableTypeOK, RecentGenuine
<1>7. RevokedBindingHasCause'
      BY <1>1, <1>3 DEF DurableInv, RevokedBindingHasCause
<1> QED BY <1>3, <1>5, <1>6, <1>7 DEF DurableInv

LEMMA DurableDamageStep ==
    ASSUME DurableInv, NEW h \in Hosts, DamageBinding(h) PROVE DurableInv'
<1> DEFINE damaged == [data |-> Damaged, mode |-> Private]
<1>1. /\ value' = [value EXCEPT ![h] = damaged]
      /\ recent' = [recent EXCEPT ![h] = (@ \ {value[h]}) \cup {damaged}]
      /\ UNCHANGED <<pending, undone>> /\ Agent!CoreInv
      BY SameInvariant DEF DamageBinding, Same, DurableInv
<1>2. Agent!DamageBinding(h)
      BY DEF DamageBinding, Cmd!DamageBinding, Agent!DamageBinding, Cmd!hostsFile,
             Agent!hostsFile, Cmd!Fault, Agent!Fault
<1>3. Agent!Keeps
      BY <1>1, <1>2, Agent!DamageBindingStep
<1>4. Cmd!CoreInv' /\ \A g \in Hosts : Cmd!HasOwner(g) => Cmd!HasOwner(g)'
      BY <1>3, Kept
<1>5. UNCHANGED <<keys, installed, job>>
      BY <1>2 DEF Agent!DamageBinding
<1>6. damaged \in Files /\ damaged.data \notin Keys
      BY DEF Files
<1> HIDE DEF damaged
<1>7. DurableTypeOK'
      BY <1>1, <1>6 DEF DurableInv, DurableTypeOK
<1>8. \A g \in Hosts : recent'[g] \subseteq recent[g] \cup {damaged}
      BY <1>1 DEF DurableInv, DurableTypeOK
<1>9. RecentGenuine'
      BY <1>5, <1>6, <1>8 DEF DurableInv, RecentGenuine
<1>10. SaveUnderWay'
      BY <1>1, <1>5 DEF DurableInv, SaveUnderWay
<1>11. RevokedBindingHasCause'
      BY <1>1, <1>4 DEF DurableInv, RevokedBindingHasCause
<1> QED BY <1>4, <1>7, <1>9, <1>10, <1>11 DEF DurableInv

\* What a power loss may bring back at h is now what the file system shows there.
LEMMA DurableSettleStep ==
    ASSUME DurableInv, NEW h \in Hosts, Settle(h) PROVE DurableInv'
<1>1. /\ recent' = [recent EXCEPT ![h] = {value[h]}]
      /\ UNCHANGED <<value, pending, keys, legacy, selected, account, job, installed, stranded,
                     faults, undone>>
      BY DEF Settle, Store!Settle
<1>2. Agent!Keeps
  <2>1. File' = File /\ Agent!CoreInv
        BY <1>1, SameInvariant DEF File, Same, DurableInv
  <2> QED BY <1>1, <2>1, Agent!StillStep DEF Agent!hostsFile
<1>3. Cmd!CoreInv' /\ \A g \in Hosts : Cmd!HasOwner(g) => Cmd!HasOwner(g)'
      BY <1>2, Kept
<1>4. DurableTypeOK'
      BY <1>1 DEF DurableInv, DurableTypeOK
<1>5. value[h] # None /\ value[h].data \in Keys
        => value[h].data \in installed /\ keys[value[h].data].host = h
      BY DEF DurableInv, Cmd!CoreInv, Cmd!BindingInstalled, File
<1>6. \A g \in Hosts : \A saved \in recent'[g] : saved \in recent[g] \/ (g = h /\ saved = value[h])
      BY <1>1 DEF DurableInv, DurableTypeOK
<1>7. RecentGenuine'
      BY <1>1, <1>5, <1>6 DEF DurableInv, RecentGenuine
<1>8. SaveUnderWay' /\ RevokedBindingHasCause'
      BY <1>1, <1>3 DEF DurableInv, SaveUnderWay, RevokedBindingHasCause
<1> QED BY <1>3, <1>4, <1>7, <1>8 DEF DurableInv

\* Every command has died, and every binding is one of those that the disk may hold.
LEMMA DurablePowerLossStep == ASSUME DurableInv, PowerLoss PROVE DurableInv'
<1>1. PICK survivor \in [Hosts -> UNION {recent[h] : h \in Hosts}] :
        /\ \A h \in Hosts : survivor[h] \in recent[h]
        /\ value' = survivor
        /\ recent' = [h \in Hosts |-> {survivor[h]}]
      BY DEF PowerLoss, Store!Lose
<1>2. /\ job' = [p \in Procs |-> Cmd!Idle] /\ pending' = [p \in Procs |-> None]
      /\ stranded' = stranded \cup UNION {Cmd!Unreplaced(p) : p \in Procs}
      /\ undone' = undone \cup {h \in Hosts : File'[h] # File[h]}
      /\ UNCHANGED <<keys, legacy, selected, account, installed>>
      BY DEF PowerLoss, Store!Lose
<1>3. /\ Cmd!Idle \in Cmd!Jobs /\ Cmd!Idle.pc = "idle" /\ Cmd!Idle.document \notin Keys
      BY DEF Cmd!Idle, Cmd!Jobs, Cmd!Pcs, Cmd!Documents
<1>4. \A p \in Procs : job'[p] = Cmd!Idle
      BY <1>2
<1>5. DurableTypeOK'
  <2>1. \A h \in Hosts : survivor[h] \in Files \cup {None}
        BY <1>1 DEF DurableInv, DurableTypeOK
  <2>2. /\ value' \in [Hosts -> Files \cup {None}]
        /\ recent' \in [Hosts -> SUBSET (Files \cup {None})]
        BY <1>1, <2>1
  <2> QED BY <1>2, <2>2 DEF DurableInv, DurableTypeOK
<1>6. RecentGenuine'
      BY <1>1, <1>2 DEF DurableInv, RecentGenuine
<1>7. \A h \in Hosts :
        /\ File'[h] \in Cmd!Documents
        /\ File'[h] \in Keys => File'[h] \in installed /\ keys[File'[h]].host = h
  <2> SUFFICES ASSUME NEW h \in Hosts
               PROVE  /\ File'[h] \in Cmd!Documents
                      /\ File'[h] \in Keys => File'[h] \in installed /\ keys[File'[h]].host = h
      OBVIOUS
  <2>1. value'[h] \in recent[h] /\ value'[h] \in Files \cup {None}
        BY <1>1, <1>5 DEF DurableTypeOK
  <2>2. File'[h] = IF value'[h] = None THEN None ELSE value'[h].data
        BY DEF File
  <2> QED BY <2>1, <2>2 DEF DurableInv, RecentGenuine, Files, Cmd!Documents
<1>8. Cmd!CoreInv'
  <2>1. File' \in [Hosts -> Cmd!Documents]
    <3>1. File' = [h \in Hosts |-> File'[h]]
          BY DEF File
    <3> HIDE DEF File
    <3> QED BY <1>7, <3>1
  <2>2. faults' \in 0..MaxFaults
        BY DEF PowerLoss, DurableInv, Cmd!CoreInv, Cmd!TypeOK
  <2>3. stranded' \subseteq Keys
        BY <1>2 DEF DurableInv, Cmd!CoreInv, Cmd!TypeOK, Cmd!Unreplaced
  <2>4. Cmd!TypeOK'
        BY <1>2, <1>3, <2>1, <2>2, <2>3 DEF DurableInv, Cmd!CoreInv, Cmd!TypeOK
  <2>5. Cmd!JobShape' /\ Cmd!CreatedFresh' /\ Cmd!DocumentInstalled' /\ Cmd!RevokedFirst'
        BY <1>3, <1>4 DEF Cmd!JobShape, Cmd!CreatedFresh, Cmd!DocumentInstalled, Cmd!RevokedFirst
  <2>6. Cmd!BindingInstalled'
        BY <1>2, <1>7 DEF DurableInv, Cmd!CoreInv, Cmd!BindingInstalled
  <2> QED BY <2>4, <2>5, <2>6 DEF Cmd!CoreInv
<1>9. SaveUnderWay'
      BY <1>2, <1>3, <1>4 DEF SaveUnderWay
<1>10. RevokedBindingHasCause'
  <2> SUFFICES ASSUME NEW h \in Hosts, h \notin undone' PROVE Cmd!HasOwner(h)'
      BY DEF RevokedBindingHasCause
  <2>1. File'[h] = File[h] /\ h \notin undone
        BY <1>2
  <2>2. Cmd!Binding(h)' = Cmd!Binding(h)
        BY <1>2, <2>1 DEF Cmd!Binding
  <2>3. Cmd!HasOwner(h)
        BY <2>1 DEF DurableInv, RevokedBindingHasCause
  <2> QED BY <1>2, <2>2, <2>3 DEF Cmd!HasOwner
<1> QED BY <1>5, <1>6, <1>8, <1>9, <1>10 DEF DurableInv

LEMMA DurableStillStep == ASSUME DurableInv, UNCHANGED vars PROVE DurableInv'
<1>1. /\ UNCHANGED <<store, keys, legacy, selected, account, job, installed, stranded, faults>>
      /\ undone' = undone /\ File' = File /\ Agent!CoreInv
      BY SameInvariant DEF vars, store, File, Same, DurableInv
<1>2. Agent!Keeps
      BY <1>1, Agent!StillStep DEF Agent!hostsFile
<1> QED BY <1>1, <1>2, StoreAlone

LEMMA DurableInvariantStep == DurableInv /\ [Next]_vars => DurableInv'
<1> SUFFICES ASSUME DurableInv, [Next]_vars PROVE DurableInv'
    OBVIOUS
<1>1. CASE \E p \in Procs : Begin(p) \/ Proceed(p)
      BY <1>1, DurableMovesStep, DurableCreateStep, DurableSaveStep DEF Proceed
<1>2. CASE Disturbance
      BY <1>2, DurableMovesStep, DurableStopStep, DurableDamageStep, DurableSettleStep,
         DurableWithdrawStep, DurablePowerLossStep DEF Disturbance
<1>3. CASE UNCHANGED vars
      BY <1>3, DurableStillStep
<1> QED BY <1>1, <1>2, <1>3 DEF Next

\* In every reachable state of every instance: a key that a power loss may bring back
\* is one its host issued, a command that saves has its call under way, and what
\* AgentKeys keeps is kept through power losses.
THEOREM DurableInvariance == Spec => []DurableInv
BY DurableInitInvariant, DurableInvariantStep, PTL DEF Spec

\* A key revoked by the CLI stays bound only while the command that revoked it is
\* replacing it, after that command died, or on a host whose last save a power loss
\* has undone: no other order of crashes, losses and concurrent commands leads there.
THEOREM RevokedBindingsHaveCauses == Spec => []RevokedBindingHasCause
<1>1. DurableInv => RevokedBindingHasCause
      BY DEF DurableInv
<1> QED BY <1>1, DurableInvariance, PTL

-----------------------------------------------------------------------------
(* Live keys, when commands run one at a time.                               *)

LEMMA SameCounting ==
    /\ Cmd!OneCommand <=> Agent!OneCommand
    /\ Cmd!OneAccount <=> Agent!OneAccount
    /\ Cmd!ActiveKeysBounded <=> Agent!ActiveKeysBounded
BY DEF Cmd!OneCommand, Agent!OneCommand, Cmd!OneAccount, Agent!OneAccount,
       Cmd!ActiveKeysBounded, Agent!ActiveKeysBounded, Cmd!Cardinality, Agent!Cardinality

\* Without power losses the keys are those of AgentKeys.
LEMMA CommandsAlone ==
    ASSUME [Next]_vars, ~PowerLoss PROVE [Agent!Next]_(Agent!vars)
<1>1. CASE \E p \in Procs : Begin(p) \/ Proceed(p) \/ ReplyLost(p) \/ SaveFails(p) \/ Interrupt(p)
  <2>1. PICK p \in Procs : Begin(p) \/ Proceed(p) \/ ReplyLost(p) \/ SaveFails(p) \/ Interrupt(p)
        BY <1>1
  <2>2. Agent!Begin(p) \/ Agent!Step(p) \/ Agent!Failure(p)
        BY <2>1, SameReading, SameWriting
        DEF Begin, Proceed, Step, CreateKey, SaveBinding, ReplyLost, SaveFails, Interrupt,
            Agent!Step, Agent!Failure
  <2> QED BY <2>2 DEF Agent!Next
<1>2. CASE \E h \in Hosts : DamageBinding(h)
  <2>1. PICK h \in Hosts : Cmd!DamageBinding(h)
        BY <1>2 DEF DamageBinding
  <2>2. Agent!DamageBinding(h)
        BY <2>1 DEF Cmd!DamageBinding, Agent!DamageBinding, Cmd!hostsFile, Agent!hostsFile,
             Cmd!Fault, Agent!Fault
  <2> QED BY <2>2 DEF Agent!Next, Agent!Accident
<1>3. CASE \E k \in Keys : WithdrawKey(k)
  <2>1. PICK k \in Keys : Cmd!WithdrawKey(k)
        BY <1>3 DEF WithdrawKey
  <2>2. Agent!WithdrawKey(k)
        BY <2>1 DEF Cmd!WithdrawKey, Agent!WithdrawKey, Cmd!hostsFile, Agent!hostsFile,
             Cmd!Fault, Agent!Fault
  <2> QED BY <2>2 DEF Agent!Next, Agent!Accident
<1>4. CASE (\E h \in Hosts : Settle(h)) \/ UNCHANGED vars
  <2>1. UNCHANGED <<value, keys, legacy, selected, account, job, installed, stranded, faults>>
        BY <1>4 DEF Settle, Store!Settle, vars, store
  <2>2. File' = File
        BY <2>1 DEF File
  <2> QED BY <2>1, <2>2 DEF Agent!vars
<1> QED BY <1>1, <1>2, <1>3, <1>4 DEF Next, Disturbance

\* Nobody switches the host here, under the prompt of `agent` or elsewhere.
LEMMA SelectionKept == [Next]_vars => Agent!SelectionStays
<1>1. [Next]_vars => selected' = selected
  <2>1. ASSUME NEW p \in Procs, Begin(p) \/ Step(p) \/ CreateKey(p) PROVE selected' = selected
        BY <2>1 DEF Begin, Step, CreateKey, Cmd!Begin, Cmd!ResolveEngine, Cmd!ResolveHostname,
             Cmd!ReadCredential, Cmd!LoadHostFile, Cmd!LoadLegacyFile, Cmd!Confirm,
             Cmd!RevokeBoundKey, Cmd!Launch, Cmd!CreateKey, Cmd!hostsFile
  <2>2. ASSUME NEW p \in Procs, SaveBinding(p) \/ ReplyLost(p) \/ SaveFails(p) \/ Interrupt(p)
        PROVE  selected' = selected
        BY <2>2 DEF SaveBinding, ReplyLost, SaveFails, Interrupt, Cmd!SaveBinding,
             Cmd!RevokeReplyLost, Cmd!CreateReplyLost, Cmd!Interrupt, Cmd!hostsFile
  <2>3. ASSUME NEW h \in Hosts, DamageBinding(h) \/ Settle(h) PROVE selected' = selected
        BY <2>3 DEF DamageBinding, Settle, Cmd!DamageBinding, Cmd!hostsFile
  <2>4. ASSUME NEW k \in Keys, WithdrawKey(k) PROVE selected' = selected
        BY <2>4 DEF WithdrawKey, Cmd!WithdrawKey, Cmd!hostsFile
  <2>5. PowerLoss \/ UNCHANGED vars => selected' = selected
        BY DEF PowerLoss, vars
  <2> QED BY <2>1, <2>2, <2>3, <2>4, <2>5 DEF Next, Proceed, Disturbance
<1> QED BY <1>1 DEF Agent!SelectionStays

\* A power loss makes the command forget the key it was about to save, or takes the
\* binding back: one live key each host, as a killed command or a damaged file would.
LEMMA LossExplained ==
    ASSUME Agent!OneCommand, Agent!OneAccount, Agent!CoreInv, Agent!OneCommandInv, PowerLoss
    PROVE  Agent!OneCommandInv'
<1>1. /\ UNCHANGED <<keys, legacy>> /\ faults' = faults + 1
      /\ job' = [p \in Procs |-> Cmd!Idle]
      BY DEF PowerLoss
<1>2. \A p \in Procs : job'[p] = Cmd!Idle
      BY <1>1
<1>3. Cmd!Idle.pc = "idle"
      BY DEF Cmd!Idle
<1>4. Agent!Accounted
      BY <1>1, <1>2, <1>3, Agent!ForgetAccounted
<1>5. Agent!ReadStays'
      BY <1>2, <1>3 DEF Agent!ReadStays
<1> QED BY <1>4, <1>5, Agent!AccountedStep DEF Agent!OneCommandInv

\* With one command at a time and one account, a power loss leaves at most one live
\* key that no binding names, as every other thing that goes wrong.  The user
\* neither logs in nor selects another host meanwhile: DurableKeys has no such step.
THEOREM LiveKeysDoNotPileUpThroughLosses ==
    ASSUME Cmd!OneCommand, Cmd!OneAccount PROVE Spec => []LiveKeysBounded
<1>1. Init => Agent!OneCommandInv
  <2>1. Cmd!Init => Agent!Init
        BY DEF Cmd!Init, Agent!Init, Cmd!Idle, Agent!Idle, Cmd!Unissued, Agent!Unissued
  <2> QED BY <2>1, Agent!OneCommandInit DEF Init
<1>2. DurableInv => Agent!CoreInv
      BY SameInvariant DEF Same, DurableInv
<1>3. Agent!OneCommand /\ Agent!OneAccount
      BY SameCounting
<1>4. DurableInv /\ Agent!OneCommandInv /\ [Next]_vars => Agent!OneCommandInv'
  <2>1. CASE PowerLoss
        BY <1>2, <1>3, <2>1, LossExplained
  <2>2. CASE ~PowerLoss
        BY <1>2, <1>3, <2>2, CommandsAlone, SelectionKept, Agent!OneCommandStep
  <2> QED BY <2>1, <2>2
<1>5. DurableInv /\ Agent!OneCommandInv => LiveKeysBounded
      BY <1>2, <1>3, SameCounting, Agent!LiveKeysCounted DEF LiveKeysBounded
<1> QED BY <1>1, <1>4, <1>5, DurableInvariance, PTL DEF Spec

\* The user of the liveness property, who repeats regenerate until the binding is
\* usable, is a user like any other: all of the above holds of him too.
THEOREM RepairIsUse == RepairSpec => Spec
<1>1. RepairInit => Init
      BY DEF RepairInit
<1>2. [RepairNext]_vars => [Next]_vars
      BY DEF RepairNext, Next, Repair, Use
<1> QED BY <1>1, <1>2, PTL DEF Spec, RepairSpec
=============================================================================
