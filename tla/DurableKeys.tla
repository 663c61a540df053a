---------------------------- MODULE DurableKeys ----------------------------
(***************************************************************************)
(* The agent keys over the file system: the commands of AgentKeys whose    *)
(* saves are calls of atomicfile.Write, as AtomicReplace promises them,    *)
(* with power losses.  A regenerate revokes at the console, which does not *)
(* forget, and saves in a directory it does not sync, which may: after a   *)
(* power loss the binding can be one that the console has revoked since.   *)
(*                                                                         *)
(* Every step is one of AgentKeys joined with one of AtomicReplace; only   *)
(* the power loss is new.  The user neither logs in nor selects another    *)
(* host: hosts.yml is what it was at the start.                            *)
(***************************************************************************)
EXTENDS Naturals, FiniteSets

CONSTANTS Procs, Commands, Hosts, DefaultHost, Supported, Orgs, Keys, LegacyKeys,
          None, Damaged, MaxFaults

\* fileBinding.Save writes with mode 0600.
Private == "private"
Files == [data : Keys \cup {Damaged}, mode : {Private}]

ASSUME DurableAssumption ==
    /\ Commands \subseteq {"agent", "login", "regenerate"}
    /\ DefaultHost \in Supported
    /\ Supported \subseteq Hosts
    /\ LegacyKeys \subseteq Keys
    /\ None \notin Hosts \cup Orgs \cup Keys \cup Files
    /\ Damaged \notin Keys \cup {None}
    /\ MaxFaults \in Nat

VARIABLES
    value, recent, pending, outcome,    \* the binding files, see AtomicReplace
    keys, legacy, selected, account, job, installed, stranded, faults,  \* see AgentKeys
    undone      \* history: the hosts whose binding a power loss has taken back

store == <<value, recent, pending, outcome>>
vars == <<store, keys, legacy, selected, account, job, installed, stranded, faults, undone>>

Store == INSTANCE AtomicReplace WITH
    Writers <- Procs, Paths <- Hosts, Contents <- Keys, Modes <- {Private}

\* What loadBindingFile finds in each per-host file.
File == [h \in Hosts |-> IF value[h] = None THEN None ELSE value[h].data]

Cmd == INSTANCE AgentKeys WITH file <- File

-----------------------------------------------------------------------------
Init ==
    /\ Store!Init
    /\ Cmd!Init
    /\ undone = {}

\* A step of a command that does not touch the binding files.
Step(p) ==
    /\ UNCHANGED <<store, undone>>
    /\ \/ Cmd!ResolveEngine(p) \/ Cmd!ResolveHostname(p) \/ Cmd!ReadCredential(p)
       \/ Cmd!LoadHostFile(p) \/ Cmd!LoadLegacyFile(p) \/ Cmd!Confirm(p)
       \/ Cmd!RevokeBoundKey(p) \/ Cmd!Launch(p)

Begin(p) == UNCHANGED <<store, undone>> /\ Cmd!Begin(p)

ReplyLost(p) ==
    /\ UNCHANGED <<store, undone>>
    /\ Cmd!RevokeReplyLost(p) \/ Cmd!CreateReplyLost(p)

\* createAndBind hands the new key to Save as soon as it has it.
CreateKey(p) ==
    /\ job[p].pc = "create"
    /\ \E k \in Keys :
         /\ Store!Invoke(p, job[p].host, k, Private)
         /\ Cmd!CreateKey(p)
         /\ job'[p].created = k
    /\ UNCHANGED undone

\* Mutant: the error of Save is dropped and the command reports success.
SaveBindingErrorDropped(p) ==
    /\ job[p].pc = "save"
    /\ \/ Store!Commit(p) /\ Cmd!SaveBinding(p)
       \/ /\ Store!Reject(p, "error") /\ Cmd!Finish(p)
          /\ UNCHANGED <<keys, legacy, selected, account, installed, stranded, faults>>
    /\ undone' = undone \ {job[p].host}

\* Save returns: the binding shows the new key, though not yet for good.
SaveBinding(p) ==
    /\ job[p].pc = "save"
    /\ Store!Commit(p)
    /\ Cmd!SaveBinding(p)
    /\ undone' = undone \ {job[p].host}

\* Write fails; the command reports it and stops.
SaveFails(p) ==
    /\ job[p].pc = "save"
    /\ \E reason \in {"error", "linkError"} : Store!Reject(p, reason)
    /\ Cmd!Interrupt(p)
    /\ UNCHANGED undone

\* The command is killed, within Save or elsewhere, or fails without an effect.
Interrupt(p) ==
    /\ IF job[p].pc = "save" THEN Store!Die(p) ELSE UNCHANGED store
    /\ Cmd!Interrupt(p)
    /\ UNCHANGED undone

\* A binding file is damaged on disk, where it lies.
DamageBinding(h) ==
    LET damaged == [data |-> Damaged, mode |-> Private]
    IN  /\ value[h] # None
        /\ value' = [value EXCEPT ![h] = damaged]
        /\ recent' = [recent EXCEPT ![h] = (@ \ {value[h]}) \cup {damaged}]
        /\ UNCHANGED <<pending, outcome, undone>>
        /\ Cmd!DamageBinding(h)

WithdrawKey(k) == UNCHANGED <<store, undone>> /\ Cmd!WithdrawKey(k)

\* The directory with a binding reaches the disk at some time of its own.
Settle(h) ==
    /\ Store!Settle(h)
    /\ UNCHANGED <<keys, legacy, selected, account, job, installed, stranded, faults, undone>>

\* The machine loses power: every command dies, every binding is one that may
\* have reached the disk, and the console knows what it knew.
PowerLoss ==
    /\ faults < MaxFaults
    /\ Store!Lose
    /\ faults' = faults + 1
    /\ job' = [p \in Procs |-> Cmd!Idle]
    /\ stranded' = stranded \cup UNION {Cmd!Unreplaced(p) : p \in Procs}
    /\ undone' = undone \cup {h \in Hosts : File'[h] # File[h]}
    /\ UNCHANGED <<keys, legacy, selected, account, installed>>

Proceed(p) == Step(p) \/ CreateKey(p) \/ SaveBinding(p)

Disturbance ==
    \/ \E p \in Procs : ReplyLost(p) \/ SaveFails(p) \/ Interrupt(p)
    \/ \E h \in Hosts : DamageBinding(h) \/ Settle(h)
    \/ \E k \in Keys : WithdrawKey(k)
    \/ PowerLoss

Next ==
    \/ \E p \in Procs : Begin(p) \/ Proceed(p)
    \/ Disturbance

Spec == Init /\ [][Next]_vars

-----------------------------------------------------------------------------
(* Safety.                                                                   *)

\* RevokedBindingHasOwner with power losses: a binding whose key the CLI has
\* revoked is being replaced, or was left by a command that died before it could
\* replace it, or came back when the machine lost power after the last save.
RevokedBindingHasCause == \A h \in Hosts : Cmd!HasOwner(h) \/ h \in undone

\* Power losses do not make live keys pile up either: each leaves at most one
\* more active key that no binding names.
LiveKeysBounded == Cmd!ActiveKeysBounded

\* The inductive invariant.  Whatever a power loss may bring back at a host is a key
\* that its console issued and that was its binding before, or damage.
DurableTypeOK ==
    /\ value \in [Hosts -> Files \cup {None}]
    /\ recent \in [Hosts -> SUBSET (Files \cup {None})]
    /\ pending \in [Procs -> [path : Hosts, data : Keys, mode : {Private}] \cup {None}]
    /\ undone \subseteq Hosts

RecentGenuine ==
    \A h \in Hosts : \A saved \in recent[h] :
      saved # None /\ saved.data \in Keys
        => saved.data \in installed /\ keys[saved.data].host = h

\* A call of atomicfile.Write is under way for each command that saves.
SaveUnderWay ==
    \A p \in Procs :
      pending[p] = IF job[p].pc = "save"
                   THEN [path |-> job[p].host, data |-> job[p].created, mode |-> Private]
                   ELSE None

DurableInv ==
    /\ DurableTypeOK /\ Cmd!CoreInv /\ RecentGenuine /\ SaveUnderWay
    /\ RevokedBindingHasCause

-----------------------------------------------------------------------------
(* Liveness: a user who repeats `regenerate` while the binding does not work. *)

\* `agent` would launch with a key that the console accepts.
Usable(h) == Cmd!Binding(h) \in Keys /\ keys[Cmd!Binding(h)].status = "active"
AllUsable == \A h \in Supported : Usable(h)

\* The user stays logged in on every host and selects none.
RepairInit == Init /\ selected = None /\ \A h \in Hosts : account[h] # None

Repair(p) ==
    /\ Begin(p)
    /\ job'[p].cmd = "regenerate"
    /\ ~Usable(Cmd!ResolvedHost(p)')

\* Anything else the user runs.  Bound: a key is left for each fault to come and
\* for the repair.
Use(p) ==
    /\ Cardinality(Cmd!Unused) > (MaxFaults - faults) + (IF AllUsable THEN 0 ELSE 1)
    /\ Begin(p)

RepairNext ==
    \/ \E p \in Procs : Repair(p) \/ Use(p) \/ Proceed(p)
    \/ Disturbance

\* No step of a command waits for another process, and a request that is not
\* answered fails (a fault).  The user may run other commands between repairs,
\* but not for ever.
RepairSpec ==
    /\ RepairInit
    /\ [][RepairNext]_vars
    /\ \A p \in Procs : WF_vars(Proceed(p)) /\ SF_vars(Repair(p))

\* From any damage, loss or revocation of its own the CLI finds its way out:
\* once faults have ended, the binding of every supported host works for good.
EventuallyUsable == <>[]AllUsable
=============================================================================
