----------------------------- MODULE AgentKeys -----------------------------
(***************************************************************************)
(* The agent-key lifecycle of the tokener CLI: the commands `agent`,       *)
(* `agent key login` and `agent key regenerate` (internal/agent/command.go,*)
(* keys.go, host.go, binding.go), run as concurrent processes of one user. *)
(* They share the console, which issues and revokes keys, the per-host     *)
(* binding files, the legacy agent-key.json and hosts.yml.  No lock is     *)
(* held by anyone, so every read and every request is a step of its own.   *)
(*                                                                         *)
(* `agent key status` only reads and is no action here.                    *)
(***************************************************************************)
EXTENDS Naturals, FiniteSets

CONSTANTS
    Procs,        \* slots for concurrently running tokener processes
    Commands,     \* the commands they may run
    Hosts,        \* normalised management hostnames
    DefaultHost,  \* defaultManagementHostname, console.tokener.dev
    Supported,    \* the hosts gatewayEndpointFor accepts
    Orgs,         \* accounts a credential of hosts.yml may belong to
    Keys,         \* the keys the console can ever issue (a bound)
    LegacyKeys,   \* those of them agent-key.json may hold at the start
    None,         \* no value: file not found, unset flag, no credential
    Damaged,      \* a binding file that Load reports as an error
    MaxFaults     \* bound on what may go wrong in one behaviour

AllCommands == {"agent", "login", "regenerate"}

ASSUME ConstantsAssumption ==
    /\ Commands \subseteq AllCommands
    /\ DefaultHost \in Supported
    /\ Supported \subseteq Hosts
    /\ LegacyKeys \subseteq Keys
    /\ None \notin Hosts \cup Orgs \cup Keys
    /\ Damaged \notin Keys \cup {None}
    /\ MaxFaults \in Nat

VARIABLES
    keys,       \* console: status, issuing host and account, id replied, of each key
    file,       \* the document of each per-host binding file
    legacy,     \* the document of the legacy agent-key.json, never written
    selected,   \* hosts.yml: the host `auth use` selected
    account,    \* hosts.yml: the account of each host's credential
    job,        \* what each running process has read and where it is
    installed,  \* history: the keys that were ever a binding
    stranded,   \* history: revoked bindings whose regenerate command died
    faults      \* history: how many things went wrong

vars == <<keys, file, legacy, selected, account, job, installed, stranded, faults>>
hostsFile == <<selected, account>>
history == <<installed, stranded, faults>>

Statuses == {"unused", "active", "retired", "withdrawn"}
Documents == Keys \cup {None, Damaged}
Pcs == {"idle", "engine", "hostname", "load", "legacy", "confirm", "target",
        "credential", "revoke", "create", "save", "launch"}

Idle == [pc |-> "idle", cmd |-> None, explicit |-> None, host |-> None,
         org |-> None, document |-> None, created |-> None]
Unissued == [status |-> "unused", host |-> None, org |-> None, hasId |-> FALSE]

KeyRecords == [status: Statuses, host: Hosts \cup {None}, org: Orgs \cup {None},
               hasId: BOOLEAN]
Jobs == [pc: Pcs, cmd: Commands \cup {None}, explicit: Hosts \cup {None},
         host: Hosts \cup {None}, org: Orgs \cup {None}, document: Documents,
         created: Keys \cup {None}]

TypeOK ==
    /\ keys \in [Keys -> KeyRecords]
    /\ file \in [Hosts -> Documents]
    /\ legacy \in LegacyKeys \cup {None, Damaged}
    /\ selected \in Hosts \cup {None}
    /\ account \in [Hosts -> Orgs \cup {None}]
    /\ job \in [Procs -> Jobs]
    /\ installed \subseteq Keys
    /\ stranded \subseteq Keys
    /\ faults \in 0..MaxFaults

-----------------------------------------------------------------------------
Unused == {k \in Keys : keys[k].status = "unused"}
Running == {p \in Procs : job[p].pc # "idle"}

\* What fileBinding.Load returns when nothing moves between its two reads.
Binding(h) == IF file[h] = None /\ h = DefaultHost THEN legacy ELSE file[h]

\* cmp.Or(--hostname, $TOKENER_HOST, hosts.Selected(), default).
ResolvedHost(p) ==
    IF job[p].explicit # None THEN job[p].explicit
    ELSE IF selected # None THEN selected ELSE DefaultHost

\* The console's answer to a revocation: another account's key, or one that
\* another host issued, is not found; one that is not active is revoked already.
RevokeAnswer(k, h, o) ==
    IF keys[k].host # h \/ keys[k].org # o THEN "api_key_not_found"
    ELSE IF keys[k].status # "active" THEN "api_key_revoked" ELSE "ok"

\* Mutant: only a key that does not exist counts as gone.
IsKeyAlreadyGoneNotFound(answer) == answer = "api_key_not_found"

IsKeyAlreadyGone(answer) == answer \in {"api_key_revoked", "api_key_not_found"}

\* Mutants: regenerate never revokes; login does not look whether a key exists.
AfterLoadNoRevoke(cmd, document) ==
    CASE cmd = "agent" /\ document \in Keys -> "launch"
      [] cmd = "agent" /\ document = None -> "confirm"
      [] cmd = "login" /\ document = None -> "create"
      [] cmd = "regenerate" -> "create"
      [] OTHER -> "idle"
AfterLoadLoginAlways(cmd, document) ==
    IF cmd = "login" /\ document # Damaged THEN "create" ELSE AfterLoadNoRevoke(cmd, document)

\* Where a command goes with what Load returned: runAgent launches, asks, or
\* reports the error; bindKey stops unless nothing is bound; revokeBoundKey
\* takes an error for "nothing bound" and cannot revoke a key without an id.
AfterLoad(cmd, document) ==
    CASE cmd = "agent" /\ document \in Keys -> "launch"
      [] cmd = "agent" /\ document = None -> "confirm"
      [] cmd = "login" /\ document = None -> "create"
      [] cmd = "regenerate" /\ document \in Keys /\ keys[document].hasId -> "revoke"
      [] cmd = "regenerate" /\ ~(document \in Keys /\ keys[document].hasId) -> "create"
      [] OTHER -> "idle"

\* The binding a regenerate command has revoked and not replaced yet.
Unreplaced(p) ==
    {k \in Keys : /\ job[p].cmd = "regenerate" /\ job[p].pc \in {"create", "save"}
                  /\ job[p].document = k /\ keys[k].status = "retired"}

Fault == faults < MaxFaults /\ faults' = faults + 1
Goto(p, step) == job' = [job EXCEPT ![p].pc = step]
Finish(p) == job' = [job EXCEPT ![p] = Idle]
Loaded(p, document) ==
    LET next == AfterLoad(job[p].cmd, document)
    IN  job' = [job EXCEPT ![p] = IF next = "idle" THEN Idle
                                  ELSE [@ EXCEPT !.pc = next, !.document = document]]

-----------------------------------------------------------------------------
\* A legacy binding is a key that the default host issued to some account; the
\* per-host files do not exist yet.
Init ==
    /\ legacy \in LegacyKeys \cup {None, Damaged}
    /\ \E o \in Orgs, hasId \in BOOLEAN :
         keys = [k \in Keys |->
                   IF k = legacy THEN [status |-> "active", host |-> DefaultHost,
                                       org |-> o, hasId |-> hasId]
                   ELSE Unissued]
    /\ file = [h \in Hosts |-> None]
    /\ selected \in Hosts \cup {None}
    /\ account \in [Hosts -> Orgs \cup {None}]
    /\ job = [p \in Procs |-> Idle]
    /\ installed = {legacy} \cap Keys
    /\ stranded = {}
    /\ faults = 0

\* The user starts a command, with a --hostname or TOKENER_HOST or without.
\* Bound: there is a key left for every running process.
Begin(p) ==
    /\ job[p].pc = "idle"
    /\ Cardinality(Unused) > Cardinality(Running)
    /\ \E cmd \in Commands, explicit \in Hosts \cup {None} :
         job' = [job EXCEPT ![p] = [Idle EXCEPT !.pc = "engine", !.cmd = cmd,
                                                !.explicit = explicit]]
    /\ UNCHANGED <<keys, file, legacy, hostsFile, history>>

\* engine.Resolve comes before any host or key handling in every command.
ResolveEngine(p) ==
    /\ job[p].pc = "engine"
    /\ Goto(p, IF job[p].cmd = "agent" THEN "hostname" ELSE "target")
    /\ UNCHANGED <<keys, file, legacy, hostsFile, history>>

\* resolveManagementHostname and gatewayEndpointFor, in runAgent before Load
\* ("hostname") and inside resolveAgentTarget ("target").
ResolveHostname(p) ==
    /\ \/ /\ ResolvedHost(p) \in Supported
          /\ \/ job[p].pc = "hostname"
                /\ job' = [job EXCEPT ![p].pc = "load", ![p].host = ResolvedHost(p)]
             \/ job[p].pc = "target"
                /\ job' = [job EXCEPT ![p].pc = "credential", ![p].host = ResolvedHost(p)]
       \/ /\ job[p].pc \in {"hostname", "target"}
          /\ ResolvedHost(p) \notin Supported
          /\ Finish(p)
    /\ UNCHANGED <<keys, file, legacy, hostsFile, history>>

\* resolveAgentTarget's second read of hosts.yml: the credential that every
\* later request of this command carries, whatever hosts.yml says by then.
ReadCredential(p) ==
    /\ job[p].pc = "credential"
    /\ LET org == account[job[p].host]
       IN  \/ org = None /\ Finish(p)
           \/ /\ org # None
              /\ job' = [job EXCEPT ![p].org = org,
                           ![p].pc = IF job[p].cmd = "agent" THEN "create" ELSE "load"]
    /\ UNCHANGED <<keys, file, legacy, hostsFile, history>>

\* Mutant: every host falls back to the legacy binding.
LoadHostFileLegacy(p) ==
    /\ job[p].pc = "load"
    /\ IF file[job[p].host] = None THEN Goto(p, "legacy") ELSE Loaded(p, file[job[p].host])
    /\ UNCHANGED <<keys, file, legacy, hostsFile, history>>

\* fileBinding.Load, first read: the per-host file.
LoadHostFile(p) ==
    /\ job[p].pc = "load"
    /\ LET document == file[job[p].host]
       IN  \/ document = None /\ job[p].host = DefaultHost /\ Goto(p, "legacy")
           \/ ~(document = None /\ job[p].host = DefaultHost) /\ Loaded(p, document)
    /\ UNCHANGED <<keys, file, legacy, hostsFile, history>>

\* fileBinding.Load, second read: agent-key.json, for the default host only.
LoadLegacyFile(p) ==
    /\ job[p].pc = "legacy"
    /\ Loaded(p, legacy)
    /\ UNCHANGED <<keys, file, legacy, hostsFile, history>>

\* runAgent asks on the terminal; the answer may take any time.
Confirm(p) ==
    /\ job[p].pc = "confirm"
    /\ \/ Goto(p, "target")
       \/ Finish(p)
    /\ UNCHANGED <<keys, file, legacy, hostsFile, history>>

\* Mutant: the error of the revocation is dropped.
RevokeBoundKeyUnchecked(p) ==
    /\ job[p].pc = "revoke"
    /\ \E answer \in {RevokeAnswer(job[p].document, job[p].host, job[p].org), "refused"} :
         /\ IF answer = "refused" THEN Fault ELSE UNCHANGED faults
         /\ keys' = IF answer = "ok"
                    THEN [keys EXCEPT ![job[p].document].status = "retired"] ELSE keys
    /\ Goto(p, "create")
    /\ UNCHANGED <<file, legacy, hostsFile, installed, stranded>>

\* revokeBoundKey's request and what it makes of the answer.  "refused" is any
\* other error the console may return.
RevokeBoundKey(p) ==
    /\ job[p].pc = "revoke"
    /\ \E answer \in {RevokeAnswer(job[p].document, job[p].host, job[p].org), "refused"} :
         /\ IF answer = "refused" THEN Fault ELSE UNCHANGED faults
         /\ keys' = IF answer = "ok"
                    THEN [keys EXCEPT ![job[p].document].status = "retired"] ELSE keys
         /\ IF answer = "ok" \/ IsKeyAlreadyGone(answer) THEN Goto(p, "create")
            ELSE Finish(p)
    /\ UNCHANGED <<file, legacy, hostsFile, installed, stranded>>

\* The console revokes the key and its reply is lost: the command reports an
\* error and leaves the revoked key bound.
RevokeReplyLost(p) ==
    /\ job[p].pc = "revoke"
    /\ RevokeAnswer(job[p].document, job[p].host, job[p].org) = "ok"
    /\ Fault
    /\ keys' = [keys EXCEPT ![job[p].document].status = "retired"]
    /\ stranded' = stranded \cup {job[p].document}
    /\ Finish(p)
    /\ UNCHANGED <<file, legacy, hostsFile, installed>>

Issued(p, hasId) ==
    [status |-> "active", host |-> job[p].host, org |-> job[p].org, hasId |-> hasId]

\* Mutants: a reply without a key is accepted; the host is resolved once more
\* for the request.
CreateKeyBlank(p) ==
    /\ job[p].pc = "create"
    /\ job' = [job EXCEPT ![p].pc = "save", ![p].created = None]
    /\ UNCHANGED <<keys, file, legacy, hostsFile, history>>
CreateKeyResolvesAgain(p) ==
    /\ job[p].pc = "create"
    /\ \E k \in Unused :
         /\ keys' = [keys EXCEPT ![k] = [Issued(p, TRUE) EXCEPT !.host = ResolvedHost(p)]]
         /\ job' = [job EXCEPT ![p].pc = "save", ![p].created = k]
    /\ UNCHANGED <<file, legacy, hostsFile, history>>

\* createKeyRequest.  It accepts a reply whose record has no id (a fault of the
\* console), and saves the key as one that cannot be revoked later.
CreateKey(p) ==
    /\ job[p].pc = "create"
    /\ \E k \in Unused, hasId \in BOOLEAN :
         /\ keys' = [keys EXCEPT ![k] = Issued(p, hasId)]
         /\ job' = [job EXCEPT ![p].pc = "save", ![p].created = k]
         /\ IF hasId THEN UNCHANGED faults ELSE Fault
    /\ UNCHANGED <<file, legacy, hostsFile, installed, stranded>>

\* The console issues the key and the reply is lost, cannot be decoded or
\* carries no key: the command stops and nobody knows the key.
CreateReplyLost(p) ==
    /\ job[p].pc = "create"
    /\ Fault
    /\ \E k \in Unused : keys' = [keys EXCEPT ![k] = Issued(p, TRUE)]
    /\ stranded' = stranded \cup Unreplaced(p)
    /\ Finish(p)
    /\ UNCHANGED <<file, legacy, hostsFile, installed>>

\* Mutant: a binding file that exists is not replaced.
SaveBindingIfAbsent(p) ==
    /\ job[p].pc = "save"
    /\ file' = IF file[job[p].host] = None
               THEN [file EXCEPT ![job[p].host] = job[p].created] ELSE file
    /\ installed' = installed \cup {job[p].created}
    /\ Finish(p)
    /\ UNCHANGED <<keys, legacy, hostsFile, stranded, faults>>

\* fileBinding.Save: the rename replaces the whole document.  That the Chmod
\* after it may fail changes the exit status only.
SaveBinding(p) ==
    /\ job[p].pc = "save"
    /\ file' = [file EXCEPT ![job[p].host] = job[p].created]
    /\ installed' = installed \cup {job[p].created}
    /\ Finish(p)
    /\ UNCHANGED <<keys, legacy, hostsFile, stranded, faults>>

\* The engine replaces the process (or runs as its child), with the key of the
\* loaded document and the gateway of the resolved host.
Launch(p) ==
    /\ job[p].pc = "launch"
    /\ Finish(p)
    /\ UNCHANGED <<keys, file, legacy, hostsFile, history>>

\* A command is killed, or a step of it fails without an effect.
Interrupt(p) ==
    /\ job[p].pc # "idle"
    /\ Fault
    /\ stranded' = stranded \cup Unreplaced(p)
    /\ Finish(p)
    /\ UNCHANGED <<keys, file, legacy, hostsFile, installed>>

-----------------------------------------------------------------------------
(* Outside the commands: `auth use`, `auth login` and `auth logout`, a file  *)
(* damaged on disk, a key the user revokes at the console.                   *)

AuthUse(h) ==
    /\ selected # h
    /\ selected' = h
    /\ UNCHANGED <<keys, file, legacy, account, job, history>>

AuthLogin(h, org) ==
    /\ account[h] # org
    /\ account' = [account EXCEPT ![h] = org]
    /\ UNCHANGED <<keys, file, legacy, selected, job, history>>

DamageBinding(h) ==
    /\ file[h] \in Keys
    /\ Fault
    /\ file' = [file EXCEPT ![h] = Damaged]
    /\ UNCHANGED <<keys, legacy, hostsFile, job, installed, stranded>>

WithdrawKey(k) ==
    /\ keys[k].status = "active"
    /\ Fault
    /\ keys' = [keys EXCEPT ![k].status = "withdrawn"]
    /\ UNCHANGED <<file, legacy, hostsFile, job, installed, stranded>>

Step(p) ==
    \/ ResolveEngine(p) \/ ResolveHostname(p) \/ ReadCredential(p)
    \/ LoadHostFile(p) \/ LoadLegacyFile(p) \/ Confirm(p)
    \/ RevokeBoundKey(p) \/ CreateKey(p) \/ SaveBinding(p) \/ Launch(p)

Failure(p) == RevokeReplyLost(p) \/ CreateReplyLost(p) \/ Interrupt(p)

Accident ==
    \/ \E h \in Hosts : DamageBinding(h)
    \/ \E k \in Keys : WithdrawKey(k)

Authentication ==
    \/ \E h \in Hosts : AuthUse(h)
    \/ \E h \in Hosts, org \in Orgs \cup {None} : AuthLogin(h, org)

Next ==
    \/ \E p \in Procs : Begin(p) \/ Step(p) \/ Failure(p)
    \/ Accident
    \/ Authentication

Spec == Init /\ [][Next]_vars

\* The behaviours in which no `auth use` switches the host between the two times
\* that `agent` resolves it: before its prompt and after it.
SelectionStays ==
    (\E p \in Procs : /\ job[p].cmd = "agent"
                     /\ job[p].pc \in {"load", "legacy", "confirm", "target"})
      => selected' = selected

SteadySpec == Init /\ [][Next /\ SelectionStays]_vars

-----------------------------------------------------------------------------
(* Safety.                                                                   *)

\* A binding file holds a key that the console of its own host issued, and so
\* do the key about to be saved and the key the engine is about to be launched
\* with against that host's gateway (README: "Agent keys stay in per-host
\* config files"), whatever `auth use` does while a command is running.
HostIsolation ==
    /\ \A h \in Hosts : file[h] \in Keys => keys[file[h]].host = h
    /\ \A p \in Procs :
         /\ job[p].pc = "save" => keys[job[p].created].host = job[p].host
         /\ job[p].pc = "launch" => keys[job[p].document].host = job[p].host

\* A key that the CLI has revoked and `agent` would still use on h is one that a
\* regenerate command has revoked and not replaced yet, or died before it could.
HasOwner(h) ==
    Binding(h) \in Keys /\ keys[Binding(h)].status = "retired"
      => \/ Binding(h) \in stranded
         \/ \E p \in Procs : job[p].host = h /\ Binding(h) \in Unreplaced(p)

\* When the key `agent` would use on a host has been revoked by the CLI, some
\* regenerate command is still between its revocation and the save of the
\* replacement, or one died there: however many commands run, no revoked key
\* stays bound behind the back of commands that succeeded.
RevokedBindingHasOwner == \A h \in Hosts : HasOwner(h)

\* Some step replaces the binding file of p's host by the key p created.
Saves(p) == job[p].pc = "save" /\ job'[p] = Idle /\ file' # file

\* A Save that replaces an active key does so for one of three reasons: the
\* binding changed after this command read it, the key has no recorded id (the
\* user is told), or it belongs to another account than the one logged in.
ReplacesRevokedKey(p) ==
    LET k == Binding(job[p].host)
    IN  Saves(p) /\ k \in Keys /\ keys[k].status = "active"
          => \/ job[p].document # k
             \/ ~keys[k].hasId
             \/ keys[k].org # job[p].org

ReplacedKeyWasRevoked == [][\A p \in Procs : ReplacesRevokedKey(p)]_vars

\* `login`: "Create and bind an agent key when none is configured".  Neither
\* it nor the creation that `agent` offers replaces a binding that is there.
\* `agent` looks for a binding on the host it resolved before its prompt and
\* creates one on the host it resolves after it, so the latter part is for
\* behaviours of SteadySpec.
CreatesOnlyWhenNoneConfigured ==
    [][\A p \in Procs :
         Saves(p) /\ job[p].cmd # "regenerate" => Binding(job[p].host) = None]_vars

\* `regenerate`: "Revoke the bound agent key and bind a new one".  Once it has
\* bound the new key, no key bound before on this host for this account is
\* active any more, except one without an id (for which the user is told).
RegenerateRevokesBoundKey ==
    [][\A p \in Procs :
         Saves(p) /\ job[p].cmd = "regenerate"
           => \A k \in installed :
                keys[k].host = job[p].host /\ keys[k].org = job[p].org /\ keys[k].hasId
                  => keys[k].status # "active"]_vars

\* With one command at a time and one account, a host has at most one active key,
\* one more for each thing that went wrong and the legacy key when it has no id:
\* repeated commands do not pile up live credentials.  (A key of an account that
\* logged out is out of reach of `regenerate`: with two accounts this is false.)
ActiveKeysBounded ==
    \A h \in Hosts, o \in Orgs :
      Cardinality({k \in Keys : /\ keys[k].status = "active"
                                /\ keys[k].host = h /\ keys[k].org = o})
        <= 1 + faults + Cardinality({k \in Keys : k = legacy /\ ~keys[k].hasId})

-----------------------------------------------------------------------------
(* The inductive invariant behind the safety properties: where a key can be  *)
(* referred to from, by which command and at which step.                     *)

JobShape ==
    \A p \in Procs :
      /\ job[p].pc \in {"credential", "load", "legacy", "revoke", "create", "save", "launch"}
           => job[p].host \in Hosts
      /\ job[p].pc = "legacy" => job[p].host = DefaultHost
      /\ job[p].pc = "revoke" => job[p].cmd = "regenerate"
      /\ job[p].pc \in {"revoke", "launch"} => job[p].document \in Keys
      /\ job[p].document \in Keys
           => \/ job[p].pc \in {"revoke", "launch"}
              \/ job[p].pc \in {"create", "save"} /\ job[p].cmd = "regenerate"

\* A created key is known to its command alone until it is saved.
CreatedFresh ==
    \A p \in Procs : job[p].pc = "save" =>
      /\ job[p].created \in Keys \ installed
      /\ keys[job[p].created].status \in {"active", "withdrawn"}
      /\ keys[job[p].created].host = job[p].host
      /\ \A q \in Procs \ {p} : job[q].pc = "save" => job[q].created # job[p].created

DocumentInstalled ==
    \A p \in Procs : job[p].document \in Keys =>
      /\ job[p].document \in installed
      /\ keys[job[p].document].host = job[p].host

BindingInstalled ==
    /\ \A h \in Hosts : file[h] \in Keys => file[h] \in installed /\ keys[file[h]].host = h
    /\ legacy \in Keys => legacy \in installed /\ keys[legacy].host = DefaultHost
    /\ \A k \in installed : keys[k].status # "unused"

\* What a regenerate command read is revoked by the time it creates a key.
RevokedFirst ==
    \A p \in Procs :
      job[p].pc \in {"create", "save"} /\ job[p].document \in Keys
        => \/ keys[job[p].document].status # "active"
           \/ ~keys[job[p].document].hasId
           \/ keys[job[p].document].org # job[p].org

\* What holds whatever is the cause of a revoked binding.
CoreInv ==
    /\ TypeOK
    /\ JobShape
    /\ CreatedFresh
    /\ DocumentInstalled
    /\ BindingInstalled
    /\ RevokedFirst

IInv == CoreInv /\ RevokedBindingHasOwner

-----------------------------------------------------------------------------
(* The invariants behind ActiveKeysBounded and CreatesOnlyWhenNoneConfigured,  *)
(* which are for one command at a time.                                        *)

\* One command at a time.
OneCommand == \A p, q \in Procs : p = q

OneAccount == \A o, q \in Orgs : o = q

\* What a command has read still holds, until it saves or the file is damaged, and
\* one that revokes or creates a key has read whose it is.
ReadStays ==
    \A p \in Procs :
      /\ job[p].pc # "idle" => job[p].cmd \in Commands
      /\ job[p].pc = "hostname" => job[p].cmd = "agent"
      /\ job[p].pc \in {"revoke", "create", "save"} => job[p].org \in Orgs
      /\ job[p].pc \in {"load", "legacy"} /\ job[p].cmd # "agent" => job[p].org \in Orgs
      /\ job[p].pc = "legacy" => file[job[p].host] = None
      /\ job[p].cmd = "login" /\ job[p].pc \in {"create", "save"}
           => Binding(job[p].host) = None
      /\ job[p].cmd = "agent" /\ job[p].pc \in {"load", "legacy", "confirm", "target"}
           => job[p].host = ResolvedHost(p)
      /\ job[p].cmd = "agent" /\ job[p].pc \in {"confirm", "target", "credential", "create", "save"}
           => Binding(job[p].host) = None
      /\ job[p].cmd = "regenerate" /\ job[p].pc \in {"revoke", "create", "save"}
           => Binding(job[p].host) \in {job[p].document, Damaged}

\* The console issues keys to accounts, all of them known.
OfAccounts == \A k \in Keys : keys[k].status # "unused" => keys[k].org \in Orgs

\* The live keys that no regenerate will revoke: without an id, or neither bound
\* nor about to be.
Surplus(h) ==
    {k \in Keys :
       /\ keys[k].status = "active" /\ keys[k].host = h
       /\ \/ ~keys[k].hasId
          \/ k # Binding(h) /\ \A p \in Procs : job[p].pc = "save" => job[p].created # k}

LegacyWithoutId == {k \in Keys : k = legacy /\ ~keys[k].hasId}

\* Each of them is explained by something that went wrong, or is the legacy key.
SurplusExplained ==
    \A h \in Hosts :
      /\ IsFiniteSet(Surplus(h))
      /\ Cardinality(Surplus(h)) <= faults + Cardinality(LegacyWithoutId)

OneCommandInv == ReadStays /\ OfAccounts /\ SurplusExplained

-----------------------------------------------------------------------------
(* What the commands promise together, see KeyLifecycle.                     *)

Lifecycle == INSTANCE KeyLifecycle WITH
    status <- [k \in Keys |-> keys[k].status],
    issuer <- [k \in Keys |-> keys[k].host],
    binding <- file,
    used <- installed

\* The commands, however they interleave and fail, implement KeyLifecycle.
ImplementsLifecycle == Lifecycle!Spec
=============================================================================
