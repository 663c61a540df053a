-------------------------- MODULE OneCommandProofs --------------------------
(***************************************************************************)
(* What holds of AgentKeys when commands run one at a time: they create    *)
(* keys where none is bound, and live keys do not pile up.                 *)
(***************************************************************************)
EXTENDS AgentKeysProofs, FiniteSetTheorems

-----------------------------------------------------------------------------
(* What a command has read stays so.                                         *)

HostFor(explicit) ==
    IF explicit # None THEN explicit ELSE IF selected # None THEN selected ELSE DefaultHost

\* The condition under which the only command may be in state r.
Holds(r) ==
    /\ r.pc # "idle" => r.cmd \in Commands
    /\ r.pc = "hostname" => r.cmd = "agent"
    /\ r.pc \in {"revoke", "create", "save"} => r.org \in Orgs
    /\ r.pc \in {"load", "legacy"} /\ r.cmd # "agent" => r.org \in Orgs
    /\ r.pc = "legacy" => file[r.host] = None
    /\ r.cmd = "login" /\ r.pc \in {"create", "save"} => Binding(r.host) = None
    /\ r.cmd = "agent" /\ r.pc \in {"load", "legacy", "confirm", "target"}
         => r.host = HostFor(r.explicit)
    /\ r.cmd = "agent" /\ r.pc \in {"confirm", "target", "credential", "create", "save"}
         => Binding(r.host) = None
    /\ r.cmd = "regenerate" /\ r.pc \in {"revoke", "create", "save"}
         => Binding(r.host) \in {r.document, Damaged}

LEMMA HoldsForAll == ReadStays <=> \A p \in Procs : Holds(job[p])
BY DEF ReadStays, Holds, HostFor, ResolvedHost

LEMMA ReadStep ==
    ASSUME OneCommand, CoreInv, NEW p \in Procs, NEW r, job' = [job EXCEPT ![p] = r],
           r = Idle \/ (Holds(r) /\ UNCHANGED <<file, legacy, selected>>)
    PROVE  ReadStays'
<1>1. SUFFICES ASSUME NEW q \in Procs PROVE Holds(job[q])'
      BY DEF ReadStays, Holds, HostFor, ResolvedHost
<1>2. job'[q] = r
      BY DEF OneCommand, CoreInv, TypeOK
<1>3. CASE r = Idle
      BY <1>2, <1>3 DEF Holds, Idle
<1>4. CASE Holds(r) /\ UNCHANGED <<file, legacy, selected>>
      BY <1>2, <1>4 DEF Holds, Binding, HostFor
<1> QED BY <1>3, <1>4

LEMMA ReadStill ==
    ASSUME ReadStays, UNCHANGED <<file, legacy, job>>, SelectionStays PROVE ReadStays'
<1>1. SUFFICES ASSUME NEW p \in Procs, Holds(job[p]) PROVE Holds(job[p])'
      BY HoldsForAll DEF ReadStays, Holds, HostFor, ResolvedHost
<1>2. \A h : Binding(h)' = Binding(h)
      BY DEF Binding
<1>3. job[p].cmd = "agent" /\ job[p].pc \in {"load", "legacy", "confirm", "target"}
        => job[p].host = HostFor(job[p].explicit)'
      BY <1>1 DEF SelectionStays, Holds, HostFor
<1> QED BY <1>1, <1>2, <1>3 DEF Holds

\* Load tells the command what is bound.
LEMMA LoadedHolds ==
    ASSUME OneCommand, CoreInv, NEW p \in Procs, Holds(job[p]), NEW document \in Documents,
           job[p].pc \in {"load", "legacy"}, Loaded(p, document),
           document = Binding(job[p].host)
    PROVE  \E r : job' = [job EXCEPT ![p] = r] /\ (r = Idle \/ Holds(r))
<1> DEFINE next == AfterLoad(job[p].cmd, document)
           r == IF next = "idle" THEN Idle
                ELSE [job[p] EXCEPT !.pc = next, !.document = document]
<1>1. job[p] \in Jobs /\ job[p].cmd \in Commands /\ job[p].host \in Hosts
      BY DEF CoreInv, TypeOK, JobShape, Holds
<1>2. job' = [job EXCEPT ![p] = r]
      BY DEF Loaded, CoreInv, TypeOK
<1>3. /\ next \notin {"hostname", "load", "legacy"}
      /\ job[p].cmd = "login" => next \in {"create", "idle"} /\ (next = "create" => document = None)
      /\ job[p].cmd = "agent" => next \in {"launch", "confirm", "idle"}
                                 /\ (next = "confirm" => document = None)
      BY <1>1 DEF AfterLoad, AllCommands
<1> HIDE DEF next
<1>4. next # "idle" => /\ r.pc = next /\ r.cmd = job[p].cmd
                       /\ r.host = job[p].host /\ r.org = job[p].org /\ r.document = document
                       /\ r.explicit = job[p].explicit
      BY <1>1 DEF Jobs
<1>5. next = "idle" => r = Idle
      OBVIOUS
<1> HIDE DEF r
<1>6. next # "idle" => Holds(r)
      BY <1>1, <1>3, <1>4 DEF Holds
<1> QED BY <1>2, <1>5, <1>6

LEMMA CommandHolds ==
    ASSUME OneCommand, CoreInv, NEW p \in Procs, Holds(job[p]), Begin(p) \/ Step(p) \/ Failure(p)
    PROVE  \E r : job' = [job EXCEPT ![p] = r] /\ (r = Idle \/ (Holds(r) /\ UNCHANGED <<file, legacy, selected>>))
<1>1. job \in [Procs -> Jobs] /\ job[p] \in Jobs
      BY DEF CoreInv, TypeOK
<1>2. CASE job' = [job EXCEPT ![p] = Idle]
      BY <1>2
<1>3. CASE Begin(p)
  <2>1. PICK cmd \in Commands, explicit \in Hosts \cup {None} :
          job' = [job EXCEPT ![p] = [Idle EXCEPT !.pc = "engine", !.cmd = cmd, !.explicit = explicit]]
        BY <1>3 DEF Begin
  <2> DEFINE r == [Idle EXCEPT !.pc = "engine", !.cmd = cmd, !.explicit = explicit]
  <2>2. r.pc = "engine" /\ r.cmd = cmd
        BY DEF Idle
  <2>3. Holds(r)
        BY <2>2 DEF Holds
  <2> QED BY <1>3, <2>1, <2>3 DEF Begin, hostsFile
<1>4. CASE ResolveEngine(p)
  <2> DEFINE r == [job[p] EXCEPT !.pc = IF job[p].cmd = "agent" THEN "hostname" ELSE "target"]
  <2>1. job' = [job EXCEPT ![p] = r] /\ UNCHANGED <<file, legacy, selected>> /\ job[p].pc = "engine"
        BY <1>1, <1>4 DEF ResolveEngine, Goto, hostsFile
  <2>2. r.pc = (IF job[p].cmd = "agent" THEN "hostname" ELSE "target") /\ r.cmd = job[p].cmd
        BY <1>1 DEF Jobs
  <2> HIDE DEF r
  <2>3. Holds(r)
        BY <2>1, <2>2 DEF Holds
  <2> QED BY <2>1, <2>3
<1>5. CASE ResolveHostname(p)
  <2>1. PICK pc \in {"load", "credential"} :
          \/ job' = [job EXCEPT ![p] = Idle]
          \/ /\ job' = [job EXCEPT ![p] = [job[p] EXCEPT !.pc = pc, !.host = ResolvedHost(p)]]
             /\ pc = "load" <=> job[p].pc = "hostname"
             /\ pc = "credential" <=> job[p].pc = "target"
        BY <1>1, <1>5 DEF ResolveHostname, Finish
  <2> DEFINE r == [job[p] EXCEPT !.pc = pc, !.host = ResolvedHost(p)]
  <2>2. /\ r.pc = pc /\ r.cmd = job[p].cmd /\ r.explicit = job[p].explicit
        /\ r.host = HostFor(r.explicit)
        BY <1>1 DEF Jobs, HostFor, ResolvedHost
  <2>3. CASE job' = [job EXCEPT ![p] = r] /\ (pc = "credential" <=> job[p].pc = "target")
    <3> HIDE DEF r
    <3>1. job[p].pc \in {"hostname", "target"} /\ UNCHANGED <<file, legacy, selected>>
          BY <1>5 DEF ResolveHostname, hostsFile
    <3>2. Holds(r)
          BY <2>1, <2>2, <2>3, <3>1 DEF Holds
    <3> QED BY <2>3, <3>1, <3>2
  <2> QED BY <2>1, <2>3, <1>2
<1>6. CASE ReadCredential(p)
  <2> DEFINE org == account[job[p].host]
             r == [job[p] EXCEPT !.org = org, !.pc = IF job[p].cmd = "agent" THEN "create" ELSE "load"]
  <2>1. \/ job' = [job EXCEPT ![p] = Idle]
        \/ job' = [job EXCEPT ![p] = r] /\ org \in Orgs
    <3>1. job[p].host \in Hosts /\ account[job[p].host] \in Orgs \cup {None}
          BY <1>6 DEF ReadCredential, CoreInv, TypeOK, JobShape
    <3> QED BY <1>1, <1>6, <3>1 DEF ReadCredential, Finish
  <2>2. /\ r.pc = (IF job[p].cmd = "agent" THEN "create" ELSE "load")
        /\ r.cmd = job[p].cmd /\ r.org = org
        /\ r.host = job[p].host /\ r.explicit = job[p].explicit
        BY <1>1 DEF Jobs
  <2>3. job[p].pc = "credential" /\ UNCHANGED <<file, legacy, selected>>
        BY <1>6 DEF ReadCredential, hostsFile
  <2> HIDE DEF r, org
  <2>4. org \in Orgs => Holds(r)
        BY <2>2, <2>3 DEF Holds
  <2> QED BY <1>2, <2>1, <2>3, <2>4
<1>7. CASE LoadHostFile(p) \/ LoadLegacyFile(p)
  <2>1. UNCHANGED <<file, legacy, selected>> /\ job[p].pc \in {"load", "legacy"} /\ job[p].host \in Hosts
        BY <1>7 DEF LoadHostFile, LoadLegacyFile, CoreInv, JobShape, hostsFile
  <2>2. CASE /\ job[p].pc = "load" /\ Goto(p, "legacy") /\ file[job[p].host] = None
    <3> DEFINE r == [job[p] EXCEPT !.pc = "legacy"]
    <3>1. /\ job' = [job EXCEPT ![p] = r] /\ r.pc = "legacy"
          /\ r.host = job[p].host /\ r.cmd = job[p].cmd /\ r.org = job[p].org
          /\ r.explicit = job[p].explicit
          BY <1>1, <2>2 DEF Goto, Jobs
    <3> HIDE DEF r
    <3>2. Holds(r)
          BY <2>2, <3>1 DEF Holds
    <3> QED BY <2>1, <3>1, <3>2
  <2>3. CASE \E document \in Documents : Loaded(p, document) /\ document = Binding(job[p].host)
        BY <2>1, <2>3, LoadedHolds
  <2>4. CASE LoadHostFile(p)
    <3>1. file[job[p].host] \in Documents
          BY <2>1 DEF CoreInv, TypeOK
    <3>2. CASE Loaded(p, file[job[p].host]) /\ ~(file[job[p].host] = None /\ job[p].host = DefaultHost)
          BY <2>3, <3>1, <3>2 DEF Binding
    <3> QED BY <2>2, <2>4, <3>2 DEF LoadHostFile
  <2>5. CASE LoadLegacyFile(p)
    <3>1. legacy \in Documents
          BY ConstantsAssumption DEF CoreInv, TypeOK, Documents
    <3>2. job[p].pc = "legacy" /\ job[p].host = DefaultHost /\ file[job[p].host] = None
          BY <2>5 DEF LoadLegacyFile, CoreInv, JobShape, Holds
    <3> QED BY <2>3, <2>5, <3>1, <3>2 DEF LoadLegacyFile, Binding
  <2> QED BY <1>7, <2>4, <2>5
<1>8. CASE Confirm(p) /\ Goto(p, "target")
  <2> DEFINE r == [job[p] EXCEPT !.pc = "target"]
  <2>1. job' = [job EXCEPT ![p] = r] /\ r.pc = "target" /\ r.cmd = job[p].cmd
        /\ r.host = job[p].host /\ r.explicit = job[p].explicit
        BY <1>1, <1>8 DEF Goto, Jobs
  <2>2. job[p].pc = "confirm" /\ UNCHANGED <<file, legacy, selected>>
        BY <1>8 DEF Confirm, hostsFile
  <2> HIDE DEF r
  <2>3. Holds(r)
        BY <2>1, <2>2 DEF Holds
  <2> QED BY <2>1, <2>2, <2>3
<1>9. CASE RevokeBoundKey(p) /\ Goto(p, "create")
  <2> DEFINE r == [job[p] EXCEPT !.pc = "create"]
  <2>1. /\ job' = [job EXCEPT ![p] = r] /\ r.pc = "create" /\ r.cmd = job[p].cmd
        /\ r.host = job[p].host /\ r.org = job[p].org /\ r.document = job[p].document
        BY <1>1, <1>9 DEF Goto, Jobs
  <2>2. job[p].pc = "revoke" /\ job[p].cmd = "regenerate" /\ UNCHANGED <<file, legacy, selected>>
        BY <1>9 DEF RevokeBoundKey, CoreInv, JobShape, hostsFile
  <2> HIDE DEF r
  <2>3. Holds(r)
        BY <2>1, <2>2 DEF Holds
  <2> QED BY <2>1, <2>2, <2>3
<1>10. CASE CreateKey(p)
  <2>1. PICK k \in Unused : job' = [job EXCEPT ![p].pc = "save", ![p].created = k]
        BY <1>10 DEF CreateKey
  <2> DEFINE r == [job[p] EXCEPT !.pc = "save", !.created = k]
  <2>2. /\ job' = [job EXCEPT ![p] = r] /\ r.pc = "save" /\ r.cmd = job[p].cmd
        /\ r.host = job[p].host /\ r.org = job[p].org /\ r.document = job[p].document
        BY <1>1, <2>1 DEF Jobs
  <2>3. job[p].pc = "create" /\ UNCHANGED <<file, legacy, selected>>
        BY <1>10 DEF CreateKey, hostsFile
  <2> HIDE DEF r
  <2>4. Holds(r)
        BY <2>2, <2>3 DEF Holds
  <2> QED BY <2>2, <2>3, <2>4
<1>11. CASE \/ (Confirm(p) \/ RevokeBoundKey(p)) /\ Finish(p)
            \/ SaveBinding(p) \/ Launch(p) \/ Failure(p)
  <2>1. Finish(p)
        BY <1>11 DEF SaveBinding, Launch, Failure, RevokeReplyLost, CreateReplyLost, Interrupt
  <2> QED BY <1>2, <2>1 DEF Finish
<1>12. Confirm(p) => Goto(p, "target") \/ Finish(p)
      BY DEF Confirm
<1>13. RevokeBoundKey(p) => Goto(p, "create") \/ Finish(p)
      BY DEF RevokeBoundKey
<1> QED BY <1>3, <1>4, <1>5, <1>6, <1>7, <1>8, <1>9, <1>10, <1>11, <1>12, <1>13 DEF Step

LEMMA DamageRead ==
    ASSUME CoreInv, ReadStays, NEW h \in Hosts, DamageBinding(h) PROVE ReadStays'
<1>1. /\ file[h] \in Keys /\ file' = [file EXCEPT ![h] = Damaged]
      /\ UNCHANGED <<legacy, job, selected>>
      BY DEF DamageBinding, hostsFile
<1>2. \A g \in Hosts : /\ file'[g] = IF g = h THEN Damaged ELSE file[g]
                       /\ Binding(g)' = IF g = h THEN Damaged ELSE Binding(g)
      BY <1>1, ConstantsAssumption DEF Binding, CoreInv, TypeOK
<1>3. Binding(h) # None /\ file[h] # None
      BY <1>1, ConstantsAssumption DEF Binding
<1>4. \A p \in Procs : job[p].pc \in {"legacy", "revoke", "create", "save"} => job[p].host \in Hosts
      BY DEF CoreInv, JobShape
<1>5. SUFFICES ASSUME NEW p \in Procs, Holds(job[p]) PROVE Holds(job[p])'
      BY HoldsForAll DEF ReadStays, Holds, HostFor, ResolvedHost
<1>6. /\ job[p].pc = "legacy" => file'[job[p].host] = None
      /\ job[p].cmd = "login" /\ job[p].pc \in {"create", "save"} => Binding(job[p].host)' = None
      BY <1>1, <1>2, <1>3, <1>4, <1>5 DEF Holds
<1>7. job[p].cmd = "agent" /\ job[p].pc \in {"confirm", "target", "credential", "create", "save"}
        => Binding(job[p].host)' = None
      BY <1>1, <1>3, <1>5 DEF Holds, Binding
<1>8. job[p].cmd = "regenerate" /\ job[p].pc \in {"revoke", "create", "save"}
        => Binding(job[p].host)' \in {job[p].document, Damaged}
      BY <1>1, <1>2, <1>4, <1>5 DEF Holds
<1> QED BY <1>1, <1>5, <1>6, <1>7, <1>8 DEF Holds, HostFor

LEMMA ReadNext ==
    ASSUME OneCommand, CoreInv, ReadStays, [Next /\ SelectionStays]_vars PROVE ReadStays'
<1>1. CASE \E p \in Procs : Begin(p) \/ Step(p) \/ Failure(p)
  <2>1. PICK p \in Procs : Begin(p) \/ Step(p) \/ Failure(p)
        BY <1>1
  <2>2. Holds(job[p])
        BY HoldsForAll
  <2>3. PICK r : /\ job' = [job EXCEPT ![p] = r]
                 /\ r = Idle \/ (Holds(r) /\ UNCHANGED <<file, legacy, selected>>)
        BY <2>1, <2>2, CommandHolds
  <2> QED BY <2>3, ReadStep
<1>2. CASE \E h \in Hosts : DamageBinding(h)
      BY <1>2, DamageRead
<1>3. CASE (\E k \in Keys : WithdrawKey(k)) \/ Authentication \/ UNCHANGED vars
  <2>1. UNCHANGED <<file, legacy, job>> /\ SelectionStays
        BY <1>3 DEF WithdrawKey, Authentication, AuthUse, AuthLogin, vars, SelectionStays
  <2> QED BY <2>1, ReadStill
<1> QED BY <1>1, <1>2, <1>3 DEF Next, Accident

LEMMA ReadInit == ASSUME Init PROVE ReadStays
BY DEF Init, Idle, ReadStays

\* SteadySpec has fewer behaviours than Spec, so what is invariant of it stays so.
LEMMA SteadyInvariance == SteadySpec => []IInv
<1>1. SteadySpec => Spec
  <2>1. [Next /\ SelectionStays]_vars => [Next]_vars
        OBVIOUS
  <2> QED BY <2>1, PTL DEF SteadySpec, Spec
<1> QED BY <1>1, Invariance, PTL

LEMMA ReadInvariance == ASSUME OneCommand PROVE SteadySpec => []ReadStays
<1>1. IInv /\ ReadStays /\ [Next /\ SelectionStays]_vars => ReadStays'
      BY ReadNext DEF IInv
<1> QED BY <1>1, ReadInit, SteadyInvariance, PTL DEF SteadySpec

\* With one command at a time, on any hosts, `login` and the creation that `agent`
\* offers replace no binding that is there, unless `auth use` switches the host
\* between the two times that `agent` resolves it.
THEOREM CreatesWhereNoneIs ==
    ASSUME OneCommand PROVE SteadySpec => CreatesOnlyWhenNoneConfigured
<1> DEFINE Creates == \A p \in Procs :
             Saves(p) /\ job[p].cmd # "regenerate" => Binding(job[p].host) = None
<1>1. IInv /\ ReadStays => Creates
  <2> SUFFICES ASSUME CoreInv, ReadStays, NEW p \in Procs, job[p].pc = "save",
                      job[p].cmd # "regenerate"
               PROVE  Binding(job[p].host) = None
      BY DEF IInv, Saves
  <2>1. job[p].cmd \in {"agent", "login"} /\ job[p].host \in Hosts
        BY ConstantsAssumption DEF ReadStays, AllCommands, CoreInv, JobShape
  <2> QED BY <2>1 DEF ReadStays
<1>2. IInv /\ ReadStays => [Creates]_vars
      BY <1>1
<1> QED BY <1>2, ReadInvariance, SteadyInvariance, PTL DEF CreatesOnlyWhenNoneConfigured

-----------------------------------------------------------------------------
(* Live keys that no regenerate will revoke.                                 *)

\* The arithmetic: each step adds at most one key to a host's surplus, and adds
\* one only when something goes wrong.
LEMMA StaysExplained ==
    ASSUME SurplusExplained, IsFiniteSet(LegacyWithoutId), LegacyWithoutId' = LegacyWithoutId,
           faults \in Nat, faults' \in Nat,
           \A h \in Hosts :
             \/ Surplus(h)' \subseteq Surplus(h) /\ faults' >= faults
             \/ (\E k : Surplus(h)' \subseteq Surplus(h) \cup {k}) /\ faults' = faults + 1
    PROVE  SurplusExplained'
<1> DEFINE n == Cardinality(LegacyWithoutId)
<1>1. n \in Nat /\ n' = n
      BY FS_CardinalityType
<1> HIDE DEF n
<1>2. SUFFICES ASSUME NEW h \in Hosts
               PROVE  IsFiniteSet(Surplus(h)') /\ Cardinality(Surplus(h)') <= faults' + n
      BY <1>1 DEF SurplusExplained, n
<1> DEFINE S == Surplus(h)
           T == Surplus(h)'
<1>3. IsFiniteSet(S) /\ Cardinality(S) \in Nat /\ Cardinality(S) <= faults + n
      BY FS_CardinalityType DEF SurplusExplained, n
<1>4. \/ T \subseteq S /\ faults' >= faults
      \/ (\E k : T \subseteq S \cup {k}) /\ faults' = faults + 1
      OBVIOUS
<1> HIDE DEF S, T
<1>5. CASE T \subseteq S /\ faults' >= faults
  <2>1. IsFiniteSet(T) /\ Cardinality(T) <= Cardinality(S) /\ Cardinality(T) \in Nat
        BY <1>3, <1>5, FS_Subset, FS_CardinalityType
  <2> QED BY <1>1, <1>3, <1>5, <2>1 DEF T
<1>6. CASE (\E k : T \subseteq S \cup {k}) /\ faults' = faults + 1
  <2>1. PICK k : T \subseteq S \cup {k}
        BY <1>6
  <2>2. IsFiniteSet(S \cup {k}) /\ Cardinality(S \cup {k}) <= Cardinality(S) + 1
    <3>1. /\ IsFiniteSet(S \cup {k})
          /\ Cardinality(S \cup {k}) = IF k \in S THEN Cardinality(S) ELSE Cardinality(S) + 1
          BY <1>3, FS_AddElement, Zenon
    <3> QED BY <1>3, <3>1
  <2>3. Cardinality(S \cup {k}) \in Nat
        BY <2>2, FS_CardinalityType
  <2>4. IsFiniteSet(T) /\ Cardinality(T) <= Cardinality(S \cup {k}) /\ Cardinality(T) \in Nat
        BY <2>1, <2>2, FS_Subset, FS_CardinalityType
  <2> QED BY <1>1, <1>3, <1>6, <2>2, <2>3, <2>4 DEF T
<1> QED BY <1>4, <1>5, <1>6

\* A key that was ever a binding keeps its id, so the legacy key keeps its own.
LEMMA LegacyStays ==
    ASSUME CoreInv, UNCHANGED legacy, \A k \in installed : keys'[k].hasId = keys[k].hasId
    PROVE  LegacyWithoutId' = LegacyWithoutId /\ IsFiniteSet(LegacyWithoutId)
<1>1. legacy \in Keys => legacy \in installed
      BY DEF CoreInv, BindingInstalled
<1>2. LegacyWithoutId' = LegacyWithoutId
      BY <1>1 DEF LegacyWithoutId
<1>3. LegacyWithoutId \subseteq {legacy}
      BY DEF LegacyWithoutId
<1>4. IsFiniteSet({legacy})
      BY FS_Singleton
<1> QED BY <1>2, <1>3, <1>4, FS_Subset

\* When a command creates and saves a key, the binding it will replace is no live
\* key that a regenerate could have revoked.
LEMMA BoundNotLive ==
    ASSUME OneAccount, CoreInv, ReadStays, OfAccounts, NEW p \in Procs,
           job[p].pc \in {"create", "save"}, NEW k \in Keys, k = Binding(job[p].host),
           keys[k].status = "active"
    PROVE  ~keys[k].hasId
<1>1. job[p].host \in Hosts /\ job[p].org \in Orgs /\ job[p].cmd \in AllCommands
      BY ConstantsAssumption DEF ReadStays, CoreInv, JobShape
<1>2. k # None /\ k # Damaged
      BY ConstantsAssumption
<1>3. job[p].cmd = "regenerate" /\ k = job[p].document
      BY <1>1, <1>2 DEF ReadStays, AllCommands
<1>4. keys[k].org = job[p].org
      BY <1>1 DEF OfAccounts, OneAccount
<1> QED BY <1>3, <1>4 DEF CoreInv, RevokedFirst

\* What a step does to the surplus of each host, and leaves as it is.
Accounted ==
    /\ OfAccounts'
    /\ UNCHANGED legacy
    /\ \A k \in installed : keys'[k].hasId = keys[k].hasId
    /\ faults' \in Nat
    /\ \A h \in Hosts :
         \/ Surplus(h)' \subseteq Surplus(h) /\ faults' >= faults
         \/ (\E k : Surplus(h)' \subseteq Surplus(h) \cup {k}) /\ faults' = faults + 1

LEMMA AccountedStep ==
    ASSUME CoreInv, OneCommandInv, Accounted PROVE OfAccounts' /\ SurplusExplained'
<1>1. LegacyWithoutId' = LegacyWithoutId /\ IsFiniteSet(LegacyWithoutId)
      BY LegacyStays DEF Accounted
<1>2. faults \in Nat
      BY DEF CoreInv, TypeOK
<1> QED BY <1>1, <1>2, StaysExplained DEF Accounted, OneCommandInv

\* Nobody saved and nobody will.
LEMMA MovesAccounted ==
    ASSUME CoreInv, OneCommandInv, UNCHANGED <<keys, file, legacy>>,
           \A q \in Procs : job'[q] = job[q] \/ (job[q].pc # "save" /\ job'[q].pc # "save"),
           faults' \in {faults, faults + 1}
    PROVE  Accounted
<1>1. \A h \in Hosts : Surplus(h)' \subseteq Surplus(h)
      BY DEF Surplus, Binding
<1>2. faults \in Nat /\ OfAccounts'
      BY DEF CoreInv, TypeOK, OneCommandInv, OfAccounts
<1> QED BY <1>1, <1>2 DEF Accounted

\* What was about to be saved is forgotten, and what was bound may be: where there is
\* a key to save, the bound one was live without an id at most.
LEMMA ForgetAccounted ==
    ASSUME OneCommand, OneAccount, CoreInv, OneCommandInv, UNCHANGED <<keys, legacy>>,
           \A q \in Procs : job'[q].pc # "save", faults' = faults + 1
    PROVE  Accounted
<1>0. faults' \in Nat /\ OfAccounts'
      BY DEF CoreInv, TypeOK, OneCommandInv, OfAccounts
<1>1. SUFFICES ASSUME NEW h \in Hosts
               PROVE  \E k : Surplus(h)' \subseteq Surplus(h) \cup {k}
      BY <1>0 DEF Accounted
<1>2. CASE \E p \in Procs : job[p].pc = "save" /\ job[p].host = h
  <2>1. PICK p \in Procs : job[p].pc = "save" /\ job[p].host = h
        BY <1>2
  <2>2. \A l \in Keys : l = Binding(h) /\ keys[l].status = "active" => ~keys[l].hasId
        BY <2>1, BoundNotLive DEF OneCommandInv
  <2>3. \A q \in Procs : q = p
        BY DEF OneCommand
  <2>4. Surplus(h)' \subseteq Surplus(h) \cup {job[p].created}
        BY <2>1, <2>2, <2>3 DEF Surplus
  <2> QED BY <2>4
<1>3. CASE ~\E p \in Procs : job[p].pc = "save" /\ job[p].host = h
  <2>1. \A p \in Procs : job[p].pc = "save" => keys[job[p].created].host # h
        BY <1>3 DEF CoreInv, CreatedFresh
  <2>2. Surplus(h)' \subseteq Surplus(h) \cup {Binding(h)}
        BY <2>1 DEF Surplus
  <2> QED BY <2>2
<1> QED BY <1>2, <1>3

\* A key is revoked.
LEMMA RetireAccounted ==
    ASSUME CoreInv, OneCommandInv, NEW k \in Keys, NEW status \in {"retired", "withdrawn"},
           keys[k].status = "active", keys' = [keys EXCEPT ![k].status = status],
           UNCHANGED <<file, legacy>>,
           \A q \in Procs : job'[q] = job[q] \/ (job[q].pc # "save" /\ job'[q].pc # "save"),
           faults' \in {faults, faults + 1}
    PROVE  Accounted
<1>1. /\ keys \in [Keys -> KeyRecords] /\ installed \subseteq Keys /\ faults \in Nat
      BY DEF CoreInv, TypeOK
<1>2. \A l \in Keys : /\ keys'[l].hasId = keys[l].hasId
                      /\ keys'[l].host = keys[l].host
                      /\ keys'[l].org = keys[l].org
                      /\ keys'[l].status = IF l = k THEN status ELSE keys[l].status
      BY <1>1 DEF KeyRecords
<1>3. \A h \in Hosts : Surplus(h)' \subseteq Surplus(h)
      BY <1>2 DEF Surplus, Binding
<1>4. OfAccounts'
      BY <1>2 DEF OneCommandInv, OfAccounts
<1> QED BY <1>1, <1>2, <1>3, <1>4 DEF Accounted

\* A key is issued to command p, which learns it with its id, or something went wrong.
LEMMA IssueAccounted ==
    ASSUME OneCommand, CoreInv, OneCommandInv, NEW p \in Procs, job[p].pc = "create",
           NEW k \in Unused, NEW hasId \in BOOLEAN,
           keys' = [keys EXCEPT ![k] = Issued(p, hasId)],
           UNCHANGED <<file, legacy>>,
           \/ job'[p].pc = "save" /\ job'[p].created = k /\ hasId /\ faults' = faults
           \/ faults' = faults + 1
    PROVE  Accounted
<1>1. /\ keys \in [Keys -> KeyRecords] /\ installed \subseteq Keys /\ faults \in Nat
      /\ k \in Keys /\ k \notin installed
      BY DEF CoreInv, TypeOK, Unused, BindingInstalled
<1>2. \A l \in Keys : keys'[l] = IF l = k THEN Issued(p, hasId) ELSE keys[l]
      BY <1>1
<1>3. Issued(p, hasId).hasId = hasId /\ Issued(p, hasId).org \in Orgs
      BY DEF Issued, OneCommandInv, ReadStays
<1>4. \A q \in Procs : job[q].pc # "save"
      BY DEF OneCommand
<1>5. \A h \in Hosts : Surplus(h)' \subseteq Surplus(h) \cup {k}
      BY <1>2, <1>4 DEF Surplus, Binding
<1>6. job'[p].pc = "save" /\ job'[p].created = k /\ hasId
        => \A h \in Hosts : Surplus(h)' \subseteq Surplus(h)
      BY <1>2, <1>3, <1>5 DEF Surplus
<1>7. OfAccounts'
      BY <1>2, <1>3 DEF OneCommandInv, OfAccounts
<1> QED BY <1>1, <1>2, <1>5, <1>6, <1>7 DEF Accounted

LEMMA SaveAccounted ==
    ASSUME OneCommand, OneAccount, CoreInv, OneCommandInv, NEW p \in Procs, SaveBinding(p)
    PROVE  Accounted
<1> DEFINE g == job[p].host
           k == job[p].created
<1>1. /\ job[p].pc = "save" /\ g \in Hosts /\ k \in Keys /\ keys[k].host = g
      /\ file' = [file EXCEPT ![g] = k]
      /\ UNCHANGED <<keys, legacy, faults>>
      BY DEF SaveBinding, CoreInv, JobShape, CreatedFresh
<1>2. \A l \in Keys : l = Binding(g) /\ keys[l].status = "active" => ~keys[l].hasId
      BY <1>1, BoundNotLive DEF OneCommandInv
<1>3. \A h \in Hosts : Binding(h)' = IF h = g THEN k ELSE Binding(h)
      BY <1>1, ConstantsAssumption DEF Binding, CoreInv, TypeOK
<1>4. \A q \in Procs : q = p
      BY DEF OneCommand
<1> HIDE DEF g, k
<1>5. \A h \in Hosts : Surplus(h)' \subseteq Surplus(h)
  <2> SUFFICES ASSUME NEW h \in Hosts, NEW l \in Surplus(h)' PROVE l \in Surplus(h)
      OBVIOUS
  <2>1. l \in Keys /\ keys[l].status = "active" /\ keys[l].host = h
        /\ (~keys[l].hasId \/ l # Binding(h)')
        BY <1>1 DEF Surplus
  <2>2. CASE ~keys[l].hasId
        BY <2>1, <2>2 DEF Surplus
  <2>3. CASE keys[l].hasId
    <3>1. l # k
          BY <1>1, <1>3, <2>1, <2>3
    <3>2. l # Binding(h)
          BY <1>2, <1>3, <2>1, <2>3
    <3> QED BY <1>4, <2>1, <3>1, <3>2 DEF Surplus, k
  <2> QED BY <2>2, <2>3
<1>6. OfAccounts' /\ faults \in Nat
      BY <1>1 DEF OneCommandInv, OfAccounts, CoreInv, TypeOK
<1> QED BY <1>1, <1>5, <1>6 DEF Accounted

LEMMA DamageAccounted ==
    ASSUME CoreInv, OneCommandInv, NEW h \in Hosts, DamageBinding(h) PROVE Accounted
<1>1. /\ file' = [file EXCEPT ![h] = Damaged]
      /\ UNCHANGED <<keys, legacy, job>> /\ faults' = faults + 1 /\ faults \in Nat
      BY DEF DamageBinding, Fault, CoreInv, TypeOK
<1>2. \A g \in Hosts : g # h => Binding(g)' = Binding(g)
      BY <1>1 DEF Binding, CoreInv, TypeOK
<1>3. ASSUME NEW g \in Hosts PROVE Surplus(g)' \subseteq Surplus(g) \cup {Binding(g)}
      BY <1>1 DEF Surplus
<1>4. OfAccounts'
      BY <1>1 DEF OneCommandInv, OfAccounts
<1> QED BY <1>1, <1>3, <1>4 DEF Accounted

LEMMA CommandAccounted ==
    ASSUME OneCommand, OneAccount, CoreInv, OneCommandInv, NEW p \in Procs,
           Begin(p) \/ Step(p) \/ Failure(p)
    PROVE  Accounted
<1>1. job \in [Procs -> Jobs] /\ faults \in Nat
      BY DEF CoreInv, TypeOK
<1>2. CASE \/ Begin(p) \/ ResolveEngine(p) \/ ResolveHostname(p) \/ ReadCredential(p)
           \/ LoadHostFile(p) \/ LoadLegacyFile(p) \/ Confirm(p) \/ Launch(p)
  <2>1. UNCHANGED <<keys, file, legacy, faults>>
        BY <1>2 DEF Begin, ResolveEngine, ResolveHostname, ReadCredential, LoadHostFile,
             LoadLegacyFile, Confirm, Launch, history
  <2>2. \A q \in Procs : job'[q] = job[q] \/ (job[q].pc # "save" /\ job'[q].pc # "save")
        BY <1>2, MovesOn
  <2> QED BY <2>1, <2>2, MovesAccounted
<1>3. CASE RevokeBoundKey(p) \/ RevokeReplyLost(p)
  <2>1. \A q \in Procs : job'[q] = job[q] \/ (job[q].pc # "save" /\ job'[q].pc # "save")
        BY <1>3, MovesOn
  <2>2. /\ UNCHANGED <<file, legacy>> /\ faults' \in {faults, faults + 1}
        /\ \/ UNCHANGED keys
           \/ /\ keys[job[p].document].status = "active"
              /\ keys' = [keys EXCEPT ![job[p].document].status = "retired"]
        BY <1>3 DEF RevokeBoundKey, RevokeReplyLost, RevokeAnswer, Fault
  <2>3. job[p].document \in Keys
        BY <1>3 DEF RevokeBoundKey, RevokeReplyLost, CoreInv, JobShape
  <2> QED BY <2>1, <2>2, <2>3, MovesAccounted, RetireAccounted
<1>4. CASE CreateKey(p)
  <2>1. PICK k \in Unused, hasId \in BOOLEAN :
          /\ keys' = [keys EXCEPT ![k] = Issued(p, hasId)]
          /\ job' = [job EXCEPT ![p].pc = "save", ![p].created = k]
          /\ IF hasId THEN UNCHANGED faults ELSE Fault
        BY <1>4 DEF CreateKey
  <2>2. job[p].pc = "create" /\ UNCHANGED <<file, legacy>>
        BY <1>4 DEF CreateKey
  <2>3. job'[p].pc = "save" /\ job'[p].created = k
        BY <1>1, <2>1 DEF Jobs
  <2>4. (hasId /\ faults' = faults) \/ faults' = faults + 1
        BY <2>1 DEF Fault
  <2> QED BY <2>1, <2>2, <2>3, <2>4, IssueAccounted
<1>5. CASE CreateReplyLost(p)
  <2>1. PICK k \in Unused : keys' = [keys EXCEPT ![k] = Issued(p, TRUE)]
        BY <1>5 DEF CreateReplyLost
  <2>2. job[p].pc = "create" /\ UNCHANGED <<file, legacy>> /\ faults' = faults + 1
        BY <1>5 DEF CreateReplyLost, Fault
  <2> QED BY <2>1, <2>2, IssueAccounted
<1>6. CASE SaveBinding(p)
      BY <1>6, SaveAccounted
<1>7. CASE Interrupt(p)
  <2>1. UNCHANGED <<keys, legacy>> /\ faults' = faults + 1 /\ job' = [job EXCEPT ![p] = Idle]
        BY <1>7 DEF Interrupt, Fault, Finish
  <2>2. \A q \in Procs : job'[q].pc # "save"
        BY <1>1, <2>1 DEF OneCommand, Idle
  <2> QED BY <2>1, <2>2, ForgetAccounted
<1> QED BY <1>2, <1>3, <1>4, <1>5, <1>6, <1>7 DEF Step, Failure

LEMMA OneCommandStep ==
    ASSUME OneCommand, OneAccount, CoreInv, OneCommandInv, [Next /\ SelectionStays]_vars
    PROVE  OneCommandInv'
<1>1. ReadStays'
      BY ReadNext DEF OneCommandInv
<1>2. CASE \E p \in Procs : Begin(p) \/ Step(p) \/ Failure(p)
      BY <1>1, <1>2, CommandAccounted, AccountedStep DEF OneCommandInv
<1>3. CASE \E h \in Hosts : DamageBinding(h)
      BY <1>1, <1>3, DamageAccounted, AccountedStep DEF OneCommandInv
<1>4. CASE \E k \in Keys : WithdrawKey(k)
  <2>1. PICK k \in Keys : WithdrawKey(k)
        BY <1>4
  <2>2. /\ keys[k].status = "active" /\ keys' = [keys EXCEPT ![k].status = "withdrawn"]
        /\ UNCHANGED <<file, legacy, job>> /\ faults' = faults + 1
        BY <2>1 DEF WithdrawKey, Fault
  <2>3. Accounted
        BY <2>2, RetireAccounted
  <2> QED BY <1>1, <2>3, AccountedStep DEF OneCommandInv
<1>5. CASE Authentication \/ UNCHANGED vars
  <2>1. UNCHANGED <<keys, file, legacy, job, faults>>
        BY <1>5 DEF Authentication, AuthUse, AuthLogin, history, vars
  <2>2. Accounted
        BY <2>1, MovesAccounted
  <2> QED BY <1>1, <2>2, AccountedStep DEF OneCommandInv
<1> QED BY <1>2, <1>3, <1>4, <1>5 DEF Next, Accident

LEMMA OneCommandInit == ASSUME Init PROVE OneCommandInv
<1>1. PICK o \in Orgs, hasId \in BOOLEAN :
        keys = [k \in Keys |->
                  IF k = legacy THEN [status |-> "active", host |-> DefaultHost,
                                      org |-> o, hasId |-> hasId]
                  ELSE Unissued]
      BY DEF Init
<1>2. \A k \in Keys : keys[k].status # "unused"
        => k = legacy /\ keys[k].host = DefaultHost /\ keys[k].org = o
      BY <1>1 DEF Unissued
<1>3. file = [h \in Hosts |-> None] /\ faults = 0
      BY DEF Init
<1>4. OfAccounts
      BY <1>2 DEF OfAccounts
<1>5. SurplusExplained
  <2> SUFFICES ASSUME NEW h \in Hosts
               PROVE  /\ IsFiniteSet(Surplus(h))
                      /\ Cardinality(Surplus(h)) <= faults + Cardinality(LegacyWithoutId)
      BY DEF SurplusExplained
  <2>1. Surplus(h) \subseteq LegacyWithoutId
        BY <1>2, <1>3 DEF Surplus, LegacyWithoutId, Binding
  <2>2. IsFiniteSet({legacy}) /\ LegacyWithoutId \subseteq {legacy}
        BY FS_Singleton DEF LegacyWithoutId
  <2>3. IsFiniteSet(LegacyWithoutId)
        BY <2>2, FS_Subset
  <2>4. /\ IsFiniteSet(Surplus(h)) /\ Cardinality(Surplus(h)) <= Cardinality(LegacyWithoutId)
        BY <2>1, <2>3, FS_Subset
  <2>5. Cardinality(LegacyWithoutId) \in Nat
        BY <2>3, FS_CardinalityType
  <2> QED BY <1>3, <2>4, <2>5
<1> QED BY <1>4, <1>5, ReadInit DEF OneCommandInv

\* Of the live keys a host has issued to an account, all but one are surplus.
LEMMA LiveKeysCounted ==
    ASSUME OneCommand, OneAccount, CoreInv, OneCommandInv PROVE ActiveKeysBounded
<1> SUFFICES ASSUME NEW h \in Hosts, NEW o \in Orgs
             PROVE  Cardinality({k \in Keys : /\ keys[k].status = "active"
                                              /\ keys[k].host = h /\ keys[k].org = o})
                      <= 1 + faults + Cardinality(LegacyWithoutId)
    BY DEF ActiveKeysBounded, LegacyWithoutId
<1> DEFINE L == {k \in Keys : /\ keys[k].status = "active"
                             /\ keys[k].host = h /\ keys[k].org = o}
           S == Surplus(h)
           n == Cardinality(LegacyWithoutId)
<1>1. \E x : L \subseteq S \cup {x}
  <2>1. CASE \E p \in Procs : job[p].pc = "save" /\ job[p].host = h
    <3>1. PICK p \in Procs : job[p].pc = "save" /\ job[p].host = h
          BY <2>1
    <3>2. \A l \in Keys : l = Binding(h) /\ keys[l].status = "active" => ~keys[l].hasId
          BY <3>1, BoundNotLive DEF OneCommandInv
    <3>3. \A q \in Procs : q = p
          BY DEF OneCommand
    <3>4. L \subseteq S \cup {job[p].created}
          BY <3>1, <3>2, <3>3 DEF Surplus
    <3> QED BY <3>4
  <2>2. CASE ~\E p \in Procs : job[p].pc = "save" /\ job[p].host = h
    <3>1. \A p \in Procs : job[p].pc = "save" => keys[job[p].created].host # h
          BY <2>2 DEF CoreInv, CreatedFresh
    <3>2. L \subseteq S \cup {Binding(h)}
          BY <3>1 DEF Surplus
    <3> QED BY <3>2
  <2> QED BY <2>1, <2>2
<1>2. PICK x : L \subseteq S \cup {x}
      BY <1>1
<1>3. IsFiniteSet(S) /\ Cardinality(S) \in Nat /\ Cardinality(S) <= faults + n
      BY FS_CardinalityType DEF OneCommandInv, SurplusExplained
<1>4. IsFiniteSet(LegacyWithoutId) /\ faults \in Nat
  <2>1. LegacyWithoutId \subseteq {legacy} /\ IsFiniteSet({legacy})
        BY FS_Singleton DEF LegacyWithoutId
  <2> QED BY <2>1, FS_Subset DEF CoreInv, TypeOK
<1>5. n \in Nat
      BY <1>4, FS_CardinalityType
<1> HIDE DEF S, L, n
<1>6. /\ IsFiniteSet(S \cup {x})
      /\ Cardinality(S \cup {x}) = IF x \in S THEN Cardinality(S) ELSE Cardinality(S) + 1
      BY <1>3, FS_AddElement, Zenon
<1>7. IsFiniteSet(L) /\ Cardinality(L) <= Cardinality(S \cup {x})
      BY <1>2, <1>6, FS_Subset
<1>8. Cardinality(L) \in Nat
      BY <1>7, FS_CardinalityType
<1>9. Cardinality(L) <= 1 + faults + n
      BY <1>3, <1>4, <1>5, <1>6, <1>7, <1>8
<1> QED BY <1>9 DEF L, n

\* With one command at a time and one account, a host has one live key, one more for
\* each thing that went wrong, and the legacy key when it has no id, again with the
\* host of `agent` not switched under its prompt.
THEOREM LiveKeysDoNotPileUp ==
    ASSUME OneCommand, OneAccount PROVE SteadySpec => []ActiveKeysBounded
<1>1. Init => OneCommandInv
      BY OneCommandInit
<1>2. IInv /\ OneCommandInv /\ [Next /\ SelectionStays]_vars => OneCommandInv'
      BY OneCommandStep DEF IInv
<1>3. IInv /\ OneCommandInv => ActiveKeysBounded
      BY LiveKeysCounted DEF IInv
<1> QED BY <1>1, <1>2, <1>3, SteadyInvariance, PTL DEF SteadySpec
=============================================================================
