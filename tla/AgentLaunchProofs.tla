------------------------- MODULE AgentLaunchProofs -------------------------
(***************************************************************************)
(* The invariant of AgentLaunch and its theorems: for any host names,      *)
(* harnesses, overrides and shell environments, however commands and       *)
(* engines are nested.                                                     *)
(***************************************************************************)
EXTENDS AgentLaunch, HostNamesProofs, TLAPS

-----------------------------------------------------------------------------
(* Environments.                                                             *)

LEMMA OwnEntries ==
    /\ DOMAIN Own = 1..3
    /\ Own[1] = <<RequestEnv, "own">> /\ Own[2] = <<CredentialEnv, "own">> /\ Own[3] = <<BetasEnv, "own">>
BY DEF Own

LEMMA EnvironsShape ==
    ASSUME NEW environment
    PROVE  environment \in Environs <=>
             /\ environment = [i \in DOMAIN environment |-> environment[i]]
             /\ DOMAIN environment \subseteq Places
             /\ \A i \in DOMAIN environment : environment[i] \in Entries
<1>1. environment \in Environs <=> \E places \in SUBSET Places : environment \in [places -> Entries]
      BY DEF Environs
<1> QED BY <1>1

LEMMA PlacesAreIntegers == Places \subseteq Int /\ 1..3 \subseteq Places
<1>1. \A environment \in Environments : DOMAIN environment \subseteq Int
      BY LaunchAssumption
<1>2. UNION {DOMAIN environment : environment \in Environments} \subseteq Int
      BY <1>1
<1>3. DOMAIN Own = 1..3 /\ 1..3 \subseteq Int
      BY OwnEntries
<1> QED BY <1>2, <1>3 DEF Places

LEMMA EmptyEnvironment == <<>> \in Environs
<1>1. {} \in SUBSET Places /\ <<>> \in [{} -> Entries]
      OBVIOUS
<1> QED BY <1>1 DEF Environs

\* The environment of launchSpec: the engine's own entries, and of the command's
\* only those of other variables, which come before.
LEMMA LaunchEnvironmentShape ==
    ASSUME NEW base \in Environs, OwnComeLast(base)
    PROVE  LET environment == LaunchEnvironment(base)
           IN  /\ environment \in Environs
               /\ \A i \in 1..3 : i \in DOMAIN environment /\ environment[i] = Own[i]
               /\ \A i \in DOMAIN environment \ 1..3 :
                    i \in Int /\ i <= 0 /\ environment[i][1] \notin OwnEnv
<1> DEFINE kept == {i \in DOMAIN base : base[i][1] \notin OwnEnv}
           environment == LaunchEnvironment(base)
<1>1. /\ DOMAIN environment = kept \cup 1..3
      /\ \A i \in 1..3 : environment[i] = Own[i]
      /\ \A i \in kept \ 1..3 : environment[i] = base[i]
      /\ environment = [i \in DOMAIN environment |-> environment[i]]
      BY OwnEntries DEF LaunchEnvironment, WithOwn, EnvironmentWithout, Restrict
<1>2. /\ DOMAIN base \subseteq Places /\ DOMAIN base \subseteq Int
      /\ \A i \in DOMAIN base : base[i] \in Entries
      BY EnvironsShape, PlacesAreIntegers
<1>3. \A i \in 1..3 : Own[i] \in Entries
  <2>1. Own[1] \in Entries /\ Own[2] \in Entries /\ Own[3] \in Entries
        BY OwnEntries DEF Entries, Variables, OwnEnv
  <2> QED BY <2>1
<1> HIDE DEF environment
<1>4. DOMAIN environment \subseteq Places
      BY <1>1, <1>2, PlacesAreIntegers
<1>5. \A i \in DOMAIN environment : environment[i] \in Entries
      BY <1>1, <1>2, <1>3
<1>6. \A i \in DOMAIN environment \ 1..3 : i \in Int /\ i <= 0 /\ environment[i][1] \notin OwnEnv
  <2>1. SUFFICES ASSUME NEW i \in DOMAIN environment \ 1..3
                 PROVE  i \in Int /\ i <= 0 /\ environment[i][1] \notin OwnEnv
        OBVIOUS
  <2>2. i \in kept /\ environment[i] = base[i]
        BY <1>1
  <2>3. i \in Int /\ ~(i > 0)
        BY <1>2, <2>2 DEF OwnComeLast
  <2> QED BY <2>2, <2>3
<1>7. environment \in Environs
      BY <1>1, <1>4, <1>5, EnvironsShape
<1> QED BY <1>1, <1>6, <1>7 DEF environment

\* What the engine gets of it, on either platform, has each of its own variables
\* once, with its own value.
LEMMA EngineFindsOwn ==
    ASSUME NEW base \in Environs, OwnComeLast(base)
    PROVE  LET child == ExecEnvironment(LaunchEnvironment(base))
           IN  /\ child \in Environs /\ OwnComeLast(child)
               /\ \A name \in OwnEnv : \E i \in DOMAIN child :
                    Occurrences(child, name) = {i} /\ child[i] = <<name, "own">>
<1> DEFINE environment == LaunchEnvironment(base)
           child == ExecEnvironment(environment)
<1>1. /\ environment \in Environs
      /\ \A i \in 1..3 : i \in DOMAIN environment /\ environment[i] = Own[i]
      /\ \A i \in DOMAIN environment \ 1..3 :
           i \in Int /\ i <= 0 /\ environment[i][1] \notin OwnEnv
      BY LaunchEnvironmentShape
<1> HIDE DEF environment
<1>2. /\ environment = [i \in DOMAIN environment |-> environment[i]]
      /\ DOMAIN environment \subseteq Places
      /\ \A i \in DOMAIN environment : environment[i] \in Entries
      BY <1>1, EnvironsShape
<1>3. /\ DOMAIN child = {i \in DOMAIN environment : windows => ~Superseded(environment, i)}
      /\ \A i \in DOMAIN child : child[i] = environment[i]
      /\ child = [i \in DOMAIN child |-> child[i]]
      BY <1>2 DEF ExecEnvironment, Restrict
<1> HIDE DEF child
<1>4. child \in Environs
      BY <1>2, <1>3, EnvironsShape
<1>5. OwnComeLast(child)
      BY <1>1, <1>3, OwnEntries DEF OwnComeLast, OwnEnv
<1>6. ASSUME NEW name \in OwnEnv
      PROVE  \E i \in DOMAIN child : Occurrences(child, name) = {i} /\ child[i] = <<name, "own">>
  <2>1. PICK n \in 1..3 : Own[n] = <<name, "own">> /\ \A i \in 1..3 : Own[i][1] = name => i = n
        BY OwnEntries DEF OwnEnv, RequestEnv, CredentialEnv, BetasEnv
  <2>2. \A i \in 1..3 : environment[i][1] \in OwnEnv
        BY <1>1, OwnEntries DEF OwnEnv
  <2>3. \A variable \in OwnEnv : Folded(variable) = variable
        BY DEF Folded, OwnEnv, RequestEnv, CredentialEnv, BetasEnv, LowerCaseEnv
  <2>4. \A i \in 1..3 : Folded(environment[i][1]) = name => i = n
        BY <1>1, <2>1, <2>2, <2>3
  <2>5. n \in DOMAIN environment /\ environment[n] = <<name, "own">> /\ Folded(environment[n][1]) = name
        BY <1>1, <2>1, <2>3
  <2>6. ~Superseded(environment, n)
    <3>1. SUFFICES ASSUME NEW j \in DOMAIN environment, j > n,
                          Folded(environment[j][1]) = Folded(environment[n][1])
                   PROVE  FALSE
          BY DEF Superseded
    <3>2. j \notin 1..3
          BY <2>4, <2>5, <3>1
    <3> QED BY <1>1, <3>1, <3>2
  <2>7. n \in DOMAIN child /\ child[n] = <<name, "own">> /\ n \in Occurrences(child, name)
        BY <1>3, <2>5, <2>6 DEF Occurrences
  <2>8. ASSUME NEW i \in Occurrences(child, name) PROVE i = n
    <3>1. i \in DOMAIN environment /\ Folded(environment[i][1]) = name /\ i \in DOMAIN child
          BY <1>3, <2>8 DEF Occurrences
    <3>2. SUFFICES ASSUME i \notin 1..3 PROVE FALSE
          BY <2>4, <3>1
    <3>3. i \in Int /\ i <= 0 /\ environment[i][1] # name
          BY <1>1, <3>1, <3>2
    <3>4. windows
          BY <3>1, <3>3 DEF Folded
    <3>5. n > i
          BY <3>3
    <3>6. Superseded(environment, i)
          BY <2>5, <3>1, <3>5 DEF Superseded
    <3> QED BY <1>3, <3>1, <3>4, <3>6
  <2> QED BY <2>7, <2>8
<1> QED BY <1>4, <1>5, <1>6 DEF child, environment

-----------------------------------------------------------------------------
(* Hosts.                                                                    *)

Tokens == STRING \cup {Space}

LEMMA NamesOfTokens ==
    /\ DefaultHost \in Seq(Tokens)
    /\ \A name \in Hostnames \cup Flags \cup HostEnvs \cup Selections : name \in Seq(Tokens)
    /\ \A console \in Consoles : console \in Seq(Tokens)
<1>1. \A name \in Hostnames : name \in Seq(Tokens)
  <2>1. STRING \subseteq Tokens
        BY DEF Tokens
  <2> QED BY <2>1, LaunchAssumption, SeqMonotonic
<1>2. <<>> \in Seq(Tokens) /\ Blank \in Seq(Tokens)
  <2>1. Space \in Tokens
        BY DEF Tokens
  <2> QED BY <2>1 DEF Blank
<1>3. \A console \in Consoles : console \in Seq(Tokens)
      BY <1>1, NormalizeType DEF Consoles
<1> QED BY <1>1, <1>2, <1>3, LaunchAssumption

\* The host a command means, if it has a gateway, is one of the consoles.
LEMMA ResolvedIsConsole ==
    ASSUME NEW flag \in Flags, NEW env \in HostEnvs, NEW selection \in Selections,
           GatewayEndpoint(ResolveManagementHostname(flag, env, selection)) # Refused
    PROVE  /\ ResolveManagementHostname(flag, env, selection) \in Consoles
           /\ ResolveManagementHostname(flag, env, selection) # <<>>
<1> DEFINE asked == <<flag, env, selection, DefaultHost>>
           host == NormalizeHostname(FirstNonempty(asked))
<1>1. /\ asked \in Seq(Seq(Tokens)) /\ Len(asked) = 4
      /\ asked[1] = flag /\ asked[2] = env /\ asked[3] = selection /\ asked[4] = DefaultHost
      BY NamesOfTokens
<1>2. ResolveManagementHostname(flag, env, selection) = host
      BY DEF ResolveManagementHostname
<1> HIDE DEF asked
<1>3. DefaultHost # <<>>
      BY DefaultNotEmpty
<1>4. PICK i \in 1..Len(asked) : FirstNonempty(asked) = asked[i] /\ asked[i] # <<>>
  <2>1. asked[4] # <<>> /\ 4 \in 1..Len(asked)
        BY <1>1, <1>3
  <2> QED BY <1>1, <2>1, FirstAmong
<1>5. asked[i] \in {flag, env, selection, DefaultHost}
      BY <1>1
<1>6. asked[i] \in Hostnames \/ asked[i] = Blank
      BY <1>4, <1>5, LaunchAssumption
<1>7. asked[i] # Blank /\ host # <<>>
      BY <1>2, <1>4, NormalizeBlank, EmptyHasNoGateway
<1> QED BY <1>2, <1>4, <1>6, <1>7 DEF Consoles

-----------------------------------------------------------------------------
(* The invariant holds at first and is kept.                                 *)

LEMMA IdleType == Idle \in Jobs /\ Idle.pc = "idle"
<1>1. Refused \in Gateways
      BY DEF Gateways
<1> QED BY <1>1, EmptyEnvironment DEF Idle, Jobs, Pcs

LEMMA LaunchInit == Init => LaunchInv
<1> SUFFICES ASSUME Init PROVE LaunchInv
    OBVIOUS
<1>1. environ \in Environs /\ OwnComeLast(environ)
  <2>1. /\ environ \in [DOMAIN environ -> Entries]
        /\ \A i \in DOMAIN environ : i \in Int /\ i <= 0
        BY LaunchAssumption DEF Init
  <2>2. DOMAIN environ \subseteq Places
        BY DEF Init, Places
  <2>3. environ \in Environs
        BY <2>1, <2>2, EnvironsShape
  <2> QED BY <2>1, <2>3 DEF OwnComeLast
<1>2. job = Idle /\ job \in Jobs /\ job.pc = "idle"
      BY IdleType DEF Init
<1>3. <<>> \in Selections /\ None \in Overrides /\ 0 \in 0..MaxChanges
      BY LaunchAssumption
<1>4. LaunchTypeOK
      BY <1>1, <1>2, <1>3 DEF Init, LaunchTypeOK, Accounts, NoLogin
<1>5. StoredCredentials
      BY DEF Init, StoredCredentials
<1>6. HostResolved
      BY <1>2 DEF HostResolved
<1>7. BindingsHome
      BY <1>2 DEF Init, BindingsHome
<1>8. ChildSeesOwnVariables
      BY <1>2 DEF ChildSeesOwnVariables
<1> QED BY <1>1, <1>2, <1>4, <1>5, <1>6, <1>7, <1>8 DEF LaunchInv

\* A command ends without a launch.
LEMMA EndStep ==
    ASSUME LaunchInv, job' = Idle, UNCHANGED <<machine, config, bindings, override, environ, changes>>
    PROVE  LaunchInv'
<1>1. job' \in Jobs /\ job'.pc = "idle"
      BY IdleType
<1>2. UNCHANGED <<windows, legacy, accounts, selected, bindings, override, environ, changes>>
      BY DEF machine, config
<1>3. LaunchTypeOK'
      BY <1>1, <1>2 DEF LaunchInv, LaunchTypeOK
<1>4. StoredCredentials' /\ OwnComeLast(environ)'
      BY <1>2 DEF LaunchInv, StoredCredentials, OwnComeLast
<1>5. HostResolved' /\ ChildSeesOwnVariables'
      BY <1>1 DEF HostResolved, ChildSeesOwnVariables
<1>6. BindingsHome'
      BY <1>1, <1>2 DEF LaunchInv, BindingsHome
<1> QED BY <1>1, <1>3, <1>4, <1>5, <1>6 DEF LaunchInv

LEMMA BeginStep == ASSUME LaunchInv, Begin PROVE LaunchInv'
<1>1. PICK cmd \in Commands, harness \in Harnesses \cup {None}, flag \in Flags, env \in HostEnvs :
        job' = [Idle EXCEPT !.pc = "engine", !.cmd = cmd, !.harness = harness, !.flag = flag, !.env = env]
      BY DEF Begin
<1>2. UNCHANGED <<windows, legacy, accounts, selected, bindings, override, environ, changes>>
      BY DEF Begin, machine, config
<1>3. /\ job' \in Jobs /\ job'.pc = "engine"
      /\ job'.flag = flag /\ job'.env = env
      BY <1>1, IdleType DEF Jobs, Pcs, Idle
<1>4. LaunchTypeOK'
      BY <1>2, <1>3 DEF LaunchInv, LaunchTypeOK
<1>5. StoredCredentials' /\ OwnComeLast(environ)'
      BY <1>2 DEF LaunchInv, StoredCredentials, OwnComeLast
<1>6. HostResolved' /\ ChildSeesOwnVariables'
      BY <1>3 DEF HostResolved, ChildSeesOwnVariables
<1>7. BindingsHome'
      BY <1>2, <1>3 DEF LaunchInv, BindingsHome
<1> QED BY <1>3, <1>4, <1>5, <1>6, <1>7 DEF LaunchInv

LEMMA ResolveEngineStep == ASSUME LaunchInv, ResolveEngine PROVE LaunchInv'
<1>1. UNCHANGED <<machine, config, bindings, override, environ, changes>>
      BY DEF ResolveEngine
<1>2. UNCHANGED <<windows, legacy, accounts, selected, bindings, override, environ, changes>>
      BY <1>1 DEF machine, config
<1>3. CASE job' = Idle
      BY <1>1, <1>3, EndStep
<1>4. CASE job' = [job EXCEPT !.pc = "hostname", !.overridden = override # None]
  <2>1. /\ job' \in Jobs /\ job'.pc = "hostname" /\ job.pc = "engine"
        /\ job'.flag = job.flag /\ job'.env = job.env
        BY <1>4 DEF LaunchInv, LaunchTypeOK, Jobs, Pcs, ResolveEngine
  <2>2. LaunchTypeOK'
        BY <1>2, <2>1 DEF LaunchInv, LaunchTypeOK
  <2>3. StoredCredentials' /\ OwnComeLast(environ)'
        BY <1>2 DEF LaunchInv, StoredCredentials, OwnComeLast
  <2>4. HostResolved' /\ ChildSeesOwnVariables'
        BY <2>1 DEF LaunchInv, HostResolved, ChildSeesOwnVariables
  <2>5. BindingsHome'
        BY <1>2, <2>1 DEF LaunchInv, BindingsHome
  <2> QED BY <2>1, <2>2, <2>3, <2>4, <2>5 DEF LaunchInv
<1> QED BY <1>3, <1>4 DEF ResolveEngine

LEMMA ResolveHostnameStep == ASSUME LaunchInv, ResolveHostname PROVE LaunchInv'
<1>1. UNCHANGED <<machine, config, bindings, override, environ, changes>>
      BY DEF ResolveHostname
<1>2. UNCHANGED <<windows, legacy, accounts, selected, bindings, override, environ, changes>>
      BY <1>1 DEF machine, config
<1> DEFINE host == ResolveManagementHostname(job.flag, job.env, selected)
<1>3. CASE job' = Idle
      BY <1>1, <1>3, EndStep
<1>4. CASE /\ GatewayEndpoint(host) # Refused
           /\ \E pc \in {"load", "credential"} :
                job' = [job EXCEPT !.host = host, !.gateway = GatewayEndpoint(host), !.pc = pc]
  <2>1. job.flag \in Flags /\ job.env \in HostEnvs /\ selected \in Selections
        BY DEF LaunchInv, LaunchTypeOK, HostResolved, ResolveHostname
  <2>2. host \in Consoles /\ host # <<>>
        BY <1>4, <2>1, ResolvedIsConsole
  <2> HIDE DEF host
  <2>3. /\ job' \in Jobs /\ job'.pc \in {"load", "credential"} /\ job'.host = host
        /\ job'.gateway = GatewayEndpoint(host)
        /\ job'.flag = job.flag /\ job'.env = job.env
    <3>1. PICK pc \in {"load", "credential"} :
            job' = [job EXCEPT !.host = host, !.gateway = GatewayEndpoint(host), !.pc = pc]
          BY <1>4
    <3>2. job \in Jobs /\ GatewayEndpoint(host) \in Gateways /\ host \in Consoles \cup {<<>>} /\ pc \in Pcs
          BY <2>2 DEF LaunchInv, LaunchTypeOK, Gateways, Pcs
    <3>3. job' \in Jobs
          BY <3>1, <3>2 DEF Jobs
    <3> QED BY <3>1, <3>2, <3>3 DEF Jobs
  <2>4. LaunchTypeOK'
        BY <1>2, <1>4, <2>2, <2>3 DEF LaunchInv, LaunchTypeOK
  <2>5. StoredCredentials' /\ OwnComeLast(environ)'
        BY <1>2 DEF LaunchInv, StoredCredentials, OwnComeLast
  <2>6. HostResolved'
        BY <2>1, <2>3 DEF HostResolved, host
  <2>7. ChildSeesOwnVariables'
        BY <2>3 DEF ChildSeesOwnVariables
  <2>8. BindingsHome'
        BY <1>2, <2>3 DEF LaunchInv, BindingsHome
  <2> QED BY <2>3, <2>4, <2>5, <2>6, <2>7, <2>8 DEF LaunchInv
<1> QED BY <1>3, <1>4 DEF ResolveHostname

\* A step of a command that only goes on to its next step.
LEMMA GoOnStep ==
    ASSUME LaunchInv, job.pc \in {"credential", "load"},
           NEW pc \in {"load", "bind"}, job' = [job EXCEPT !.pc = pc],
           UNCHANGED <<machine, config, bindings, override, environ, changes>>
    PROVE  LaunchInv'
<1>1. UNCHANGED <<windows, legacy, accounts, selected, bindings, override, environ, changes>>
      BY DEF machine, config
<1>2. job \in Jobs /\ pc \in Pcs
      BY DEF LaunchInv, LaunchTypeOK, Pcs
<1>3. /\ job' \in Jobs /\ job'.pc = pc /\ job'.host = job.host /\ job'.gateway = job.gateway
      /\ job'.flag = job.flag /\ job'.env = job.env
      BY <1>2 DEF Jobs
<1>4. LaunchTypeOK'
      BY <1>1, <1>3 DEF LaunchInv, LaunchTypeOK
<1>5. StoredCredentials' /\ OwnComeLast(environ)'
      BY <1>1 DEF LaunchInv, StoredCredentials, OwnComeLast
<1>6. HostResolved'
      BY <1>3 DEF LaunchInv, HostResolved
<1>7. ChildSeesOwnVariables'
      BY <1>3 DEF ChildSeesOwnVariables
<1>8. BindingsHome'
      BY <1>1, <1>3 DEF LaunchInv, BindingsHome
<1> QED BY <1>3, <1>4, <1>5, <1>6, <1>7, <1>8 DEF LaunchInv

LEMMA ReadCredentialStep == ASSUME LaunchInv, ReadCredential PROVE LaunchInv'
<1>1. UNCHANGED <<machine, config, bindings, override, environ, changes>>
      BY DEF ReadCredential
<1>2. CASE job' = Idle
      BY <1>1, <1>2, EndStep
<1>3. CASE \E pc \in {"load", "bind"} : job' = [job EXCEPT !.pc = pc]
      BY <1>1, <1>3, GoOnStep DEF ReadCredential
<1> QED BY <1>2, <1>3 DEF ReadCredential

\* The key that Load finds is bound in the file of the host that was asked for.
LEMMA BoundIsHome ==
    ASSUME LaunchInv, NEW host \in Consoles, GatewayEndpoint(host) # Refused, Bound(host) # None
    PROVE  /\ Bound(host) \in Consoles /\ BindingFileName(Bound(host)) = BindingFileName(host)
           /\ GatewayEndpoint(Bound(host)) # Refused
<1>1. BindingFileName(host) \in BindingFiles
      BY DEF BindingFiles
<1>2. CASE bindings[BindingFileName(host)] # None
      BY <1>1, <1>2 DEF Bound, LaunchInv, LaunchTypeOK, BindingsHome
<1>3. CASE bindings[BindingFileName(host)] = None
  <2>1. Bound(host) = DefaultHost /\ NormalizeHostname(host) = DefaultHost
        BY <1>3 DEF Bound
  <2>2. NormalizeHostname(DefaultHost) = DefaultHost
        BY NormalizeDefault
  <2>3. DefaultHost \in Consoles
        BY <2>2, LaunchAssumption DEF Consoles
  <2>4. BindingFileName(DefaultHost) = BindingFileName(host)
        BY <2>1, <2>2 DEF BindingFileName
  <2>5. GatewayEndpoint(DefaultHost) = GatewayEndpoint(host)
        BY <2>1, <2>2 DEF GatewayEndpoint
  <2> QED BY <2>1, <2>3, <2>4, <2>5
<1> QED BY <1>2, <1>3

LEMMA LoadStep == ASSUME LaunchInv, Load PROVE LaunchInv'
<1>1. UNCHANGED <<machine, config, bindings, override, environ, changes>>
      BY DEF Load
<1>2. UNCHANGED <<windows, legacy, accounts, selected, bindings, override, environ, changes>>
      BY <1>1 DEF machine, config
<1>3. CASE job' = Idle
      BY <1>1, <1>3, EndStep
<1>4. CASE job' = [job EXCEPT !.pc = "bind"]
      BY <1>1, <1>4, GoOnStep DEF Load
<1>5. CASE job' = [job EXCEPT !.pc = "launch", !.key = Bound(job.host)] /\ Bound(job.host) # None
  <2>1. job \in Jobs /\ job.pc = "load" /\ job.host # <<>> /\ job.gateway # Refused
        BY DEF Load, LaunchInv, LaunchTypeOK
  <2>2. job.host \in Consoles /\ GatewayEndpoint(job.host) # Refused
        BY <2>1 DEF LaunchInv, HostResolved, Jobs
  <2> DEFINE key == Bound(job.host)
  <2>3. /\ key \in Consoles /\ BindingFileName(key) = BindingFileName(job.host)
        /\ GatewayEndpoint(key) # Refused /\ key # None
        BY <1>5, <2>2, BoundIsHome
  <2>4. job' = [job EXCEPT !.pc = "launch", !.key = key]
        BY <1>5
  <2> HIDE DEF key
  <2>5. /\ job' \in Jobs /\ job'.pc = "launch" /\ job'.host = job.host /\ job'.gateway = job.gateway
        /\ job'.flag = job.flag /\ job'.env = job.env /\ job'.key = key
        BY <2>1, <2>3, <2>4 DEF Jobs, Pcs
  <2>6. LaunchTypeOK'
        BY <1>2, <2>1, <2>3, <2>5 DEF LaunchInv, LaunchTypeOK
  <2>7. StoredCredentials' /\ OwnComeLast(environ)'
        BY <1>2 DEF LaunchInv, StoredCredentials, OwnComeLast
  <2>8. HostResolved'
        BY <2>1, <2>5 DEF LaunchInv, HostResolved
  <2>9. ChildSeesOwnVariables'
        BY <2>5 DEF ChildSeesOwnVariables
  <2>10. BindingsHome'
        BY <1>2, <2>3, <2>5 DEF LaunchInv, BindingsHome
  <2> QED BY <2>5, <2>6, <2>7, <2>8, <2>9, <2>10 DEF LaunchInv
<1> QED BY <1>3, <1>4, <1>5 DEF Load

LEMMA CreateAndBindStep == ASSUME LaunchInv, CreateAndBind PROVE LaunchInv'
<1>1. UNCHANGED <<windows, legacy, accounts, selected, override, environ, changes>>
      BY DEF CreateAndBind, machine, config
<1>2. job' = Idle /\ job' \in Jobs /\ job'.pc = "idle"
      BY IdleType DEF CreateAndBind
<1>3. /\ job.host \in Consoles
      /\ GatewayEndpoint(job.host) # Refused
      BY DEF CreateAndBind, LaunchInv, LaunchTypeOK, Jobs, HostResolved
<1>4. bindings' = [bindings EXCEPT ![BindingFileName(job.host)] = job.host]
      BY DEF CreateAndBind
<1>5. LaunchTypeOK'
      BY <1>1, <1>2, <1>3, <1>4 DEF LaunchInv, LaunchTypeOK
<1>6. StoredCredentials' /\ OwnComeLast(environ)'
      BY <1>1 DEF LaunchInv, StoredCredentials, OwnComeLast
<1>7. HostResolved' /\ ChildSeesOwnVariables'
      BY <1>2 DEF HostResolved, ChildSeesOwnVariables
<1>8. BindingsHome'
  <2>1. \A file \in BindingFiles :
          bindings'[file] = IF file = BindingFileName(job.host) THEN job.host ELSE bindings[file]
        BY <1>4 DEF LaunchInv, LaunchTypeOK
  <2>2. \A file \in BindingFiles : bindings'[file] # None =>
          BindingFileName(bindings'[file]) = file /\ GatewayEndpoint(bindings'[file]) # Refused
        BY <1>3, <2>1 DEF LaunchInv, BindingsHome
  <2> QED BY <1>2, <2>2 DEF BindingsHome
<1> QED BY <1>2, <1>5, <1>6, <1>7, <1>8 DEF LaunchInv

LEMMA LaunchStep == ASSUME LaunchInv, Launch PROVE LaunchInv'
<1>1. UNCHANGED <<machine, config, bindings, override, environ, changes>>
      BY DEF Launch
<1>2. UNCHANGED <<windows, legacy, accounts, selected, bindings, override, environ, changes>>
      BY <1>1 DEF machine, config
<1>3. CASE job' = Idle
      BY <1>1, <1>3, EndStep
<1> DEFINE child == ExecEnvironment(LaunchEnvironment(environ))
<1>4. CASE job' = [job EXCEPT !.pc = "launched", !.child = child]
  <2>1. /\ child \in Environs /\ OwnComeLast(child)
        /\ \A name \in OwnEnv : \E i \in DOMAIN child :
             Occurrences(child, name) = {i} /\ child[i] = <<name, "own">>
        BY EngineFindsOwn DEF LaunchInv, LaunchTypeOK
  <2>3. job \in Jobs /\ job.pc = "launch"
        BY DEF LaunchInv, LaunchTypeOK, Launch
  <2> HIDE DEF child
  <2>4. /\ job' \in Jobs /\ job'.pc = "launched" /\ job'.host = job.host /\ job'.gateway = job.gateway
        /\ job'.flag = job.flag /\ job'.env = job.env /\ job'.key = job.key /\ job'.child = child
        BY <1>4, <2>1, <2>3 DEF Jobs, Pcs
  <2>5. LaunchTypeOK'
        BY <1>2, <2>3, <2>4 DEF LaunchInv, LaunchTypeOK
  <2>6. StoredCredentials' /\ OwnComeLast(environ)' /\ OwnComeLast(job.child)'
        BY <1>2, <2>1, <2>4 DEF LaunchInv, StoredCredentials, OwnComeLast
  <2>7. HostResolved'
        BY <2>3, <2>4 DEF LaunchInv, HostResolved
  <2>8. ChildSeesOwnVariables'
    <3>1. \A name : Occurrences(job.child, name)' = Occurrences(child, name)
          BY <1>2, <2>4 DEF Occurrences, Folded
    <3> QED BY <2>1, <2>4, <3>1 DEF ChildSeesOwnVariables
  <2>9. BindingsHome'
        BY <1>2, <2>3, <2>4 DEF LaunchInv, BindingsHome
  <2> QED BY <2>4, <2>5, <2>6, <2>7, <2>8, <2>9 DEF LaunchInv
<1> QED BY <1>3, <1>4 DEF Launch

LEMMA ExitStep == ASSUME LaunchInv, Exit PROVE LaunchInv'
<1>1. UNCHANGED <<windows, legacy, accounts, selected, bindings, override, changes>>
      BY DEF Exit, machine, config
<1>2. job' = Idle /\ job' \in Jobs /\ job'.pc = "idle"
      BY IdleType DEF Exit
<1>3. environ' \in Environs /\ OwnComeLast(environ')
  <2> DEFINE left == [i \in DOMAIN job.child |-> <<job.child[i][1], "other">>]
  <2>1. job.child \in Environs /\ OwnComeLast(job.child)
        BY DEF Exit, LaunchInv, LaunchTypeOK, Jobs
  <2>2. /\ DOMAIN job.child \subseteq Places
        /\ \A i \in DOMAIN job.child : job.child[i] \in Entries
        BY <2>1, EnvironsShape
  <2>3. DOMAIN left = DOMAIN job.child /\ \A i \in DOMAIN left : left[i] \in Entries
        BY <2>2 DEF Entries
  <2>4. left \in Environs
        BY <2>2, <2>3, EnvironsShape
  <2>5. OwnComeLast(left)
        BY <2>1 DEF OwnComeLast
  <2>6. environ' = environ \/ environ' = left
        BY DEF Exit
  <2> QED BY <2>4, <2>5, <2>6 DEF LaunchInv, LaunchTypeOK
<1>4. LaunchTypeOK'
      BY <1>1, <1>2, <1>3 DEF LaunchInv, LaunchTypeOK
<1>5. StoredCredentials'
      BY <1>1 DEF LaunchInv, StoredCredentials
<1>6. HostResolved' /\ ChildSeesOwnVariables'
      BY <1>2 DEF HostResolved, ChildSeesOwnVariables
<1>7. BindingsHome'
      BY <1>1, <1>2 DEF LaunchInv, BindingsHome
<1> QED BY <1>2, <1>3, <1>4, <1>5, <1>6, <1>7 DEF LaunchInv, OwnComeLast

\* What the user changes under a command leaves the command's own data alone.
LEMMA AuthStep == ASSUME LaunchInv, AuthLogin \/ AuthUse PROVE LaunchInv'
<1>1. UNCHANGED <<windows, legacy, bindings, override, environ, job>>
      BY DEF AuthLogin, AuthUse, machine
<1>2. changes' \in 0..MaxChanges
      BY LaunchAssumption DEF AuthLogin, AuthUse, Change, LaunchInv, LaunchTypeOK
<1>3. selected' \in Selections
      BY DEF AuthLogin, AuthUse, LaunchInv, LaunchTypeOK
<1>4. accounts' \in [Consoles -> Accounts] /\ StoredCredentials'
  <2>1. CASE AuthUse
        BY <2>1 DEF AuthUse, LaunchInv, LaunchTypeOK, StoredCredentials, HasCredential
  <2>2. CASE AuthLogin
    <3>1. PICK flag \in Flags, env \in HostEnvs, withToken \in BOOLEAN, authType \in AuthTypes \cup {None} :
            LET console == NormalizeHostname(LoginHostname(flag, env))
                type == AskedAuthType(withToken, authType)
            IN  accounts' = [accounts EXCEPT ![console] =
                              [type |-> IF type = "oauth" /\ ~withToken THEN "bearer" ELSE type,
                               asOAuth |-> authType = "oauth" /\ withToken]]
          BY <2>2 DEF AuthLogin
    <3> DEFINE console == NormalizeHostname(LoginHostname(flag, env))
               asked == AskedAuthType(withToken, authType)
               type == IF asked = "oauth" /\ ~withToken THEN "bearer" ELSE asked
               asOAuth == authType = "oauth" /\ withToken
               account == [type |-> type, asOAuth |-> asOAuth]
    <3>2. accounts' = [accounts EXCEPT ![console] = account]
          BY <3>1
    <3>3. /\ asked \in AuthTypes
          /\ asked = "oauth" /\ withToken => asOAuth
          BY DEF AskedAuthType, AuthTypes
    <3>4. type \in AuthTypes /\ asOAuth \in BOOLEAN /\ (type = "oauth" => asOAuth)
          BY <3>3 DEF AuthTypes
    <3> HIDE DEF console, type, asOAuth
    <3>5. account \in Accounts
          BY <3>4 DEF Accounts
    <3>6. HasCredential(account) \/ account = TokenAsOAuth
      <4>1. CASE type = "oauth"
            BY <3>4, <4>1 DEF TokenAsOAuth
      <4>2. CASE type # "oauth"
            BY <3>4, <4>2 DEF HasCredential, AuthTypes
      <4> QED BY <4>1, <4>2
    <3> HIDE DEF account
    <3>7. accounts' \in [Consoles -> Accounts]
          BY <3>2, <3>5 DEF LaunchInv, LaunchTypeOK
    <3>8. StoredCredentials'
          BY <3>2, <3>6 DEF LaunchInv, LaunchTypeOK, StoredCredentials
    <3> QED BY <3>7, <3>8
  <2> QED BY <2>1, <2>2
<1>5. LaunchTypeOK'
      BY <1>1, <1>2, <1>3, <1>4 DEF LaunchInv, LaunchTypeOK
<1>6. HostResolved' /\ BindingsHome'
      BY <1>1 DEF LaunchInv, HostResolved, BindingsHome
<1>7. ChildSeesOwnVariables' /\ OwnComeLast(environ)' /\ (job.pc = "launched" => OwnComeLast(job.child))'
      BY <1>1 DEF LaunchInv, ChildSeesOwnVariables, Occurrences, Folded, OwnComeLast
<1> QED BY <1>4, <1>5, <1>6, <1>7 DEF LaunchInv

LEMMA ChangeOverrideStep == ASSUME LaunchInv, ChangeOverride PROVE LaunchInv'
<1>1. UNCHANGED <<windows, legacy, accounts, selected, bindings, environ, job>>
      BY DEF ChangeOverride, machine, config
<1>2. changes' \in 0..MaxChanges /\ override' \in Overrides
      BY LaunchAssumption DEF ChangeOverride, Change, LaunchInv, LaunchTypeOK
<1>3. LaunchTypeOK'
      BY <1>1, <1>2 DEF LaunchInv, LaunchTypeOK
<1>4. HostResolved' /\ BindingsHome' /\ StoredCredentials'
      BY <1>1 DEF LaunchInv, HostResolved, BindingsHome, StoredCredentials
<1>5. ChildSeesOwnVariables' /\ OwnComeLast(environ)' /\ (job.pc = "launched" => OwnComeLast(job.child))'
      BY <1>1 DEF LaunchInv, ChildSeesOwnVariables, Occurrences, Folded, OwnComeLast
<1> QED BY <1>3, <1>4, <1>5 DEF LaunchInv

LEMMA LaunchStutter == ASSUME LaunchInv, UNCHANGED vars PROVE LaunchInv'
<1>1. UNCHANGED <<windows, accounts, selected, bindings, legacy, override, environ, job, changes>>
      BY DEF vars
<1>2. LaunchTypeOK'
      BY <1>1 DEF LaunchInv, LaunchTypeOK
<1>3. HostResolved' /\ BindingsHome' /\ StoredCredentials'
      BY <1>1 DEF LaunchInv, HostResolved, BindingsHome, StoredCredentials
<1>4. ChildSeesOwnVariables' /\ OwnComeLast(environ)' /\ (job.pc = "launched" => OwnComeLast(job.child))'
      BY <1>1 DEF LaunchInv, ChildSeesOwnVariables, Occurrences, Folded, OwnComeLast
<1> QED BY <1>2, <1>3, <1>4 DEF LaunchInv

LEMMA LaunchInvariantStep == LaunchInv /\ [Next]_vars => LaunchInv'
BY BeginStep, ResolveEngineStep, ResolveHostnameStep, ReadCredentialStep, LoadStep,
   CreateAndBindStep, LaunchStep, ExitStep, AuthStep, ChangeOverrideStep, LaunchStutter DEF Next

-----------------------------------------------------------------------------
(* What follows for every behaviour.                                         *)

\* Every state of every behaviour satisfies the invariant.
THEOREM LaunchInvariance == Spec => []LaunchInv
BY LaunchInit, LaunchInvariantStep, PTL DEF Spec

\* The variables have their types: from the resolution on a command has a host and
\* a gateway, and a launch has a key.
THEOREM LaunchTypesCorrect == Spec => []LaunchTypeOK
<1>1. LaunchInv => LaunchTypeOK
      BY DEF LaunchInv
<1> QED BY <1>1, LaunchInvariance, PTL

\* For any environment of the shell and any depth of engines within engines, an
\* engine finds each of its three variables once, with the value it was given.
THEOREM EnginesFindTheirVariables == Spec => []ChildSeesOwnVariables
<1>1. LaunchInv => ChildSeesOwnVariables
      BY DEF LaunchInv
<1> QED BY <1>1, LaunchInvariance, PTL

\* The handshake drops the request of an engine around it, in whichever platform's
\* reading of names, so an override is never taken for one that does not answer.
LEMMA HandshakeAnswers == \A environment : Answers(HandshakeEnvironment(environment))
<1>1. SUFFICES ASSUME NEW environment PROVE Answers(HandshakeEnvironment(environment))
      OBVIOUS
<1> DEFINE kept == HandshakeEnvironment(environment)
<1>2. \A i \in DOMAIN kept : kept[i][1] # RequestEnv
      BY DEF HandshakeEnvironment, EnvironmentWithout, Restrict
<1>3. \A name : Folded(name) = RequestEnv => name = RequestEnv
      BY DEF Folded, CredentialEnv, RequestEnv
<1> QED BY <1>2, <1>3 DEF Answers, Occurrences

\* An override is refused only when it cannot serve the command.
THEOREM OverridesRefusedForWhatTheyAre == Spec => RefusedOverrideDoesNotServe
<1>1. ASSUME LaunchInv, [Next]_vars, job.pc = "engine", job'.pc = "idle"
      PROVE  ~Serves(override, job.harness)
  <2>1. ResolveEngine
    <3>1. job' # job /\ ~(UNCHANGED vars)
          BY <1>1 DEF vars
    <3> QED BY <1>1, <3>1
            DEF Next, Begin, ResolveHostname, ReadCredential, Load, CreateAndBind, Launch, Exit,
                AuthLogin, AuthUse, ChangeOverride
  <2>2. job' = Idle \/ job' = [job EXCEPT !.pc = "hostname", !.overridden = override # None]
        BY <2>1 DEF ResolveEngine
  <2>3. job \in Jobs
        BY <1>1 DEF LaunchInv, LaunchTypeOK
  <2>4. job' # [job EXCEPT !.pc = "hostname", !.overridden = override # None]
        BY <1>1, <2>3 DEF Jobs
  <2>5. ~ValidateOverride(job.harness)
        BY <2>1, <2>4 DEF ResolveEngine
  <2> QED BY <2>5, HandshakeAnswers DEF ValidateOverride, Serves, Required
<1> QED BY <1>1, LaunchInvariance, PTL DEF Spec, RefusedOverrideDoesNotServe

\* A key command with a flag or a variable lacks a credential only where no login
\* with the same two was made, or the last one asked for a token of type oauth;
\* without both, also if another host is selected.
THEOREM LoginsSuffice == Spec => LoginSuffices
<1>1. ASSUME LaunchInv, [Next]_vars, job.pc = "credential", job'.pc = "idle"
      PROVE  LacksLogin
  <2>1. job \in Jobs /\ job.host # <<>>
        BY <1>1 DEF LaunchInv, LaunchTypeOK
  <2>2. ReadCredential
    <3>1. job' # job /\ ~(UNCHANGED vars)
          BY <1>1 DEF vars
    <3> QED BY <1>1, <3>1
            DEF Next, Begin, ResolveEngine, ResolveHostname, Load, CreateAndBind, Launch, Exit,
                AuthLogin, AuthUse, ChangeOverride
  <2>3. ~HasCredential(accounts[job.host])
    <3>1. \A pc : job' = [job EXCEPT !.pc = pc] => job'.pc = pc
          BY <2>1 DEF Jobs
    <3> QED BY <1>1, <2>2, <3>1 DEF ReadCredential
  <2>4. job.host \in Consoles
        BY <2>1 DEF Jobs
  <2>5. accounts[job.host] \in {NoLogin, TokenAsOAuth}
        BY <1>1, <2>3, <2>4 DEF LaunchInv, StoredCredentials
  <2> DEFINE login == NormalizeHostname(LoginHostname(job.flag, job.env))
  <2>6. ASSUME job.flag # <<>> \/ job.env # <<>> PROVE job.host = login
    <3>1. PICK selection \in Selections :
            job.host = ResolveManagementHostname(job.flag, job.env, selection)
          BY <1>1 DEF LaunchInv, HostResolved
    <3>2. job.flag \in Flags /\ job.env \in HostEnvs
          BY <1>1 DEF LaunchInv, HostResolved
    <3>3. /\ job.flag \in Seq(Tokens) /\ job.env \in Seq(Tokens)
          /\ selection \in Seq(Tokens) /\ DefaultHost \in Seq(Tokens)
          BY <3>2, NamesOfTokens
    <3> QED BY <2>1, <2>6, <3>1, <3>3, LoginMeansTheSameHost
  <2> HIDE DEF login
  <2>7. job.host = login \/ (job.flag = <<>> /\ job.env = <<>> /\ job.host # login)
        BY <2>6
  <2>8. accounts[login] \in {NoLogin, TokenAsOAuth} \/ (job.flag = <<>> /\ job.env = <<>> /\ job.host # login)
        BY <2>5, <2>7
  <2> QED BY <2>8 DEF LacksLogin, login
<1> QED BY <1>1, LaunchInvariance, PTL DEF Spec, LoginSuffices

\* Where the names of hosts are plain, an engine gets the key of the console whose
\* gateway it is sent to, and no other console but a local one has that gateway.
THEOREM KeysGoHome == ASSUME PlainNames PROVE Spec => []LaunchGoesHome
<1>1. ASSUME LaunchInv PROVE LaunchGoesHome
  <2>1. SUFFICES ASSUME job.pc = "launched"
                 PROVE  /\ GatewayEndpoint(job.key) = job.gateway
                        /\ \A console \in Consoles :
                             GatewayEndpoint(console) = job.gateway
                               => console = job.key \/ {console, job.key} \subseteq LocalConsoles
        BY DEF LaunchGoesHome
  <2>2. /\ job.host \in Consoles /\ job.key \in Consoles
        /\ job.gateway = GatewayEndpoint(job.host) /\ job.gateway # Refused
        /\ BindingFileName(job.key) = BindingFileName(job.host)
        /\ GatewayEndpoint(job.key) # Refused
        BY <1>1, <2>1 DEF LaunchInv, LaunchTypeOK, Jobs, HostResolved, BindingsHome
  <2>3. \A console \in Consoles : console \in Seq(Tokens) /\ Plain(console)
        BY NamesOfTokens, PlainNames DEF PlainNames
  <2>4. job.key = job.host
        BY <2>2, <2>3, FileTellsApart
  <2>5. ASSUME NEW console \in Consoles, GatewayEndpoint(console) = job.gateway
        PROVE  console = job.key \/ {console, job.key} \subseteq LocalConsoles
    <3>1. /\ GatewayEndpoint(console) = GatewayEndpoint(job.key)
          /\ GatewayEndpoint(console) # Refused
          BY <2>2, <2>4, <2>5
    <3>2. NormalizeHostname(console) = console /\ NormalizeHostname(job.key) = job.key
          BY <2>2, <2>3 DEF Plain
    <3> QED BY <2>2, <2>3, <3>1, <3>2, GatewayTellsApart
  <2> QED BY <2>2, <2>4, <2>5
<1> QED BY <1>1, LaunchInvariance, PTL
=============================================================================
