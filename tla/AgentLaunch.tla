---------------------------- MODULE AgentLaunch ----------------------------
(***************************************************************************)
(* From `auth login` to a running engine, with real host names: the host a *)
(* command means, the credential and the binding found under its name, the *)
(* TOKENER_RX override and its handshake, and the environment the engine   *)
(* is launched with, also when the command runs inside such an engine.     *)
(*                                                                         *)
(* One command runs at a time (AgentKeys has the concurrent ones), while   *)
(* the user may change what it reads between two of its steps.             *)
(***************************************************************************)
EXTENDS HostNames

CONSTANTS
    Hostnames,    \* the names a user may give, in any form
    Flags,        \* those of them given to --hostname
    HostEnvs,     \* the values of TOKENER_HOST
    Selections,   \* the hosts `auth use` may select
    Harnesses,    \* the harnesses the CLI knows
    Overrides,    \* what TOKENER_RX may name, see Handshake
    Environments, \* the environments a shell may give to the first command
    None,         \* no harness, no credential, no binding, no override
    Unusable,     \* an override that is empty, relative, missing or broken
    MaxChanges    \* bound on logins, selections and changes of the override

\* The variables of the engine's own, and TOKENER_API_KEY spelt as Windows, but
\* not POSIX, takes for the same variable.
RequestEnv == "RX_HOST_REQUEST"
CredentialEnv == "TOKENER_API_KEY"
BetasEnv == "CLAUDE_CODE_DISABLE_EXPERIMENTAL_BETAS"
LowerCaseEnv == "tokener_api_key"
OwnEnv == {RequestEnv, CredentialEnv, BetasEnv}
Variables == OwnEnv \cup {LowerCaseEnv, "PATH"}

\* An environment maps places to entries, which are in the order of their places.
\* A shell's have places up to 0; launchSpec puts its own behind them, from 1 on.
Own == <<<<RequestEnv, "own">>, <<CredentialEnv, "own">>, <<BetasEnv, "own">>>>
Entries == Variables \X {"own", "other"}
Places == (UNION {DOMAIN environment : environment \in Environments}) \cup DOMAIN Own
Environs == UNION {[places -> Entries] : places \in SUBSET Places}

ASSUME LaunchAssumption ==
    /\ Hostnames \subseteq Seq(STRING) /\ DefaultHost \in Hostnames
    /\ Flags \cup HostEnvs \cup Selections \subseteq Hostnames \cup {<<>>, Blank}
    /\ <<>> \in Selections
    /\ {None, Unusable} \subseteq Overrides
    /\ \A environment \in Environments :
         /\ environment \in [DOMAIN environment -> Entries]
         /\ \A i \in DOMAIN environment : i \in Int /\ i <= 0
    /\ MaxChanges \in Nat


VARIABLES
    windows,    \* which platform this is
    accounts,   \* hosts.yml: the login stored for each console, see Accounts
    selected,   \* hosts.yml: the selected host
    bindings,   \* by file name: the console that issued the bound key
    legacy,     \* whether there is an agent-key.json, with a key of the default host
    override,   \* what TOKENER_RX names
    environ,    \* the environment of the command: variables and whose value they have
    job,        \* the running command
    changes     \* how often something was changed around it

vars == <<windows, accounts, selected, bindings, legacy, override, environ, job, changes>>
machine == <<windows, legacy>>
config == <<accounts, selected>>

Consoles == {NormalizeHostname(name) : name \in Hostnames}
Gateways == {GatewayEndpoint(console) : console \in Consoles} \cup {Refused}
BindingFiles == {BindingFileName(console) : console \in Consoles}
Commands == {"agent", "login", "regenerate"}
AuthTypes == {"bearer", "apikey", "basic", "oauth"}

\* The type a login is stored under, and whether it is a token that the user, not
\* a default, wanted stored as oauth.
Accounts == [type : AuthTypes \cup {None}, asOAuth : BOOLEAN]
NoLogin == [type |-> None, asOAuth |-> FALSE]
TokenAsOAuth == [type |-> "oauth", asOAuth |-> TRUE]

Pcs == {"idle", "engine", "hostname", "credential", "load", "bind", "launch", "launched"}

Idle == [pc |-> "idle", cmd |-> None, harness |-> None, flag |-> <<>>, env |-> <<>>,
         overridden |-> FALSE, host |-> <<>>, gateway |-> Refused,
         key |-> None, child |-> <<>>]

Jobs == [pc : Pcs, cmd : Commands \cup {None}, harness : Harnesses \cup {None},
         flag : Flags \cup {<<>>}, env : HostEnvs \cup {<<>>},
         overridden : BOOLEAN, host : Consoles \cup {<<>>}, gateway : Gateways,
         key : Consoles \cup {None}, child : Environs]

LaunchTypeOK ==
    /\ windows \in BOOLEAN /\ legacy \in BOOLEAN
    /\ accounts \in [Consoles -> Accounts]
    /\ selected \in Selections
    /\ bindings \in [BindingFiles -> Consoles \cup {None}]
    /\ override \in Overrides
    /\ environ \in Environs
    /\ job \in Jobs
    /\ job.pc \in {"credential", "load", "bind", "launch", "launched"}
         => job.host # <<>> /\ job.gateway # Refused
    /\ job.pc \in {"launch", "launched"} => job.key # None
    /\ changes \in 0..MaxChanges

-----------------------------------------------------------------------------
(* Environments.                                                             *)

\* The variable that a name stands for on this platform.
Folded(name) == IF windows /\ name = LowerCaseEnv THEN CredentialEnv ELSE name

\* How often a process with this environment finds the variable.
Occurrences(environment, name) ==
    {i \in DOMAIN environment : Folded(environment[i][1]) = name}

EnvironmentWithout(environment, names) ==
    Restrict(environment, {i \in DOMAIN environment : environment[i][1] \notin names})

WithOwn(environment) ==
    [i \in DOMAIN environment \cup DOMAIN Own |-> IF i \in DOMAIN Own THEN Own[i] ELSE environment[i]]

\* Mutant: an inherited credential is not dropped.
LaunchEnvironmentKeepsCredential(base) == WithOwn(EnvironmentWithout(base, {RequestEnv, BetasEnv}))

\* The environment of launchSpec.
LaunchEnvironment(base) == WithOwn(EnvironmentWithout(base, OwnEnv))

\* os/exec keeps the last entry of each variable; syscall.Exec, which replaces
\* the process on POSIX, passes all of them on.
Superseded(environment, i) ==
    \E j \in DOMAIN environment :
      j > i /\ Folded(environment[j][1]) = Folded(environment[i][1])

ExecEnvironment(environment) ==
    IF ~windows THEN environment
    ELSE Restrict(environment, {i \in DOMAIN environment : ~Superseded(environment, i)})

-----------------------------------------------------------------------------
(* The override.                                                             *)

\* Mutant: the handshake inherits the environment as it is.
HandshakeEnvironmentInherited(base) == base

HandshakeEnvironment(base) == EnvironmentWithout(base, {RequestEnv})

\* `rx host` prints its capabilities, unless it finds a request to launch.
Answers(environment) == Occurrences(environment, RequestEnv) = {}

Required(harness) == IF harness = None THEN Harnesses ELSE {harness}

\* validateOverride, and the checks of the path before it.
ValidateOverride(harness) ==
    /\ override # Unusable
    /\ Answers(HandshakeEnvironment(environ))
    /\ override.protocol[1] = 1 /\ override.protocol[2] >= 0
    /\ Required(harness) \subseteq override.harnesses

-----------------------------------------------------------------------------
(* hosts.yml and the bindings.                                               *)

\* hasCredential: which types come with the secret that is looked for.
HasCredential(account) == account.type \in {"bearer", "apikey", "basic"}

\* Mutant: a token does not change the default type.
AskedAuthTypeAlwaysDefault(withToken, authType) == IF authType # None THEN authType ELSE "oauth"

\* --auth-type as configureAuthLogin leaves it.
AskedAuthType(withToken, authType) ==
    IF authType # None THEN authType ELSE IF withToken THEN "bearer" ELSE "oauth"

\* fileBinding.Load: the console whose key is bound, by file or by legacy file.
Bound(host) ==
    IF bindings[BindingFileName(host)] # None THEN bindings[BindingFileName(host)]
    ELSE IF legacy /\ NormalizeHostname(host) = DefaultHost THEN DefaultHost ELSE None

-----------------------------------------------------------------------------
Init ==
    /\ windows \in BOOLEAN
    /\ accounts = [console \in Consoles |-> NoLogin]
    /\ selected = <<>>
    /\ bindings = [file \in BindingFiles |-> None]
    /\ legacy \in BOOLEAN
    /\ override = None
    /\ environ \in Environments
    /\ job = Idle
    /\ changes = 0

\* A command with a harness, a --hostname and a TOKENER_HOST, each of them or not.
Begin ==
    /\ job.pc = "idle"
    /\ \E cmd \in Commands, harness \in Harnesses \cup {None}, flag \in Flags, env \in HostEnvs :
         /\ cmd # "agent" => harness = None
         /\ job' = [Idle EXCEPT !.pc = "engine", !.cmd = cmd, !.harness = harness,
                                !.flag = flag, !.env = env]
    /\ UNCHANGED <<machine, config, bindings, override, environ, changes>>

\* engine.Resolve: the override if it is set, or else the embedded engine.
ResolveEngine ==
    /\ job.pc = "engine"
    /\ job' = IF override # None /\ ~ValidateOverride(job.harness) THEN Idle
              ELSE [job EXCEPT !.pc = "hostname", !.overridden = override # None]
    /\ UNCHANGED <<machine, config, bindings, override, environ, changes>>

\* resolveManagementHostname and gatewayEndpointFor.
ResolveHostname ==
    /\ job.pc = "hostname"
    /\ LET host == ResolveManagementHostname(job.flag, job.env, selected)
           gateway == GatewayEndpoint(host)
       IN  job' = IF gateway = Refused THEN Idle
                  ELSE [job EXCEPT !.host = host, !.gateway = gateway,
                                   !.pc = IF job.cmd = "agent" THEN "load" ELSE "credential"]
    /\ UNCHANGED <<machine, config, bindings, override, environ, changes>>

ReadCredential ==
    /\ job.pc = "credential"
    /\ job' = IF ~HasCredential(accounts[job.host]) THEN Idle
              ELSE [job EXCEPT !.pc = IF job.cmd = "login" THEN "load" ELSE "bind"]
    /\ UNCHANGED <<machine, config, bindings, override, environ, changes>>

\* Mutant: `agent` goes on without a key.
LoadUnchecked ==
    /\ job.pc = "load"
    /\ job' = IF job.cmd = "agent" THEN [job EXCEPT !.pc = "launch", !.key = Bound(job.host)]
              ELSE [job EXCEPT !.pc = "bind"]
    /\ UNCHANGED <<machine, config, bindings, override, environ, changes>>

\* `agent` needs a key (its offer to create one is in AgentKeys) and `login` needs
\* that there is none.
Load ==
    /\ job.pc = "load"
    /\ job' = CASE job.cmd = "agent" /\ Bound(job.host) # None ->
                     [job EXCEPT !.pc = "launch", !.key = Bound(job.host)]
                [] job.cmd = "login" /\ Bound(job.host) = None -> [job EXCEPT !.pc = "bind"]
                [] OTHER -> Idle
    /\ UNCHANGED <<machine, config, bindings, override, environ, changes>>

\* createAndBind: a key of the resolved host's console in that host's file.
CreateAndBind ==
    /\ job.pc = "bind"
    /\ bindings' = [bindings EXCEPT ![BindingFileName(job.host)] = job.host]
    /\ job' = Idle
    /\ UNCHANGED <<machine, config, override, environ, changes>>

\* launchEngine: the file at the override's path, whatever it is by now.
Launch ==
    /\ job.pc = "launch"
    /\ job' = IF job.overridden /\ override = Unusable THEN Idle
              ELSE [job EXCEPT !.pc = "launched",
                               !.child = ExecEnvironment(LaunchEnvironment(environ))]
    /\ UNCHANGED <<machine, config, bindings, override, environ, changes>>

\* The engine ends, or goes on running and has the next command run inside it,
\* with its own environment.
Exit ==
    /\ job.pc = "launched"
    /\ job' = Idle
    /\ environ' \in {environ, [i \in DOMAIN job.child |-> <<job.child[i][1], "other">>]}
    /\ UNCHANGED <<machine, config, bindings, override, changes>>

-----------------------------------------------------------------------------
(* What the user changes, between commands or under a running one.           *)

Change == changes < MaxChanges /\ changes' = changes + 1

\* `auth login` at a host, with any --auth-type or none.  A browser login, which
\* is what oauth without a token means, stores a bearer token; every other login
\* stores its secret under the type asked for, a token under oauth as well.
AuthLogin ==
    /\ Change
    /\ \E flag \in Flags, env \in HostEnvs, withToken \in BOOLEAN, authType \in AuthTypes \cup {None} :
         LET console == NormalizeHostname(LoginHostname(flag, env))
             type == AskedAuthType(withToken, authType)
         IN  accounts' = [accounts EXCEPT ![console] =
                           [type |-> IF type = "oauth" /\ ~withToken THEN "bearer" ELSE type,
                            asOAuth |-> authType = "oauth" /\ withToken]]
    /\ UNCHANGED <<machine, selected, bindings, override, environ, job>>

AuthUse ==
    /\ Change
    /\ selected' \in Selections \ {selected}
    /\ UNCHANGED <<machine, accounts, bindings, override, environ, job>>

\* TOKENER_RX is set or unset for the next command, or its file is built anew.
ChangeOverride ==
    /\ Change
    /\ override' \in Overrides \ {override}
    /\ None \in {override, override'} => job.pc = "idle"
    /\ UNCHANGED <<machine, config, bindings, environ, job>>

Next ==
    \/ Begin \/ ResolveEngine \/ ResolveHostname \/ ReadCredential
    \/ Load \/ CreateAndBind \/ Launch \/ Exit
    \/ AuthLogin \/ AuthUse \/ ChangeOverride

Spec == Init /\ [][Next]_vars

-----------------------------------------------------------------------------
(* Safety.                                                                   *)

\* The engine gets the key of the console whose gateway it is sent to, and that
\* gateway belongs to no other console: only the names of the local console
\* share one (README: "Agent keys stay in per-host config files").  This rests
\* on the names of hosts, files and gateways all telling the same hosts apart.
LaunchGoesHome ==
    job.pc = "launched" =>
      /\ GatewayEndpoint(job.key) = job.gateway
      /\ \A console \in Consoles :
           GatewayEndpoint(console) = job.gateway
             => console = job.key \/ {console, job.key} \subseteq LocalConsoles

\* `auth login` and the key commands mean the same host, and the former stores
\* what the latter look for: with the same flag and TOKENER_HOST, a key command
\* lacks a credential only if no such login was made, if the login itself asked
\* for a token of type oauth, which main_test.go lets stand and hasCredential does
\* not know, or, with no flag nor TOKENER_HOST, if another host is selected
\* (SKILL.md: "Defaults to console.tokener.dev.  Use --hostname or $TOKENER_HOST
\* only for another host").
LacksLogin ==
    LET login == NormalizeHostname(LoginHostname(job.flag, job.env))
    IN  \/ accounts[login] \in {NoLogin, TokenAsOAuth}
        \/ job.flag = <<>> /\ job.env = <<>> /\ job.host # login
LoginSuffices ==
    [][job.pc = "credential" /\ job'.pc = "idle" => LacksLogin]_vars

\* However deep commands and engines are nested, and whatever the shell sets, an
\* engine finds each of its three variables exactly once, with its own value.
ChildSeesOwnVariables ==
    job.pc = "launched" =>
      \A name \in OwnEnv :
        \E i \in DOMAIN job.child :
          Occurrences(job.child, name) = {i} /\ job.child[i] = <<name, "own">>

\* What an engine must be able to do for a command: everything, when the command
\* leaves the choice of the harness to the engine.
Serves(engine, harness) ==
    /\ engine # Unusable
    /\ engine.protocol[1] = 1 /\ engine.protocol[2] >= 0
    /\ IF harness = None THEN Harnesses \subseteq engine.harnesses
       ELSE harness \in engine.harnesses

\* An override is refused for what it is, never for where the command runs: an
\* engine that works in a shell works inside another engine.
RefusedOverrideDoesNotServe ==
    [][job.pc = "engine" /\ job'.pc = "idle" => ~Serves(override, job.harness)]_vars

-----------------------------------------------------------------------------
(* The invariant behind these properties.                                    *)

PlainNames == \A console \in Consoles : Plain(console)

\* `auth login` stores what the key commands look for, unless it was asked not to.
StoredCredentials ==
    \A console \in Consoles :
      accounts[console] \in {NoLogin, TokenAsOAuth} \/ HasCredential(accounts[console])

\* A command's host is what its flag and variable gave with some selection.
HostResolved ==
    /\ job.pc # "idle" => job.flag \in Flags /\ job.env \in HostEnvs
    /\ job.pc \in {"credential", "load", "bind", "launch", "launched"} =>
         /\ job.gateway = GatewayEndpoint(job.host)
         /\ \E selection \in Selections :
              job.host = ResolveManagementHostname(job.flag, job.env, selection)

\* A key is bound in a file of its console's name, and is launched under that name.
BindingsHome ==
    /\ \A file \in BindingFiles : bindings[file] # None =>
         BindingFileName(bindings[file]) = file /\ GatewayEndpoint(bindings[file]) # Refused
    /\ job.pc \in {"launch", "launched"} =>
         /\ BindingFileName(job.key) = BindingFileName(job.host)
         /\ GatewayEndpoint(job.key) # Refused

\* Behind the shell's entries there are only the engine's own.
OwnComeLast(environment) == \A i \in DOMAIN environment : i > 0 => environment[i][1] \in OwnEnv

LaunchInv ==
    /\ LaunchTypeOK
    /\ StoredCredentials /\ HostResolved /\ BindingsHome
    /\ OwnComeLast(environ)
    /\ job.pc = "launched" => OwnComeLast(job.child)
    /\ ChildSeesOwnVariables
=============================================================================
