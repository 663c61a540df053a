# TLA+ models of tokener-cli

These modules model the parts of `tokener` that keep state: the agent key
lifecycle, atomic file replacement, the cache of embedded engines, the launch of
an engine, and the snapshot lock that pins the embedded ones. Paths are relative to the repository.

| Module | What it is |
| --- | --- |
| `AgentKeys` | `agent`, `agent key login`, `agent key regenerate` as concurrent processes over the console, the binding files and `hosts.yml` |
| `KeyLifecycle` | what those commands promise together about a key; `AgentKeys` implements it |
| `AgentKeysProofs` | the inductive invariant of `AgentKeys`, its safety theorems and the implementation theorem |
| `OneCommandProofs` | what holds of `AgentKeys` when commands run one at a time |
| `DurableKeys` | `AgentKeys` whose saves are calls of `AtomicReplace`, with power losses and a user who repairs |
| `DurableKeysProofs` | its inductive invariant, and what of the above survives power losses |
| `HostNames` | what the code derives from a host name: its normal form, gateway, binding file; which host a command means |
| `HostNamesProofs` | for every name: gateways and files tell hosts apart, a login means the host that the key commands mean |
| `AgentLaunch` | from `auth login` over key, override and handshake to a launched, perhaps nested engine, over `HostNames` |
| `AgentLaunchProofs` | its inductive invariant and a theorem for each of its properties |
| `AtomicFile` | `atomicfile.Write`, one step per system call, with failures, kills and power losses |
| `AtomicReplace` | the atomic replacement it promises; `AtomicFile` implements it |
| `AtomicFileProofs` | invariant, safety and implementation theorems of `AtomicFile` |
| `EngineCache` | `embeddedEngine.Resolve` of many processes over `AtomicFile` |
| `EngineStore` | what the cache promises about an entry; `EngineCache` implements it |
| `EngineCacheProofs` | invariant, safety and implementation theorems of the cache |
| `SnapshotLock` | `rxmanifest pull`, `write`, `verify`, and what a build embeds |
| `SnapshotLockProofs` | its inductive invariants, for concurrent runs and for one maintainer, and its safety theorems |
| `MC*` | instances of these for TLC: symmetry sets, tuples of model values |

## 1. Inventory

### Components

**Agent key lifecycle** (`internal/agent/keys.go`, `command.go`). State: none of
its own between commands. A command carries a host, the credential of an account,
the binding document it read and the key it created. Operations: `runAgent`,
`bindKey` (login and regenerate), `revokeBoundKey`, `createAndBind`, `statusKey`.
It calls the console (create, revoke), the binding store and the engine. Hard:
no lock is held, every process acts on what it read some requests ago, a reply
may be lost after the console acted, and a command may die between revocation,
creation and save. Correct when: keys never cross hosts, a revoked key does not
stay bound unnoticed, no active key is dropped silently, and repeating
`regenerate` gets out of every failure.

**Binding store** (`binding.go`). State: one file for each host and the legacy
`agent-key.json`, read for the default host only and never written. Operations:
`Load`, `Save`. Correct when: a document replaces the other as a whole, and the
legacy file stands in for the default host only.

**Host and gateway resolution** (`host.go`). Reads `hosts.yml` (selection and
credentials, written by `auth` commands of the lathe library), the `--hostname`
flag and `TOKENER_HOST`. It is read once more for the credential and once more
after a prompt, so its answer may change within a command. Maps a host to its
gateway and (`binding.go`) to its binding file. `auth login` gets its host and auth type
from another piece of code (`cmd/tokener/main.go`). Correct when: distinct consoles
have distinct gateways and files, and a login serves the key command that follows.

**Engine launch and override** (`launch.go`, `engine.go:42-54`). State: the environment a
command inherits, the file that `TOKENER_RX` names. Operations: `validateOverride`,
`launchSpec`. Hard: a command may run inside an engine it launched, with that
engine's variables; the override may be replaced after its handshake, and is not looked
at again. Correct when: the engine finds its own three variables once each and is sent to
the gateway of its key's console, and an override is refused for what it is only.

**Atomic replacement** (`internal/atomicfile`). State: a temporary file for each
call. Operation: `Write`, seven system calls with two deferred ones. Correct
when: a reader or a reboot finds the old file or the new one, whole and with its
mode, and failures leave nothing behind.

**Engine cache** (`engine.go`). State: `<cache>/engines/<digest>/rx`, shared by all
processes and all installed versions. Operation: `Resolve`. Hard: simultaneous
extraction, Windows refusing to replace a running engine, a damaged entry.
Correct when: a returned engine is the embedded one and executable, processes do
not make each other fail, and a damaged entry is repaired.

**Engine snapshot** (`internal/rxsnapshot`, `internal/cmd/rxmanifest`,
`rx_snapshot.go`). State: four artifacts and `rx.lock.json` in the working tree,
a release upstream, and the lock and engine that a build embeds. Operations:
`pull`, `write`, `verify`, and Resolve's check of the embedded digest. Hard: a pull
is some fifteen requests and file operations with no transaction around them.
Correct when: the lock names one build, success means lock and files agree, and a
build from any intermediate tree runs the pinned engine or none.

**Not modelled**: generated management commands (`internal/generated`: tables for
a library), the GitHub workflows apart from the rxmanifest commands they call,
assets, skills and overlays (data), where the configuration and cache directories
are, and `agent key status` (it reads only).

### How they interact

`agent` resolves an engine (engine cache or override), then a host (`hosts.yml`), then a
binding (files), then executes the engine with the binding's key. `login` and
`regenerate` resolve an engine, a host and a credential, then read, revoke, create
and save. Bindings, engines, artifacts and the lock are all written by
`atomicfile.Write`. The engine cache takes its data and its digest from what the
build embedded, which is what `rxmanifest` left in the tree. `SaveBinding`,
`InstallArtifact` and `WriteSnapshot` are one step in their models because
`AtomicFile` is shown to implement an atomic replacement; `DurableKeys` joins the
commands with that replacement to say what a power loss does to a binding; `EngineCache` keeps the
system calls apart, because it also reads and changes the file around them.

## 2. The models

### AgentKeys

A slot `p` of `Procs` is one running command; `job[p]` holds its program counter
and its local variables. The order of the steps is the order of the calls:

| Action | Code |
| --- | --- |
| `Begin` | a command with its flag or `TOKENER_HOST`, or neither |
| `ResolveEngine` | `engine.Resolve` |
| `ResolveHostname`, `ReadCredential` | `resolveManagementHostname`, `gatewayEndpointFor`; the second read of `hosts.yml` in `resolveAgentTarget` |
| `LoadHostFile`, `LoadLegacyFile` | the two reads of `Load`; `AfterLoad` is what each command does with the answer |
| `Confirm` | the prompt of `agent`, after which host and credential are resolved anew and nothing is loaded again |
| `RevokeBoundKey`, `RevokeReplyLost` | `revokeBoundKey`: done, refused, already gone; or done with the reply lost |
| `CreateKey`, `CreateReplyLost` | `createKeyRequest`: with an id or without; or issued with the reply lost |
| `SaveBinding`, `Launch` | `Save`; the engine started with the loaded key |
| `Interrupt` | the command dies, or a step fails without effect |
| `AuthUse`, `AuthLogin`, `DamageBinding`, `WithdrawKey` | what is done outside these commands |

The console is modelled from how the code uses it: a key belongs to the host and
the account that created it, a revocation is answered with success,
`api_key_revoked` or `api_key_not_found`. `installed`, `stranded` and `faults` are
history variables: keys that have been a binding, revoked bindings whose
`regenerate` died, and how many things went wrong.

### DurableKeys

Every action is an action of `AgentKeys` joined with one of `AtomicReplace`, on whose
files `AgentKeys`' `file` is defined (`File`): `CreateKey` also invokes the replacement,
`SaveBinding` commits it, `SaveFails` rejects it, a kill within `Save` drops it. `PowerLoss`
is new: it ends every command and lets every binding fall back to a file it had
since its directory last reached the disk (`Settle`), while the console keeps what
it knows. `AuthUse` and `AuthLogin` are left out there: `hosts.yml` is the same at every
read of a command, and what its changes do is `AgentKeys`' subject.
`undone` remembers the hosts whose last save was taken back so.

### HostNames and AgentLaunch

A name is a sequence of tokens, `<<"console", "-", "eu", ".", "dev">>`, so prefixes, the
cut at the first dot and the replaced punctuation are what they are in the code.
`NormalizeHostname` belongs to the lathe library and is modelled from its callers.

`AgentLaunch` runs one command at a time, because what it asks about is names and
sequences of commands; the concurrent ones are in `AgentKeys`. A key is known by
the console that issued it. An environment maps places to entries,
a variable with the engine's own value or another; the order of the places is the order of
the entries, and a place may be empty, which is how `environmentWithout` leaves out an
entry. A shell's entries have places up to 0 and `launchSpec` appends its three at 1, 2 and
3. An engine's environment passed on to a command has them there already, among those that
`environmentWithout` takes out; nothing else is ever behind 0, which `OwnComeLast` says.
`hosts.yml` has the type a login is stored under, and whether the login asked for a token of
type `oauth`: `configureAuthLogin` lets an explicit `--auth-type` stand (`main_test.go` tests that
case), and `hasCredential` knows no such type, so the key commands refuse it.
`ExecEnvironment` is what a process gets from it on
POSIX and on Windows, where names have no case. `Exit` may let the next command run
inside the engine, with the engine's environment. `ChangeOverride`, `AuthLogin` and
`AuthUse` may come between any two steps of a command. The handshake answers what the override
is and never fails for a passing reason, and `Launch` starts whatever is at the override's path.

| Action | Code |
| --- | --- |
| `ResolveEngine` | `Resolve` up to the override, `validateOverride` |
| `ResolveHostname`, `ReadCredential` | `resolveManagementHostname`, `gatewayEndpointFor`, `hasCredential` |
| `Load`, `CreateAndBind` | binding by file name, legacy file; `agent` without a binding ends here |
| `Launch` | `launchSpec`, `execProcess` |
| `AuthLogin` | `configureAuthLogin`, and the login that lathe performs then |

### AtomicFile and EngineCache

`AtomicFile` has a step for each system call of `Write`. The file system's
promises are named in the module's heading: synced data survives, a rename
survives only after the directory was written out (`Flush`), and the data of a
file that was not synced may be lost. `PowerLoss` picks for every path one of the
files it may fall back to, and ends every call. Data is in a file as a whole or
is `Torn`; a partial write is `Torn` until `WriteTemp` has finished.

`EngineCache` adds the steps of `Resolve` around the call, the failures of its own system
calls (`FailResolve`: a read, `PrivateDir`, `Chmod`), and `running`, the
engines being executed, which Windows does not let anyone replace
(`ReplaceBusy`). A digest, its path and the data that has it are the same model
value. `EngineStore` knows of an entry only whether it is missing, bad, without its
mode or good; `Replace` and `MakeExecutable` map to `Provide`, the two comparisons that end in
success to `Find`, failures that are faults to `Break`, and every other system call to a
stutter.

### SnapshotLock

Targets are taken in the order of both tables in the code (`1..Last`). A run of
rxmanifest is at one target of one loop: fetch and install, digest, verify. An
artifact is known by the commit it was built from. `Disturbances` says what a
configuration lets happen: failures and kills, a tag moved, an asset replaced, an
artifact edited, the lock damaged. `touched` remembers which runs were not alone, and
`meddled` whether anything but a pull has changed the tree. A tag is a commit or one
tag object of a commit, which `resolveRevision` follows, or it is nested once more,
which it refuses. `Build` embeds the lock and one platform's artifact, at any moment;
`Accepts` is what `Resolve` then demands of the two.

## 3. What is checked

Bounds are the constants of each `.cfg`. `Keys` bounds how many keys the console
can issue, `MaxFaults` everything that goes wrong, `Procs`, `Writers` and `Runs` the
processes.

| Run | Properties | Instance | Shows |
| --- | --- | --- | --- |
| KeysSequential | `ActiveKeysBounded`, `CreatesOnlyWhenNoneConfigured` | 1 command of any kind at a time, 3 hosts (1 unsupported), 1 account, 4 keys, 1 fault, no switch of hosts under `agent`'s prompt | live keys do not pile up beyond one for each fault; `login` and the creation `agent` offers replace nothing |
| KeysConcurrent | `TypeOK`, `RevokedBindingHasOwner`, `ReplacedKeyWasRevoked`, `ImplementsLifecycle` | 2 commands of every kind, 1 host, 2 accounts, 3 keys, 1 fault | a revoked key stays bound only under a running or dead regenerate; an active key is replaced only if the binding changed meanwhile, the key has no id, or another account is logged in; failing commands implement `KeyLifecycle` |
| KeysHosts | `HostIsolation`, `ImplementsLifecycle` | 2 commands of every kind, 2 hosts, 1 account, 3 keys, no fault, switching hosts | no key crosses hosts; the commands implement `KeyLifecycle` on several hosts too |
| KeysDurable | `RevokedBindingHasCause`, `LiveKeysBounded`, `EventuallyUsable` | 1 user with every command, 4 keys, 2 faults, power losses among them | a revoked binding was stranded or brought back; losses pile up no live keys; repeating `regenerate` always ends in a usable binding |
| AgentLaunch | `LaunchTypeOK`, `LaunchGoesHome`, `LoginSuffices`, `ChildSeesOwnVariables`, `RefusedOverrideDoesNotServe` | 8 host names in every form, every kind of login, 6 overrides, POSIX and Windows, nested commands, 2 changes by the user | keys go to their own gateway; a login serves the next key command; engines find their own variables; an override is refused only for what it cannot do |
| AtomicFile | `FileTypeOK`, `NeverTorn`, `LitterNeedsDeath`, `ImplementsReplacement` | 2 writers, 1 path, 2 contents, 2 modes, 2 faults | Write is an atomic replacement and cleans up |
| EngineSameBuild | `EngineTypeOK`, `FailureNeedsFault`, `EngineRecovers`, `ImplementsStore` | 3 processes of one build, Windows, 1 fault | nobody fails because of others; every run gets an engine in the end; the cache implements `EngineStore` |
| EngineTwoBuilds | `ReturnedEngineGood`, `GoodStaysGood` | 3 processes of 2 builds, POSIX, 2 faults | a returned engine is good and stays so; extraction spoils no engine |
| SnapshotPull | `LockIsOneBuild`, `AcceptedEngineIsPinned`, `EventuallyPinned` | 1 run of pull, 2 releases, 3 targets, 2 builds, 2 failures or damaged locks | the lock is never mixed; a build never runs an engine off its lock; later pulls complete |
| SnapshotShared | `SnapshotTypeOK`, `OkMeansConsistent`, `AllOkMeansConsistent` | 2 runs of every command, 1 release, 2 targets, every disturbance, 2 of them | success means lock and artifacts agree; concurrent pulls without a reported failure leave a consistent tree |
| KeysLoginRace, KeysDamagedBinding | see below | 2 logins; 1 command and a damaged file | where the code departs from its help texts |

Why these bounds are enough to be of interest: two processes suffice for every
check-then-act and every lost update of a pair of commands, a third engine
process is one that runs while two install; one fault strands a command at any
of its steps and the second hits the one that follows; a default host, another and an
unsupported one cover every branch of the resolution (the last fails before it touches
anything, so KeysHosts does without it), and one account suffices where no property
is about accounts, which KeysConcurrent has two of; two targets are a first and a last one, and
a third is one in between. With three keys two concurrent commands can each create
one over a legacy key; the fourth of `KeysSequential` and `KeysDurable` is for the command
after a failed one. The hosts of `AgentLaunch` differ pairwise in label, domain, port or
scheme only; two changes are a login and one more, or an override set and replaced;
three flags, three values of `TOKENER_HOST` and three selections bring the names in;
`MaxChanges` does not bound commands, launches and their nesting. Longer histories are what the proofs are for.

Symmetry is used in runs without liveness properties only. `KeySymmetry` permutes
the keys that are no legacy key and the processes, `BuildSymmetry` the processes of
one build, `RunSymmetry` the runs and the commits that have a version: the
specifications do not tell these apart.

### Disagreements between the code and what is said of it

* **KeysLoginRace** violates `CreatesOnlyWhenNoneConfigured`: two logins (or a
  login and the creation `agent` offers) both find nothing bound, and the second
  replaces the first one's key, which stays active. `keys.go:41` says "when none is
  configured"; the check is at `keys.go:94`, the creation at `keys.go:106`.
* **KeysDamagedBinding** violates `RegenerateRevokesBoundKey`: `keys.go:111` takes a
  binding that cannot be read for none, so the bound key is not revoked, nothing
  is printed, and the only record of it is replaced. `keys.go:44` says "Revoke the
  bound agent key and bind a new one". That the damaged file can be replaced at
  all is useful, and `EventuallyUsable` depends on it; that it is silent is the point.

Two more cases in which the code does not do what one may expect are hypotheses of
properties, because no document of the repository speaks of them:

* `agent` looks for a binding on the host it resolved before its prompt and creates one on
  the host it resolves after it (`command.go:145`, `command.go:169`). An `auth use` at the prompt
  makes it replace, on the other host, a binding it never looked at, whose key stays active.
  `CreatesOnlyWhenNoneConfigured` and `ActiveKeysBounded` are false of such a behaviour, with one
  command and no fault; run KeysSequential and the theorems have `SteadySpec`, in which the
  host is not switched at those four steps. Everything else that `agent` may meet is in.
* `auth login --with-token --auth-type oauth` stores a login that the key commands refuse
  (`main.go:79`, `host.go:107-118`). `LoginSuffices` says so: it excepts a console whose last login
  was that one, and no other.

### Fairness

`DurableKeys!RepairSpec`, `EngineFairSpec` and `SnapshotLock!RepairSpec` assume weak fairness of the steps of a
started process. That is what the scheduler of the operating system gives: no step
waits for another process, and the console's or GitHub's silence ends as a failed
request (a fault). They also assume a user who goes on: that of
`DurableKeys` runs any command but, while the binding is not usable, does not for ever
put off a `regenerate` (strong fairness of `Repair`: the other commands disable it
while they run), and stays logged in; `EngineFairSpec`'s runs a command again once
the last one has ended, and `SnapshotLock`'s repeats the pull. Faults are finite (`MaxFaults`) and never assumed
to happen. Other commands of `DurableKeys`' user run
as long as the bound `Keys` leaves one key for each fault to come and one for the repair (a
real console does not run out of keys). Its "for good" holds for that reason: what it shows is that a usable binding
comes back after the last fault; where keys never run out, every further `regenerate` takes it
away again between its revocation and its save. KeysSequential, KeysConcurrent and the other
runs check deadlock: the user can always do something more.

## 4. What is proved

Every safety property of the passing runs is a theorem, and both implementations
of an abstract specification by system calls, `AtomicFile` and `EngineCache`, as well as
that of `KeyLifecycle`, are proved step by step. The theorems hold for any sets of processes,
hosts, accounts, keys, paths, contents, builds, runs, tags, commits, host names, overrides
and shell environments, any number of targets and any bounds on faults and changes, under
the named assumptions of the modules:

| Assumption | Says |
| --- | --- |
| `ConstantsAssumption`, `DurableAssumption` | `None` and `Damaged` are no host, account, key or file; the default host is supported |
| `FileAssumption`, `EngineAssumption` | `None` and `Torn` are no content, file, call or result; there are finitely many writers; each process has an engine, whose digest names its path |
| `SnapshotAssumption`, `LockAssumption` | there is a target; the engines that differ from every release, `None` and `Damaged` are none of the other values |
| `LaunchAssumption` | host names are sequences of words; a user may give them, blanks or nothing; a shell's entries have places up to 0 |

TLC evaluates each of them on the instances of section 3. Some theorems have a hypothesis
more, named below and true of the run that checks their property: `OneCommand` and
`OneAccount`, `OneMaintainer`, `PlainNames`. Two are about `SteadySpec` instead of `Spec`.

**AgentKeys.** `TypeOK` and `RevokedBindingHasOwner` are not inductive: nothing in
them says that a key about to be saved is not the one somebody else has bound and
revoked. `IInv` is `RevokedBindingHasOwner` and `CoreInv`, which adds

* `JobShape`: which fields a command has at which step;
* `CreatedFresh`: a created key belongs to its command alone until it is saved,
  was never installed and not revoked by the CLI;
* `DocumentInstalled`, `BindingInstalled`: every key that is read or bound has been
  installed, and its console is the one of its host;
* `RevokedFirst`: by the time a regenerate creates a key, the one it read is not
  active, or has no id, or is another account's.

From it: `TypeCorrect`, `RevokedBindingsHaveOwners`, `HostsAreIsolated`,
`ReplacedKeysWereRevoked`, and `LifecycleImplemented`, which maps `CreateKey` (and its
lost reply) to `Issue`, `SaveBinding` to `Bind`, a successful revocation to `Retire`,
and the rest to stutters. That the created key was never used and its issuer is the
host it is saved for, which `Bind` demands, is `CreatedFresh`.

**One command at a time.** `OneCommand` says that there is one process, and `SteadySpec` that no
`auth use` switches the host between the two times that `agent` resolves it: that is the case in
which the code does replace a binding it has not looked at (section 3). `OneAccount` says that
there is one account:
a `regenerate` for another one cannot find the bound key, so after a change of accounts and
back an account has two live keys and nothing went wrong. Without any of the three the
properties are false, as KeysLoginRace shows of two processes. Hosts may be any number, also
with `agent` among the commands, and the host may be switched at any other step.

`ReadStays` is what a lone command may rely on: what it has read of its host still holds until
it saves, or the file has been damaged; and the host `agent` resolves after its prompt is the one
it resolved before. `CreatesWhereNoneIs` follows. For `ActiveKeysBounded`
the keys to count are those that no regenerate will ever revoke (`Surplus`): live, and without
an id or neither bound nor about to be. `SurplusExplained` says that a host has no more of them
than things went wrong, and the legacy key. A step adds one at most, and then counts a fault
(`Accounted`); the step that might add one without a fault is `SaveBinding`, which drops the
key bound before, and `BoundNotLive` (from `ReadStays` and `RevokedFirst`) says that this one is
revoked or without an id. All other live keys are the bound one or, while a command saves, the
created one, never both: `LiveKeysDoNotPileUp`.

**DurableKeys.** With power losses, `RevokedBindingHasOwner` is false and
`RevokedBindingHasCause` allows a third cause. `CoreInv` still holds of the commands, on the
files they see, and its lemmas are used as they are: `DurableKeysProofs` instantiates
`OneCommandProofs`, and `AgentKeysProofs` with it, with `file <- File`. What is added is about the files:

* `RecentGenuine`: whatever a power loss may bring back at a host was its binding
  before, so it has been installed and its console is that host's;
* `SaveUnderWay`: a command is in `Save` exactly while a replacement of its own is
  pending, with its host and its key.

`DurableInvariance` is that invariant, `RevokedBindingsHaveCauses` the property: a step of a
command keeps an owner (`HasOwner`) or replaces the binding, a power loss that takes a
binding back enters the host in `undone`, and a kill strands the key.
`LiveKeysDoNotPileUpThroughLosses` is `ActiveKeysBounded` there: a power loss makes the command
forget the key it was to save, or takes the binding back; both never cost a host two live keys
with an id, because of `BoundNotLive`. It is about every behaviour of `DurableKeys`, because hosts never switch
there (`SelectionKept`). `RepairIsUse` brings these theorems to `RepairSpec`, which is
what run KeysDurable checks.

**AtomicFile.** `FileInv` says how far the temporary file has come at each step
(`TempProgress`) and that every file a path has or may fall back to is whole and
synced (`DestinationsWhole`). From it: `FileTypesCorrect`,
`DestinationsNeverTorn`, `FailuresLeaveNoLitter`, and `WriteIsAtomic`, where `Replace` is the commit and
every other system call a stutter.

**EngineCache.** `EngineInv` rests on `FileInv`: the steps of `Write` keep it as they are,
and those of `Resolve` that touch files (chmod, damage from outside, a refused rename) are
shown to keep it too, as is a failure of its own calls. It adds that every call writes the caller's own engine at its own
path (`CallsInstall`), that `running` are the processes that returned (`RunningReturned`),
that a path with no outside interference holds nothing but its engine, also after a power
loss (`UntouchedGood`, `CurrentSurvives`), that what was returned stays as it was
(`ReturnedStays`), and, for `FailureNeedsFault`, that without a fault a finished `Write` has
left an engine at the path, its own or the one that is running (`FaultlessInstalls`): this is
why Windows' refused rename never fails a run. From it: `EngineTypesCorrect`,
`ReturnedEnginesAreGood`, `InstallersDoNotFailEachOther`, `GoodEnginesStayGood`, and
`CacheImplementsStore` for the refinement mapping of section 2, whose steps are taken one
system call at a time.

**SnapshotLock.** `SnapshotInv` holds for any number of concurrent runs of every command
under every disturbance. `AloneKnows` says what a run that nobody interfered with knows of
the tree at each step of its loops; it gives `SuccessMeansConsistent`. `ConcurrentPullsAgree`
needs `SomeoneAnswers`: while the tree is not consistent, some run that has not reported
success will not do so before it has found the tree consistent, or before somebody has
changed it again. The last run that
changed the tree is such a run, whichever of the others have finished by then; if all have
reported success, no run is left to answer, so the tree is consistent.

`OneBuildInv` follows one maintainer's pulls over releases that stay as they are: the
targets behind a pull are the release's (`PullsOneBuild`), so are their digests, and every
lock that some build embeds was such a lock (`BinariesOfOneBuild`). `EveryLockIsOneBuild` and
`EveryAcceptedEngineIsPinned` have `OneMaintainer` as their hypothesis, which is what run
SnapshotPull's constants say: one run at a time, pulls and verifies, and no disturbance but
failures and a damaged lock. Without it both are false (section 5).

**HostNames.** Three theorems about names, as sequences of any words. `GatewayTellsApart`:
two names in normal form with the same gateway are the same or both local.
`FileTellsApart`: two plain names that have a gateway have different files; the scheme
cannot be confused with a port, because a name with a gateway begins with `console` or is
local. `LoginMeansTheSameHost`: with a flag or a variable, `configureAuthLogin` and
`resolveManagementHostname` agree although they trim at different moments. The search
operators of the community modules choose the least place; that there is one is proved from
the well-foundedness of the numbers, not by induction over the sequence.

**AgentLaunch.** `LaunchInv` joins these with what a command carries: stored credentials are of
a type the key commands look for, unless the login asked for a token of type `oauth`
(`StoredCredentials`), a host is what the flag and the
variable give with some selection (`HostResolved`), a binding is in the file of its
console's name and a key is launched under it (`BindingsHome`), and only own variables come after a
shell's (`OwnComeLast`); the last is what `ChildSeesOwnVariables` needs on Windows, where the last
entry of a variable wins whatever its case. From it: `LaunchTypesCorrect`,
`EnginesFindTheirVariables`, `OverridesRefusedForWhatTheyAre`,
`LoginsSuffice`, and `KeysGoHome`, which needs the two facts about files and gateways and so
the hypothesis `PlainNames`: every console's name is in normal form and has no
underscore, no path and no scheme but a leading `http://`. TLC evaluates it on run
AgentLaunch's names (`MCPlain`); what it excludes is in section 5.

**Only model-checked.** The liveness properties `EventuallyUsable`, `EngineRecovers` and
`EventuallyPinned`, because proofs under fairness need ENABLED, which TLAPS does not handle.

## 5. What the models leave out

* `AgentKeys` alone takes a save as one step that survives; run KeysDurable, where it may
  not, has one command at a time (`RevokedBindingsHaveCauses` is for any number of them).
* A cached engine with the right digest that lost its execute permission is
  returned as it is (`engine.go:82-84`); `EngineRecovers` says nothing of modes, and
  `EngineStore` has the state.
* Host names are such as the code gets along with: with an underscore, a path or
  capitals in a name, two names could share a file (`binding.go:89`) or a host could
  be refused; `TOKENER_HOST` of blanks is refused by the key commands and taken for
  unset by `auth login`. An empty `--hostname` that is given nevertheless is left out.
* That the override is still the one that answered when it is launched: nothing in the code looks
  again between handshake and launch (`launch.go:75`), so there is no property to state.
* Passing failures of the handshake (a timeout, an override that cannot be started for the moment):
  they end a command as a refusal does, and `RefusedOverrideDoesNotServe` is about refusals that
  the override's nature decides.
* Engines edited by hand in run SnapshotPull: they are among SnapshotShared's disturbances, where
  nothing is said of liveness.
* A key that is revoked between its load and the launch is launched with
  (`command.go:194`): no check before the launch could rule that out.
* `rxmanifest write` does not verify after it wrote; with a pull beside it, both
  may succeed on a mixed tree. `AllOkMeansConsistent` is for trees that only pulls have
  changed (`~meddled`).
* `LockIsOneBuild` is checked for releases that stay as they are. The tag is
  resolved first (`pull.go:41`) and the assets are fetched by tag name afterwards, so
  one published again in between would be sealed under the old commit; nothing in
  the code would notice, and `README.md:99-101` takes it for granted.
* Errors of printing, and the wording of messages.

## 6. Plan

1. Done: all modules of section 2 with their runs, and the proofs of section 4.
2. Next: the facts that sections 2 and 3 use without a theorem, and the step of each liveness
   argument that is a safety property (what holds from the last fault on).
