---------------------------- MODULE EngineCache ----------------------------
(***************************************************************************)
(* embeddedEngine.Resolve (internal/agent/engine.go): processes of one or  *)
(* several tokener builds extract the engine they embed to                 *)
(* <cache>/engines/<digest>/rx with atomicfile.Write, of which every       *)
(* system call is a step here (AtomicFile), and return its path.  A        *)
(* process may find the file there already, install it while others do,    *)
(* or meet one that something outside damaged.                             *)
(*                                                                         *)
(* A path is named by the digest it belongs to, and the file there is good *)
(* when its data has that digest: Contents = Paths.  TOKENER_RX (the       *)
(* override) returns before any of this and is not part of the cache.      *)
(***************************************************************************)
EXTENDS AtomicFile

CONSTANTS
    Engine,      \* the digest each process embeds
    Executable,  \* the mode 0700
    Foreign,     \* the data of a file that something else wrote
    ReplaceBusy  \* Windows: a destination that is running cannot be replaced

ASSUME EngineAssumption ==
    /\ Engine \in [Writers -> Paths]
    /\ Executable \in Modes
    /\ Paths \subseteq Contents
    /\ Foreign \in Contents \ Paths
    /\ ReplaceBusy \in BOOLEAN

VARIABLES
    phase,     \* where each process is in Resolve
    running,   \* history: the processes that returned a path and launch it
    meddled    \* history: the paths that something outside has touched

cacheVars == <<phase, running, meddled>>
engineVars == <<fileVars, cacheVars>>

Phases == {"start", "prepare", "install", "recheck", "chmod", "verify", "returned", "failed"}

EngineTypeOK ==
    /\ FileTypeOK
    /\ phase \in [Writers -> Phases]
    /\ running \subseteq Writers
    /\ meddled \subseteq Paths

\* engineFileMatches
Matches(path) == file[path] # None /\ file[path].data = path

Enter(p, next) == phase' = [phase EXCEPT ![p] = next]
Return(p) == Enter(p, "returned") /\ running' = running \cup {p}

-----------------------------------------------------------------------------
EngineInit ==
    /\ FileInit
    /\ phase = [p \in Writers |-> "start"]
    /\ running = {}
    /\ meddled = {}

\* Mutant: a cached file is used whatever it holds.
CheckCacheExists(p) ==
    /\ phase[p] = "start"
    /\ IF file[Engine[p]] # None THEN Return(p) ELSE Enter(p, "prepare") /\ UNCHANGED running
    /\ UNCHANGED <<fileVars, meddled>>

\* A cached file with the right digest is used as it is.
CheckCache(p) ==
    /\ phase[p] = "start"
    /\ IF Matches(Engine[p]) THEN Return(p) ELSE Enter(p, "prepare") /\ UNCHANGED running
    /\ UNCHANGED <<fileVars, meddled>>

\* PrivateDir has the directory (or see FailResolve), and atomicfile.Write is called.
Install(p) ==
    /\ phase[p] = "prepare"
    /\ Write(p, Engine[p], Engine[p], Executable)
    /\ Enter(p, "install")
    /\ UNCHANGED <<running, meddled>>

\* Mutant: every error of Write is final.
InstalledStrict(p) ==
    /\ phase[p] = "install"
    /\ step[p] = "idle"
    /\ Enter(p, IF result[p] = "ok" THEN "chmod" ELSE "failed")
    /\ UNCHANGED <<fileVars, running, meddled>>

\* What Resolve does with Write's answer: a failed rename may mean that another
\* process installed the engine and is running it.
Installed(p) ==
    /\ phase[p] = "install"
    /\ step[p] = "idle"
    /\ Enter(p, CASE result[p] = "ok" -> "chmod"
                  [] result[p] = "linkError" -> "recheck"
                  [] OTHER -> "failed")
    /\ UNCHANGED <<fileVars, running, meddled>>

Recheck(p) ==
    /\ phase[p] = "recheck"
    /\ Enter(p, IF Matches(Engine[p]) THEN "chmod" ELSE "failed")
    /\ UNCHANGED <<fileVars, running, meddled>>

\* os.Chmod(path, 0o700), of whatever file is at the path by now.  It fails where
\* there is none, and may fail where there is one, see FailResolve.
MakeExecutable(p) ==
    /\ phase[p] = "chmod"
    /\ \/ /\ file[Engine[p]] # None
          /\ file' = [file EXCEPT ![Engine[p]].mode = Executable]
          /\ durable' = [durable EXCEPT ![Engine[p]] = @ \cup {file'[Engine[p]]}]
          /\ Enter(p, "verify")
       \/ /\ file[Engine[p]] = None
          /\ Enter(p, "failed")
          /\ UNCHANGED <<file, durable>>
    /\ UNCHANGED <<temp, call, step, result, litter, faults, deaths, running, meddled>>

\* Mutant: what was installed is not read again.
VerifySkipped(p) ==
    /\ phase[p] = "verify"
    /\ Return(p)
    /\ UNCHANGED <<fileVars, meddled>>

Verify(p) ==
    /\ phase[p] = "verify"
    /\ IF Matches(Engine[p]) THEN Return(p) ELSE Enter(p, "failed") /\ UNCHANGED running
    /\ UNCHANGED <<fileVars, meddled>>

\* The engine exits, or the user runs the command again.
Again(p) ==
    /\ phase[p] \in {"returned", "failed"}
    /\ Enter(p, "start")
    /\ running' = running \ {p}
    /\ UNCHANGED <<fileVars, meddled>>

\* Windows refuses to replace the file of a running engine.  That is no fault:
\* it happens whenever two processes install at the same time.
ReplaceRefused(p) ==
    /\ step[p] = "replace"
    /\ ReplaceBusy
    /\ \E q \in running : Engine[q] = call[p].path
    /\ Rejected(p)
    /\ UNCHANGED <<faults, cacheVars>>

\* The system calls of Write, which replaces a running file on POSIX only.
WriteCall(p) ==
    /\ step[p] = "replace" /\ ReplaceBusy => ~\E q \in running : Engine[q] = call[p].path
    /\ WriteStep(p)
    /\ UNCHANGED cacheVars

FailCall(p) == FailStep(p) /\ UNCHANGED cacheVars

\* A system call of Resolve itself fails: a read of engineFileMatches, PrivateDir, or
\* os.Chmod.  A cached engine that cannot be read is installed anew; the other
\* failures end Resolve.
FailResolve(p) ==
    /\ phase[p] \in {"start", "prepare", "recheck", "chmod", "verify"}
    /\ Fault
    /\ Enter(p, IF phase[p] = "start" THEN "prepare" ELSE "failed")
    /\ UNCHANGED <<file, durable, temp, call, step, result, litter, deaths, running, meddled>>

\* The process is killed inside Write.  Killed anywhere else in Resolve it leaves
\* nothing behind, and is a process that takes no further step.
KillResolve(p) ==
    /\ phase[p] = "install"
    /\ Kill(p)
    /\ Enter(p, "failed")
    /\ UNCHANGED <<running, meddled>>

\* Something outside writes into the cached file, or takes its mode away.
Meddle(path) ==
    /\ file[path] # None
    /\ Fault
    /\ \/ file' = [file EXCEPT ![path].data = Foreign]
       \/ file' = [file EXCEPT ![path].mode = TempMode]
       \/ file' = [file EXCEPT ![path] = None]
    /\ durable' = [durable EXCEPT ![path] = @ \cup {file'[path]}]
    /\ meddled' = meddled \cup {path}
    /\ UNCHANGED <<temp, call, step, result, litter, deaths, phase, running>>

CacheFlush(path) == Flush(path) /\ UNCHANGED cacheVars

CachePowerLoss ==
    /\ PowerLoss
    /\ phase' = [p \in Writers |-> "start"]
    /\ running' = {}
    /\ UNCHANGED meddled

Resolve(p) ==
    \/ CheckCache(p) \/ Install(p) \/ WriteCall(p) \/ ReplaceRefused(p)
    \/ Installed(p) \/ Recheck(p) \/ MakeExecutable(p) \/ Verify(p)

EngineNext ==
    \/ \E p \in Writers : Resolve(p) \/ Again(p) \/ FailResolve(p) \/ FailCall(p) \/ KillResolve(p)
    \/ \E path \in Paths : Meddle(path) \/ CacheFlush(path)
    \/ CachePowerLoss

EngineSpec == EngineInit /\ [][EngineNext]_engineVars

-----------------------------------------------------------------------------
Good(path) == Matches(path) /\ file[path].mode = Executable

\* The path that Resolve returns holds the embedded engine, executable, for as
\* long as nothing outside touches it: whichever process put it there, however
\* far its own Chmod and verification have come, and through power losses.
ReturnedEngineGood ==
    \A p \in Writers :
      phase[p] = "returned" /\ Engine[p] \notin meddled => Good(Engine[p])

\* No process, of this build or of another, spoils an engine that is good: it
\* goes away by a fault only.  Old digest directories keep their engine.
GoodStaysGood ==
    [][\A path \in Paths : Good(path) /\ faults' = faults => Good(path)']_engineVars

\* Processes that extract the same engine at once do not make each other fail,
\* not even where a running engine cannot be replaced.
FailureNeedsFault == \A p \in Writers : phase[p] = "failed" => faults > 0

\* The inductive invariant behind these properties.  A process is in Write only
\* while it installs, and asks for its own engine there.
CallsInstall ==
    \A p \in Writers :
      /\ phase[p] # "install" => step[p] = "idle"
      /\ call[p] # None
           => call[p] = [path |-> Engine[p], data |-> Engine[p], mode |-> Executable]

RunningReturned == running = {p \in Writers : phase[p] = "returned"}

\* What processes see is among what a power loss may leave.
CurrentSurvives == \A path \in Paths : file[path] \in durable[path]

\* Where nothing outside has been, no rename, no Chmod and no power loss has ever
\* left anything but the engine; and the engine that was returned is still there.
UntouchedGood ==
    \A path \in Paths \ meddled : \A f \in durable[path] :
      f # None => f.data = path /\ f.mode = Executable

ReturnedStays ==
    \A p \in Writers :
      phase[p] = "returned" /\ Engine[p] \notin meddled => file[Engine[p]] # None

\* p has Write's answer, or is past it.
Answered(p) ==
    \/ phase[p] = "install" /\ step[p] \in {"cleanup", "idle"}
    \/ phase[p] \in {"recheck", "chmod", "verify", "returned"}

\* Without a fault Write has installed the engine, or met one that is running.
FaultlessInstalls ==
    faults = 0 =>
      /\ meddled = {}
      /\ \A p \in Writers :
           /\ phase[p] # "failed"
           /\ Answered(p) => file[Engine[p]] # None
           /\ phase[p] = "install" /\ Answered(p) => result[p] \in {"ok", "linkError"}

EngineInv ==
    /\ FileInv /\ EngineTypeOK /\ CallsInstall /\ RunningReturned
    /\ CurrentSurvives /\ UntouchedGood /\ ReturnedStays /\ FaultlessInstalls

(* Liveness: a user goes on running commands, each engine exits some day, and *)
(* a process in Resolve goes on (it waits for nobody).                        *)
EngineFairSpec ==
    /\ EngineSpec
    /\ \A p \in Writers : WF_engineVars(Resolve(p)) /\ WF_engineVars(Again(p))

\* After the last of finitely many faults every run gets its engine, and a good
\* one: a damaged, missing or unfinished cache entry is repaired.
EngineRecovers ==
    \A p \in Writers :
      /\ []<>(phase[p] = "returned")
      /\ <>[](phase[p] = "returned" => Matches(Engine[p]))

-----------------------------------------------------------------------------
(* What the cache promises, see EngineStore.                                 *)

Kind(path, f) ==
    CASE f = None -> "missing"
      [] f # None /\ f.data # path -> "bad"
      [] f # None /\ f.data = path /\ f.mode # Executable -> "unexecutable"
      [] f # None /\ f.data = path /\ f.mode = Executable -> "good"

Store == INSTANCE EngineStore WITH
    Processes <- Writers,
    Digests <- Paths,
    entry <- [path \in Paths |-> Kind(path, file[path])],
    past <- [path \in Paths |-> {Kind(path, f) : f \in Survivors(path)}],
    status <- [p \in Writers |-> CASE phase[p] = "returned" -> "found"
                                   [] phase[p] = "failed" -> "failed"
                                   [] OTHER -> "asking"]

\* Extraction by many processes, failing at any system call, implements
\* EngineStore: an engine is returned only if it is there at that moment, even in a
\* cache that something outside keeps changing, no process makes an entry worse,
\* and a power loss brings back an earlier entry or none, never half of one.
ImplementsStore == Store!Spec
=============================================================================
