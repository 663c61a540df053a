----------------------------- MODULE AtomicFile -----------------------------
(***************************************************************************)
(* internal/atomicfile: Write replaces a file by way of a temporary file   *)
(* next to it, in seven system calls.  Any number of processes call it for *)
(* the same path; each call may fail at every step, its process may be     *)
(* killed there, and the machine may lose power.                           *)
(*                                                                         *)
(* The file system keeps the data of a synced file through a power loss.   *)
(* A rename is kept only once the file system has written the directory    *)
(* out, in its own time: Write does not sync the directory.  CreateTemp    *)
(* never returns a name in use.                                            *)
(***************************************************************************)
EXTENDS Naturals, FiniteSets

CONSTANTS
    Writers,    \* processes that call Write, one call at a time
    Paths,      \* the files they replace
    Contents,   \* the data they write
    Modes,      \* the permissions they ask for
    TempMode,   \* the permissions os.CreateTemp gives
    Torn,       \* data cut short: nobody wrote it
    None,       \* no file, no call, no outcome
    MaxFaults   \* bound on failures, kills and power losses

Files == [data : Contents \cup {Torn}, mode : Modes \cup {TempMode}, synced : BOOLEAN]
Calls == [path : Paths, data : Contents, mode : Modes]

ASSUME FileAssumption ==
    /\ IsFiniteSet(Writers)
    /\ Torn \notin Contents
    /\ None \notin Files \cup Calls
    /\ None \notin {"ok", "error", "linkError"}
    /\ MaxFaults \in Nat

VARIABLES
    file,     \* the file at each path, as processes see it
    durable,  \* the files a power loss may leave at each path
    temp,     \* the temporary file of each call
    call,     \* the arguments of each call
    step,     \* the system call each writer makes next
    result,   \* what the last call of each writer returned
    litter,   \* how many temporary files were left behind
    faults,   \* history: how many things went wrong
    deaths    \* history: the calls whose process died or could not clean up

fileVars == <<file, durable, temp, call, step, result, litter, faults, deaths>>

Steps == {"idle", "createTemp", "chmod", "write", "sync", "close", "replace", "cleanup"}
Results == {"ok", "error", "linkError"}

\* A call in progress has its arguments and, between CreateTemp and the rename,
\* its temporary file.
InCall(w) ==
    /\ call[w] = None <=> step[w] = "idle"
    /\ step[w] \in {"chmod", "write", "sync", "close", "replace"} => temp[w] # None
    /\ temp[w] # None => step[w] # "idle"

FileTypeOK ==
    /\ file \in [Paths -> Files \cup {None}]
    /\ durable \in [Paths -> SUBSET (Files \cup {None})]
    /\ temp \in [Writers -> Files \cup {None}]
    /\ call \in [Writers -> Calls \cup {None}]
    /\ step \in [Writers -> Steps]
    /\ result \in [Writers -> Results \cup {None}]
    /\ litter \in Nat
    /\ faults \in 0..MaxFaults
    /\ deaths \in Nat
    /\ \A w \in Writers : InCall(w)

-----------------------------------------------------------------------------
FileInit ==
    /\ file = [path \in Paths |-> None]
    /\ durable = [path \in Paths |-> {None}]
    /\ temp = [w \in Writers |-> None]
    /\ call = [w \in Writers |-> None]
    /\ step = [w \in Writers |-> "idle"]
    /\ result = [w \in Writers |-> None]
    /\ litter = 0
    /\ faults = 0
    /\ deaths = 0

Fault == faults < MaxFaults /\ faults' = faults + 1
Goto(w, next) == step' = [step EXCEPT ![w] = next]

Write(w, path, data, mode) ==
    /\ step[w] = "idle"
    /\ call' = [call EXCEPT ![w] = [path |-> path, data |-> data, mode |-> mode]]
    /\ result' = [result EXCEPT ![w] = None]
    /\ Goto(w, "createTemp")
    /\ UNCHANGED <<file, durable, temp, litter, faults, deaths>>

\* One system call on the temporary file of a call, of which nobody else knows.
SystemCall(w, here, next, tempAfter) ==
    /\ step[w] = here
    /\ temp' = [temp EXCEPT ![w] = tempAfter]
    /\ Goto(w, next)
    /\ UNCHANGED <<file, durable, call, result, litter, faults, deaths>>

\* What os.CreateTemp makes.
Empty == [data |-> Torn, mode |-> TempMode, synced |-> FALSE]

\* Mutants: CreateTemp's error is dropped; the destination itself is truncated.
CreateTempUnchecked(w) == SystemCall(w, "createTemp", "chmod", None)
CreateTempInPlace(w) ==
    /\ step[w] = "createTemp"
    /\ temp' = [temp EXCEPT ![w] = Empty]
    /\ file' = [file EXCEPT ![call[w].path] = Empty]
    /\ Goto(w, "chmod")
    /\ UNCHANGED <<durable, call, result, litter, faults, deaths>>

CreateTemp(w) == SystemCall(w, "createTemp", "chmod", Empty)

\* Mutant: the temporary file keeps the mode CreateTemp gave it.
ChmodTempSkipped(w) == SystemCall(w, "chmod", "write", temp[w])

ChmodTemp(w) == SystemCall(w, "chmod", "write", [temp[w] EXCEPT !.mode = call[w].mode])

\* Until this step has finished the file holds some part of the data.
WriteTemp(w) == SystemCall(w, "write", "sync", [temp[w] EXCEPT !.data = call[w].data])

\* Mutant: the data is left to the page cache.
SyncTempSkipped(w) == SystemCall(w, "sync", "close", temp[w])

SyncTemp(w) == SystemCall(w, "sync", "close", [temp[w] EXCEPT !.synced = TRUE])

CloseTemp(w) == SystemCall(w, "close", "replace", temp[w])

\* os.Rename, or MoveFileEx on Windows: the temporary name is gone.
Replace(w) ==
    /\ step[w] = "replace"
    /\ file' = [file EXCEPT ![call[w].path] = temp[w]]
    /\ durable' = [durable EXCEPT ![call[w].path] = @ \cup {temp[w]}]
    /\ temp' = [temp EXCEPT ![w] = None]
    /\ result' = [result EXCEPT ![w] = "ok"]
    /\ Goto(w, "cleanup")
    /\ UNCHANGED <<call, litter, faults, deaths>>

\* Mutant: the removal is deferred once everything is written, not before.
RejectedUndeferred(w) ==
    /\ result' = [result EXCEPT ![w] = IF step[w] = "replace" THEN "linkError" ELSE "error"]
    /\ IF step[w] \in {"createTemp", "replace"}
       THEN Goto(w, "cleanup") /\ UNCHANGED <<temp, call, litter>>
       ELSE /\ Goto(w, "idle")
            /\ temp' = [temp EXCEPT ![w] = None]
            /\ call' = [call EXCEPT ![w] = None]
            /\ litter' = litter + 1
    /\ UNCHANGED <<file, durable, deaths>>

\* A system call fails: Write returns its error, a LinkError for the rename.
Rejected(w) ==
    /\ result' = [result EXCEPT ![w] = IF step[w] = "replace" THEN "linkError" ELSE "error"]
    /\ Goto(w, "cleanup")
    /\ UNCHANGED <<file, durable, temp, call, litter, deaths>>

FailStep(w) ==
    /\ step[w] \notin {"idle", "cleanup"}
    /\ Fault
    /\ Rejected(w)

\* The deferred Close and Remove, whose errors nobody sees.
Cleanup(w) ==
    /\ step[w] = "cleanup"
    /\ temp' = [temp EXCEPT ![w] = None]
    /\ \/ UNCHANGED <<litter, faults, deaths>>
       \/ temp[w] # None /\ Fault /\ litter' = litter + 1 /\ deaths' = deaths + 1
    /\ Goto(w, "idle")
    /\ call' = [call EXCEPT ![w] = None]
    /\ UNCHANGED <<file, durable, result>>

\* A killed process runs no deferred call.
Kill(w) ==
    /\ step[w] # "idle"
    /\ Fault
    /\ litter' = IF temp[w] = None THEN litter ELSE litter + 1
    /\ deaths' = deaths + 1
    /\ temp' = [temp EXCEPT ![w] = None]
    /\ call' = [call EXCEPT ![w] = None]
    /\ Goto(w, "idle")
    /\ UNCHANGED <<file, durable, result>>

-----------------------------------------------------------------------------
(* The file system.                                                          *)

\* A file that was not synced may lose its data; one that was may not.
Survivors(path) ==
    durable[path] \cup {[f EXCEPT !.data = Torn] :
                          f \in {g \in durable[path] : g # None /\ ~g.synced}}

Flushed(f) == IF f = None THEN None ELSE [f EXCEPT !.synced = TRUE]

Flush(path) ==
    /\ file' = [file EXCEPT ![path] = Flushed(@)]
    /\ durable' = [durable EXCEPT ![path] = {Flushed(file[path])}]
    /\ UNCHANGED <<temp, call, step, result, litter, faults, deaths>>

PowerLoss ==
    /\ Fault
    /\ \E survivor \in [Paths -> UNION {Survivors(path) : path \in Paths}] :
         /\ \A path \in Paths : survivor[path] \in Survivors(path)
         /\ file' = survivor
         /\ durable' = [path \in Paths |-> {survivor[path]}]
    /\ litter' = litter + Cardinality({w \in Writers : temp[w] # None})
    /\ deaths' = deaths + Cardinality({w \in Writers : step[w] # "idle"})
    /\ temp' = [w \in Writers |-> None]
    /\ call' = [w \in Writers |-> None]
    /\ step' = [w \in Writers |-> "idle"]
    /\ UNCHANGED result

WriteStep(w) ==
    \/ CreateTemp(w) \/ ChmodTemp(w) \/ WriteTemp(w) \/ SyncTemp(w)
    \/ CloseTemp(w) \/ Replace(w) \/ Cleanup(w)

FileNext ==
    \/ \E w \in Writers :
         \/ \E path \in Paths, data \in Contents, mode \in Modes : Write(w, path, data, mode)
         \/ WriteStep(w) \/ FailStep(w) \/ Kill(w)
    \/ \E path \in Paths : Flush(path)
    \/ PowerLoss

FileSpec == FileInit /\ [][FileNext]_fileVars

-----------------------------------------------------------------------------
\* Nobody ever sees a file at a destination that is not whole, even after the
\* machine lost power at the worst moment (write.go syncs before it renames).
NeverTorn == \A path \in Paths : file[path] # None => file[path].data \in Contents

\* A temporary file outlives its call only when the process died or the removal
\* failed: a Write that reports an error leaves nothing behind, at whichever
\* system call it failed.
LitterNeedsDeath == litter <= deaths

\* The inductive invariant behind the properties: how far the temporary file of
\* each call has come at each step, and that only whole, synced files are moved
\* to a destination.
Whole(f) == f = None \/ (f.data \in Contents /\ f.synced)

Progress(w) ==
    /\ step[w] \in {"write", "sync", "close", "replace"} => temp[w].mode = call[w].mode
    /\ step[w] \in {"sync", "close", "replace"} => temp[w].data = call[w].data
    /\ step[w] \in {"close", "replace"} => temp[w].synced

TempProgress == \A w \in Writers : Progress(w)

DestinationsWhole ==
    \A path \in Paths : /\ Whole(file[path])
                        /\ \A f \in durable[path] : Whole(f)

FileInv == FileTypeOK /\ TempProgress /\ DestinationsWhole /\ LitterNeedsDeath

\* What a reader sees of a file.
Visible(f) == IF f = None THEN None ELSE [data |-> f.data, mode |-> f.mode]

Replacement == INSTANCE AtomicReplace WITH
    value <- [path \in Paths |-> Visible(file[path])],
    recent <- [path \in Paths |-> {Visible(f) : f \in durable[path]}],
    pending <- [w \in Writers |-> IF step[w] = "cleanup" THEN None ELSE call[w]],
    outcome <- result

\* Seen from outside, Write is one atomic replacement.
ImplementsReplacement == Replacement!Spec
=============================================================================
