-------------------------- MODULE EngineCacheProofs --------------------------
(***************************************************************************)
(* Proofs about EngineCache, for any number of processes, builds, digests  *)
(* and faults, on both kinds of platform: what Resolve returns is good,    *)
(* nobody spoils it, and the cache implements EngineStore.                 *)
(***************************************************************************)
EXTENDS EngineCache, AtomicFileProofs

LEMMA EngineInitInvariant == EngineInit => EngineInv
<1> SUFFICES ASSUME EngineInit PROVE EngineInv
    OBVIOUS
<1>1. FileInv
      BY FileInitInvariant DEF EngineInit
<1>2. EngineTypeOK
      BY <1>1 DEF EngineInit, EngineTypeOK, FileInv, Phases
<1> QED BY <1>1, <1>2, FileAssumption, EngineAssumption
        DEF EngineInit, FileInit, EngineInv, CallsInstall, RunningReturned, CurrentSurvives,
            UntouchedGood, ReturnedStays, FaultlessInstalls, Answered

-----------------------------------------------------------------------------
(* The file system part of each step.                                        *)

\* Windows refuses the rename: for the files it is a failed system call.
LEMMA RefusedFileStep ==
    ASSUME FileInv, NEW p \in Writers, ReplaceRefused(p) PROVE FileInv'
<1>1. /\ UNCHANGED <<file, durable, temp, call, litter, deaths, faults>>
      /\ step' = [step EXCEPT ![p] = "cleanup"] /\ step[p] # "idle"
      /\ result' \in [Writers -> Results \cup {None}]
      BY DEF ReplaceRefused, Rejected, Goto, FileInv, FileTypeOK, Results
<1> QED BY <1>1, FileAssumption, LocalStep
        DEF FileInv, FileTypeOK, LitterNeedsDeath, Steps, InCall, Progress

\* A step from outside Write that puts a whole file at a path, or removes it.
LEMMA OverwriteStep ==
    ASSUME FileInv, NEW path \in Paths, NEW f \in Files \cup {None}, Whole(f),
           file' = [file EXCEPT ![path] = f],
           durable' = [durable EXCEPT ![path] = @ \cup {f}],
           faults' \in 0..MaxFaults, UNCHANGED <<temp, call, step, result, litter, deaths>>
    PROVE  FileInv'
<1>1. FileTypeOK'
      BY FileAssumption DEF FileInv, FileTypeOK, InCall
<1>2. TempProgress' /\ LitterNeedsDeath'
      BY DEF FileInv, TempProgress, Progress, LitterNeedsDeath
<1>3. DestinationsWhole'
      BY DEF FileInv, FileTypeOK, DestinationsWhole
<1> QED BY <1>1, <1>2, <1>3 DEF FileInv

\* The file at a path is typed, and stays whole when its mode or its data changes.
LEMMA FileWhole ==
    ASSUME FileInv, NEW path \in Paths, file[path] # None
    PROVE  /\ file[path] \in Files /\ file[path].synced
           /\ \A mode \in Modes \cup {TempMode} :
                LET f == [file[path] EXCEPT !.mode = mode]
                IN  f \in Files /\ Whole(f) /\ f.data = file[path].data /\ f.mode = mode
           /\ \A data \in Contents :
                LET f == [file[path] EXCEPT !.data = data]
                IN  f \in Files /\ Whole(f) /\ f.data = data
<1>1. file[path] \in Files /\ file[path].data \in Contents /\ file[path].synced
      BY DEF FileInv, FileTypeOK, DestinationsWhole, Whole
<1> QED BY <1>1 DEF Files, Whole

\* os.Chmod of the installed engine.
LEMMA ChmodEffect ==
    ASSUME FileInv, NEW p \in Writers, MakeExecutable(p), file[Engine[p]] # None
    PROVE  LET f == [file[Engine[p]] EXCEPT !.mode = Executable]
           IN  /\ file' = [file EXCEPT ![Engine[p]] = f]
               /\ durable' = [durable EXCEPT ![Engine[p]] = @ \cup {f}]
               /\ f \in Files /\ Whole(f) /\ f.data = file[Engine[p]].data
               /\ f.mode = Executable /\ f # None
               /\ phase[p] = "chmod" /\ phase' = [phase EXCEPT ![p] = "verify"]
               /\ UNCHANGED <<temp, call, step, result, litter, faults, deaths, running, meddled>>
<1> DEFINE f == [file[Engine[p]] EXCEPT !.mode = Executable]
<1>1. Engine[p] \in Paths /\ Executable \in Modes
      BY EngineAssumption
<1>2. f \in Files /\ Whole(f) /\ f.data = file[Engine[p]].data /\ f.mode = Executable
      BY <1>1, FileWhole
<1>3. f # None
      BY <1>2, FileAssumption
<1>4. file' = [file EXCEPT ![Engine[p]] = f]
      BY DEF MakeExecutable
<1>5. file'[Engine[p]] = f
      BY <1>1, <1>4 DEF FileInv, FileTypeOK
<1>6. durable' = [durable EXCEPT ![Engine[p]] = @ \cup {f}]
      BY <1>5 DEF MakeExecutable
<1>7. /\ phase[p] = "chmod" /\ phase' = [phase EXCEPT ![p] = "verify"]
      /\ UNCHANGED <<temp, call, step, result, litter, faults, deaths, running, meddled>>
      BY DEF MakeExecutable, Enter
<1> HIDE DEF f
<1> QED BY <1>2, <1>3, <1>4, <1>6, <1>7 DEF f

\* Something outside leaves f at a path.
LEMMA MeddleEffect ==
    ASSUME FileInv, NEW path \in Paths, Meddle(path)
    PROVE  \E f \in Files \cup {None} :
             /\ Whole(f)
             /\ file' = [file EXCEPT ![path] = f]
             /\ durable' = [durable EXCEPT ![path] = @ \cup {f}]
<1>1. file[path] # None /\ file[path] \in Files
      BY FileWhole DEF Meddle
<1>2. PICK f \in Files \cup {None} : Whole(f) /\ file' = [file EXCEPT ![path] = f]
  <2>1. CASE file' = [file EXCEPT ![path].data = Foreign]
        BY <1>1, <2>1, FileWhole, EngineAssumption
  <2>2. CASE file' = [file EXCEPT ![path].mode = TempMode]
        BY <1>1, <2>2, FileWhole
  <2>3. CASE file' = [file EXCEPT ![path] = None]
        BY <2>3 DEF Whole
  <2> QED BY <2>1, <2>2, <2>3 DEF Meddle
<1>3. file'[path] = f
      BY <1>2 DEF FileInv, FileTypeOK
<1> QED BY <1>2, <1>3 DEF Meddle

-----------------------------------------------------------------------------
(* The inductive invariant.                                                  *)

\* A step of one process that leaves the destinations alone.
LEMMA ProcessStep ==
    ASSUME EngineInv, FileInv', NEW p \in Writers,
           UNCHANGED <<file, durable, meddled>>,
           phase' \in [Writers -> Phases],
           running' = {q \in Writers : phase'[q] = "returned"},
           \A q \in Writers \ {p} : /\ phase'[q] = phase[q] /\ step'[q] = step[q]
                                    /\ call'[q] = call[q] /\ result'[q] = result[q],
           phase'[p] # "install" => step'[p] = "idle",
           call'[p] # None
             => call'[p] = [path |-> Engine[p], data |-> Engine[p], mode |-> Executable],
           phase'[p] = "returned" => Matches(Engine[p]),
           faults' = 0 => faults = 0,
           faults' = 0 => phase'[p] # "failed",
           faults' = 0 /\ Answered(p)' => file[Engine[p]] # None,
           faults' = 0 /\ phase'[p] = "install" /\ Answered(p)'
             => result'[p] \in {"ok", "linkError"}
    PROVE  EngineInv'
<1>1. EngineTypeOK' /\ RunningReturned'
      BY DEF EngineInv, EngineTypeOK, FileInv, RunningReturned
<1>2. CallsInstall'
      BY DEF EngineInv, CallsInstall
<1>3. CurrentSurvives' /\ UntouchedGood'
      BY DEF EngineInv, CurrentSurvives, UntouchedGood
<1>4. ReturnedStays'
      BY DEF EngineInv, ReturnedStays, Matches
<1>5. FaultlessInstalls'
      BY DEF EngineInv, FaultlessInstalls, Answered
<1> QED BY <1>1, <1>2, <1>3, <1>4, <1>5 DEF EngineInv

\* A step of Resolve itself: the files stay as they are.
LEMMA ResolveStep ==
    ASSUME EngineInv, NEW p \in Writers,
           \/ CheckCache(p) \/ Installed(p) \/ Recheck(p) \/ Verify(p) \/ Again(p)
    PROVE  EngineInv'
<1>1. UNCHANGED <<fileVars, meddled>>
      BY DEF CheckCache, Installed, Recheck, Verify, Again
<1>2. FileInv'
      BY <1>1, FileInvariantStep DEF EngineInv
<1>3. /\ phase \in [Writers -> Phases] /\ running = {q \in Writers : phase[q] = "returned"}
      /\ file \in [Paths -> Files \cup {None}] /\ result \in [Writers -> Results \cup {None}]
      /\ phase[p] # "install" => step[p] = "idle"
      /\ call[p] # None
           => call[p] = [path |-> Engine[p], data |-> Engine[p], mode |-> Executable]
      BY DEF EngineInv, EngineTypeOK, RunningReturned, CallsInstall, FileInv, FileTypeOK
<1>4. Engine[p] \in Paths
      BY EngineAssumption
<1>5. PICK next \in Phases \ {"install"} :
        /\ phase' = [phase EXCEPT ![p] = next]
        /\ next = "returned" => Matches(Engine[p])
        /\ running' = IF next = "returned" THEN running \cup {p} ELSE running \ {p}
      BY <1>3 DEF CheckCache, Installed, Recheck, Verify, Again, Enter, Return, Phases
<1>6. running' = {q \in Writers : phase'[q] = "returned"}
      BY <1>3, <1>5
<1>7. step[p] = "idle"
      BY <1>3 DEF CheckCache, Installed, Recheck, Verify, Again
<1>8. ASSUME faults = 0
      PROVE  phase'[p] # "failed" /\ (Answered(p)' => file[Engine[p]] # None)
  <2>1. meddled = {} /\ phase[p] # "failed"
        BY <1>8 DEF EngineInv, FaultlessInstalls
  <2>2. file[Engine[p]] # None => Matches(Engine[p])
        BY <1>4, <2>1 DEF EngineInv, CurrentSurvives, UntouchedGood, Matches
  <2>3. Answered(p) => Matches(Engine[p])
        BY <1>8, <2>2 DEF EngineInv, FaultlessInstalls
  <2>4. phase[p] = "install" => Answered(p) /\ result[p] \in {"ok", "linkError"}
        BY <1>7, <1>8 DEF EngineInv, FaultlessInstalls, Answered
  <2>5. Answered(p)' => next \in {"recheck", "chmod", "verify", "returned"}
        BY <1>3, <1>5 DEF Answered
  <2>6. CASE CheckCache(p)
        BY <1>3, <1>5, <2>5, <2>6 DEF CheckCache, Enter, Return, Matches
  <2>7. CASE Installed(p)
        BY <1>3, <2>3, <2>4, <2>7 DEF Installed, Enter, Matches
  <2>8. CASE Recheck(p)
        BY <1>3, <2>3, <2>8 DEF Recheck, Enter, Matches, Answered
  <2>9. CASE Verify(p)
        BY <1>3, <2>3, <2>9 DEF Verify, Enter, Return, Matches, Answered
  <2>10. CASE Again(p)
        BY <1>3, <2>10 DEF Again, Enter, Answered
  <2> QED BY <2>6, <2>7, <2>8, <2>9, <2>10
<1>9. /\ phase' \in [Writers -> Phases] /\ phase'[p] = next
      /\ \A q \in Writers \ {p} : phase'[q] = phase[q]
      BY <1>3, <1>5
<1>10. UNCHANGED <<file, durable, step, call, result, faults>>
      BY <1>1 DEF fileVars
<1> QED BY <1>1, <1>2, <1>3, <1>5, <1>6, <1>7, <1>8, <1>9, <1>10, ProcessStep

LEMMA InstallStep == ASSUME EngineInv, NEW p \in Writers, Install(p) PROVE EngineInv'
<1>1. Engine[p] \in Paths /\ Engine[p] \in Contents /\ Executable \in Modes
      BY EngineAssumption
<1>2. FileInv'
      BY <1>1, WriteStart DEF Install, EngineInv
<1>3. /\ UNCHANGED <<file, durable, meddled, running, faults>> /\ phase[p] = "prepare"
      /\ phase' = [phase EXCEPT ![p] = "install"] /\ step' = [step EXCEPT ![p] = "createTemp"]
      /\ result' = [result EXCEPT ![p] = None]
      /\ call' = [call EXCEPT ![p] = [path |-> Engine[p], data |-> Engine[p],
                                      mode |-> Executable]]
      BY DEF Install, Write, Enter, Goto
<1>4. /\ phase \in [Writers -> Phases] /\ running = {q \in Writers : phase[q] = "returned"}
      /\ step \in [Writers -> Steps] /\ call \in [Writers -> Calls \cup {None}]
      /\ result \in [Writers -> Results \cup {None}]
      BY DEF EngineInv, EngineTypeOK, RunningReturned, FileInv, FileTypeOK
<1>5. phase' \in [Writers -> Phases] /\ phase'[p] = "install" /\ step'[p] = "createTemp"
      BY <1>3, <1>4 DEF Phases
<1>6. running' = {q \in Writers : phase'[q] = "returned"}
      BY <1>3, <1>4
<1>7. ~Answered(p)'
      BY <1>5 DEF Answered
<1>8. call'[p] = [path |-> Engine[p], data |-> Engine[p], mode |-> Executable]
      BY <1>3, <1>4
<1>9. \A q \in Writers \ {p} : /\ phase'[q] = phase[q] /\ step'[q] = step[q]
                               /\ call'[q] = call[q] /\ result'[q] = result[q]
      BY <1>3, <1>4
<1> QED BY <1>2, <1>3, <1>5, <1>6, <1>7, <1>8, <1>9, ProcessStep

\* A system call of Write that leaves the destinations alone.
LEMMA QuietCallStep ==
    ASSUME EngineInv, NEW p \in Writers, FileInv', step[p] # "idle",
           UNCHANGED <<file, durable, cacheVars>>, faults' = 0 => faults = 0,
           \A q \in Writers \ {p} :
             step'[q] = step[q] /\ call'[q] = call[q] /\ result'[q] = result[q],
           call'[p] \in {call[p], None},
           faults' = 0 /\ step'[p] \in {"cleanup", "idle"}
             => file[Engine[p]] # None /\ result'[p] \in {"ok", "linkError"}
    PROVE  EngineInv'
<1>1. phase[p] = "install" /\ UNCHANGED <<phase, running, meddled>>
      BY DEF EngineInv, CallsInstall, cacheVars
<1>2. /\ phase \in [Writers -> Phases] /\ running = {q \in Writers : phase[q] = "returned"}
      /\ call[p] # None
           => call[p] = [path |-> Engine[p], data |-> Engine[p], mode |-> Executable]
      BY DEF EngineInv, EngineTypeOK, RunningReturned, CallsInstall
<1>3. Answered(p)' => step'[p] \in {"cleanup", "idle"}
      BY <1>1 DEF Answered
<1> QED BY <1>1, <1>2, <1>3, ProcessStep

\* What p asks Write for, and what it finds when Write is done.
LEMMA OwnCall ==
    ASSUME EngineInv, NEW p \in Writers, step[p] # "idle"
    PROVE  /\ phase[p] = "install" /\ Engine[p] \in Paths
           /\ call[p] = [path |-> Engine[p], data |-> Engine[p], mode |-> Executable]
BY EngineAssumption DEF EngineInv, CallsInstall, FileInv, FileTypeOK, InCall

LEMMA QuietWriteStep ==
    ASSUME EngineInv, NEW p \in Writers, UNCHANGED cacheVars,
           \/ CreateTemp(p) \/ ChmodTemp(p) \/ WriteTemp(p) \/ SyncTemp(p) \/ CloseTemp(p)
           \/ Cleanup(p)
    PROVE  EngineInv'
<1>1. FileInv'
      BY PrepareStep, CleanupStep DEF EngineInv
<1>2. /\ step \in [Writers -> Steps] /\ call \in [Writers -> Calls \cup {None}]
      /\ faults \in 0..MaxFaults
      BY DEF EngineInv, FileInv, FileTypeOK
<1>3. CASE CreateTemp(p) \/ ChmodTemp(p) \/ WriteTemp(p) \/ SyncTemp(p) \/ CloseTemp(p)
  <2>1. /\ UNCHANGED <<file, durable, call, result, faults>> /\ step[p] # "idle"
        /\ \A q \in Writers \ {p} : step'[q] = step[q]
        /\ step'[p] \notin {"cleanup", "idle"}
        BY <1>2, <1>3 DEF CreateTemp, ChmodTemp, WriteTemp, SyncTemp, CloseTemp, SystemCall, Goto
  <2> QED BY <1>1, <2>1, QuietCallStep
<1>4. CASE Cleanup(p)
  <2>1. /\ UNCHANGED <<file, durable, result>> /\ step[p] = "cleanup"
        /\ \A q \in Writers \ {p} : step'[q] = step[q] /\ call'[q] = call[q]
        /\ call'[p] = None
        BY <1>2, <1>4 DEF Cleanup, Goto
  <2>2. faults' = 0 => faults = 0
        BY <1>2, <1>4 DEF Cleanup, Fault
  <2>3. phase[p] = "install" /\ Answered(p)
        BY <2>1, OwnCall DEF Answered
  <2>4. faults = 0 => file[Engine[p]] # None /\ result[p] \in {"ok", "linkError"}
        BY <2>3 DEF EngineInv, FaultlessInstalls
  <2> QED BY <1>1, <2>1, <2>2, <2>4, QuietCallStep
<1> QED BY <1>3, <1>4

\* The rename is refused: the engine that is running is there.
LEMMA RefusedStep == ASSUME EngineInv, NEW p \in Writers, ReplaceRefused(p) PROVE EngineInv'
<1>1. FileInv'
      BY RefusedFileStep DEF EngineInv
<1>2. /\ UNCHANGED <<file, durable, call, faults, cacheVars>> /\ step[p] = "replace"
      /\ step' = [step EXCEPT ![p] = "cleanup"] /\ result' = [result EXCEPT ![p] = "linkError"]
      BY DEF ReplaceRefused, Rejected, Goto
<1>3. step \in [Writers -> Steps] /\ result \in [Writers -> Results \cup {None}]
      BY DEF EngineInv, FileInv, FileTypeOK
<1>4. PICK q \in running : Engine[q] = call[p].path
      BY DEF ReplaceRefused
<1>5. q \in Writers /\ phase[q] = "returned" /\ Engine[q] = Engine[p]
  <2>1. running = {r \in Writers : phase[r] = "returned"}
        BY DEF EngineInv, RunningReturned
  <2>2. call[p] = [path |-> Engine[p], data |-> Engine[p], mode |-> Executable]
        BY <1>2, OwnCall
  <2>3. call[p].path = Engine[p]
        BY <2>2
  <2> QED BY <1>4, <2>1, <2>3
<1>6. faults = 0 => file[Engine[p]] # None
      BY <1>5 DEF EngineInv, FaultlessInstalls, Answered
<1> QED BY <1>1, <1>2, <1>3, <1>6, QuietCallStep

LEMMA FailCallStep == ASSUME EngineInv, NEW p \in Writers, FailCall(p) PROVE EngineInv'
<1>1. FileInv'
      BY FailStepStep DEF FailCall, EngineInv
<1>2. /\ UNCHANGED <<file, durable, call, cacheVars>> /\ step[p] # "idle"
      /\ \A q \in Writers \ {p} : step'[q] = step[q] /\ result'[q] = result[q]
      /\ faults' # 0
      BY DEF FailCall, FailStep, Rejected, Goto, Fault, EngineInv, FileInv, FileTypeOK
<1> QED BY <1>1, <1>2, QuietCallStep

\* Resolve itself fails at a system call: a fault, and the files stay as they are.
LEMMA FailResolveStep == ASSUME EngineInv, NEW p \in Writers, FailResolve(p) PROVE EngineInv'
<1>1. /\ phase \in [Writers -> Phases] /\ running = {q \in Writers : phase[q] = "returned"}
      /\ faults \in 0..MaxFaults /\ step[p] = "idle"
      /\ call[p] # None
           => call[p] = [path |-> Engine[p], data |-> Engine[p], mode |-> Executable]
      BY DEF FailResolve, EngineInv, EngineTypeOK, RunningReturned, CallsInstall, FileInv, FileTypeOK
<1>2. /\ UNCHANGED <<file, durable, temp, call, step, result, litter, deaths, running, meddled>>
      /\ phase[p] # "returned"
      /\ phase' = [phase EXCEPT ![p] = IF phase[p] = "start" THEN "prepare" ELSE "failed"]
      BY DEF FailResolve, Enter
<1>3. faults' \in 0..MaxFaults /\ faults' # 0
      BY <1>1, FileAssumption DEF FailResolve, Fault
<1>4. FileInv'
      BY <1>2, <1>3 DEF EngineInv, FileInv, FileTypeOK, TempProgress, Progress, InCall,
                        DestinationsWhole, Whole, LitterNeedsDeath
<1>5. /\ phase' \in [Writers -> Phases] /\ phase'[p] \in {"prepare", "failed"}
      /\ \A q \in Writers \ {p} : phase'[q] = phase[q]
      BY <1>1, <1>2 DEF Phases
<1>6. running' = {q \in Writers : phase'[q] = "returned"}
      BY <1>1, <1>2, <1>5
<1> QED BY <1>1, <1>2, <1>3, <1>4, <1>5, <1>6, ProcessStep

LEMMA KillResolveStep == ASSUME EngineInv, NEW p \in Writers, KillResolve(p) PROVE EngineInv'
<1>1. FileInv'
      BY KillStep DEF KillResolve, EngineInv
<1>2. /\ phase \in [Writers -> Phases] /\ running = {q \in Writers : phase[q] = "returned"}
      /\ step \in [Writers -> Steps] /\ call \in [Writers -> Calls \cup {None}]
      /\ faults \in 0..MaxFaults
      BY DEF EngineInv, EngineTypeOK, RunningReturned, FileInv, FileTypeOK
<1>3. /\ UNCHANGED <<file, durable, result, running, meddled>> /\ faults' # 0
      /\ phase[p] = "install" /\ phase' = [phase EXCEPT ![p] = "failed"]
      /\ step' = [step EXCEPT ![p] = "idle"] /\ call' = [call EXCEPT ![p] = None]
      BY <1>2 DEF KillResolve, Kill, Enter, Goto, Fault
<1>4. phase' \in [Writers -> Phases] /\ running' = {q \in Writers : phase'[q] = "returned"}
      BY <1>2, <1>3 DEF Phases
<1>5. \A q \in Writers \ {p} : /\ phase'[q] = phase[q] /\ step'[q] = step[q]
                               /\ call'[q] = call[q] /\ result'[q] = result[q]
      BY <1>2, <1>3
<1>6. phase'[p] = "failed" /\ step'[p] = "idle" /\ call'[p] = None
      BY <1>2, <1>3
<1> QED BY <1>1, <1>3, <1>4, <1>5, <1>6, ProcessStep

\* Replace puts the engine at the path, whole and executable.
LEMMA InstalledFile ==
    ASSUME EngineInv, NEW p \in Writers, Replace(p)
    PROVE  /\ temp[p] \in Files /\ temp[p] # None
           /\ temp[p].data = Engine[p] /\ temp[p].mode = Executable
           /\ file' = [file EXCEPT ![Engine[p]] = temp[p]]
           /\ durable' = [durable EXCEPT ![Engine[p]] = @ \cup {temp[p]}]
<1>1. step[p] = "replace" /\ FileInv
      BY DEF Replace, EngineInv
<1>2. call[p] = [path |-> Engine[p], data |-> Engine[p], mode |-> Executable]
      BY <1>1, OwnCall
<1>3. temp[p] \in Files /\ temp[p].data = call[p].data /\ temp[p].mode = call[p].mode
      BY <1>1, ReplacingWhole
<1> QED BY <1>2, <1>3, FileAssumption DEF Replace

LEMMA ReplaceCallStep ==
    ASSUME EngineInv, NEW p \in Writers, UNCHANGED cacheVars, Replace(p)
    PROVE  EngineInv'
<1> DEFINE f == temp[p]
<1>1. FileInv'
      BY ReplaceStep DEF EngineInv
<1>2. /\ f # None /\ f.data = Engine[p] /\ f.mode = Executable
      /\ file' = [file EXCEPT ![Engine[p]] = f]
      /\ durable' = [durable EXCEPT ![Engine[p]] = @ \cup {f}]
      BY InstalledFile
<1>3. /\ step' = [step EXCEPT ![p] = "cleanup"] /\ result' = [result EXCEPT ![p] = "ok"]
      /\ UNCHANGED <<call, faults, phase, running, meddled>>
      BY DEF Replace, Goto, cacheVars
<1>4. /\ file \in [Paths -> Files \cup {None}] /\ durable \in [Paths -> SUBSET (Files \cup {None})]
      /\ step \in [Writers -> Steps] /\ result \in [Writers -> Results \cup {None}]
      /\ phase \in [Writers -> Phases]
      BY DEF EngineInv, EngineTypeOK, FileInv, FileTypeOK
<1>5. phase[p] = "install" /\ Engine[p] \in Paths
      BY OwnCall DEF Replace
<1> HIDE DEF f
<1>6. EngineTypeOK' /\ RunningReturned'
      BY <1>1, <1>3 DEF EngineInv, EngineTypeOK, RunningReturned, FileInv
<1>7. CallsInstall'
      BY <1>3, <1>4, <1>5 DEF EngineInv, CallsInstall
<1>8. CurrentSurvives' /\ UntouchedGood'
      BY <1>2, <1>3, <1>4 DEF EngineInv, CurrentSurvives, UntouchedGood
<1>9. ReturnedStays'
      BY <1>2, <1>3, <1>4, EngineAssumption DEF EngineInv, ReturnedStays
<1>10. FaultlessInstalls'
  <2> SUFFICES ASSUME faults = 0 PROVE FaultlessInstalls'
      BY <1>3 DEF FaultlessInstalls
  <2>1. meddled = {}
        BY DEF EngineInv, FaultlessInstalls
  <2>2. ASSUME NEW q \in Writers PROVE phase[q] # "failed"
        BY DEF EngineInv, FaultlessInstalls
  <2>3. ASSUME NEW q \in Writers, Answered(q)' PROVE file'[Engine[q]] # None
    <3>1. q = p \/ Answered(q)
          BY <1>3, <1>4, <2>3 DEF Answered
    <3> QED BY <1>2, <1>4, <3>1, EngineAssumption DEF EngineInv, FaultlessInstalls
  <2>4. ASSUME NEW q \in Writers, phase[q] = "install", Answered(q)'
        PROVE  result'[q] \in {"ok", "linkError"}
    <3>1. CASE q = p
          BY <1>3, <1>4, <3>1
    <3>2. CASE q # p
          BY <1>3, <1>4, <2>4, <3>2 DEF Answered, EngineInv, FaultlessInstalls
    <3> QED BY <3>1, <3>2
  <2> QED BY <1>3, <2>1, <2>2, <2>3, <2>4 DEF FaultlessInstalls
<1> QED BY <1>1, <1>6, <1>7, <1>8, <1>9, <1>10 DEF EngineInv

LEMMA MakeExecutableStep ==
    ASSUME EngineInv, NEW p \in Writers, MakeExecutable(p)
    PROVE  EngineInv'
<1>1. Engine[p] \in Paths /\ phase[p] = "chmod"
      BY EngineAssumption DEF MakeExecutable
<1>2. /\ file \in [Paths -> Files \cup {None}] /\ durable \in [Paths -> SUBSET (Files \cup {None})]
      /\ step \in [Writers -> Steps] /\ phase \in [Writers -> Phases] /\ faults \in 0..MaxFaults
      /\ running = {q \in Writers : phase[q] = "returned"}
      /\ phase[p] # "install" => step[p] = "idle"
      /\ call[p] # None
           => call[p] = [path |-> Engine[p], data |-> Engine[p], mode |-> Executable]
      BY DEF EngineInv, EngineTypeOK, RunningReturned, CallsInstall, FileInv, FileTypeOK
<1>3. faults = 0 => file[Engine[p]] # None
      BY <1>1 DEF EngineInv, FaultlessInstalls, Answered
<1>4. CASE file[Engine[p]] = None
  <2>1. /\ UNCHANGED <<fileVars, running, meddled>> /\ phase' = [phase EXCEPT ![p] = "failed"]
        BY <1>4 DEF MakeExecutable, Enter, fileVars
  <2>2. FileInv'
        BY <2>1, FileInvariantStep DEF EngineInv
  <2>3. UNCHANGED <<file, durable, step, call, result, faults>>
        BY <2>1 DEF fileVars
  <2>4. /\ phase' \in [Writers -> Phases] /\ phase'[p] = "failed"
        /\ \A q \in Writers \ {p} : phase'[q] = phase[q]
        BY <1>2, <2>1 DEF Phases
  <2>5. running' = {q \in Writers : phase'[q] = "returned"}
        BY <1>1, <1>2, <2>1
  <2> QED BY <1>1, <1>2, <1>3, <1>4, <2>1, <2>2, <2>3, <2>4, <2>5, ProcessStep
<1>5. CASE file[Engine[p]] # None
  <2> DEFINE f == [file[Engine[p]] EXCEPT !.mode = Executable]
  <2>1. /\ file' = [file EXCEPT ![Engine[p]] = f]
        /\ durable' = [durable EXCEPT ![Engine[p]] = @ \cup {f}]
        /\ f \in Files /\ Whole(f) /\ f.data = file[Engine[p]].data /\ f.mode = Executable
        /\ f # None /\ phase' = [phase EXCEPT ![p] = "verify"]
        /\ UNCHANGED <<temp, call, step, result, litter, faults, deaths, running, meddled>>
        BY <1>5, ChmodEffect DEF EngineInv
  <2> HIDE DEF f
  <2>2. FileInv'
        BY <1>1, <1>2, <2>1, OverwriteStep DEF EngineInv
  <2>3. EngineTypeOK' /\ RunningReturned'
        BY <1>1, <1>2, <2>1, <2>2 DEF EngineInv, EngineTypeOK, RunningReturned, FileInv, Phases
  <2>4. CallsInstall'
        BY <1>1, <1>2, <2>1 DEF EngineInv, CallsInstall
  <2>5. CurrentSurvives'
        BY <1>2, <2>1 DEF EngineInv, CurrentSurvives
  <2>6. UntouchedGood'
    <3>1. Engine[p] \notin meddled => f.data = Engine[p]
          BY <1>1, <1>5, <2>1 DEF EngineInv, CurrentSurvives, UntouchedGood
    <3> QED BY <1>2, <2>1, <3>1 DEF EngineInv, UntouchedGood
  <2>7. ReturnedStays'
        BY <1>1, <1>2, <2>1, EngineAssumption DEF EngineInv, ReturnedStays
  <2>8. FaultlessInstalls'
        BY <1>1, <1>2, <1>5, <2>1, EngineAssumption DEF EngineInv, FaultlessInstalls, Answered
  <2> QED BY <2>2, <2>3, <2>4, <2>5, <2>6, <2>7, <2>8 DEF EngineInv
<1> QED BY <1>4, <1>5

LEMMA MeddleStep == ASSUME EngineInv, NEW path \in Paths, Meddle(path) PROVE EngineInv'
<1>1. PICK f \in Files \cup {None} :
        /\ Whole(f) /\ file' = [file EXCEPT ![path] = f]
        /\ durable' = [durable EXCEPT ![path] = @ \cup {f}]
      BY MeddleEffect DEF EngineInv
<1>2. /\ faults' \in 0..MaxFaults /\ faults' # 0 /\ meddled' = meddled \cup {path}
      /\ UNCHANGED <<temp, call, step, result, litter, deaths, phase, running>>
  <2>1. Fault /\ faults \in 0..MaxFaults
        BY DEF Meddle, EngineInv, FileInv, FileTypeOK
  <2>2. faults' \in 0..MaxFaults /\ faults' # 0
        BY <2>1, FileAssumption DEF Fault
  <2> QED BY <2>2 DEF Meddle
<1>3. FileInv'
      BY <1>1, <1>2, OverwriteStep DEF EngineInv
<1>4. /\ file \in [Paths -> Files \cup {None}] /\ durable \in [Paths -> SUBSET (Files \cup {None})]
      BY DEF EngineInv, FileInv, FileTypeOK
<1>5. EngineTypeOK' /\ RunningReturned' /\ CallsInstall'
      BY <1>2, <1>3 DEF EngineInv, EngineTypeOK, RunningReturned, CallsInstall, FileInv
<1>6. CurrentSurvives' /\ UntouchedGood'
      BY <1>1, <1>2, <1>4 DEF EngineInv, CurrentSurvives, UntouchedGood
<1>7. ReturnedStays'
      BY <1>1, <1>2, <1>4 DEF EngineInv, ReturnedStays
<1> QED BY <1>2, <1>3, <1>5, <1>6, <1>7 DEF EngineInv, FaultlessInstalls

LEMMA CacheFlushStep == ASSUME EngineInv, NEW path \in Paths, CacheFlush(path) PROVE EngineInv'
<1>1. /\ file' = file /\ durable' = [durable EXCEPT ![path] = {file[path]}]
      /\ UNCHANGED <<temp, call, step, result, litter, faults, deaths, phase, running, meddled>>
      BY FlushedWhole DEF CacheFlush, Flush, cacheVars, EngineInv, FileInv, FileTypeOK
<1>2. FileInv'
      BY FlushStep DEF CacheFlush, EngineInv
<1>3. EngineTypeOK' /\ RunningReturned' /\ CallsInstall'
      BY <1>1, <1>2 DEF EngineInv, EngineTypeOK, RunningReturned, CallsInstall, FileInv
<1>4. CurrentSurvives' /\ UntouchedGood'
      BY <1>1 DEF EngineInv, CurrentSurvives, UntouchedGood, FileInv, FileTypeOK
<1>5. ReturnedStays' /\ FaultlessInstalls'
      BY <1>1 DEF EngineInv, ReturnedStays, FaultlessInstalls, Answered
<1> QED BY <1>2, <1>3, <1>4, <1>5 DEF EngineInv

\* What a power loss leaves at a path was there before.
LEMMA SurvivorsKnown ==
    ASSUME FileInv, PowerLoss
    PROVE  /\ file' \in [Paths -> Files \cup {None}]
           /\ durable' = [path \in Paths |-> {file'[path]}]
           /\ \A path \in Paths : file'[path] \in durable[path]
<1>1. PICK survivor \in [Paths -> UNION {Survivors(path) : path \in Paths}] :
        /\ \A path \in Paths : survivor[path] \in Survivors(path)
        /\ file' = survivor
        /\ durable' = [path \in Paths |-> {survivor[path]}]
      BY DEF PowerLoss
<1>2. \A path \in Paths : survivor[path] \in durable[path]
      BY <1>1, SurvivorsDurable
<1>3. survivor \in [Paths -> Files \cup {None}]
      BY <1>1, <1>2 DEF FileInv, FileTypeOK
<1> QED BY <1>1, <1>2, <1>3

LEMMA CachePowerLossStep == ASSUME EngineInv, CachePowerLoss PROVE EngineInv'
<1>1. FileInv'
      BY PowerLossStep DEF CachePowerLoss, EngineInv
<1>2. /\ durable' = [path \in Paths |-> {file'[path]}]
      /\ \A path \in Paths : file'[path] \in durable[path]
      BY SurvivorsKnown DEF CachePowerLoss, EngineInv
<1>3. /\ phase' = [p \in Writers |-> "start"] /\ running' = {} /\ UNCHANGED meddled
      /\ step' = [p \in Writers |-> "idle"] /\ call' = [p \in Writers |-> None]
      /\ faults' # 0
      BY DEF CachePowerLoss, PowerLoss, Fault, EngineInv, FileInv, FileTypeOK
<1>4. EngineTypeOK' /\ RunningReturned' /\ CallsInstall'
      BY <1>1, <1>3 DEF EngineInv, EngineTypeOK, RunningReturned, CallsInstall, FileInv, Phases
<1>5. CurrentSurvives' /\ UntouchedGood'
      BY <1>2, <1>3 DEF EngineInv, CurrentSurvives, UntouchedGood
<1>6. ReturnedStays' /\ FaultlessInstalls'
      BY <1>3 DEF ReturnedStays, FaultlessInstalls
<1> QED BY <1>1, <1>4, <1>5, <1>6 DEF EngineInv

LEMMA EngineInvariantStep == EngineInv /\ [EngineNext]_engineVars => EngineInv'
<1> SUFFICES ASSUME EngineInv, [EngineNext]_engineVars PROVE EngineInv'
    OBVIOUS
<1>1. ASSUME NEW p \in Writers, Resolve(p) PROVE EngineInv'
  <2>1. CASE CheckCache(p) \/ Installed(p) \/ Recheck(p) \/ Verify(p)
        BY <2>1, ResolveStep
  <2>2. CASE WriteCall(p)
        BY <2>2, QuietWriteStep, ReplaceCallStep DEF WriteCall, WriteStep
  <2> QED BY <1>1, <2>1, <2>2, InstallStep, RefusedStep, MakeExecutableStep DEF Resolve
<1>2. ASSUME NEW p \in Writers, Again(p) \/ FailResolve(p) \/ FailCall(p) \/ KillResolve(p)
      PROVE  EngineInv'
      BY <1>2, ResolveStep, FailResolveStep, FailCallStep, KillResolveStep
<1>3. ASSUME NEW path \in Paths, Meddle(path) \/ CacheFlush(path) PROVE EngineInv'
      BY <1>3, MeddleStep, CacheFlushStep
<1>4. CASE CachePowerLoss
      BY <1>4, CachePowerLossStep
<1>5. CASE UNCHANGED engineVars
  <2>1. FileInv'
        BY <1>5, FileInvariantStep DEF engineVars, EngineInv
  <2>2. UNCHANGED <<file, durable, step, call, result, faults, phase, running, meddled>>
        BY <1>5 DEF engineVars, fileVars, cacheVars
  <2> QED BY <2>1, <2>2
          DEF EngineInv, EngineTypeOK, FileInv, CallsInstall, RunningReturned, CurrentSurvives,
              UntouchedGood, ReturnedStays, FaultlessInstalls, Answered
<1> QED BY <1>1, <1>2, <1>3, <1>4, <1>5 DEF EngineNext

\* The inductive invariant of every instance.
THEOREM EngineInvariance == EngineSpec => []EngineInv
BY EngineInitInvariant, EngineInvariantStep, PTL DEF EngineSpec

-----------------------------------------------------------------------------
(* The properties.                                                           *)

\* The files, the calls of Write and the progress of every Resolve keep their
\* types, through kills and power losses.
THEOREM EngineTypesCorrect == EngineSpec => []EngineTypeOK
BY EngineInvariance, PTL DEF EngineInv

LEMMA ReturnedGood == EngineInv => ReturnedEngineGood
BY EngineAssumption
   DEF EngineInv, ReturnedEngineGood, ReturnedStays, CurrentSurvives, UntouchedGood, Good, Matches

\* Whatever the processes do to each other, and through power losses, the path that
\* Resolve returned holds the embedded engine with its digest and mode, as long
\* as nothing outside has touched that path.
THEOREM ReturnedEnginesAreGood == EngineSpec => []ReturnedEngineGood
BY EngineInvariance, ReturnedGood, PTL

\* However many processes install the same engine at once, none of them fails
\* without a fault, on Windows too, where a running engine cannot be replaced.
THEOREM InstallersDoNotFailEachOther == EngineSpec => []FailureNeedsFault
<1>1. EngineInv => FailureNeedsFault
      BY FileAssumption
         DEF EngineInv, FaultlessInstalls, FailureNeedsFault, FileInv, FileTypeOK
<1> QED BY <1>1, EngineInvariance, PTL

\* A step that is no fault and leaves the destinations alone, or puts a good
\* engine there, or changes a mode to 0700.
LEMMA GoodStep ==
    ASSUME EngineInv, [EngineNext]_engineVars, NEW path \in Paths, Good(path),
           faults' = faults
    PROVE  Good(path)'
<1>1. file \in [Paths -> Files \cup {None}] /\ faults \in 0..MaxFaults
      BY DEF EngineInv, FileInv, FileTypeOK
<1>2. CASE file' = file
      BY <1>2 DEF Good, Matches
<1>3. ASSUME NEW p \in Writers, Resolve(p) PROVE Good(path)'
  <2>1. CASE Replace(p)
        BY <1>1, <2>1, InstalledFile DEF Good, Matches
  <2>2. CASE MakeExecutable(p)
    <3>1. CASE file[Engine[p]] = None
          BY <1>2, <2>2, <3>1 DEF MakeExecutable
    <3>2. CASE file[Engine[p]] # None
      <4> DEFINE f == [file[Engine[p]] EXCEPT !.mode = Executable]
      <4>1. /\ file' = [file EXCEPT ![Engine[p]] = f] /\ f # None
            /\ f.data = file[Engine[p]].data /\ f.mode = Executable
            BY <2>2, <3>2, ChmodEffect DEF EngineInv
      <4> HIDE DEF f
      <4> QED BY <1>1, <4>1, EngineAssumption DEF Good, Matches
    <3> QED BY <3>1, <3>2
  <2>3. CASE ~Replace(p) /\ ~MakeExecutable(p)
    <3>1. file' = file
          BY <1>3, <2>3
             DEF Resolve, CheckCache, Install, Write, WriteCall, WriteStep, CreateTemp, ChmodTemp,
                 WriteTemp, SyncTemp, CloseTemp, SystemCall, Cleanup, ReplaceRefused, Rejected,
                 Installed, Recheck, Verify, fileVars
    <3> QED BY <1>2, <3>1
  <2> QED BY <2>1, <2>2, <2>3
<1>4. ASSUME NEW p \in Writers, Again(p) \/ FailResolve(p) \/ FailCall(p) \/ KillResolve(p)
      PROVE  Good(path)'
  <2>1. file' = file
        BY <1>4 DEF Again, FailResolve, FailCall, FailStep, Rejected, KillResolve, Kill, fileVars
  <2> QED BY <1>2, <2>1
<1>5. ASSUME NEW other \in Paths, CacheFlush(other) PROVE Good(path)'
  <2>1. file' = file
        BY <1>1, <1>5, FlushedWhole DEF CacheFlush, Flush, EngineInv
  <2> QED BY <1>2, <2>1
<1>6. ASSUME NEW other \in Paths, Meddle(other) PROVE FALSE
      BY <1>1, <1>6 DEF Meddle, Fault
<1>7. ASSUME CachePowerLoss PROVE FALSE
      BY <1>1, <1>7 DEF CachePowerLoss, PowerLoss, Fault
<1>8. CASE UNCHANGED engineVars
      BY <1>2, <1>8 DEF engineVars, fileVars
<1> QED BY <1>3, <1>4, <1>5, <1>6, <1>7, <1>8 DEF EngineNext

\* No step of any process, of this build or another, spoils a good engine.
THEOREM GoodEnginesStayGood == EngineSpec => GoodStaysGood
<1>1. EngineInv /\ [EngineNext]_engineVars
        => [\A path \in Paths : Good(path) /\ faults' = faults => Good(path)']_engineVars
      BY GoodStep
<1> QED BY <1>1, EngineInvariance, PTL DEF EngineSpec, GoodStaysGood

-----------------------------------------------------------------------------
(* EngineCache implements EngineStore.                                       *)

\* The refinement mapping, as ImplementsStore has it.
Entries == [path \in Paths |-> Kind(path, file[path])]
Past == [path \in Paths |-> {Kind(path, f) : f \in Survivors(path)}]
Status == [p \in Writers |-> CASE phase[p] = "returned" -> "found"
                               [] phase[p] = "failed" -> "failed"
                               [] OTHER -> "asking"]

LEMMA KindType == \A path, f : Kind(path, f) \in Store!EntryStates
BY DEF Kind, Store!EntryStates

\* Only the installed engine, executable, is good; data with the digest makes an
\* entry that processes find.
LEMMA KindOfEngine ==
    ASSUME NEW path, NEW f, f # None, f.data = path
    PROVE  /\ Kind(path, f) \in {"good", "unexecutable"}
           /\ f.mode = Executable => Kind(path, f) = "good"
BY DEF Kind

LEMMA StoreInit == EngineInit => Store!Init
<1> SUFFICES ASSUME EngineInit PROVE Store!Init
    OBVIOUS
<1>1. FileInv
      BY FileInitInvariant DEF EngineInit
<1>2. \A path \in Paths : Survivors(path) = {None} /\ Kind(path, None) = "missing"
      BY <1>1, SurvivorsDurable DEF EngineInit, FileInit, Kind
<1> QED BY <1>2 DEF EngineInit, FileInit, Store!Init

\* A file that comes to a path is an entry that comes to its digest.
LEMMA BecomeStep ==
    ASSUME FileInv, FileInv', NEW path \in Paths, NEW f,
           file' = [file EXCEPT ![path] = f],
           durable' = [durable EXCEPT ![path] = @ \cup {f}]
    PROVE  Store!Become(path, Kind(path, f))
<1>1. /\ file \in [Paths -> Files \cup {None}]
      /\ durable \in [Paths -> SUBSET (Files \cup {None})]
      BY DEF FileInv, FileTypeOK
<1>2. Entries' = [Entries EXCEPT ![path] = Kind(path, f)]
      BY <1>1 DEF Entries, Kind
<1>3. \A other \in Paths :
        Past'[other] = IF other = path THEN Past[path] \cup {Kind(path, f)} ELSE Past[other]
  <2>1. ASSUME NEW other \in Paths, other # path PROVE Past'[other] = Past[other]
    <3>1. Survivors(other)' = Survivors(other)
          BY <1>1, <2>1 DEF Survivors
    <3> QED BY <2>1, <3>1 DEF Past, Kind
  <2>2. Past'[path] = Past[path] \cup {Kind(path, f)}
    <3>1. Survivors(path) = durable[path]
          BY SurvivorsDurable
    <3>2. Survivors(path)' = durable'[path]
          BY DEF FileInv, DestinationsWhole, Whole, Survivors
    <3>3. Survivors(path)' = Survivors(path) \cup {f}
          BY <1>1, <3>1, <3>2
    <3> QED BY <3>3 DEF Past, Kind
  <2> QED BY <2>1, <2>2
<1>4. Past' = [Past EXCEPT ![path] = @ \cup {Kind(path, f)}]
      BY <1>3 DEF Past
<1> QED BY <1>2, <1>4 DEF Entries, Past, Store!Become

LEMMA EntriesStay ==
    ASSUME UNCHANGED <<file, durable>>
    PROVE  UNCHANGED <<Entries, Past>>
BY DEF Entries, Past, Survivors, Kind

LEMMA StatusStep ==
    ASSUME EngineInv, NEW p \in Writers, NEW next \in Phases,
           phase' = [phase EXCEPT ![p] = next]
    PROVE  /\ next = "returned" => Status' = [Status EXCEPT ![p] = "found"]
           /\ next = "failed" => Status' = [Status EXCEPT ![p] = "failed"]
           /\ next \notin {"returned", "failed"} => Status' = [Status EXCEPT ![p] = "asking"]
<1>1. phase \in [Writers -> Phases]
      BY DEF EngineInv, EngineTypeOK
<1> QED BY <1>1 DEF Status

\* A step of Resolve itself asks again, finds the engine, fails, or goes on asking.
LEMMA ResolveImplements ==
    ASSUME EngineInv, NEW p \in Writers,
           \/ CheckCache(p) \/ Installed(p) \/ Recheck(p) \/ Verify(p) \/ Again(p)
    PROVE  Store!Next \/ UNCHANGED Store!storeVars
<1>1. /\ phase \in [Writers -> Phases] /\ Engine[p] \in Paths
      /\ file \in [Paths -> Files \cup {None}]
      BY EngineAssumption DEF EngineInv, EngineTypeOK, FileInv, FileTypeOK
<1>2. UNCHANGED <<Entries, Past, faults>>
      BY EntriesStay DEF CheckCache, Installed, Recheck, Verify, Again, fileVars
<1>3. CASE Again(p)
  <2>1. Status' = [Status EXCEPT ![p] = "asking"] /\ Status[p] # "asking"
        BY <1>1, <1>3, StatusStep DEF Again, Enter, Phases, Status
  <2>2. Store!Ask(p)
        BY <1>2, <2>1 DEF Store!Ask, Entries, Past, Status
  <2> QED BY <2>2 DEF Store!Next
<1>4. CASE CheckCache(p) \/ Installed(p) \/ Recheck(p) \/ Verify(p)
  <2>1. PICK next \in Phases :
          /\ phase' = [phase EXCEPT ![p] = next]
          /\ next = "returned" => Matches(Engine[p])
        BY <1>4 DEF CheckCache, Installed, Recheck, Verify, Enter, Return, Phases
  <2>2. Status[p] = "asking"
        BY <1>4 DEF CheckCache, Installed, Recheck, Verify, Status
  <2>3. CASE next = "returned"
    <3>1. Entries[Engine[p]] \in {"good", "unexecutable"}
          BY <1>1, <2>1, <2>3, KindOfEngine DEF Matches, Entries
    <3>2. Store!Find(p)
          BY <1>2, <2>1, <2>2, <2>3, <3>1, StatusStep DEF Store!Find, Entries, Past, Status
    <3> QED BY <3>2 DEF Store!Next
  <2>4. CASE next = "failed"
    <3>1. Store!Fail(p)
          BY <1>2, <2>1, <2>2, <2>4, StatusStep DEF Store!Fail, Entries, Past, Status
    <3> QED BY <3>1 DEF Store!Next
  <2>5. CASE next \notin {"returned", "failed"}
    <3>1. Status' = Status
          BY <2>1, <2>2, <2>5, StatusStep DEF Status
    <3> QED BY <1>2, <3>1 DEF Store!storeVars, Entries, Past, Status
  <2> QED BY <2>3, <2>4, <2>5
<1> QED BY <1>3, <1>4

\* Before the rename, and when it is refused, the cache shows nothing of a call; a
\* failing one is a fault of its process.
LEMMA CallImplements ==
    ASSUME EngineInv, NEW p \in Writers,
           Install(p) \/ (WriteCall(p) /\ ~Replace(p)) \/ ReplaceRefused(p) \/ FailCall(p)
    PROVE  Store!Next \/ UNCHANGED Store!storeVars
<1>1. phase \in [Writers -> Phases]
      BY DEF EngineInv, EngineTypeOK
<1>2. UNCHANGED <<file, durable>> /\ (faults' = faults \/ faults' = faults + 1)
      BY DEF Install, Write, WriteCall, WriteStep, CreateTemp, ChmodTemp, WriteTemp, SyncTemp,
             CloseTemp, SystemCall, Cleanup, ReplaceRefused, FailCall, FailStep, Rejected, Fault
<1>3. Status' = Status
  <2>1. CASE Install(p)
        BY <1>1, <2>1 DEF Install, Enter, Status
  <2>2. CASE ~Install(p)
        BY <2>2 DEF WriteCall, ReplaceRefused, FailCall, cacheVars, Status
  <2> QED BY <2>1, <2>2
<1>4. UNCHANGED <<Entries, Past>>
      BY <1>2, EntriesStay
<1>5. CASE faults' = faults
      BY <1>3, <1>4, <1>5 DEF Store!storeVars, Entries, Past, Status
<1>6. CASE faults' = faults + 1
  <2>1. Store!Break(p)
        BY <1>3, <1>4, <1>6 DEF Store!Break, Entries, Past, Status
  <2> QED BY <2>1 DEF Store!Next
<1> QED BY <1>2, <1>5, <1>6

LEMMA FailResolveImplements ==
    ASSUME EngineInv, NEW p \in Writers, FailResolve(p) PROVE Store!Next
<1>1. UNCHANGED <<Entries, Past>> /\ faults' = faults + 1
      BY EntriesStay DEF FailResolve, Fault
<1>2. Status[p] = "asking" /\ phase \in [Writers -> Phases]
      BY DEF FailResolve, Status, EngineInv, EngineTypeOK
<1>3. Status' = Status \/ Status' = [Status EXCEPT ![p] = "failed"]
  <2>1. CASE phase[p] = "start"
    <3>1. Status' = [Status EXCEPT ![p] = "asking"]
          BY <2>1, StatusStep DEF FailResolve, Enter, Phases
    <3> QED BY <1>2, <3>1 DEF Status
  <2>2. CASE phase[p] # "start"
        BY <2>2, StatusStep DEF FailResolve, Enter, Phases
  <2> QED BY <2>1, <2>2
<1>4. Store!Break(p)
      BY <1>1, <1>2, <1>3 DEF Store!Break, Entries, Past, Status
<1> QED BY <1>4 DEF Store!Next

LEMMA KillImplements ==
    ASSUME EngineInv, NEW p \in Writers, KillResolve(p) PROVE Store!Next
<1>1. UNCHANGED <<Entries, Past>> /\ faults' = faults + 1
      BY EntriesStay DEF KillResolve, Kill, Fault
<1>2. Status[p] = "asking" /\ Status' = [Status EXCEPT ![p] = "failed"]
      BY StatusStep DEF KillResolve, Enter, Phases, Status
<1>3. Store!Break(p)
      BY <1>1, <1>2 DEF Store!Break, Entries, Past, Status
<1> QED BY <1>3 DEF Store!Next

\* The rename provides the engine.
LEMMA ReplaceImplements ==
    ASSUME EngineInv, EngineInv', NEW p \in Writers, UNCHANGED cacheVars, Replace(p)
    PROVE  Store!Next
<1>1. Engine[p] \in Paths /\ phase[p] = "install"
      BY OwnCall DEF Replace
<1>2. Store!Become(Engine[p], "good")
  <2>1. Kind(Engine[p], temp[p]) = "good"
        BY InstalledFile, KindOfEngine
  <2>2. Store!Become(Engine[p], Kind(Engine[p], temp[p]))
        BY <1>1, InstalledFile, BecomeStep DEF EngineInv
  <2> QED BY <2>1, <2>2
<1>3. Status[p] = "asking" /\ UNCHANGED <<Status, faults>>
      BY <1>1 DEF Status, cacheVars, Replace
<1>4. Store!Provide(p)
      BY <1>2, <1>3 DEF Store!Provide, Status
<1> QED BY <1>4 DEF Store!Next

\* Chmod provides the engine if its data is there, and changes nothing that
\* processes look at if something else is.
LEMMA MakeExecutableImplements ==
    ASSUME EngineInv, EngineInv', NEW p \in Writers, MakeExecutable(p)
    PROVE  Store!Next \/ UNCHANGED Store!storeVars
<1>1. /\ Engine[p] \in Paths /\ phase[p] = "chmod" /\ Status[p] = "asking"
      BY EngineAssumption DEF MakeExecutable, Status
<1>2. CASE file[Engine[p]] = None
  <2>1. UNCHANGED <<Entries, Past, faults>>
        BY <1>2, EntriesStay DEF MakeExecutable
  <2>2. Status' = [Status EXCEPT ![p] = "failed"]
        BY <1>2, StatusStep DEF MakeExecutable, Enter, Phases
  <2>3. Store!Fail(p)
        BY <1>1, <2>1, <2>2 DEF Store!Fail, Entries, Past, Status
  <2> QED BY <2>3 DEF Store!Next
<1>3. CASE file[Engine[p]] # None
  <2> DEFINE f == [file[Engine[p]] EXCEPT !.mode = Executable]
  <2>1. /\ file' = [file EXCEPT ![Engine[p]] = f]
        /\ durable' = [durable EXCEPT ![Engine[p]] = @ \cup {f}]
        /\ f.data = file[Engine[p]].data /\ f.mode = Executable /\ f # None
        /\ phase' = [phase EXCEPT ![p] = "verify"] /\ UNCHANGED faults
        BY <1>3, ChmodEffect DEF EngineInv
  <2> HIDE DEF f
  <2>2. Store!Become(Engine[p], Kind(Engine[p], f))
        BY <1>1, <2>1, BecomeStep DEF EngineInv
  <2>3. Status' = Status
        BY <1>1, <2>1 DEF EngineInv, EngineTypeOK, Status
  <2>4. CASE f.data = Engine[p]
    <3>1. Kind(Engine[p], f) = "good"
          BY <2>1, <2>4, KindOfEngine
    <3>2. Store!Provide(p)
          BY <1>1, <2>1, <2>2, <2>3, <3>1 DEF Store!Provide, Status
    <3> QED BY <3>2 DEF Store!Next
  <2>5. CASE f.data # Engine[p]
    <3>1. Kind(Engine[p], f) = "bad" /\ Kind(Engine[p], file[Engine[p]]) = "bad"
          BY <1>3, <2>1, <2>5 DEF Kind
    <3>2. Entries[Engine[p]] = "bad" /\ "bad" \in Past[Engine[p]]
      <4>1. file[Engine[p]] \in Survivors(Engine[p])
            BY <1>1, SurvivorsDurable DEF EngineInv, CurrentSurvives
      <4> QED BY <1>1, <3>1, <4>1 DEF Entries, Past
    <3>3. UNCHANGED <<Entries, Past>>
      <4>1. /\ Entries' = [Entries EXCEPT ![Engine[p]] = "bad"]
            /\ Past' = [Past EXCEPT ![Engine[p]] = @ \cup {"bad"}]
            BY <2>2, <3>1 DEF Store!Become, Entries, Past
      <4>2. \A path \in Paths : Entries'[path] = Entries[path] /\ Past'[path] = Past[path]
            BY <3>2, <4>1 DEF Entries, Past
      <4> QED BY <4>2 DEF Entries, Past
    <3> QED BY <2>1, <2>3, <3>3 DEF Store!storeVars, Entries, Past, Status
  <2> QED BY <2>4, <2>5
<1> QED BY <1>2, <1>3

LEMMA MeddleImplements ==
    ASSUME EngineInv, EngineInv', NEW path \in Paths, Meddle(path) PROVE Store!Next
<1>1. PICK f \in Files \cup {None} :
        /\ file' = [file EXCEPT ![path] = f]
        /\ durable' = [durable EXCEPT ![path] = @ \cup {f}]
      BY MeddleEffect DEF EngineInv
<1>2. Store!Become(path, Kind(path, f)) /\ Kind(path, f) \in Store!EntryStates
      BY <1>1, BecomeStep, KindType DEF EngineInv
<1>3. UNCHANGED Status /\ faults' = faults + 1
      BY DEF Meddle, Fault, Status
<1>4. Store!Tamper(path)
      BY <1>2, <1>3 DEF Store!Tamper, Status
<1> QED BY <1>4 DEF Store!Next

LEMMA FlushImplements ==
    ASSUME EngineInv, EngineInv', NEW path \in Paths, CacheFlush(path) PROVE Store!Next
<1>1. /\ file' = file /\ durable' = [durable EXCEPT ![path] = {file[path]}]
      /\ UNCHANGED <<faults, phase>>
      BY FlushedWhole DEF CacheFlush, Flush, cacheVars, EngineInv, FileInv, FileTypeOK
<1>2. UNCHANGED <<Entries, Status, faults>>
      BY <1>1 DEF Entries, Kind, Status
<1>3. \A other \in Paths : Survivors(other)' = IF other = path THEN {file[path]} ELSE Survivors(other)
  <2>1. \A other \in Paths : Survivors(other)' = durable'[other]
        BY DEF EngineInv, FileInv, DestinationsWhole, Whole, Survivors
  <2>2. \A other \in Paths : Survivors(other) = durable[other]
        BY SurvivorsDurable DEF EngineInv
  <2> QED BY <1>1, <2>1, <2>2 DEF EngineInv, FileInv, FileTypeOK
<1>4. \A other \in Paths : Past'[other] = IF other = path THEN {Entries[path]} ELSE Past[other]
      BY <1>3 DEF Past, Entries, Kind
<1>5. Past' = [Past EXCEPT ![path] = {Entries[path]}]
      BY <1>4 DEF Past
<1>6. Store!Settle(path)
      BY <1>2, <1>5 DEF Store!Settle, Entries, Past, Status
<1> QED BY <1>6 DEF Store!Next

LEMMA PowerLossImplements ==
    ASSUME EngineInv, EngineInv', CachePowerLoss PROVE Store!Next
<1>1. /\ durable' = [path \in Paths |-> {file'[path]}]
      /\ \A path \in Paths : file'[path] \in durable[path]
      BY SurvivorsKnown DEF CachePowerLoss, EngineInv
<1>2. Status' = [p \in Writers |-> "asking"] /\ faults' = faults + 1
      BY DEF CachePowerLoss, PowerLoss, Fault, Status
<1>3. Entries' \in [Paths -> Store!EntryStates]
      BY KindType DEF Entries
<1>4. \A path \in Paths : Entries'[path] \in Past[path]
      BY <1>1, SurvivorsDurable DEF Entries, Past, Kind, EngineInv
<1>5. Past' = [path \in Paths |-> {Entries'[path]}]
  <2>1. \A path \in Paths : Survivors(path)' = {file'[path]}
        BY <1>1 DEF EngineInv, FileInv, DestinationsWhole, Whole, Survivors
  <2> QED BY <2>1 DEF Past, Entries, Kind
<1>6. Store!Lose
      BY <1>2, <1>3, <1>4, <1>5 DEF Store!Lose, Entries, Past, Status
<1> QED BY <1>6 DEF Store!Next

LEMMA StoreStep ==
    ASSUME EngineInv, [EngineNext]_engineVars
    PROVE  Store!Next \/ UNCHANGED Store!storeVars
<1>1. EngineInv'
      BY EngineInvariantStep
<1>2. ASSUME NEW p \in Writers, Resolve(p) PROVE Store!Next \/ UNCHANGED Store!storeVars
  <2>1. CASE CheckCache(p) \/ Installed(p) \/ Recheck(p) \/ Verify(p)
        BY <2>1, ResolveImplements
  <2>2. CASE Install(p) \/ (WriteCall(p) /\ ~Replace(p)) \/ ReplaceRefused(p)
        BY <2>2, CallImplements
  <2>3. CASE WriteCall(p) /\ Replace(p)
        BY <1>1, <2>3, ReplaceImplements DEF WriteCall
  <2> QED BY <1>1, <1>2, <2>1, <2>2, <2>3, MakeExecutableImplements DEF Resolve
<1>3. ASSUME NEW p \in Writers, Again(p) \/ FailResolve(p) \/ FailCall(p) \/ KillResolve(p)
      PROVE  Store!Next \/ UNCHANGED Store!storeVars
      BY <1>3, ResolveImplements, FailResolveImplements, CallImplements, KillImplements
<1>4. ASSUME NEW path \in Paths, Meddle(path) \/ CacheFlush(path) PROVE Store!Next
      BY <1>1, <1>4, MeddleImplements, FlushImplements
<1>5. CASE CachePowerLoss
      BY <1>1, <1>5, PowerLossImplements
<1>6. CASE UNCHANGED engineVars
      BY <1>6 DEF engineVars, fileVars, cacheVars, Store!storeVars, Survivors, Kind
<1> QED BY <1>2, <1>3, <1>4, <1>5, <1>6 DEF EngineNext

\* Extraction by any number of processes of any number of builds, interleaved and
\* broken off at any system call, implements EngineStore: an engine is returned
\* only if it is there at that moment, no process makes an entry worse, and a
\* power loss brings back an earlier entry, never half of one.
THEOREM CacheImplementsStore == EngineSpec => ImplementsStore
<1>1. EngineInv /\ [EngineNext]_engineVars => [Store!Next]_(Store!storeVars)
      BY StoreStep
<1> QED BY <1>1, StoreInit, EngineInvariance, PTL DEF EngineSpec, ImplementsStore, Store!Spec
=============================================================================
