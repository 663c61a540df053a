-------------------------- MODULE AtomicFileProofs --------------------------
(***************************************************************************)
(* Proofs about AtomicFile, for any number of writers, paths, contents and *)
(* faults: no destination is ever torn, and Write is one atomic replacement.*)
(***************************************************************************)
EXTENDS AtomicFile, FiniteSetTheorems, TLAPS

USE FileAssumption

LEMMA FileInitInvariant == FileInit => FileInv
BY DEF FileInit, FileInv, FileTypeOK, TempProgress, DestinationsWhole, LitterNeedsDeath,
       Whole, Steps, InCall, Progress

\* A step of one writer that leaves the destinations alone, and leaves the writer
\* with a temporary file that fits its next step.
LEMMA LocalStep ==
    ASSUME FileInv, NEW w \in Writers,
           UNCHANGED <<file, durable>>,
           temp' \in [Writers -> Files \cup {None}], call' \in [Writers -> Calls \cup {None}],
           step' \in [Writers -> Steps], result' \in [Writers -> Results \cup {None}],
           litter' \in Nat, faults' \in 0..MaxFaults, deaths' \in Nat, litter' <= deaths',
           \A v \in Writers \ {w} :
             temp'[v] = temp[v] /\ call'[v] = call[v] /\ step'[v] = step[v],
           InCall(w)', Progress(w)'
    PROVE  FileInv'
<1>1. \A v \in Writers \ {w} : InCall(v)' /\ Progress(v)'
      BY DEF FileInv, FileTypeOK, TempProgress, InCall, Progress
<1>2. FileTypeOK' /\ TempProgress'
      BY <1>1 DEF FileInv, FileTypeOK, TempProgress
<1>3. DestinationsWhole'
      BY DEF FileInv, DestinationsWhole, Whole
<1> QED BY <1>2, <1>3 DEF FileInv, LitterNeedsDeath

LEMMA WriteStart ==
    ASSUME FileInv, NEW w \in Writers, NEW path \in Paths, NEW data \in Contents,
           NEW mode \in Modes, Write(w, path, data, mode)
    PROVE  FileInv'
<1> DEFINE c == [path |-> path, data |-> data, mode |-> mode]
<1>1. c \in Calls /\ c # None
      BY DEF Calls
<1>2. /\ step' = [step EXCEPT ![w] = "createTemp"] /\ call' = [call EXCEPT ![w] = c]
      /\ result' = [result EXCEPT ![w] = None]
      /\ UNCHANGED <<file, durable, temp, litter, faults, deaths>> /\ step[w] = "idle"
      BY DEF Write, Goto
<1> HIDE DEF c
<1> QED BY <1>1, <1>2, LocalStep
        DEF FileInv, FileTypeOK, LitterNeedsDeath, Steps, Results, InCall, Progress

\* The five system calls that only prepare the temporary file.
LEMMA PrepareStep ==
    ASSUME FileInv, NEW w \in Writers,
           CreateTemp(w) \/ ChmodTemp(w) \/ WriteTemp(w) \/ SyncTemp(w) \/ CloseTemp(w)
    PROVE  FileInv'
<1>1. /\ UNCHANGED <<file, durable, call, result, litter, faults, deaths>>
      /\ step[w] \in {"createTemp", "chmod", "write", "sync", "close"}
      /\ call[w] \in Calls /\ call[w] # None
      /\ step[w] # "createTemp" => temp[w] \in Files
      BY DEF CreateTemp, ChmodTemp, WriteTemp, SyncTemp, CloseTemp, SystemCall,
             FileInv, FileTypeOK, InCall
<1>2. /\ step \in [Writers -> Steps] /\ temp \in [Writers -> Files \cup {None}]
      /\ step' \in [Writers -> Steps]
      /\ \A v \in Writers \ {w} : temp'[v] = temp[v] /\ step'[v] = step[v]
      BY DEF CreateTemp, ChmodTemp, WriteTemp, SyncTemp, CloseTemp, SystemCall, Goto,
             FileInv, FileTypeOK, Steps
<1>3. Progress(w)
      BY DEF FileInv, TempProgress
<1>4. ASSUME NEW f \in Files, temp' = [temp EXCEPT ![w] = f], step'[w] \in Steps \ {"idle"},
             step'[w] \in {"write", "sync", "close", "replace"} => f.mode = call[w].mode,
             step'[w] \in {"sync", "close", "replace"} => f.data = call[w].data,
             step'[w] \in {"close", "replace"} => f.synced
      PROVE  FileInv'
  <2>1. temp' \in [Writers -> Files \cup {None}] /\ temp'[w] = f /\ f # None
        BY <1>2, <1>4
  <2>2. InCall(w)' /\ Progress(w)'
        BY <1>1, <1>4, <2>1 DEF InCall, Progress
  <2> QED BY <1>1, <1>2, <2>1, <2>2, LocalStep DEF FileInv, FileTypeOK, LitterNeedsDeath
<1>5. CASE CreateTemp(w)
  <2>1. Empty \in Files
        BY DEF Empty, Files
  <2> QED BY <1>2, <1>4, <1>5, <2>1 DEF CreateTemp, SystemCall, Goto, Steps
<1>6. CASE ChmodTemp(w)
  <2> DEFINE f == [temp[w] EXCEPT !.mode = call[w].mode]
  <2>1. f \in Files /\ f.mode = call[w].mode
        BY <1>1, <1>6 DEF ChmodTemp, SystemCall, Files, Calls
  <2>2. temp' = [temp EXCEPT ![w] = f] /\ step'[w] = "write"
        BY <1>2, <1>6 DEF ChmodTemp, SystemCall, Goto
  <2> QED BY <1>4, <2>1, <2>2 DEF Steps
<1>7. CASE WriteTemp(w)
  <2> DEFINE f == [temp[w] EXCEPT !.data = call[w].data]
  <2>1. f \in Files /\ f.data = call[w].data /\ f.mode = call[w].mode
        BY <1>1, <1>3, <1>7 DEF WriteTemp, SystemCall, Files, Calls, Progress
  <2>2. temp' = [temp EXCEPT ![w] = f] /\ step'[w] = "sync"
        BY <1>2, <1>7 DEF WriteTemp, SystemCall, Goto
  <2> QED BY <1>4, <2>1, <2>2 DEF Steps
<1>8. CASE SyncTemp(w)
  <2> DEFINE f == [temp[w] EXCEPT !.synced = TRUE]
  <2>1. f \in Files /\ f.data = call[w].data /\ f.mode = call[w].mode /\ f.synced
        BY <1>1, <1>3, <1>8 DEF SyncTemp, SystemCall, Files, Progress
  <2>2. temp' = [temp EXCEPT ![w] = f] /\ step'[w] = "close"
        BY <1>2, <1>8 DEF SyncTemp, SystemCall, Goto
  <2> QED BY <1>4, <2>1, <2>2 DEF Steps
<1>9. CASE CloseTemp(w)
  <2>1. temp' = [temp EXCEPT ![w] = temp[w]] /\ step'[w] = "replace"
        BY <1>2, <1>9 DEF CloseTemp, SystemCall, Goto
  <2>2. /\ temp[w].data = call[w].data /\ temp[w].mode = call[w].mode /\ temp[w].synced
        /\ temp[w] \in Files
        BY <1>1, <1>3, <1>9 DEF CloseTemp, SystemCall, Progress
  <2> QED BY <1>4, <2>1, <2>2 DEF Steps
<1> QED BY <1>5, <1>6, <1>7, <1>8, <1>9

\* What is renamed is what the call asked for, whole and synced.
LEMMA ReplacingWhole ==
    ASSUME FileInv, NEW w \in Writers, step[w] = "replace"
    PROVE  /\ call[w] \in Calls /\ temp[w] \in Files
           /\ temp[w].data = call[w].data /\ temp[w].mode = call[w].mode
           /\ Whole(temp[w])
BY DEF FileInv, FileTypeOK, InCall, TempProgress, Progress, Whole, Calls

LEMMA ReplaceStep == ASSUME FileInv, NEW w \in Writers, Replace(w) PROVE FileInv'
<1>1. /\ step[w] = "replace"
      /\ file' = [file EXCEPT ![call[w].path] = temp[w]]
      /\ durable' = [durable EXCEPT ![call[w].path] = @ \cup {temp[w]}]
      /\ temp' = [temp EXCEPT ![w] = None] /\ result' = [result EXCEPT ![w] = "ok"]
      /\ step' = [step EXCEPT ![w] = "cleanup"]
      /\ UNCHANGED <<call, litter, faults, deaths>>
      BY DEF Replace, Goto
<1>2. call[w] \in Calls /\ temp[w] \in Files /\ Whole(temp[w]) /\ call[w].path \in Paths
      BY <1>1, ReplacingWhole DEF Calls
<1>3. FileTypeOK'
      BY <1>1, <1>2 DEF FileInv, FileTypeOK, InCall, Steps, Results
<1>4. TempProgress'
      BY <1>1 DEF FileInv, FileTypeOK, TempProgress, Progress
<1>5. DestinationsWhole'
      BY <1>1, <1>2 DEF FileInv, FileTypeOK, DestinationsWhole
<1> QED BY <1>1, <1>3, <1>4, <1>5 DEF FileInv, LitterNeedsDeath

LEMMA FailStepStep == ASSUME FileInv, NEW w \in Writers, FailStep(w) PROVE FileInv'
<1>1. /\ UNCHANGED <<file, durable, temp, call, litter, deaths>> /\ faults' \in 0..MaxFaults
      /\ step' = [step EXCEPT ![w] = "cleanup"] /\ step[w] # "idle"
      /\ result' \in [Writers -> Results \cup {None}]
      BY DEF FailStep, Rejected, Fault, Goto, FileInv, FileTypeOK, Results
<1> QED BY <1>1, LocalStep
        DEF FileInv, FileTypeOK, LitterNeedsDeath, Steps, InCall, Progress

\* The end of a call, by Cleanup or by a kill.
LEMMA EndStep ==
    ASSUME FileInv, NEW w \in Writers,
           temp' = [temp EXCEPT ![w] = None], call' = [call EXCEPT ![w] = None],
           step' = [step EXCEPT ![w] = "idle"], UNCHANGED <<file, durable, result>>,
           litter' \in Nat, deaths' \in Nat, litter' <= deaths', faults' \in 0..MaxFaults
    PROVE  FileInv'
BY LocalStep DEF FileInv, FileTypeOK, Steps, InCall, Progress

LEMMA CleanupStep == ASSUME FileInv, NEW w \in Writers, Cleanup(w) PROVE FileInv'
<1>1. /\ litter' \in Nat /\ deaths' \in Nat /\ litter' <= deaths' /\ faults' \in 0..MaxFaults
      BY DEF Cleanup, Fault, FileInv, FileTypeOK, LitterNeedsDeath
<1> QED BY <1>1, EndStep DEF Cleanup, Goto

LEMMA KillStep == ASSUME FileInv, NEW w \in Writers, Kill(w) PROVE FileInv'
<1>1. /\ litter' \in Nat /\ deaths' \in Nat /\ litter' <= deaths' /\ faults' \in 0..MaxFaults
      BY DEF Kill, Fault, FileInv, FileTypeOK, LitterNeedsDeath
<1> QED BY <1>1, EndStep DEF Kill, Goto

-----------------------------------------------------------------------------
\* The data of a whole file survives, so a power loss brings back only files
\* that some rename put there.
LEMMA SurvivorsDurable ==
    ASSUME FileInv, NEW path \in Paths
    PROVE  Survivors(path) = durable[path]
BY DEF FileInv, DestinationsWhole, Whole, Survivors

LEMMA FlushedWhole ==
    ASSUME FileInv, NEW path \in Paths
    PROVE  Flushed(file[path]) = file[path]
<1>1. CASE file[path] = None
      BY <1>1 DEF Flushed
<1>2. CASE file[path] # None
  <2>1. file[path] \in Files /\ file[path].synced = TRUE
        BY <1>2 DEF FileInv, FileTypeOK, DestinationsWhole, Whole, Files
  <2> QED BY <1>2, <2>1 DEF Flushed, Files
<1> QED BY <1>1, <1>2

LEMMA FlushStep == ASSUME FileInv, NEW path \in Paths, Flush(path) PROVE FileInv'
<1>1. /\ file' = file /\ durable' = [durable EXCEPT ![path] = {file[path]}]
      /\ UNCHANGED <<temp, call, step, result, litter, faults, deaths>>
      BY FlushedWhole DEF Flush, FileInv, FileTypeOK
<1>2. FileTypeOK' /\ TempProgress' /\ LitterNeedsDeath'
      BY <1>1 DEF FileInv, FileTypeOK, InCall, TempProgress, Progress, LitterNeedsDeath
<1>3. DestinationsWhole'
      BY <1>1 DEF FileInv, FileTypeOK, DestinationsWhole, Whole
<1> QED BY <1>2, <1>3 DEF FileInv

LEMMA PowerLossStep == ASSUME FileInv, PowerLoss PROVE FileInv'
<1>1. PICK survivor \in [Paths -> UNION {Survivors(path) : path \in Paths}] :
        /\ \A path \in Paths : survivor[path] \in Survivors(path)
        /\ file' = survivor
        /\ durable' = [path \in Paths |-> {survivor[path]}]
      BY DEF PowerLoss
<1> DEFINE abandoned == {w \in Writers : temp[w] # None}
           killed == {w \in Writers : step[w] # "idle"}
<1>2. /\ Cardinality(abandoned) \in Nat /\ Cardinality(killed) \in Nat
      /\ Cardinality(abandoned) <= Cardinality(killed)
  <2>1. abandoned \in SUBSET killed /\ killed \in SUBSET Writers
        BY DEF FileInv, FileTypeOK, InCall
  <2> HIDE DEF abandoned, killed
  <2>2. IsFiniteSet(killed)
        BY <2>1, FS_Subset
  <2> QED BY <2>1, <2>2, FS_Subset, FS_CardinalityType
<1>3. /\ litter' = litter + Cardinality(abandoned) /\ deaths' = deaths + Cardinality(killed)
      /\ temp' = [w \in Writers |-> None] /\ call' = [w \in Writers |-> None]
      /\ step' = [w \in Writers |-> "idle"] /\ UNCHANGED result /\ faults' \in 0..MaxFaults
      BY DEF PowerLoss, Fault, FileInv, FileTypeOK
<1> HIDE DEF abandoned, killed
<1>4. \A path \in Paths : survivor[path] \in durable[path]
      BY <1>1, SurvivorsDurable
<1>5. file' \in [Paths -> Files \cup {None}] /\ durable' \in [Paths -> SUBSET (Files \cup {None})]
      BY <1>1, <1>4 DEF FileInv, FileTypeOK
<1>6. FileTypeOK' /\ TempProgress' /\ LitterNeedsDeath'
      BY <1>2, <1>3, <1>5
         DEF FileInv, FileTypeOK, InCall, TempProgress, Progress, LitterNeedsDeath, Steps
<1>7. DestinationsWhole'
      BY <1>1, <1>4 DEF FileInv, DestinationsWhole
<1> QED BY <1>6, <1>7 DEF FileInv

LEMMA FileInvariantStep == FileInv /\ [FileNext]_fileVars => FileInv'
<1> SUFFICES ASSUME FileInv, [FileNext]_fileVars PROVE FileInv'
    OBVIOUS
<1>1. ASSUME NEW w \in Writers, NEW path \in Paths, NEW data \in Contents, NEW mode \in Modes,
             Write(w, path, data, mode)
      PROVE  FileInv'
      BY <1>1, WriteStart
<1>2. ASSUME NEW w \in Writers, WriteStep(w) \/ FailStep(w) \/ Kill(w) PROVE FileInv'
      BY <1>2, PrepareStep, ReplaceStep, CleanupStep, FailStepStep, KillStep DEF WriteStep
<1>3. ASSUME NEW path \in Paths, Flush(path) PROVE FileInv'
      BY <1>3, FlushStep
<1>4. CASE PowerLoss
      BY <1>4, PowerLossStep
<1>5. CASE UNCHANGED fileVars
      BY <1>5 DEF fileVars, FileInv, FileTypeOK, InCall, TempProgress, Progress,
         DestinationsWhole, Whole, LitterNeedsDeath
<1> QED BY <1>1, <1>2, <1>3, <1>4, <1>5 DEF FileNext

\* The inductive invariant of every instance.
THEOREM FileInvariance == FileSpec => []FileInv
BY FileInitInvariant, FileInvariantStep, PTL DEF FileSpec

\* The variables keep their types, and a call in progress its arguments and its
\* temporary file, at every system call of Write.
THEOREM FileTypesCorrect == FileSpec => []FileTypeOK
BY FileInvariance, PTL DEF FileInv

\* No process ever finds a partly written file at a destination of Write.
THEOREM DestinationsNeverTorn == FileSpec => []NeverTorn
<1>1. FileInv => NeverTorn
      BY DEF FileInv, DestinationsWhole, Whole, NeverTorn
<1> QED BY <1>1, FileInvariance, PTL

\* Temporary files are left behind by dead processes only.
THEOREM FailuresLeaveNoLitter == FileSpec => []LitterNeedsDeath
BY FileInvariance, PTL DEF FileInv

-----------------------------------------------------------------------------
(* AtomicFile implements AtomicReplace.                                      *)

LEMMA ReplacementInit == FileInit => Replacement!Init
BY DEF FileInit, Replacement!Init, Visible

LEMMA ReplacementStep ==
    FileInv /\ [FileNext]_fileVars => [Replacement!Next]_(Replacement!replaceVars)
<1> SUFFICES ASSUME FileInv, [FileNext]_fileVars
             PROVE  [Replacement!Next]_(Replacement!replaceVars)
    OBVIOUS
<1> DEFINE value == [path \in Paths |-> Visible(file[path])]
           recent == [path \in Paths |-> {Visible(f) : f \in durable[path]}]
           pending == [w \in Writers |-> IF step[w] = "cleanup" THEN None ELSE call[w]]
<1>1. /\ file \in [Paths -> Files \cup {None}] /\ step \in [Writers -> Steps]
      /\ durable \in [Paths -> SUBSET (Files \cup {None})]
      /\ call \in [Writers -> Calls \cup {None}] /\ result \in [Writers -> Results \cup {None}]
      BY DEF FileInv, FileTypeOK
<1>2. ASSUME NEW w \in Writers, NEW path \in Paths, NEW data \in Contents, NEW mode \in Modes,
             Write(w, path, data, mode)
      PROVE  Replacement!Next
  <2>1. call[w] = None /\ step[w] = "idle"
        BY <1>2 DEF Write, FileInv, FileTypeOK, InCall
  <2>2. Replacement!Invoke(w, path, data, mode)
        BY <1>1, <1>2, <2>1 DEF Write, Goto, Replacement!Invoke, Visible
  <2> QED BY <2>2 DEF Replacement!Next
<1>3. ASSUME NEW w \in Writers,
             \/ CreateTemp(w) \/ ChmodTemp(w) \/ WriteTemp(w) \/ SyncTemp(w) \/ CloseTemp(w)
             \/ Cleanup(w)
      PROVE  UNCHANGED Replacement!replaceVars
  <2>1. UNCHANGED <<file, durable, result>>
        BY <1>3 DEF CreateTemp, ChmodTemp, WriteTemp, SyncTemp, CloseTemp, SystemCall, Cleanup
  <2>2. pending' = pending
        BY <1>1, <1>3 DEF CreateTemp, ChmodTemp, WriteTemp, SyncTemp, CloseTemp, SystemCall,
               Cleanup, Goto
  <2> QED BY <2>1, <2>2 DEF Replacement!replaceVars, Visible
<1>4. ASSUME NEW w \in Writers, Replace(w) PROVE Replacement!Next
  <2>1. /\ step[w] = "replace" /\ pending[w] = call[w] /\ call[w] # None
        /\ call[w].path \in Paths
        /\ Visible(temp[w]) = [data |-> call[w].data, mode |-> call[w].mode]
        BY <1>4, ReplacingWhole DEF Replace, Calls, Visible
  <2>2. value' = [value EXCEPT ![call[w].path] = Visible(temp[w])]
        BY <1>1, <1>4, <2>1 DEF Replace
  <2>3. recent' = [recent EXCEPT ![call[w].path] = @ \cup {Visible(temp[w])}]
    <3> DEFINE before == recent[call[w].path]
               after == {Visible(f) : f \in durable[call[w].path] \cup {temp[w]}}
    <3>1. after = before \cup {Visible(temp[w])}
          BY <2>1
    <3>2. /\ durable'[call[w].path] = durable[call[w].path] \cup {temp[w]}
          /\ \A path \in Paths \ {call[w].path} : durable'[path] = durable[path]
          BY <1>1, <1>4, <2>1 DEF Replace
    <3>3. \A path \in Paths :
            recent'[path] = IF path = call[w].path THEN after ELSE recent[path]
          BY <3>2
    <3> HIDE DEF after
    <3> QED BY <2>1, <3>1, <3>3
  <2>4. pending' = [pending EXCEPT ![w] = None]
        BY <1>1, <1>4 DEF Replace, Goto
  <2>5. result' = [result EXCEPT ![w] = "ok"]
        BY <1>4 DEF Replace
  <2>6. Replacement!Commit(w)
        BY <2>1, <2>2, <2>3, <2>4, <2>5 DEF Replacement!Commit
  <2> QED BY <2>6 DEF Replacement!Next
<1>5. ASSUME NEW w \in Writers, FailStep(w) PROVE Replacement!Next
  <2>1. PICK reason \in {"error", "linkError"} : result' = [result EXCEPT ![w] = reason]
        BY <1>5 DEF FailStep, Rejected
  <2>2. pending[w] # None /\ pending' = [pending EXCEPT ![w] = None]
        BY <1>1, <1>5 DEF FailStep, Rejected, Goto, FileInv, FileTypeOK, InCall
  <2>3. UNCHANGED <<file, durable>>
        BY <1>5 DEF FailStep, Rejected
  <2>4. Replacement!Reject(w, reason)
        BY <2>1, <2>2, <2>3 DEF Replacement!Reject, Visible
  <2> QED BY <2>4 DEF Replacement!Next
<1>6. ASSUME NEW w \in Writers, Kill(w) PROVE Replacement!Next
  <2>1. pending' = [pending EXCEPT ![w] = None] /\ UNCHANGED <<file, durable, result>>
        BY <1>1, <1>6 DEF Kill, Goto
  <2>2. Replacement!Die(w)
        BY <2>1 DEF Replacement!Die, Visible
  <2> QED BY <2>2 DEF Replacement!Next
<1>7. ASSUME NEW path \in Paths, Flush(path) PROVE Replacement!Next
  <2>1. /\ file' = file /\ durable' = [durable EXCEPT ![path] = {file[path]}]
        /\ UNCHANGED <<step, call, result>>
        BY <1>1, <1>7, FlushedWhole DEF Flush
  <2>2. recent' = [recent EXCEPT ![path] = {value[path]}]
    <3>1. \A other \in Paths :
            recent'[other] = IF other = path THEN {value[path]} ELSE recent[other]
          BY <1>1, <2>1
    <3> QED BY <3>1
  <2>3. Replacement!Settle(path)
        BY <2>1, <2>2 DEF Replacement!Settle
  <2> QED BY <2>3 DEF Replacement!Next
<1>8. ASSUME PowerLoss PROVE Replacement!Next
  <2>1. PICK survivor \in [Paths -> UNION {Survivors(path) : path \in Paths}] :
          /\ \A path \in Paths : survivor[path] \in Survivors(path)
          /\ file' = survivor
          /\ durable' = [path \in Paths |-> {survivor[path]}]
        BY <1>8 DEF PowerLoss
  <2> DEFINE seen == [path \in Paths |-> Visible(survivor[path])]
  <2>2. \A path \in Paths : seen[path] \in recent[path]
        BY <1>1, <2>1, SurvivorsDurable
  <2>3. seen \in [Paths -> UNION {recent[path] : path \in Paths}]
        BY <2>2
  <2>4. value' = seen /\ recent' = [path \in Paths |-> {seen[path]}]
        BY <2>1
  <2>5. pending' = [w \in Writers |-> None] /\ UNCHANGED result
        BY <1>8 DEF PowerLoss
  <2> HIDE DEF seen
  <2>6. Replacement!Lose
        BY <2>2, <2>3, <2>4, <2>5 DEF Replacement!Lose
  <2> QED BY <2>6 DEF Replacement!Next
<1>9. ASSUME UNCHANGED fileVars PROVE UNCHANGED Replacement!replaceVars
      BY <1>9 DEF fileVars, Replacement!replaceVars, Visible
<1> QED BY <1>2, <1>3, <1>4, <1>5, <1>6, <1>7, <1>8, <1>9 DEF FileNext, WriteStep

\* The seven system calls of Write, interleaved with those of other processes
\* and broken off anywhere, are one atomic replacement or none.
THEOREM WriteIsAtomic == FileSpec => ImplementsReplacement
BY ReplacementInit, ReplacementStep, FileInvariance, PTL
   DEF FileSpec, ImplementsReplacement, Replacement!Spec
=============================================================================
