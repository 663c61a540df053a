------------------------- MODULE SnapshotLockProofs -------------------------
(***************************************************************************)
(* Proofs about SnapshotLock, for any number of runs, targets, releases and *)
(* commits: what a reported success says about the lock and the artifacts. *)
(***************************************************************************)
EXTENDS SnapshotLock, TLAPS

USE SnapshotAssumption, LockAssumption

-----------------------------------------------------------------------------
(* Jobs.                                                                     *)

LEMMA EndedType ==
    ASSUME NEW pc \in RunPcs
    PROVE  Ended(pc) \in RunJobs /\ Ended(pc).pc = pc
<1>1. NoDigests \in [Targets -> Contents \cup {None}] /\ 1 \in Targets
      BY DEF NoDigests, Targets
<1> QED BY <1>1 DEF Ended, RunJobs, Snapshots

\* A run goes to another step, and keeps its variables unless it ends.
LEMMA EnterType ==
    ASSUME SnapshotTypeOK, NEW r \in Runs, NEW pc \in RunPcs, Enter(r, pc)
    PROVE  /\ job' \in [Runs -> RunJobs]
           /\ job'[r].pc = pc
           /\ pc \notin Finished => job'[r] = [job[r] EXCEPT !.pc = pc]
           /\ \A s \in Runs \ {r} : job'[s] = job[s]
<1>1. job \in [Runs -> RunJobs] /\ job[r] \in RunJobs
      BY DEF SnapshotTypeOK
<1>2. [job[r] EXCEPT !.pc = pc] \in RunJobs /\ [job[r] EXCEPT !.pc = pc].pc = pc
      BY <1>1 DEF RunJobs
<1> QED BY <1>1, <1>2, EndedType DEF Enter, GoOn

LEMMA GoOnType ==
    ASSUME SnapshotTypeOK, NEW r \in Runs, NEW j \in RunJobs, GoOn(r, j)
    PROVE  job' \in [Runs -> RunJobs] /\ job'[r] = j /\ \A s \in Runs \ {r} : job'[s] = job[s]
BY DEF GoOn, SnapshotTypeOK

\* A loop over the targets goes on with the next one or ends after the last.
LEMMA NextTargetType ==
    ASSUME NEW j \in RunJobs, NEW again \in RunPcs, NEW after \in RunPcs,
           NEW next, next = NextTarget(j, again, after)
    PROVE  /\ next \in RunJobs
           /\ j.at < Last => /\ next.pc = again /\ next.at = j.at + 1 /\ next.tag = j.tag
                             /\ next.command = j.command /\ next.snapshot = j.snapshot
           /\ ~(j.at < Last) => next.pc = after /\ next.at = 1
           /\ ~(j.at < Last) /\ after \notin Finished
                => /\ next.tag = j.tag /\ next.command = j.command
                   /\ next.snapshot = j.snapshot
<1>1. j.at \in 1..Last /\ 1 \in Targets
      BY DEF RunJobs, Targets
<1>2. CASE j.at < Last
  <2>1. j.at + 1 \in Targets
        BY <1>1, <1>2 DEF Targets
  <2>2. next = [j EXCEPT !.pc = again, !.at = j.at + 1]
        BY <1>2 DEF NextTarget
  <2> QED BY <1>2, <2>1, <2>2 DEF RunJobs
<1>3. CASE ~(j.at < Last) /\ after \in Finished
  <2>1. next = Ended(after)
        BY <1>3 DEF NextTarget
  <2> QED BY <1>3, <2>1, EndedType DEF Ended
<1>4. CASE ~(j.at < Last) /\ after \notin Finished
  <2>1. next = [j EXCEPT !.pc = after, !.at = 1]
        BY <1>4 DEF NextTarget
  <2> QED BY <1>1, <1>4, <2>1 DEF RunJobs
<1> QED BY <1>2, <1>3, <1>4

-----------------------------------------------------------------------------
(* The inductive invariant.                                                  *)

LEMMA SnapshotInitInvariant == SnapshotInit => SnapshotInv
<1> SUFFICES ASSUME SnapshotInit PROVE SnapshotInv
    OBVIOUS
<1>1. PICK built \in [Tags -> Revisions], missing \in SUBSET Tags :
        release = [tag \in Tags |-> [target \in Targets |->
                     IF tag \in missing /\ target = Last THEN None ELSE built[tag]]]
      BY DEF SnapshotInit
<1>2. release \in [Tags -> [Targets -> Revisions \cup {None}]]
      BY <1>1
<1>3. PICK pinned \in Versioned : /\ artifact = [target \in Targets |-> pinned]
                                 /\ lock = [revision |-> pinned, digests |-> artifact]
      BY DEF SnapshotInit
<1>4. /\ artifact \in [Targets -> Contents \cup {None}] /\ lock \in Snapshots /\ Valid(lock)
      /\ Consistent
      BY <1>3 DEF Contents, Snapshots, Valid, Consistent, Readable
<1>5. "idle" \in RunPcs /\ Ended("idle") \in RunJobs /\ Ended("idle").pc = "idle"
      BY EndedType DEF RunPcs, Finished
<1>6. job \in [Runs -> RunJobs] /\ \A r \in Runs : job[r].pc = "idle"
      BY <1>5 DEF SnapshotInit
<1>7. SnapshotTypeOK
  <2>1. /\ ref \in [Tags -> Objects] /\ binary = [target \in Targets |-> None]
        /\ touched = {} /\ meddled = FALSE /\ faults = 0
        BY DEF SnapshotInit
  <2>2. binary \in [Targets -> [lock : Snapshots, engine : Contents] \cup {None}]
        BY <2>1
  <2>3. touched \subseteq Runs /\ meddled \in BOOLEAN
        BY <2>1
  <2>4. faults \in 0..MaxFaults
        BY <2>1
  <2> QED BY <1>2, <1>4, <1>6, <2>1, <2>2, <2>3, <2>4 DEF SnapshotTypeOK
<1> QED BY <1>4, <1>6, <1>7
        DEF SnapshotInv, JobShape, Shaped, AloneKnows, OkMeansConsistent, SomeoneAnswers, At

\* A step of one run that leaves the tree alone.
LEMMA QuietRunStep ==
    ASSUME SnapshotInv, SnapshotTypeOK', NEW r \in Runs,
           UNCHANGED <<artifact, lock, meddled>>, touched' \in {touched, touched \ {r}},
           \A s \in Runs \ {r} : job'[s] = job[s],
           Shaped(job'[r]),
           r \notin touched' =>
             /\ At(r, "digest")' => Agrees(r, job[r].at)'
             /\ At(r, "writeLock")' => Agrees(r, Last + 1)'
             /\ At(r, "verify")' => Verifying(r)'
             /\ At(r, "ok")' => Consistent,
           Answerable(r) => Answerable(r)' \/ Consistent
    PROVE  SnapshotInv'
<1>1. JobShape'
      BY DEF SnapshotInv, JobShape
<1>2. Consistent' = Consistent
      BY DEF Consistent, Readable
<1>3. ASSUME NEW s \in Runs, s # r
      PROVE  /\ \A n : Agrees(s, n)' = Agrees(s, n)
             /\ Verifying(s)' = Verifying(s) /\ Answerable(s)' = Answerable(s)
             /\ \A pc : At(s, pc)' = At(s, pc)
      BY <1>3 DEF Agrees, Verifying, Answerable, At
<1>4. AloneKnows'
      BY <1>3 DEF SnapshotInv, AloneKnows
<1>5. OkMeansConsistent'
      BY <1>2, <1>3 DEF SnapshotInv, OkMeansConsistent
<1>6. SomeoneAnswers'
      BY <1>2, <1>3 DEF SnapshotInv, SomeoneAnswers
<1> QED BY <1>1, <1>4, <1>5, <1>6 DEF SnapshotInv

\* A step of one run that changes the tree: only that run knows the tree now.
LEMMA ChangingRunStep ==
    ASSUME SnapshotInv, SnapshotTypeOK', NEW r \in Runs, Changing(r),
           \A s \in Runs \ {r} : job'[s] = job[s],
           Shaped(job'[r]),
           r \notin touched =>
             /\ At(r, "digest")' => Agrees(r, job[r].at)'
             /\ At(r, "writeLock")' => Agrees(r, Last + 1)'
             /\ At(r, "verify")' => Verifying(r)'
             /\ At(r, "ok")' => Consistent',
           meddled' \/ Answerable(r)'
    PROVE  SnapshotInv'
<1>1. JobShape'
      BY DEF SnapshotInv, JobShape
<1>2. \A s \in Runs \ touched' : s = r /\ r \notin touched
      BY DEF Changing
<1>3. AloneKnows' /\ OkMeansConsistent' /\ SomeoneAnswers'
      BY <1>2 DEF AloneKnows, OkMeansConsistent, SomeoneAnswers
<1> QED BY <1>1, <1>3 DEF SnapshotInv

LEMMA StartStep ==
    ASSUME SnapshotInv, NEW r \in Runs, NEW command \in Commands,
           NEW tag \in Tags \cup {None}, NEW revision \in Revisions \cup {None},
           command = "pull" => tag \in Tags, Start(r, command, tag, revision)
    PROVE  SnapshotInv'
<1> DEFINE j == [pc |-> CASE command = "pull" -> "resolve"
                          [] command = "write" -> "digest"
                          [] command = "verify" -> "readLock",
                 command |-> command, tag |-> tag, at |-> 1, archive |-> None,
                 snapshot |-> [revision |-> revision, digests |-> NoDigests]]
<1>1. /\ j.pc \in {"resolve", "digest", "readLock"} /\ j.at = 1 /\ j \in RunJobs
      /\ Shaped(j)
  <2>1. NoDigests \in [Targets -> Contents \cup {None}] /\ 1 \in Targets
        BY DEF NoDigests, Targets
  <2>2. j.pc \in {"resolve", "digest", "readLock"}
        BY DEF RunPcs
  <2>3. Shaped(j)
        BY DEF Shaped
  <2> QED BY <2>1, <2>2, <2>3 DEF RunJobs, RunPcs, Snapshots
<1>2. /\ GoOn(r, j) /\ touched' = touched \ {r}
      /\ UNCHANGED <<upstream, artifact, lock, binary, meddled, faults>>
      BY DEF Start, GoOn, tree
<1> HIDE DEF j
<1>3. job' \in [Runs -> RunJobs] /\ job'[r] = j /\ \A s \in Runs \ {r} : job'[s] = job[s]
      BY <1>1, <1>2, GoOnType DEF SnapshotInv
<1>4. SnapshotTypeOK'
      BY <1>2, <1>3 DEF SnapshotInv, SnapshotTypeOK, upstream, Valid
<1>5. Answerable(r)' /\ Agrees(r, 1)' /\ ~At(r, "writeLock")' /\ ~At(r, "verify")' /\ ~At(r, "ok")'
      BY <1>1, <1>3 DEF Answerable, Agrees, At
<1> QED BY <1>1, <1>2, <1>3, <1>4, <1>5, QuietRunStep

\* The steps before the first change of the tree, and a failure anywhere.
LEMMA PlainStep ==
    ASSUME SnapshotInv, NEW r \in Runs, NEW j \in RunJobs, GoOn(r, j),
           j.pc \in {"failed", "version", "fetch", "install"}, Shaped(j),
           UNCHANGED <<upstream, tree, binary, touched, meddled>>, faults' \in 0..MaxFaults
    PROVE  SnapshotInv'
<1>1. job' \in [Runs -> RunJobs] /\ job'[r] = j /\ \A s \in Runs \ {r} : job'[s] = job[s]
      BY GoOnType DEF SnapshotInv
<1>2. SnapshotTypeOK'
      BY <1>1 DEF SnapshotInv, SnapshotTypeOK, upstream, tree, Valid
<1>3. Answerable(r)'
      BY <1>1 DEF Answerable, At
<1> QED BY <1>1, <1>2, <1>3, QuietRunStep DEF At, tree

LEMMA FailedStep ==
    ASSUME SnapshotInv, NEW r \in Runs, Enter(r, "failed"),
           UNCHANGED <<upstream, tree, binary, touched, meddled>>, faults' \in 0..MaxFaults
    PROVE  SnapshotInv'
<1>1. "failed" \in RunPcs /\ Ended("failed") \in RunJobs /\ Ended("failed").pc = "failed"
      BY EndedType DEF RunPcs, Finished
<1>2. GoOn(r, Ended("failed")) /\ Shaped(Ended("failed"))
      BY <1>1 DEF Enter, Finished, Shaped
<1> QED BY <1>1, <1>2, PlainStep

LEMMA ResolveStep ==
    ASSUME SnapshotInv, NEW r \in Runs, ResolveRevision(r) \/ ResolveVersion(r) \/ FetchArtifact(r)
    PROVE  SnapshotInv'
<1>1. /\ UNCHANGED <<upstream, tree, binary, touched, meddled>> /\ faults' \in 0..MaxFaults
      /\ job[r] \in RunJobs /\ job[r].tag \in Tags /\ job[r].pc \in {"resolve", "version", "fetch"}
      /\ job[r].command = "pull" /\ (job[r].pc = "resolve" => job[r].at = 1)
      BY DEF ResolveRevision, ResolveVersion, FetchArtifact, history, SnapshotInv, SnapshotTypeOK,
             JobShape, Shaped, At
<1>2. CASE Enter(r, "failed")
      BY <1>1, <1>2, FailedStep
<1>3. CASE ResolveRevision(r) /\ ~Enter(r, "failed")
  <2> DEFINE new == ref[job[r].tag].revision
             j == [job[r] EXCEPT !.pc = "version", !.snapshot.revision = new]
  <2>1. new \in Revisions
        BY <1>1 DEF SnapshotInv, SnapshotTypeOK, Objects
  <2>2. GoOn(r, j) /\ job[r].at = 1
        BY <1>1, <1>3 DEF ResolveRevision, At
  <2> HIDE DEF new
  <2>3. j \in RunJobs /\ j.pc = "version" /\ Shaped(j)
        BY <1>1, <2>1, <2>2 DEF RunJobs, RunPcs, Snapshots, Shaped
  <2> HIDE DEF j
  <2> QED BY <1>1, <2>2, <2>3, PlainStep
<1>4. CASE ResolveVersion(r) /\ ~Enter(r, "failed")
  <2> DEFINE j == [job[r] EXCEPT !.pc = "fetch"]
  <2>1. GoOn(r, j)
        BY <1>4 DEF ResolveVersion, Enter, Finished
  <2>2. j \in RunJobs /\ j.pc = "fetch" /\ Shaped(j)
        BY <1>1 DEF RunJobs, RunPcs, Shaped
  <2> HIDE DEF j
  <2> QED BY <1>1, <2>1, <2>2, PlainStep
<1>5. CASE FetchArtifact(r) /\ ~Enter(r, "failed")
  <2> DEFINE asset == Extract(job[r].tag, job[r].at)
             j == [job[r] EXCEPT !.pc = "install", !.archive = asset]
  <2>1. asset \in Contents \cup {None}
        BY <1>1 DEF SnapshotInv, SnapshotTypeOK, Extract, Contents, RunJobs
  <2>2. GoOn(r, j)
        BY <1>5 DEF FetchArtifact
  <2> HIDE DEF asset
  <2>3. j \in RunJobs /\ j.pc = "install" /\ Shaped(j)
        BY <1>1, <2>1 DEF RunJobs, RunPcs, Shaped
  <2> HIDE DEF j
  <2> QED BY <1>1, <2>2, <2>3, PlainStep
<1> QED BY <1>2, <1>3, <1>4, <1>5

LEMMA InstallArtifactStep ==
    ASSUME SnapshotInv, NEW r \in Runs, InstallArtifact(r) PROVE SnapshotInv'
<1> DEFINE j == [job[r] EXCEPT !.archive = None]
           next == NextTarget(j, "fetch", "digest")
<1>1. /\ job[r] \in RunJobs /\ job[r].at \in Targets /\ job[r].archive \in Contents \cup {None}
      /\ job[r].tag \in Tags /\ job[r].command = "pull"
      BY DEF InstallArtifact, At, SnapshotInv, SnapshotTypeOK, JobShape, Shaped, RunJobs
<1>2. j \in RunJobs /\ j.tag = job[r].tag /\ j.command = job[r].command
      BY <1>1 DEF RunJobs
<1> HIDE DEF j
<1>3. /\ next \in RunJobs /\ next.pc \in {"fetch", "digest"} /\ Shaped(next)
      /\ next.pc = "digest" => next.at = 1
  <2>1. "fetch" \in RunPcs /\ "digest" \in RunPcs \ Finished
        BY DEF RunPcs, Finished
  <2>2. /\ next \in RunJobs /\ next.pc \in {"fetch", "digest"} /\ next.tag \in Tags
        /\ next.command = "pull" /\ (next.pc = "digest" => next.at = 1)
        BY <1>1, <1>2, <2>1, NextTargetType
  <2> QED BY <2>2 DEF Shaped
<1>4. /\ GoOn(r, next) /\ Changing(r) /\ UNCHANGED <<upstream, lock, binary, meddled, faults>>
      /\ artifact' = [artifact EXCEPT ![job[r].at] = job[r].archive]
      BY DEF InstallArtifact, j
<1> HIDE DEF next
<1>5. job' \in [Runs -> RunJobs] /\ job'[r] = next /\ \A s \in Runs \ {r} : job'[s] = job[s]
      BY <1>3, <1>4, GoOnType DEF SnapshotInv
<1>6. SnapshotTypeOK'
      BY <1>1, <1>4, <1>5 DEF SnapshotInv, SnapshotTypeOK, upstream, Valid, Changing
<1>7. Answerable(r)'
      BY <1>3, <1>5 DEF Answerable, At
<1>8. At(r, "digest")' => Agrees(r, job[r].at)'
      BY <1>3, <1>5 DEF Agrees, At
<1> QED BY <1>3, <1>4, <1>5, <1>6, <1>7, <1>8, ChangingRunStep DEF At

\* rxsnapshot.New reads one more artifact.
LEMMA DigestArtifactStep ==
    ASSUME SnapshotInv, NEW r \in Runs, DigestArtifact(r) PROVE SnapshotInv'
<1> DEFINE seen == artifact[job[r].at]
           j == [job[r] EXCEPT !.snapshot.digests[job[r].at] = seen]
           next == NextTarget(j, "digest", "writeLock")
<1>1. /\ job[r] \in RunJobs /\ job[r].at \in 1..Last /\ seen \in Contents \cup {None}
      /\ job[r].pc = "digest" /\ artifact \in [Targets -> Contents \cup {None}]
      /\ job[r].command \in {"pull", "write"}
      /\ UNCHANGED <<upstream, tree, binary, touched, meddled, faults>> /\ faults \in 0..MaxFaults
      BY DEF DigestArtifact, At, history, SnapshotInv, SnapshotTypeOK, JobShape, Shaped, RunJobs,
             Targets
<1>2. CASE seen = None
      BY <1>1, <1>2, FailedStep DEF DigestArtifact
<1>3. CASE seen # None
  <2>0. GoOn(r, next)
        BY <1>3 DEF DigestArtifact
  <2> HIDE DEF seen
  <2>1. /\ j \in RunJobs /\ j.at = job[r].at /\ j.command = job[r].command
        /\ j.snapshot.digests = [job[r].snapshot.digests EXCEPT ![job[r].at] = seen]
        /\ job[r].snapshot.digests \in [Targets -> Contents \cup {None}]
    <3> DEFINE before == job[r].snapshot
               after == [before EXCEPT !.digests = [before.digests EXCEPT ![job[r].at] = seen]]
    <3>1. before \in Snapshots /\ job[r].at \in Targets
          BY <1>1 DEF RunJobs, Targets
    <3>2. /\ after \in Snapshots /\ before.digests \in [Targets -> Contents \cup {None}]
          /\ after.digests = [before.digests EXCEPT ![job[r].at] = seen]
          BY <1>1, <3>1 DEF Snapshots
    <3>3. j = [job[r] EXCEPT !.snapshot = after]
          BY <1>1 DEF RunJobs
    <3> HIDE DEF after
    <3> QED BY <1>1, <3>2, <3>3 DEF RunJobs
  <2> HIDE DEF j
  <2>2. /\ next \in RunJobs /\ next.snapshot = j.snapshot /\ next.command = job[r].command
        /\ next.pc = IF job[r].at < Last THEN "digest" ELSE "writeLock"
        /\ job[r].at < Last => next.at = job[r].at + 1
        /\ ~(job[r].at < Last) => next.at = 1
    <3>1. "digest" \in RunPcs /\ "writeLock" \in RunPcs \ Finished
          BY DEF RunPcs, Finished
    <3> QED BY <2>1, <3>1, NextTargetType
  <2> HIDE DEF next
  <2>4. job' \in [Runs -> RunJobs] /\ job'[r] = next /\ \A s \in Runs \ {r} : job'[s] = job[s]
        BY <2>0, <2>2, GoOnType DEF SnapshotInv
  <2>5. SnapshotTypeOK'
        BY <1>1, <2>4 DEF SnapshotInv, SnapshotTypeOK, upstream, tree, Valid
  <2>6. Answerable(r)' /\ ~At(r, "verify")' /\ ~At(r, "ok")'
        BY <2>2, <2>4 DEF Answerable, At
  <2>7. ASSUME r \notin touched'
        PROVE  \A target \in 1..job[r].at : artifact'[target] = job'[r].snapshot.digests[target]
    <3>1. Agrees(r, job[r].at)
          BY <1>1, <2>7 DEF SnapshotInv, AloneKnows, At
    <3>2. ASSUME NEW target \in 1..job[r].at PROVE artifact[target] = next.snapshot.digests[target]
      <4>1. target \in Targets /\ (target = job[r].at \/ target \in 1..(job[r].at - 1))
            BY <1>1 DEF Targets
      <4>2. CASE target = job[r].at
            BY <2>1, <2>2, <4>1, <4>2 DEF seen
      <4>3. CASE target # job[r].at
            BY <2>1, <2>2, <3>1, <4>1, <4>3 DEF Agrees
      <4> QED BY <4>2, <4>3
    <3> QED BY <1>1, <2>4, <3>2 DEF tree
  <2>8. r \notin touched' =>
          /\ At(r, "digest")' => Agrees(r, job[r].at)'
          /\ At(r, "writeLock")' => Agrees(r, Last + 1)'
    <3>1. CASE job[r].at < Last
      <4>1. job'[r].at - 1 = job[r].at /\ job'[r].pc = "digest"
            BY <1>1, <2>2, <2>4, <3>1
      <4> QED BY <2>7, <4>1 DEF Agrees, At
    <3>2. CASE ~(job[r].at < Last)
      <4>1. (Last + 1) - 1 = job[r].at /\ job'[r].pc = "writeLock"
            BY <1>1, <2>2, <2>4, <3>2
      <4> QED BY <2>7, <4>1 DEF Agrees, At
    <3> QED BY <3>1, <3>2
  <2>9. job'[r].pc \in {"digest", "writeLock"} /\ (job'[r].pc = "writeLock" => job'[r].at = 1)
        BY <2>2, <2>4
  <2>10. UNCHANGED <<artifact, lock, meddled, touched>>
        BY <1>1 DEF tree
  <2>11. Shaped(job'[r])
         BY <1>1, <2>2, <2>4, <2>9 DEF Shaped
  <2>12. r \notin touched' =>
           /\ At(r, "digest")' => Agrees(r, job[r].at)'
           /\ At(r, "writeLock")' => Agrees(r, Last + 1)'
           /\ At(r, "verify")' => Verifying(r)'
           /\ At(r, "ok")' => Consistent
         BY <2>6, <2>8
  <2> QED BY <2>4, <2>5, <2>6, <2>10, <2>11, <2>12, QuietRunStep
<1> QED BY <1>2, <1>3

\* rxsnapshot.Write: the lock is what the run has digested.
LEMMA WriteSnapshotStep ==
    ASSUME SnapshotInv, NEW r \in Runs, WriteSnapshot(r) PROVE SnapshotInv'
<1>1. /\ job[r] \in RunJobs /\ job[r].at = 1 /\ job[r].command \in {"pull", "write"}
      /\ job[r].pc = "writeLock" /\ artifact \in [Targets -> Contents \cup {None}]
      /\ UNCHANGED <<upstream, artifact, binary, faults>> /\ faults \in 0..MaxFaults
      BY DEF WriteSnapshot, At, SnapshotInv, SnapshotTypeOK, JobShape, Shaped
<1>2. CASE ~Valid(job[r].snapshot)
      BY <1>1, <1>2, FailedStep DEF WriteSnapshot, tree
<1>3. CASE Valid(job[r].snapshot)
  <2> DEFINE after == IF job[r].command = "pull" THEN "verify" ELSE "ok"
  <2>1. /\ lock' = job[r].snapshot /\ Changing(r) /\ Enter(r, after)
        /\ meddled' = (meddled \/ job[r].command = "write") /\ job[r].snapshot \in Snapshots
        BY <1>1, <1>3 DEF WriteSnapshot, RunJobs
  <2>2. after \in {"verify", "ok"} /\ after \in RunPcs
        BY DEF RunPcs, Finished
  <2>3. after = "ok" => job[r].command = "write"
        BY <1>1
  <2> HIDE DEF after
  <2>4. /\ job' \in [Runs -> RunJobs] /\ job'[r].pc = after
        /\ \A s \in Runs \ {r} : job'[s] = job[s]
        /\ after = "verify" => job'[r].snapshot = job[r].snapshot /\ job'[r].at = 1
    <3>1. /\ job' \in [Runs -> RunJobs] /\ job'[r].pc = after
          /\ after \notin Finished => job'[r] = [job[r] EXCEPT !.pc = after]
          /\ \A s \in Runs \ {r} : job'[s] = job[s]
          BY <2>1, <2>2, EnterType DEF SnapshotInv
    <3> QED BY <1>1, <3>1 DEF Finished, RunJobs
  <2>5. SnapshotTypeOK'
    <3>1. lock' \in Snapshots /\ Valid(lock)'
          BY <1>3, <2>1 DEF Valid
    <3>2. meddled' \in BOOLEAN
          BY <2>1 DEF SnapshotInv, SnapshotTypeOK
    <3> QED BY <1>1, <2>1, <2>4, <3>1, <3>2
            DEF SnapshotInv, SnapshotTypeOK, upstream, Changing
  <2>6. At(r, "verify")' => Verifying(r)'
        BY <2>1, <2>2, <2>4 DEF At, Verifying, Agrees
  <2>7. r \notin touched => Consistent'
    <3> SUFFICES ASSUME r \notin touched PROVE Consistent'
        OBVIOUS
    <3>1. Agrees(r, Last + 1)
          BY <1>1 DEF SnapshotInv, AloneKnows, At
    <3>2. (Last + 1) - 1 = Last
          OBVIOUS
    <3>3. \A target \in Targets : artifact'[target] = lock'.digests[target]
          BY <1>1, <2>1, <3>1, <3>2 DEF Agrees, Targets
    <3> QED BY <2>1, <3>3 DEF Consistent, Readable
  <2>8. meddled' \/ Answerable(r)'
        BY <2>1, <2>2, <2>3, <2>4, <2>6 DEF Answerable, At
  <2>9. Shaped(job'[r])
        BY <2>2, <2>4 DEF Shaped
  <2>10. ~At(r, "digest")' /\ ~At(r, "writeLock")'
         BY <2>2, <2>4 DEF At
  <2> QED BY <2>1, <2>4, <2>5, <2>6, <2>7, <2>8, <2>9, <2>10, ChangingRunStep
<1> QED BY <1>2, <1>3

\* What a verify compares with is the lock that it has read.
LEMMA ReadSnapshotStep ==
    ASSUME SnapshotInv, NEW r \in Runs, ReadSnapshot(r) PROVE SnapshotInv'
<1>1. /\ job[r] \in RunJobs /\ job[r].at = 1 /\ job[r].pc = "readLock"
      /\ UNCHANGED <<upstream, tree, binary, touched, meddled, faults>> /\ faults \in 0..MaxFaults
      BY DEF ReadSnapshot, At, history, SnapshotInv, SnapshotTypeOK, JobShape, Shaped
<1>2. CASE ~Readable
      BY <1>1, <1>2, FailedStep DEF ReadSnapshot
<1>3. CASE Readable
  <2> DEFINE j == [job[r] EXCEPT !.pc = "verify", !.snapshot = lock]
  <2>1. GoOn(r, j) /\ lock \in Snapshots
        BY <1>3 DEF ReadSnapshot, Readable, SnapshotInv, SnapshotTypeOK
  <2>2. j \in RunJobs /\ j.pc = "verify" /\ j.at = 1 /\ j.snapshot = lock
        BY <1>1, <2>1 DEF RunJobs, RunPcs
  <2> HIDE DEF j
  <2>3. job' \in [Runs -> RunJobs] /\ job'[r] = j /\ \A s \in Runs \ {r} : job'[s] = job[s]
        BY <2>1, <2>2, GoOnType DEF SnapshotInv
  <2>4. SnapshotTypeOK'
        BY <1>1, <2>3 DEF SnapshotInv, SnapshotTypeOK, upstream, tree, Valid
  <2>5. Verifying(r)' /\ At(r, "verify")'
        BY <1>1, <2>2, <2>3 DEF Verifying, Agrees, At, tree
  <2>6. Shaped(job'[r]) /\ Answerable(r)'
        BY <2>2, <2>3, <2>5 DEF Shaped, Answerable, At
  <2>7. ~At(r, "digest")' /\ ~At(r, "writeLock")' /\ ~At(r, "ok")'
        BY <2>2, <2>3 DEF At
  <2>8. UNCHANGED <<artifact, lock, meddled, touched>>
        BY <1>1 DEF tree
  <2> QED BY <2>3, <2>4, <2>5, <2>6, <2>7, <2>8, QuietRunStep
<1> QED BY <1>2, <1>3

\* VerifyFiles compares one more artifact with the snapshot in memory.
LEMMA VerifyArtifactStep ==
    ASSUME SnapshotInv, NEW r \in Runs, VerifyArtifact(r) PROVE SnapshotInv'
<1> DEFINE next == NextTarget(job[r], "verify", "ok")
<1>1. /\ job[r] \in RunJobs /\ job[r].at \in 1..Last /\ job[r].pc = "verify"
      /\ UNCHANGED <<upstream, tree, binary, touched, meddled, faults>> /\ faults \in 0..MaxFaults
      BY DEF VerifyArtifact, At, history, SnapshotInv, SnapshotTypeOK, RunJobs, Targets
<1>2. CASE artifact[job[r].at] # job[r].snapshot.digests[job[r].at]
      BY <1>1, <1>2, FailedStep DEF VerifyArtifact
<1>3. CASE artifact[job[r].at] = job[r].snapshot.digests[job[r].at]
  <2>1. GoOn(r, next)
        BY <1>3 DEF VerifyArtifact
  <2>2. /\ next \in RunJobs
        /\ job[r].at < Last => /\ next.pc = "verify" /\ next.at = job[r].at + 1
                               /\ next.snapshot = job[r].snapshot
        /\ ~(job[r].at < Last) => next.pc = "ok"
    <3>1. "verify" \in RunPcs /\ "ok" \in RunPcs
          BY DEF RunPcs, Finished
    <3> QED BY <1>1, <3>1, NextTargetType
  <2> HIDE DEF next
  <2>3. job' \in [Runs -> RunJobs] /\ job'[r] = next /\ \A s \in Runs \ {r} : job'[s] = job[s]
        BY <2>1, <2>2, GoOnType DEF SnapshotInv
  <2>4. SnapshotTypeOK'
        BY <1>1, <2>3 DEF SnapshotInv, SnapshotTypeOK, upstream, tree, Valid
  <2>5. ASSUME Verifying(r)
        PROVE  \A target \in 1..job[r].at : artifact[target] = job[r].snapshot.digests[target]
    <3> SUFFICES ASSUME NEW target \in 1..job[r].at
                 PROVE  artifact[target] = job[r].snapshot.digests[target]
        OBVIOUS
    <3>1. target = job[r].at \/ target \in 1..(job[r].at - 1)
          BY <1>1
    <3> QED BY <1>3, <2>5, <3>1 DEF Verifying, Agrees
  <2>6. UNCHANGED <<artifact, lock, meddled, touched>>
        BY <1>1 DEF tree
  <2>7. Verifying(r) /\ At(r, "verify")' => Verifying(r)'
    <3> SUFFICES ASSUME Verifying(r), At(r, "verify")' PROVE Verifying(r)'
        OBVIOUS
    <3>1. job'[r].at - 1 = job[r].at /\ job'[r].snapshot = job[r].snapshot
          BY <1>1, <2>2, <2>3 DEF At
    <3> QED BY <2>5, <2>6, <3>1 DEF Verifying, Agrees
  <2>8. Verifying(r) /\ At(r, "ok")' => Consistent
    <3> SUFFICES ASSUME Verifying(r), At(r, "ok")' PROVE Consistent
        OBVIOUS
    <3>1. job[r].at = Last
          BY <1>1, <2>2, <2>3 DEF At
    <3>2. \A target \in Targets : artifact[target] = lock.digests[target]
          BY <2>5, <3>1 DEF Verifying, Targets
    <3>3. lock \in Snapshots
          BY <1>1 DEF Verifying, RunJobs
    <3> QED BY <3>2, <3>3 DEF Consistent, Readable
  <2>9. job'[r].pc \in {"verify", "ok"}
        BY <2>2, <2>3
  <2>10. Shaped(job'[r]) /\ ~At(r, "digest")' /\ ~At(r, "writeLock")'
         BY <2>9 DEF Shaped, At
  <2>11. Answerable(r) => Answerable(r)' \/ Consistent
         BY <1>1, <2>7, <2>8, <2>9 DEF Answerable, At
  <2>12. r \notin touched' => Verifying(r)
         BY <1>1, <2>6 DEF SnapshotInv, AloneKnows, At
  <2> QED BY <2>3, <2>4, <2>6, <2>7, <2>8, <2>10, <2>11, <2>12, QuietRunStep
<1> QED BY <1>2, <1>3

LEMMA FailRunStep ==
    ASSUME SnapshotInv, NEW r \in Runs, FailRun(r) PROVE SnapshotInv'
<1>1. faults' \in 0..MaxFaults
      BY DEF FailRun, Disturbance, SnapshotInv, SnapshotTypeOK
<1> QED BY <1>1, FailedStep DEF FailRun

LEMMA BuildStep ==
    ASSUME SnapshotInv, NEW target \in Platforms, Build(target) PROVE SnapshotInv'
<1> DEFINE embedded == [lock |-> lock, engine |-> artifact[target]]
<1>1. target \in Targets /\ embedded \in [lock : Snapshots, engine : Contents]
      BY DEF Build, Readable, SnapshotInv, SnapshotTypeOK
<1>2. binary' = [binary EXCEPT ![target] = embedded] /\ UNCHANGED <<upstream, tree, job, history>>
      BY DEF Build
<1> HIDE DEF embedded
<1>3. binary' \in [Targets -> [lock : Snapshots, engine : Contents] \cup {None}]
      BY <1>1, <1>2 DEF SnapshotInv, SnapshotTypeOK
<1>4. SnapshotTypeOK'
      BY <1>2, <1>3 DEF SnapshotInv, SnapshotTypeOK, upstream, tree, history, Valid
<1>5. UNCHANGED <<artifact, lock, job, touched, meddled>>
      BY <1>2 DEF tree, history
<1>6. JobShape' /\ AloneKnows' /\ OkMeansConsistent' /\ SomeoneAnswers'
      BY <1>5 DEF SnapshotInv, JobShape, AloneKnows, OkMeansConsistent, SomeoneAnswers, Answerable,
                  Verifying, Agrees, At, Consistent, Readable
<1> QED BY <1>4, <1>6 DEF SnapshotInv

\* What others do leaves no run alone; when it changes the tree, it meddles.
LEMMA DisturbanceStep ==
    ASSUME SnapshotInv,
           \/ \E tag \in Tags, object \in Objects : Retag(tag, object)
           \/ \E tag \in Tags, target \in Targets, content \in Revisions \cup {None} :
                Republish(tag, target, content)
           \/ \E target \in Targets, content \in Contents \cup {None} : Edit(target, content)
           \/ DamageLock
    PROVE  SnapshotInv'
<1>1. UNCHANGED <<binary, job>> /\ touched' = Runs /\ meddled' \in BOOLEAN
      BY DEF Retag, Republish, Edit, DamageLock, SnapshotInv, SnapshotTypeOK
<1>2. faults' \in 0..MaxFaults
  <2>1. faults < MaxFaults /\ faults' = faults + 1
        BY DEF Retag, Republish, Edit, DamageLock, Disturbance
  <2> QED BY <2>1 DEF SnapshotInv, SnapshotTypeOK
<1>3. /\ ref' \in [Tags -> Objects]
      /\ release' \in [Tags -> [Targets -> Revisions \cup {None}]]
      /\ artifact' \in [Targets -> Contents \cup {None}]
      /\ lock' = Damaged \/ (lock' \in Snapshots /\ Valid(lock)')
      /\ meddled' \/ UNCHANGED <<artifact, lock, meddled>>
  <2>1. CASE \E tag \in Tags, object \in Objects : Retag(tag, object)
        BY <2>1 DEF Retag, tree, SnapshotInv, SnapshotTypeOK, Valid
  <2>2. CASE \E tag \in Tags, target \in Targets, content \in Revisions \cup {None} :
               Republish(tag, target, content)
    <3>1. PICK tag \in Tags, target \in Targets, content \in Revisions \cup {None} :
            Republish(tag, target, content)
          BY <2>2
    <3>2. release' = [release EXCEPT ![tag] = [release[tag] EXCEPT ![target] = content]]
          BY <3>1 DEF Republish, SnapshotInv, SnapshotTypeOK
    <3>3. release' \in [Tags -> [Targets -> Revisions \cup {None}]]
          BY <3>2 DEF SnapshotInv, SnapshotTypeOK
    <3> QED BY <3>1, <3>3 DEF Republish, tree, SnapshotInv, SnapshotTypeOK, Valid
  <2>3. CASE \E target \in Targets, content \in Contents \cup {None} : Edit(target, content)
        BY <2>3 DEF Edit, upstream, SnapshotInv, SnapshotTypeOK, Valid
  <2>4. CASE DamageLock
        BY <2>4 DEF DamageLock, upstream, SnapshotInv, SnapshotTypeOK
  <2> QED BY <2>1, <2>2, <2>3, <2>4
<1>4. SnapshotTypeOK'
      BY <1>1, <1>2, <1>3 DEF SnapshotInv, SnapshotTypeOK
<1>5. JobShape' /\ AloneKnows' /\ OkMeansConsistent'
      BY <1>1 DEF SnapshotInv, JobShape, AloneKnows, OkMeansConsistent
<1>6. SomeoneAnswers'
      BY <1>1, <1>3 DEF SnapshotInv, SomeoneAnswers, Answerable, Verifying, Agrees, At, Consistent,
                        Readable
<1> QED BY <1>4, <1>5, <1>6 DEF SnapshotInv

LEMMA SnapshotStutter == ASSUME SnapshotInv, UNCHANGED snapshotVars PROVE SnapshotInv'
<1>1. SnapshotTypeOK'
      BY DEF snapshotVars, SnapshotInv, SnapshotTypeOK, Valid
<1>2. JobShape' /\ AloneKnows' /\ OkMeansConsistent' /\ SomeoneAnswers'
      BY DEF snapshotVars, SnapshotInv, JobShape, AloneKnows, OkMeansConsistent, SomeoneAnswers,
             Answerable, Verifying, Agrees, At, Consistent, Readable
<1> QED BY <1>1, <1>2 DEF SnapshotInv

LEMMA CommandStep ==
    ASSUME SnapshotInv, NEW r \in Runs,
           \/ \E tag \in Tags : Pull(r, tag)
           \/ \E revision \in Revisions \cup {None} : WriteCommand(r, revision)
           \/ VerifyCommand(r)
    PROVE  SnapshotInv'
<1>1. CASE \E tag \in Tags : Pull(r, tag)
  <2>1. PICK tag \in Tags : Start(r, "pull", tag, None)
        BY <1>1 DEF Pull
  <2>2. "pull" \in Commands
        BY <2>1 DEF Start
  <2> QED BY <2>1, <2>2, StartStep
<1>2. CASE \E revision \in Revisions \cup {None} : WriteCommand(r, revision)
  <2>1. PICK revision \in Revisions \cup {None} : Start(r, "write", None, revision)
        BY <1>2 DEF WriteCommand
  <2>2. "write" \in Commands
        BY <2>1 DEF Start
  <2> QED BY <2>1, <2>2, StartStep
<1>3. CASE VerifyCommand(r)
  <2>1. "verify" \in Commands /\ Start(r, "verify", None, None)
        BY <1>3 DEF Start, VerifyCommand
  <2> QED BY <2>1, StartStep
<1> QED BY <1>1, <1>2, <1>3

LEMMA SnapshotInvariantStep == SnapshotInv /\ [SnapshotNext]_snapshotVars => SnapshotInv'
<1> SUFFICES ASSUME SnapshotInv, [SnapshotNext]_snapshotVars PROVE SnapshotInv'
    OBVIOUS
<1>1. CASE \E r \in Runs : \/ \E tag \in Tags : Pull(r, tag)
                          \/ \E revision \in Revisions \cup {None} : WriteCommand(r, revision)
                          \/ VerifyCommand(r)
      BY <1>1, CommandStep
<1>2. CASE \E r \in Runs : RunStep(r)
  <2>1. PICK r \in Runs : RunStep(r)
        BY <1>2
  <2>2. CASE ResolveRevision(r) \/ ResolveVersion(r) \/ FetchArtifact(r)
        BY <2>2, ResolveStep
  <2> QED BY <2>1, <2>2, InstallArtifactStep, DigestArtifactStep, WriteSnapshotStep,
             ReadSnapshotStep, VerifyArtifactStep DEF RunStep
<1>3. CASE \E r \in Runs : FailRun(r)
      BY <1>3, FailRunStep
<1>4. CASE \E target \in Platforms : Build(target)
      BY <1>4, BuildStep
<1>5. CASE \/ \E tag \in Tags, object \in Objects : Retag(tag, object)
           \/ \E tag \in Tags, target \in Targets, content \in Revisions \cup {None} :
                Republish(tag, target, content)
           \/ \E target \in Targets, content \in Contents \cup {None} : Edit(target, content)
           \/ DamageLock
      BY <1>5, DisturbanceStep
<1>6. CASE UNCHANGED snapshotVars
      BY <1>6, SnapshotStutter
<1> QED BY <1>1, <1>2, <1>3, <1>4, <1>5, <1>6 DEF SnapshotNext

\* The invariant that the theorems below rest on: types, the shape of a run, what a
\* run that is alone knows, and who answers for a tree that is not consistent.
THEOREM SnapshotInvariance == SnapshotSpec => []SnapshotInv
<1> QED BY SnapshotInitInvariant, SnapshotInvariantStep, PTL DEF SnapshotSpec

\* Every variable stays in its type; a lock that parses names a revision and a
\* digest for every target (rxsnapshot.Validate).
THEOREM SnapshotTypesCorrect == SnapshotSpec => []SnapshotTypeOK
<1>1. SnapshotInv => SnapshotTypeOK
      BY DEF SnapshotInv
<1> QED BY <1>1, SnapshotInvariance, PTL

\* A pull, write or verify that exits with success, and that nobody disturbed,
\* leaves a lock that names exactly the artifacts in the tree: for any number of
\* targets, whatever earlier runs that failed half way left behind.
THEOREM SuccessMeansConsistent == SnapshotSpec => []OkMeansConsistent
<1>1. SnapshotInv => OkMeansConsistent
      BY DEF SnapshotInv
<1> QED BY <1>1, SnapshotInvariance, PTL

\* Any number of concurrent pulls that all report success leave a lock and
\* artifacts that agree, in whatever order they installed, digested and sealed:
\* the last one to have changed the tree has compared all of it since.
THEOREM ConcurrentPullsAgree == SnapshotSpec => []AllOkMeansConsistent
<1>1. SnapshotInv => AllOkMeansConsistent
      BY DEF SnapshotInv, SomeoneAnswers, Answerable, AllOkMeansConsistent
<1> QED BY <1>1, SnapshotInvariance, PTL

-----------------------------------------------------------------------------
(* One maintainer: every lock is of one build.                               *)

\* A step of the only run there is.
LEMMA OneRunStep ==
    ASSUME OneBuildInv, SnapshotInv', OneMaintainer, NEW r \in Runs, UNCHANGED upstream,
           PullOfOneBuild(job[r])', LockIsOneBuild', BinariesOfOneBuild'
    PROVE  OneBuildInv'
<1>1. ReleasesOfOneBuild'
      BY DEF OneBuildInv, ReleasesOfOneBuild, upstream, Extract
<1>2. PullsOneBuild'
      BY DEF PullsOneBuild, OneMaintainer
<1> QED BY <1>1, <1>2 DEF OneBuildInv

\* A step that leaves the tree and the builds alone, of a run that goes on as j.
LEMMA OneQuietStep ==
    ASSUME OneBuildInv, SnapshotInv', OneMaintainer, NEW r \in Runs, NEW j \in RunJobs,
           GoOn(r, j), UNCHANGED <<upstream, tree, binary>>, PullOfOneBuild(j)
    PROVE  OneBuildInv'
<1>1. job'[r] = j
      BY GoOnType DEF OneBuildInv, SnapshotInv
<1>2. PullOfOneBuild(job[r])'
      BY <1>1 DEF PullOfOneBuild, Pinned, upstream, tree
<1>3. LockIsOneBuild' /\ BinariesOfOneBuild'
      BY DEF OneBuildInv, LockIsOneBuild, BinariesOfOneBuild, Readable, tree
<1> QED BY <1>2, <1>3, OneRunStep

\* The steps that have nothing to do with a release: PullOfOneBuild is about no such run.
LEMMA OneOtherStep ==
    ASSUME OneBuildInv, SnapshotInv', OneMaintainer, NEW r \in Runs,
           job'[r].pc \in {"resolve", "readLock", "verify", "ok", "failed"},
           UNCHANGED <<upstream, binary>>, LockIsOneBuild'
    PROVE  OneBuildInv'
<1>1. PullOfOneBuild(job[r])'
      BY DEF PullOfOneBuild
<1>2. BinariesOfOneBuild'
      BY DEF OneBuildInv, BinariesOfOneBuild
<1> QED BY <1>1, <1>2, OneRunStep

LEMMA OneBuildInit == SnapshotInit /\ OneMaintainer => OneBuildInv
<1> SUFFICES ASSUME SnapshotInit, OneMaintainer PROVE OneBuildInv
    OBVIOUS
<1>1. SnapshotInv
      BY SnapshotInitInvariant
<1>2. ReleasesOfOneBuild
  <2>1. PICK built \in [Tags -> Revisions], missing \in SUBSET Tags :
          /\ \A tag \in Tags : ref[tag].revision = built[tag]
          /\ release = [tag \in Tags |-> [target \in Targets |->
                          IF tag \in missing /\ target = Last THEN None ELSE built[tag]]]
        BY DEF SnapshotInit
  <2> QED BY <2>1 DEF ReleasesOfOneBuild, Extract
<1>3. LockIsOneBuild
  <2>1. PICK pinned \in Versioned : /\ artifact = [target \in Targets |-> pinned]
                                   /\ lock = [revision |-> pinned, digests |-> artifact]
        BY DEF SnapshotInit
  <2> QED BY <2>1 DEF LockIsOneBuild
<1>4. PullsOneBuild
  <2>1. \A r \in Runs : job[r].pc = "idle"
        BY EndedType DEF SnapshotInit, RunPcs, Finished
  <2> QED BY <2>1 DEF PullsOneBuild, PullOfOneBuild
<1>5. BinariesOfOneBuild
      BY DEF SnapshotInit, BinariesOfOneBuild
<1> QED BY <1>1, <1>2, <1>3, <1>4, <1>5 DEF OneBuildInv

\* The revision of the tag, and assets that are of that revision.
LEMMA OneResolveStep ==
    ASSUME OneBuildInv, SnapshotInv', OneMaintainer, NEW r \in Runs,
           ResolveRevision(r) \/ ResolveVersion(r) \/ FetchArtifact(r), ~Enter(r, "failed")
    PROVE  OneBuildInv'
<1>1. /\ UNCHANGED <<upstream, tree, binary>> /\ SnapshotInv
      /\ job[r] \in RunJobs /\ job[r].tag \in Tags /\ PullOfOneBuild(job[r])
      /\ job[r].pc = "version" => job[r].at = 1
      BY DEF ResolveRevision, ResolveVersion, FetchArtifact, OneBuildInv, SnapshotInv, SnapshotTypeOK,
             JobShape, Shaped, At, PullsOneBuild
<1>2. CASE ResolveRevision(r)
  <2> DEFINE new == ref[job[r].tag].revision
             j == [job[r] EXCEPT !.pc = "version", !.snapshot.revision = new]
  <2>1. GoOn(r, j)
        BY <1>2 DEF ResolveRevision
  <2>2. new \in Revisions
        BY <1>1 DEF SnapshotInv, SnapshotTypeOK, Objects
  <2>3. j \in RunJobs /\ j.pc = "version" /\ j.snapshot.revision = new /\ j.tag = job[r].tag
        BY <1>1, <2>2 DEF RunJobs, RunPcs, Snapshots
  <2>4. PullOfOneBuild(j)
        BY <1>1, <2>3 DEF PullOfOneBuild
  <2> HIDE DEF j
  <2> QED BY <1>1, <2>1, <2>3, <2>4, OneQuietStep
<1>3. CASE ResolveVersion(r)
  <2> DEFINE j == [job[r] EXCEPT !.pc = "fetch"]
  <2>1. GoOn(r, j) /\ job[r].pc = "version"
        BY <1>3 DEF ResolveVersion, Enter, Finished, At
  <2>2. /\ j \in RunJobs /\ j.pc = "fetch" /\ j.snapshot = job[r].snapshot /\ j.at = 1
        /\ j.tag = job[r].tag
        BY <1>1, <2>1 DEF RunJobs, RunPcs
  <2> HIDE DEF j
  <2>3. PullOfOneBuild(j)
        BY <1>1, <2>1, <2>2 DEF PullOfOneBuild, Pinned
  <2> QED BY <1>1, <2>1, <2>2, <2>3, OneQuietStep
<1>4. CASE FetchArtifact(r)
  <2> DEFINE asset == Extract(job[r].tag, job[r].at)
             j == [job[r] EXCEPT !.pc = "install", !.archive = asset]
  <2>1. GoOn(r, j) /\ job[r].pc = "fetch" /\ asset # None
        BY <1>4 DEF FetchArtifact, At
  <2>2. asset = ref[job[r].tag].revision
        BY <1>1, <2>1 DEF OneBuildInv, ReleasesOfOneBuild, RunJobs
  <2>3. asset \in Contents \cup {None}
        BY <1>1 DEF SnapshotInv, SnapshotTypeOK, Extract, Contents, RunJobs
  <2> HIDE DEF asset
  <2>4. /\ j \in RunJobs /\ j.pc = "install" /\ j.snapshot = job[r].snapshot /\ j.at = job[r].at
        /\ j.tag = job[r].tag /\ j.archive = asset
        BY <1>1, <2>3 DEF RunJobs, RunPcs
  <2> HIDE DEF j
  <2>5. PullOfOneBuild(j)
        BY <1>1, <2>1, <2>2, <2>4 DEF PullOfOneBuild
  <2> QED BY <1>1, <2>1, <2>4, <2>5, OneQuietStep
<1> QED BY <1>2, <1>3, <1>4

\* Another engine of the pull's revision lies in the tree.
LEMMA OneInstallStep ==
    ASSUME OneBuildInv, SnapshotInv', OneMaintainer, NEW r \in Runs, InstallArtifact(r)
    PROVE  OneBuildInv'
<1> DEFINE j == [job[r] EXCEPT !.archive = None]
           next == NextTarget(j, "fetch", "digest")
<1>1. /\ job[r] \in RunJobs /\ job[r].at \in 1..Last /\ job[r].pc = "install"
      /\ PullOfOneBuild(job[r]) /\ SnapshotInv /\ artifact \in [Targets -> Contents \cup {None}]
      BY DEF InstallArtifact, At, OneBuildInv, SnapshotInv, SnapshotTypeOK, RunJobs, Targets,
             PullsOneBuild
<1>2. /\ GoOn(r, next) /\ UNCHANGED <<upstream, lock, binary>>
      /\ artifact' = [artifact EXCEPT ![job[r].at] = job[r].archive]
      BY DEF InstallArtifact
<1>3. /\ j \in RunJobs /\ j.at = job[r].at /\ j.tag = job[r].tag /\ j.snapshot = job[r].snapshot
      BY <1>1 DEF RunJobs
<1> HIDE DEF j
<1>4. /\ next \in RunJobs /\ next.snapshot = job[r].snapshot /\ next.tag = job[r].tag
      /\ job[r].at < Last => next.pc = "fetch" /\ next.at = job[r].at + 1
      /\ ~(job[r].at < Last) => next.pc = "digest" /\ next.at = 1
  <2>1. "fetch" \in RunPcs /\ "digest" \in RunPcs \ Finished
        BY DEF RunPcs, Finished
  <2> QED BY <1>3, <2>1, NextTargetType
<1> HIDE DEF next
<1>5. job'[r] = next
      BY <1>1, <1>2, <1>4, GoOnType DEF SnapshotInv
<1> DEFINE revision == job[r].snapshot.revision
<1>6. \A target \in 1..job[r].at : artifact'[target] = revision
  <2> SUFFICES ASSUME NEW target \in 1..job[r].at PROVE artifact'[target] = revision
      OBVIOUS
  <2>1. target \in Targets /\ (target = job[r].at \/ target \in 1..(job[r].at - 1))
        BY <1>1 DEF Targets
  <2>2. job[r].archive = revision /\ Pinned(artifact, job[r].at, revision)
        BY <1>1 DEF PullOfOneBuild
  <2> QED BY <1>1, <1>2, <2>1, <2>2 DEF Pinned
<1>7. job[r].at < Last => PullOfOneBuild(job[r])'
  <2> SUFFICES ASSUME job[r].at < Last PROVE PullOfOneBuild(job[r])'
      OBVIOUS
  <2>1. job'[r].at - 1 = job[r].at /\ job'[r].pc = "fetch" /\ job'[r].snapshot.revision = revision
        BY <1>1, <1>4, <1>5
  <2>2. revision = ref'[job'[r].tag].revision
        BY <1>1, <1>2, <1>4, <1>5 DEF PullOfOneBuild, upstream
  <2> QED BY <1>6, <2>1, <2>2 DEF PullOfOneBuild, Pinned
<1>8. ~(job[r].at < Last) => PullOfOneBuild(job[r])'
  <2> SUFFICES ASSUME ~(job[r].at < Last) PROVE PullOfOneBuild(job[r])'
      OBVIOUS
  <2>1. /\ job'[r].at = 1 /\ job'[r].pc = "digest" /\ job'[r].snapshot.revision = revision
        /\ (Last + 1) - 1 = job[r].at
        BY <1>1, <1>4, <1>5
  <2> QED BY <1>6, <2>1 DEF PullOfOneBuild, Pinned
<1>9. LockIsOneBuild' /\ BinariesOfOneBuild'
      BY <1>2 DEF OneBuildInv, LockIsOneBuild, BinariesOfOneBuild, Readable
<1> QED BY <1>2, <1>7, <1>8, <1>9, OneRunStep

\* What is digested is what was installed.
LEMMA OneDigestStep ==
    ASSUME OneBuildInv, SnapshotInv', OneMaintainer, NEW r \in Runs, DigestArtifact(r),
           ~Enter(r, "failed")
    PROVE  OneBuildInv'
<1> DEFINE seen == artifact[job[r].at]
           before == job[r].snapshot
           after == [before EXCEPT !.digests = [before.digests EXCEPT ![job[r].at] = seen]]
           j == [job[r] EXCEPT !.snapshot = after]
           next == NextTarget(j, "digest", "writeLock")
<1>1. /\ job[r] \in RunJobs /\ job[r].at \in 1..Last /\ job[r].pc = "digest"
      /\ PullOfOneBuild(job[r]) /\ SnapshotInv /\ seen \in Contents \cup {None}
      /\ UNCHANGED <<upstream, tree, binary>>
      BY DEF DigestArtifact, At, OneBuildInv, SnapshotInv, SnapshotTypeOK, RunJobs, Targets,
             PullsOneBuild
<1>2. /\ before \in Snapshots /\ before.digests \in [Targets -> Contents \cup {None}]
      /\ job[r].at \in Targets
      BY <1>1 DEF RunJobs, Snapshots, Targets
<1>3. GoOn(r, next)
  <2>1. j = [job[r] EXCEPT !.snapshot.digests[job[r].at] = seen]
        BY <1>1, <1>2 DEF RunJobs, Snapshots
  <2> QED BY <2>1 DEF DigestArtifact
<1>4. seen = before.revision /\ Pinned(before.digests, job[r].at, before.revision)
      BY <1>1 DEF PullOfOneBuild, Pinned
<1> HIDE DEF seen
<1>5. /\ after \in Snapshots /\ after.revision = before.revision
      /\ after.digests = [before.digests EXCEPT ![job[r].at] = seen]
      BY <1>1, <1>2 DEF Snapshots
<1> HIDE DEF after
<1>6. j \in RunJobs /\ j.at = job[r].at /\ j.snapshot = after
      BY <1>1, <1>5 DEF RunJobs
<1> HIDE DEF j
<1>7. /\ next \in RunJobs /\ next.snapshot = after
      /\ job[r].at < Last => next.pc = "digest" /\ next.at = job[r].at + 1
      /\ ~(job[r].at < Last) => next.pc = "writeLock"
  <2>1. "digest" \in RunPcs /\ "writeLock" \in RunPcs \ Finished
        BY DEF RunPcs, Finished
  <2> QED BY <1>6, <2>1, NextTargetType
<1> HIDE DEF next
<1>8. \A target \in 1..job[r].at : after.digests[target] = before.revision
  <2> SUFFICES ASSUME NEW target \in 1..job[r].at PROVE after.digests[target] = before.revision
      OBVIOUS
  <2>1. target \in Targets /\ (target = job[r].at \/ target \in 1..(job[r].at - 1))
        BY <1>1 DEF Targets
  <2> QED BY <1>2, <1>4, <1>5, <2>1 DEF Pinned
<1>9. CASE job[r].at < Last
  <2>1. /\ next.at - 1 = job[r].at /\ next.pc = "digest"
        /\ next.snapshot.digests = after.digests /\ next.snapshot.revision = before.revision
        BY <1>1, <1>5, <1>7, <1>9
  <2>2. Pinned(next.snapshot.digests, next.at, before.revision)
        BY <1>8, <2>1 DEF Pinned
  <2>3. Pinned(artifact, Last + 1, before.revision)
        BY <1>1 DEF PullOfOneBuild
  <2>4. PullOfOneBuild(next)
        BY <2>1, <2>2, <2>3 DEF PullOfOneBuild
  <2> QED BY <1>1, <1>3, <1>7, <2>4, OneQuietStep
<1>10. CASE ~(job[r].at < Last)
  <2>1. /\ (Last + 1) - 1 = job[r].at /\ next.pc = "writeLock"
        /\ next.snapshot.digests = after.digests /\ next.snapshot.revision = before.revision
        BY <1>1, <1>5, <1>7, <1>10
  <2>2. Pinned(next.snapshot.digests, Last + 1, before.revision)
        BY <1>8, <2>1 DEF Pinned
  <2>3. PullOfOneBuild(next)
        BY <2>1, <2>2 DEF PullOfOneBuild
  <2> QED BY <1>1, <1>3, <1>7, <2>3, OneQuietStep
<1> QED BY <1>9, <1>10

\* The lock is sealed with digests of one revision.
LEMMA OneWriteStep ==
    ASSUME OneBuildInv, SnapshotInv', OneMaintainer, NEW r \in Runs, WriteSnapshot(r),
           Valid(job[r].snapshot)
    PROVE  OneBuildInv'
<1>1. /\ job[r] \in RunJobs /\ SnapshotInv /\ PullOfOneBuild(job[r]) /\ job[r].pc = "writeLock"
      /\ UNCHANGED <<upstream, artifact, binary>> /\ lock' = job[r].snapshot
      BY DEF WriteSnapshot, At, OneBuildInv, SnapshotInv, SnapshotTypeOK, PullsOneBuild
<1>2. job'[r].pc \in {"verify", "ok"}
  <2>1. "verify" \in RunPcs /\ "ok" \in RunPcs
        BY DEF RunPcs, Finished
  <2>2. CASE job[r].command = "pull"
        BY <1>1, <2>1, <2>2, EnterType DEF WriteSnapshot, SnapshotInv
  <2>3. CASE job[r].command # "pull"
        BY <1>1, <2>1, <2>3, EnterType DEF WriteSnapshot, SnapshotInv
  <2> QED BY <2>2, <2>3
<1>3. Pinned(job[r].snapshot.digests, Last + 1, job[r].snapshot.revision) /\ (Last + 1) - 1 = Last
      BY <1>1 DEF PullOfOneBuild
<1>4. LockIsOneBuild'
      BY <1>1, <1>3 DEF LockIsOneBuild, Pinned, Targets
<1> QED BY <1>1, <1>2, <1>4, OneOtherStep

\* The steps of a run that read the lock, compare, fail, or start.
LEMMA OnePlainStep ==
    ASSUME OneBuildInv, SnapshotInv', OneMaintainer, NEW r \in Runs,
           \/ Enter(r, "failed") /\ UNCHANGED <<upstream, tree, binary>>
           \/ ReadSnapshot(r) \/ VerifyArtifact(r)
           \/ \E tag \in Tags : Pull(r, tag)
           \/ VerifyCommand(r)
    PROVE  OneBuildInv'
<1>1. SnapshotInv /\ job \in [Runs -> RunJobs] /\ job[r] \in RunJobs
      BY DEF OneBuildInv, SnapshotInv, SnapshotTypeOK
<1>2. UNCHANGED <<upstream, tree, binary>>
      BY DEF ReadSnapshot, VerifyArtifact, Pull, VerifyCommand, Start
<1>3. LockIsOneBuild'
      BY <1>2 DEF OneBuildInv, LockIsOneBuild, Readable, tree
<1>4. CASE Enter(r, "failed")
  <2>1. "failed" \in RunPcs
        BY DEF RunPcs, Finished
  <2>2. job'[r].pc = "failed"
        BY <1>1, <1>4, <2>1, EnterType DEF SnapshotInv
  <2> QED BY <1>2, <1>3, <2>2, OneOtherStep
<1>5. CASE ReadSnapshot(r) /\ ~Enter(r, "failed")
  <2> DEFINE j == [job[r] EXCEPT !.pc = "verify", !.snapshot = lock]
  <2>0. job' = [job EXCEPT ![r] = j]
        BY <1>5 DEF ReadSnapshot, GoOn
  <2>1. job'[r].pc = "verify"
    <3>1. j.pc = "verify"
          BY <1>1 DEF RunJobs
    <3> HIDE DEF j
    <3> QED BY <1>1, <2>0, <3>1
  <2> QED BY <1>2, <1>3, <2>1, OneOtherStep
<1>6. CASE VerifyArtifact(r) /\ ~Enter(r, "failed")
  <2> DEFINE next == NextTarget(job[r], "verify", "ok")
  <2>1. GoOn(r, next)
        BY <1>6 DEF VerifyArtifact
  <2>2. next \in RunJobs /\ next.pc \in {"verify", "ok"}
    <3>1. "verify" \in RunPcs /\ "ok" \in RunPcs
          BY DEF RunPcs, Finished
    <3>2. /\ next \in RunJobs
          /\ job[r].at < Last => next.pc = "verify"
          /\ ~(job[r].at < Last) => next.pc = "ok"
          BY <1>1, <3>1, NextTargetType
    <3> QED BY <3>2
  <2> HIDE DEF next
  <2>3. job'[r].pc \in {"verify", "ok"}
        BY <1>1, <2>1, <2>2, GoOnType DEF SnapshotInv
  <2> QED BY <1>2, <1>3, <2>3, OneOtherStep
<1>7. CASE \E tag \in Tags : Pull(r, tag)
  <2>1. job'[r].pc = "resolve"
        BY <1>1, <1>7 DEF Pull, Start
  <2> QED BY <1>2, <1>3, <2>1, OneOtherStep
<1>8. CASE VerifyCommand(r)
  <2>1. job'[r].pc = "readLock"
        BY <1>1, <1>8 DEF VerifyCommand, Start
  <2> QED BY <1>2, <1>3, <2>1, OneOtherStep
<1> QED BY <1>4, <1>5, <1>6, <1>7, <1>8

LEMMA OneBuildStep ==
    ASSUME OneMaintainer PROVE OneBuildInv /\ [SnapshotNext]_snapshotVars => OneBuildInv'
<1> SUFFICES ASSUME OneBuildInv, [SnapshotNext]_snapshotVars PROVE OneBuildInv'
    OBVIOUS
<1>1. SnapshotInv'
      BY SnapshotInvariantStep DEF OneBuildInv
<1>2. CASE \E r \in Runs : \/ \E tag \in Tags : Pull(r, tag)
                          \/ \E revision \in Revisions \cup {None} : WriteCommand(r, revision)
                          \/ VerifyCommand(r)
  <2>1. ~\E r \in Runs, revision \in Revisions \cup {None} : WriteCommand(r, revision)
        BY DEF WriteCommand, Start, OneMaintainer
  <2> QED BY <1>1, <1>2, <2>1, OnePlainStep
<1>3. CASE \E r \in Runs : RunStep(r)
  <2>1. PICK r \in Runs : RunStep(r)
        BY <1>3
  <2>2. CASE ResolveRevision(r) \/ ResolveVersion(r) \/ FetchArtifact(r)
    <3>1. CASE Enter(r, "failed")
          BY <1>1, <2>2, <3>1, OnePlainStep DEF ResolveRevision, ResolveVersion, FetchArtifact
    <3> QED BY <1>1, <2>2, <3>1, OneResolveStep
  <2>3. CASE InstallArtifact(r)
        BY <1>1, <2>3, OneInstallStep
  <2>4. CASE DigestArtifact(r)
    <3>1. CASE Enter(r, "failed")
          BY <1>1, <2>4, <3>1, OnePlainStep DEF DigestArtifact
    <3> QED BY <1>1, <2>4, <3>1, OneDigestStep
  <2>5. CASE WriteSnapshot(r)
    <3>1. CASE ~Valid(job[r].snapshot)
          BY <1>1, <2>5, <3>1, OnePlainStep DEF WriteSnapshot, tree
    <3> QED BY <1>1, <2>5, <3>1, OneWriteStep
  <2>6. CASE ReadSnapshot(r) \/ VerifyArtifact(r)
        BY <1>1, <2>6, OnePlainStep
  <2> QED BY <2>1, <2>2, <2>3, <2>4, <2>5, <2>6 DEF RunStep
<1>4. CASE \E r \in Runs : FailRun(r)
      BY <1>1, <1>4, OnePlainStep DEF FailRun
<1>5. CASE \E target \in Platforms : Build(target)
  <2>1. PICK target \in Platforms : Build(target)
        BY <1>5
  <2>2. /\ UNCHANGED <<upstream, artifact, lock, job>> /\ target \in Targets /\ Readable
        /\ binary' = [binary EXCEPT ![target] = [lock |-> lock, engine |-> artifact[target]]]
        BY <2>1 DEF Build, tree
  <2>3. BinariesOfOneBuild'
    <3> SUFFICES ASSUME NEW platform \in Targets, binary'[platform] # None, NEW other \in Targets
                 PROVE  binary'[platform].lock.digests[other] = binary'[platform].lock.revision
        BY DEF BinariesOfOneBuild
    <3>1. binary \in [Targets -> [lock : Snapshots, engine : Contents] \cup {None}]
          BY DEF OneBuildInv, SnapshotInv, SnapshotTypeOK
    <3>2. CASE platform = target
      <4>1. binary'[platform].lock = lock
            BY <2>2, <3>1, <3>2
      <4> QED BY <2>2, <4>1 DEF OneBuildInv, LockIsOneBuild
    <3>3. CASE platform # target
      <4>1. binary'[platform] = binary[platform]
            BY <2>2, <3>1, <3>3
      <4> QED BY <4>1 DEF OneBuildInv, BinariesOfOneBuild
    <3> QED BY <3>2, <3>3
  <2>4. ReleasesOfOneBuild' /\ LockIsOneBuild' /\ PullsOneBuild'
        BY <2>2 DEF OneBuildInv, ReleasesOfOneBuild, LockIsOneBuild, PullsOneBuild, PullOfOneBuild,
                    Pinned, Extract, Readable, upstream
  <2> QED BY <1>1, <2>3, <2>4 DEF OneBuildInv
<1>6. CASE DamageLock
  <2>1. UNCHANGED <<upstream, artifact, binary, job>> /\ lock' = Damaged
        BY <1>6 DEF DamageLock
  <2>2. ReleasesOfOneBuild' /\ LockIsOneBuild' /\ PullsOneBuild' /\ BinariesOfOneBuild'
        BY <2>1 DEF OneBuildInv, ReleasesOfOneBuild, LockIsOneBuild, PullsOneBuild, PullOfOneBuild,
                    Pinned, Extract, Readable, upstream, BinariesOfOneBuild
  <2> QED BY <1>1, <2>2 DEF OneBuildInv
<1>7. ~\/ \E tag \in Tags, object \in Objects : Retag(tag, object)
       \/ \E tag \in Tags, target \in Targets, content \in Revisions \cup {None} :
            Republish(tag, target, content)
       \/ \E target \in Targets, content \in Contents \cup {None} : Edit(target, content)
      BY DEF Retag, Republish, Edit, Disturbance, OneMaintainer
<1>8. CASE UNCHANGED snapshotVars
  <2>1. ReleasesOfOneBuild' /\ LockIsOneBuild' /\ PullsOneBuild' /\ BinariesOfOneBuild'
        BY <1>8 DEF snapshotVars, OneBuildInv, ReleasesOfOneBuild, LockIsOneBuild, PullsOneBuild,
                    PullOfOneBuild, Pinned, Extract, Readable, BinariesOfOneBuild
  <2> QED BY <1>1, <2>1 DEF OneBuildInv
<1> QED BY <1>2, <1>3, <1>4, <1>5, <1>6, <1>7, <1>8 DEF SnapshotNext

\* Under one maintainer, whose runs fail and are killed anywhere, and whose lock file
\* may be damaged: every artifact that a readable lock names is of the revision that it
\* names, at every moment of every pull.  All platforms ship one release build.
THEOREM EveryLockIsOneBuild ==
    ASSUME OneMaintainer PROVE SnapshotSpec => []LockIsOneBuild
<1>1. SnapshotInit => OneBuildInv
      BY OneBuildInit
<1>2. OneBuildInv => LockIsOneBuild
      BY DEF OneBuildInv
<1>3. OneBuildInv /\ [SnapshotNext]_snapshotVars => OneBuildInv'
      BY OneBuildStep
<1> QED BY <1>1, <1>2, <1>3, PTL DEF SnapshotSpec

\* Under the same maintainer, the engine that a build accepts is of the revision its
\* embedded lock names, even when the build was made in the middle of a pull.
THEOREM EveryAcceptedEngineIsPinned ==
    ASSUME OneMaintainer PROVE SnapshotSpec => []AcceptedEngineIsPinned
<1>1. SnapshotInit => OneBuildInv
      BY OneBuildInit
<1>2. OneBuildInv => AcceptedEngineIsPinned
      BY DEF OneBuildInv, AcceptedEngineIsPinned, Accepts, BinariesOfOneBuild
<1>3. OneBuildInv /\ [SnapshotNext]_snapshotVars => OneBuildInv'
      BY OneBuildStep
<1> QED BY <1>1, <1>2, <1>3, PTL DEF SnapshotSpec

=============================================================================
