---------------------------- MODULE SnapshotLock ----------------------------
(***************************************************************************)
(* The embedded engines and their lock: internal/cmd/rxmanifest (pull,     *)
(* write, verify), internal/rxsnapshot, and what a build embeds.           *)
(*                                                                         *)
(* An artifact is known by the rx revision it was built from, which also   *)
(* stands for its SHA-256.  Installing one artifact and writing the lock   *)
(* are one step each: that is what AtomicFile shows of atomicfile.Write.   *)
(* Everything between two files, or between two requests, is not atomic:   *)
(* runs of rxmanifest interleave, fail or are killed at every step, and    *)
(* the release may be published again while it is downloaded.              *)
(***************************************************************************)
EXTENDS Naturals, FiniteSets

CONSTANTS
    Runs,          \* processes of rxmanifest, one command at a time
    Commands,      \* the commands they are given
    Last,          \* the number of targets, taken in the order 1..Last
    Platforms,     \* the targets tokener is built for
    Tags,          \* the rx releases
    Revisions,     \* rx commits
    Versioned,     \* the commits whose Cargo.toml declares a package version
    Foreign,       \* a file that is no engine
    Damaged,       \* a lock file that does not parse
    None,          \* no file, no asset, no commit
    Disturbances,  \* what may go wrong
    MaxFaults      \* bound on how often

Targets == 1..Last
Contents == Revisions \cup {Foreign}

ASSUME SnapshotAssumption ==
    /\ Commands \subseteq {"pull", "write", "verify"}
    /\ Last \in Nat \ {0}
    /\ Platforms \subseteq Targets
    /\ Versioned \subseteq Revisions
    /\ Foreign \notin Revisions
    /\ None \notin Contents
    /\ Disturbances \subseteq {"fail", "retag", "republish", "edit", "damage"}
    /\ MaxFaults \in Nat

\* What a tag points to: a commit, directly or by one tag object, or (nested) a
\* tag object of something that is not a commit.
Objects == [nested : BOOLEAN, revision : Revisions]
Snapshots == [revision : Revisions \cup {None}, digests : [Targets -> Contents \cup {None}]]

ASSUME LockAssumption == {None, Damaged} \cap Snapshots = {} /\ None # Damaged

VARIABLES
    ref,       \* upstream: the object each tag points to
    release,   \* upstream: the engine in each asset of each release
    artifact,  \* the working tree: internal/agent/assets
    lock,      \* the working tree: internal/agent/rx.lock.json
    binary,    \* the lock and the engine that the build of each platform embeds
    job,       \* what each run is doing
    touched,   \* history: runs that were not alone with the tree and the release
    meddled,   \* history: something other than a pull has changed the tree
    faults     \* history: how many things went wrong

upstream == <<ref, release>>
tree == <<artifact, lock>>
history == <<touched, meddled, faults>>
snapshotVars == <<ref, release, artifact, lock, binary, job, touched, meddled, faults>>

Finished == {"idle", "ok", "failed"}
RunPcs == Finished \cup {"resolve", "version", "fetch", "install", "digest",
                         "writeLock", "readLock", "verify"}

RunJobs == [pc : RunPcs, command : {"pull", "write", "verify"}, tag : Tags \cup {None},
            at : Targets, archive : Contents \cup {None}, snapshot : Snapshots]

NoDigests == [target \in Targets |-> None]
\* A run that has ended keeps its exit status only.
Ended(pc) == [pc |-> pc, command |-> "verify", tag |-> None, at |-> 1, archive |-> None,
              snapshot |-> [revision |-> None, digests |-> NoDigests]]

\* Snapshot.Validate
Valid(snapshot) == snapshot.revision # None /\ \A target \in Targets : snapshot.digests[target] # None

SnapshotTypeOK ==
    /\ ref \in [Tags -> Objects]
    /\ release \in [Tags -> [Targets -> Revisions \cup {None}]]
    /\ artifact \in [Targets -> Contents \cup {None}]
    /\ lock = Damaged \/ (lock \in Snapshots /\ Valid(lock))
    /\ binary \in [Targets -> [lock : Snapshots, engine : Contents] \cup {None}]
    /\ job \in [Runs -> RunJobs]
    /\ touched \subseteq Runs
    /\ meddled \in BOOLEAN
    /\ faults \in 0..MaxFaults

\* rxsnapshot.Read succeeds
Readable == lock # Damaged

-----------------------------------------------------------------------------
\* A clean checkout, and releases that were each built from one commit.  A
\* release may lack an asset, and its tag may be of any kind.
SnapshotInit ==
    /\ \E built \in [Tags -> Revisions] :
         /\ ref \in [Tags -> Objects]
         /\ \A tag \in Tags : ref[tag].revision = built[tag]
         /\ \E missing \in SUBSET Tags :
              release = [tag \in Tags |-> [target \in Targets |->
                           IF tag \in missing /\ target = Last THEN None ELSE built[tag]]]
    /\ \E pinned \in Versioned :
         /\ artifact = [target \in Targets |-> pinned]
         /\ lock = [revision |-> pinned, digests |-> artifact]
    /\ binary = [target \in Targets |-> None]
    /\ job = [r \in Runs |-> Ended("idle")]
    /\ touched = {}
    /\ meddled = FALSE
    /\ faults = 0

Disturbance(kind) == kind \in Disturbances /\ faults < MaxFaults /\ faults' = faults + 1

At(r, pc) == job[r].pc = pc
GoOn(r, changed) == job' = [job EXCEPT ![r] = changed]
Enter(r, pc) == GoOn(r, IF pc \in Finished THEN Ended(pc) ELSE [job[r] EXCEPT !.pc = pc])
\* The next target of a loop over all of them, or the step after the loop.
NextTarget(j, again, after) ==
    IF j.at < Last THEN [j EXCEPT !.pc = again, !.at = @ + 1]
    ELSE IF after \in Finished THEN Ended(after) ELSE [j EXCEPT !.pc = after, !.at = 1]
\* A step that changes the tree disturbs every other run.
Changing(r) == touched' = touched \cup (Runs \ {r})

\* run(): a command and its flags.  The revision that write records is an
\* argument, which Validate may refuse.
Start(r, command, tag, revision) ==
    /\ job[r].pc \in Finished
    /\ command \in Commands
    /\ job' = [job EXCEPT ![r] =
         [pc |-> CASE command = "pull" -> "resolve"
                   [] command = "write" -> "digest"
                   [] command = "verify" -> "readLock",
          command |-> command, tag |-> tag, at |-> 1, archive |-> None,
          snapshot |-> [revision |-> revision, digests |-> NoDigests]]]
    /\ touched' = touched \ {r}
    /\ UNCHANGED <<upstream, tree, binary, meddled, faults>>

Pull(r, tag) == Start(r, "pull", tag, None)
WriteCommand(r, revision) == Start(r, "write", None, revision)
VerifyCommand(r) == Start(r, "verify", None, None)

\* resolveRevision follows one tag object, by its hash, and no second one.
ResolveRevision(r) ==
    LET object == ref[job[r].tag]
    IN  /\ At(r, "resolve")
        /\ IF object.nested
           THEN Enter(r, "failed")
           ELSE GoOn(r, [job[r] EXCEPT !.pc = "version", !.snapshot.revision = object.revision])
        /\ UNCHANGED <<upstream, tree, binary, history>>

ResolveVersion(r) ==
    /\ At(r, "version")
    /\ Enter(r, IF job[r].snapshot.revision \in Versioned THEN "fetch" ELSE "failed")
    /\ UNCHANGED <<upstream, tree, binary, history>>

\* fetch and extract: the engine in an asset; None when the release has no such
\* asset, its archive is damaged, or there is no rx in it.
Extract(tag, target) == release[tag][target]

\* Mutant: an artifact that is not there is passed over.
FetchArtifactLeniently(r) ==
    LET asset == Extract(job[r].tag, job[r].at)
    IN  /\ At(r, "fetch")
        /\ IF asset # None
           THEN GoOn(r, [job[r] EXCEPT !.pc = "install", !.archive = asset])
           ELSE GoOn(r, NextTarget(job[r], "fetch", "digest"))
        /\ UNCHANGED <<upstream, tree, binary, history>>

\* The asset of the release as it is by now.
FetchArtifact(r) ==
    LET asset == Extract(job[r].tag, job[r].at)
    IN  /\ At(r, "fetch")
        /\ IF asset # None
           THEN GoOn(r, [job[r] EXCEPT !.pc = "install", !.archive = asset])
           ELSE Enter(r, "failed")
        /\ UNCHANGED <<upstream, tree, binary, history>>

\* Mutant: an artifact that is there already is kept.
InstallArtifactOnce(r) ==
    /\ At(r, "install")
    /\ artifact' = [artifact EXCEPT ![job[r].at] = IF @ = None THEN job[r].archive ELSE @]
    /\ GoOn(r, NextTarget([job[r] EXCEPT !.archive = None], "fetch", "digest"))
    /\ Changing(r)
    /\ UNCHANGED <<upstream, lock, binary, meddled, faults>>

InstallArtifact(r) ==
    /\ At(r, "install")
    /\ artifact' = [artifact EXCEPT ![job[r].at] = job[r].archive]
    /\ GoOn(r, NextTarget([job[r] EXCEPT !.archive = None], "fetch", "digest"))
    /\ Changing(r)
    /\ UNCHANGED <<upstream, lock, binary, meddled, faults>>

\* rxsnapshot.New, one file at a time: it digests what is on disk, whoever put
\* it there.
DigestArtifact(r) ==
    LET seen == artifact[job[r].at]
    IN  /\ At(r, "digest")
        /\ IF seen = None
           THEN Enter(r, "failed")
           ELSE GoOn(r, NextTarget([job[r] EXCEPT !.snapshot.digests[job[r].at] = seen],
                                   "digest", "writeLock"))
        /\ UNCHANGED <<upstream, tree, binary, history>>

\* Mutant: pull trusts the lock it has just written.
WriteSnapshotLast(r) ==
    /\ At(r, "writeLock")
    /\ IF Valid(job[r].snapshot)
       THEN /\ lock' = job[r].snapshot
            /\ Enter(r, "ok")
            /\ Changing(r)
            /\ meddled' = (meddled \/ job[r].command = "write")
       ELSE Enter(r, "failed") /\ UNCHANGED <<lock, touched, meddled>>
    /\ UNCHANGED <<upstream, artifact, binary, faults>>

\* Mutant: the snapshot is not validated before it is written.
WriteSnapshotUnvalidated(r) ==
    /\ At(r, "writeLock")
    /\ lock' = job[r].snapshot
    /\ Enter(r, IF job[r].command = "pull" THEN "verify" ELSE "ok")
    /\ Changing(r)
    /\ meddled' = (meddled \/ job[r].command = "write")
    /\ UNCHANGED <<upstream, artifact, binary, faults>>

\* rxsnapshot.Write; pull goes on to verify the files, write does not.
WriteSnapshot(r) ==
    /\ At(r, "writeLock")
    /\ IF Valid(job[r].snapshot)
       THEN /\ lock' = job[r].snapshot
            /\ Enter(r, IF job[r].command = "pull" THEN "verify" ELSE "ok")
            /\ Changing(r)
            /\ meddled' = (meddled \/ job[r].command = "write")
       ELSE Enter(r, "failed") /\ UNCHANGED <<lock, touched, meddled>>
    /\ UNCHANGED <<upstream, artifact, binary, faults>>

ReadSnapshot(r) ==
    /\ At(r, "readLock")
    /\ IF Readable
       THEN GoOn(r, [job[r] EXCEPT !.pc = "verify", !.snapshot = lock])
       ELSE Enter(r, "failed")
    /\ UNCHANGED <<upstream, tree, binary, history>>

\* Mutant: the last target is not compared.
VerifyArtifactShort(r) ==
    /\ At(r, "verify")
    /\ IF job[r].at = Last \/ artifact[job[r].at] = job[r].snapshot.digests[job[r].at]
       THEN GoOn(r, NextTarget(job[r], "verify", "ok"))
       ELSE Enter(r, "failed")
    /\ UNCHANGED <<upstream, tree, binary, history>>

\* VerifyFiles, one file at a time, against the snapshot in memory.
VerifyArtifact(r) ==
    /\ At(r, "verify")
    /\ IF artifact[job[r].at] = job[r].snapshot.digests[job[r].at]
       THEN GoOn(r, NextTarget(job[r], "verify", "ok"))
       ELSE Enter(r, "failed")
    /\ UNCHANGED <<upstream, tree, binary, history>>

\* A request or a file operation fails, or the run is killed: nothing is undone.
FailRun(r) ==
    /\ job[r].pc \notin Finished
    /\ Disturbance("fail")
    /\ Enter(r, "failed")
    /\ UNCHANGED <<upstream, tree, binary, touched, meddled>>

\* go build for one platform: it embeds the lock and that platform's engine.
Build(target) ==
    /\ Readable
    /\ artifact[target] # None
    /\ binary' = [binary EXCEPT ![target] = [lock |-> lock, engine |-> artifact[target]]]
    /\ UNCHANGED <<upstream, tree, job, history>>

-----------------------------------------------------------------------------
(* What others do.                                                           *)

\* The tag is moved to another commit.
Retag(tag, object) ==
    /\ Disturbance("retag")
    /\ ref' = [ref EXCEPT ![tag] = object]
    /\ touched' = Runs
    /\ UNCHANGED <<release, tree, binary, job, meddled>>

\* One asset of a release is replaced or removed.
Republish(tag, target, content) ==
    /\ Disturbance("republish")
    /\ release' = [release EXCEPT ![tag][target] = content]
    /\ touched' = Runs
    /\ UNCHANGED <<ref, tree, binary, job, meddled>>

\* An artifact is edited, removed, or checked out from elsewhere.
Edit(target, content) ==
    /\ Disturbance("edit")
    /\ artifact' = [artifact EXCEPT ![target] = content]
    /\ touched' = Runs
    /\ meddled' = TRUE
    /\ UNCHANGED <<upstream, lock, binary, job>>

DamageLock ==
    /\ Disturbance("damage")
    /\ lock' = Damaged
    /\ touched' = Runs
    /\ meddled' = TRUE
    /\ UNCHANGED <<upstream, artifact, binary, job>>

RunStep(r) ==
    \/ ResolveRevision(r) \/ ResolveVersion(r) \/ FetchArtifact(r) \/ InstallArtifact(r)
    \/ DigestArtifact(r) \/ WriteSnapshot(r) \/ ReadSnapshot(r) \/ VerifyArtifact(r)

SnapshotNext ==
    \/ \E r \in Runs :
         \/ \E tag \in Tags : Pull(r, tag)
         \/ \E revision \in Revisions \cup {None} : WriteCommand(r, revision)
         \/ VerifyCommand(r)
         \/ RunStep(r)
         \/ FailRun(r)
    \/ \E target \in Platforms : Build(target)
    \/ \E tag \in Tags, object \in Objects : Retag(tag, object)
    \/ \E tag \in Tags, target \in Targets, content \in Revisions \cup {None} :
         Republish(tag, target, content)
    \/ \E target \in Targets, content \in Contents \cup {None} : Edit(target, content)
    \/ DamageLock

SnapshotSpec == SnapshotInit /\ [][SnapshotNext]_snapshotVars

-----------------------------------------------------------------------------
Consistent == Readable /\ \A target \in Targets : artifact[target] = lock.digests[target]

\* A run that reports success and was alone with the tree leaves artifacts that
\* are the ones the lock names, whatever earlier runs and edits left behind.
OkMeansConsistent == \A r \in Runs : At(r, "ok") /\ r \notin touched => Consistent

\* Runs that were not alone: when every run has ended and none reports failure,
\* the lock names the artifacts in the tree, in whatever order concurrent pulls
\* installed, digested and sealed.  (As long as only pulls changed the tree: write
\* does not read the files again after it has written the lock.)
AllOkMeansConsistent ==
    (\A r \in Runs : job[r].pc \in {"idle", "ok"}) /\ ~meddled => Consistent

\* README.md:99-101: all four engines come from one release build, so every
\* platform ships the same revision, the one the lock names.
LockIsOneBuild ==
    Readable => \A target \in Targets : lock.digests[target] = lock.revision

\* Mutant: the digest of the embedded engine is not compared.
AcceptsAny(target) == binary[target] # None

\* Resolve's checks of what the build embeds.
Accepts(target) ==
    /\ binary[target] # None
    /\ binary[target].engine = binary[target].lock.digests[target]

\* The engine that a build is willing to run is of the revision its lock names,
\* even when the tree was built in the middle of a pull or after one that failed.
AcceptedEngineIsPinned ==
    \A target \in Targets : Accepts(target) => binary[target].engine = binary[target].lock.revision

\* The inductive invariants behind these properties.  Where loops start, which
\* steps have a release, and whose they are.
Shaped(j) ==
    /\ j.pc \in {"resolve", "version", "readLock", "writeLock"} => j.at = 1
    /\ j.pc \in {"resolve", "version", "fetch", "install"} => j.tag \in Tags /\ j.command = "pull"
    /\ j.pc \in {"digest", "writeLock"} => j.command \in {"pull", "write"}

JobShape == \A r \in Runs : Shaped(job[r])

\* What the snapshot of r says of the targets below n is what lies in the tree.
Agrees(r, n) == \A target \in 1..(n - 1) : artifact[target] = job[r].snapshot.digests[target]

\* The lock is the one that r has written or read, and agrees with what r has
\* compared so far.
Verifying(r) == lock = job[r].snapshot /\ Agrees(r, job[r].at)

\* A run that is alone knows the tree.
AloneKnows ==
    \A r \in Runs \ touched :
      /\ At(r, "digest") => Agrees(r, job[r].at)
      /\ At(r, "writeLock") => Agrees(r, Last + 1)
      /\ At(r, "verify") => Verifying(r)

\* r will not report success before somebody has changed the tree, or it has found
\* it consistent.
Answerable(r) == job[r].pc \notin {"idle", "ok"} /\ (At(r, "verify") => Verifying(r))

\* The last pull that changed the tree answers for it until it has compared
\* everything; when it fails, its next command does.
SomeoneAnswers == meddled \/ Consistent \/ \E r \in Runs : Answerable(r)

SnapshotInv ==
    SnapshotTypeOK /\ JobShape /\ AloneKnows /\ OkMeansConsistent /\ SomeoneAnswers

\* One pull after the other: releases are of one build each, and a pull
\* leaves the targets behind it in the tree, and in its snapshot, as they are there.
ReleasesOfOneBuild ==
    \A tag \in Tags, target \in Targets : Extract(tag, target) \in {None, ref[tag].revision}

Pinned(files, n, revision) == \A target \in 1..(n - 1) : files[target] = revision

PullOfOneBuild(j) ==
    LET revision == j.snapshot.revision
    IN  /\ j.pc \in {"version", "fetch", "install"} => revision = ref[j.tag].revision
        /\ j.pc \in {"fetch", "install"} => Pinned(artifact, j.at, revision)
        /\ j.pc = "install" => j.archive = revision
        /\ j.pc = "digest" => Pinned(artifact, Last + 1, revision)
        /\ j.pc = "digest" => Pinned(j.snapshot.digests, j.at, revision)
        /\ j.pc = "writeLock" => Pinned(j.snapshot.digests, Last + 1, revision)

PullsOneBuild == \A r \in Runs : PullOfOneBuild(job[r])

BinariesOfOneBuild ==
    \A platform \in Targets : binary[platform] # None =>
      \A target \in Targets : binary[platform].lock.digests[target] = binary[platform].lock.revision

\* One maintainer, and nobody else touches the artifacts or the releases.
OneMaintainer ==
    /\ \A r, s \in Runs : r = s
    /\ Commands \subseteq {"pull", "verify"}
    /\ Disturbances \subseteq {"fail", "damage"}

OneBuildInv ==
    /\ SnapshotInv /\ ReleasesOfOneBuild /\ PullsOneBuild /\ LockIsOneBuild
    /\ BinariesOfOneBuild

(* Liveness: a maintainer runs `make rx-update` again and again, and a run goes *)
(* on: it waits for nobody.                                                    *)
Maintain(r) == RunStep(r) \/ \E tag \in Tags : Pull(r, tag)

RepairSpec == SnapshotSpec /\ \A r \in Runs : WF_snapshotVars(Maintain(r))

\* Pulled(r): r has just left the tree as some release has it.
Pulled(r) ==
    /\ At(r, "ok") /\ LockIsOneBuild /\ Consistent
    /\ lock.revision \in {ref[tag].revision : tag \in Tags}

\* However often pulls fail, a later one completes: no half-installed set of
\* engines and no damaged lock stays in the way.
EventuallyPinned ==
    (\A tag \in Tags : ~ref[tag].nested /\ ref[tag].revision \in Versioned
                       /\ \A target \in Targets : Extract(tag, target) # None)
    => \A r \in Runs : []<>Pulled(r)
=============================================================================
