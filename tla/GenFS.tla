-------------------------------- MODULE GenFS --------------------------------
(***************************************************************************)
(* Guarded application of generation plans (internal/genfs/genfs.go).      *)
(*                                                                         *)
(* Generators (commands "spice generate" and "spice build", preparations   *)
(* of the development loop) apply plans of one target to the files of one  *)
(* module while the user edits the same files.  Apply takes the target's   *)
(* lock, inspects the disk against the ownership manifest, refuses to      *)
(* touch what it does not own, replaces files one by one through a         *)
(* temporary and a backup file, removes stale owned files and writes the   *)
(* manifest last.  A generator may fail at every file operation or be      *)
(* killed between any two of them.                                         *)
(*                                                                         *)
(* A file holds one of a few contents, its SHA-256 is the content itself.  *)
(* The manifest is a file like the others; its content is the plan it was  *)
(* written for, which says which paths are owned and with which hash.      *)
(* Within a loop the files are taken in any order.  An Apply that finds    *)
(* the lock taken changes nothing and is not a step.                       *)
(*                                                                         *)
(* A definition directly above another of a similar name is a seeded       *)
(* fault, used only to show that the properties notice it.                 *)
(***************************************************************************)
EXTENDS Naturals

CONSTANTS
    Generators,        \* processes or goroutines that call Apply
    Paths,             \* generated paths, without the manifest
    GoPaths,           \* the paths with extension .go
    Plans,             \* generation plans of the target
    PlanOf,            \* PlanOf[p][f]: what plan p expects at f, or "absent"
    Scanned,           \* Scanned[p]: paths in the directories that p scans
    GenContents,       \* contents that a generator renders
    UserContents,      \* contents that only a user writes
    Marked,            \* user contents that keep the generated header
    IOMayFail,         \* file operations may fail
    EditsDuringApply,  \* the user may edit while an Apply is running
    MaxEdits,          \* bound on the user's edits
    MaxLeftBehind      \* bound on locks left behind: generators killed, or removals refused

ASSUME GenFSAssumption ==
    /\ GoPaths \subseteq Paths
    /\ "none" \notin Generators
    /\ Paths \cap {"manifest", "none"} = {}
    /\ PlanOf \in [Plans -> [Paths -> GenContents \cup UserContents \cup {"absent"}]]
    /\ Scanned \in [Plans -> SUBSET Paths]
    /\ Marked \subseteq UserContents
    /\ "absent" \notin GenContents \cup UserContents
    /\ Plans \cap {"absent", "foreign", "none"} = {}
    /\ GenContents \cap UserContents = {}
    /\ IOMayFail \in BOOLEAN
    /\ EditsDuringApply \in BOOLEAN
    /\ MaxEdits \in Nat
    /\ MaxLeftBehind \in Nat

Files == Paths \cup {"manifest"}
FileContents == GenContents \cup UserContents \cup {"absent"}
ManifestContents == Plans \cup {"absent", "foreign"}

VARIABLES
    disk,     \* content of every file
    lock,     \* the lock file and who created it
    pc,       \* where each generator is in Apply
    plan,     \* its plan
    prior,    \* the plan recorded by the manifest it has read, or "absent"
    todo,     \* expected files still to be written
    stale,    \* owned files still to be removed
    cur,      \* the file replaceFile or removeOwnedFile works on
    backup,   \* what replacePath has moved aside
    outcome,  \* what Apply is going to return
    last,     \* history: the plan of the last Apply that passed inspection
    edits, leftBehind

genVars == <<plan, prior, todo, stale, cur, backup, outcome>>
envVars == <<last, edits, leftBehind>>
vars == <<disk, lock, pc, genVars, envVars>>

PCs == {"idle", "inspect", "write", "backup", "promote", "drop", "remove",
        "unlink", "manifest", "release"}

\* Exactly the values that the Go variables and the files can take.
TypeOK ==
    /\ disk \in [Files -> FileContents \cup ManifestContents]
    /\ \A f \in Paths : disk[f] \in FileContents
    /\ disk["manifest"] \in ManifestContents
    /\ lock \in Generators \cup {"none"}
    /\ pc \in [Generators -> PCs]
    /\ plan \in [Generators -> Plans \cup {"none"}]
    /\ prior \in [Generators -> Plans \cup {"absent"}]
    /\ todo \in [Generators -> SUBSET Paths]
    /\ stale \in [Generators -> SUBSET Paths]
    /\ cur \in [Generators -> Files \cup {"none"}]
    /\ backup \in [Generators -> FileContents \cup ManifestContents]
    /\ outcome \in [Generators -> {"none", "ok", "error"}]
    /\ last \in Plans \cup {"none"}
    /\ edits \in 0..MaxEdits
    /\ leftBehind \in 0..MaxLeftBehind

Running(g) == pc[g] # "idle"

-----------------------------------------------------------------------------
(* Plans, ownership and inspection.                                        *)

\* hasGeneratedMarker.
HasMarker(c) == c \in GenContents \cup Marked

\* validatePlan: every rendered Go file starts with the generated header and
\* nothing is rendered without content.
ValidPlan(p) ==
    \A f \in Paths : PlanOf[p][f] \in GenContents \cup {"absent"}

Expected(p, f) == IF f = "manifest" THEN p ELSE PlanOf[p][f]

\* state.owned[f]: the hash the manifest m records for f.
Owned(m, f) == IF m \in Plans THEN PlanOf[m][f] ELSE "absent"

Decodes(m) == m # "foreign"

\* inspectExpectedFile.
ExpectedKindByOwner(p, m, f) ==
    CASE disk[f] = "absent" -> "missing-file"
      [] disk[f] # "absent" /\ Owned(m, f) = "absent" -> "unowned-collision"
      [] Owned(m, f) # "absent" /\ disk[f] \notin {"absent", Owned(m, f)} -> "manual-edit"
      [] OTHER -> IF disk[f] # PlanOf[p][f] THEN "stale-file" ELSE "none"
ExpectedKind(p, m, f) ==
    CASE disk[f] = "absent" -> "missing-file"
      [] disk[f] # "absent" /\ Owned(m, f) = "absent" -> "unowned-collision"
      [] Owned(m, f) # "absent" /\ disk[f] = PlanOf[p][f] -> "none"
      [] OTHER -> IF disk[f] # Owned(m, f) THEN "manual-edit" ELSE "stale-file"

\* An unmodified owned file, by its hash and its header.
UnmodifiedOwned(m, f) ==
    disk[f] = Owned(m, f) /\ (f \in GoPaths => HasMarker(disk[f]))

\* inspectPriorFiles.
PriorKind(m, f) ==
    CASE disk[f] = "absent" -> "missing-owned-file"
      [] disk[f] # "absent" /\ ~UnmodifiedOwned(m, f) -> "manual-edit"
      [] OTHER -> "stale-owned-file"

\* inspectUnexpectedGenerated and inspectUnexpectedGeneratedEntry: only Go
\* files of the directories that belong to the plan are looked at.
UnexpectedKind(p, f) ==
    IF f \in Scanned[p] \cap GoPaths /\ HasMarker(disk[f])
    THEN "unexpected-generated-file" ELSE "none"

\* inspect: the difference found at f.
Kind(p, m, f) ==
    IF PlanOf[p][f] # "absent" THEN ExpectedKind(p, m, f)
    ELSE IF Owned(m, f) # "absent" THEN PriorKind(m, f)
    ELSE UnexpectedKind(p, f)

\* protectedDifferences.
ProtectedKindsEdits == {"manual-edit", "unexpected-generated-file"}
ProtectedKinds == {"manual-edit", "unowned-collision", "unexpected-generated-file"}

Conflict(p, m) == \E f \in Paths : Kind(p, m, f) \in ProtectedKinds

\* Check: status.Current, no difference between the plan and the disk.
Current(p) ==
    /\ disk["manifest"] = p
    /\ \A f \in Paths : Kind(p, p, f) = "none"

-----------------------------------------------------------------------------
Init ==
    /\ disk = [f \in Files |-> "absent"]
    /\ lock = "none"
    /\ pc = [g \in Generators |-> "idle"]
    /\ plan = [g \in Generators |-> "none"]
    /\ prior = [g \in Generators |-> "absent"]
    /\ todo = [g \in Generators |-> {}]
    /\ stale = [g \in Generators |-> {}]
    /\ cur = [g \in Generators |-> "none"]
    /\ backup = [g \in Generators |-> "absent"]
    /\ outcome = [g \in Generators |-> "none"]
    /\ last = "none"
    /\ edits = 0
    /\ leftBehind = 0

\* What Apply keeps in local variables is gone when it ends.
Forget(g) ==
    /\ pc' = [pc EXCEPT ![g] = "idle"]
    /\ plan' = [plan EXCEPT ![g] = "none"]
    /\ prior' = [prior EXCEPT ![g] = "absent"]
    /\ todo' = [todo EXCEPT ![g] = {}]
    /\ stale' = [stale EXCEPT ![g] = {}]
    /\ cur' = [cur EXCEPT ![g] = "none"]
    /\ backup' = [backup EXCEPT ![g] = "absent"]
    /\ outcome' = [outcome EXCEPT ![g] = "none"]

\* Apply returns through its deferred release of the lock.
Return(g, result) ==
    /\ pc' = [pc EXCEPT ![g] = "release"]
    /\ outcome' = [outcome EXCEPT ![g] = result]

Fails(g) == IOMayFail /\ Return(g, "error")

AcquireLock(g) == \E p \in Plans :
    /\ pc[g] = "idle"
    /\ ValidPlan(p)
    /\ lock = "none"
    /\ lock' = g
    /\ pc' = [pc EXCEPT ![g] = "inspect"]
    /\ plan' = [plan EXCEPT ![g] = p]
    /\ UNCHANGED <<disk, prior, todo, stale, cur, backup, outcome, envVars>>

\* inspect and the refusal of protected differences.
Inspect(g) ==
    /\ pc[g] = "inspect"
    /\ LET p == plan[g]
           m == disk["manifest"]
       IN IF ~Decodes(m) \/ Conflict(p, m)
          THEN /\ Return(g, "error")
               /\ UNCHANGED <<prior, todo, stale, last>>
          ELSE /\ last' = p
               /\ prior' = [prior EXCEPT ![g] = m]
               /\ todo' = [todo EXCEPT ![g] =
                     {f \in Paths : PlanOf[p][f] \notin {"absent", disk[f]}}]
               /\ stale' = [stale EXCEPT ![g] =
                     {f \in Paths : Kind(p, m, f) = "stale-owned-file"}]
               /\ pc' = [pc EXCEPT ![g] = "write"]
               /\ UNCHANGED outcome
    /\ UNCHANGED <<disk, lock, plan, cur, backup, edits, leftBehind>>

-----------------------------------------------------------------------------
(* replaceFile and replacePath.                                            *)

\* The temporary file is written and verified, then the destination is
\* looked at.
Stage(g, f) ==
    \/ /\ cur' = [cur EXCEPT ![g] = f]
       /\ pc' = [pc EXCEPT ![g] = IF disk[f] = "absent" THEN "promote" ELSE "backup"]
       /\ UNCHANGED outcome
    \/ /\ Fails(g)
       /\ UNCHANGED cur

\* The loop over plan.Files(), and its end.
WriteFile(g) ==
    /\ pc[g] = "write"
    /\ \/ \E f \in todo[g] : Stage(g, f)
       \/ /\ todo[g] = {}
          /\ pc' = [pc EXCEPT ![g] = "remove"]
          /\ UNCHANGED <<cur, outcome>>
    /\ UNCHANGED <<disk, lock, plan, prior, todo, stale, backup, envVars>>

\* root.Rename(destination, backupLocal).
BackUp(g) ==
    /\ pc[g] = "backup"
    /\ \/ /\ disk[cur[g]] # "absent"
          /\ backup' = [backup EXCEPT ![g] = disk[cur[g]]]
          /\ disk' = [disk EXCEPT ![cur[g]] = "absent"]
          /\ pc' = [pc EXCEPT ![g] = "promote"]
          /\ UNCHANGED outcome
       \/ /\ disk[cur[g]] = "absent"
          /\ Return(g, "error")
          /\ UNCHANGED <<disk, backup>>
       \/ /\ Fails(g)
          /\ UNCHANGED <<disk, backup>>
    /\ UNCHANGED <<lock, plan, prior, todo, stale, cur, envVars>>

\* The file is in place: the loop goes on, or Apply is done.
NextFile(g) ==
    IF cur[g] = "manifest"
    THEN /\ Return(g, "ok")
         /\ UNCHANGED todo
    ELSE /\ pc' = [pc EXCEPT ![g] = "write"]
         /\ todo' = [todo EXCEPT ![g] = @ \ {cur[g]}]
         /\ UNCHANGED outcome

\* root.Rename(temporary, destination); when it fails the backup is moved
\* back, which may fail too.
Promote(g) ==
    /\ pc[g] = "promote"
    /\ \/ /\ disk' = [disk EXCEPT ![cur[g]] = Expected(plan[g], cur[g])]
          /\ IF backup[g] = "absent" THEN NextFile(g)
             ELSE pc' = [pc EXCEPT ![g] = "drop"] /\ UNCHANGED <<todo, outcome>>
          /\ UNCHANGED backup
       \/ /\ Fails(g)
          /\ \/ /\ backup[g] # "absent"
                /\ disk' = [disk EXCEPT ![cur[g]] = backup[g]]
             \/ UNCHANGED disk
          /\ backup' = [backup EXCEPT ![g] = "absent"]
          /\ UNCHANGED todo
    /\ UNCHANGED <<lock, plan, prior, stale, cur, envVars>>

\* root.Remove(backupLocal).
DropBackup(g) ==
    /\ pc[g] = "drop"
    /\ \/ NextFile(g)
       \/ Fails(g) /\ UNCHANGED todo
    /\ backup' = [backup EXCEPT ![g] = "absent"]
    /\ UNCHANGED <<disk, lock, plan, prior, stale, cur, envVars>>

-----------------------------------------------------------------------------
(* Removal of stale files, the manifest and the end of Apply.              *)

\* removeOwnedFile reads the file again and compares; the loop's end.
CheckStale(g) ==
    /\ pc[g] = "remove"
    /\ \/ \E f \in stale[g] :
             \/ /\ disk[f] = "absent"
                /\ stale' = [stale EXCEPT ![g] = @ \ {f}]
                /\ UNCHANGED <<pc, cur, outcome>>
             \/ /\ disk[f] # "absent"
                /\ UnmodifiedOwned(prior[g], f)
                /\ cur' = [cur EXCEPT ![g] = f]
                /\ pc' = [pc EXCEPT ![g] = "unlink"]
                /\ UNCHANGED <<stale, outcome>>
             \/ /\ disk[f] # "absent"
                /\ ~UnmodifiedOwned(prior[g], f)
                /\ Return(g, "error")
                /\ UNCHANGED <<stale, cur>>
       \/ /\ stale[g] = {}
          /\ pc' = [pc EXCEPT ![g] = "manifest"]
          /\ UNCHANGED <<stale, cur, outcome>>
    /\ UNCHANGED <<disk, lock, plan, prior, todo, backup, envVars>>

\* root.Remove of the stale file.
UnlinkNothing(g) ==
    /\ pc[g] = "unlink"
    /\ stale' = [stale EXCEPT ![g] = @ \ {cur[g]}]
    /\ pc' = [pc EXCEPT ![g] = "remove"]
    /\ UNCHANGED <<disk, lock, plan, prior, todo, cur, backup, outcome, envVars>>
Unlink(g) ==
    /\ pc[g] = "unlink"
    /\ \/ /\ disk[cur[g]] # "absent"
          /\ disk' = [disk EXCEPT ![cur[g]] = "absent"]
          /\ stale' = [stale EXCEPT ![g] = @ \ {cur[g]}]
          /\ pc' = [pc EXCEPT ![g] = "remove"]
          /\ UNCHANGED outcome
       \/ /\ disk[cur[g]] = "absent"
          /\ Return(g, "error")
          /\ UNCHANGED <<disk, stale>>
       \/ /\ Fails(g)
          /\ UNCHANGED <<disk, stale>>
    /\ UNCHANGED <<lock, plan, prior, todo, cur, backup, envVars>>

\* The manifest is replaced last, unless it already is the plan's.
WriteManifest(g) ==
    /\ pc[g] = "manifest"
    /\ \/ prior[g] # plan[g] /\ Stage(g, "manifest")
       \/ prior[g] = plan[g] /\ Return(g, "ok") /\ UNCHANGED cur
    /\ UNCHANGED <<disk, lock, plan, prior, todo, stale, backup, envVars>>

\* The deferred release removes the lock file, whoever created it.
ReleaseOnSuccess(g) ==
    /\ pc[g] = "release"
    /\ lock' = IF outcome[g] = "ok" THEN "none" ELSE lock
    /\ Forget(g)
    /\ UNCHANGED <<disk, envVars>>
Release(g) ==
    /\ pc[g] = "release"
    /\ \/ lock' = "none" /\ UNCHANGED leftBehind
       \/ IOMayFail /\ leftBehind < MaxLeftBehind /\ leftBehind' = leftBehind + 1 /\ UNCHANGED lock
    /\ Forget(g)
    /\ UNCHANGED <<disk, last, edits>>

Step(g) ==
    \/ Inspect(g) \/ WriteFile(g) \/ BackUp(g) \/ Promote(g)
    \/ DropBackup(g) \/ CheckStale(g) \/ Unlink(g) \/ WriteManifest(g)
    \/ Release(g)

-----------------------------------------------------------------------------
(* The environment.                                                        *)

\* The process is killed: lock, temporary and backup files stay behind.
Crash(g) ==
    /\ Running(g)
    /\ leftBehind < MaxLeftBehind
    /\ leftBehind' = leftBehind + 1
    /\ Forget(g)
    /\ UNCHANGED <<disk, lock, last, edits>>

\* The user writes, changes or deletes a file.
UserEdit ==
    /\ edits < MaxEdits
    /\ EditsDuringApply \/ \A g \in Generators : ~Running(g)
    /\ edits' = edits + 1
    /\ \/ \E f \in Paths, c \in UserContents \cup {"absent"} :
             disk[f] # c /\ disk' = [disk EXCEPT ![f] = c]
       \/ \E c \in {"absent", "foreign"} :
             disk["manifest"] # c /\ disk' = [disk EXCEPT !["manifest"] = c]
    /\ UNCHANGED <<lock, pc, genVars, last, leftBehind>>

\* The user removes a stale lock, as the message of acquireLock asks, only
\* when no generator is running.
UserRemovesLock ==
    /\ lock # "none"
    /\ \A g \in Generators : ~Running(g)
    /\ lock' = "none"
    /\ UNCHANGED <<disk, pc, genVars, envVars>>

Next ==
    \/ \E g \in Generators : AcquireLock(g) \/ Step(g) \/ Crash(g)
    \/ UserEdit \/ UserRemovesLock

Spec == Init /\ [][Next]_vars

\* A generator that has started runs on to its end.
FairSpec == Spec /\ \A g \in Generators : WF_vars(Step(g))

-----------------------------------------------------------------------------
(* Properties.                                                             *)

\* Between acquireLock and the release of the lock a generator is alone:
\* replaced files and the manifest come from one plan at a time.
Exclusive ==
    \A g \in Generators : Running(g) => lock = g /\ \A h \in Generators \ {g} : ~Running(h)

\* Generation fails closed on manual edits: what a user has written into a
\* file, generated or not, is never replaced or removed by Apply, also not
\* after a crash, a failed Apply or a change of plan.  Only the user changes it.
UserWorkKept ==
    [][\A f \in Paths : disk[f] \in UserContents /\ disk'[f] # disk[f] => edits' # edits]_vars

\* When Apply succeeds the disk is exactly what Check calls current: no
\* stale, missing or unexpected generated file is left, whatever earlier
\* runs have left behind.
AppliedIsCurrent ==
    \A g \in Generators : pc[g] = "release" /\ outcome[g] = "ok" => Current(plan[g])

\* The manifest is written last: while it is being replaced every file of
\* the plan is in place and every stale file that the prior manifest owned
\* is gone, so that no crash leaves a manifest that claims too much.
ManifestLast ==
    \A g \in Generators :
        cur[g] = "manifest" =>
            \A f \in Paths :
                PlanOf[plan[g]][f] # "absent" \/ Owned(prior[g], f) # "absent"
                    => disk[f] = PlanOf[plan[g]][f]

\* The manifest never claims more than is there, and success means what Check means by current.
PlanIsCarriedOut == AppliedIsCurrent /\ ManifestLast

\* As long as nobody edits, the plan that was applied last can be applied
\* again without being taken for a manual edit, also when that Apply failed
\* or was killed half way through: files it has already replaced differ from
\* the manifest, but they are what the plan expects.
RetryIsNoManualEdit ==
    last # "none" /\ edits = 0 =>
        \A f \in Paths : Kind(last, disk["manifest"], f) # "manual-edit"

\* Every Apply that takes the lock gives it back, whatever it finds, unless it is killed or the
\* operating system refuses to remove the lock.
LockReleased ==
    \A g \in Generators :
        Running(g) /\ lock = g /\ leftBehind = MaxLeftBehind ~> lock # g

=============================================================================
