----------------------------- MODULE GenFSProofs -----------------------------
(***************************************************************************)
(* Proofs about guarded generation, for any number of generators, paths    *)
(* and plans, any sequence of failures and killed generators, and edits    *)
(* between the runs of Apply.                                              *)
(*                                                                         *)
(* What a running Apply has found out in its inspection stays true until   *)
(* it acts on it because the lock keeps other generators away and, in the  *)
(* theorems that need it, nobody edits meanwhile.                          *)
(***************************************************************************)
EXTENDS GenFS, TLAPS

\* A running generator created the lock file that exists.
LockInv == \A g \in Generators : Running(g) => lock = g

\* A replacement has something in its backup only between two renames, of
\* the kind of file that it replaces.
BackupInv ==
    \A g \in Generators :
        /\ pc[g] \notin {"promote", "drop"} => backup[g] = "absent"
        /\ cur[g] \in Paths => backup[g] \in FileContents
        /\ cur[g] = "manifest" => backup[g] \in ManifestContents

\* Only valid plans are applied or recorded.
ValidInv ==
    /\ disk["manifest"] \in Plans => ValidPlan(disk["manifest"])
    /\ \A g \in Generators :
          /\ Running(g) => plan[g] \in Plans /\ ValidPlan(plan[g])
          /\ prior[g] \in Plans => ValidPlan(prior[g])
          /\ cur[g] = "manifest" /\ backup[g] \in Plans => ValidPlan(backup[g])

\* The file a generator works on is one it has still to handle.
CurInv ==
    \A g \in Generators :
        /\ pc[g] \in {"backup", "promote", "drop"} => cur[g] \in todo[g] \cup {"manifest"}
        /\ pc[g] = "unlink" => cur[g] \in stale[g]
        /\ pc[g] \in {"idle", "inspect", "write", "remove", "unlink", "manifest"} =>
              cur[g] # "manifest"

BaseInv == TypeOK /\ LockInv /\ BackupInv /\ ValidInv /\ CurInv

USE GenFSAssumption DEF Files, FileContents, ManifestContents

\* AcquireLock keeps BaseInv.
LEMMA AcquireLockBase ==
  ASSUME BaseInv, NEW g \in Generators, AcquireLock(g)
  PROVE  BaseInv'
  <1> USE DEF BaseInv, AcquireLock, genVars, envVars
  <1>1. TypeOK'
    BY DEF TypeOK, BackupInv, ValidInv, CurInv, PCs, Running
  <1>2. LockInv'
    BY <1>1 DEF TypeOK, LockInv, Running
  <1>3. BackupInv'
    BY <1>1 DEF TypeOK, BackupInv, CurInv, PCs
  <1>4. ValidInv'
    BY <1>1 DEF TypeOK, ValidInv, ValidPlan, Running, BackupInv
  <1>5. CurInv'
    BY <1>1 DEF TypeOK, CurInv, PCs
  <1> QED BY <1>1, <1>2, <1>3, <1>4, <1>5

\* Inspect keeps BaseInv.
LEMMA InspectBase ==
  ASSUME BaseInv, NEW g \in Generators, Inspect(g)
  PROVE  BaseInv'
  <1> USE DEF BaseInv, Inspect, Return, Decodes, genVars, envVars
  <1>1. TypeOK'
    <2>1. pc' \in [Generators -> PCs] /\ outcome' \in [Generators -> {"none", "ok", "error"}]
      <3>1. pc \in [Generators -> PCs] /\ outcome \in [Generators -> {"none", "ok", "error"}]
        BY DEF TypeOK
      <3> QED BY <3>1 DEF PCs
    <2>2. /\ todo' \in [Generators -> SUBSET Paths]
          /\ stale' \in [Generators -> SUBSET Paths]
      <3>1. /\ todo \in [Generators -> SUBSET Paths]
            /\ stale \in [Generators -> SUBSET Paths]
        BY DEF TypeOK
      <3>2. \/ UNCHANGED <<todo, stale>>
            \/ \E s, t \in SUBSET Paths : /\ todo' = [todo EXCEPT ![g] = s]
                                         /\ stale' = [stale EXCEPT ![g] = t]
        OBVIOUS
      <3> HIDE DEF Inspect
      <3> QED BY <3>1, <3>2
    <2>3. /\ disk' \in [Files -> FileContents \cup ManifestContents]
          /\ \A f \in Paths : disk'[f] \in FileContents
          /\ disk'["manifest"] \in ManifestContents
      BY DEF TypeOK, BackupInv, ValidInv, CurInv, Running
    <2>4. /\ plan' \in [Generators -> Plans \cup {"none"}]
          /\ prior' \in [Generators -> Plans \cup {"absent"}]
      BY <2>3 DEF TypeOK
    <2>6. /\ cur' \in [Generators -> Files \cup {"none"}]
          /\ backup' \in [Generators -> FileContents \cup ManifestContents]
      BY DEF CurInv, TypeOK
    <2>7. /\ last' \in Plans \cup {"none"} /\ edits' \in 0..MaxEdits
          /\ leftBehind' \in 0..MaxLeftBehind /\ lock' \in Generators \cup {"none"}
      BY DEF ValidInv, Running, TypeOK
    <2> QED BY <2>1, <2>2, <2>3, <2>4, <2>6, <2>7 DEF TypeOK
  <1>2. LockInv'
    BY <1>1 DEF TypeOK, LockInv, Running
  <1>3. BackupInv'
    BY <1>1 DEF TypeOK, BackupInv, CurInv, PCs
  <1>4. ValidInv'
    BY <1>1 DEF TypeOK, ValidInv, ValidPlan, Running, BackupInv
  <1>5. CurInv'
    BY <1>1 DEF TypeOK, CurInv, PCs
  <1> QED BY <1>1, <1>2, <1>3, <1>4, <1>5

\* WriteFile keeps BaseInv.
LEMMA WriteFileBase ==
  ASSUME BaseInv, NEW g \in Generators, WriteFile(g)
  PROVE  BaseInv'
  <1> USE DEF BaseInv, WriteFile, Stage, Fails, Return, genVars, envVars
  <1>1. TypeOK'
    <2>1. pc' \in [Generators -> PCs] /\ outcome' \in [Generators -> {"none", "ok", "error"}]
      <3>1. pc \in [Generators -> PCs] /\ outcome \in [Generators -> {"none", "ok", "error"}]
        BY DEF TypeOK
      <3> QED BY <3>1 DEF PCs
    <2>2. /\ todo' \in [Generators -> SUBSET Paths]
          /\ stale' \in [Generators -> SUBSET Paths]
      <3>1. /\ todo \in [Generators -> SUBSET Paths]
            /\ stale \in [Generators -> SUBSET Paths]
        BY DEF TypeOK
      <3> QED BY <3>1
    <2>3. /\ disk' \in [Files -> FileContents \cup ManifestContents]
          /\ \A f \in Paths : disk'[f] \in FileContents
          /\ disk'["manifest"] \in ManifestContents
      BY DEF TypeOK, BackupInv, ValidInv, CurInv, Running
    <2>4. /\ plan' \in [Generators -> Plans \cup {"none"}]
          /\ prior' \in [Generators -> Plans \cup {"absent"}]
      BY <2>3 DEF TypeOK
    <2>6. /\ cur' \in [Generators -> Files \cup {"none"}]
          /\ backup' \in [Generators -> FileContents \cup ManifestContents]
      BY DEF CurInv, TypeOK
    <2>7. /\ last' \in Plans \cup {"none"} /\ edits' \in 0..MaxEdits
          /\ leftBehind' \in 0..MaxLeftBehind /\ lock' \in Generators \cup {"none"}
      BY DEF ValidInv, Running, TypeOK
    <2> QED BY <2>1, <2>2, <2>3, <2>4, <2>6, <2>7 DEF TypeOK
  <1>2. LockInv'
    BY <1>1 DEF TypeOK, LockInv, Running
  <1>3. BackupInv'
    BY <1>1 DEF TypeOK, BackupInv, CurInv, PCs
  <1>4. ValidInv'
    BY <1>1 DEF TypeOK, ValidInv, ValidPlan, Running, BackupInv
  <1>5. CurInv'
    BY <1>1 DEF TypeOK, CurInv, PCs
  <1> QED BY <1>1, <1>2, <1>3, <1>4, <1>5

\* BackUp keeps BaseInv.
LEMMA BackUpBase ==
  ASSUME BaseInv, NEW g \in Generators, BackUp(g)
  PROVE  BaseInv'
  <1> USE DEF BaseInv, BackUp, Return, Fails, genVars, envVars
  <1>1. TypeOK'
    <2>1. pc' \in [Generators -> PCs] /\ outcome' \in [Generators -> {"none", "ok", "error"}]
      <3>1. pc \in [Generators -> PCs] /\ outcome \in [Generators -> {"none", "ok", "error"}]
        BY DEF TypeOK
      <3> QED BY <3>1 DEF PCs
    <2>2. /\ todo' \in [Generators -> SUBSET Paths]
          /\ stale' \in [Generators -> SUBSET Paths]
      <3>1. /\ todo \in [Generators -> SUBSET Paths]
            /\ stale \in [Generators -> SUBSET Paths]
        BY DEF TypeOK
      <3> QED BY <3>1
    <2>3. /\ disk' \in [Files -> FileContents \cup ManifestContents]
          /\ \A f \in Paths : disk'[f] \in FileContents
          /\ disk'["manifest"] \in ManifestContents
      <3>1. /\ disk \in [Files -> FileContents \cup ManifestContents]
            /\ \A f \in Paths : disk[f] \in FileContents
            /\ disk["manifest"] \in ManifestContents
        BY DEF TypeOK
      <3>2. cur[g] \in Files
        BY DEF TypeOK, CurInv
      <3> QED BY <3>1, <3>2
    <2>4. /\ plan' \in [Generators -> Plans \cup {"none"}]
          /\ prior' \in [Generators -> Plans \cup {"absent"}]
      BY <2>3 DEF TypeOK
    <2>6. /\ cur' \in [Generators -> Files \cup {"none"}]
          /\ backup' \in [Generators -> FileContents \cup ManifestContents]
      BY DEF CurInv, TypeOK
    <2>7. /\ last' \in Plans \cup {"none"} /\ edits' \in 0..MaxEdits
          /\ leftBehind' \in 0..MaxLeftBehind /\ lock' \in Generators \cup {"none"}
      BY DEF ValidInv, Running, TypeOK
    <2> QED BY <2>1, <2>2, <2>3, <2>4, <2>6, <2>7 DEF TypeOK
  <1>2. LockInv'
    BY <1>1 DEF TypeOK, LockInv, Running
  <1>3. BackupInv'
    BY <1>1 DEF TypeOK, BackupInv, CurInv, PCs
  <1>4. ValidInv'
    <2>1. disk'["manifest"] \in Plans => ValidPlan(disk'["manifest"])
      BY DEF TypeOK, ValidInv
    <2>2. ASSUME NEW h \in Generators
          PROVE  /\ Running(h)' => plan'[h] \in Plans /\ ValidPlan(plan'[h])
                 /\ prior'[h] \in Plans => ValidPlan(prior'[h])
      BY <1>1 DEF TypeOK, ValidInv, Running
    <2>3. ASSUME NEW h \in Generators
          PROVE  cur'[h] = "manifest" /\ backup'[h] \in Plans => ValidPlan(backup'[h])
      <3>1. cur' = cur
        OBVIOUS
      <3>2. backup \in [Generators -> FileContents \cup ManifestContents]
        BY DEF TypeOK
      <3>3. backup'[h] = backup[h] \/ backup'[h] = disk[cur[h]]
        BY <3>2
      <3>4. backup'[h] = backup[h] \/ (cur[h] = "manifest" => backup'[h] = disk["manifest"])
        BY <3>3
      <3> QED
        BY <3>1, <3>4 DEF ValidInv
    <2> QED
      BY <2>1, <2>2, <2>3 DEF ValidInv, ValidPlan
  <1>5. CurInv'
    BY <1>1 DEF TypeOK, CurInv, PCs
  <1> QED BY <1>1, <1>2, <1>3, <1>4, <1>5

\* Promote keeps BaseInv.
LEMMA PromoteBase ==
  ASSUME BaseInv, NEW g \in Generators, Promote(g)
  PROVE  BaseInv'
  <1> USE DEF BaseInv, Promote, Fails, Return, NextFile, Expected, genVars, envVars
  <1>1. TypeOK'
    <2>1. pc' \in [Generators -> PCs] /\ outcome' \in [Generators -> {"none", "ok", "error"}]
      <3>1. pc \in [Generators -> PCs] /\ outcome \in [Generators -> {"none", "ok", "error"}]
        BY DEF TypeOK
      <3> QED BY <3>1 DEF PCs
    <2>2. /\ todo' \in [Generators -> SUBSET Paths]
          /\ stale' \in [Generators -> SUBSET Paths]
      <3>1. /\ todo \in [Generators -> SUBSET Paths]
            /\ stale \in [Generators -> SUBSET Paths]
        BY DEF TypeOK
      <3> QED BY <3>1
    <2>3. /\ disk' \in [Files -> FileContents \cup ManifestContents]
          /\ \A f \in Paths : disk'[f] \in FileContents
          /\ disk'["manifest"] \in ManifestContents
      <3>1. /\ disk \in [Files -> FileContents \cup ManifestContents]
            /\ \A f \in Paths : disk[f] \in FileContents
            /\ disk["manifest"] \in ManifestContents
        BY DEF TypeOK
      <3>2. cur[g] \in Files
        BY DEF TypeOK, CurInv
      <3>3. /\ cur[g] \in Paths => Expected(plan[g], cur[g]) \in FileContents
            /\ cur[g] = "manifest" => Expected(plan[g], cur[g]) \in ManifestContents
        BY DEF TypeOK, ValidInv, Running
      <3>4. /\ cur[g] \in Paths => backup[g] \in FileContents
            /\ cur[g] = "manifest" => backup[g] \in ManifestContents
        BY DEF BackupInv
      <3>5. \/ disk' = disk
            \/ disk' = [disk EXCEPT ![cur[g]] = Expected(plan[g], cur[g])]
            \/ disk' = [disk EXCEPT ![cur[g]] = backup[g]]
        OBVIOUS
      <3> HIDE DEF Promote, Expected
      <3> QED BY <3>1, <3>2, <3>3, <3>4, <3>5
    <2>4. /\ plan' \in [Generators -> Plans \cup {"none"}]
          /\ prior' \in [Generators -> Plans \cup {"absent"}]
      BY <2>3 DEF TypeOK
    <2>6. /\ cur' \in [Generators -> Files \cup {"none"}]
          /\ backup' \in [Generators -> FileContents \cup ManifestContents]
      BY SMTT(30) DEF CurInv, TypeOK
    <2>7. /\ last' \in Plans \cup {"none"} /\ edits' \in 0..MaxEdits
          /\ leftBehind' \in 0..MaxLeftBehind /\ lock' \in Generators \cup {"none"}
      BY DEF ValidInv, Running, TypeOK
    <2> QED BY <2>1, <2>2, <2>3, <2>4, <2>6, <2>7 DEF TypeOK
  <1>2. LockInv'
    BY <1>1 DEF TypeOK, LockInv, Running
  <1>3. BackupInv'
    BY <1>1 DEF TypeOK, BackupInv, CurInv, PCs
  <1>4. ValidInv'
    <2>1. disk'["manifest"] \in Plans => ValidPlan(disk'["manifest"])
      <3>1. \/ disk'["manifest"] = disk["manifest"]
            \/ cur[g] = "manifest" /\ disk'["manifest"] \in {plan[g], backup[g]}
        BY DEF TypeOK, CurInv
      <3> QED BY <3>1 DEF ValidInv, Running
    <2>2. /\ UNCHANGED <<plan, prior, cur>>
          /\ \A h \in Generators : backup'[h] \in {backup[h], "absent"}
          /\ \A h \in Generators : Running(h)' => Running(h)
      BY DEF TypeOK, Running
    <2> HIDE DEF Promote
    <2> QED BY <1>1, <2>1, <2>2 DEF TypeOK, ValidInv, ValidPlan
  <1>5. CurInv'
    BY <1>1 DEF TypeOK, CurInv, PCs
  <1> QED BY <1>1, <1>2, <1>3, <1>4, <1>5

\* DropBackup keeps BaseInv.
LEMMA DropBackupBase ==
  ASSUME BaseInv, NEW g \in Generators, DropBackup(g)
  PROVE  BaseInv'
  <1> USE DEF BaseInv, DropBackup, NextFile, Fails, Return, genVars, envVars
  <1>1. TypeOK'
    <2>1. pc' \in [Generators -> PCs] /\ outcome' \in [Generators -> {"none", "ok", "error"}]
      <3>1. pc \in [Generators -> PCs] /\ outcome \in [Generators -> {"none", "ok", "error"}]
        BY DEF TypeOK
      <3> QED BY <3>1 DEF PCs
    <2>2. /\ todo' \in [Generators -> SUBSET Paths]
          /\ stale' \in [Generators -> SUBSET Paths]
      <3>1. /\ todo \in [Generators -> SUBSET Paths]
            /\ stale \in [Generators -> SUBSET Paths]
        BY DEF TypeOK
      <3> QED BY <3>1
    <2>3. /\ disk' \in [Files -> FileContents \cup ManifestContents]
          /\ \A f \in Paths : disk'[f] \in FileContents
          /\ disk'["manifest"] \in ManifestContents
      BY DEF TypeOK, BackupInv, ValidInv, CurInv, Running
    <2>4. /\ plan' \in [Generators -> Plans \cup {"none"}]
          /\ prior' \in [Generators -> Plans \cup {"absent"}]
      BY <2>3 DEF TypeOK
    <2>6. /\ cur' \in [Generators -> Files \cup {"none"}]
          /\ backup' \in [Generators -> FileContents \cup ManifestContents]
      BY DEF CurInv, TypeOK
    <2>7. /\ last' \in Plans \cup {"none"} /\ edits' \in 0..MaxEdits
          /\ leftBehind' \in 0..MaxLeftBehind /\ lock' \in Generators \cup {"none"}
      BY DEF ValidInv, Running, TypeOK
    <2> QED BY <2>1, <2>2, <2>3, <2>4, <2>6, <2>7 DEF TypeOK
  <1>2. LockInv'
    BY <1>1 DEF TypeOK, LockInv, Running
  <1>3. BackupInv'
    BY <1>1 DEF TypeOK, BackupInv, CurInv, PCs
  <1>4. ValidInv'
    BY <1>1 DEF TypeOK, ValidInv, ValidPlan, Running, BackupInv
  <1>5. CurInv'
    BY <1>1 DEF TypeOK, CurInv, PCs
  <1> QED BY <1>1, <1>2, <1>3, <1>4, <1>5

\* CheckStale keeps BaseInv.
LEMMA CheckStaleBase ==
  ASSUME BaseInv, NEW g \in Generators, CheckStale(g)
  PROVE  BaseInv'
  <1> USE DEF BaseInv, CheckStale, Return, genVars, envVars
  <1>1. TypeOK'
    <2>1. pc' \in [Generators -> PCs] /\ outcome' \in [Generators -> {"none", "ok", "error"}]
      <3>1. pc \in [Generators -> PCs] /\ outcome \in [Generators -> {"none", "ok", "error"}]
        BY DEF TypeOK
      <3> QED BY <3>1 DEF PCs
    <2>2. /\ todo' \in [Generators -> SUBSET Paths]
          /\ stale' \in [Generators -> SUBSET Paths]
      <3>1. /\ todo \in [Generators -> SUBSET Paths]
            /\ stale \in [Generators -> SUBSET Paths]
        BY DEF TypeOK
      <3> QED BY <3>1
    <2>3. /\ disk' \in [Files -> FileContents \cup ManifestContents]
          /\ \A f \in Paths : disk'[f] \in FileContents
          /\ disk'["manifest"] \in ManifestContents
      BY DEF TypeOK, BackupInv, ValidInv, CurInv, Running
    <2>4. /\ plan' \in [Generators -> Plans \cup {"none"}]
          /\ prior' \in [Generators -> Plans \cup {"absent"}]
      BY <2>3 DEF TypeOK
    <2>6. /\ cur' \in [Generators -> Files \cup {"none"}]
          /\ backup' \in [Generators -> FileContents \cup ManifestContents]
      BY DEF CurInv, TypeOK
    <2>7. /\ last' \in Plans \cup {"none"} /\ edits' \in 0..MaxEdits
          /\ leftBehind' \in 0..MaxLeftBehind /\ lock' \in Generators \cup {"none"}
      BY DEF ValidInv, Running, TypeOK
    <2> QED BY <2>1, <2>2, <2>3, <2>4, <2>6, <2>7 DEF TypeOK
  <1>2. LockInv'
    BY <1>1 DEF TypeOK, LockInv, Running
  <1>3. BackupInv'
    BY <1>1 DEF TypeOK, BackupInv, CurInv, PCs
  <1>4. ValidInv'
    BY <1>1 DEF TypeOK, ValidInv, ValidPlan, Running, BackupInv
  <1>5. CurInv'
    BY <1>1 DEF TypeOK, CurInv, PCs
  <1> QED BY <1>1, <1>2, <1>3, <1>4, <1>5

\* Unlink keeps BaseInv.
LEMMA UnlinkBase ==
  ASSUME BaseInv, NEW g \in Generators, Unlink(g)
  PROVE  BaseInv'
  <1> USE DEF BaseInv, Unlink, Return, Fails, genVars, envVars
  <1>1. TypeOK'
    <2>1. pc' \in [Generators -> PCs] /\ outcome' \in [Generators -> {"none", "ok", "error"}]
      <3>1. pc \in [Generators -> PCs] /\ outcome \in [Generators -> {"none", "ok", "error"}]
        BY DEF TypeOK
      <3> QED BY <3>1 DEF PCs
    <2>2. /\ todo' \in [Generators -> SUBSET Paths]
          /\ stale' \in [Generators -> SUBSET Paths]
      <3>1. /\ todo \in [Generators -> SUBSET Paths]
            /\ stale \in [Generators -> SUBSET Paths]
        BY DEF TypeOK
      <3> QED BY <3>1
    <2>3. /\ disk' \in [Files -> FileContents \cup ManifestContents]
          /\ \A f \in Paths : disk'[f] \in FileContents
          /\ disk'["manifest"] \in ManifestContents
      <3>1. /\ disk \in [Files -> FileContents \cup ManifestContents]
            /\ \A f \in Paths : disk[f] \in FileContents
            /\ disk["manifest"] \in ManifestContents
        BY DEF TypeOK
      <3>2. cur[g] \in Files
        BY DEF TypeOK, CurInv
      <3> QED BY <3>1, <3>2
    <2>4. /\ plan' \in [Generators -> Plans \cup {"none"}]
          /\ prior' \in [Generators -> Plans \cup {"absent"}]
      BY <2>3 DEF TypeOK
    <2>6. /\ cur' \in [Generators -> Files \cup {"none"}]
          /\ backup' \in [Generators -> FileContents \cup ManifestContents]
      BY DEF CurInv, TypeOK
    <2>7. /\ last' \in Plans \cup {"none"} /\ edits' \in 0..MaxEdits
          /\ leftBehind' \in 0..MaxLeftBehind /\ lock' \in Generators \cup {"none"}
      BY DEF ValidInv, Running, TypeOK
    <2> QED BY <2>1, <2>2, <2>3, <2>4, <2>6, <2>7 DEF TypeOK
  <1>2. LockInv'
    BY <1>1 DEF TypeOK, LockInv, Running
  <1>3. BackupInv'
    BY <1>1 DEF TypeOK, BackupInv, CurInv, PCs
  <1>4. ValidInv'
    BY <1>1 DEF TypeOK, ValidInv, ValidPlan, Running, BackupInv
  <1>5. CurInv'
    BY <1>1 DEF TypeOK, CurInv, PCs
  <1> QED BY <1>1, <1>2, <1>3, <1>4, <1>5

\* WriteManifest keeps BaseInv.
LEMMA WriteManifestBase ==
  ASSUME BaseInv, NEW g \in Generators, WriteManifest(g)
  PROVE  BaseInv'
  <1> USE DEF BaseInv, WriteManifest, Stage, Fails, Return, genVars, envVars
  <1>1. TypeOK'
    <2>1. pc' \in [Generators -> PCs] /\ outcome' \in [Generators -> {"none", "ok", "error"}]
      <3>1. pc \in [Generators -> PCs] /\ outcome \in [Generators -> {"none", "ok", "error"}]
        BY DEF TypeOK
      <3> QED BY <3>1 DEF PCs
    <2>2. /\ todo' \in [Generators -> SUBSET Paths]
          /\ stale' \in [Generators -> SUBSET Paths]
      <3>1. /\ todo \in [Generators -> SUBSET Paths]
            /\ stale \in [Generators -> SUBSET Paths]
        BY DEF TypeOK
      <3> QED BY <3>1
    <2>3. /\ disk' \in [Files -> FileContents \cup ManifestContents]
          /\ \A f \in Paths : disk'[f] \in FileContents
          /\ disk'["manifest"] \in ManifestContents
      BY DEF TypeOK, BackupInv, ValidInv, CurInv, Running
    <2>4. /\ plan' \in [Generators -> Plans \cup {"none"}]
          /\ prior' \in [Generators -> Plans \cup {"absent"}]
      BY <2>3 DEF TypeOK
    <2>6. /\ cur' \in [Generators -> Files \cup {"none"}]
          /\ backup' \in [Generators -> FileContents \cup ManifestContents]
      BY DEF CurInv, TypeOK
    <2>7. /\ last' \in Plans \cup {"none"} /\ edits' \in 0..MaxEdits
          /\ leftBehind' \in 0..MaxLeftBehind /\ lock' \in Generators \cup {"none"}
      BY DEF ValidInv, Running, TypeOK
    <2> QED BY <2>1, <2>2, <2>3, <2>4, <2>6, <2>7 DEF TypeOK
  <1>2. LockInv'
    BY <1>1 DEF TypeOK, LockInv, Running
  <1>3. BackupInv'
    BY <1>1 DEF TypeOK, BackupInv, CurInv, PCs
  <1>4. ValidInv'
    BY <1>1 DEF TypeOK, ValidInv, ValidPlan, Running, BackupInv
  <1>5. CurInv'
    BY <1>1 DEF TypeOK, CurInv, PCs
  <1> QED BY <1>1, <1>2, <1>3, <1>4, <1>5

\* Release keeps BaseInv.
LEMMA ReleaseBase ==
  ASSUME BaseInv, NEW g \in Generators, Release(g)
  PROVE  BaseInv'
  <1> USE DEF BaseInv, Release, Forget, genVars, envVars
  <1>1. TypeOK'
    BY DEF TypeOK, BackupInv, ValidInv, CurInv, PCs, Running
  <1>2. LockInv'
    BY <1>1 DEF TypeOK, LockInv, Running
  <1>3. BackupInv'
    BY <1>1 DEF TypeOK, BackupInv, CurInv, PCs
  <1>4. ValidInv'
    BY <1>1 DEF TypeOK, ValidInv, ValidPlan, Running, BackupInv
  <1>5. CurInv'
    BY <1>1 DEF TypeOK, CurInv, PCs
  <1> QED BY <1>1, <1>2, <1>3, <1>4, <1>5

\* Crash keeps BaseInv.
LEMMA CrashBase ==
  ASSUME BaseInv, NEW g \in Generators, Crash(g)
  PROVE  BaseInv'
  <1> USE DEF BaseInv, Crash, Forget, genVars, envVars
  <1>1. TypeOK'
    BY DEF TypeOK, BackupInv, ValidInv, CurInv, PCs, Running
  <1>2. LockInv'
    BY <1>1 DEF TypeOK, LockInv, Running
  <1>3. BackupInv'
    BY <1>1 DEF TypeOK, BackupInv, CurInv, PCs
  <1>4. ValidInv'
    BY <1>1 DEF TypeOK, ValidInv, ValidPlan, Running, BackupInv
  <1>5. CurInv'
    BY <1>1 DEF TypeOK, CurInv, PCs
  <1> QED BY <1>1, <1>2, <1>3, <1>4, <1>5

\* UserEdit keeps BaseInv.
LEMMA UserEditBase ==
  ASSUME BaseInv, UserEdit
  PROVE  BaseInv'
  <1> USE DEF BaseInv, UserEdit, genVars, envVars
  <1>1. TypeOK'
    BY DEF TypeOK, BackupInv, ValidInv, CurInv, PCs, Running
  <1>2. LockInv'
    BY <1>1 DEF TypeOK, LockInv, Running
  <1>3. BackupInv'
    BY <1>1 DEF TypeOK, BackupInv, CurInv, PCs
  <1>4. ValidInv'
    BY <1>1 DEF TypeOK, ValidInv, ValidPlan, Running, BackupInv
  <1>5. CurInv'
    BY <1>1 DEF TypeOK, CurInv, PCs
  <1> QED BY <1>1, <1>2, <1>3, <1>4, <1>5

\* UserRemovesLock keeps BaseInv.
LEMMA UserRemovesLockBase ==
  ASSUME BaseInv, UserRemovesLock
  PROVE  BaseInv'
  <1> USE DEF BaseInv, UserRemovesLock, genVars, envVars
  <1>1. TypeOK'
    BY DEF TypeOK, BackupInv, ValidInv, CurInv, PCs, Running
  <1>2. LockInv'
    BY <1>1 DEF TypeOK, LockInv, Running
  <1>3. BackupInv'
    BY <1>1 DEF TypeOK, BackupInv, CurInv, PCs
  <1>4. ValidInv'
    BY <1>1 DEF TypeOK, ValidInv, ValidPlan, Running, BackupInv
  <1>5. CurInv'
    BY <1>1 DEF TypeOK, CurInv, PCs
  <1> QED BY <1>1, <1>2, <1>3, <1>4, <1>5

-----------------------------------------------------------------------------
(* What a running Apply knows, provided that nobody edits meanwhile.       *)

Working(g) ==
    pc[g] \in {"write", "backup", "promote", "drop", "remove", "unlink", "manifest"}

\* The classification of the inspection, kept up to date: files still to be
\* written or removed hold nothing of the user's, the others are as they
\* have to be.
Found(g) ==
    Working(g) =>
        \A f \in Paths :
            /\ f \in todo[g] =>
                  PlanOf[plan[g]][f] # "absent" /\ disk[f] \notin UserContents
            /\ f \in stale[g] =>
                  /\ PlanOf[plan[g]][f] = "absent"
                  /\ Owned(prior[g], f) # "absent"
                  /\ disk[f] \notin UserContents
            /\ f \notin todo[g] /\ PlanOf[plan[g]][f] # "absent" =>
                  disk[f] = PlanOf[plan[g]][f]
            /\ f \notin stale[g] /\ PlanOf[plan[g]][f] = "absent"
                                 /\ Owned(prior[g], f) # "absent" =>
                  disk[f] = "absent"
            /\ PlanOf[plan[g]][f] = "absent" /\ Owned(prior[g], f) = "absent" =>
                  UnexpectedKind(plan[g], f) = "none"

\* The loops end before the manifest is touched.
Order(g) ==
    /\ pc[g] \in {"remove", "unlink", "manifest"} => todo[g] = {}
    /\ pc[g] = "manifest" => stale[g] = {}
    /\ Working(g) /\ cur[g] = "manifest" => todo[g] = {} /\ stale[g] = {}
    /\ Working(g) /\ cur[g] # "manifest" => disk["manifest"] = prior[g]
    /\ pc[g] = "drop" => disk[cur[g]] = Expected(plan[g], cur[g])

\* ManifestLast and AppliedIsCurrent for one generator.
Last(g) ==
    cur[g] = "manifest" =>
        \A f \in Paths :
            PlanOf[plan[g]][f] # "absent" \/ Owned(prior[g], f) # "absent"
                => disk[f] = PlanOf[plan[g]][f]

Applied(g) == pc[g] = "release" /\ outcome[g] = "ok" => Current(plan[g])

WorkInv ==
    \A g \in Generators : Running(g) => Found(g) /\ Order(g) /\ Last(g) /\ Applied(g)

\* A step of one generator concerns the others only if they run, and they
\* do not.
LEMMA OneRuns ==
  ASSUME BaseInv, BaseInv', WorkInv, NEW g \in Generators,
         pc[g] # "idle" \/ lock = "none",
         \A h \in Generators \ {g} : pc'[h] = pc[h],
         Running(g)' => Found(g)' /\ Order(g)' /\ Last(g)' /\ Applied(g)'
  PROVE  WorkInv'
  <1>1. \A h \in Generators \ {g} : ~Running(h)
    BY DEF BaseInv, LockInv, TypeOK, Running
  <1>2. \A h \in Generators \ {g} : ~Running(h)'
    BY <1>1 DEF Running
  <1> QED BY <1>2 DEF WorkInv

\* A step of replaceFile: every file is as it was, or still to be written
\* and not the user's, or written.
LEMMA FoundKept ==
  ASSUME NEW g \in Generators, Found(g), Working(g),
         plan'[g] = plan[g], prior'[g] = prior[g], stale'[g] = stale[g],
         \A f \in Paths :
            \/ disk'[f] = disk[f] /\ (f \in todo'[g] <=> f \in todo[g])
            \/ f \in todo[g] /\ f \in todo'[g] /\ disk'[f] \notin UserContents
            \/ f \in todo[g] /\ f \notin todo'[g] /\ disk'[f] = PlanOf[plan[g]][f]
  PROVE  Found(g)'
  BY DEF Found, Working, Owned, UnexpectedKind, HasMarker

\* When the loops are done and the manifest is the plan's, Check finds
\* nothing to report.
LEMMA DoneIsCurrent ==
  ASSUME NEW g \in Generators, Found(g), Working(g),
         todo[g] = {}, stale[g] = {}, plan[g] \in Plans,
         plan'[g] = plan[g], disk'["manifest"] = plan[g],
         \A f \in Paths : disk'[f] = disk[f]
  PROVE  Current(plan[g])'
  <1> SUFFICES ASSUME NEW f \in Paths
               PROVE  Kind(plan[g], plan[g], f)' = "none"
    BY DEF Current
  <1>1. CASE PlanOf[plan[g]][f] # "absent"
    BY <1>1 DEF Found, Kind, ExpectedKind, Owned
  <1>2. CASE PlanOf[plan[g]][f] = "absent"
    <2>1. UnexpectedKind(plan[g], f)' = "none"
      <3>1. UnexpectedKind(plan[g], f) = "none"
        BY <1>2, GenFSAssumption DEF Found, UnexpectedKind, HasMarker
      <3> QED BY <3>1 DEF UnexpectedKind, HasMarker
    <2> QED BY <1>2, <2>1 DEF Kind, Owned
  <1> QED BY <1>1, <1>2

\* AcquireLock keeps WorkInv.
LEMMA AcquireLockWork ==
  ASSUME BaseInv, BaseInv', WorkInv, NEW g \in Generators, AcquireLock(g)
  PROVE  WorkInv'
  <1> USE DEF AcquireLock, genVars, envVars
  <1>1. pc[g] # "idle" \/ lock = "none"
    BY DEF BaseInv, TypeOK
  <1>2. \A h \in Generators \ {g} : pc'[h] = pc[h]
    BY DEF BaseInv, TypeOK
  <1> SUFFICES ASSUME Running(g)'
               PROVE  Found(g)' /\ Order(g)' /\ Last(g)' /\ Applied(g)'
    BY <1>1, <1>2, OneRuns
  <1>3. Running(g) => Found(g) /\ Order(g) /\ Last(g) /\ Applied(g)
    BY DEF WorkInv
  <1>4. Found(g)'
    BY <1>3 DEF BaseInv, TypeOK, Running, CurInv, Working, Found, UnexpectedKind, Owned
  <1>5. Order(g)'
    BY <1>3 DEF BaseInv, TypeOK, Running, CurInv, Working, Order, Found
  <1>6. Last(g)'
    BY <1>3 DEF BaseInv, TypeOK, Running, CurInv, Working, Last, Found, Order, Owned
  <1>7. Applied(g)'
    BY <1>3 DEF BaseInv, TypeOK, Running, CurInv, Working, Applied
  <1> QED BY <1>4, <1>5, <1>6, <1>7

\* Inspect keeps WorkInv.
LEMMA InspectWork ==
  ASSUME BaseInv, BaseInv', WorkInv, NEW g \in Generators, Inspect(g)
  PROVE  WorkInv'
  <1> USE DEF Inspect, Return, Decodes, genVars, envVars
  <1>1. pc[g] # "idle" \/ lock = "none"
    BY DEF BaseInv, TypeOK
  <1>2. \A h \in Generators \ {g} : pc'[h] = pc[h]
    BY DEF BaseInv, TypeOK
  <1> SUFFICES ASSUME Running(g)'
               PROVE  Found(g)' /\ Order(g)' /\ Last(g)' /\ Applied(g)'
    BY <1>1, <1>2, OneRuns
  <1>3. Running(g) => Found(g) /\ Order(g) /\ Last(g) /\ Applied(g)
    BY DEF WorkInv
  <1>4. Found(g)'
    <2>1. CASE pc'[g] = "release"
      BY <2>1 DEF Found, Working
    <2>2. CASE pc'[g] # "release"
      <3> DEFINE p == plan[g]
                 m == disk["manifest"]
      <3>1. p \in Plans /\ ValidPlan(p)
        BY DEF BaseInv, ValidInv, Running
      <3>2. m \in Plans \cup {"absent"} /\ (m \in Plans => ValidPlan(m))
        BY <2>2 DEF BaseInv, TypeOK, ValidInv, ManifestContents
      <3>3. /\ disk' = disk
            /\ plan'[g] = p
            /\ prior'[g] = m
            /\ todo'[g] = {f \in Paths : PlanOf[p][f] \notin {"absent", disk[f]}}
            /\ stale'[g] = {f \in Paths : Kind(p, m, f) = "stale-owned-file"}
            /\ ~Conflict(p, m)
        BY <2>2 DEF BaseInv, TypeOK
      <3> SUFFICES ASSUME NEW f \in Paths
                   PROVE  /\ f \in todo'[g] => PlanOf[p][f] # "absent" /\ disk[f] \notin UserContents
                          /\ f \in stale'[g] =>
                                /\ PlanOf[p][f] = "absent"
                                /\ Owned(m, f) # "absent"
                                /\ disk[f] \notin UserContents
                          /\ f \notin todo'[g] /\ PlanOf[p][f] # "absent" => disk[f] = PlanOf[p][f]
                          /\ f \notin stale'[g] /\ PlanOf[p][f] = "absent" /\ Owned(m, f) # "absent" =>
                                disk[f] = "absent"
                          /\ PlanOf[p][f] = "absent" /\ Owned(m, f) = "absent" =>
                                UnexpectedKind(p, f) = "none"
        <4> HIDE DEF p, m, Inspect
        <4>1. \A f \in Paths : /\ Owned(prior[g], f)' = Owned(m, f)
                               /\ UnexpectedKind(plan[g], f)' = UnexpectedKind(p, f)
          BY <3>3 DEF Owned, UnexpectedKind, HasMarker
        <4> QED BY <3>3, <4>1 DEF Found
      <3> HIDE DEF p, m, Inspect
      <3>4. Kind(p, m, f) \notin ProtectedKinds
        BY <3>3 DEF Conflict
      <3>5. Owned(m, f) \in GenContents \cup {"absent"}
        BY <3>2 DEF Owned, ValidPlan
      <3>6. PlanOf[p][f] \in GenContents \cup {"absent"}
        BY <3>1 DEF ValidPlan
      <3>7. CASE PlanOf[p][f] # "absent"
        <4>1. f \notin stale'[g]
          BY <3>3, <3>7 DEF Kind, ExpectedKind
        <4>2. disk[f] \in {"absent", PlanOf[p][f], Owned(m, f)}
          BY <3>4, <3>7 DEF Kind, ExpectedKind, ProtectedKinds
        <4> QED BY <3>3, <3>5, <3>6, <3>7, <4>1, <4>2, GenFSAssumption
      <3>8. CASE PlanOf[p][f] = "absent" /\ Owned(m, f) # "absent"
        <4>1. Kind(p, m, f) = PriorKind(m, f)
          BY <3>8 DEF Kind
        <4>2. CASE disk[f] = "absent"
          BY <3>3, <3>8, <4>2, GenFSAssumption
        <4>3. CASE disk[f] # "absent"
          <5>1. UnmodifiedOwned(m, f)
            BY <3>4, <4>1, <4>3 DEF PriorKind, ProtectedKinds
          <5>2. PriorKind(m, f) = "stale-owned-file"
            BY <4>3, <5>1 DEF PriorKind
          <5>3. disk[f] \notin UserContents
            BY <3>5, <5>1, <4>3, GenFSAssumption DEF UnmodifiedOwned
          <5> QED BY <3>3, <3>8, <4>1, <5>2, <5>3
        <4> QED BY <4>2, <4>3
      <3>9. CASE PlanOf[p][f] = "absent" /\ Owned(m, f) = "absent"
        <4>1. Kind(p, m, f) = UnexpectedKind(p, f)
          BY <3>9 DEF Kind
        <4>2. UnexpectedKind(p, f) = "none"
          BY <3>4, <4>1 DEF UnexpectedKind, ProtectedKinds
        <4> QED BY <3>3, <3>9, <4>1, <4>2
      <3> QED BY <3>7, <3>8, <3>9
    <2> QED BY <2>1, <2>2
  <1>5. Order(g)'
    BY <1>3 DEF BaseInv, TypeOK, Running, CurInv, Working, Order, Found
  <1>6. Last(g)'
    BY <1>3 DEF BaseInv, TypeOK, Running, CurInv, Working, Last, Found, Order, Owned
  <1>7. Applied(g)'
    BY <1>3 DEF BaseInv, TypeOK, Running, CurInv, Working, Applied
  <1> QED BY <1>4, <1>5, <1>6, <1>7

\* WriteFile keeps WorkInv.
LEMMA WriteFileWork ==
  ASSUME BaseInv, BaseInv', WorkInv, NEW g \in Generators, WriteFile(g)
  PROVE  WorkInv'
  <1> USE DEF WriteFile, Stage, Fails, Return, genVars, envVars
  <1>1. pc[g] # "idle" \/ lock = "none"
    BY DEF BaseInv, TypeOK
  <1>2. \A h \in Generators \ {g} : pc'[h] = pc[h]
    BY DEF BaseInv, TypeOK
  <1> SUFFICES ASSUME Running(g)'
               PROVE  Found(g)' /\ Order(g)' /\ Last(g)' /\ Applied(g)'
    BY <1>1, <1>2, OneRuns
  <1>3. Running(g) => Found(g) /\ Order(g) /\ Last(g) /\ Applied(g)
    BY DEF WorkInv
  <1>4. Found(g)'
    BY <1>3 DEF BaseInv, TypeOK, Running, CurInv, Working, Found, UnexpectedKind, Owned
  <1>5. Order(g)'
    BY <1>3 DEF BaseInv, TypeOK, Running, CurInv, Working, Order, Found
  <1>6. Last(g)'
    BY <1>3 DEF BaseInv, TypeOK, Running, CurInv, Working, Last, Found, Order, Owned
  <1>7. Applied(g)'
    BY <1>3 DEF BaseInv, TypeOK, Running, CurInv, Working, Applied
  <1> QED BY <1>4, <1>5, <1>6, <1>7

\* BackUp keeps WorkInv.
LEMMA BackUpWork ==
  ASSUME BaseInv, BaseInv', WorkInv, NEW g \in Generators, BackUp(g)
  PROVE  WorkInv'
  <1> USE DEF BackUp, Return, Fails, genVars, envVars
  <1>1. pc[g] # "idle" \/ lock = "none"
    BY DEF BaseInv, TypeOK
  <1>2. \A h \in Generators \ {g} : pc'[h] = pc[h]
    BY DEF BaseInv, TypeOK
  <1> SUFFICES ASSUME Running(g)'
               PROVE  Found(g)' /\ Order(g)' /\ Last(g)' /\ Applied(g)'
    BY <1>1, <1>2, OneRuns
  <1>3. Running(g) => Found(g) /\ Order(g) /\ Last(g) /\ Applied(g)
    BY DEF WorkInv
  <1>4. Found(g)'
    <2>1. plan'[g] = plan[g] /\ prior'[g] = prior[g] /\ stale'[g] = stale[g]
      OBVIOUS
    <2>2. Found(g) /\ Working(g)
      BY <1>3 DEF Running, Working
    <2>3. todo' = todo /\ cur[g] \in todo[g] \cup {"manifest"}
      BY DEF BaseInv, CurInv
    <2>4. disk' = disk \/ disk' = [disk EXCEPT ![cur[g]] = "absent"]
      OBVIOUS
    <2>5. disk \in [Files -> FileContents \cup ManifestContents]
      BY DEF BaseInv, TypeOK
    <2> HIDE DEF BackUp
    <2>6. ASSUME NEW f \in Paths
          PROVE  \/ disk'[f] = disk[f] /\ (f \in todo'[g] <=> f \in todo[g])
                 \/ f \in todo[g] /\ f \in todo'[g] /\ disk'[f] \notin UserContents
      BY <2>3, <2>4, <2>5, GenFSAssumption DEF Files
    <2> QED BY <2>1, <2>2, <2>6, FoundKept
  <1>5. Order(g)'
    BY <1>3 DEF BaseInv, TypeOK, Running, CurInv, Working, Order, Found
  <1>6. Last(g)'
    BY <1>3 DEF BaseInv, TypeOK, Running, CurInv, Working, Last, Found, Order, Owned
  <1>7. Applied(g)'
    BY <1>3 DEF BaseInv, TypeOK, Running, CurInv, Working, Applied
  <1> QED BY <1>4, <1>5, <1>6, <1>7

\* Promote keeps WorkInv.
LEMMA PromoteWork ==
  ASSUME BaseInv, BaseInv', WorkInv, NEW g \in Generators, Promote(g)
  PROVE  WorkInv'
  <1> USE DEF Promote, Fails, Return, NextFile, Expected, genVars, envVars
  <1>1. pc[g] # "idle" \/ lock = "none"
    BY DEF BaseInv, TypeOK
  <1>2. \A h \in Generators \ {g} : pc'[h] = pc[h]
    BY DEF BaseInv, TypeOK
  <1> SUFFICES ASSUME Running(g)'
               PROVE  Found(g)' /\ Order(g)' /\ Last(g)' /\ Applied(g)'
    BY <1>1, <1>2, OneRuns
  <1>3. Running(g) => Found(g) /\ Order(g) /\ Last(g) /\ Applied(g)
    BY DEF WorkInv
  <1>4. Found(g)'
    <2>0. CASE pc'[g] = "release"
      BY <2>0 DEF Found, Working
    <2>a. CASE pc'[g] # "release"
      <3>1. plan'[g] = plan[g] /\ prior'[g] = prior[g] /\ stale'[g] = stale[g]
        OBVIOUS
      <3>2. Found(g) /\ Working(g)
        BY <1>3 DEF Running, Working
      <3>3. cur[g] \in todo[g] \cup {"manifest"}
        BY DEF BaseInv, CurInv
      <3>4. disk' = [disk EXCEPT ![cur[g]] = Expected(plan[g], cur[g])]
        BY <2>a DEF BaseInv, TypeOK
      <3>5. disk \in [Files -> FileContents \cup ManifestContents] /\ todo[g] \subseteq Paths
        BY DEF BaseInv, TypeOK
      <3>6. todo'[g] = todo[g] \/ todo'[g] = todo[g] \ {cur[g]}
        BY DEF BaseInv, TypeOK
      <3>7. ValidPlan(plan[g])
        BY DEF BaseInv, ValidInv, Running
      <3> HIDE DEF Promote
      <3>8. ASSUME NEW f \in Paths
            PROVE  \/ disk'[f] = disk[f] /\ (f \in todo'[g] <=> f \in todo[g])
                   \/ f \in todo[g] /\ f \in todo'[g] /\ disk'[f] \notin UserContents
                   \/ f \in todo[g] /\ f \notin todo'[g] /\ disk'[f] = PlanOf[plan[g]][f]
        <4>1. f # "manifest"
          BY GenFSAssumption
        <4>2. PlanOf[plan[g]][f] \notin UserContents
          BY <3>7, GenFSAssumption DEF ValidPlan
        <4>3. CASE f = cur[g]
          <5>1. f \in todo[g] /\ disk'[f] = PlanOf[plan[g]][f]
            BY <3>3, <3>4, <3>5, <4>1, <4>3 DEF Files
          <5> QED BY <3>6, <4>2, <5>1
        <4>4. CASE f # cur[g]
          BY <3>4, <3>5, <3>6, <4>4
        <4> QED BY <4>3, <4>4
      <3> QED BY <3>1, <3>2, <3>8, FoundKept
    <2> QED BY <2>0, <2>a
  <1>5. Order(g)'
    BY <1>3 DEF BaseInv, TypeOK, Running, CurInv, Working, Order, Found
  <1>6. Last(g)'
    BY <1>3 DEF BaseInv, TypeOK, Running, CurInv, Working, Last, Found, Order, Owned
  <1>7. Applied(g)'
    <2> SUFFICES ASSUME pc'[g] = "release", outcome'[g] = "ok"
                 PROVE  Current(plan[g])'
      BY DEF Applied
    <2>1. /\ cur[g] = "manifest"
          /\ disk' = [disk EXCEPT !["manifest"] = plan[g]]
          /\ plan'[g] = plan[g]
      BY DEF BaseInv, TypeOK
    <2>2. Found(g) /\ Working(g)
      BY <1>3 DEF Running, Working
    <2>3. todo[g] = {} /\ stale[g] = {}
      BY <1>3, <2>1, <2>2 DEF Order, Running
    <2>4. plan[g] \in Plans
      BY DEF BaseInv, ValidInv, Running
    <2>5. disk \in [Files -> FileContents \cup ManifestContents]
      BY DEF BaseInv, TypeOK
    <2> HIDE DEF Promote
    <2>6. disk'["manifest"] = plan[g] /\ \A f \in Paths : disk'[f] = disk[f]
      BY <2>1, <2>5, GenFSAssumption DEF Files
    <2> QED BY <2>1, <2>2, <2>3, <2>4, <2>6, DoneIsCurrent
  <1> QED BY <1>4, <1>5, <1>6, <1>7

\* DropBackup keeps WorkInv.
LEMMA DropBackupWork ==
  ASSUME BaseInv, BaseInv', WorkInv, NEW g \in Generators, DropBackup(g)
  PROVE  WorkInv'
  <1> USE DEF DropBackup, NextFile, Fails, Return, genVars, envVars
  <1>1. pc[g] # "idle" \/ lock = "none"
    BY DEF BaseInv, TypeOK
  <1>2. \A h \in Generators \ {g} : pc'[h] = pc[h]
    BY DEF BaseInv, TypeOK
  <1> SUFFICES ASSUME Running(g)'
               PROVE  Found(g)' /\ Order(g)' /\ Last(g)' /\ Applied(g)'
    BY <1>1, <1>2, OneRuns
  <1>3. Running(g) => Found(g) /\ Order(g) /\ Last(g) /\ Applied(g)
    BY DEF WorkInv
  <1>4. Found(g)'
    <2>1. plan'[g] = plan[g] /\ prior'[g] = prior[g] /\ stale'[g] = stale[g]
      OBVIOUS
    <2>2. Found(g) /\ Working(g)
      BY <1>3 DEF Running, Working
    <2>3. cur[g] \in todo[g] \cup {"manifest"} /\ todo[g] \subseteq Paths
      BY DEF BaseInv, TypeOK, CurInv
    <2>4. disk' = disk
      OBVIOUS
    <2>5. todo'[g] = todo[g] \/ todo'[g] = todo[g] \ {cur[g]}
      BY DEF BaseInv, TypeOK
    <2>6. disk[cur[g]] = Expected(plan[g], cur[g])
      BY <1>3 DEF Order, Running
    <2> HIDE DEF DropBackup
    <2>7. ASSUME NEW f \in Paths
          PROVE  \/ disk'[f] = disk[f] /\ (f \in todo'[g] <=> f \in todo[g])
                 \/ f \in todo[g] /\ f \notin todo'[g] /\ disk'[f] = PlanOf[plan[g]][f]
      BY <2>3, <2>4, <2>5, <2>6, GenFSAssumption DEF Expected
    <2> QED BY <2>1, <2>2, <2>7, FoundKept
  <1>5. Order(g)'
    BY <1>3 DEF BaseInv, TypeOK, Running, CurInv, Working, Order, Found
  <1>6. Last(g)'
    BY <1>3 DEF BaseInv, TypeOK, Running, CurInv, Working, Last, Found, Order, Owned
  <1>7. Applied(g)'
    <2> SUFFICES ASSUME pc'[g] = "release", outcome'[g] = "ok"
                 PROVE  Current(plan[g])'
      BY DEF Applied
    <2>1. disk' = disk /\ plan'[g] = plan[g]
      OBVIOUS
    <2>2. Found(g) /\ Working(g)
      BY <1>3 DEF Running, Working
    <2>3. todo[g] = {} /\ stale[g] = {}
      <3>1. cur[g] = "manifest"
        BY DEF BaseInv, TypeOK
      <3> QED BY <1>3, <2>2, <3>1 DEF Order, Running
    <2>4. disk["manifest"] = plan[g]
      <3>1. cur[g] = "manifest"
        BY DEF BaseInv, TypeOK
      <3> QED BY <1>3, <3>1 DEF Order, Running, Expected
    <2>5. plan[g] \in Plans
      BY DEF BaseInv, ValidInv, Running
    <2> HIDE DEF DropBackup
    <2> QED BY <2>1, <2>2, <2>3, <2>4, <2>5, DoneIsCurrent
  <1> QED BY <1>4, <1>5, <1>6, <1>7

\* CheckStale keeps WorkInv.
LEMMA CheckStaleWork ==
  ASSUME BaseInv, BaseInv', WorkInv, NEW g \in Generators, CheckStale(g)
  PROVE  WorkInv'
  <1> USE DEF CheckStale, Return, genVars, envVars
  <1>1. pc[g] # "idle" \/ lock = "none"
    BY DEF BaseInv, TypeOK
  <1>2. \A h \in Generators \ {g} : pc'[h] = pc[h]
    BY DEF BaseInv, TypeOK
  <1> SUFFICES ASSUME Running(g)'
               PROVE  Found(g)' /\ Order(g)' /\ Last(g)' /\ Applied(g)'
    BY <1>1, <1>2, OneRuns
  <1>3. Running(g) => Found(g) /\ Order(g) /\ Last(g) /\ Applied(g)
    BY DEF WorkInv
  <1>4. Found(g)'
    BY <1>3 DEF BaseInv, TypeOK, Running, CurInv, Working, Found, UnexpectedKind, Owned
  <1>5. Order(g)'
    BY <1>3 DEF BaseInv, TypeOK, Running, CurInv, Working, Order, Found
  <1>6. Last(g)'
    BY <1>3 DEF BaseInv, TypeOK, Running, CurInv, Working, Last, Found, Order, Owned
  <1>7. Applied(g)'
    BY <1>3 DEF BaseInv, TypeOK, Running, CurInv, Working, Applied
  <1> QED BY <1>4, <1>5, <1>6, <1>7

\* Unlink keeps WorkInv.
LEMMA UnlinkWork ==
  ASSUME BaseInv, BaseInv', WorkInv, NEW g \in Generators, Unlink(g)
  PROVE  WorkInv'
  <1> USE DEF Unlink, Return, Fails, genVars, envVars
  <1>1. pc[g] # "idle" \/ lock = "none"
    BY DEF BaseInv, TypeOK
  <1>2. \A h \in Generators \ {g} : pc'[h] = pc[h]
    BY DEF BaseInv, TypeOK
  <1> SUFFICES ASSUME Running(g)'
               PROVE  Found(g)' /\ Order(g)' /\ Last(g)' /\ Applied(g)'
    BY <1>1, <1>2, OneRuns
  <1>3. Running(g) => Found(g) /\ Order(g) /\ Last(g) /\ Applied(g)
    BY DEF WorkInv
  <1>4. Found(g)'
    BY <1>3 DEF BaseInv, TypeOK, Running, CurInv, Working, Found, UnexpectedKind, Owned
  <1>5. Order(g)'
    BY <1>3 DEF BaseInv, TypeOK, Running, CurInv, Working, Order, Found
  <1>6. Last(g)'
    BY <1>3 DEF BaseInv, TypeOK, Running, CurInv, Working, Last, Found, Order, Owned
  <1>7. Applied(g)'
    BY <1>3 DEF BaseInv, TypeOK, Running, CurInv, Working, Applied
  <1> QED BY <1>4, <1>5, <1>6, <1>7

\* WriteManifest keeps WorkInv.
LEMMA WriteManifestWork ==
  ASSUME BaseInv, BaseInv', WorkInv, NEW g \in Generators, WriteManifest(g)
  PROVE  WorkInv'
  <1> USE DEF WriteManifest, Stage, Fails, Return, genVars, envVars
  <1>1. pc[g] # "idle" \/ lock = "none"
    BY DEF BaseInv, TypeOK
  <1>2. \A h \in Generators \ {g} : pc'[h] = pc[h]
    BY DEF BaseInv, TypeOK
  <1> SUFFICES ASSUME Running(g)'
               PROVE  Found(g)' /\ Order(g)' /\ Last(g)' /\ Applied(g)'
    BY <1>1, <1>2, OneRuns
  <1>3. Running(g) => Found(g) /\ Order(g) /\ Last(g) /\ Applied(g)
    BY DEF WorkInv
  <1>4. Found(g)'
    BY <1>3 DEF BaseInv, TypeOK, Running, CurInv, Working, Found, UnexpectedKind, Owned
  <1>5. Order(g)'
    BY <1>3 DEF BaseInv, TypeOK, Running, CurInv, Working, Order, Found
  <1>6. Last(g)'
    BY <1>3 DEF BaseInv, TypeOK, Running, CurInv, Working, Last, Found, Order, Owned
  <1>7. Applied(g)'
    <2> SUFFICES ASSUME pc'[g] = "release", outcome'[g] = "ok"
                 PROVE  Current(plan[g])'
      BY DEF Applied
    <2>1. disk' = disk /\ plan'[g] = plan[g]
      OBVIOUS
    <2>2. Found(g) /\ Working(g)
      BY <1>3 DEF Running, Working
    <2>3. todo[g] = {} /\ stale[g] = {}
      BY <1>3 DEF Order, Running
    <2>4. disk["manifest"] = plan[g]
      <3>1. prior[g] = plan[g]
        BY DEF BaseInv, TypeOK
      <3>2. cur[g] # "manifest"
        BY DEF BaseInv, CurInv
      <3> QED BY <1>3, <2>2, <3>1, <3>2 DEF Order, Running
    <2>5. plan[g] \in Plans
      BY DEF BaseInv, ValidInv, Running
    <2> HIDE DEF WriteManifest
    <2> QED BY <2>1, <2>2, <2>3, <2>4, <2>5, DoneIsCurrent
  <1> QED BY <1>4, <1>5, <1>6, <1>7

\* Release keeps WorkInv.
LEMMA ReleaseWork ==
  ASSUME BaseInv, BaseInv', WorkInv, NEW g \in Generators, Release(g)
  PROVE  WorkInv'
  <1>1. pc[g] # "idle" /\ pc' = [pc EXCEPT ![g] = "idle"]
    BY DEF Release, Forget, Running
  <1>2. pc \in [Generators -> PCs]
    BY DEF BaseInv, TypeOK
  <1>3. ~Running(g)' /\ \A h \in Generators \ {g} : pc'[h] = pc[h]
    BY <1>1, <1>2 DEF Running
  <1> QED BY <1>1, <1>3, OneRuns

\* Crash keeps WorkInv.
LEMMA CrashWork ==
  ASSUME BaseInv, BaseInv', WorkInv, NEW g \in Generators, Crash(g)
  PROVE  WorkInv'
  <1>1. pc[g] # "idle" /\ pc' = [pc EXCEPT ![g] = "idle"]
    BY DEF Crash, Forget, Running
  <1>2. pc \in [Generators -> PCs]
    BY DEF BaseInv, TypeOK
  <1>3. ~Running(g)' /\ \A h \in Generators \ {g} : pc'[h] = pc[h]
    BY <1>1, <1>2 DEF Running
  <1> QED BY <1>1, <1>3, OneRuns

\* UserEdit keeps WorkInv.
LEMMA UserEditWork ==
  ASSUME BaseInv, BaseInv', WorkInv, ~EditsDuringApply,
         UserEdit
  PROVE  WorkInv'
  BY DEF WorkInv, UserEdit, Running, genVars, Found, Order, Last, Applied, Working,
         Current, Kind, ExpectedKind, PriorKind, UnexpectedKind, UnmodifiedOwned

\* UserRemovesLock keeps WorkInv.
LEMMA UserRemovesLockWork ==
  ASSUME BaseInv, BaseInv', WorkInv, UserRemovesLock
  PROVE  WorkInv'
  BY DEF WorkInv, UserRemovesLock, Running, genVars, Found, Order, Last, Applied, Working,
         Current, Kind, ExpectedKind, PriorKind, UnexpectedKind, UnmodifiedOwned

-----------------------------------------------------------------------------
(* The invariants of the specification.                                    *)

\* Nothing runs at first.
LEMMA InitBase == Init => BaseInv
  BY GenFSAssumption DEF Init, BaseInv, TypeOK, LockInv, BackupInv, ValidInv, CurInv, Running,
     Files, FileContents, ManifestContents, PCs

\* Nothing runs at first.
LEMMA InitWork == Init => WorkInv
  BY DEF Init, WorkInv, Running

\* Stuttering keeps BaseInv.
LEMMA StutterBase ==
  ASSUME BaseInv, UNCHANGED vars
  PROVE  BaseInv'
  BY DEF BaseInv, TypeOK, LockInv, BackupInv, ValidInv, CurInv, Running, vars, genVars, envVars

\* Stuttering keeps WorkInv.
LEMMA StutterWork ==
  ASSUME WorkInv, UNCHANGED vars
  PROVE  WorkInv'
  BY DEF WorkInv, Running, Found, Order, Last, Applied, Working, vars, genVars, envVars,
         Current, Kind, ExpectedKind, PriorKind, UnexpectedKind, UnmodifiedOwned

\* Every step keeps BaseInv.
LEMMA StepBase ==
  ASSUME BaseInv, [Next]_vars
  PROVE  BaseInv'
  <1>1. ASSUME NEW g \in Generators, AcquireLock(g)
        PROVE  BaseInv'
    BY <1>1, AcquireLockBase
  <1>2. ASSUME NEW g \in Generators, Inspect(g)
        PROVE  BaseInv'
    BY <1>2, InspectBase
  <1>3. ASSUME NEW g \in Generators, WriteFile(g)
        PROVE  BaseInv'
    BY <1>3, WriteFileBase
  <1>4. ASSUME NEW g \in Generators, BackUp(g)
        PROVE  BaseInv'
    BY <1>4, BackUpBase
  <1>5. ASSUME NEW g \in Generators, Promote(g)
        PROVE  BaseInv'
    BY <1>5, PromoteBase
  <1>6. ASSUME NEW g \in Generators, DropBackup(g)
        PROVE  BaseInv'
    BY <1>6, DropBackupBase
  <1>7. ASSUME NEW g \in Generators, CheckStale(g)
        PROVE  BaseInv'
    BY <1>7, CheckStaleBase
  <1>8. ASSUME NEW g \in Generators, Unlink(g)
        PROVE  BaseInv'
    BY <1>8, UnlinkBase
  <1>9. ASSUME NEW g \in Generators, WriteManifest(g)
        PROVE  BaseInv'
    BY <1>9, WriteManifestBase
  <1>10. ASSUME NEW g \in Generators, Release(g)
        PROVE  BaseInv'
    BY <1>10, ReleaseBase
  <1>11. ASSUME NEW g \in Generators, Crash(g)
        PROVE  BaseInv'
    BY <1>11, CrashBase
  <1>12. CASE UserEdit
    BY <1>12, UserEditBase
  <1>13. CASE UserRemovesLock
    BY <1>13, UserRemovesLockBase
  <1>14. CASE UNCHANGED vars
    BY <1>14, StutterBase
  <1> QED BY <1>1, <1>2, <1>3, <1>4, <1>5, <1>6, <1>7, <1>8, <1>9, <1>10,
             <1>11, <1>12, <1>13, <1>14
          DEF Next, Step

\* Every step but an edit keeps WorkInv.
LEMMA QuietStepWork ==
  ASSUME BaseInv, BaseInv', WorkInv, [Next]_vars, ~UserEdit
  PROVE  WorkInv'
  <1>1. ASSUME NEW g \in Generators, AcquireLock(g)
        PROVE  WorkInv'
    BY <1>1, AcquireLockWork
  <1>2. ASSUME NEW g \in Generators, Inspect(g)
        PROVE  WorkInv'
    BY <1>2, InspectWork
  <1>3. ASSUME NEW g \in Generators, WriteFile(g)
        PROVE  WorkInv'
    BY <1>3, WriteFileWork
  <1>4. ASSUME NEW g \in Generators, BackUp(g)
        PROVE  WorkInv'
    BY <1>4, BackUpWork
  <1>5. ASSUME NEW g \in Generators, Promote(g)
        PROVE  WorkInv'
    BY <1>5, PromoteWork
  <1>6. ASSUME NEW g \in Generators, DropBackup(g)
        PROVE  WorkInv'
    BY <1>6, DropBackupWork
  <1>7. ASSUME NEW g \in Generators, CheckStale(g)
        PROVE  WorkInv'
    BY <1>7, CheckStaleWork
  <1>8. ASSUME NEW g \in Generators, Unlink(g)
        PROVE  WorkInv'
    BY <1>8, UnlinkWork
  <1>9. ASSUME NEW g \in Generators, WriteManifest(g)
        PROVE  WorkInv'
    BY <1>9, WriteManifestWork
  <1>10. ASSUME NEW g \in Generators, Release(g)
        PROVE  WorkInv'
    BY <1>10, ReleaseWork
  <1>11. ASSUME NEW g \in Generators, Crash(g)
        PROVE  WorkInv'
    BY <1>11, CrashWork
  <1>13. CASE UserRemovesLock
    BY <1>13, UserRemovesLockWork
  <1>14. CASE UNCHANGED vars
    BY <1>14, StutterWork
  <1> QED BY <1>1, <1>2, <1>3, <1>4, <1>5, <1>6, <1>7, <1>8, <1>9, <1>10,
             <1>11, <1>13, <1>14
          DEF Next, Step

\* Every step keeps WorkInv when nobody edits during Apply.
LEMMA StepWork ==
  ASSUME BaseInv, BaseInv', WorkInv, ~EditsDuringApply, [Next]_vars
  PROVE  WorkInv'
  BY QuietStepWork, UserEditWork

\* BaseInv holds throughout, also when the user edits during Apply.
THEOREM BaseInvariance == Spec => []BaseInv
  BY InitBase, StepBase, PTL DEF Spec

\* The disk holds only contents of their kind and every local variable of
\* Apply has its type.
THEOREM TypeCorrect == Spec => []TypeOK
  <1>1. BaseInv => TypeOK
    BY DEF BaseInv
  <1> QED BY <1>1, BaseInvariance, PTL

\* acquireLock excludes: whatever fails, is killed or is edited, no two
\* generators are in Apply at once.
THEOREM ApplyIsExclusive == Spec => []Exclusive
  <1>1. BaseInv => Exclusive
    BY DEF BaseInv, TypeOK, LockInv, Exclusive, Running
  <1> QED BY <1>1, BaseInvariance, PTL

\* WorkInv holds throughout when nobody edits during Apply.
THEOREM WorkInvariance ==
  ASSUME ~EditsDuringApply
  PROVE  Spec => [](BaseInv /\ WorkInv)
  <1>1. BaseInv /\ WorkInv /\ [Next]_vars => (BaseInv /\ WorkInv)'
    BY StepBase, StepWork
  <1> QED BY <1>1, InitBase, InitWork, PTL DEF Spec

\* A successful Apply leaves exactly what Check calls current.
THEOREM SuccessIsCurrent ==
  ASSUME ~EditsDuringApply
  PROVE  Spec => []AppliedIsCurrent
  <1>1. BaseInv /\ WorkInv => AppliedIsCurrent
    BY DEF WorkInv, Applied, AppliedIsCurrent, Running
  <1> QED BY <1>1, WorkInvariance, PTL

\* The manifest is replaced only when every file is in place, whatever
\* failed or was killed before.
THEOREM ManifestIsLast ==
  ASSUME ~EditsDuringApply
  PROVE  Spec => []ManifestLast
  <1>1. BaseInv /\ WorkInv => ManifestLast
    BY DEF BaseInv, CurInv, WorkInv, Last, ManifestLast, Running
  <1> QED BY <1>1, WorkInvariance, PTL

\* What Apply leaves behind is what its plan and its manifest say.
THEOREM PlansAreCarriedOut ==
  ASSUME ~EditsDuringApply
  PROVE  Spec => []PlanIsCarriedOut
  <1>1. AppliedIsCurrent /\ ManifestLast => PlanIsCarriedOut
    BY DEF PlanIsCarriedOut
  <1> QED BY <1>1, SuccessIsCurrent, ManifestIsLast, PTL

-----------------------------------------------------------------------------
(* The user's files.                                                       *)

\* Only the file that a generator works on changes, and it holds nothing of
\* the user's.
LEMMA OnlyCurChanges ==
  ASSUME BaseInv, WorkInv, NEW g \in Generators, Step(g), NEW f \in Paths, disk[f] \in UserContents
  PROVE  disk'[f] = disk[f]
  <1>1. disk \in [Files -> FileContents \cup ManifestContents] /\ f # "manifest"
    BY GenFSAssumption DEF BaseInv, TypeOK
  <1>2. pc[g] \in {"backup", "promote"} => f # cur[g]
    <2> SUFFICES ASSUME pc[g] \in {"backup", "promote"}, f = cur[g]
                 PROVE  FALSE
      OBVIOUS
    <2>1. f \in todo[g]
      BY <1>1 DEF BaseInv, CurInv
    <2> QED BY <2>1 DEF WorkInv, Found, Running, Working
  <1>3. pc[g] = "unlink" => f # cur[g]
    BY DEF BaseInv, CurInv, WorkInv, Found, Running, Working
  <1>4. CASE BackUp(g)
    BY <1>1, <1>2, <1>4 DEF BackUp
  <1>5. CASE Promote(g)
    BY <1>1, <1>2, <1>5 DEF Promote
  <1>6. CASE Unlink(g)
    BY <1>1, <1>3, <1>6 DEF Unlink
  <1>7. CASE disk' = disk
    BY <1>7
  <1> QED
    BY <1>4, <1>5, <1>6, <1>7
    DEF Step, Inspect, WriteFile, DropBackup, CheckStale, WriteManifest, Release

\* Generation fails closed on manual edits: no step of any Apply changes or
\* removes what a user wrote, for every plan, failure and crash, provided
\* that the user does not edit during Apply.  The proviso is needed: an
\* edit after the inspection is overwritten.
THEOREM UserWorkIsKept ==
  ASSUME ~EditsDuringApply
  PROVE  Spec => UserWorkKept
  <1> DEFINE Kept == \A f \in Paths : disk[f] \in UserContents /\ disk'[f] # disk[f] => edits' # edits
  <1>1. BaseInv /\ WorkInv /\ [Next]_vars => [Kept]_vars
    <2> SUFFICES ASSUME BaseInv, WorkInv, Next
                 PROVE  Kept
      OBVIOUS
    <2>1. ASSUME NEW g \in Generators, Step(g)
          PROVE  Kept
      BY <2>1, OnlyCurChanges
    <2>2. ASSUME NEW g \in Generators, AcquireLock(g) \/ Crash(g)
          PROVE  Kept
      BY <2>2 DEF AcquireLock, Crash
    <2>3. CASE UserEdit
      BY <2>3 DEF UserEdit, BaseInv, TypeOK
    <2>4. CASE UserRemovesLock
      BY <2>4 DEF UserRemovesLock
    <2> QED BY <2>1, <2>2, <2>3, <2>4 DEF Next
  <1> HIDE DEF Kept
  <1>2. Spec => [][Kept]_vars
    BY <1>1, WorkInvariance, PTL DEF Spec
  <1> QED BY <1>2 DEF Kept, UserWorkKept

-----------------------------------------------------------------------------
(* An Apply that failed or was killed is repeated.                         *)

\* Content c of a file f that manifest m owns is what m records or what plan p expects.
Fine(p, m, f, c) == Owned(m, f) # "absent" => c \in {"absent", Owned(m, f), PlanOf[p][f]}

\* So are the files and what a replacement has moved aside; and so it stays when the old manifest is moved back.
RetryInv ==
    /\ \A g \in Generators : Working(g) => last = plan[g]
    /\ last # "none" =>
          /\ \A f \in Paths : Fine(last, disk["manifest"], f, disk[f])
          /\ \A g \in Generators :
                /\ cur[g] \in Paths => Fine(last, disk["manifest"], cur[g], backup[g])
                /\ cur[g] = "manifest" => \A f \in Paths : Fine(last, backup[g], f, disk[f])

\* Nothing is moved aside by a generator that does not run, nor by two at once.
LEMMA OthersIdle ==
  ASSUME BaseInv, NEW g \in Generators, Running(g)
  PROVE  \A h \in Generators \ {g} : ~Running(h) /\ ~Working(h) /\ backup[h] = "absent"
  <1>1. \A h \in Generators \ {g} : ~Running(h)
    BY DEF BaseInv, LockInv, TypeOK
  <1> QED BY <1>1 DEF BaseInv, BackupInv, Running, Working

\* What is absent is fine, and without a manifest everything is.
LEMMA AbsentIsFine ==
  ASSUME NEW p, NEW m, NEW f, NEW c
  PROVE  Fine(p, m, f, "absent") /\ Fine(p, "absent", f, c)
  BY GenFSAssumption DEF Fine, Owned

\* Steps that leave the files and the last plan alone.
LEMMA RetryKept ==
  ASSUME RetryInv, disk' = disk, last' = last,
         \A h \in Generators :
            /\ Working(h)' => Working(h) /\ plan'[h] = plan[h]
            /\ backup'[h] = "absent" \/ (backup'[h] = backup[h] /\ cur'[h] = cur[h])
  PROVE  RetryInv'
  <1>1. \A h \in Generators : Working(h)' => last' = plan'[h]
    BY DEF RetryInv
  <1>2. ASSUME last # "none", NEW h \in Generators
        PROVE  /\ cur'[h] \in Paths => Fine(last, disk["manifest"], cur'[h], backup'[h])
               /\ cur'[h] = "manifest" => \A f \in Paths : Fine(last, backup'[h], f, disk[f])
    <2>1. CASE backup'[h] = "absent"
      BY <2>1 DEF Fine, Owned
    <2>2. CASE backup'[h] = backup[h] /\ cur'[h] = cur[h]
      BY <1>2, <2>2 DEF RetryInv
    <2> QED BY <2>1, <2>2
  <1>3. last # "none" => \A f \in Paths : Fine(last, disk["manifest"], f, disk[f])
    BY DEF RetryInv
  <1> QED BY <1>1, <1>2, <1>3 DEF RetryInv, Fine, Owned

\* The inspection has found no manual edit.
LEMMA InspectRetry ==
  ASSUME BaseInv, RetryInv, NEW g \in Generators, Inspect(g)
  PROVE  RetryInv'
  <1>1. /\ disk' = disk /\ plan' = plan /\ cur' = cur /\ backup' = backup
        /\ pc[g] = "inspect" /\ \A h \in Generators \ {g} : pc'[h] = pc[h]
    BY DEF Inspect, Return, BaseInv, TypeOK
  <1>2. CASE last' = last /\ pc'[g] = "release"
    <2>1. \A h \in Generators : Working(h)' => Working(h)
      BY <1>1, <1>2 DEF Working
    <2> QED BY <1>1, <1>2, <2>1, RetryKept
  <1>3. CASE last' = plan[g] /\ ~Conflict(plan[g], disk["manifest"])
    <2>1. \A h \in Generators : backup[h] = "absent" /\ (h # g => ~Working(h)')
      BY <1>1, OthersIdle DEF BaseInv, BackupInv, Running, Working
    <2>2. ASSUME NEW f \in Paths PROVE Fine(plan[g], disk["manifest"], f, disk[f])
      <3>1. Kind(plan[g], disk["manifest"], f) # "manual-edit"
        BY <1>3 DEF Conflict, ProtectedKinds
      <3> QED BY <3>1 DEF Kind, ExpectedKind, PriorKind, UnmodifiedOwned, Fine
    <2>3. \A h \in Generators : Working(h)' => last' = plan'[h]
      BY <1>1, <1>3, <2>1
    <2> QED BY <1>1, <1>3, <2>1, <2>2, <2>3, AbsentIsFine DEF RetryInv, Fine, Owned
  <1> QED BY <1>2, <1>3 DEF Inspect, Return, BaseInv, TypeOK

LEMMA BackUpRetry ==
  ASSUME BaseInv, RetryInv, NEW g \in Generators, BackUp(g)
  PROVE  RetryInv'
  <1>1. /\ last' = last /\ plan' = plan /\ cur' = cur /\ pc[g] = "backup"
        /\ \A h \in Generators \ {g} : pc'[h] = pc[h] /\ backup'[h] = backup[h]
    BY DEF BackUp, Fails, Return, BaseInv, TypeOK, envVars
  <1>2. \A h \in Generators : Working(h)' => Working(h)
    BY <1>1 DEF Working
  <1>3. CASE disk' = disk /\ backup' = backup
    BY <1>1, <1>2, <1>3, RetryKept
  <1>4. CASE disk' = [disk EXCEPT ![cur[g]] = "absent"] /\ backup' = [backup EXCEPT ![g] = disk[cur[g]]]
    <2>1. /\ disk \in [Files -> FileContents \cup ManifestContents] /\ backup'[g] = disk[cur[g]]
          /\ cur[g] \in Paths \cup {"manifest"}
      BY <1>1, <1>4 DEF BaseInv, TypeOK, CurInv
    <2>2. \A h \in Generators \ {g} : backup[h] = "absent"
      BY <1>1, OthersIdle DEF Running
    <2>3. \A h \in Generators : Working(h)' => last' = plan'[h]
      BY <1>1, <1>2 DEF RetryInv
    <2>4. ASSUME last # "none", cur[g] = "manifest" PROVE RetryInv'
      <3>1. disk'["manifest"] = "absent" /\ \A f \in Paths : disk'[f] = disk[f]
        BY <1>4, <2>1, <2>4
      <3> QED BY <1>1, <2>1, <2>2, <2>3, <2>4, <3>1, AbsentIsFine DEF RetryInv, Fine, Owned
    <2>5. ASSUME last # "none", cur[g] \in Paths PROVE RetryInv'
      <3>1. /\ disk'["manifest"] = disk["manifest"] /\ disk'[cur[g]] = "absent"
            /\ \A f \in Paths \ {cur[g]} : disk'[f] = disk[f]
        BY <1>4, <2>1, <2>5
      <3> QED BY <1>1, <2>1, <2>2, <2>3, <2>5, <3>1, AbsentIsFine DEF RetryInv, Fine, Owned
    <2> QED BY <1>1, <2>1, <2>3, <2>4, <2>5 DEF RetryInv
  <1> QED BY <1>3, <1>4 DEF BackUp

LEMMA PromoteRetry ==
  ASSUME BaseInv, RetryInv, WorkInv, NEW g \in Generators, Promote(g)
  PROVE  RetryInv'
  <1>1. /\ last' = last /\ plan' = plan /\ cur' = cur /\ pc[g] = "promote"
        /\ \A h \in Generators \ {g} : pc'[h] = pc[h] /\ backup'[h] = backup[h]
        /\ backup'[g] \in {backup[g], "absent"}
    BY DEF Promote, NextFile, Fails, Return, BaseInv, TypeOK, envVars
  <1>2. \A h \in Generators : Working(h)' => Working(h)
    BY <1>1 DEF Working
  <1>3. CASE disk' = disk
    BY <1>1, <1>2, <1>3, RetryKept
  <1>4. ASSUME NEW c, disk' = [disk EXCEPT ![cur[g]] = c], c \in {backup[g], Expected(plan[g], cur[g])}
        PROVE  RetryInv'
    <2>1. disk \in [Files -> FileContents \cup ManifestContents] /\ cur[g] \in Paths \cup {"manifest"}
      BY <1>1 DEF BaseInv, TypeOK, CurInv
    <2>2. \A h \in Generators \ {g} : backup[h] = "absent"
      BY <1>1, OthersIdle DEF Running
    <2>3. \A h \in Generators : Working(h)' => last' = plan'[h]
      BY <1>1, <1>2 DEF RetryInv
    <2>4. last = plan[g] /\ plan[g] \in Plans /\ last # "none"
      BY <1>1 DEF RetryInv, Working, BaseInv, ValidInv, Running
    <2>5. CASE cur[g] = "manifest"
      <3>1. disk'["manifest"] = c /\ \A f \in Paths : disk'[f] = disk[f]
        BY <1>4, <2>1, <2>5
      <3>2. \A f \in Paths : Fine(last, c, f, disk[f])
        <4>1. CASE c = backup[g]
          BY <2>4, <2>5, <4>1 DEF RetryInv
        <4>2. CASE c = plan[g]
          BY <1>1, <2>4, <2>5, <4>2 DEF WorkInv, Last, Running, Fine, Owned
        <4> QED BY <1>4, <2>5, <4>1, <4>2 DEF Expected
      <3> QED BY <1>1, <2>2, <2>3, <2>4, <2>5, <3>1, <3>2, AbsentIsFine DEF RetryInv, Fine, Owned
    <2>6. CASE cur[g] \in Paths
      <3>1. /\ disk'["manifest"] = disk["manifest"] /\ disk'[cur[g]] = c
            /\ \A f \in Paths \ {cur[g]} : disk'[f] = disk[f]
        BY <1>4, <2>1, <2>6
      <3>2. Fine(last, disk["manifest"], cur[g], c)
        <4>1. CASE c = backup[g]
          BY <2>4, <2>6, <4>1 DEF RetryInv
        <4>2. CASE c = PlanOf[plan[g]][cur[g]]
          BY <2>4, <4>2 DEF Fine
        <4> QED BY <1>4, <2>6, <4>1, <4>2 DEF Expected
      <3> QED BY <1>1, <2>2, <2>3, <2>4, <2>6, <3>1, <3>2, AbsentIsFine DEF RetryInv, Fine, Owned
    <2> QED BY <2>1, <2>5, <2>6
  <1> QED BY <1>3, <1>4 DEF Promote

LEMMA UnlinkRetry ==
  ASSUME BaseInv, RetryInv, NEW g \in Generators, Unlink(g)
  PROVE  RetryInv'
  <1>1. /\ last' = last /\ plan' = plan /\ cur' = cur /\ backup' = backup /\ pc[g] = "unlink"
        /\ \A h \in Generators \ {g} : pc'[h] = pc[h]
    BY DEF Unlink, Fails, Return, BaseInv, TypeOK, envVars
  <1>2. \A h \in Generators : Working(h)' => Working(h)
    BY <1>1 DEF Working
  <1>3. CASE disk' = disk
    BY <1>1, <1>2, <1>3, RetryKept
  <1>4. CASE disk' = [disk EXCEPT ![cur[g]] = "absent"]
    <2>1. disk \in [Files -> FileContents \cup ManifestContents] /\ cur[g] \in Paths
      BY <1>1 DEF BaseInv, TypeOK, CurInv
    <2>2. \A h \in Generators : backup[h] = "absent"
      BY <1>1, OthersIdle DEF Running, BaseInv, BackupInv
    <2>3. /\ disk'["manifest"] = disk["manifest"] /\ disk'[cur[g]] = "absent"
          /\ \A f \in Paths \ {cur[g]} : disk'[f] = disk[f]
      BY <1>4, <2>1
    <2>4. \A h \in Generators : Working(h)' => last' = plan'[h]
      BY <1>1, <1>2 DEF RetryInv
    <2> QED BY <1>1, <2>1, <2>2, <2>3, <2>4, AbsentIsFine DEF RetryInv, Fine, Owned
  <1> QED BY <1>3, <1>4 DEF Unlink

\* The other steps change no file.
LEMMA OtherRetry ==
  ASSUME BaseInv, RetryInv, NEW g \in Generators,
         \/ AcquireLock(g) \/ WriteFile(g) \/ DropBackup(g) \/ CheckStale(g) \/ WriteManifest(g) \/ Release(g) \/ Crash(g)
  PROVE  RetryInv'
  <1>1. disk' = disk /\ last' = last
    BY DEF AcquireLock, WriteFile, DropBackup, CheckStale, WriteManifest, Release, Crash, envVars
  <1>2. /\ pc[g] \notin {"promote", "drop"} => backup[g] = "absent"
        /\ pc \in [Generators -> PCs] /\ plan \in [Generators -> Plans \cup {"none"}]
        /\ backup \in [Generators -> FileContents \cup ManifestContents] /\ cur \in [Generators -> Files \cup {"none"}]
    BY DEF BaseInv, BackupInv, TypeOK
  <1>3. \A h \in Generators \ {g} : pc'[h] = pc[h] /\ plan'[h] = plan[h] /\ backup'[h] = backup[h] /\ cur'[h] = cur[h]
    BY <1>2 DEF AcquireLock, WriteFile, Stage, DropBackup, NextFile, CheckStale, WriteManifest, Release, Crash, Fails, Return,
                Forget
  <1>4. CASE AcquireLock(g)
    <2>1. ~Working(g)' /\ backup'[g] = "absent"
      BY <1>2, <1>4 DEF AcquireLock, Working
    <2> QED BY <1>1, <1>3, <2>1, RetryKept DEF Working
  <1>5. CASE WriteFile(g) \/ CheckStale(g) \/ WriteManifest(g)
    <2>1. Working(g) /\ plan'[g] = plan[g] /\ backup'[g] = "absent"
      BY <1>2, <1>5 DEF WriteFile, CheckStale, WriteManifest, Working
    <2> QED BY <1>1, <1>3, <2>1, RetryKept DEF Working
  <1>6. CASE DropBackup(g)
    <2>1. Working(g) /\ plan'[g] = plan[g] /\ backup'[g] = "absent"
      BY <1>2, <1>6 DEF DropBackup, Working
    <2> QED BY <1>1, <1>3, <2>1, RetryKept DEF Working
  <1>7. CASE Release(g) \/ Crash(g)
    <2>1. ~Working(g)' /\ backup'[g] = "absent"
      BY <1>2, <1>7 DEF Release, Crash, Forget, Working
    <2> QED BY <1>1, <1>3, <2>1, RetryKept DEF Working
  <1> QED BY <1>4, <1>5, <1>6, <1>7

\* As long as nobody has edited, the plan that was applied last can be applied again and is not taken for a manual edit,
\* wherever the Apply before has failed or was killed.  Whether edits are allowed during Apply does not matter.
THEOREM RetriesAreNoManualEdits == Spec => []RetryIsNoManualEdit
  <1> DEFINE Quiet == edits = 0 => WorkInv /\ RetryInv
  <1>1. Init => Quiet
    BY InitWork DEF Init, RetryInv, Working
  <1>2. BaseInv /\ BaseInv' /\ Quiet /\ [Next]_vars => Quiet'
    <2> SUFFICES ASSUME BaseInv, BaseInv', Quiet, [Next]_vars, edits' = 0
                 PROVE  WorkInv' /\ RetryInv'
      OBVIOUS
    <2>1. edits \in Nat /\ edits' \in {edits, edits + 1} /\ (UserEdit => edits' = edits + 1)
      <3>1. edits \in Nat
        BY GenFSAssumption DEF BaseInv, TypeOK
      <3> QED BY <3>1 DEF Next, Step, AcquireLock, Inspect, WriteFile, BackUp, Promote, DropBackup, CheckStale, Unlink,
                          WriteManifest, Release, Crash, UserEdit, UserRemovesLock, vars, envVars
    <2>2. edits = 0 /\ ~UserEdit
      BY <2>1
    <2>3. WorkInv /\ RetryInv
      BY <2>2
    <2>4. WorkInv'
      BY <2>2, <2>3, QuietStepWork
    <2>5. CASE UserRemovesLock \/ UNCHANGED vars
      <3>1. disk' = disk /\ last' = last /\ pc' = pc /\ plan' = plan /\ backup' = backup /\ cur' = cur
        BY <2>5 DEF UserRemovesLock, vars, genVars, envVars
      <3>2. \A h \in Generators : Working(h)' => Working(h)
        BY <3>1 DEF Working
      <3> QED BY <2>3, <2>4, <3>1, <3>2, RetryKept
    <2> QED BY <2>2, <2>3, <2>4, <2>5, InspectRetry, BackUpRetry, PromoteRetry, UnlinkRetry, OtherRetry DEF Next, Step
  <1>3. BaseInv /\ Quiet => RetryIsNoManualEdit
    <2> SUFFICES ASSUME BaseInv, Quiet, last # "none", edits = 0, NEW f \in Paths
                 PROVE  Kind(last, disk["manifest"], f) # "manual-edit"
      BY DEF RetryIsNoManualEdit
    <2>1. Fine(last, disk["manifest"], f, disk[f])
      BY DEF RetryInv
    <2>2. Owned(disk["manifest"], f) # "absent" => HasMarker(Owned(disk["manifest"], f))
      BY DEF BaseInv, ValidInv, ValidPlan, Owned, HasMarker
    <2> QED BY <2>1, <2>2 DEF Kind, ExpectedKind, PriorKind, UnmodifiedOwned, UnexpectedKind, Fine
  <1> HIDE DEF Quiet
  <1> QED BY <1>1, <1>2, <1>3, BaseInvariance, PTL DEF Spec
=============================================================================
