----------------------------- MODULE ProjectProofs -----------------------------
(***************************************************************************)
(* Proofs about what spice does to the files of a project: the creation of *)
(* a project or a declaration never touches a file of the user, and the    *)
(* changes of go.mod lose no edit of the user, whenever the user writes,   *)
(* however many workers there are and whichever operation fails, and are   *)
(* made to both files or to none.  And about its other commands: they      *)
(* leave nothing behind, their exit codes are true, and the two lookups of *)
(* spice generated agree.                                                  *)
(***************************************************************************)
EXTENDS Project, SequenceTheorems, TLAPS

-----------------------------------------------------------------------------
(* Creation of projects and declarations.                                  *)

NewFiles == RangeOf(Plan(TRUE)) \cup RangeOf(Plan(FALSE))
DeclarationFiles == {DeclarationFile("module"), DeclarationFile("service")}

\* The files that a command would remove if it failed now.
Held ==
  IF creation.step = "write" THEN creation.created
  ELSE IF creation.step = "undo" THEN creation.left ELSE <<>>

\* A new project creates its own files, a declaration its own.
CommandInv ==
  /\ creation = [job |-> creation.job, plan |-> creation.plan, step |-> creation.step, left |-> creation.left,
                 created |-> creation.created, made |-> creation.made, ownRoot |-> creation.ownRoot]
  /\ creation.step \in {"idle", "prepare", "write", "undo", "created", "failed"}
  /\ clean \in BOOLEAN
  /\ creation.job \in {"none", "new", "declare"}
  /\ creation.job = "none" => creation.step = "idle"
  /\ creation.job = "declare" => creation.step # "write" /\ Declaration \in DeclarationFiles
  /\ creation.job = "new" /\ creation.step = "prepare" => creation.left \in Seq(NewFiles) /\ creation.created = <<>>
  /\ creation.step = "write" => creation.left \in Seq(NewFiles) /\ creation.created \in Seq(NewFiles)
  /\ creation.step = "undo" => creation.left \in Seq(NewFiles \cup DeclarationFiles)

\* The tree holds directories, files that were created here and files of the user.
TreeInv ==
  /\ tree \in [DOMAIN tree -> {"dir", "scaffold", "user"}]
  /\ \A path \in mine : There(path) /\ tree[path] = "user"

\* What the command would remove it has created, once.
HeldInv ==
  /\ \A i \in 1..Len(Held) : There(Held[i]) /\ tree[Held[i]] = "scaffold"
  /\ \A i, j \in 1..Len(Held) : i # j => Held[i] # Held[j]

\* And it has created nothing else, unless a removal has failed.
OwnInv ==
  /\ creation.job # "declare" => \A path \in DeclarationFiles : There(path) => tree[path] # "scaffold"
  /\ creation.job # "declare" /\ clean /\ creation.step # "created" =>
       \A path \in DOMAIN tree : tree[path] = "scaffold" => \E i \in 1..Len(Held) : Held[i] = path
  /\ creation.job = "declare" /\ clean /\ creation.step # "created" =>
       (There(Declaration) /\ tree[Declaration] = "scaffold" => \E i \in 1..Len(Held) : Held[i] = Declaration)

ScaffoldInv == CommandInv /\ TreeInv /\ HeldInv /\ OwnInv

-----------------------------------------------------------------------------

\* No declaration has the path of a file of a new project.
LEMMA FilesDiffer ==
  /\ Plan(TRUE) \in Seq(NewFiles) /\ Plan(FALSE) \in Seq(NewFiles)
  /\ NewFiles \cap DeclarationFiles = {}
  <1>1. Plan(TRUE) \in Seq(NewFiles) /\ Plan(FALSE) \in Seq(NewFiles)
    BY DEF Plan, NewFiles, RangeOf
  <1>2. \A i \in DOMAIN Plan(TRUE) : Plan(TRUE)[i] \notin DeclarationFiles
    BY DEF Plan, DeclarationFiles, DeclarationFile
  <1>3. \A i \in DOMAIN Plan(FALSE) : Plan(FALSE)[i] \notin DeclarationFiles
    BY DEF Plan, DeclarationFiles, DeclarationFile
  <1> QED BY <1>1, <1>2, <1>3 DEF NewFiles, RangeOf

\* Files stay as they are; directories may come and go.
OnlyDirectories ==
  /\ tree' \in [DOMAIN tree' -> {"dir", "scaffold", "user"}]
  /\ \A q \in DOMAIN tree : tree[q] # "dir" => q \in DOMAIN tree' /\ tree'[q] = tree[q]
  /\ \A q \in DOMAIN tree' : tree'[q] # "dir" => q \in DOMAIN tree /\ tree[q] = tree'[q]

\* One file is added, and directories.
AddsFile(path, what) ==
  /\ path \notin DOMAIN tree /\ path \in DOMAIN tree' /\ tree'[path] = what
  /\ tree' \in [DOMAIN tree' -> {"dir", "scaffold", "user"}]
  /\ \A q \in DOMAIN tree : tree[q] # "dir" => q \in DOMAIN tree' /\ tree'[q] = tree[q]
  /\ \A q \in DOMAIN tree' : q # path /\ tree'[q] # "dir" => q \in DOMAIN tree /\ tree[q] = tree'[q]

\* The operators on trees.
LEMMA SameTree ==
  ASSUME TreeInv, tree' = tree
  PROVE  OnlyDirectories
  BY DEF TreeInv, OnlyDirectories

LEMMA WithDirectory ==
  ASSUME TreeInv, NEW path, ~There(path), tree' = With(tree, path, "dir")
  PROVE  OnlyDirectories
  BY DEF TreeInv, OnlyDirectories, With, There

LEMMA WithParents ==
  ASSUME TreeInv, NEW path, tree' = Ensured(tree, path)
  PROVE  OnlyDirectories
  <1>1. DOMAIN tree' = DOMAIN tree \cup Parents(path)
    BY DEF Ensured
  <1>2. \A q \in DOMAIN tree' : tree'[q] = IF q \in DOMAIN tree THEN tree[q] ELSE "dir"
    BY DEF Ensured
  <1>3. tree' = [q \in DOMAIN tree' |-> tree'[q]]
    BY DEF Ensured
  <1> QED BY <1>1, <1>2, <1>3 DEF TreeInv, OnlyDirectories

LEMMA WithFile ==
  ASSUME TreeInv, NEW path, ~There(path), NEW what \in {"scaffold", "user"}, tree' = With(tree, path, what)
  PROVE  AddsFile(path, what)
  BY DEF TreeInv, AddsFile, With, There

LEMMA WithParentsAndFile ==
  ASSUME TreeInv, NEW path, ~There(path), tree' = With(Ensured(tree, path), path, "scaffold")
  PROVE  AddsFile(path, "scaffold")
  <1>1. DOMAIN tree' = DOMAIN tree \cup Parents(path) \cup {path}
    BY DEF Ensured, With
  <1>2. \A q \in DOMAIN tree' : tree'[q] = IF q = path THEN "scaffold" ELSE IF q \in DOMAIN tree THEN tree[q] ELSE "dir"
    BY DEF Ensured, With
  <1>3. tree' = [q \in DOMAIN tree' |-> tree'[q]]
    BY DEF Ensured, With
  <1> QED BY <1>1, <1>2, <1>3 DEF TreeInv, AddsFile, There

LEMMA DirectoryRemoved ==
  ASSUME TreeInv, NEW path, NEW ok \in BOOLEAN, RemoveDirectory(path, ok)
  PROVE  OnlyDirectories
  <1>1. CASE ok /\ Removable(path)
    <2>1. tree' = Without(tree, path) /\ tree[path] = "dir"
      BY <1>1 DEF RemoveDirectory, Removable, IsDir
    <2> QED BY <2>1 DEF TreeInv, OnlyDirectories, Without
  <1>2. CASE ~(ok /\ Removable(path))
    BY <1>2, SameTree DEF RemoveDirectory
  <1> QED BY <1>1, <1>2

\* The files of the user are kept.
LEMMA TreeKept ==
  ASSUME TreeInv, mine' = mine,
         OnlyDirectories \/ \E path : AddsFile(path, "scaffold")
  PROVE  TreeInv'
  BY DEF TreeInv, OnlyDirectories, AddsFile, There

\* What is held stays what it is.
LEMMA HeldKept ==
  ASSUME HeldInv, OnlyDirectories, Held' = Held \/ Held' = <<>>
  PROVE  HeldInv'
  <1>1. CASE Held' = <<>>
    BY <1>1 DEF HeldInv
  <1>2. CASE Held' = Held
    BY <1>2 DEF HeldInv, OnlyDirectories, There
  <1> QED BY <1>1, <1>2

\* A command without files to remove has created none.
LEMMA OwnKept ==
  ASSUME OwnInv, OnlyDirectories, Held' = Held,
         creation'.job = creation.job, creation'.plan = creation.plan, clean' => clean,
         creation.step = "created" => creation'.step = "created"
  PROVE  OwnInv'
  BY DEF OwnInv, OnlyDirectories, There, Declaration

\* The literals of creation.
Shaped(c) ==
  c = [job |-> c.job, plan |-> c.plan, step |-> c.step, left |-> c.left,
       created |-> c.created, made |-> c.made, ownRoot |-> c.ownRoot]

\* A command that ends holds nothing.
LEMMA OverEffect ==
  ASSUME NEW outcome, Over(outcome)
  PROVE  /\ Shaped(creation') /\ creation'.job = creation.job /\ creation'.plan = creation.plan
         /\ creation'.step = outcome
  BY DEF Over, Step, NoCreation, Shaped

LEMMA NewCommandKeeps ==
  ASSUME ScaffoldInv, NEW parses \in BOOLEAN, NEW structured \in BOOLEAN, NEW config,
         NewCommand(parses, config, structured)
  PROVE  ScaffoldInv'
  <1>1. /\ creation.job = "none" /\ tree' = tree /\ mine' = mine /\ clean' = clean
        /\ creation' = IF parses /\ ValidConfig(config)
          THEN [NoCreation EXCEPT !.job = "new", !.plan = Plan(structured), !.step = "prepare", !.left = Plan(structured)]
          ELSE [NoCreation EXCEPT !.job = "new", !.step = "failed"]
    BY DEF NewCommand, Step
  <1>2. /\ Shaped(creation') /\ creation'.job = "new" /\ creation'.created = <<>>
        /\ \/ creation'.step = "prepare" /\ creation'.left = Plan(structured)
           \/ creation'.step = "failed"
    BY <1>1 DEF NoCreation, Shaped
  <1>3. Plan(structured) \in Seq(NewFiles)
    BY FilesDiffer
  <1>4. CommandInv'
    BY <1>1, <1>2, <1>3 DEF ScaffoldInv, CommandInv, Shaped
  <1>5. Held = <<>> /\ Held' = <<>>
    BY <1>1, <1>2 DEF Held, ScaffoldInv, CommandInv
  <1>6. OnlyDirectories
    BY <1>1, SameTree DEF ScaffoldInv
  <1>7. TreeInv' /\ HeldInv'
    BY <1>1, <1>5, <1>6, TreeKept, HeldKept DEF ScaffoldInv
  <1>8. OwnInv'
    BY <1>1, <1>2, <1>5 DEF ScaffoldInv, CommandInv, OwnInv, There
  <1> QED BY <1>4, <1>7, <1>8 DEF ScaffoldInv

\* A step after which the command is over, or goes on with what it held.
LEMMA DirectoryStep ==
  ASSUME ScaffoldInv, CommandInv', OnlyDirectories, mine' = mine, clean' => clean, Held' = Held,
         creation'.job = creation.job, creation'.plan = creation.plan,
         creation.step = "created" => creation'.step = "created"
  PROVE  ScaffoldInv'
  BY TreeKept, HeldKept, OwnKept DEF ScaffoldInv

LEMMA PrepareDirectoryKeeps ==
  ASSUME ScaffoldInv, NEW ok \in BOOLEAN, NEW opens \in BOOLEAN, PrepareDirectory(ok, opens)
  PROVE  ScaffoldInv'
  <1>1. /\ creation.job = "new" /\ creation.step = "prepare" /\ mine' = mine /\ clean' = clean
        /\ \/ tree' = tree /\ (To("write") \/ Over("failed"))
           \/ /\ ~There(Root) /\ tree' = With(tree, Root, "dir")
              /\ creation' = [creation EXCEPT !.step = "write", !.ownRoot = TRUE]
    BY DEF PrepareDirectory, Step
  <1>2. OnlyDirectories
    BY <1>1, SameTree, WithDirectory DEF ScaffoldInv
  <1>3. Shaped(creation) /\ creation.left \in Seq(NewFiles) /\ creation.created = <<>>
    BY <1>1 DEF ScaffoldInv, CommandInv, Shaped
  <1>4. CASE Over("failed")
    <2>1. Held' = Held
      BY <1>1, <1>4, OverEffect DEF Held
    <2>2. CommandInv'
      BY <1>1, <1>4, OverEffect DEF ScaffoldInv, CommandInv, Shaped
    <2> QED BY <1>1, <1>2, <1>4, <2>1, <2>2, OverEffect, DirectoryStep
  <1>5. CASE ~Over("failed")
    <2>1. /\ Shaped(creation') /\ creation'.job = "new" /\ creation'.plan = creation.plan
          /\ creation'.step = "write" /\ creation'.left = creation.left /\ creation'.created = <<>>
      BY <1>1, <1>3, <1>5 DEF To, Step, Shaped
    <2>2. Held' = Held
      BY <1>1, <2>1 DEF Held
    <2>3. CommandInv'
      BY <1>1, <1>3, <2>1 DEF ScaffoldInv, CommandInv, Shaped
    <2> QED BY <1>1, <1>2, <2>1, <2>2, <2>3, DirectoryStep
  <1> QED BY <1>4, <1>5

\* A file that is created is held from then on.
LEMMA FileHeld ==
  ASSUME HeldInv, NEW S, Held \in Seq(S), NEW path \in S, AddsFile(path, "scaffold"), Held' = Append(Held, path)
  PROVE  /\ HeldInv'
         /\ \A q : (\E i \in 1..Len(Held) : Held[i] = q) \/ q = path => \E i \in 1..Len(Held)' : Held'[i] = q
  <1>1. /\ Len(Held) \in Nat /\ Len(Held)' = Len(Held) + 1 /\ Held'[Len(Held) + 1] = path
        /\ \A i \in 1..Len(Held) : Held'[i] = Held[i]
    BY AppendProperties
  <1>2. \A i \in 1..Len(Held)' : i \in 1..Len(Held) \/ i = Len(Held) + 1
    BY <1>1
  <1>3. ASSUME NEW i \in 1..Len(Held)' PROVE There(Held[i])' /\ tree'[Held'[i]] = "scaffold"
    BY <1>1, <1>2 DEF HeldInv, AddsFile, There
  <1>4. ASSUME NEW i \in 1..Len(Held)', NEW j \in 1..Len(Held)', i # j PROVE Held'[i] # Held'[j]
    BY <1>1, <1>2, <1>4 DEF HeldInv, AddsFile, There
  <1>5. HeldInv'
    BY <1>3, <1>4 DEF HeldInv, There
  <1>6. ASSUME NEW q, (\E i \in 1..Len(Held) : Held[i] = q) \/ q = path
        PROVE  \E i \in 1..Len(Held)' : Held'[i] = q
    <2>1. CASE q = path
      BY <1>1, <2>1
    <2>2. CASE \E i \in 1..Len(Held) : Held[i] = q
      BY <1>1, <2>2
    <2> QED BY <1>6, <2>1, <2>2
  <1> QED BY <1>5, <1>6

LEMMA WriteFileKeeps ==
  ASSUME ScaffoldInv, NEW created \in BOOLEAN, NEW written \in BOOLEAN, WriteFile(created, written)
  PROVE  ScaffoldInv'
  <1> DEFINE path == Head(creation.left)
  <1>1. /\ creation.job = "new" /\ creation.step = "write" /\ creation.left # <<>>
        /\ written => created
        /\ created => ~There(path)
        /\ tree' = IF created THEN With(Ensured(tree, path), path, "scaffold")
                   ELSE IF CanEnsure(path) THEN Ensured(tree, path) ELSE tree
        /\ mine' = mine /\ clean' = clean
    BY DEF WriteFile, Creates
  <1>2. IF written THEN creation' = [creation EXCEPT !.left = Tail(@), !.created = Append(@, path)]
        ELSE creation' = [creation EXCEPT !.step = "undo", !.created = IF created THEN Append(@, path) ELSE @,
                                !.left = IF created THEN Append(creation.created, path) ELSE creation.created]
    BY DEF WriteFile, Step
  <1>3. Shaped(creation) /\ creation.left \in Seq(NewFiles) /\ creation.created \in Seq(NewFiles)
    BY <1>1 DEF ScaffoldInv, CommandInv, Shaped
  <1>4. path \in NewFiles /\ Tail(creation.left) \in Seq(NewFiles)
    BY <1>1, <1>3
  <1>5. Append(creation.created, path) \in Seq(NewFiles)
    BY <1>3, <1>4, AppendProperties
  <1> HIDE DEF path
  <1>6. /\ Shaped(creation') /\ creation'.job = "new" /\ creation'.plan = creation.plan
        /\ written => /\ creation'.step = "write" /\ creation'.left = Tail(creation.left)
                      /\ creation'.created = Append(creation.created, path)
        /\ ~written => /\ creation'.step = "undo"
                       /\ creation'.left = IF created THEN Append(creation.created, path) ELSE creation.created
    BY <1>1, <1>2, <1>3 DEF Shaped
  <1>7. CommandInv'
    <2>1. creation'.step = "undo" => creation'.left \in Seq(NewFiles \cup DeclarationFiles)
      <3>1. \A s \in Seq(NewFiles) : s \in Seq(NewFiles \cup DeclarationFiles)
        BY SeqMonotonic
      <3> QED BY <1>3, <1>5, <1>6, <3>1
    <2> QED BY <1>1, <1>3, <1>4, <1>5, <1>6, <2>1 DEF ScaffoldInv, CommandInv, Shaped
  <1>8. Held = creation.created /\ Held' = IF created THEN Append(Held, path) ELSE Held
    BY <1>1, <1>6 DEF Held
  <1>9. CASE ~created
    <2>1. OnlyDirectories
      BY <1>1, <1>9, SameTree, WithParents DEF ScaffoldInv
    <2> QED BY <1>1, <1>6, <1>7, <1>8, <1>9, <2>1, DirectoryStep
  <1>10. CASE created
    <2>1. AddsFile(path, "scaffold")
      BY <1>1, <1>10, WithParentsAndFile DEF ScaffoldInv
    <2>2. TreeInv'
      BY <1>1, <2>1, TreeKept DEF ScaffoldInv
    <2>3. /\ HeldInv'
          /\ \A q : (\E i \in 1..Len(Held) : Held[i] = q) \/ q = path => \E i \in 1..Len(Held)' : Held'[i] = q
      BY <1>3, <1>4, <1>8, <1>10, <2>1, FileHeld DEF ScaffoldInv
    <2>4. path \notin DeclarationFiles
      BY <1>4, FilesDiffer
    <2>5. OwnInv'
      <3>1. \A q \in DeclarationFiles : There(q)' => tree'[q] # "scaffold"
        BY <1>1, <2>1, <2>4 DEF ScaffoldInv, OwnInv, AddsFile, There
      <3>2. ASSUME clean', NEW q \in DOMAIN tree', tree'[q] = "scaffold"
            PROVE  \E i \in 1..Len(Held)' : Held'[i] = q
        <4>1. q = path \/ (q \in DOMAIN tree /\ tree[q] = "scaffold")
          BY <2>1, <3>2 DEF AddsFile
        <4>2. q = path \/ \E i \in 1..Len(Held) : Held[i] = q
          BY <1>1, <3>2, <4>1 DEF ScaffoldInv, OwnInv
        <4> QED BY <2>3, <4>2
      <3> QED BY <1>6, <3>1, <3>2 DEF OwnInv, There
    <2> QED BY <1>7, <2>2, <2>3, <2>5 DEF ScaffoldInv
  <1> QED BY <1>9, <1>10

LEMMA VerifyKeeps ==
  ASSUME ScaffoldInv, NEW ok \in BOOLEAN, Verify(ok)
  PROVE  ScaffoldInv'
  <1>1. /\ creation.job = "new" /\ creation.step = "write"
        /\ Over("created") \/ creation' = [creation EXCEPT !.step = "undo", !.left = creation.created]
        /\ tree' = tree /\ mine' = mine /\ clean' = clean
    BY DEF Verify, Undo, Step
  <1>2. Shaped(creation) /\ creation.created \in Seq(NewFiles)
    BY <1>1 DEF ScaffoldInv, CommandInv, Shaped
  <1>3. OnlyDirectories
    BY <1>1, SameTree DEF ScaffoldInv
  <1>4. CASE Over("created")
    <2>1. Shaped(creation') /\ creation'.job = "new" /\ creation'.plan = creation.plan /\ creation'.step = "created"
      BY <1>1, <1>4, OverEffect
    <2>2. CommandInv'
      BY <1>1, <2>1 DEF ScaffoldInv, CommandInv, Shaped
    <2>3. Held' = <<>>
      BY <2>1 DEF Held
    <2>4. TreeInv' /\ HeldInv'
      BY <1>1, <1>3, <2>3, TreeKept, HeldKept DEF ScaffoldInv
    <2>5. OwnInv'
      BY <1>1, <2>1 DEF ScaffoldInv, OwnInv, There
    <2> QED BY <2>2, <2>4, <2>5 DEF ScaffoldInv
  <1>5. CASE creation' = [creation EXCEPT !.step = "undo", !.left = creation.created]
    <2>1. /\ Shaped(creation') /\ creation'.job = "new" /\ creation'.plan = creation.plan
          /\ creation'.step = "undo" /\ creation'.left = creation.created
      BY <1>1, <1>2, <1>5 DEF Shaped
    <2>2. creation'.left \in Seq(NewFiles \cup DeclarationFiles)
      <3>1. \A s \in Seq(NewFiles) : s \in Seq(NewFiles \cup DeclarationFiles)
        BY SeqMonotonic
      <3> QED BY <1>2, <2>1, <3>1
    <2>3. CommandInv'
      BY <1>1, <2>1, <2>2 DEF ScaffoldInv, CommandInv, Shaped
    <2>4. Held' = Held
      BY <1>1, <2>1 DEF Held
    <2> QED BY <1>1, <1>3, <2>1, <2>3, <2>4, DirectoryStep
  <1> QED BY <1>1, <1>4, <1>5

\* The last file that is held is removed, or stays because it cannot be removed.
LEMMA UndoFileKeeps ==
  ASSUME ScaffoldInv, NEW ok \in BOOLEAN, UndoFile(ok)
  PROVE  ScaffoldInv'
  <1> DEFINE n == Len(creation.left)
             path == creation.left[n]
             rest == SubSeq(creation.left, 1, n - 1)
  <1>1. /\ creation.step = "undo" /\ creation.left # <<>>
        /\ tree' = IF ok /\ There(path) THEN Without(tree, path) ELSE tree
        /\ clean' = (clean /\ ok) /\ mine' = mine
        /\ creation' = [creation EXCEPT !.left = rest]
    BY DEF UndoFile, Step
  <1>2. Shaped(creation) /\ creation.left \in Seq(NewFiles \cup DeclarationFiles)
    BY <1>1 DEF ScaffoldInv, CommandInv, Shaped
  <1>3. /\ n \in Nat /\ n >= 1 /\ rest \in Seq(NewFiles \cup DeclarationFiles) /\ Len(rest) = n - 1
        /\ \A i \in 1..(n - 1) : rest[i] = creation.left[i]
    <2>1. n \in Nat /\ n >= 1 /\ \A i \in 1..n : creation.left[i] \in NewFiles \cup DeclarationFiles
      BY <1>1, <1>2
    <2>2. n - 1 \in Int /\ 1 \in Int /\ \A i \in 1..(n - 1) : creation.left[i] \in NewFiles \cup DeclarationFiles
      BY <2>1
    <2> HIDE DEF n
    <2>3. /\ rest \in Seq(NewFiles \cup DeclarationFiles)
          /\ Len(rest) = IF 1 <= n - 1 THEN (n - 1) - 1 + 1 ELSE 0
          /\ \A i \in 1..((n - 1) - 1 + 1) : rest[i] = creation.left[1 + i - 1]
      BY <2>2, SubSeqProperties
    <2> QED BY <2>1, <2>3
  <1> HIDE DEF rest
  <1>4. /\ Shaped(creation') /\ creation'.job = creation.job /\ creation'.plan = creation.plan
        /\ creation'.step = "undo" /\ creation'.left = rest
    BY <1>1, <1>2 DEF Shaped
  <1>5. CommandInv'
    <2>1. clean' \in BOOLEAN
      BY <1>1, Zenon DEF ScaffoldInv, CommandInv
    <2>2. Declaration' = Declaration
      BY <1>4 DEF Declaration
    <2> QED BY <1>1, <1>3, <1>4, <2>1, <2>2 DEF ScaffoldInv, CommandInv, Shaped
  <1>6. Held = creation.left /\ Held' = rest /\ Len(Held) = n /\ Len(Held)' = n - 1
    BY <1>1, <1>3, <1>4 DEF Held
  <1>7. There(path) /\ tree[path] = "scaffold" /\ \A i \in 1..(n - 1) : creation.left[i] # path
    BY <1>3, <1>6 DEF ScaffoldInv, HeldInv
  <1> HIDE DEF n, path
  <1>8. /\ tree' \in [DOMAIN tree' -> {"dir", "scaffold", "user"}]
        /\ \A q \in DOMAIN tree : q # path => q \in DOMAIN tree' /\ tree'[q] = tree[q]
        /\ \A q \in DOMAIN tree' : q \in DOMAIN tree /\ tree'[q] = tree[q]
        /\ ok => path \notin DOMAIN tree'
    <2>1. CASE ok
      <3>1. tree' = Without(tree, path)
        BY <1>1, <1>7, <2>1
      <3> QED BY <3>1, <2>1 DEF ScaffoldInv, TreeInv, Without
    <2>2. CASE ~ok
      BY <1>1, <2>2 DEF ScaffoldInv, TreeInv
    <2> QED BY <2>1, <2>2
  <1>9. TreeInv'
    BY <1>1, <1>7, <1>8 DEF ScaffoldInv, TreeInv, There
  <1>10. HeldInv'
    <2>1. ASSUME NEW i \in 1..(n - 1)
          PROVE  /\ rest[i] = creation.left[i] /\ rest[i] # path /\ There(rest[i]) /\ tree[rest[i]] = "scaffold"
      BY <1>3, <1>6, <1>7 DEF ScaffoldInv, HeldInv
    <2>2. ASSUME NEW i \in 1..(n - 1), NEW j \in 1..(n - 1), i # j PROVE rest[i] # rest[j]
      BY <1>3, <1>6, <2>2 DEF ScaffoldInv, HeldInv
    <2> QED BY <1>6, <1>8, <2>1, <2>2 DEF HeldInv, There
  <1>11. OwnInv'
    <2>1. clean' => clean /\ path \notin DOMAIN tree'
      BY <1>1, <1>8
    <2>2. ASSUME NEW q \in DOMAIN tree', q # path, \E i \in 1..Len(Held) : Held[i] = q
          PROVE  \E i \in 1..Len(Held)' : Held'[i] = q
      BY <1>3, <1>6, <2>2 DEF path
    <2>3. Declaration' = Declaration
      BY <1>4 DEF Declaration
    <2> QED BY <1>1, <1>4, <1>8, <2>1, <2>2, <2>3 DEF ScaffoldInv, OwnInv, There
  <1> QED BY <1>5, <1>9, <1>10, <1>11 DEF ScaffoldInv

\* The end of a rollback, in which nothing is held any more.
LEMMA OverKeeps ==
  ASSUME ScaffoldInv, Over("failed"), OnlyDirectories, mine' = mine, clean' \in BOOLEAN, clean' => clean,
         creation.job # "none", creation.step = "undo", creation.left = <<>>
  PROVE  ScaffoldInv'
  <1>1. /\ Shaped(creation') /\ creation'.job = creation.job /\ creation'.plan = creation.plan
        /\ creation'.step = "failed"
    BY OverEffect
  <1>2. Declaration' = Declaration
    BY <1>1 DEF Declaration
  <1>3. CommandInv'
    BY <1>1, <1>2 DEF ScaffoldInv, CommandInv, Shaped
  <1>4. Held' = Held
    BY <1>1 DEF Held
  <1> QED BY <1>1, <1>3, <1>4, DirectoryStep

\* The removal of a directory never changes clean for the better.
LEMMA CleanKept ==
  ASSUME ScaffoldInv, NEW path, NEW ok \in BOOLEAN, RemoveDirectory(path, ok)
  PROVE  clean' \in BOOLEAN /\ (clean' => clean) /\ OnlyDirectories
  <1>1. clean' = (clean /\ (~There(path) \/ (ok /\ Removable(path))))
    BY DEF RemoveDirectory
  <1>2. clean' \in BOOLEAN /\ (clean' => clean)
    BY <1>1, Zenon DEF ScaffoldInv, CommandInv
  <1> QED BY <1>2, DirectoryRemoved DEF ScaffoldInv

LEMMA UndoDirectoryKeeps ==
  ASSUME ScaffoldInv, NEW path, NEW ok \in BOOLEAN, UndoDirectory(path, ok)
  PROVE  ScaffoldInv'
  <1>1. /\ creation.job = "new" /\ creation.step = "undo" /\ creation.left = <<>>
        /\ RemoveDirectory(path, ok) /\ mine' = mine
        /\ creation' = [creation EXCEPT !.made = Append(@, path)]
    BY DEF UndoDirectory, Step
  <1>2. clean' \in BOOLEAN /\ (clean' => clean) /\ OnlyDirectories
    BY <1>1, CleanKept
  <1>3. /\ Shaped(creation') /\ creation'.job = "new" /\ creation'.plan = creation.plan
        /\ creation'.step = "undo" /\ creation'.left = <<>>
    BY <1>1 DEF ScaffoldInv, CommandInv, Shaped
  <1>4. CommandInv'
    BY <1>1, <1>2, <1>3 DEF ScaffoldInv, CommandInv, Shaped
  <1>5. Held' = Held
    BY <1>1, <1>3 DEF Held
  <1> QED BY <1>1, <1>2, <1>3, <1>4, <1>5, DirectoryStep

LEMMA UndoRootKeeps ==
  ASSUME ScaffoldInv, NEW ok \in BOOLEAN, UndoRoot(ok)
  PROVE  ScaffoldInv'
  <1>1. /\ creation.job = "new" /\ creation.step = "undo" /\ creation.left = <<>>
        /\ RemoveDirectory(Root, ok) \/ (tree' = tree /\ clean' = clean)
        /\ Over("failed") /\ mine' = mine
    BY DEF UndoRoot
  <1>2. clean' \in BOOLEAN /\ (clean' => clean) /\ OnlyDirectories
    <2>1. CASE RemoveDirectory(Root, ok)
      BY <2>1, CleanKept
    <2>2. CASE tree' = tree /\ clean' = clean
      BY <2>2, SameTree DEF ScaffoldInv, CommandInv
    <2> QED BY <1>1, <2>1, <2>2
  <1> QED BY <1>1, <1>2, OverKeeps

LEMMA DeclarationCommandKeeps ==
  ASSUME ScaffoldInv, NEW config, NEW kind \in {"module", "service"}, DeclarationCommand(config, kind)
  PROVE  ScaffoldInv'
  <1> DEFINE path == DeclarationFile(kind)
  <1>1. /\ creation.job # "declare" /\ creation.step \in {"idle", "created", "failed"}
        /\ tree' = tree /\ mine' = mine /\ clean' = clean
        /\ \/ \E missing : creation' = [NoCreation EXCEPT !.job = "declare", !.plan = <<path>>, !.step = "prepare",
                                                         !.left = missing]
           \/ creation' = [NoCreation EXCEPT !.job = "declare", !.plan = <<path>>, !.step = "failed"]
    BY DEF DeclarationCommand, Step
  <1>2. path \in DeclarationFiles
    BY DEF DeclarationFiles
  <1> HIDE DEF path
  <1>3. /\ Shaped(creation') /\ creation'.job = "declare" /\ creation'.plan = <<path>>
        /\ creation'.step \in {"prepare", "failed"}
    BY <1>1 DEF NoCreation, Shaped
  <1>4. Declaration' = path
    BY <1>3 DEF Declaration
  <1>5. CommandInv'
    BY <1>1, <1>2, <1>3, <1>4 DEF ScaffoldInv, CommandInv, Shaped
  <1>6. Held' = <<>>
    BY <1>3 DEF Held
  <1>7. TreeInv' /\ HeldInv'
    BY <1>1, <1>6, SameTree, TreeKept, HeldKept DEF ScaffoldInv
  <1>8. OwnInv'
    BY <1>1, <1>2, <1>3, <1>4 DEF ScaffoldInv, OwnInv, There
  <1> QED BY <1>5, <1>7, <1>8 DEF ScaffoldInv

LEMMA MakeDirectoryKeeps ==
  ASSUME ScaffoldInv, NEW ok \in BOOLEAN, MakeDirectory(ok)
  PROVE  ScaffoldInv'
  <1> DEFINE path == Head(creation.left)
  <1>1. /\ creation.job = "declare" /\ creation.step = "prepare" /\ mine' = mine /\ clean' = clean
        /\ \/ /\ ~There(path) /\ tree' = With(tree, path, "dir")
              /\ creation' = [creation EXCEPT !.left = Tail(@), !.made = Append(@, path)]
           \/ tree' = tree /\ creation' = [creation EXCEPT !.step = "undo", !.left = <<>>]
    BY DEF MakeDirectory, Step
  <1> HIDE DEF path
  <1>2. OnlyDirectories
    BY <1>1, SameTree, WithDirectory DEF ScaffoldInv
  <1>3. /\ Shaped(creation') /\ creation'.job = "declare" /\ creation'.plan = creation.plan
        /\ creation'.step = "prepare" \/ (creation'.step = "undo" /\ creation'.left = <<>>)
    BY <1>1 DEF ScaffoldInv, CommandInv, Shaped
  <1>4. Declaration' = Declaration
    BY <1>3 DEF Declaration
  <1>5. creation'.step = "undo" => creation'.left \in Seq(NewFiles \cup DeclarationFiles)
    <2>1. <<>> \in Seq(NewFiles \cup DeclarationFiles)
      OBVIOUS
    <2> QED BY <1>3, <2>1
  <1>6. CommandInv'
    BY <1>1, <1>3, <1>4, <1>5 DEF ScaffoldInv, CommandInv, Shaped
  <1>7. Held' = Held
    BY <1>1, <1>3 DEF Held
  <1> QED BY <1>1, <1>2, <1>3, <1>6, <1>7, DirectoryStep

LEMMA UndoMadeKeeps ==
  ASSUME ScaffoldInv, NEW ok \in BOOLEAN, UndoMade(ok)
  PROVE  ScaffoldInv'
  <1> DEFINE path == creation.made[Len(creation.made)]
  <1>1. /\ creation.job = "declare" /\ creation.step = "undo" /\ creation.left = <<>> /\ mine' = mine
        /\ \/ Over("failed") /\ tree' = tree /\ clean' = clean
           \/ /\ RemoveDirectory(path, ok)
              /\ creation' = [creation EXCEPT !.made = SubSeq(@, 1, Len(@) - 1)]
    BY DEF UndoMade, Step
  <1> HIDE DEF path
  <1>2. CASE Over("failed") /\ tree' = tree /\ clean' = clean
    <2>1. clean' \in BOOLEAN /\ OnlyDirectories
      BY <1>2, SameTree DEF ScaffoldInv, CommandInv
    <2> QED BY <1>1, <1>2, <2>1, OverKeeps
  <1>3. CASE RemoveDirectory(path, ok) /\ creation' = [creation EXCEPT !.made = SubSeq(@, 1, Len(@) - 1)]
    <2>1. clean' \in BOOLEAN /\ (clean' => clean) /\ OnlyDirectories
      BY <1>3, CleanKept
    <2>2. /\ Shaped(creation') /\ creation'.job = "declare" /\ creation'.plan = creation.plan
          /\ creation'.step = "undo" /\ creation'.left = <<>>
      BY <1>1, <1>3 DEF ScaffoldInv, CommandInv, Shaped
    <2>3. Declaration' = Declaration
      BY <2>2 DEF Declaration
    <2>4. CommandInv'
      BY <1>1, <2>1, <2>2, <2>3 DEF ScaffoldInv, CommandInv, Shaped
    <2>5. Held' = Held
      BY <1>1, <2>2 DEF Held
    <2> QED BY <1>1, <2>1, <2>2, <2>4, <2>5, DirectoryStep
  <1> QED BY <1>1, <1>2, <1>3

LEMMA WriteDeclarationKeeps ==
  ASSUME ScaffoldInv, NEW created \in BOOLEAN, NEW written \in BOOLEAN, WriteDeclaration(created, written)
  PROVE  ScaffoldInv'
  <1>1. /\ creation.job = "declare" /\ creation.step = "prepare" /\ mine' = mine /\ clean' = clean
        /\ written => created
        /\ created => ~There(Declaration)
        /\ tree' = IF created THEN With(tree, Declaration, "scaffold") ELSE tree
        /\ IF written THEN Over("created")
           ELSE creation' = [creation EXCEPT !.step = "undo", !.left = IF created THEN <<Declaration>> ELSE <<>>,
                                !.created = IF created THEN <<Declaration>> ELSE <<>>]
    BY DEF WriteDeclaration, Declarable, Step
  <1>2. Declaration \in DeclarationFiles /\ Shaped(creation) /\ Held = <<>>
    BY <1>1 DEF ScaffoldInv, CommandInv, Shaped, Held
  <1>3. /\ Shaped(creation') /\ creation'.job = "declare" /\ creation'.plan = creation.plan
        /\ written => creation'.step = "created"
        /\ ~written => creation'.step = "undo" /\ creation'.left = IF created THEN <<Declaration>> ELSE <<>>
    <2>1. CASE written
      BY <1>1, <2>1, OverEffect
    <2>2. CASE ~written
      BY <1>1, <1>2, <2>2 DEF Shaped
    <2> QED BY <2>1, <2>2
  <1>4. Declaration' = Declaration
    BY <1>3 DEF Declaration
  <1>5. CommandInv'
    <2>1. <<>> \in Seq(NewFiles \cup DeclarationFiles) /\ <<Declaration>> \in Seq(NewFiles \cup DeclarationFiles)
      BY <1>2
    <2> QED BY <1>1, <1>2, <1>3, <1>4, <2>1 DEF ScaffoldInv, CommandInv, Shaped
  <1>6. Held' = IF ~written /\ created THEN <<Declaration>> ELSE <<>>
    BY <1>1, <1>3 DEF Held
  <1>7. CASE ~created
    <2>1. OnlyDirectories
      BY <1>1, <1>7, SameTree DEF ScaffoldInv
    <2> QED BY <1>1, <1>2, <1>3, <1>5, <1>6, <1>7, <2>1, DirectoryStep
  <1>8. CASE created
    <2>1. AddsFile(Declaration, "scaffold")
      BY <1>1, <1>8, WithFile DEF ScaffoldInv
    <2>2. TreeInv'
      BY <1>1, <2>1, TreeKept DEF ScaffoldInv
    <2>3. HeldInv'
      <3>1. CASE written
        BY <1>6, <3>1 DEF HeldInv
      <3>2. CASE ~written
        <4>1. Held' = <<Declaration>>
          BY <1>6, <1>8, <3>2
        <4> QED BY <2>1, <4>1 DEF HeldInv, AddsFile, There
      <3> QED BY <3>1, <3>2
    <2>4. OwnInv'
      <3>1. CASE written
        BY <1>3, <3>1 DEF OwnInv
      <3>2. CASE ~written
        <4>1. Held' = <<Declaration>>
          BY <1>6, <1>8, <3>2
        <4> QED BY <1>3, <1>4, <4>1 DEF OwnInv
      <3> QED BY <3>1, <3>2
    <2> QED BY <1>5, <2>2, <2>3, <2>4 DEF ScaffoldInv
  <1> QED BY <1>7, <1>8

LEMMA UserCreatesKeeps ==
  ASSUME ScaffoldInv, NEW path, UserCreates(path)
  PROVE  ScaffoldInv'
  <1>1. /\ ~There(path) /\ tree' = With(tree, path, "user") /\ mine' = mine \cup {path}
        /\ creation' = creation /\ clean' = clean
    BY DEF UserCreates
  <1>2. AddsFile(path, "user")
    BY <1>1, WithFile DEF ScaffoldInv
  <1>3. CommandInv' /\ Held' = Held /\ Declaration' = Declaration
    BY <1>1 DEF ScaffoldInv, CommandInv, Held, Declaration
  <1>4. TreeInv'
    BY <1>1, <1>2 DEF ScaffoldInv, TreeInv, AddsFile, There
  <1>5. HeldInv'
    BY <1>2, <1>3 DEF ScaffoldInv, HeldInv, AddsFile, There
  <1>6. OwnInv'
    BY <1>1, <1>2, <1>3 DEF ScaffoldInv, OwnInv, AddsFile, There
  <1> QED BY <1>3, <1>4, <1>5, <1>6 DEF ScaffoldInv

LEMMA ScaffoldStep ==
  ASSUME ScaffoldInv, [Next]_vars
  PROVE  ScaffoldInv'
  <1>1. CASE UNCHANGED scaffoldVars
    <2>1. UNCHANGED <<tree, creation, mine, clean>>
      BY <1>1 DEF scaffoldVars
    <2>2. Held' = Held /\ Declaration' = Declaration
      BY <2>1 DEF Held, Declaration
    <2>3. CommandInv' /\ TreeInv'
      BY <2>1, <2>2 DEF ScaffoldInv, CommandInv, TreeInv, There
    <2>4. HeldInv' /\ OwnInv'
      BY <2>1, <2>2 DEF ScaffoldInv, HeldInv, OwnInv, There
    <2> QED BY <2>3, <2>4 DEF ScaffoldInv
  <1>2. CASE ScaffoldNext
    <2>1. ASSUME NEW parses \in BOOLEAN, NEW structured \in BOOLEAN, NEW config \in Configs,
                 NewCommand(parses, config, structured)
          PROVE  ScaffoldInv'
      BY <2>1, NewCommandKeeps
    <2>2. ASSUME NEW ok \in BOOLEAN, NEW opens \in BOOLEAN, PrepareDirectory(ok, opens) PROVE ScaffoldInv'
      BY <2>2, PrepareDirectoryKeeps
    <2>3. ASSUME NEW created \in BOOLEAN, NEW written \in BOOLEAN,
                 WriteFile(created, written) \/ WriteDeclaration(created, written)
          PROVE  ScaffoldInv'
      BY <2>3, WriteFileKeeps, WriteDeclarationKeeps
    <2>4. ASSUME NEW ok \in BOOLEAN, Verify(ok) \/ UndoFile(ok) \/ UndoRoot(ok) \/ MakeDirectory(ok) \/ UndoMade(ok)
          PROVE  ScaffoldInv'
      BY <2>4, VerifyKeeps, UndoFileKeeps, UndoRootKeeps, MakeDirectoryKeeps, UndoMadeKeeps
    <2>5. ASSUME NEW path \in Planned, NEW ok \in BOOLEAN, UndoDirectory(path, ok) PROVE ScaffoldInv'
      BY <2>5, UndoDirectoryKeeps
    <2>6. ASSUME NEW config \in Declarations, NEW kind \in {"module", "service"}, DeclarationCommand(config, kind)
          PROVE  ScaffoldInv'
      BY <2>6, DeclarationCommandKeeps
    <2>7. ASSUME NEW path \in UserPaths, UserCreates(path) PROVE ScaffoldInv'
      BY <2>7, UserCreatesKeeps
    <2> QED BY <1>2, <2>1, <2>2, <2>3, <2>4, <2>5, <2>6, <2>7 DEF ScaffoldNext
  <1> QED BY <1>1, <1>2 DEF Next, vars

\* Nothing is held at first.
LEMMA ScaffoldStart == Init => ScaffoldInv
  <1> SUFFICES ASSUME Init PROVE ScaffoldInv
    OBVIOUS
  <1>1. /\ creation = NoCreation /\ clean = TRUE /\ mine = {q \in DOMAIN tree : tree[q] = "user"}
        /\ tree \in {<<>>, With(<<>>, Root, "dir"), With(With(<<>>, Root, "dir"), <<"app", "notes">>, "user"),
                     With(<<>>, Root, "user")}
    BY DEF Init, ScaffoldInit
  <1>2. /\ tree \in [DOMAIN tree -> {"dir", "user"}]
    <2>1. CASE tree = <<>>
      BY <2>1
    <2>2. CASE tree \in {With(<<>>, Root, "dir"), With(<<>>, Root, "user")}
      BY <2>2 DEF With
    <2>3. CASE tree = With(With(<<>>, Root, "dir"), <<"app", "notes">>, "user")
      BY <2>3 DEF With
    <2> QED BY <1>1, <2>1, <2>2, <2>3
  <1>3. Held = <<>> /\ Shaped(creation) /\ creation.job = "none" /\ creation.step = "idle"
    BY <1>1 DEF NoCreation, Held, Shaped
  <1>4. CommandInv
    BY <1>1, <1>3 DEF CommandInv, Shaped
  <1>5. TreeInv /\ HeldInv /\ OwnInv
    BY <1>1, <1>2, <1>3 DEF TreeInv, HeldInv, OwnInv, There
  <1> QED BY <1>4, <1>5 DEF ScaffoldInv

\* A file of the user is neither replaced nor removed while a project or a declaration is created,
\* and a command that failed leaves no file of its own, for any files that the user writes and
\* whichever operations fail.
THEOREM FilesOfTheUserStay == Spec => []OnlyOwnIsRemoved
  <1>1. ASSUME ScaffoldInv PROVE OnlyOwnIsRemoved
    <2>1. Held = <<>> \/ creation.step # "failed"
      BY DEF Held
    <2> QED BY <1>1, <2>1 DEF ScaffoldInv, CommandInv, TreeInv, OwnInv, OnlyOwnIsRemoved, There
  <1> QED BY <1>1, ScaffoldStart, ScaffoldStep, PTL DEF Spec

-----------------------------------------------------------------------------
(* Changes of the module files.                                            *)

OnlyMod == <<"mod">>
OnlySum == <<"sum">>
Both == <<"mod", "sum">>

IsFile(f) == f = [there |-> f.there, edits |-> f.edits, has |-> f.has]
ItemFields == {"staged", "backup", "backedUp", "installed"}
IsItem(m) ==
  /\ m = [field \in ItemFields |-> m[field]]
  /\ m.backedUp \in BOOLEAN /\ m.installed \in BOOLEAN
WorkerFields == {"job", "pick", "step", "seen", "preview", "left", "known", "failed", "jobs"}
IsWorker(r) ==
  /\ r = [field \in WorkerFields |-> r[field]]
  /\ r.seen = [n \in Names |-> r.seen[n]]

\* The steps in which a worker has nothing moved away; those that walk the changed files forward; the rollback.
Outside == {"idle", "catalog", "discovered", "readMod", "readSum", "copy", "get", "previewed", "guardMod"}
Calm == Outside \cup {"guardSum", "reported"}
Forward == {"stage", "backup", "check", "install", "clean"}
Backward == {"remove", "restore"}

\* A preview is of a go.mod that is there, keeps the edits in it and changes something.
PreviewOK(p) ==
  /\ IsFile(p.after["mod"])
  /\ p.before["mod"].there /\ p.after["mod"].there /\ p.after["mod"].edits = p.before["mod"].edits
  /\ ChangedFiles(p) \in {OnlyMod, OnlySum, Both}

\* go.mod is moved away and the new one is staged; and it is known to be the one of the preview.
Moved(r, m) == m.backedUp /\ ~m.installed /\ m.staged = r.preview.after["mod"]
Kept(r, m) == Moved(r, m) /\ m.backup = r.preview.before["mod"]

\* How far a worker is with go.mod, which comes first on the way forward and last on the way back.
Progress(r, m) ==
  LET c == ChangedFiles(r.preview)
      done == r.left = OnlySum
  IN /\ r.step \in Forward => r.left = c \/ (c = Both /\ done)
     /\ r.step \in Backward => IF c = Both THEN r.left \in {<<"sum", "mod">>, OnlyMod} ELSE r.left = c
     /\ c = OnlySum => ~m.backedUp
     /\ c # OnlySum =>
          /\ r.step = "stage" => ~m.backedUp /\ (done => m.staged = r.preview.after["mod"])
          /\ r.step = "backup" => IF done THEN Kept(r, m) ELSE ~m.backedUp /\ m.staged = r.preview.after["mod"]
          /\ r.step = "check" => IF done THEN Kept(r, m) ELSE Moved(r, m)
          /\ r.step = "install" => IF done THEN m.installed ELSE Kept(r, m)
          /\ r.step = "clean" => IF done THEN ~m.backedUp ELSE m.installed

\* A worker r, its private copies m of go.mod and the edits s that must not be lost.
Sound(r, m, s) ==
  /\ IsWorker(r) /\ IsItem(m)
  /\ r.step \in Calm \cup Forward \cup Backward
  /\ m.installed => m.backedUp
  /\ m.backedUp => IsFile(m.backup) /\ m.backup.there /\ s \subseteq m.backup.edits
  /\ r.step \in Calm => ~m.backedUp
  /\ r.step \in {"readSum", "copy", "get"} => IsFile(r.seen["mod"]) /\ r.seen["mod"].there
  /\ r.step \in {"previewed", "guardMod", "guardSum"} \cup Forward \cup Backward => PreviewOK(r.preview)
  /\ r.step \in Forward \cup Backward => Progress(r, m)

\* A worker whose backup is the place of the edits while go.mod is missing: it has not replaced go.mod, or takes that
\* back, or it could not move the backup back and can get no further than the comparison with go.mod.
Holding(r, m, s) ==
  /\ s \subseteq m.backup.edits
  /\ \/ m.backedUp /\ (~m.installed \/ r.step \in Backward)
     \/ ~m.backedUp /\ r.step \in Outside

InstallInv ==
  /\ files = [n \in Names |-> files[n]] /\ IsFile(files["mod"])
  /\ workers = [w \in Workers |-> workers[w]]
  /\ private = [w \in Workers |-> [n \in Names |-> private[w][n]]]
  /\ \A p \in shown : PreviewOK(p)
  /\ \A w \in Workers : Sound(workers[w], private[w]["mod"], safe)
  /\ files["mod"].there => safe \subseteq files["mod"].edits
  /\ ~files["mod"].there => \E w \in Workers : Holding(workers[w], private[w]["mod"], safe)

-----------------------------------------------------------------------------
(* Steps that leave the module files alone.                                *)

\* The lists of changed files.
LEMMA Lists ==
  /\ OnlyMod # OnlySum /\ Both # OnlySum /\ OnlyMod # Both /\ <<"sum", "mod">> # OnlyMod /\ <<"sum", "mod">> # OnlySum
  /\ Len(OnlyMod) = 1 /\ Len(OnlySum) = 1 /\ Len(Both) = 2 /\ Len(<<"sum", "mod">>) = 2
  /\ Head(OnlyMod) = "mod" /\ Head(OnlySum) = "sum" /\ Head(Both) = "mod" /\ Head(<<"sum", "mod">>) = "sum"
  /\ Tail(Both) = OnlySum /\ Tail(<<"sum", "mod">>) = OnlyMod
  /\ Reversed(OnlyMod) = OnlyMod /\ Reversed(OnlySum) = OnlySum /\ Reversed(Both) = <<"sum", "mod">>
  <1>1. OnlyMod # OnlySum /\ Both # OnlySum /\ OnlyMod # Both /\ <<"sum", "mod">> # OnlyMod /\ <<"sum", "mod">> # OnlySum
    BY DEF OnlyMod, OnlySum, Both
  <1>2. Len(OnlyMod) = 1 /\ Len(OnlySum) = 1 /\ Len(Both) = 2 /\ Len(<<"sum", "mod">>) = 2
    BY DEF OnlyMod, OnlySum, Both
  <1>3. Head(OnlyMod) = "mod" /\ Head(OnlySum) = "sum" /\ Head(Both) = "mod" /\ Head(<<"sum", "mod">>) = "sum"
    BY DEF OnlyMod, OnlySum, Both
  <1>4. Tail(Both) = OnlySum /\ Tail(<<"sum", "mod">>) = OnlyMod
    BY DEF OnlyMod, OnlySum, Both
  <1>5. Reversed(OnlyMod) = OnlyMod /\ Reversed(OnlySum) = OnlySum /\ Reversed(Both) = <<"sum", "mod">>
    BY DEF OnlyMod, OnlySum, Both, Reversed
  <1> QED BY <1>1, <1>2, <1>3, <1>4, <1>5

LEMMA ChangedLists ==
  ASSUME NEW p
  PROVE  ChangedFiles(p) \in {<<>>, OnlyMod, OnlySum, Both}
  <1> DEFINE Changed(n) == IF p.before[n] # p.after[n] THEN <<n>> ELSE <<>>
  <1>1. ChangedFiles(p) = Changed("mod") \o Changed("sum")
    BY DEF ChangedFiles
  <1>2. Changed("mod") \in {<<>>, OnlyMod} /\ Changed("sum") \in {<<>>, OnlySum}
    BY DEF OnlyMod, OnlySum
  <1> HIDE DEF Changed
  <1>3. <<>> \o <<>> = <<>> /\ OnlyMod \o <<>> = OnlyMod /\ <<>> \o OnlySum = OnlySum /\ OnlyMod \o OnlySum = Both
    <2>1. <<>> \in Seq(Names) /\ OnlyMod \in Seq(Names) /\ OnlySum \in Seq(Names) /\ Both \in Seq(Names)
      BY DEF OnlyMod, OnlySum, Both, Names
    <2>2. <<>> \o <<>> = <<>> /\ OnlyMod \o <<>> = OnlyMod /\ <<>> \o OnlySum = OnlySum
      BY <2>1, ConcatEmptySeq
    <2>3. /\ OnlyMod \o OnlySum \in Seq(Names)
          /\ Len(OnlyMod \o OnlySum) = 2 /\ (OnlyMod \o OnlySum)[1] = "mod" /\ (OnlyMod \o OnlySum)[2] = "sum"
      BY <2>1, ConcatProperties DEF OnlyMod, OnlySum
    <2>4. Len(Both) = 2 /\ Both[1] = "mod" /\ Both[2] = "sum"
      BY DEF Both
    <2>5. OnlyMod \o OnlySum = Both
      BY <2>1, <2>3, <2>4, SeqEqual, SMTT(30)
    <2> QED BY <2>2, <2>5
  <1> QED BY <1>1, <1>2, <1>3

\* A step of one worker.
LEMMA WorkerMoves ==
  ASSUME InstallInv, NEW w \in Workers, NEW r,
         workers' = [workers EXCEPT ![w] = r],
         private' = [v \in Workers |-> [n \in Names |-> private'[v][n]]],
         \A v \in Workers \ {w} : private'[v]["mod"] = private[v]["mod"],
         files' = [n \in Names |-> files'[n]], IsFile(files'["mod"]),
         safe' = safe, \A p \in shown' : PreviewOK(p),
         Sound(r, private'[w]["mod"], safe),
         files'["mod"].there => safe \subseteq files'["mod"].edits,
         files'["mod"].there \/ Holding(r, private'[w]["mod"], safe)
           \/ (~files["mod"].there /\ ~Holding(workers[w], private[w]["mod"], safe))
  PROVE  InstallInv'
  <1>1. /\ workers' = [v \in Workers |-> workers'[v]] /\ workers'[w] = r
        /\ \A v \in Workers \ {w} : workers'[v] = workers[v]
    BY DEF InstallInv
  <1>2. \A v \in Workers : Sound(workers'[v], private'[v]["mod"], safe')
    BY <1>1 DEF InstallInv
  <1>3. ~files'["mod"].there => \E v \in Workers : Holding(workers'[v], private'[v]["mod"], safe')
    <2>1. CASE Holding(r, private'[w]["mod"], safe)
      BY <1>1, <2>1
    <2>2. CASE ~files["mod"].there /\ ~Holding(workers[w], private[w]["mod"], safe)
      <3>1. PICK v \in Workers : Holding(workers[v], private[v]["mod"], safe)
        BY <2>2 DEF InstallInv
      <3> QED BY <1>1, <2>2, <3>1
    <2> QED BY <2>1, <2>2
  <1> QED BY <1>1, <1>2, <1>3 DEF InstallInv

\* A step of a worker that has moved nothing away, up to the comparison with both files.
LEMMA CalmStep ==
  ASSUME InstallInv, NEW w \in Workers, NEW r,
         workers[w].step \in Calm, workers' = [workers EXCEPT ![w] = r],
         files' = files, private' = private, safe' = safe, \A p \in shown' : PreviewOK(p),
         IsWorker(r), r.step \in Outside \cup {"guardSum", "stage"},
         r.step \in {"readSum", "copy", "get"} => IsFile(r.seen["mod"]) /\ r.seen["mod"].there,
         r.step \in {"previewed", "guardMod", "guardSum", "stage"} => PreviewOK(r.preview),
         r.step = "stage" => r.left = ChangedFiles(r.preview),
         r.step \notin Outside => files["mod"].there \/ workers[w].step = "guardSum"
  PROVE  InstallInv'
  <1> DEFINE m == private[w]["mod"]
  <1>1. Sound(workers[w], m, safe)
    BY DEF InstallInv
  <1> HIDE DEF m
  <1>2. IsItem(m) /\ ~m.backedUp /\ ~m.installed
    BY <1>1 DEF Sound
  <1>3. Sound(r, m, safe)
    <2>1. r.step = "stage" => Progress(r, m)
      BY <1>2, Lists DEF Progress, PreviewOK, Forward, Backward
    <2> QED BY <1>2, <2>1 DEF Sound, Calm, Outside, Forward, Backward
  <1>4. Holding(workers[w], m, safe) => Holding(r, m, safe) \/ files["mod"].there
    BY <1>2 DEF Holding, Outside
  <1>5. /\ private' = [v \in Workers |-> [n \in Names |-> private'[v][n]]]
        /\ files' = [n \in Names |-> files'[n]] /\ IsFile(files'["mod"])
        /\ files'["mod"].there => safe \subseteq files'["mod"].edits
    BY DEF InstallInv
  <1> QED BY <1>3, <1>4, <1>5, WorkerMoves DEF m

\* The end of a job.
LEMMA CalmEnd ==
  ASSUME InstallInv, NEW w \in Workers, workers[w].step \in Calm, Ends(w),
         files' = files, private' = private, safe' = safe, \A p \in shown' : PreviewOK(p)
  PROVE  InstallInv'
  <1> DEFINE r == Idle(workers[w].jobs)
  <1>1. workers' = [workers EXCEPT ![w] = r]
    BY DEF Ends, Becomes
  <1>2. IsWorker(r) /\ r.step = "idle"
    BY DEF Idle, IsWorker, WorkerFields
  <1> HIDE DEF r
  <1> QED BY <1>1, <1>2, CalmStep DEF Outside

\* Updates of a worker.
LEMMA UpdateKnown ==
  ASSUME NEW q, IsWorker(q), NEW x, NEW y
  PROVE  LET r == [q EXCEPT !.step = x, !.known = y] IN IsWorker(r) /\ r.step = x
  BY DEF IsWorker, WorkerFields

LEMMA UpdateSeen ==
  ASSUME NEW q, NEW r, IsWorker(q), r = [field \in WorkerFields |-> r[field]],
         NEW n \in Names, NEW y, r.seen = [q.seen EXCEPT ![n] = y]
  PROVE  IsWorker(r) /\ r.seen[n] = y /\ \A k \in Names \ {n} : r.seen[k] = q.seen[k]
  BY DEF IsWorker

\* A job is started.
LEMMA StartKeeps ==
  ASSUME InstallInv, NEW w \in Workers, NEW job, NEW pick, NEW step \in {"readMod", "catalog"}, StartsJob(w, job, pick, step)
  PROVE  InstallInv'
  <1> DEFINE r == [Idle(workers[w].jobs + 1) EXCEPT !.job = job, !.pick = pick, !.step = step]
  <1>1. /\ workers' = [workers EXCEPT ![w] = r] /\ workers[w].step = "idle"
        /\ files' = files /\ private' = private /\ safe' = safe /\ shown' = shown
    BY DEF StartsJob, Becomes, At, server, history
  <1>2. IsWorker(r) /\ r.step = step
    <2>1. r = [Idle(workers[w].jobs + 1) EXCEPT !.job = job, !.pick = pick, !.step = step]
      OBVIOUS
    <2> QED BY <2>1 DEF Idle, IsWorker, WorkerFields
  <1> HIDE DEF r
  <1>3. \A p \in shown' : PreviewOK(p)
    BY <1>1 DEF InstallInv
  <1> QED BY <1>1, <1>2, <1>3, CalmStep DEF Outside, Calm

LEMMA ApplyCommandKeeps ==
  ASSUME InstallInv, NEW w \in Workers, NEW preview \in shown, ApplyCommand(w, preview)
  PROVE  InstallInv'
  <1> DEFINE r == IF preview \in previews
                  THEN [Idle(workers[w].jobs + 1) EXCEPT !.job = "apply", !.pick = preview.pick, !.step = "guardMod",
                                                         !.preview = preview]
                  ELSE Idle(workers[w].jobs + 1)
  <1>1. /\ workers' = [workers EXCEPT ![w] = r] /\ workers[w].step = "idle"
        /\ files' = files /\ private' = private /\ safe' = safe /\ shown' = shown
    BY DEF ApplyCommand, Becomes, At, server, history
  <1>2. IsWorker(r) /\ (r.step = "idle" \/ (r.step = "guardMod" /\ r.preview = preview))
    BY DEF Idle, IsWorker, WorkerFields
  <1> HIDE DEF r
  <1>3. \A p \in shown' : PreviewOK(p)
    BY <1>1 DEF InstallInv
  <1>4. PreviewOK(preview)
    BY <1>1, <1>3
  <1> QED BY <1>1, <1>2, <1>3, <1>4, CalmStep DEF Outside, Calm

\* Requests of the catalog.
LEMMA CatalogKeeps ==
  ASSUME InstallInv, NEW w \in Workers, CatalogFromCache(w) \/ Discover(w) \/ StoreCatalog(w)
  PROVE  InstallInv'
  <1>1. /\ workers[w].step \in {"catalog", "discovered"}
        /\ files' = files /\ private' = private /\ safe' = safe /\ shown' = shown
        /\ \/ Ends(w)
           \/ workers' = [workers EXCEPT ![w] = [workers[w] EXCEPT !.step = "readMod"]]
           \/ workers' = [workers EXCEPT ![w] = [workers[w] EXCEPT !.step = "discovered", !.known = Authorized]]
    BY DEF CatalogFromCache, Discover, StoreCatalog, WithCatalog, GoesTo, Becomes, At, server, history
  <1>2. \A p \in shown' : PreviewOK(p)
    BY <1>1 DEF InstallInv
  <1>3. IsWorker(workers[w])
    BY DEF InstallInv, Sound
  <1>4. CASE Ends(w)
    BY <1>1, <1>2, <1>4, CalmEnd DEF Calm, Outside
  <1>5. CASE workers' = [workers EXCEPT ![w] = [workers[w] EXCEPT !.step = "readMod"]]
    <2> DEFINE r == [workers[w] EXCEPT !.step = "readMod"]
    <2>1. IsWorker(r) /\ r.step = "readMod"
      BY <1>3 DEF IsWorker, WorkerFields
    <2> HIDE DEF r
    <2> QED BY <1>1, <1>2, <1>5, <2>1, CalmStep DEF Calm, Outside, r
  <1>6. CASE workers' = [workers EXCEPT ![w] = [workers[w] EXCEPT !.step = "discovered", !.known = Authorized]]
    <2> DEFINE r == [workers[w] EXCEPT !.step = "discovered", !.known = Authorized]
    <2>1. IsWorker(r) /\ r.step = "discovered"
      BY <1>3, UpdateKnown
    <2> HIDE DEF r
    <2> QED BY <1>1, <1>2, <1>6, <2>1, CalmStep DEF Calm, Outside, r
  <1> QED BY <1>1, <1>4, <1>5, <1>6

\* The files are read: go.mod was there.
LEMMA ReadKeeps ==
  ASSUME InstallInv, NEW w \in Workers, NEW ok \in BOOLEAN, ReadMod(w, ok) \/ ReadSum(w, ok) \/ CopyFiles(w, ok)
  PROVE  InstallInv'
  <1>1. /\ workers[w].step \in {"readMod", "readSum", "copy"}
        /\ files' = files /\ private' = private /\ safe' = safe /\ shown' = shown
        /\ \/ Ends(w)
           \/ /\ workers[w].step = "readMod" /\ files.mod.there
              /\ workers' = [workers EXCEPT ![w] = [workers[w] EXCEPT !.step = "readSum", !.seen["mod"] = files.mod]]
           \/ /\ workers[w].step = "readSum"
              /\ workers' = [workers EXCEPT ![w] = [workers[w] EXCEPT !.step = "copy", !.seen["sum"] = files.sum]]
           \/ workers[w].step = "copy" /\ workers' = [workers EXCEPT ![w] = [workers[w] EXCEPT !.step = "get"]]
    BY DEF ReadMod, ReadSum, CopyFiles, GoesTo, Becomes, At, server, history
  <1>2. \A p \in shown' : PreviewOK(p)
    BY <1>1 DEF InstallInv
  <1>3. /\ IsWorker(workers[w]) /\ IsFile(files["mod"])
        /\ workers[w].step \in {"readSum", "copy"} => IsFile(workers[w].seen["mod"]) /\ workers[w].seen["mod"].there
    BY DEF InstallInv, Sound
  <1>4. CASE Ends(w)
    BY <1>1, <1>2, <1>4, CalmEnd DEF Calm, Outside
  <1>5. CASE /\ workers[w].step = "readMod" /\ files.mod.there
             /\ workers' = [workers EXCEPT ![w] = [workers[w] EXCEPT !.step = "readSum", !.seen["mod"] = files.mod]]
    <2> DEFINE r == [workers[w] EXCEPT !.step = "readSum", !.seen["mod"] = files.mod]
    <2>1. IsWorker(r) /\ r.step = "readSum" /\ r.seen["mod"] = files["mod"]
      <3>1. /\ r = [field \in WorkerFields |-> r[field]] /\ r.step = "readSum"
            /\ r.seen = [workers[w].seen EXCEPT !["mod"] = files.mod]
        BY <1>3 DEF IsWorker, WorkerFields
      <3>2. "mod" \in Names
        BY DEF Names
      <3> HIDE DEF r
      <3> QED BY <1>3, <3>1, <3>2, UpdateSeen
    <2> HIDE DEF r
    <2> QED BY <1>1, <1>2, <1>3, <1>5, <2>1, CalmStep DEF Calm, Outside, r
  <1>6. CASE /\ workers[w].step = "readSum"
             /\ workers' = [workers EXCEPT ![w] = [workers[w] EXCEPT !.step = "copy", !.seen["sum"] = files.sum]]
    <2> DEFINE r == [workers[w] EXCEPT !.step = "copy", !.seen["sum"] = files.sum]
    <2>1. IsWorker(r) /\ r.step = "copy" /\ r.seen["mod"] = workers[w].seen["mod"]
      <3>1. /\ r = [field \in WorkerFields |-> r[field]] /\ r.step = "copy"
            /\ r.seen = [workers[w].seen EXCEPT !["sum"] = files.sum]
        BY <1>3 DEF IsWorker, WorkerFields
      <3>2. "mod" \in Names /\ "sum" \in Names /\ "mod" # "sum"
        BY DEF Names
      <3> HIDE DEF r
      <3> QED BY <1>3, <3>1, <3>2, UpdateSeen
    <2> HIDE DEF r
    <2> QED BY <1>1, <1>2, <1>3, <1>6, <2>1, CalmStep DEF Calm, Outside, r
  <1>7. CASE workers[w].step = "copy" /\ workers' = [workers EXCEPT ![w] = [workers[w] EXCEPT !.step = "get"]]
    <2> DEFINE r == [workers[w] EXCEPT !.step = "get"]
    <2>1. IsWorker(r) /\ r.step = "get" /\ r.seen = workers[w].seen
      BY <1>3 DEF IsWorker, WorkerFields
    <2> HIDE DEF r
    <2> QED BY <1>1, <1>2, <1>3, <1>7, <2>1, CalmStep DEF Calm, Outside, r
  <1> QED BY <1>1, <1>4, <1>5, <1>6, <1>7

\* go get keeps the edits in go.mod.
LEMMA GoGetKeepsEdits ==
  ASSUME NEW seen, NEW pick, IsFile(seen["mod"]), seen["mod"].there
  PROVE  LET mod == GoGet(seen, pick)["mod"] IN IsFile(mod) /\ mod.there /\ mod.edits = seen["mod"].edits
  BY DEF GoGet, IsFile

LEMMA RunGetKeeps ==
  ASSUME InstallInv, NEW w \in Workers, NEW ok \in BOOLEAN, RunGet(w, ok)
  PROVE  InstallInv'
  <1> DEFINE seen == workers[w].seen
             p == [pick |-> workers[w].pick, before |-> seen, after |-> GoGet(seen, workers[w].pick)]
             r == [workers[w] EXCEPT !.step = "previewed", !.preview = p]
  <1>1. /\ workers[w].step = "get" /\ files' = files /\ private' = private /\ safe' = safe /\ shown' = shown
        /\ Ends(w) \/ (ChangedFiles(p) # <<>> /\ workers' = [workers EXCEPT ![w] = r])
    BY DEF RunGet, Becomes, At, server, history
  <1>2. \A q \in shown' : PreviewOK(q)
    BY <1>1 DEF InstallInv
  <1>3. IsWorker(workers[w]) /\ IsFile(seen["mod"]) /\ seen["mod"].there
    BY <1>1 DEF InstallInv, Sound
  <1>4. CASE Ends(w)
    BY <1>1, <1>2, <1>4, CalmEnd DEF Calm, Outside
  <1>5. CASE ChangedFiles(p) # <<>> /\ workers' = [workers EXCEPT ![w] = r]
    <2>1. p.before = seen /\ p.after = GoGet(seen, workers[w].pick)
      OBVIOUS
    <2>2. IsWorker(r) /\ r.step = "previewed" /\ r.preview = p
      BY <1>3 DEF IsWorker, WorkerFields
    <2> HIDE DEF p, r
    <2>3. PreviewOK(p)
      BY <1>3, <1>5, <2>1, GoGetKeepsEdits, ChangedLists DEF PreviewOK
    <2> QED BY <1>1, <1>2, <1>5, <2>2, <2>3, CalmStep DEF Calm, Outside
  <1> QED BY <1>1, <1>4, <1>5

LEMMA AnswerKeeps ==
  ASSUME InstallInv, NEW w \in Workers, AnswerPreview(w) \/ AnswerAdd(w) \/ Report(w)
  PROVE  InstallInv'
  <1>1. /\ workers[w].step \in {"previewed", "reported"}
        /\ files' = files /\ private' = private /\ safe' = safe
        /\ shown' = shown \/ (workers[w].step = "previewed" /\ shown' = shown \cup {workers[w].preview})
        /\ \/ Ends(w)
           \/ workers[w].step = "previewed" /\ workers' = [workers EXCEPT ![w] = [workers[w] EXCEPT !.step = "guardMod"]]
    BY DEF AnswerPreview, AnswerAdd, Report, GoesTo, Becomes, At, server, history
  <1>2. IsWorker(workers[w]) /\ (workers[w].step = "previewed" => PreviewOK(workers[w].preview))
    BY DEF InstallInv, Sound
  <1>3. \A p \in shown' : PreviewOK(p)
    BY <1>1, <1>2 DEF InstallInv
  <1>4. CASE Ends(w)
    BY <1>1, <1>3, <1>4, CalmEnd DEF Calm, Outside
  <1>5. CASE workers[w].step = "previewed" /\ workers' = [workers EXCEPT ![w] = [workers[w] EXCEPT !.step = "guardMod"]]
    <2> DEFINE r == [workers[w] EXCEPT !.step = "guardMod"]
    <2>1. IsWorker(r) /\ r.step = "guardMod" /\ r.preview = workers[w].preview
      BY <1>2 DEF IsWorker, WorkerFields
    <2> HIDE DEF r
    <2> QED BY <1>1, <1>2, <1>3, <1>5, <2>1, CalmStep DEF Calm, Outside, r
  <1> QED BY <1>1, <1>4, <1>5

\* A worker goes on when both files are as the preview has them: go.mod is there.
LEMMA GuardKeeps ==
  ASSUME InstallInv, NEW w \in Workers, NEW n \in Names, NEW ok \in BOOLEAN, Guard(w, n, ok)
  PROVE  InstallInv'
  <1>1. /\ workers[w].step \in {"guardMod", "guardSum"} /\ files' = files /\ private' = private /\ safe' = safe
        /\ shown' = shown
        /\ \/ Ends(w)
           \/ /\ workers[w].step = "guardMod" /\ files["mod"] = workers[w].preview.before["mod"]
              /\ workers' = [workers EXCEPT ![w] = [workers[w] EXCEPT !.step = "guardSum"]]
           \/ /\ workers[w].step = "guardSum"
              /\ workers' = [workers EXCEPT ![w] = [workers[w] EXCEPT !.step = "stage",
                                                                      !.left = ChangedFiles(workers[w].preview)]]
    BY DEF Guard, GoesTo, Becomes, At, server, Names
  <1>2. \A p \in shown' : PreviewOK(p)
    BY <1>1 DEF InstallInv
  <1>3. IsWorker(workers[w]) /\ PreviewOK(workers[w].preview)
    BY <1>1 DEF InstallInv, Sound
  <1>4. CASE Ends(w)
    BY <1>1, <1>2, <1>4, CalmEnd DEF Calm, Outside
  <1>5. CASE /\ workers[w].step = "guardMod" /\ files["mod"] = workers[w].preview.before["mod"]
             /\ workers' = [workers EXCEPT ![w] = [workers[w] EXCEPT !.step = "guardSum"]]
    <2> DEFINE r == [workers[w] EXCEPT !.step = "guardSum"]
    <2>1. IsWorker(r) /\ r.step = "guardSum" /\ r.preview = workers[w].preview
      BY <1>3 DEF IsWorker, WorkerFields
    <2>2. files["mod"].there
      BY <1>3, <1>5 DEF PreviewOK
    <2> HIDE DEF r
    <2> QED BY <1>1, <1>2, <1>3, <1>5, <2>1, <2>2, CalmStep DEF Calm, Outside, r
  <1>6. CASE /\ workers[w].step = "guardSum"
             /\ workers' = [workers EXCEPT ![w] = [workers[w] EXCEPT !.step = "stage",
                                                                     !.left = ChangedFiles(workers[w].preview)]]
    <2> DEFINE r == [workers[w] EXCEPT !.step = "stage", !.left = ChangedFiles(workers[w].preview)]
    <2>1. IsWorker(r) /\ r.step = "stage" /\ r.preview = workers[w].preview /\ r.left = ChangedFiles(workers[w].preview)
      BY <1>3 DEF IsWorker, WorkerFields
    <2> HIDE DEF r
    <2> QED BY <1>1, <1>2, <1>3, <1>6, <2>1, CalmStep DEF Calm, Outside, r
  <1> QED BY <1>1, <1>4, <1>5, <1>6

-----------------------------------------------------------------------------
(* The steps of an apply, for a worker q, its copies m of go.mod and the   *)
(* edits s: r is what becomes of the worker.                               *)

\* Where a worker is in its list.
LEMMA Lefts ==
  ASSUME NEW q, NEW m, NEW s, Sound(q, m, s)
  PROVE  /\ q.step \in Forward => \/ ChangedFiles(q.preview) = OnlyMod /\ q.left = OnlyMod
                                  \/ ChangedFiles(q.preview) = OnlySum /\ q.left = OnlySum
                                  \/ ChangedFiles(q.preview) = Both /\ q.left \in {Both, OnlySum}
         /\ q.step \in Backward => \/ ChangedFiles(q.preview) = OnlyMod /\ q.left = OnlyMod
                                   \/ ChangedFiles(q.preview) = OnlySum /\ q.left = OnlySum
                                   \/ ChangedFiles(q.preview) = Both /\ q.left \in {<<"sum", "mod">>, OnlyMod}
  BY Lists DEF Sound, Progress, PreviewOK, Forward, Backward

\* A worker in its list: the steps and what holds of go.mod.
LEMMA Walking ==
  ASSUME NEW q, NEW m, NEW s, Sound(q, m, s), q.step \in Forward \cup Backward,
         NEW r, NEW k, IsWorker(r), IsItem(k), r.preview = q.preview, r.step \in Forward \cup Backward,
         k.installed => k.backedUp,
         k.backedUp => IsFile(k.backup) /\ k.backup.there /\ s \subseteq k.backup.edits,
         Progress(r, k)
  PROVE  Sound(r, k, s)
  BY DEF Sound, Forward, Backward, Calm, Outside

LEMMA StageSound ==
  ASSUME NEW q, NEW m, NEW s, Sound(q, m, s), q.step = "stage", NEW r, NEW k, IsWorker(r), r.preview = q.preview,
         IF Head(q.left) = "mod" THEN IsItem(k) /\ ~k.backedUp /\ ~k.installed /\ k.staged = q.preview.after["mod"]
                                 ELSE k = m,
         IF Len(q.left) > 1 THEN r.step = "stage" /\ r.left = Tail(q.left)
         ELSE r.step = "backup" /\ r.left = ChangedFiles(q.preview)
  PROVE  Sound(r, k, s) /\ ~Holding(q, m, s)
  <1>1. IsItem(m) /\ ~m.backedUp /\ ~m.installed /\ Progress(q, m)
    BY DEF Sound, Progress, Forward
  <1>2. IsItem(k) /\ ~k.backedUp /\ ~k.installed
    BY <1>1
  <1>3. Progress(r, k)
    <2>1. \/ ChangedFiles(q.preview) = OnlyMod /\ q.left = OnlyMod
          \/ ChangedFiles(q.preview) = OnlySum /\ q.left = OnlySum
          \/ ChangedFiles(q.preview) = Both /\ q.left = Both
          \/ ChangedFiles(q.preview) = Both /\ q.left = OnlySum
      BY Lefts DEF Forward
    <2>2. CASE ChangedFiles(q.preview) = OnlyMod /\ q.left = OnlyMod
      BY <1>1, <1>2, <2>2, Lists DEF Progress, Forward, Backward
    <2>3. CASE ChangedFiles(q.preview) = OnlySum /\ q.left = OnlySum
      BY <1>1, <1>2, <2>3, Lists DEF Progress, Forward, Backward
    <2>4. CASE ChangedFiles(q.preview) = Both /\ q.left = Both
      BY <1>1, <1>2, <2>4, Lists DEF Progress, Forward, Backward
    <2>5. CASE ChangedFiles(q.preview) = Both /\ q.left = OnlySum
      BY <1>1, <1>2, <2>5, Lists DEF Progress, Forward, Backward
    <2> QED BY <2>1, <2>2, <2>3, <2>4, <2>5
  <1> QED BY <1>1, <1>2, <1>3, Walking DEF Holding, Outside, Forward, Backward

\* The way back begins.
LEMMA RollsBackSound ==
  ASSUME NEW q, NEW m, NEW s, Sound(q, m, s), q.step \in {"backup", "check", "install"},
         NEW r, IsWorker(r), r.preview = q.preview, r.step = "remove", r.left = Reversed(ChangedFiles(q.preview))
  PROVE  Sound(r, m, s) /\ (Holding(q, m, s) => Holding(r, m, s))
  <1>1. Progress(q, m) /\ PreviewOK(q.preview) /\ IsItem(m) /\ (m.installed => m.backedUp)
        /\ (m.backedUp => IsFile(m.backup) /\ m.backup.there /\ s \subseteq m.backup.edits)
    BY DEF Sound, Forward, Backward
  <1>2. Progress(r, m)
    BY <1>1, Lists DEF Progress, PreviewOK, Forward, Backward
  <1> QED BY <1>1, <1>2, Walking DEF Holding, Outside, Forward, Backward

\* go.mod is moved away.
LEMMA BackupModSound ==
  ASSUME NEW q, NEW m, NEW s, Sound(q, m, s), q.step = "backup", Head(q.left) = "mod",
         NEW r, IsWorker(r), r.preview = q.preview, r.step = "check", r.left = q.left,
         NEW f, IsFile(f), f.there, s \subseteq f.edits,
         NEW k, IsItem(k), k.backup = f, k.backedUp, k.installed = m.installed, k.staged = m.staged
  PROVE  Sound(r, k, s) /\ Holding(r, k, s)
  <1>1. Progress(q, m) /\ PreviewOK(q.preview) /\ IsItem(m) /\ (m.installed => m.backedUp)
    BY DEF Sound, Forward
  <1>2. q.left # OnlySum /\ ChangedFiles(q.preview) # OnlySum
    BY <1>1, Lists, Lefts DEF Forward
  <1>3. ~m.backedUp /\ ~k.installed /\ k.staged = q.preview.after["mod"]
    BY <1>1, <1>2 DEF Progress
  <1>4. Progress(r, k)
    BY <1>1, <1>2, <1>3, Lists, Lefts DEF Progress, Forward, Backward, Moved
  <1> QED BY <1>3, <1>4, Walking DEF Holding, Forward

\* go.sum is moved away, or is not there.
LEMMA BackupSumSound ==
  ASSUME NEW q, NEW m, NEW s, Sound(q, m, s), q.step = "backup", Head(q.left) = "sum",
         NEW r, IsWorker(r), r.preview = q.preview,
         \/ r.step = "check" /\ r.left = q.left
         \/ r.step = "install" /\ r.left = ChangedFiles(q.preview)
  PROVE  Sound(r, m, s) /\ (Holding(q, m, s) => Holding(r, m, s))
  <1>1. /\ Progress(q, m) /\ PreviewOK(q.preview) /\ IsItem(m) /\ (m.installed => m.backedUp)
        /\ (m.backedUp => IsFile(m.backup) /\ m.backup.there /\ s \subseteq m.backup.edits)
    BY DEF Sound, Forward
  <1>2. q.left = OnlySum
    BY Lists, Lefts DEF Forward
  <1>3. Progress(r, m)
    <2>1. \/ ChangedFiles(q.preview) = OnlyMod /\ q.left = OnlyMod
          \/ ChangedFiles(q.preview) = OnlySum /\ q.left = OnlySum
          \/ ChangedFiles(q.preview) = Both /\ q.left = Both
          \/ ChangedFiles(q.preview) = Both /\ q.left = OnlySum
      BY Lefts DEF Forward
    <2>2. CASE ChangedFiles(q.preview) = OnlyMod /\ q.left = OnlyMod
      BY <1>1, <1>2, <2>2, Lists DEF Progress, Forward, Backward, Kept, Moved
    <2>3. CASE ChangedFiles(q.preview) = OnlySum /\ q.left = OnlySum
      BY <1>1, <1>2, <2>3, Lists DEF Progress, Forward, Backward, Kept, Moved
    <2>4. CASE ChangedFiles(q.preview) = Both /\ q.left = Both
      BY <1>1, <1>2, <2>4, Lists DEF Progress, Forward, Backward, Kept, Moved
    <2>5. CASE ChangedFiles(q.preview) = Both /\ q.left = OnlySum
      BY <1>1, <1>2, <2>5, Lists DEF Progress, Forward, Backward, Kept, Moved
    <2> QED BY <2>1, <2>2, <2>3, <2>4, <2>5
  <1> QED BY <1>1, <1>3, Walking DEF Holding, Outside, Forward, Backward

LEMMA CheckSound ==
  ASSUME NEW q, NEW m, NEW s, Sound(q, m, s), q.step = "check",
         Head(q.left) = "mod" => m.backup = q.preview.before["mod"],
         NEW r, IsWorker(r), r.preview = q.preview,
         IF Len(q.left) > 1 THEN r.step = "backup" /\ r.left = Tail(q.left)
         ELSE r.step = "install" /\ r.left = ChangedFiles(q.preview)
  PROVE  Sound(r, m, s) /\ (Holding(q, m, s) => Holding(r, m, s))
  <1>1. /\ Progress(q, m) /\ PreviewOK(q.preview) /\ IsItem(m) /\ (m.installed => m.backedUp)
        /\ (m.backedUp => IsFile(m.backup) /\ m.backup.there /\ s \subseteq m.backup.edits)
    BY DEF Sound, Forward
  <1>2. ChangedFiles(q.preview) # OnlySum => Kept(q, m)
    BY <1>1, Lists, Lefts DEF Progress, Forward, Kept
  <1>3. Progress(r, m)
    <2>1. \/ ChangedFiles(q.preview) = OnlyMod /\ q.left = OnlyMod
          \/ ChangedFiles(q.preview) = OnlySum /\ q.left = OnlySum
          \/ ChangedFiles(q.preview) = Both /\ q.left = Both
          \/ ChangedFiles(q.preview) = Both /\ q.left = OnlySum
      BY Lefts DEF Forward
    <2>2. CASE ChangedFiles(q.preview) = OnlyMod /\ q.left = OnlyMod
      BY <1>1, <1>2, <2>2, Lists DEF Progress, Forward, Backward, Kept, Moved
    <2>3. CASE ChangedFiles(q.preview) = OnlySum /\ q.left = OnlySum
      BY <1>1, <1>2, <2>3, Lists DEF Progress, Forward, Backward, Kept, Moved
    <2>4. CASE ChangedFiles(q.preview) = Both /\ q.left = Both
      BY <1>1, <1>2, <2>4, Lists DEF Progress, Forward, Backward, Kept, Moved
    <2>5. CASE ChangedFiles(q.preview) = Both /\ q.left = OnlySum
      BY <1>1, <1>2, <2>5, Lists DEF Progress, Forward, Backward, Kept, Moved
    <2> QED BY <2>1, <2>2, <2>3, <2>4, <2>5
  <1> QED BY <1>1, <1>3, Walking DEF Holding, Outside, Forward, Backward

\* The new go.mod has every edit that the one of the preview had.
LEMMA InstallModSound ==
  ASSUME NEW q, NEW m, NEW s, Sound(q, m, s), q.step = "install", Head(q.left) = "mod",
         NEW r, IsWorker(r), r.preview = q.preview,
         IF Len(q.left) > 1 THEN r.step = "install" /\ r.left = Tail(q.left)
         ELSE r.step = "clean" /\ r.left = ChangedFiles(q.preview),
         NEW k, IsItem(k), k.backup = m.backup, k.backedUp = m.backedUp, k.installed
  PROVE  Sound(r, k, s) /\ IsFile(m.staged) /\ m.staged.there /\ s \subseteq m.staged.edits
  <1>1. /\ Progress(q, m) /\ PreviewOK(q.preview)
        /\ (m.backedUp => IsFile(m.backup) /\ m.backup.there /\ s \subseteq m.backup.edits)
    BY DEF Sound, Forward
  <1>2. q.left # OnlySum /\ ChangedFiles(q.preview) # OnlySum
    BY <1>1, Lists, Lefts DEF Forward
  <1>3. m.backedUp /\ m.staged = q.preview.after["mod"] /\ m.backup = q.preview.before["mod"]
    BY <1>1, <1>2 DEF Progress, Kept, Moved
  <1>4. Progress(r, k)
    <2>1. \/ ChangedFiles(q.preview) = OnlyMod /\ q.left = OnlyMod
          \/ ChangedFiles(q.preview) = OnlySum /\ q.left = OnlySum
          \/ ChangedFiles(q.preview) = Both /\ q.left = Both
          \/ ChangedFiles(q.preview) = Both /\ q.left = OnlySum
      BY Lefts DEF Forward
    <2>2. CASE ChangedFiles(q.preview) = OnlyMod /\ q.left = OnlyMod
      BY <1>1, <1>2, <1>3, <2>2, Lists DEF Progress, Forward, Backward
    <2>3. CASE ChangedFiles(q.preview) = OnlySum /\ q.left = OnlySum
      BY <1>1, <1>2, <1>3, <2>3, Lists DEF Progress, Forward, Backward
    <2>4. CASE ChangedFiles(q.preview) = Both /\ q.left = Both
      BY <1>1, <1>2, <1>3, <2>4, Lists DEF Progress, Forward, Backward
    <2>5. CASE ChangedFiles(q.preview) = Both /\ q.left = OnlySum
      BY <1>1, <1>2, <1>3, <2>5, Lists DEF Progress, Forward, Backward
    <2> QED BY <2>1, <2>2, <2>3, <2>4, <2>5
  <1> QED BY <1>1, <1>3, <1>4, Walking DEF PreviewOK, Forward

LEMMA InstallSumSound ==
  ASSUME NEW q, NEW m, NEW s, Sound(q, m, s), q.step = "install", Head(q.left) = "sum",
         NEW r, IsWorker(r), r.preview = q.preview, r.step = "clean", r.left = ChangedFiles(q.preview)
  PROVE  Sound(r, m, s) /\ ~Holding(q, m, s)
  <1>1. /\ Progress(q, m) /\ PreviewOK(q.preview) /\ IsItem(m) /\ (m.installed => m.backedUp)
        /\ (m.backedUp => IsFile(m.backup) /\ m.backup.there /\ s \subseteq m.backup.edits)
    BY DEF Sound, Forward
  <1>2. q.left = OnlySum
    BY Lists, Lefts DEF Forward
  <1>3. Progress(r, m)
    BY <1>1, <1>2, Lists, Lefts DEF Progress, Forward, Backward
  <1> QED BY <1>1, <1>2, <1>3, Walking DEF Progress, Holding, Outside, Forward, Backward

LEMMA RemoveSound ==
  ASSUME NEW q, NEW m, NEW s, Sound(q, m, s), q.step = "remove",
         NEW r, IsWorker(r), r.preview = q.preview, r.step = "restore", r.left = q.left
  PROVE  /\ Sound(r, m, s) /\ (Holding(q, m, s) => Holding(r, m, s))
         /\ m.installed => Holding(r, m, s)
  <1>1. /\ Progress(q, m) /\ IsItem(m) /\ (m.installed => m.backedUp)
        /\ (m.backedUp => IsFile(m.backup) /\ m.backup.there /\ s \subseteq m.backup.edits)
    BY DEF Sound, Backward
  <1>2. Progress(r, m)
    BY <1>1 DEF Progress, Forward, Backward
  <1> QED BY <1>1, <1>2, Walking DEF Holding, Outside, Forward, Backward

\* The job is over, for go.mod too.
LEMMA EndSound ==
  ASSUME NEW jobs, NEW k, NEW s, IsItem(k), ~k.backedUp, ~k.installed
  PROVE  Sound(Idle(jobs), k, s) /\ (s \subseteq k.backup.edits => Holding(Idle(jobs), k, s))
  <1>1. IsWorker(Idle(jobs)) /\ Idle(jobs).step = "idle"
    BY DEF IsWorker, WorkerFields, Idle
  <1> QED BY <1>1 DEF Sound, Holding, Calm, Outside, Forward, Backward

\* go.mod is the last one that is moved back.
LEMMA RestoreSound ==
  ASSUME NEW q, NEW m, NEW s, Sound(q, m, s), q.step = "restore"
  PROVE  /\ Head(q.left) \in Names
         /\ Head(q.left) = "mod" => Len(q.left) = 1 /\ (~m.backedUp => ~Holding(q, m, s))
         /\ Head(q.left) = "sum" /\ Len(q.left) = 1 => ~m.backedUp /\ ~m.installed /\ IsItem(m) /\ ~Holding(q, m, s)
         /\ Head(q.left) = "sum" /\ Len(q.left) > 1 =>
              \A r : IsWorker(r) /\ r.preview = q.preview /\ r.step = "remove" /\ r.left = Tail(q.left) =>
                       Sound(r, m, s) /\ (Holding(q, m, s) => Holding(r, m, s))
  <1>1. /\ Progress(q, m) /\ IsItem(m) /\ (m.installed => m.backedUp)
        /\ (m.backedUp => IsFile(m.backup) /\ m.backup.there /\ s \subseteq m.backup.edits)
    BY DEF Sound, Backward
  <1>2. ~m.backedUp => ~Holding(q, m, s)
    BY DEF Holding, Outside
  <1>3. /\ Head(q.left) \in Names
        /\ Head(q.left) = "mod" => Len(q.left) = 1
        /\ Head(q.left) = "sum" /\ Len(q.left) = 1 => ~m.backedUp
    BY <1>1, Lists, Lefts DEF Progress, Names, Backward
  <1>4. ASSUME NEW r, IsWorker(r), r.preview = q.preview, r.step = "remove", r.left = Tail(q.left),
               Head(q.left) = "sum", Len(q.left) > 1
        PROVE  Sound(r, m, s) /\ (Holding(q, m, s) => Holding(r, m, s))
    <2>1. ChangedFiles(q.preview) = Both /\ r.left = OnlyMod
      BY <1>4, Lists, Lefts DEF Backward
    <2>2. Progress(r, m)
      BY <1>1, <1>4, <2>1, Lists DEF Progress, Forward, Backward
    <2> QED BY <1>1, <1>4, <2>2, Walking DEF Holding, Outside, Forward, Backward
  <1> QED BY <1>1, <1>2, <1>3, <1>4

\* A backup is only removed when the new go.mod was put in its place.
LEMMA CleanSound ==
  ASSUME NEW q, NEW m, NEW s, Sound(q, m, s), q.step = "clean",
         NEW k, IF Head(q.left) = "mod" THEN IsItem(k) /\ ~k.backedUp /\ ~k.installed ELSE k = m,
         NEW r, IsWorker(r), r.preview = q.preview,
         IF Len(q.left) > 1 THEN r.step = "clean" /\ r.left = Tail(q.left) ELSE r.step = "reported"
  PROVE  Sound(r, k, s) /\ ~Holding(q, m, s)
  <1>1. Progress(q, m) /\ IsItem(m) /\ (m.installed => m.backedUp)
    BY DEF Sound, Forward
  <1>2. ~Holding(q, m, s)
    BY <1>1 DEF Holding, Progress, Outside, Backward
  <1>3. IsItem(k) /\ ~k.backedUp /\ ~k.installed
    BY <1>1, Lists, Lefts DEF Progress, Forward
  <1>4. CASE Len(q.left) > 1
    <2>1. ChangedFiles(q.preview) = Both /\ r.left = OnlySum
      <3>1. \/ q.left \in {OnlyMod, OnlySum}
            \/ ChangedFiles(q.preview) = Both /\ q.left = Both
        BY Lefts DEF Forward
      <3>2. ChangedFiles(q.preview) = Both /\ q.left = Both
        BY <1>4, <3>1, Lists
      <3> QED BY <1>4, <3>2, Lists
    <2>2. Progress(r, k)
      BY <1>3, <1>4, <2>1, Lists DEF Progress, Forward, Backward
    <2> QED BY <1>2, <1>3, <1>4, <2>2, Walking DEF Forward
  <1>5. CASE ~(Len(q.left) > 1)
    BY <1>2, <1>3, <1>5 DEF Sound, Calm, Outside, Forward, Backward
  <1> QED BY <1>4, <1>5

-----------------------------------------------------------------------------
(* The actions of an apply.                                                *)

\* The private copies and the files after a step.
LEMMA PrivateSet ==
  ASSUME InstallInv, NEW w \in Workers, NEW n \in Names, NEW record, SetPrivate(w, n, record)
  PROVE  /\ private' = [v \in Workers |-> [k \in Names |-> private'[v][k]]]
         /\ \A v \in Workers \ {w} : private'[v]["mod"] = private[v]["mod"]
         /\ n = "mod" => private'[w]["mod"] = record
         /\ n = "sum" => private'[w]["mod"] = private[w]["mod"]
  BY DEF InstallInv, SetPrivate, Names

LEMMA PrivateSame ==
  ASSUME InstallInv, private' = private
  PROVE  /\ private' = [v \in Workers |-> [k \in Names |-> private'[v][k]]]
         /\ \A v \in Workers : private'[v]["mod"] = private[v]["mod"]
  BY DEF InstallInv

LEMMA FilesSet ==
  ASSUME InstallInv, NEW n \in Names, NEW f, files' = [files EXCEPT ![n] = f]
  PROVE  /\ files' = [k \in Names |-> files'[k]]
         /\ n = "mod" => files'["mod"] = f
         /\ n = "sum" => files'["mod"] = files["mod"]
  BY DEF InstallInv, Names

LEMMA FilesSame ==
  ASSUME InstallInv, files' = files \/ files' = [files EXCEPT !["sum"] = files'["sum"]]
  PROVE  /\ files' = [k \in Names |-> files'[k]] /\ files'["mod"] = files["mod"]
         /\ IsFile(files'["mod"]) /\ (files'["mod"].there => safe \subseteq files'["mod"].edits)
  BY DEF InstallInv, Names

\* What a worker is when it walks its list.
LEMMA Walks ==
  ASSUME InstallInv, NEW w \in Workers
  PROVE  /\ Sound(workers[w], private[w]["mod"], safe) /\ IsWorker(workers[w]) /\ IsItem(private[w]["mod"])
         /\ \A p \in shown : PreviewOK(p)
         /\ workers[w].step \in Forward \cup Backward => Current(w) \in Names /\ PreviewOK(workers[w].preview)
  <1>1. Sound(workers[w], private[w]["mod"], safe) /\ \A p \in shown : PreviewOK(p)
    BY DEF InstallInv
  <1>2. workers[w].step \in Forward \cup Backward => workers[w].left \in {OnlyMod, OnlySum, Both, <<"sum", "mod">>}
    BY <1>1, Lefts
  <1>3. workers[w].step \in Forward \cup Backward => Current(w) \in Names
    BY <1>2, Lists DEF Current, Names
  <1> QED BY <1>1, <1>3 DEF Sound

LEMMA AdvanceMoves ==
  ASSUME InstallInv, NEW w \in Workers, NEW next, Advance(w, next)
  PROVE  \E r : /\ workers' = [workers EXCEPT ![w] = r] /\ IsWorker(r) /\ r.preview = workers[w].preview
                /\ IF Len(workers[w].left) > 1 THEN r.step = workers[w].step /\ r.left = Tail(workers[w].left)
                   ELSE r.step = next /\ r.left = ChangedFiles(workers[w].preview)
  <1> DEFINE q == workers[w]
             r1 == [q EXCEPT !.left = Tail(@)]
             r2 == [q EXCEPT !.step = next, !.left = ChangedFiles(q.preview)]
  <1>1. workers' = [workers EXCEPT ![w] = IF Len(q.left) > 1 THEN r1 ELSE r2]
    BY DEF Advance, Becomes, Changes
  <1>2. IsWorker(q)
    BY Walks
  <1>3. IsWorker(r1) /\ r1.preview = q.preview /\ r1.step = q.step /\ r1.left = Tail(q.left)
    BY <1>2 DEF IsWorker, WorkerFields
  <1>4. IsWorker(r2) /\ r2.preview = q.preview /\ r2.step = next /\ r2.left = ChangedFiles(q.preview)
    BY <1>2 DEF IsWorker, WorkerFields
  <1> HIDE DEF r1, r2
  <1>5. CASE Len(q.left) > 1
    BY <1>1, <1>3, <1>5
  <1>6. CASE ~(Len(q.left) > 1)
    BY <1>1, <1>4, <1>6
  <1> QED BY <1>5, <1>6

LEMMA StageKeeps ==
  ASSUME InstallInv, NEW w \in Workers, NEW ok \in BOOLEAN, Stage(w, ok)
  PROVE  InstallInv'
  <1> DEFINE q == workers[w]
             m == private[w]["mod"]
             n == Current(w)
             new == [Unstaged EXCEPT !.staged = q.preview.after[n]]
  <1>1. /\ q.step = "stage" /\ files' = files /\ safe' = safe /\ shown' = shown
        /\ IF ok THEN SetPrivate(w, n, new) /\ Advance(w, "backup") ELSE Discarded(w) /\ Ends(w)
    BY DEF Stage, At, server, history
  <1>2. Sound(q, m, safe) /\ IsItem(m) /\ n \in Names /\ \A p \in shown' : PreviewOK(p)
    BY <1>1, Walks DEF Forward
  <1>3. new.staged = q.preview.after[n] /\ IsItem(new) /\ ~new.backedUp /\ ~new.installed
    BY DEF Unstaged, IsItem, ItemFields
  <1>4. n = Head(q.left)
    BY DEF Current
  <1> HIDE DEF new, n
  <1>5. CASE ok
    <2>1. PICK r : /\ workers' = [workers EXCEPT ![w] = r] /\ IsWorker(r) /\ r.preview = q.preview
                   /\ IF Len(q.left) > 1 THEN r.step = q.step /\ r.left = Tail(q.left)
                      ELSE r.step = "backup" /\ r.left = ChangedFiles(q.preview)
      BY <1>1, <1>5, AdvanceMoves
    <2> DEFINE k == private'[w]["mod"]
    <2>2. /\ private' = [v \in Workers |-> [x \in Names |-> private'[v][x]]]
          /\ \A v \in Workers \ {w} : private'[v]["mod"] = private[v]["mod"]
          /\ IF n = "mod" THEN k = new ELSE k = m
      BY <1>1, <1>2, <1>5, PrivateSet DEF Names
    <2> HIDE DEF k, m, q
    <2>3. Sound(r, k, safe) /\ ~Holding(q, m, safe)
      BY <1>1, <1>2, <1>3, <1>4, <2>1, <2>2, StageSound
    <2> QED BY <1>1, <1>2, <2>1, <2>2, <2>3, FilesSame, WorkerMoves DEF k, m, q
  <1>6. CASE ~ok
    <2> DEFINE k == private'[w]["mod"]
    <2>1. /\ private' = [v \in Workers |-> [x \in Names |-> private'[v][x]]]
          /\ \A v \in Workers \ {w} : private'[v]["mod"] = private[v]["mod"]
          /\ k = [m EXCEPT !.staged = Missing]
      BY <1>1, <1>6 DEF Discarded, InstallInv, Names
    <2>2. ~m.backedUp /\ ~m.installed /\ ~Holding(q, m, safe)
      BY <1>1, <1>2 DEF Sound, Progress, Holding, Outside, Forward
    <2>3. IsItem(k) /\ ~k.backedUp /\ ~k.installed
      BY <1>2, <2>1, <2>2 DEF IsItem, ItemFields
    <2>4. workers' = [workers EXCEPT ![w] = Idle(q.jobs)]
      BY <1>1, <1>6 DEF Ends, Becomes
    <2> HIDE DEF k, m, q
    <2> QED BY <1>1, <1>2, <2>1, <2>2, <2>3, <2>4, EndSound, FilesSame, WorkerMoves DEF k, m, q
  <1> QED BY <1>5, <1>6

\* The way back begins; the files and the copies stay as they are.
LEMMA RollsBackKeeps ==
  ASSUME InstallInv, NEW w \in Workers, workers[w].step \in {"backup", "check", "install"}, RollsBack(w),
         files' = files, private' = private, safe' = safe, shown' = shown
  PROVE  InstallInv'
  <1> DEFINE q == workers[w]
             m == private[w]["mod"]
             r == [q EXCEPT !.step = "remove", !.left = Reversed(ChangedFiles(q.preview))]
  <1>1. workers' = [workers EXCEPT ![w] = r]
    BY DEF RollsBack, Becomes, Changes
  <1>2. Sound(q, m, safe) /\ IsWorker(q) /\ \A p \in shown' : PreviewOK(p)
    BY Walks
  <1>3. IsWorker(r) /\ r.step = "remove" /\ r.left = Reversed(ChangedFiles(q.preview)) /\ r.preview = q.preview
    BY <1>2 DEF IsWorker, WorkerFields
  <1> HIDE DEF r
  <1>4. Sound(r, m, safe) /\ (Holding(q, m, safe) => Holding(r, m, safe))
    BY <1>2, <1>3, RollsBackSound
  <1> QED BY <1>1, <1>2, <1>4, FilesSame, PrivateSame, WorkerMoves

\* A step of the worker that leaves go.mod and its copies alone.
LEMMA OnlyWorkerMoves ==
  ASSUME InstallInv, NEW w \in Workers, NEW r, workers' = [workers EXCEPT ![w] = r],
         files' = files \/ files' = [files EXCEPT !["sum"] = files'["sum"]],
         private' = [v \in Workers |-> [x \in Names |-> private'[v][x]]],
         \A v \in Workers : private'[v]["mod"] = private[v]["mod"], safe' = safe, shown' = shown,
         Sound(r, private[w]["mod"], safe),
         Holding(workers[w], private[w]["mod"], safe) => Holding(r, private[w]["mod"], safe)
  PROVE  InstallInv'
  <1>1. \A p \in shown' : PreviewOK(p)
    BY Walks
  <1> QED BY <1>1, FilesSame, WorkerMoves

LEMMA BackupKeeps ==
  ASSUME InstallInv, NEW w \in Workers, NEW ok \in BOOLEAN, Backup(w, ok)
  PROVE  InstallInv'
  <1> DEFINE q == workers[w]
             m == private[w]["mod"]
             n == Current(w)
             expected == q.preview.before[n]
             new == [private[w][n] EXCEPT !.backup = files[n], !.backedUp = TRUE]
             r == [q EXCEPT !.step = "check"]
  <1>1. /\ q.step = "backup" /\ safe' = safe /\ shown' = shown
        /\ \/ RollsBack(w) /\ files' = files /\ private' = private
           \/ ~expected.there /\ Advance(w, "install") /\ files' = files /\ private' = private
           \/ /\ files[n].there = expected.there /\ expected.there
              /\ files' = [files EXCEPT ![n] = Missing] /\ SetPrivate(w, n, new) /\ workers' = [workers EXCEPT ![w] = r]
    BY DEF Backup, At, server, history, GoesTo, Becomes
  <1>2. /\ Sound(q, m, safe) /\ IsItem(m) /\ n \in Names /\ IsWorker(q) /\ PreviewOK(q.preview) /\ n = Head(q.left)
        /\ \A p \in shown' : PreviewOK(p)
    BY <1>1, Walks DEF Forward, Current
  <1>3. IsWorker(r) /\ r.step = "check" /\ r.left = q.left /\ r.preview = q.preview
    BY <1>2 DEF IsWorker, WorkerFields
  <1>4. n = "mod" => expected.there
    BY <1>2 DEF PreviewOK
  <1> HIDE DEF n, r
  <1>5. CASE RollsBack(w) /\ files' = files /\ private' = private
    BY <1>1, <1>5, RollsBackKeeps
  <1>6. CASE ~expected.there /\ Advance(w, "install") /\ files' = files /\ private' = private
    <2>1. n = "sum" /\ q.left = OnlySum
      BY <1>1, <1>2, <1>4, <1>6, Lists, Lefts DEF Names, Forward
    <2>2. PICK x : /\ workers' = [workers EXCEPT ![w] = x] /\ IsWorker(x) /\ x.preview = q.preview
                   /\ x.step = "install" /\ x.left = ChangedFiles(q.preview)
      BY <1>6, <2>1, AdvanceMoves, Lists
    <2>3. Sound(x, m, safe) /\ (Holding(q, m, safe) => Holding(x, m, safe))
      BY <1>1, <1>2, <2>1, <2>2, BackupSumSound
    <2> QED BY <1>1, <1>6, <2>2, <2>3, PrivateSame, OnlyWorkerMoves
  <1>7. CASE /\ files[n].there = expected.there /\ expected.there
             /\ files' = [files EXCEPT ![n] = Missing] /\ SetPrivate(w, n, new) /\ workers' = [workers EXCEPT ![w] = r]
    <2>1. CASE n = "sum"
      <3>1. Sound(r, m, safe) /\ (Holding(q, m, safe) => Holding(r, m, safe))
        BY <1>1, <1>2, <1>3, <2>1, BackupSumSound
      <3>2. files' = [files EXCEPT !["sum"] = files'["sum"]]
        BY <1>7, <2>1 DEF InstallInv, Names
      <3> HIDE DEF new
      <3>3. /\ private' = [v \in Workers |-> [x \in Names |-> private'[v][x]]]
            /\ \A v \in Workers : private'[v]["mod"] = private[v]["mod"]
        BY <1>2, <1>7, <2>1, PrivateSet
      <3> QED BY <1>1, <1>7, <3>1, <3>2, <3>3, OnlyWorkerMoves
    <2>2. CASE n = "mod"
      <3>1. IsFile(files["mod"]) /\ files["mod"].there /\ safe \subseteq files["mod"].edits
        BY <1>7, <2>2 DEF InstallInv
      <3>2. /\ IsItem(new) /\ new.backup = files["mod"] /\ new.backedUp /\ new.installed = m.installed
            /\ new.staged = m.staged
        BY <1>2, <2>2 DEF IsItem, ItemFields
      <3> HIDE DEF new
      <3>3. Sound(r, new, safe) /\ Holding(r, new, safe)
        BY <1>1, <1>2, <1>3, <2>2, <3>1, <3>2, BackupModSound, SMTT(30)
      <3>4. /\ private' = [v \in Workers |-> [x \in Names |-> private'[v][x]]] /\ private'[w]["mod"] = new
            /\ \A v \in Workers \ {w} : private'[v]["mod"] = private[v]["mod"]
        BY <1>2, <1>7, <2>2, PrivateSet
      <3>5. files' = [x \in Names |-> files'[x]] /\ files'["mod"] = Missing
        BY <1>2, <1>7, <2>2, FilesSet
      <3>6. IsFile(Missing) /\ ~Missing.there
        BY DEF Missing, IsFile
      <3> QED BY <1>1, <1>2, <1>7, <3>3, <3>4, <3>5, <3>6, WorkerMoves
    <2> QED BY <1>2, <2>1, <2>2 DEF Names
  <1> QED BY <1>1, <1>5, <1>6, <1>7

LEMMA CheckBackupKeeps ==
  ASSUME InstallInv, NEW w \in Workers, NEW ok \in BOOLEAN, CheckBackup(w, ok)
  PROVE  InstallInv'
  <1> DEFINE q == workers[w]
             m == private[w]["mod"]
             n == Current(w)
             r1 == [q EXCEPT !.step = "backup", !.left = Tail(@)]
             r2 == [q EXCEPT !.step = "install", !.left = ChangedFiles(q.preview)]
  <1>1. /\ q.step = "check" /\ safe' = safe /\ shown' = shown /\ files' = files /\ private' = private
        /\ \/ RollsBack(w)
           \/ /\ private[w][n].backup = q.preview.before[n]
              /\ workers' = [workers EXCEPT ![w] = IF Len(q.left) > 1 THEN r1 ELSE r2]
    BY DEF CheckBackup, At, server, history, Becomes, SameFileState, Changes
  <1>2. /\ Sound(q, m, safe) /\ n \in Names /\ IsWorker(q) /\ n = Head(q.left)
    BY <1>1, Walks DEF Forward, Current
  <1>3. /\ IsWorker(r1) /\ r1.step = "backup" /\ r1.left = Tail(q.left) /\ r1.preview = q.preview
    BY <1>2 DEF IsWorker, WorkerFields
  <1>4. /\ IsWorker(r2) /\ r2.step = "install" /\ r2.left = ChangedFiles(q.preview) /\ r2.preview = q.preview
    BY <1>2 DEF IsWorker, WorkerFields
  <1> HIDE DEF n, r1, r2
  <1>5. CASE RollsBack(w)
    BY <1>1, <1>5, RollsBackKeeps
  <1>6. CASE /\ private[w][n].backup = q.preview.before[n]
             /\ workers' = [workers EXCEPT ![w] = IF Len(q.left) > 1 THEN r1 ELSE r2]
    <2>1. Head(q.left) = "mod" => m.backup = q.preview.before["mod"]
      BY <1>2, <1>6
    <2> DEFINE r == IF Len(q.left) > 1 THEN r1 ELSE r2
    <2>2. /\ IsWorker(r) /\ r.preview = q.preview
          /\ IF Len(q.left) > 1 THEN r.step = "backup" /\ r.left = Tail(q.left)
             ELSE r.step = "install" /\ r.left = ChangedFiles(q.preview)
      BY <1>3, <1>4
    <2> HIDE DEF r
    <2>3. Sound(r, m, safe) /\ (Holding(q, m, safe) => Holding(r, m, safe))
      BY <1>1, <1>2, <2>1, <2>2, CheckSound
    <2> QED BY <1>1, <1>6, <2>3, PrivateSame, OnlyWorkerMoves DEF r
  <1> QED BY <1>1, <1>5, <1>6

LEMMA InstallKeeps ==
  ASSUME InstallInv, NEW w \in Workers, NEW ok \in BOOLEAN, Install(w, ok)
  PROVE  InstallInv'
  <1> DEFINE q == workers[w]
             m == private[w]["mod"]
             n == Current(w)
             new == [private[w][n] EXCEPT !.staged = Missing, !.installed = TRUE]
  <1>1. /\ q.step = "install" /\ safe' = safe /\ shown' = shown
        /\ \/ RollsBack(w) /\ files' = files /\ private' = private
           \/ /\ files' = [files EXCEPT ![n] = private[w][n].staged] /\ SetPrivate(w, n, new) /\ Advance(w, "clean")
    BY DEF Install, At, server, history
  <1>2. /\ Sound(q, m, safe) /\ IsItem(m) /\ n \in Names /\ n = Head(q.left) /\ \A p \in shown' : PreviewOK(p)
    BY <1>1, Walks DEF Forward, Current
  <1> HIDE DEF n
  <1>3. CASE RollsBack(w) /\ files' = files /\ private' = private
    BY <1>1, <1>3, RollsBackKeeps
  <1>4. CASE files' = [files EXCEPT ![n] = private[w][n].staged] /\ SetPrivate(w, n, new) /\ Advance(w, "clean")
    <2>1. PICK r : /\ workers' = [workers EXCEPT ![w] = r] /\ IsWorker(r) /\ r.preview = q.preview
                   /\ IF Len(q.left) > 1 THEN r.step = q.step /\ r.left = Tail(q.left)
                      ELSE r.step = "clean" /\ r.left = ChangedFiles(q.preview)
      BY <1>4, AdvanceMoves
    <2>2. CASE n = "sum"
      <3>1. q.left = OnlySum
        BY <1>1, <1>2, <2>2, Lists, Lefts DEF Forward
      <3>2. Sound(r, m, safe) /\ ~Holding(q, m, safe)
        BY <1>1, <1>2, <2>1, <2>2, <3>1, Lists, InstallSumSound
      <3>3. files' = [files EXCEPT !["sum"] = files'["sum"]]
        BY <1>4, <2>2 DEF InstallInv, Names
      <3> HIDE DEF new
      <3>4. /\ private' = [v \in Workers |-> [x \in Names |-> private'[v][x]]]
            /\ \A v \in Workers : private'[v]["mod"] = private[v]["mod"]
        BY <1>2, <1>4, <2>2, PrivateSet
      <3> QED BY <1>1, <2>1, <3>2, <3>3, <3>4, OnlyWorkerMoves
    <2>3. CASE n = "mod"
      <3>1. IsItem(new) /\ new.backup = m.backup /\ new.backedUp = m.backedUp /\ new.installed
        BY <1>2, <2>3 DEF IsItem, ItemFields
      <3> HIDE DEF new
      <3>2. Sound(r, new, safe) /\ IsFile(m.staged) /\ m.staged.there /\ safe \subseteq m.staged.edits
        BY <1>1, <1>2, <2>1, <2>3, <3>1, InstallModSound
      <3>3. /\ private' = [v \in Workers |-> [x \in Names |-> private'[v][x]]] /\ private'[w]["mod"] = new
            /\ \A v \in Workers \ {w} : private'[v]["mod"] = private[v]["mod"]
        BY <1>2, <1>4, <2>3, PrivateSet
      <3>4. files' = [x \in Names |-> files'[x]] /\ files'["mod"] = m.staged
        BY <1>2, <1>4, <2>3, FilesSet
      <3> QED BY <1>1, <1>2, <2>1, <3>2, <3>3, <3>4, WorkerMoves
    <2> QED BY <1>2, <2>2, <2>3 DEF Names
  <1> QED BY <1>1, <1>3, <1>4

LEMMA RemoveInstalledKeeps ==
  ASSUME InstallInv, NEW w \in Workers, NEW ok \in BOOLEAN, RemoveInstalled(w, ok)
  PROVE  InstallInv'
  <1> DEFINE q == workers[w]
             m == private[w]["mod"]
             n == Current(w)
             r == [q EXCEPT !.step = "restore"]
  <1>1. /\ q.step = "remove" /\ safe' = safe /\ shown' = shown /\ private' = private /\ workers' = [workers EXCEPT ![w] = r]
        /\ files' = files \/ (private[w][n].installed /\ files' = [files EXCEPT ![n] = Missing])
    BY DEF RemoveInstalled, At, server, GoesTo, Becomes
  <1>2. /\ Sound(q, m, safe) /\ n \in Names /\ IsWorker(q) /\ \A p \in shown' : PreviewOK(p)
    BY <1>1, Walks DEF Backward
  <1>3. IsWorker(r) /\ r.step = "restore" /\ r.left = q.left /\ r.preview = q.preview
    BY <1>2 DEF IsWorker, WorkerFields
  <1> HIDE DEF n, r
  <1>4. Sound(r, m, safe) /\ (Holding(q, m, safe) => Holding(r, m, safe)) /\ (m.installed => Holding(r, m, safe))
    BY <1>1, <1>2, <1>3, RemoveSound
  <1>5. CASE files' = files
    BY <1>1, <1>4, <1>5, PrivateSame, OnlyWorkerMoves
  <1>6. CASE private[w][n].installed /\ files' = [files EXCEPT ![n] = Missing]
    <2>1. CASE n = "sum"
      <3>1. files' = [files EXCEPT !["sum"] = files'["sum"]]
        BY <1>6, <2>1 DEF InstallInv, Names
      <3> QED BY <1>1, <1>4, <3>1, PrivateSame, OnlyWorkerMoves
    <2>2. CASE n = "mod"
      <3>1. files' = [x \in Names |-> files'[x]] /\ files'["mod"] = Missing
        BY <1>2, <1>6, <2>2, FilesSet
      <3>2. IsFile(Missing) /\ ~Missing.there
        BY DEF Missing, IsFile
      <3> QED BY <1>1, <1>2, <1>4, <1>6, <2>2, <3>1, <3>2, PrivateSame, WorkerMoves
    <2> QED BY <1>2, <2>1, <2>2 DEF Names
  <1> QED BY <1>1, <1>5, <1>6

LEMMA RestoreKeeps ==
  ASSUME InstallInv, NEW w \in Workers, NEW ok \in BOOLEAN, Restore(w, ok)
  PROVE  InstallInv'
  <1> DEFINE q == workers[w]
             m == private[w]["mod"]
             n == Current(w)
             item == private[w][n]
             kept == [Unstaged EXCEPT !.backup = item.backup]
             r == [q EXCEPT !.step = "remove", !.left = Tail(@)]
  <1>1. /\ q.step = "restore" /\ safe' = safe /\ shown' = shown
        /\ ~item.backedUp => ok
        /\ files' = IF item.backedUp /\ ok THEN [files EXCEPT ![n] = item.backup] ELSE files
        /\ SetPrivate(w, n, IF ok THEN Unstaged ELSE kept)
        /\ workers' = [workers EXCEPT ![w] = IF Len(q.left) > 1 THEN r ELSE Idle(q.jobs)]
    BY DEF Restore, At, server, Ends, Becomes
  <1>2. /\ Sound(q, m, safe) /\ IsItem(m) /\ n \in Names /\ IsWorker(q) /\ n = Head(q.left) /\ \A p \in shown' : PreviewOK(p)
    BY <1>1, Walks DEF Backward, Current
  <1>3. IsWorker(r) /\ r.step = "remove" /\ r.left = Tail(q.left) /\ r.preview = q.preview
    BY <1>2 DEF IsWorker, WorkerFields
  <1>4. /\ IsItem(kept) /\ kept.backup = item.backup /\ ~kept.backedUp /\ ~kept.installed
        /\ IsItem(Unstaged) /\ ~Unstaged.backedUp /\ ~Unstaged.installed
    BY DEF Unstaged, IsItem, ItemFields
  <1> HIDE DEF n, r, kept
  <1>5. CASE n = "sum"
    <2>1. files' = files \/ files' = [files EXCEPT !["sum"] = files'["sum"]]
      BY <1>1, <1>5 DEF InstallInv, Names
    <2>2. /\ private' = [v \in Workers |-> [x \in Names |-> private'[v][x]]]
          /\ \A v \in Workers : private'[v]["mod"] = private[v]["mod"]
      BY <1>1, <1>2, <1>5, PrivateSet
    <2>3. CASE Len(q.left) > 1
      <3>1. Sound(r, m, safe) /\ (Holding(q, m, safe) => Holding(r, m, safe))
        BY <1>1, <1>2, <1>3, <1>5, <2>3, RestoreSound
      <3> QED BY <1>1, <2>1, <2>2, <2>3, <3>1, OnlyWorkerMoves
    <2>4. CASE ~(Len(q.left) > 1)
      <3>1. q.left = OnlySum
        BY <1>1, <1>2, <1>5, <2>4, Lists, Lefts DEF Backward
      <3>2. ~m.backedUp /\ ~m.installed /\ ~Holding(q, m, safe)
        BY <1>1, <1>2, <1>5, <3>1, Lists, RestoreSound
      <3>3. Sound(Idle(q.jobs), m, safe)
        BY <1>2, <3>2, EndSound
      <3> QED BY <1>1, <2>1, <2>2, <2>4, <3>2, <3>3, OnlyWorkerMoves
    <2> QED BY <2>3, <2>4
  <1>6. CASE n = "mod"
    <2>1. Len(q.left) = 1 /\ (~m.backedUp => ~Holding(q, m, safe))
      BY <1>1, <1>2, <1>6, RestoreSound
    <2>2. workers' = [workers EXCEPT ![w] = Idle(q.jobs)]
      BY <1>1, <2>1
    <2> DEFINE k == IF ok THEN Unstaged ELSE kept
    <2>3. /\ private' = [v \in Workers |-> [x \in Names |-> private'[v][x]]] /\ private'[w]["mod"] = k
          /\ \A v \in Workers \ {w} : private'[v]["mod"] = private[v]["mod"]
      BY <1>1, <1>2, <1>6, PrivateSet
    <2>4. /\ Sound(Idle(q.jobs), k, safe)
          /\ ~ok /\ safe \subseteq m.backup.edits => Holding(Idle(q.jobs), k, safe)
      BY <1>4, <1>6, EndSound
    <2>5. m.backedUp => IsFile(m.backup) /\ m.backup.there /\ safe \subseteq m.backup.edits
      BY <1>2 DEF Sound
    <2> HIDE DEF k
    <2>6. CASE m.backedUp /\ ok
      <3>1. files' = [x \in Names |-> files'[x]] /\ files'["mod"] = m.backup
        BY <1>1, <1>2, <1>6, <2>6, FilesSet
      <3> QED BY <1>1, <1>2, <2>2, <2>3, <2>4, <2>5, <2>6, <3>1, WorkerMoves
    <2>7. CASE ~(m.backedUp /\ ok)
      <3>1. files' = files
        BY <1>1, <1>6, <2>7
      <3>2. Holding(Idle(q.jobs), k, safe) \/ ~Holding(q, m, safe)
        BY <1>1, <1>6, <2>1, <2>4, <2>5, <2>7
      <3> QED BY <1>1, <1>2, <2>2, <2>3, <2>4, <3>1, <3>2, FilesSame, WorkerMoves
    <2> QED BY <2>6, <2>7
  <1> QED BY <1>2, <1>5, <1>6 DEF Names

LEMMA CleanKeeps ==
  ASSUME InstallInv, NEW w \in Workers, NEW ok \in BOOLEAN, Clean(w, ok)
  PROVE  InstallInv'
  <1> DEFINE q == workers[w]
             m == private[w]["mod"]
             n == Current(w)
             kept == [Unstaged EXCEPT !.backup = private[w][n].backup]
             r1 == [q EXCEPT !.left = Tail(@), !.failed = @ \/ ~ok]
             r2 == [q EXCEPT !.step = "reported", !.failed = @ \/ ~ok]
  <1>1. /\ q.step = "clean" /\ safe' = safe /\ shown' = shown /\ files' = files
        /\ SetPrivate(w, n, IF ok THEN Unstaged ELSE kept)
        /\ workers' = [workers EXCEPT ![w] = IF Len(q.left) > 1 THEN r1 ELSE r2]
    BY DEF Clean, At, server, Becomes
  <1>2. /\ Sound(q, m, safe) /\ n \in Names /\ IsWorker(q) /\ n = Head(q.left) /\ \A p \in shown' : PreviewOK(p)
    BY <1>1, Walks DEF Forward, Current
  <1>3. IsWorker(r1) /\ r1.step = "clean" /\ r1.left = Tail(q.left) /\ r1.preview = q.preview
    BY <1>1, <1>2 DEF IsWorker, WorkerFields
  <1>4. IsWorker(r2) /\ r2.step = "reported" /\ r2.preview = q.preview
    BY <1>2 DEF IsWorker, WorkerFields
  <1>5. /\ IsItem(kept) /\ ~kept.backedUp /\ ~kept.installed
        /\ IsItem(Unstaged) /\ ~Unstaged.backedUp /\ ~Unstaged.installed
    BY DEF Unstaged, IsItem, ItemFields
  <1> HIDE DEF n, r1, r2, kept
  <1> DEFINE r == IF Len(q.left) > 1 THEN r1 ELSE r2
             k == private'[w]["mod"]
  <1>6. /\ IsWorker(r) /\ r.preview = q.preview
        /\ IF Len(q.left) > 1 THEN r.step = "clean" /\ r.left = Tail(q.left) ELSE r.step = "reported"
    BY <1>3, <1>4
  <1>7. /\ private' = [v \in Workers |-> [x \in Names |-> private'[v][x]]]
        /\ \A v \in Workers \ {w} : private'[v]["mod"] = private[v]["mod"]
        /\ n = "mod" => k = (IF ok THEN Unstaged ELSE kept)
        /\ n # "mod" => k = m
    BY <1>1, <1>2, PrivateSet DEF Names
  <1>8. IF n = "mod" THEN IsItem(k) /\ ~k.backedUp /\ ~k.installed ELSE k = m
    BY <1>5, <1>7
  <1>9. workers' = [workers EXCEPT ![w] = r]
    BY <1>1
  <1> HIDE DEF r, k
  <1>10. Sound(r, k, safe) /\ ~Holding(q, m, safe)
    BY <1>1, <1>2, <1>6, <1>8, CleanSound
  <1> QED BY <1>1, <1>2, <1>7, <1>9, <1>10, FilesSame, WorkerMoves DEF k

\* An edit counts when no worker has go.mod in its backup: then every backup that counts already has the others.
LEMMA EditKeeps ==
  ASSUME InstallInv, NEW n \in Names, Edit(n)
  PROVE  InstallInv'
  <1> DEFINE e == Cardinality(edits) + 1
  <1>1. /\ workers' = workers /\ private' = private /\ shown' = shown /\ files[n].there
        /\ files' = [files EXCEPT ![n].edits = @ \cup {e}]
        /\ \/ safe' = safe
           \/ n = "mod" /\ (\A w \in Workers : ~private[w]["mod"].backedUp) /\ safe' = safe \cup {e}
    BY DEF Edit, server
  <1> HIDE DEF e
  <1>2. \A w \in Workers : Sound(workers'[w], private'[w]["mod"], safe')
    <2> SUFFICES ASSUME NEW w \in Workers PROVE Sound(workers[w], private[w]["mod"], safe')
      BY <1>1
    <2>1. Sound(workers[w], private[w]["mod"], safe)
      BY DEF InstallInv
    <2> QED BY <1>1, <2>1 DEF Sound
  <1>3. CASE n = "mod"
    <2>1. /\ files' = [k \in Names |-> files'[k]] /\ IsFile(files'["mod"]) /\ files'["mod"].there
          /\ files'["mod"].edits = files["mod"].edits \cup {e}
      BY <1>1, <1>3 DEF InstallInv, IsFile
    <2> QED BY <1>1, <1>2, <1>3, <2>1 DEF InstallInv
  <1>4. CASE n = "sum"
    <2>1. files' = [k \in Names |-> files'[k]] /\ files'["mod"] = files["mod"] /\ safe' = safe
      BY <1>1, <1>4 DEF InstallInv, Names
    <2> QED BY <1>1, <1>2, <2>1 DEF InstallInv
  <1> QED BY <1>3, <1>4 DEF Names

-----------------------------------------------------------------------------
(* All steps.                                                              *)

LEMMA InstallStart == Init => InstallInv
  <1> SUFFICES ASSUME Init PROVE InstallInv
    OBVIOUS
  <1>1. /\ files["mod"] = [Missing EXCEPT !.there = TRUE] /\ files = [n \in Names |-> files[n]]
        /\ workers = [w \in Workers |-> Idle(0)] /\ private = [w \in Workers |-> [n \in Names |-> Unstaged]]
        /\ shown = {} /\ safe = {}
    <2>1. /\ workers = [w \in Workers |-> Idle(0)] /\ private = [w \in Workers |-> [n \in Names |-> Unstaged]]
          /\ shown = {} /\ safe = {}
      BY DEF Init, InstallInit
    <2>2. PICK sum : files = [mod |-> [Missing EXCEPT !.there = TRUE], sum |-> sum]
      BY DEF Init, InstallInit
    <2>3. files["mod"] = [Missing EXCEPT !.there = TRUE]
      BY <2>2
    <2>4. files = [n \in Names |-> files[n]]
      BY <2>2 DEF Names
    <2> QED BY <2>1, <2>3, <2>4
  <1>2. IsFile(files["mod"]) /\ files["mod"].there
    BY <1>1 DEF Missing, IsFile
  <1>3. IsItem(Unstaged) /\ ~Unstaged.backedUp /\ ~Unstaged.installed
    BY DEF Unstaged, IsItem, ItemFields
  <1>4. \A w \in Workers : Sound(workers[w], private[w]["mod"], safe)
    BY <1>1, <1>3, EndSound DEF Names
  <1> QED BY <1>1, <1>2, <1>4 DEF InstallInv

LEMMA InstallStep == InstallInv /\ [Next]_vars => InstallInv'
  <1> SUFFICES ASSUME InstallInv, [Next]_vars PROVE InstallInv'
    OBVIOUS
  <1>1. CASE UNCHANGED installVars
    BY <1>1 DEF InstallInv, installVars
  <1>2. CASE InstallNext
    <2>1. ASSUME NEW w \in Workers, NEW pick \in Selections, NEW apply \in BOOLEAN, AddCommand(w, pick, apply)
          PROVE  InstallInv'
      BY <2>1, StartKeeps DEF AddCommand
    <2>2. ASSUME NEW w \in Workers, NEW tool \in Tools, PreviewCommand(w, tool) PROVE InstallInv'
      BY <2>2, StartKeeps DEF PreviewCommand
    <2>3. ASSUME NEW w \in Workers, NEW preview \in shown, ApplyCommand(w, preview) PROVE InstallInv'
      BY <2>3, ApplyCommandKeeps
    <2>4. ASSUME NEW w \in Workers, Completion(w) PROVE InstallInv'
      BY <2>4, StartKeeps DEF Completion
    <2>5. ASSUME NEW w \in Workers, CatalogFromCache(w) \/ Discover(w) \/ StoreCatalog(w) PROVE InstallInv'
      BY <2>5, CatalogKeeps
    <2>6. ASSUME NEW w \in Workers, AnswerPreview(w) \/ AnswerAdd(w) \/ Report(w) PROVE InstallInv'
      BY <2>6, AnswerKeeps
    <2>7. ASSUME NEW w \in Workers, NEW ok \in BOOLEAN, ReadMod(w, ok) \/ ReadSum(w, ok) \/ CopyFiles(w, ok) \/ RunGet(w, ok)
          PROVE  InstallInv'
      BY <2>7, ReadKeeps, RunGetKeeps
    <2>8. ASSUME NEW w \in Workers, NEW ok \in BOOLEAN, NEW n \in Names, Guard(w, n, ok) PROVE InstallInv'
      BY <2>8, GuardKeeps
    <2>9. ASSUME NEW w \in Workers, NEW ok \in BOOLEAN, Stage(w, ok) \/ Backup(w, ok) \/ CheckBackup(w, ok) \/ Install(w, ok)
          PROVE  InstallInv'
      BY <2>9, StageKeeps, BackupKeeps, CheckBackupKeeps, InstallKeeps
    <2>10. ASSUME NEW w \in Workers, NEW ok \in BOOLEAN, RemoveInstalled(w, ok) \/ Restore(w, ok) \/ Clean(w, ok)
           PROVE  InstallInv'
      BY <2>10, RemoveInstalledKeeps, RestoreKeeps, CleanKeeps
    <2>11. ASSUME CatalogExpires PROVE InstallInv'
      BY <2>11 DEF CatalogExpires, InstallInv, server, history
    <2>12. ASSUME NEW n \in Names, Edit(n) PROVE InstallInv'
      BY <2>12, EditKeeps
    <2> QED BY <1>2, <2>1, <2>2, <2>3, <2>4, <2>5, <2>6, <2>7, <2>8, <2>9, <2>10, <2>11, <2>12 DEF InstallNext
  <1> QED BY <1>1, <1>2 DEF Next, vars

\* No edit of go.mod is lost, for any number of workers that plan and apply changes of the module files at the same
\* time, any edits of the user between their steps and any failures: it is in go.mod, or in the backup of a worker
\* that has not replaced it.
THEOREM EditsOfTheUserSurvive == Spec => []EditsSurvive
  <1>1. ASSUME InstallInv PROVE EditsSurvive
    <2>1. CASE files["mod"].there
      BY <1>1, <2>1 DEF InstallInv, EditsSurvive
    <2>2. CASE ~files["mod"].there
      BY <1>1, <2>2 DEF InstallInv, Holding, EditsSurvive
    <2> QED BY <2>1, <2>2
  <1> QED BY <1>1, InstallStart, InstallStep, PTL DEF Spec

-----------------------------------------------------------------------------
(* Both module files or none.                                              *)

ListedIn(list) == {list[i] : i \in 1..Len(list)}
Ahead(r) == ListedIn(r.left)
Touched(p) == {n \in Names : p.before[n] # p.after[n]}
Same(f, g) == (f.there <=> g.there) /\ f.has = g.has
Clear(item) == ~item.backedUp /\ ~item.installed
IsContent(f) == IsFile(f) /\ (f.there \/ f.has = {})
IsCopy(item) == IsItem(item) /\ IsContent(item.backup)

\* What go get makes of the files of a preview.
Fits(p) ==
  /\ \A n \in Names : IsContent(p.before[n]) /\ IsContent(p.after[n])
  /\ p.after["mod"].has = p.before["mod"].has \cup {p.pick}
  /\ p.after["sum"].has = p.before["sum"].has \cup (p.after["mod"].has \cap Summed)

\* The rollback can make a file f what it was, b.
Stored(item, f, b) ==
  IF item.backedUp THEN Same(item.backup, b) ELSE IF item.installed THEN ~b.there ELSE Same(f, b)

\* How far a worker r is with the file n: f is what is there and item its private copies.
FileAt(r, n, f, item) ==
  LET b == r.preview.before[n]
      a == r.preview.after[n]
      planned == n \in Touched(r.preview)
      ahead == n \in Ahead(r)
      later == ahead /\ n # Head(r.left)
      secured == item.backedUp \/ ~b.there
  IN /\ ~planned => Clear(item)
     /\ r.step = "stage" => Same(f, b) /\ Clear(item) /\ (planned /\ ~ahead => item.staged = a)
     /\ r.step = "backup" =>
          /\ Stored(item, f, b) /\ ~item.installed
          /\ planned => item.staged = a /\ (IF ahead THEN ~item.backedUp ELSE secured)
     /\ r.step = "check" =>
          /\ Stored(item, f, b) /\ ~item.installed
          /\ planned => item.staged = a /\ (IF later THEN ~item.backedUp ELSE secured)
     /\ r.step = "install" =>
          /\ Stored(item, f, b)
          /\ planned => secured /\ (IF ahead THEN item.staged = a /\ ~item.installed ELSE Same(f, a))
     /\ r.step = "clean" => Same(f, a) /\ (~ahead => Clear(item))
     /\ r.step = "reported" => Same(f, a) /\ Clear(item)
     /\ r.step = "remove" => IF ahead THEN Stored(item, f, b) ELSE Same(f, b) /\ Clear(item)
     /\ r.step = "restore" => IF later THEN Stored(item, f, b)
                              ELSE IF ahead THEN Same(IF item.backedUp THEN item.backup ELSE f, b)
                              ELSE Same(f, b) /\ Clear(item)

\* The files fs hold exactly the selections s that were reported as applied.
Settled(fs, s) == fs["mod"].there /\ fs["mod"].has = s /\ fs["sum"].has = s \cap Summed

ApplySteps == {"guardSum", "stage", "backup", "check", "install", "remove", "restore", "clean", "reported"}

\* A worker r that applies, with its copies m.
Hand(r, m, fs, s) ==
  /\ r.preview.before["mod"].has = s
  /\ r.step = "guardSum" => Settled(fs, s) /\ \A n \in Names : Clear(m[n])
  /\ r.step # "guardSum" => /\ r.preview.before["sum"].has = s \cap Summed
                            /\ \A n \in Names : FileAt(r, n, fs[n], m[n])

\* What a worker knows.
Knows(r) ==
  /\ ~r.failed
  /\ r.step \in {"readSum", "copy", "get"} => IsContent(r.seen["mod"])
  /\ r.step \in {"copy", "get"} => IsContent(r.seen["sum"])
  /\ r.step \in {"previewed", "guardMod"} \cup ApplySteps => Fits(r.preview) /\ r.pick = r.preview.pick

\* At most one worker applies; when nobody does, the files are settled.
Whole ==
  /\ \A n \in Names : IsContent(files[n])
  /\ \A p \in shown : Fits(p)
  /\ \A w \in Workers : Knows(workers[w]) /\ \A n \in Names : IsCopy(private[w][n])
  /\ \A v, w \in Workers : workers[v].step \in ApplySteps /\ workers[w].step \in ApplySteps => v = w
  /\ \A w \in Workers : IF workers[w].step \in ApplySteps THEN Hand(workers[w], private[w], files, applied)
                                                          ELSE \A n \in Names : Clear(private[w][n])
  /\ (\A w \in Workers : workers[w].step \notin ApplySteps) => Settled(files, applied)

WholeInv == ~stuck /\ ~overlapped => Whole

-----------------------------------------------------------------------------
(* The lists of files.                                                     *)

\* The list of changed files has exactly those that change.
LEMMA TouchedLists ==
  ASSUME NEW p
  PROVE  /\ ChangedFiles(p) = OnlyMod => Touched(p) = {"mod"}
         /\ ChangedFiles(p) = OnlySum => Touched(p) = {"sum"}
         /\ ChangedFiles(p) = Both => Touched(p) = {"mod", "sum"}
  <1> DEFINE Changed(n) == IF p.before[n] # p.after[n] THEN <<n>> ELSE <<>>
  <1>1. ChangedFiles(p) = Changed("mod") \o Changed("sum")
    BY DEF ChangedFiles
  <1>2. /\ "mod" \in Touched(p) <=> Changed("mod") = OnlyMod
        /\ "mod" \notin Touched(p) <=> Changed("mod") = <<>>
        /\ "sum" \in Touched(p) <=> Changed("sum") = OnlySum
        /\ "sum" \notin Touched(p) <=> Changed("sum") = <<>>
    BY DEF OnlyMod, OnlySum, Touched, Names
  <1> HIDE DEF Changed
  <1>3. Touched(p) \subseteq {"mod", "sum"}
    BY DEF Touched, Names
  <1>4. <<>> \in Seq(Names) /\ OnlyMod \in Seq(Names) /\ OnlySum \in Seq(Names)
    BY DEF OnlyMod, OnlySum, Names
  <1>5. /\ Len(<<>> \o <<>>) = 0 /\ OnlyMod \o <<>> = OnlyMod /\ <<>> \o OnlySum = OnlySum
        /\ Len(OnlyMod \o OnlySum) = 2
    BY <1>4, ConcatEmptySeq, ConcatProperties DEF OnlyMod, OnlySum
  <1> QED BY <1>1, <1>2, <1>3, <1>5, Lists

\* The names in each of the lists that a worker goes through.
LEMMA ListsHold ==
  /\ ListedIn(OnlyMod) = {"mod"} /\ ListedIn(OnlySum) = {"sum"}
  /\ ListedIn(Both) = {"mod", "sum"} /\ ListedIn(<<"sum", "mod">>) = {"mod", "sum"}
  <1>1. 1..1 = {1} /\ 1..2 = {1, 2}
    OBVIOUS
  <1>2. OnlyMod[1] = "mod" /\ OnlySum[1] = "sum" /\ Both[1] = "mod" /\ Both[2] = "sum"
    BY DEF OnlyMod, OnlySum, Both
  <1> QED BY <1>1, <1>2, Lists DEF ListedIn

\* A worker in its list, without the lists.
LEMMA WalkFacts ==
  ASSUME NEW q, NEW m, NEW s, Sound(q, m, s), q.step \in Forward \cup Backward
  PROVE  /\ Head(q.left) \in Ahead(q) /\ Ahead(q) \subseteq Touched(q.preview)
         /\ Len(q.left) > 1 => /\ ListedIn(Tail(q.left)) = Ahead(q) \ {Head(q.left)}
                               /\ Head(Tail(q.left)) \in Ahead(q) \ {Head(q.left)}
         /\ ~(Len(q.left) > 1) => Ahead(q) = {Head(q.left)}
         /\ ListedIn(ChangedFiles(q.preview)) = Touched(q.preview)
         /\ ListedIn(Reversed(ChangedFiles(q.preview))) = Touched(q.preview)
  <1>1. \/ ChangedFiles(q.preview) = OnlyMod /\ q.left = OnlyMod
        \/ ChangedFiles(q.preview) = OnlySum /\ q.left = OnlySum
        \/ ChangedFiles(q.preview) = Both /\ q.left \in {Both, OnlySum}
        \/ ChangedFiles(q.preview) = Both /\ q.left \in {<<"sum", "mod">>, OnlyMod}
    BY Lefts
  <1>2. CASE ChangedFiles(q.preview) = OnlyMod /\ q.left = OnlyMod
    BY <1>2, Lists, ListsHold, TouchedLists DEF Ahead
  <1>3. CASE ChangedFiles(q.preview) = OnlySum /\ q.left = OnlySum
    BY <1>3, Lists, ListsHold, TouchedLists DEF Ahead
  <1>4. CASE ChangedFiles(q.preview) = Both
    <2>5. /\ Touched(q.preview) = {"mod", "sum"} /\ ListedIn(ChangedFiles(q.preview)) = {"mod", "sum"}
          /\ ListedIn(Reversed(ChangedFiles(q.preview))) = {"mod", "sum"}
      BY <1>4, Lists, ListsHold, TouchedLists
    <2>1. CASE q.left = Both
      <3>1. Ahead(q) = {"mod", "sum"} /\ Head(q.left) = "mod" /\ Len(q.left) = 2
        BY <2>1, Lists, ListsHold DEF Ahead
      <3>2. ListedIn(Tail(q.left)) = {"sum"} /\ Head(Tail(q.left)) = "sum"
        BY <2>1, Lists, ListsHold
      <3> QED BY <2>5, <3>1, <3>2
    <2>2. CASE q.left = OnlySum
      <3>1. Ahead(q) = {"sum"} /\ Head(q.left) = "sum" /\ Len(q.left) = 1
        BY <2>2, Lists, ListsHold DEF Ahead
      <3> QED BY <2>5, <3>1
    <2>3. CASE q.left = <<"sum", "mod">>
      <3>1. Ahead(q) = {"mod", "sum"} /\ Head(q.left) = "sum" /\ Len(q.left) = 2
        BY <2>3, Lists, ListsHold DEF Ahead
      <3>2. ListedIn(Tail(q.left)) = {"mod"} /\ Head(Tail(q.left)) = "mod"
        BY <2>3, Lists, ListsHold
      <3> QED BY <2>5, <3>1, <3>2
    <2>4. CASE q.left = OnlyMod
      <3>1. Ahead(q) = {"mod"} /\ Head(q.left) = "mod" /\ Len(q.left) = 1
        BY <2>4, Lists, ListsHold DEF Ahead
      <3> QED BY <2>5, <3>1
    <2> QED BY <1>1, <1>4, <2>1, <2>2, <2>3, <2>4, Lists
  <1> QED BY <1>1, <1>2, <1>3, <1>4

\* An edit changes nothing that counts.
LEMMA FileAtSame ==
  ASSUME NEW r, NEW n, NEW f, NEW g, NEW item, Same(f, g), FileAt(r, n, f, item)
  PROVE  FileAt(r, n, g, item)
  BY DEF FileAt, Same, Stored

-----------------------------------------------------------------------------
(* Whose step it is.                                                       *)

\* A step of a worker that applies neither before nor after it.
LEMMA OutsideStep ==
  ASSUME InstallInv, Whole, NEW w \in Workers, NEW r, workers' = [workers EXCEPT ![w] = r],
         workers[w].step \notin ApplySteps, r.step \notin ApplySteps, Knows(r),
         files' = files, private' = private, applied' = applied, \A p \in shown' : Fits(p)
  PROVE  Whole'
  <1>1. workers'[w] = r /\ \A v \in Workers \ {w} : workers'[v] = workers[v]
    BY DEF InstallInv
  <1>2. \A v \in Workers : workers'[v].step \in ApplySteps <=> workers[v].step \in ApplySteps
    BY <1>1
  <1>3. \A v \in Workers : workers[v].step \in ApplySteps => workers'[v] = workers[v]
    BY <1>1
  <1>4. \A v \in Workers : Knows(workers'[v])
    BY <1>1 DEF Whole
  <1> QED BY <1>2, <1>3, <1>4 DEF Whole

\* A step of the worker that applies.
LEMMA ApplierSteps ==
  ASSUME InstallInv, Whole, NEW w \in Workers, NEW r, workers' = [workers EXCEPT ![w] = r],
         workers[w].step \in ApplySteps, r.step \in ApplySteps, Knows(r),
         \A v \in Workers \ {w} : private'[v] = private[v],
         \A n \in Names : IsCopy(private'[w][n]) /\ IsContent(files'[n]),
         applied' = applied, shown' = shown, Hand(r, private'[w], files', applied)
  PROVE  Whole'
  <1>1. workers'[w] = r /\ \A v \in Workers \ {w} : workers'[v] = workers[v]
    BY DEF InstallInv
  <1>2. \A v \in Workers \ {w} : workers[v].step \notin ApplySteps
    BY DEF Whole
  <1>3. \A v \in Workers : Knows(workers'[v]) /\ \A n \in Names : IsCopy(private'[v][n])
    BY <1>1 DEF Whole
  <1>4. \A v \in Workers : IF workers'[v].step \in ApplySteps THEN Hand(workers'[v], private'[v], files', applied')
                           ELSE \A n \in Names : Clear(private'[v][n])
    BY <1>1, <1>2 DEF Whole
  <1> QED BY <1>1, <1>2, <1>3, <1>4 DEF Whole

\* The worker that applies comes to its end.
LEMMA ApplierEnds ==
  ASSUME InstallInv, Whole, NEW w \in Workers, NEW r, workers' = [workers EXCEPT ![w] = r],
         workers[w].step \in ApplySteps, r.step \notin ApplySteps, Knows(r),
         \A v \in Workers \ {w} : private'[v] = private[v],
         \A n \in Names : IsCopy(private'[w][n]) /\ Clear(private'[w][n]) /\ IsContent(files'[n]),
         shown' = shown, Settled(files', applied')
  PROVE  Whole'
  <1>1. workers'[w] = r /\ \A v \in Workers \ {w} : workers'[v] = workers[v]
    BY DEF InstallInv
  <1>2. \A v \in Workers \ {w} : workers[v].step \notin ApplySteps
    BY DEF Whole
  <1>3. \A v \in Workers : Knows(workers'[v]) /\ \A n \in Names : IsCopy(private'[v][n])
    BY <1>1 DEF Whole
  <1>4. \A v \in Workers : \A n \in Names : Clear(private'[v][n])
    BY <1>1, <1>2 DEF Whole
  <1> QED BY <1>1, <1>2, <1>3, <1>4 DEF Whole

\* A worker without a job knows nothing and applies nothing.
LEMMA IdleKnows == ASSUME NEW jobs PROVE Knows(Idle(jobs)) /\ Idle(jobs).step \notin ApplySteps
  BY DEF Knows, Idle, ApplySteps

\* The end of a job that applies nothing.
LEMMA OutsideEnds ==
  ASSUME InstallInv, Whole, NEW w \in Workers, Ends(w), workers[w].step \notin ApplySteps,
         files' = files, private' = private, applied' = applied, \A p \in shown' : Fits(p)
  PROVE  Whole'
  BY OutsideStep, IdleKnows DEF Ends, Becomes

-----------------------------------------------------------------------------
(* Steps up to the comparison.                                             *)

\* The record of a worker.
LEMMA WorkerShape ==
  ASSUME InstallInv, NEW w \in Workers
  PROVE  IsWorker(workers[w])
  BY DEF InstallInv, Sound

\* A job begins: spice add, a preview or a completion.
LEMMA StartWhole ==
  ASSUME InstallInv, Whole, NEW w \in Workers, NEW job, NEW pick, NEW step \in {"readMod", "catalog"},
         StartsJob(w, job, pick, step)
  PROVE  Whole'
  <1> DEFINE r == [Idle(workers[w].jobs + 1) EXCEPT !.job = job, !.pick = pick, !.step = step]
  <1>1. /\ workers' = [workers EXCEPT ![w] = r] /\ workers[w].step = "idle"
        /\ files' = files /\ private' = private /\ applied' = applied /\ shown' = shown
    BY DEF StartsJob, Becomes, At, server, history
  <1>2. r.step = step /\ ~r.failed
    BY DEF Idle
  <1> HIDE DEF r
  <1>3. Knows(r) /\ r.step \notin ApplySteps /\ workers[w].step \notin ApplySteps
    BY <1>1, <1>2 DEF Knows, ApplySteps
  <1>4. \A p \in shown' : Fits(p)
    BY <1>1 DEF Whole
  <1> QED BY <1>1, <1>3, <1>4, OutsideStep

\* An apply of a preview that the server remembers, or has forgotten.
LEMMA ApplyCommandWhole ==
  ASSUME InstallInv, Whole, NEW w \in Workers, NEW preview \in shown, ApplyCommand(w, preview)
  PROVE  Whole'
  <1> DEFINE r == IF preview \in previews
                  THEN [Idle(workers[w].jobs + 1) EXCEPT !.job = "apply", !.pick = preview.pick, !.step = "guardMod",
                                                         !.preview = preview]
                  ELSE Idle(workers[w].jobs + 1)
  <1>1. /\ workers' = [workers EXCEPT ![w] = r] /\ workers[w].step = "idle"
        /\ files' = files /\ private' = private /\ applied' = applied /\ shown' = shown
    BY DEF ApplyCommand, Becomes, At, server, history
  <1>2. /\ ~r.failed
        /\ r.step = "idle" \/ (r.step = "guardMod" /\ r.preview = preview /\ r.pick = preview.pick)
    BY DEF Idle
  <1> HIDE DEF r
  <1>3. \A p \in shown' : Fits(p)
    BY <1>1 DEF Whole
  <1>4. Knows(r) /\ r.step \notin ApplySteps /\ workers[w].step \notin ApplySteps
    BY <1>1, <1>2, <1>3 DEF Knows, ApplySteps
  <1> QED BY <1>1, <1>3, <1>4, OutsideStep

\* The catalog of the compiler service is asked.
LEMMA CatalogWhole ==
  ASSUME InstallInv, Whole, NEW w \in Workers, CatalogFromCache(w) \/ Discover(w) \/ StoreCatalog(w)
  PROVE  Whole'
  <1>1. /\ workers[w].step \in {"catalog", "discovered"}
        /\ files' = files /\ private' = private /\ applied' = applied /\ shown' = shown
        /\ \/ Ends(w)
           \/ workers' = [workers EXCEPT ![w] = [workers[w] EXCEPT !.step = "readMod"]]
           \/ workers' = [workers EXCEPT ![w] = [workers[w] EXCEPT !.step = "discovered", !.known = Authorized]]
    BY DEF CatalogFromCache, Discover, StoreCatalog, WithCatalog, GoesTo, Becomes, At, server, history
  <1>2. \A p \in shown' : Fits(p)
    BY <1>1 DEF Whole
  <1>3. IsWorker(workers[w]) /\ Knows(workers[w]) /\ workers[w].step \notin ApplySteps
    BY <1>1, WorkerShape DEF Whole, ApplySteps
  <1>4. CASE Ends(w)
    BY <1>1, <1>2, <1>3, <1>4, OutsideEnds
  <1>5. ASSUME NEW r, workers' = [workers EXCEPT ![w] = r], r.step \in {"readMod", "discovered"},
               r.failed = workers[w].failed
        PROVE  Whole'
    <2>1. Knows(r) /\ r.step \notin ApplySteps
      BY <1>3, <1>5 DEF Knows, ApplySteps
    <2> QED BY <1>1, <1>2, <1>3, <1>5, <2>1, OutsideStep
  <1>6. LET r == [workers[w] EXCEPT !.step = "readMod"] IN
          r.step \in {"readMod", "discovered"} /\ r.failed = workers[w].failed
    BY <1>3 DEF IsWorker, WorkerFields
  <1>7. LET r == [workers[w] EXCEPT !.step = "discovered", !.known = Authorized]
        IN
          r.step \in {"readMod", "discovered"} /\ r.failed = workers[w].failed
    BY <1>3 DEF IsWorker, WorkerFields
  <1> QED BY <1>1, <1>4, <1>5, <1>6, <1>7

\* Both files are read, and copied.
LEMMA ReadWhole ==
  ASSUME InstallInv, Whole, NEW w \in Workers, NEW ok \in BOOLEAN, ReadMod(w, ok) \/ ReadSum(w, ok) \/ CopyFiles(w, ok)
  PROVE  Whole'
  <1>1. /\ workers[w].step \in {"readMod", "readSum", "copy"}
        /\ files' = files /\ private' = private /\ applied' = applied /\ shown' = shown
        /\ \/ Ends(w)
           \/ /\ workers[w].step = "readMod"
              /\ workers' = [workers EXCEPT ![w] = [workers[w] EXCEPT !.step = "readSum", !.seen["mod"] = files.mod]]
           \/ /\ workers[w].step = "readSum"
              /\ workers' = [workers EXCEPT ![w] = [workers[w] EXCEPT !.step = "copy", !.seen["sum"] = files.sum]]
           \/ workers[w].step = "copy" /\ workers' = [workers EXCEPT ![w] = [workers[w] EXCEPT !.step = "get"]]
    BY DEF ReadMod, ReadSum, CopyFiles, GoesTo, Becomes, At, server, history
  <1>2. /\ \A p \in shown' : Fits(p)
        /\ IsContent(files["mod"]) /\ IsContent(files["sum"])
    BY <1>1 DEF Whole, Names
  <1>3. IsWorker(workers[w]) /\ Knows(workers[w]) /\ workers[w].step \notin ApplySteps
    BY <1>1, WorkerShape DEF Whole, ApplySteps
  <1>4. CASE Ends(w)
    BY <1>1, <1>2, <1>3, <1>4, OutsideEnds
  <1>5. ASSUME NEW r, workers' = [workers EXCEPT ![w] = r], r.step \in {"readSum", "copy", "get"},
               r.failed = workers[w].failed, IsContent(r.seen["mod"]), r.step # "readSum" => IsContent(r.seen["sum"])
        PROVE  Whole'
    <2>1. Knows(r) /\ r.step \notin ApplySteps
      BY <1>3, <1>5 DEF Knows, ApplySteps
    <2> QED BY <1>1, <1>2, <1>3, <1>5, <2>1, OutsideStep
  <1>6. CASE /\ workers[w].step = "readMod"
             /\ workers' = [workers EXCEPT ![w] = [workers[w] EXCEPT !.step = "readSum", !.seen["mod"] = files.mod]]
    <2> DEFINE r == [workers[w] EXCEPT !.step = "readSum", !.seen["mod"] = files.mod]
    <2>1. /\ r = [field \in WorkerFields |-> r[field]] /\ r.step = "readSum" /\ r.failed = workers[w].failed
          /\ r.seen = [workers[w].seen EXCEPT !["mod"] = files.mod]
      BY <1>3 DEF IsWorker, WorkerFields
    <2> HIDE DEF r
    <2>2. r.seen["mod"] = files["mod"]
      BY <1>3, <2>1, UpdateSeen DEF Names
    <2> QED BY <1>2, <1>5, <1>6, <2>1, <2>2 DEF r
  <1>7. CASE /\ workers[w].step = "readSum"
             /\ workers' = [workers EXCEPT ![w] = [workers[w] EXCEPT !.step = "copy", !.seen["sum"] = files.sum]]
    <2> DEFINE r == [workers[w] EXCEPT !.step = "copy", !.seen["sum"] = files.sum]
    <2>1. /\ r = [field \in WorkerFields |-> r[field]] /\ r.step = "copy" /\ r.failed = workers[w].failed
          /\ r.seen = [workers[w].seen EXCEPT !["sum"] = files.sum]
      BY <1>3 DEF IsWorker, WorkerFields
    <2>2. "mod" \in Names /\ "sum" \in Names /\ "mod" # "sum"
      BY DEF Names
    <2> HIDE DEF r
    <2>3. r.seen["mod"] = workers[w].seen["mod"] /\ r.seen["sum"] = files["sum"]
      BY <1>3, <2>1, <2>2, UpdateSeen
    <2>4. IsContent(workers[w].seen["mod"])
      BY <1>3, <1>7 DEF Knows
    <2> QED BY <1>2, <1>5, <1>7, <2>1, <2>3, <2>4 DEF r
  <1>8. CASE workers[w].step = "copy" /\ workers' = [workers EXCEPT ![w] = [workers[w] EXCEPT !.step = "get"]]
    <2> DEFINE r == [workers[w] EXCEPT !.step = "get"]
    <2>1. r.step = "get" /\ r.failed = workers[w].failed /\ r.seen = workers[w].seen
      BY <1>3 DEF IsWorker, WorkerFields
    <2>2. IsContent(workers[w].seen["mod"]) /\ IsContent(workers[w].seen["sum"])
      BY <1>3, <1>8 DEF Knows
    <2> HIDE DEF r
    <2> QED BY <1>5, <1>8, <2>1, <2>2 DEF r
  <1> QED BY <1>1, <1>4, <1>6, <1>7, <1>8

\* go get adds the selection, and to go.sum what go.mod then needs.
LEMMA GoGetFits ==
  ASSUME NEW seen, NEW pick, IsContent(seen["mod"]), IsContent(seen["sum"]), seen["mod"].there
  PROVE  Fits([pick |-> pick, before |-> seen, after |-> GoGet(seen, pick)])
  <1> DEFINE p == [pick |-> pick, before |-> seen, after |-> GoGet(seen, pick)]
             has == seen.mod.has \cup {pick}
             sums == seen.sum.has \cup (has \cap Summed)
  <1>1. p.pick = pick /\ p.before = seen /\ p.after = GoGet(seen, pick)
    OBVIOUS
  <1>2. /\ GoGet(seen, pick)["mod"] = [seen.mod EXCEPT !.has = has]
        /\ GoGet(seen, pick)["sum"] = [there |-> seen.sum.there \/ sums # {}, edits |-> seen.sum.edits, has |-> sums]
    BY DEF GoGet
  <1> HIDE DEF p
  <1>3. IsContent(GoGet(seen, pick)["mod"]) /\ GoGet(seen, pick)["mod"].has = has
    BY <1>2 DEF IsContent, IsFile
  <1>4. GoGet(seen, pick)["sum"].has = sums /\ IsContent(GoGet(seen, pick)["sum"])
    <2> DEFINE there == seen.sum.there \/ sums # {}
    <2>1. there \/ sums = {}
      OBVIOUS
    <2> HIDE DEF there, sums
    <2>2. GoGet(seen, pick)["sum"] = [there |-> there, edits |-> seen.sum.edits, has |-> sums]
      BY <1>2 DEF there
    <2> QED BY <2>1, <2>2 DEF IsContent, IsFile
  <1>5. Fits(p)
    BY <1>1, <1>3, <1>4 DEF Fits, Names
  <1> QED BY <1>5 DEF p

\* go get has run on the copies.
LEMMA RunGetWhole ==
  ASSUME InstallInv, Whole, NEW w \in Workers, NEW ok \in BOOLEAN, RunGet(w, ok)
  PROVE  Whole'
  <1> DEFINE seen == workers[w].seen
             p == [pick |-> workers[w].pick, before |-> seen, after |-> GoGet(seen, workers[w].pick)]
             r == [workers[w] EXCEPT !.step = "previewed", !.preview = p]
  <1>1. /\ workers[w].step = "get" /\ files' = files /\ private' = private /\ applied' = applied /\ shown' = shown
        /\ Ends(w) \/ workers' = [workers EXCEPT ![w] = r]
    BY DEF RunGet, Becomes, At, server, history
  <1>2. \A x \in shown' : Fits(x)
    BY <1>1 DEF Whole
  <1>3. /\ IsWorker(workers[w]) /\ Knows(workers[w]) /\ workers[w].step \notin ApplySteps
        /\ seen["mod"].there
    BY <1>1 DEF InstallInv, Sound, Whole, ApplySteps
  <1>4. CASE Ends(w)
    BY <1>1, <1>2, <1>3, <1>4, OutsideEnds
  <1>5. CASE workers' = [workers EXCEPT ![w] = r]
    <2>1. p.pick = workers[w].pick
      OBVIOUS
    <2>2. r.step = "previewed" /\ r.preview = p /\ r.failed = workers[w].failed /\ r.pick = workers[w].pick
      BY <1>3 DEF IsWorker, WorkerFields
    <2>3. Fits(p)
      BY <1>1, <1>3, GoGetFits DEF Knows
    <2> HIDE DEF p, r
    <2>4. Knows(r) /\ r.step \notin ApplySteps
      BY <1>3, <2>1, <2>2, <2>3 DEF Knows, ApplySteps
    <2> QED BY <1>1, <1>2, <1>3, <1>5, <2>4, OutsideStep
  <1> QED BY <1>1, <1>4, <1>5

\* The preview is shown.
LEMMA AnswerWhole ==
  ASSUME InstallInv, Whole, NEW w \in Workers, AnswerPreview(w) \/ AnswerAdd(w)
  PROVE  Whole'
  <1>1. /\ workers[w].step = "previewed"
        /\ files' = files /\ private' = private /\ applied' = applied
        /\ shown' = shown \/ shown' = shown \cup {workers[w].preview}
        /\ Ends(w) \/ workers' = [workers EXCEPT ![w] = [workers[w] EXCEPT !.step = "guardMod"]]
    BY DEF AnswerPreview, AnswerAdd, GoesTo, Becomes, At, server, history
  <1>2. IsWorker(workers[w]) /\ Knows(workers[w]) /\ workers[w].step \notin ApplySteps /\ Fits(workers[w].preview)
    BY <1>1, WorkerShape DEF Whole, ApplySteps, Knows
  <1>3. \A p \in shown' : Fits(p)
    BY <1>1, <1>2 DEF Whole
  <1>4. CASE Ends(w)
    BY <1>1, <1>2, <1>3, <1>4, OutsideEnds
  <1>5. CASE workers' = [workers EXCEPT ![w] = [workers[w] EXCEPT !.step = "guardMod"]]
    <2> DEFINE r == [workers[w] EXCEPT !.step = "guardMod"]
    <2>1. /\ r.step = "guardMod" /\ r.preview = workers[w].preview /\ r.failed = workers[w].failed
          /\ r.pick = workers[w].pick
      BY <1>2 DEF IsWorker, WorkerFields
    <2> HIDE DEF r
    <2>2. Knows(r) /\ r.step \notin ApplySteps
      BY <1>1, <1>2, <2>1 DEF Knows, ApplySteps
    <2> QED BY <1>1, <1>2, <1>3, <1>5, <2>2, OutsideStep DEF r
  <1> QED BY <1>1, <1>4, <1>5

\* The files that go.sum and go.mod of the preview were read from are settled, since nobody else applies.
LEMMA GuardWhole ==
  ASSUME InstallInv, Whole, NEW w \in Workers, NEW n \in Names, NEW ok \in BOOLEAN, Guard(w, n, ok), ~overlapped'
  PROVE  Whole'
  <1> DEFINE q == workers[w]
  <1>1. /\ files' = files /\ private' = private /\ applied' = applied /\ shown' = shown
        /\ q.step = IF n = "mod" THEN "guardMod" ELSE "guardSum"
        /\ n = "mod" => \A v \in Workers \ {w} : workers[v].step \notin ApplySteps
        /\ \/ Ends(w)
           \/ files[n] = q.preview.before[n] /\ n = "mod" /\ workers' = [workers EXCEPT ![w] = [q EXCEPT !.step = "guardSum"]]
           \/ /\ files[n] = q.preview.before[n] /\ n = "sum"
              /\ workers' = [workers EXCEPT ![w] = [q EXCEPT !.step = "stage", !.left = ChangedFiles(q.preview)]]
    BY DEF Guard, GoesTo, Becomes, At, server, Names, Applying, ApplySteps
  <1>2. IsWorker(q) /\ Knows(q) /\ Fits(q.preview) /\ q.pick = q.preview.pick
    BY <1>1, WorkerShape DEF Whole, Knows, ApplySteps
  <1>3. \A p \in shown' : Fits(p)
    BY <1>1 DEF Whole
  <1>4. \A k \in Names : IsCopy(private'[w][k]) /\ IsContent(files'[k])
    BY <1>1 DEF Whole
  <1>5. CASE n = "mod"
    <2>1. q.step \notin ApplySteps /\ Settled(files, applied) /\ \A k \in Names : Clear(private[w][k])
      BY <1>1, <1>5 DEF Whole, ApplySteps
    <2>2. CASE Ends(w)
      BY <1>1, <1>3, <2>1, <2>2, OutsideEnds
    <2>3. CASE files[n] = q.preview.before[n] /\ workers' = [workers EXCEPT ![w] = [q EXCEPT !.step = "guardSum"]]
      <3> DEFINE r == [q EXCEPT !.step = "guardSum"]
      <3>1. r.step = "guardSum" /\ r.preview = q.preview /\ r.failed = q.failed /\ r.pick = q.pick
        BY <1>2 DEF IsWorker, WorkerFields
      <3> HIDE DEF r
      <3>2. workers'[w] = r /\ \A v \in Workers \ {w} : workers'[v] = workers[v]
        BY <2>3 DEF InstallInv, r
      <3>3. Knows(r) /\ r.step \in ApplySteps
        BY <1>2, <3>1 DEF Knows, ApplySteps
      <3>4. Hand(r, private[w], files, applied)
        BY <1>5, <2>1, <2>3, <3>1 DEF Hand, Settled
      <3>5. \A v \in Workers : Knows(workers'[v]) /\ \A k \in Names : IsCopy(private'[v][k])
        BY <1>1, <3>2, <3>3 DEF Whole
      <3>6. \A v \in Workers \ {w} : workers'[v].step \notin ApplySteps /\ \A k \in Names : Clear(private'[v][k])
        BY <1>1, <1>5, <3>2 DEF Whole
      <3> QED BY <1>1, <1>3, <1>4, <3>2, <3>3, <3>4, <3>5, <3>6 DEF Whole
    <2> QED BY <1>1, <1>5, <2>2, <2>3
  <1>6. CASE n = "sum"
    <2>1. q.step = "guardSum" /\ q.step \in ApplySteps
      BY <1>1, <1>6 DEF ApplySteps
    <2>2. /\ Hand(q, private[w], files, applied)
          /\ Settled(files, applied) /\ \A k \in Names : Clear(private[w][k])
      BY <2>1 DEF Whole, Hand
    <2>3. CASE Ends(w)
      <3>1. workers' = [workers EXCEPT ![w] = Idle(q.jobs)]
        BY <2>3 DEF Ends, Becomes
      <3> QED BY <1>1, <1>4, <2>1, <2>2, <3>1, IdleKnows, ApplierEnds
    <2>4. CASE /\ files["sum"] = q.preview.before["sum"]
               /\ workers' = [workers EXCEPT ![w] = [q EXCEPT !.step = "stage", !.left = ChangedFiles(q.preview)]]
      <3> DEFINE r == [q EXCEPT !.step = "stage", !.left = ChangedFiles(q.preview)]
      <3>1. /\ r.step = "stage" /\ r.preview = q.preview /\ r.failed = q.failed /\ r.pick = q.pick
            /\ r.left = ChangedFiles(q.preview)
        BY <1>2 DEF IsWorker, WorkerFields
      <3> HIDE DEF r
      <3>2. Knows(r) /\ r.step \in ApplySteps
        BY <1>2, <3>1 DEF Knows, ApplySteps
      <3>3. Ahead(r) = Touched(q.preview)
        <4>1. PreviewOK(q.preview)
          BY <2>1 DEF InstallInv, Sound
        <4> QED BY <3>1, <4>1, ListsHold, TouchedLists DEF PreviewOK, Ahead
      <3>4. q.preview.before["mod"].there
        BY <2>1 DEF InstallInv, Sound, PreviewOK
      <3>5. \A k \in Names : Same(files[k], q.preview.before[k])
        BY <2>2, <2>4, <3>4 DEF Hand, Settled, Same, Names
      <3>6. \A k \in Names : FileAt(r, k, files[k], private[w][k])
        BY <2>2, <3>1, <3>3, <3>5 DEF FileAt
      <3>7. Hand(r, private[w], files, applied)
        BY <2>2, <2>4, <3>1, <3>6 DEF Hand, Settled
      <3> QED BY <1>1, <1>4, <2>1, <2>4, <3>2, <3>7, ApplierSteps DEF r
    <2> QED BY <1>1, <1>6, <2>3, <2>4
  <1> QED BY <1>5, <1>6 DEF Names

-----------------------------------------------------------------------------
(* The steps of the only worker that applies.                              *)

\* What is known of the worker that applies.
LEMMA InHand ==
  ASSUME InstallInv, Whole, NEW w \in Workers, workers[w].step \in Forward \cup Backward
  PROVE  LET q == workers[w] IN
         /\ Sound(q, private[w]["mod"], safe) /\ IsWorker(q) /\ Knows(q) /\ Fits(q.preview) /\ q.pick = q.preview.pick
         /\ q.step \in ApplySteps /\ Hand(q, private[w], files, applied) /\ Current(w) = Head(q.left) /\ Current(w) \in Names
         /\ q.preview.before["mod"].there
         /\ \A k \in Names : /\ FileAt(q, k, files[k], private[w][k])
                             /\ IsCopy(private[w][k]) /\ IsContent(files[k])
  <1> DEFINE q == workers[w]
  <1>1. q.step \in ApplySteps /\ q.step # "guardSum" /\ q.step \in Forward \cup Backward
    BY DEF ApplySteps, Forward, Backward
  <1>2. Sound(q, private[w]["mod"], safe) /\ IsWorker(q) /\ PreviewOK(q.preview) /\ Current(w) \in Names
    BY <1>1, Walks
  <1>3. Knows(q) /\ Hand(q, private[w], files, applied)
    BY <1>1 DEF Whole
  <1>4. \A k \in Names : IsCopy(private[w][k]) /\ IsContent(files[k])
    BY DEF Whole
  <1>5. \A k \in Names : FileAt(q, k, files[k], private[w][k])
    BY <1>1, <1>3 DEF Hand
  <1>6. Fits(q.preview) /\ q.pick = q.preview.pick /\ q.preview.before["mod"].there
    BY <1>1, <1>2, <1>3 DEF Knows, PreviewOK
  <1> QED BY <1>1, <1>2, <1>3, <1>4, <1>5, <1>6 DEF Current

\* The worker works on the file n and goes on.
LEMMA Continues ==
  ASSUME InstallInv, Whole, NEW w \in Workers, workers[w].step \in Forward \cup Backward,
         NEW r, workers' = [workers EXCEPT ![w] = r], r.preview = workers[w].preview, r.pick = workers[w].pick, ~r.failed,
         r.step \in Forward \cup Backward \cup {"reported"},
         \A v \in Workers \ {w} : private'[v] = private[v],
         \A k \in Names : IsCopy(private'[w][k]) /\ IsContent(files'[k]) /\ FileAt(r, k, files'[k], private'[w][k]),
         applied' = applied, shown' = shown
  PROVE  Whole'
  <1>1. r.step \in ApplySteps /\ r.step # "guardSum" /\ workers[w].step \in ApplySteps /\ workers[w].step # "guardSum"
    BY DEF ApplySteps, Forward, Backward
  <1>2. Knows(workers[w]) /\ Hand(workers[w], private[w], files, applied)
    BY <1>1 DEF Whole
  <1>3. Knows(r)
    BY <1>1, <1>2 DEF Knows, ApplySteps
  <1>4. Hand(r, private'[w], files', applied)
    BY <1>1, <1>2 DEF Hand
  <1> QED BY <1>1, <1>3, <1>4, ApplierSteps

\* The worker gives up, and both files are what they were.
LEMMA GivesBack ==
  ASSUME InstallInv, Whole, NEW w \in Workers, workers[w].step \in Forward \cup Backward, Ends(w),
         \A v \in Workers \ {w} : private'[v] = private[v],
         \A k \in Names : /\ IsCopy(private'[w][k]) /\ IsContent(files'[k]) /\ Clear(private'[w][k])
                          /\ Same(files'[k], workers[w].preview.before[k]),
         applied' = applied, shown' = shown
  PROVE  Whole'
  <1> DEFINE q == workers[w]
  <1>1. q.step \in ApplySteps /\ q.step # "guardSum" /\ Hand(q, private[w], files, applied) /\ q.preview.before["mod"].there
    BY InHand DEF Forward, Backward
  <1>2. q.preview.before["mod"].has = applied /\ q.preview.before["sum"].has = applied \cap Summed
    BY <1>1 DEF Hand
  <1>3. Settled(files', applied')
    BY <1>1, <1>2 DEF Settled, Same, Names
  <1>4. workers' = [workers EXCEPT ![w] = Idle(q.jobs)]
    BY DEF Ends, Becomes
  <1> QED BY <1>1, <1>3, <1>4, IdleKnows, ApplierEnds

\* The copies of a worker after a step.
LEMMA CopiesSet ==
  ASSUME InstallInv, NEW w \in Workers, NEW n \in Names, NEW record, SetPrivate(w, n, record)
  PROVE  /\ \A v \in Workers \ {w} : private'[v] = private[v]
         /\ private'[w][n] = record /\ \A k \in Names \ {n} : private'[w][k] = private[w][k]
  BY DEF InstallInv, SetPrivate

\* The module files after a step.
LEMMA FileSet ==
  ASSUME InstallInv, NEW n \in Names, NEW f, files' = [files EXCEPT ![n] = f]
  PROVE  files'[n] = f /\ \A k \in Names \ {n} : files'[k] = files[k]
  BY DEF InstallInv

\* The worker is done with the head of its list.
LEMMA Advances ==
  ASSUME InstallInv, NEW w \in Workers, NEW next, Advance(w, next)
  PROVE  \E r : /\ workers' = [workers EXCEPT ![w] = r] /\ r.preview = workers[w].preview
                /\ r.pick = workers[w].pick /\ r.failed = workers[w].failed
                /\ IF Len(workers[w].left) > 1 THEN r.step = workers[w].step /\ r.left = Tail(workers[w].left)
                   ELSE r.step = next /\ r.left = ChangedFiles(workers[w].preview)
  <1> DEFINE q == workers[w]
             r1 == [q EXCEPT !.left = Tail(@)]
             r2 == [q EXCEPT !.step = next, !.left = ChangedFiles(q.preview)]
  <1>1. workers' = [workers EXCEPT ![w] = IF Len(q.left) > 1 THEN r1 ELSE r2]
    BY DEF Advance, Becomes, Changes
  <1>2. IsWorker(q)
    BY WorkerShape
  <1>3. r1.preview = q.preview /\ r1.step = q.step /\ r1.left = Tail(q.left) /\ r1.pick = q.pick /\ r1.failed = q.failed
    BY <1>2 DEF IsWorker, WorkerFields
  <1>4. /\ r2.preview = q.preview /\ r2.step = next /\ r2.left = ChangedFiles(q.preview) /\ r2.pick = q.pick
        /\ r2.failed = q.failed
    BY <1>2 DEF IsWorker, WorkerFields
  <1> HIDE DEF r1, r2
  <1>5. CASE Len(q.left) > 1
    BY <1>1, <1>3, <1>5
  <1>6. CASE ~(Len(q.left) > 1)
    BY <1>1, <1>4, <1>6
  <1> QED BY <1>5, <1>6

\* The empty copies.
LEMMA Empties == IsContent(Missing) /\ IsCopy(Unstaged) /\ Clear(Unstaged) /\ ~Missing.there /\ Missing.has = {}
  BY DEF IsContent, IsFile, Missing, IsCopy, IsItem, ItemFields, Unstaged, Clear

\* The way back begins.
LEMMA RollsBackWhole ==
  ASSUME InstallInv, Whole, NEW w \in Workers, workers[w].step \in {"backup", "check", "install"}, RollsBack(w),
         files' = files, private' = private, applied' = applied, shown' = shown
  PROVE  Whole'
  <1> DEFINE q == workers[w]
             r == [q EXCEPT !.step = "remove", !.left = Reversed(ChangedFiles(q.preview))]
  <1>1. q.step \in Forward \cup Backward
    BY DEF Forward
  <1>2. /\ Sound(q, private[w]["mod"], safe) /\ IsWorker(q) /\ ~q.failed
        /\ \A k \in Names : FileAt(q, k, files[k], private[w][k]) /\ IsCopy(private[w][k]) /\ IsContent(files[k])
    BY <1>1, InHand DEF Knows
  <1>3. workers' = [workers EXCEPT ![w] = r]
    BY DEF RollsBack, Becomes, Changes
  <1>4. /\ r.step = "remove" /\ r.left = Reversed(ChangedFiles(q.preview)) /\ r.preview = q.preview /\ r.pick = q.pick
        /\ r.failed = q.failed
    BY <1>2 DEF IsWorker, WorkerFields
  <1> HIDE DEF r
  <1>5. Ahead(r) = Touched(r.preview)
    BY <1>1, <1>2, <1>4, WalkFacts DEF Ahead
  <1>6. \A k \in Names : FileAt(r, k, files[k], private[w][k])
    <2> SUFFICES ASSUME NEW k \in Names PROVE FileAt(r, k, files[k], private[w][k])
      OBVIOUS
    <2>1. FileAt(q, k, files[k], private[w][k])
      BY <1>2
    <2>2. Stored(private[w][k], files[k], q.preview.before[k]) /\ (k \notin Touched(q.preview) => Clear(private[w][k]))
      BY <2>1 DEF FileAt
    <2> QED BY <1>4, <1>5, <2>2 DEF FileAt, Stored, Clear
  <1> QED BY <1>1, <1>2, <1>3, <1>4, <1>6, Continues DEF Backward

\* The new content is staged.
LEMMA StageWhole ==
  ASSUME InstallInv, Whole, NEW w \in Workers, NEW ok \in BOOLEAN, Stage(w, ok)
  PROVE  Whole'
  <1> DEFINE q == workers[w]
             n == Current(w)
             new == [Unstaged EXCEPT !.staged = q.preview.after[n]]
  <1>1. /\ q.step = "stage" /\ files' = files /\ applied' = applied /\ shown' = shown
        /\ IF ok THEN SetPrivate(w, n, new) /\ Advance(w, "backup") ELSE Discarded(w) /\ Ends(w)
    BY DEF Stage, At, server, history
  <1>2. q.step \in Forward \cup Backward
    BY <1>1 DEF Forward
  <1>3. /\ Sound(q, private[w]["mod"], safe) /\ IsWorker(q) /\ ~q.failed /\ n = Head(q.left) /\ n \in Names
        /\ \A k \in Names : FileAt(q, k, files[k], private[w][k]) /\ IsCopy(private[w][k]) /\ IsContent(files[k])
    BY <1>2, InHand DEF Knows
  <1>4. \A k \in Names : /\ Same(files[k], q.preview.before[k]) /\ Clear(private[w][k])
                         /\ k \in Touched(q.preview) /\ k \notin Ahead(q) => private[w][k].staged = q.preview.after[k]
    BY <1>1, <1>3 DEF FileAt
  <1>5. new.staged = q.preview.after[n] /\ IsCopy(new) /\ Clear(new)
    BY Empties DEF Unstaged, IsItem, ItemFields, IsCopy, Clear
  <1> HIDE DEF new, n
  <1>6. CASE ok
    <2>1. PICK r : /\ workers' = [workers EXCEPT ![w] = r] /\ r.preview = q.preview /\ r.pick = q.pick /\ r.failed = q.failed
                   /\ IF Len(q.left) > 1 THEN r.step = q.step /\ r.left = Tail(q.left)
                      ELSE r.step = "backup" /\ r.left = ChangedFiles(q.preview)
      BY <1>1, <1>6, Advances
    <2>2. /\ \A v \in Workers \ {w} : private'[v] = private[v]
          /\ private'[w][n] = new /\ \A k \in Names \ {n} : private'[w][k] = private[w][k]
      BY <1>1, <1>3, <1>6, CopiesSet
    <2>3. \A k \in Names : IsCopy(private'[w][k]) /\ Clear(private'[w][k])
      BY <1>3, <1>4, <1>5, <2>2
    <2>4. IF Len(q.left) > 1 THEN Ahead(r) = Ahead(q) \ {n} ELSE Ahead(r) = Touched(q.preview) /\ Ahead(q) = {n}
      BY <1>2, <1>3, <2>1, WalkFacts DEF Ahead
    <2>5. \A k \in Names : FileAt(r, k, files[k], private'[w][k])
      <3> SUFFICES ASSUME NEW k \in Names PROVE FileAt(r, k, files[k], private'[w][k])
        OBVIOUS
      <3>1. k \in Touched(q.preview) /\ (k = n \/ k \notin Ahead(q)) => private'[w][k].staged = q.preview.after[k]
        BY <1>4, <1>5, <2>2
      <3>2. Same(files[k], q.preview.before[k]) /\ Clear(private'[w][k])
        BY <1>4, <2>3
      <3> HIDE DEF q
      <3>3. CASE Len(q.left) > 1
        BY <1>1, <2>1, <2>4, <3>1, <3>2, <3>3 DEF FileAt
      <3>4. CASE ~(Len(q.left) > 1)
        BY <1>1, <2>1, <2>4, <3>1, <3>2, <3>4 DEF FileAt, Stored, Clear
      <3> QED BY <3>3, <3>4
    <2>6. r.step \in Forward
      BY <1>1, <2>1 DEF Forward
    <2> QED BY <1>1, <1>2, <1>3, <2>1, <2>2, <2>3, <2>5, <2>6, Continues
  <1>7. CASE ~ok
    <2>1. /\ \A v \in Workers \ {w} : private'[v] = private[v]
          /\ \A k \in Names : private'[w][k] = [private[w][k] EXCEPT !.staged = Missing]
      BY <1>1, <1>7 DEF Discarded, InstallInv
    <2>2. \A k \in Names : IsCopy(private'[w][k]) /\ Clear(private'[w][k])
      BY <1>3, <1>4, <2>1, ZenonT(30) DEF IsCopy, IsItem, ItemFields, Clear
    <2> QED BY <1>1, <1>2, <1>3, <1>4, <1>7, <2>1, <2>2, GivesBack
  <1> QED BY <1>6, <1>7

\* A file is moved away.
LEMMA BackupWhole ==
  ASSUME InstallInv, Whole, NEW w \in Workers, NEW ok \in BOOLEAN, Backup(w, ok)
  PROVE  Whole'
  <1> DEFINE q == workers[w]
             n == Current(w)
             expected == q.preview.before[n]
             new == [private[w][n] EXCEPT !.backup = files[n], !.backedUp = TRUE]
             s == [q EXCEPT !.step = "check"]
  <1>1. /\ q.step = "backup" /\ applied' = applied /\ shown' = shown
        /\ \/ RollsBack(w) /\ files' = files /\ private' = private
           \/ ~expected.there /\ Advance(w, "install") /\ files' = files /\ private' = private
           \/ /\ expected.there /\ files' = [files EXCEPT ![n] = Missing] /\ SetPrivate(w, n, new)
              /\ workers' = [workers EXCEPT ![w] = s]
    BY DEF Backup, At, server, history, GoesTo, Becomes
  <1>2. q.step \in Forward \cup Backward
    BY <1>1 DEF Forward
  <1>3. /\ Sound(q, private[w]["mod"], safe) /\ IsWorker(q) /\ ~q.failed /\ n = Head(q.left) /\ n \in Names
        /\ \A k \in Names : FileAt(q, k, files[k], private[w][k]) /\ IsCopy(private[w][k]) /\ IsContent(files[k])
    BY <1>2, InHand DEF Knows
  <1>4. \A k \in Names : LET item == private[w][k] IN
          /\ Stored(item, files[k], q.preview.before[k]) /\ ~item.installed
          /\ k \notin Touched(q.preview) => Clear(item)
          /\ k \in Touched(q.preview) => item.staged = q.preview.after[k]
          /\ k \in Touched(q.preview) /\ k \in Ahead(q) => ~item.backedUp
          /\ k \in Touched(q.preview) /\ k \notin Ahead(q) => item.backedUp \/ ~q.preview.before[k].there
    BY <1>1, <1>3 DEF FileAt
  <1>5. n \in Ahead(q) /\ n \in Touched(q.preview)
    BY <1>2, <1>3, WalkFacts
  <1> HIDE DEF n
  <1>6. CASE RollsBack(w) /\ files' = files /\ private' = private
    BY <1>1, <1>6, RollsBackWhole
  <1>7. CASE ~expected.there /\ Advance(w, "install") /\ files' = files /\ private' = private
    <2>1. PICK r : /\ workers' = [workers EXCEPT ![w] = r] /\ r.preview = q.preview /\ r.pick = q.pick /\ r.failed = q.failed
                   /\ IF Len(q.left) > 1 THEN r.step = q.step /\ r.left = Tail(q.left)
                      ELSE r.step = "install" /\ r.left = ChangedFiles(q.preview)
      BY <1>7, Advances
    <2>2. IF Len(q.left) > 1 THEN Ahead(r) = Ahead(q) \ {n} ELSE Ahead(r) = Touched(q.preview) /\ Ahead(q) = {n}
      BY <1>2, <1>3, <2>1, WalkFacts DEF Ahead
    <2>3. \A k \in Names : FileAt(r, k, files[k], private[w][k])
      <3> SUFFICES ASSUME NEW k \in Names PROVE FileAt(r, k, files[k], private[w][k])
        OBVIOUS
      <3>1. k \in Touched(q.preview) /\ (k = n \/ k \notin Ahead(q)) => private[w][k].backedUp \/ ~q.preview.before[k].there
        BY <1>4, <1>7
      <3>2. CASE Len(q.left) > 1
        BY <1>1, <1>4, <2>1, <2>2, <3>1, <3>2 DEF FileAt
      <3>3. CASE ~(Len(q.left) > 1)
        BY <1>1, <1>4, <2>1, <2>2, <3>1, <3>3 DEF FileAt
      <3> QED BY <3>2, <3>3
    <2>4. r.step \in Forward
      BY <1>1, <2>1 DEF Forward
    <2> QED BY <1>1, <1>2, <1>3, <1>7, <2>1, <2>3, <2>4, Continues
  <1>8. CASE /\ expected.there /\ files' = [files EXCEPT ![n] = Missing] /\ SetPrivate(w, n, new)
             /\ workers' = [workers EXCEPT ![w] = s]
    <2>1. s.step = "check" /\ s.left = q.left /\ s.preview = q.preview /\ s.pick = q.pick /\ s.failed = q.failed
      BY <1>3 DEF IsWorker, WorkerFields
    <2>2. /\ IsCopy(new) /\ new.backup = files[n] /\ new.backedUp /\ new.installed = private[w][n].installed
          /\ new.staged = private[w][n].staged
      BY <1>3 DEF IsCopy, IsItem, ItemFields
    <2> HIDE DEF new, s
    <2>3. /\ \A v \in Workers \ {w} : private'[v] = private[v]
          /\ private'[w][n] = new /\ \A k \in Names \ {n} : private'[w][k] = private[w][k]
      BY <1>3, <1>8, CopiesSet
    <2>4. files'[n] = Missing /\ \A k \in Names \ {n} : files'[k] = files[k]
      BY <1>3, <1>8, FileSet
    <2>5. \A k \in Names : IsCopy(private'[w][k]) /\ IsContent(files'[k])
      BY <1>3, <2>2, <2>3, <2>4, Empties
    <2>6. Ahead(s) = Ahead(q) /\ Head(s.left) = n
      BY <1>3, <2>1 DEF Ahead
    <2>7. FileAt(s, n, files'[n], private'[w][n])
      BY <1>3, <1>4, <1>5, <2>1, <2>2, <2>3, <2>6 DEF FileAt, Stored
    <2>8. ASSUME NEW k \in Names \ {n} PROVE FileAt(s, k, files'[k], private'[w][k])
      BY <1>4, <2>1, <2>3, <2>4, <2>6, <2>8 DEF FileAt
    <2> QED BY <1>1, <1>2, <1>3, <1>8, <2>1, <2>3, <2>5, <2>7, <2>8, Continues DEF Forward
  <1> QED BY <1>1, <1>6, <1>7, <1>8

\* What was moved away is compared.
LEMMA CheckBackupWhole ==
  ASSUME InstallInv, Whole, NEW w \in Workers, NEW ok \in BOOLEAN, CheckBackup(w, ok)
  PROVE  Whole'
  <1> DEFINE q == workers[w]
             n == Current(w)
             s == [q EXCEPT !.step = "backup", !.left = Tail(@)]
             t == [q EXCEPT !.step = "install", !.left = ChangedFiles(q.preview)]
  <1>1. /\ q.step = "check" /\ applied' = applied /\ shown' = shown /\ files' = files /\ private' = private
        /\ RollsBack(w) \/ workers' = [workers EXCEPT ![w] = IF Len(q.left) > 1 THEN s ELSE t]
    BY DEF CheckBackup, At, server, history, Becomes, Changes
  <1>2. q.step \in Forward \cup Backward
    BY <1>1 DEF Forward
  <1>3. /\ Sound(q, private[w]["mod"], safe) /\ IsWorker(q) /\ ~q.failed /\ n = Head(q.left) /\ n \in Names
        /\ \A k \in Names : FileAt(q, k, files[k], private[w][k]) /\ IsCopy(private[w][k]) /\ IsContent(files[k])
    BY <1>2, InHand DEF Knows
  <1>4. \A k \in Names : LET item == private[w][k] IN
          /\ Stored(item, files[k], q.preview.before[k]) /\ ~item.installed
          /\ k \notin Touched(q.preview) => Clear(item)
          /\ k \in Touched(q.preview) => item.staged = q.preview.after[k]
          /\ k \in Touched(q.preview) /\ k \in Ahead(q) /\ k # n => ~item.backedUp
          /\ k \in Touched(q.preview) /\ ~(k \in Ahead(q) /\ k # n) => item.backedUp \/ ~q.preview.before[k].there
    BY <1>1, <1>3 DEF FileAt
  <1> HIDE DEF n
  <1>5. CASE RollsBack(w)
    BY <1>1, <1>5, RollsBackWhole
  <1>6. CASE Len(q.left) > 1 /\ workers' = [workers EXCEPT ![w] = s]
    <2>1. s.step = "backup" /\ s.left = Tail(q.left) /\ s.preview = q.preview /\ s.pick = q.pick /\ s.failed = q.failed
      BY <1>3 DEF IsWorker, WorkerFields
    <2> HIDE DEF s
    <2>2. Ahead(s) = Ahead(q) \ {n}
      BY <1>2, <1>3, <1>6, <2>1, WalkFacts DEF Ahead
    <2>3. ASSUME NEW k \in Names PROVE FileAt(s, k, files[k], private[w][k])
      BY <1>4, <2>1, <2>2, <2>3 DEF FileAt
    <2> QED BY <1>1, <1>2, <1>3, <1>6, <2>1, <2>3, Continues DEF Forward
  <1>7. CASE ~(Len(q.left) > 1) /\ workers' = [workers EXCEPT ![w] = t]
    <2>1. /\ t.step = "install" /\ t.left = ChangedFiles(q.preview) /\ t.preview = q.preview /\ t.pick = q.pick
          /\ t.failed = q.failed
      BY <1>3 DEF IsWorker, WorkerFields
    <2> HIDE DEF t
    <2>2. Ahead(t) = Touched(q.preview) /\ Ahead(q) = {n}
      BY <1>2, <1>3, <1>7, <2>1, WalkFacts DEF Ahead
    <2>3. ASSUME NEW k \in Names PROVE FileAt(t, k, files[k], private[w][k])
      BY <1>4, <2>1, <2>2, <2>3 DEF FileAt
    <2> QED BY <1>1, <1>2, <1>3, <1>7, <2>1, <2>3, Continues DEF Forward
  <1> QED BY <1>1, <1>5, <1>6, <1>7

\* A staged file takes the place of the one that was moved away.
LEMMA InstallWhole ==
  ASSUME InstallInv, Whole, NEW w \in Workers, NEW ok \in BOOLEAN, Install(w, ok)
  PROVE  Whole'
  <1> DEFINE q == workers[w]
             n == Current(w)
             new == [private[w][n] EXCEPT !.staged = Missing, !.installed = TRUE]
  <1>1. /\ q.step = "install" /\ applied' = applied /\ shown' = shown
        /\ \/ RollsBack(w) /\ files' = files /\ private' = private
           \/ /\ files' = [files EXCEPT ![n] = private[w][n].staged] /\ SetPrivate(w, n, new)
              /\ Advance(w, "clean")
    BY DEF Install, At, server, history
  <1>2. q.step \in Forward \cup Backward
    BY <1>1 DEF Forward
  <1>3. /\ Sound(q, private[w]["mod"], safe) /\ IsWorker(q) /\ ~q.failed /\ n = Head(q.left) /\ n \in Names
        /\ Fits(q.preview)
        /\ \A k \in Names : FileAt(q, k, files[k], private[w][k]) /\ IsCopy(private[w][k]) /\ IsContent(files[k])
    BY <1>2, InHand DEF Knows
  <1>4. \A k \in Names : LET item == private[w][k] IN
          /\ Stored(item, files[k], q.preview.before[k])
          /\ k \notin Touched(q.preview) => Clear(item) /\ Same(files[k], q.preview.after[k])
          /\ k \in Touched(q.preview) => item.backedUp \/ ~q.preview.before[k].there
          /\ k \in Touched(q.preview) /\ k \in Ahead(q) => item.staged = q.preview.after[k] /\ ~item.installed
          /\ k \in Touched(q.preview) /\ k \notin Ahead(q) => Same(files[k], q.preview.after[k])
    <2> SUFFICES ASSUME NEW k \in Names
                 PROVE  LET item == private[w][k] IN
                        /\ Stored(item, files[k], q.preview.before[k])
                        /\ k \notin Touched(q.preview) => Clear(item) /\ Same(files[k], q.preview.after[k])
                        /\ k \in Touched(q.preview) => item.backedUp \/ ~q.preview.before[k].there
                        /\ k \in Touched(q.preview) /\ k \in Ahead(q) => item.staged = q.preview.after[k] /\ ~item.installed
                        /\ k \in Touched(q.preview) /\ k \notin Ahead(q) => Same(files[k], q.preview.after[k])
      OBVIOUS
    <2>1. k \notin Touched(q.preview) => q.preview.before[k] = q.preview.after[k]
      BY DEF Touched
    <2>2. FileAt(q, k, files[k], private[w][k])
      BY <1>3
    <2> HIDE DEF q
    <2> QED BY <1>1, <2>1, <2>2 DEF FileAt, Stored, Clear
  <1>5. n \in Ahead(q) /\ n \in Touched(q.preview)
    BY <1>2, <1>3, WalkFacts
  <1> HIDE DEF n
  <1>6. CASE RollsBack(w) /\ files' = files /\ private' = private
    BY <1>1, <1>6, RollsBackWhole
  <1>7. CASE files' = [files EXCEPT ![n] = private[w][n].staged] /\ SetPrivate(w, n, new) /\ Advance(w, "clean")
    <2>1. PICK r : /\ workers' = [workers EXCEPT ![w] = r] /\ r.preview = q.preview /\ r.pick = q.pick /\ r.failed = q.failed
                   /\ IF Len(q.left) > 1 THEN r.step = q.step /\ r.left = Tail(q.left)
                      ELSE r.step = "clean" /\ r.left = ChangedFiles(q.preview)
      BY <1>7, Advances
    <2>2. IF Len(q.left) > 1 THEN Ahead(r) = Ahead(q) \ {n} ELSE Ahead(r) = Touched(q.preview) /\ Ahead(q) = {n}
      BY <1>2, <1>3, <2>1, WalkFacts DEF Ahead
    <2>3. /\ IsCopy(new) /\ new.backup = private[w][n].backup /\ new.backedUp = private[w][n].backedUp /\ new.installed
      BY <1>3 DEF IsCopy, IsItem, ItemFields
    <2> HIDE DEF new
    <2>4. /\ \A v \in Workers \ {w} : private'[v] = private[v]
          /\ private'[w][n] = new /\ \A k \in Names \ {n} : private'[w][k] = private[w][k]
      BY <1>3, <1>7, CopiesSet
    <2>5. files'[n] = q.preview.after[n] /\ \A k \in Names \ {n} : files'[k] = files[k]
      <3>1. private[w][n].staged = q.preview.after[n]
        BY <1>3, <1>4, <1>5
      <3>2. n \in Names
        BY <1>3
      <3>3. files'[n] = private[w][n].staged /\ \A k \in Names \ {n} : files'[k] = files[k]
        BY ONLY <1>7, <3>2, InstallInv, FileSet
      <3> QED BY ONLY <3>1, <3>3
    <2>6. \A k \in Names : IsCopy(private'[w][k]) /\ IsContent(files'[k])
      BY <1>3, <2>3, <2>4, <2>5 DEF Fits
    <2>7. /\ Stored(private'[w][n], files'[n], q.preview.before[n]) /\ Same(files'[n], q.preview.after[n])
          /\ private'[w][n].backedUp \/ ~q.preview.before[n].there
      <3> DEFINE b == q.preview.before[n]
                 item == private[w][n]
      <3>1. Stored(item, files[n], b) /\ (item.backedUp \/ ~b.there)
        BY ONLY <1>3, <1>4, <1>5
      <3>2. /\ Same(files'[n], q.preview.after[n])
            /\ new.backup = item.backup /\ new.backedUp = item.backedUp /\ new.installed /\ private'[w][n] = new
        BY <2>3, <2>4, <2>5 DEF Same
      <3> HIDE DEF b, item
      <3>3. Stored(new, files'[n], b) /\ (new.backedUp \/ ~b.there)
        BY ONLY <3>1, <3>2 DEF Stored
      <3> QED BY ONLY <3>2, <3>3 DEF b
    <2>8. FileAt(r, n, files'[n], private'[w][n])
      <3>1. CASE Len(q.left) > 1
        BY <1>1, <1>5, <2>1, <2>2, <2>7, <3>1 DEF FileAt
      <3>2. CASE ~(Len(q.left) > 1)
        BY <1>1, <1>5, <2>1, <2>2, <2>7, <3>2 DEF FileAt
      <3> QED BY <3>1, <3>2
    <2>9. ASSUME NEW k \in Names \ {n} PROVE FileAt(r, k, files'[k], private'[w][k])
      <3>1. CASE Len(q.left) > 1
        BY <1>1, <1>4, <2>1, <2>2, <2>4, <2>5, <3>1 DEF FileAt
      <3>2. CASE ~(Len(q.left) > 1)
        BY <1>1, <1>4, <2>1, <2>2, <2>4, <2>5, <3>2 DEF FileAt
      <3> QED BY <3>1, <3>2
    <2>10. r.step \in Forward
      BY <1>1, <2>1 DEF Forward
    <2> QED BY <1>1, <1>2, <1>3, <2>1, <2>4, <2>6, <2>8, <2>9, <2>10, Continues
  <1> QED BY <1>1, <1>6, <1>7

\* The way back removes what was installed.
LEMMA RemoveInstalledWhole ==
  ASSUME InstallInv, Whole, NEW w \in Workers, NEW ok \in BOOLEAN, RemoveInstalled(w, ok), ~stuck'
  PROVE  Whole'
  <1> DEFINE q == workers[w]
             n == Current(w)
             r == [q EXCEPT !.step = "restore"]
  <1>1. /\ q.step = "remove" /\ applied' = applied /\ shown' = shown /\ private' = private
        /\ workers' = [workers EXCEPT ![w] = r]
        /\ files' = IF private[w][n].installed THEN [files EXCEPT ![n] = Missing] ELSE files
    BY DEF RemoveInstalled, At, server, GoesTo, Becomes
  <1>2. q.step \in Forward \cup Backward
    BY <1>1 DEF Backward
  <1>3. /\ Sound(q, private[w]["mod"], safe) /\ IsWorker(q) /\ ~q.failed /\ n = Head(q.left) /\ n \in Names
        /\ Fits(q.preview)
        /\ \A k \in Names : FileAt(q, k, files[k], private[w][k]) /\ IsCopy(private[w][k]) /\ IsContent(files[k])
    BY <1>2, InHand DEF Knows
  <1>4. r.step = "restore" /\ r.left = q.left /\ r.preview = q.preview /\ r.pick = q.pick /\ r.failed = q.failed
    BY <1>3 DEF IsWorker, WorkerFields
  <1>5. n \in Ahead(q)
    BY <1>2, <1>3, WalkFacts
  <1> HIDE DEF n, r
  <1>6. Ahead(r) = Ahead(q) /\ Head(r.left) = n
    BY <1>3, <1>4 DEF Ahead
  <1>7. /\ files'[n] = IF private[w][n].installed THEN Missing ELSE files[n]
        /\ \A k \in Names \ {n} : files'[k] = files[k]
    BY <1>1, <1>3, FileSet
  <1>8. \A k \in Names : IsContent(files'[k])
    BY <1>3, <1>7, Empties
  <1>9. FileAt(r, n, files'[n], private'[w][n])
    <2>1. Stored(private[w][n], files[n], q.preview.before[n]) /\ (n \notin Touched(q.preview) => Clear(private[w][n]))
      BY <1>1, <1>3, <1>5 DEF FileAt
    <2>2. q.preview.before[n].there \/ q.preview.before[n].has = {}
      BY <1>3 DEF Fits, IsContent
    <2>3. Same(IF private[w][n].backedUp THEN private[w][n].backup ELSE files'[n], q.preview.before[n])
      BY <1>7, <2>1, <2>2, Empties DEF Stored, Same
    <2> QED BY <1>1, <1>4, <1>5, <1>6, <2>1, <2>3 DEF FileAt
  <1>10. ASSUME NEW k \in Names \ {n} PROVE FileAt(r, k, files'[k], private'[w][k])
    <2>1. FileAt(q, k, files[k], private[w][k])
      BY <1>3
    <2> QED BY <1>1, <1>4, <1>6, <1>7, <1>10, <2>1 DEF FileAt
  <1> QED BY <1>1, <1>2, <1>3, <1>4, <1>8, <1>9, <1>10, Continues DEF Backward

\* And puts the backup in its place.
LEMMA RestoreWhole ==
  ASSUME InstallInv, Whole, NEW w \in Workers, NEW ok \in BOOLEAN, Restore(w, ok), ~stuck'
  PROVE  Whole'
  <1> DEFINE q == workers[w]
             n == Current(w)
             item == private[w][n]
             r == [q EXCEPT !.step = "remove", !.left = Tail(@)]
  <1>1. /\ q.step = "restore" /\ applied' = applied /\ shown' = shown
        /\ files' = IF item.backedUp THEN [files EXCEPT ![n] = item.backup] ELSE files
        /\ SetPrivate(w, n, Unstaged)
        /\ IF Len(q.left) > 1 THEN workers' = [workers EXCEPT ![w] = r] ELSE Ends(w)
    BY DEF Restore, At, server, Becomes
  <1>2. q.step \in Forward \cup Backward
    BY <1>1 DEF Backward
  <1>3. /\ Sound(q, private[w]["mod"], safe) /\ IsWorker(q) /\ ~q.failed /\ n = Head(q.left) /\ n \in Names
        /\ \A k \in Names : FileAt(q, k, files[k], private[w][k]) /\ IsCopy(private[w][k]) /\ IsContent(files[k])
    BY <1>2, InHand DEF Knows
  <1>4. \A k \in Names :
          /\ k \in Ahead(q) /\ k # n => Stored(private[w][k], files[k], q.preview.before[k])
          /\ k = n => Same(IF private[w][k].backedUp THEN private[w][k].backup ELSE files[k], q.preview.before[k])
          /\ k \notin Ahead(q) => Same(files[k], q.preview.before[k]) /\ Clear(private[w][k])
          /\ k \notin Touched(q.preview) => Clear(private[w][k])
    <2>1. n \in Ahead(q)
      BY <1>2, <1>3, WalkFacts
    <2> QED BY <1>1, <1>3, <2>1 DEF FileAt
  <1> HIDE DEF n
  <1>5. /\ \A v \in Workers \ {w} : private'[v] = private[v]
        /\ private'[w][n] = Unstaged /\ \A k \in Names \ {n} : private'[w][k] = private[w][k]
    BY <1>1, <1>3, CopiesSet
  <1>6. /\ files'[n] = IF item.backedUp THEN item.backup ELSE files[n]
        /\ \A k \in Names \ {n} : files'[k] = files[k]
    <2>1. CASE item.backedUp
      <3>1. files' = [files EXCEPT ![n] = item.backup]
        BY <1>1, <2>1
      <3>2. n \in Names
        BY <1>3
      <3> HIDE DEF item
      <3>3. files'[n] = item.backup /\ \A k \in Names \ {n} : files'[k] = files[k]
        BY ONLY <3>1, <3>2, InstallInv, FileSet
      <3> QED BY <2>1, <3>3
    <2>2. CASE ~item.backedUp
      BY <1>1, <2>2
    <2> QED BY <2>1, <2>2
  <1>7. Same(files'[n], q.preview.before[n]) /\ Clear(private'[w][n])
    BY <1>3, <1>4, <1>5, <1>6, Empties
  <1>8. \A k \in Names : IsCopy(private'[w][k]) /\ IsContent(files'[k])
    BY <1>3, <1>5, <1>6, Empties DEF IsCopy
  <1>9. CASE Len(q.left) > 1
    <2>1. r.step = "remove" /\ r.left = Tail(q.left) /\ r.preview = q.preview /\ r.pick = q.pick /\ r.failed = q.failed
      BY <1>3 DEF IsWorker, WorkerFields
    <2> HIDE DEF r
    <2>2. Ahead(r) = Ahead(q) \ {n}
      BY <1>2, <1>3, <1>9, <2>1, WalkFacts DEF Ahead
    <2>3. FileAt(r, n, files'[n], private'[w][n])
      BY <1>7, <2>1, <2>2 DEF FileAt
    <2>4. ASSUME NEW k \in Names \ {n} PROVE FileAt(r, k, files'[k], private'[w][k])
      BY <1>4, <1>5, <1>6, <2>1, <2>2, <2>4 DEF FileAt
    <2> QED BY <1>1, <1>2, <1>3, <1>5, <1>8, <1>9, <2>1, <2>3, <2>4, Continues DEF Backward
  <1>10. CASE ~(Len(q.left) > 1)
    <2>1. Ahead(q) = {n}
      BY <1>2, <1>3, <1>10, WalkFacts
    <2>2. \A k \in Names : Same(files'[k], q.preview.before[k]) /\ Clear(private'[w][k])
      BY <1>4, <1>5, <1>6, <1>7, <2>1
    <2> QED BY <1>1, <1>2, <1>5, <1>8, <1>10, <2>2, GivesBack
  <1> QED BY <1>9, <1>10

\* The backups are removed.
LEMMA CleanWhole ==
  ASSUME InstallInv, Whole, NEW w \in Workers, NEW ok \in BOOLEAN, Clean(w, ok), ~stuck'
  PROVE  Whole'
  <1> DEFINE q == workers[w]
             n == Current(w)
             s == [q EXCEPT !.left = Tail(@), !.failed = @ \/ ~ok]
             t == [q EXCEPT !.step = "reported", !.failed = @ \/ ~ok]
  <1>1. /\ q.step = "clean" /\ applied' = applied /\ shown' = shown /\ files' = files /\ ok
        /\ SetPrivate(w, n, Unstaged)
        /\ workers' = [workers EXCEPT ![w] = IF Len(q.left) > 1 THEN s ELSE t]
    BY DEF Clean, At, server, Becomes
  <1>2. q.step \in Forward \cup Backward
    BY <1>1 DEF Forward
  <1>3. /\ Sound(q, private[w]["mod"], safe) /\ IsWorker(q) /\ ~q.failed /\ n = Head(q.left) /\ n \in Names
        /\ \A k \in Names : FileAt(q, k, files[k], private[w][k]) /\ IsCopy(private[w][k]) /\ IsContent(files[k])
    BY <1>2, InHand DEF Knows
  <1>4. \A k \in Names : /\ Same(files[k], q.preview.after[k])
                         /\ k \notin Ahead(q) \/ k \notin Touched(q.preview) => Clear(private[w][k])
    BY <1>1, <1>3 DEF FileAt
  <1> HIDE DEF n
  <1>5. /\ \A v \in Workers \ {w} : private'[v] = private[v]
        /\ private'[w][n] = Unstaged /\ \A k \in Names \ {n} : private'[w][k] = private[w][k]
    BY <1>1, <1>3, CopiesSet
  <1>6. \A k \in Names : IsCopy(private'[w][k]) /\ (k = n => Clear(private'[w][k]))
    BY <1>3, <1>5, Empties
  <1>7. CASE Len(q.left) > 1
    <2>1. s.step = "clean" /\ s.left = Tail(q.left) /\ s.preview = q.preview /\ s.pick = q.pick
      BY <1>1, <1>3 DEF IsWorker, WorkerFields
    <2>2. s.failed = (q.failed \/ ~ok)
      BY <1>3 DEF IsWorker, WorkerFields
    <2> HIDE DEF s
    <2>3. Ahead(s) = Ahead(q) \ {n}
      BY <1>2, <1>3, <1>7, <2>1, WalkFacts DEF Ahead
    <2>4. ASSUME NEW k \in Names PROVE FileAt(s, k, files[k], private'[w][k])
      BY <1>4, <1>5, <1>6, <2>1, <2>3, <2>4 DEF FileAt
    <2>5. ~s.failed
      BY <1>1, <1>3, <2>2
    <2> QED BY <1>1, <1>2, <1>3, <1>5, <1>6, <1>7, <2>1, <2>4, <2>5, Continues DEF Forward
  <1>8. CASE ~(Len(q.left) > 1)
    <2>1. t.step = "reported" /\ t.preview = q.preview /\ t.pick = q.pick
      BY <1>1, <1>3 DEF IsWorker, WorkerFields
    <2>2. t.failed = (q.failed \/ ~ok)
      BY <1>3 DEF IsWorker, WorkerFields
    <2> HIDE DEF t
    <2>3. Ahead(q) = {n}
      BY <1>2, <1>3, <1>8, WalkFacts
    <2>4. ASSUME NEW k \in Names PROVE FileAt(t, k, files[k], private'[w][k])
      BY <1>4, <1>5, <1>6, <2>1, <2>3, <2>4 DEF FileAt
    <2>5. ~t.failed
      BY <1>1, <1>3, <2>2
    <2> QED BY <1>1, <1>2, <1>3, <1>5, <1>6, <1>8, <2>1, <2>4, <2>5, Continues
  <1> QED BY <1>1, <1>7, <1>8

\* The change is reported: the files hold what they held and the selection.
LEMMA ReportWhole ==
  ASSUME InstallInv, Whole, NEW w \in Workers, Report(w)
  PROVE  Whole'
  <1> DEFINE q == workers[w]
  <1>1. /\ q.step = "reported" /\ files' = files /\ private' = private /\ shown' = shown
        /\ applied' = IF q.failed THEN applied ELSE applied \cup {q.pick}
        /\ workers' = [workers EXCEPT ![w] = Idle(q.jobs)]
    BY DEF Report, At, Ends, Becomes
  <1>2. q.step \in ApplySteps /\ Knows(q) /\ Hand(q, private[w], files, applied)
    BY <1>1 DEF Whole, ApplySteps
  <1>3. ~q.failed /\ Fits(q.preview) /\ q.pick = q.preview.pick
    BY <1>2 DEF Knows
  <1>4. /\ q.preview.before["mod"].has = applied /\ q.preview.before["sum"].has = applied \cap Summed
        /\ \A k \in Names : Same(files[k], q.preview.after[k]) /\ Clear(private[w][k])
    BY <1>1, <1>2 DEF Hand, FileAt
  <1>5. files["mod"].has = applied \cup {q.pick} /\ files["sum"].has = (applied \cup {q.pick}) \cap Summed
    BY <1>3, <1>4 DEF Fits, Same, Names
  <1>6. files["mod"].there
    <2>1. files["mod"].has # {}
      BY <1>5
    <2> QED BY <2>1 DEF Whole, IsContent, Names
  <1>7. Settled(files', applied')
    BY <1>1, <1>3, <1>5, <1>6 DEF Settled
  <1>8. \A k \in Names : IsCopy(private'[w][k]) /\ Clear(private'[w][k]) /\ IsContent(files'[k])
    BY <1>1, <1>4 DEF Whole
  <1> QED BY <1>1, <1>2, <1>7, <1>8, IdleKnows, ApplierEnds

\* The user edits a file.
LEMMA EditWhole ==
  ASSUME InstallInv, Whole, NEW n \in Names, Edit(n)
  PROVE  Whole'
  <1>1. /\ workers' = workers /\ private' = private /\ shown' = shown /\ applied' = applied
        /\ \E x : files' = [files EXCEPT ![n].edits = x]
    BY DEF Edit, server
  <1>2. PICK x : files' = [files EXCEPT ![n].edits = x]
    BY <1>1
  <1>3. \A k \in Names : IsContent(files[k])
    BY DEF Whole
  <1>4. files'[n] = [files[n] EXCEPT !.edits = x] /\ \A k \in Names \ {n} : files'[k] = files[k]
    BY <1>2 DEF InstallInv
  <1>5. \A k \in Names : Same(files[k], files'[k]) /\ IsContent(files'[k])
    <2>1. files'[n].there = files[n].there /\ files'[n].has = files[n].has /\ IsFile(files'[n])
      BY <1>3, <1>4 DEF IsContent, IsFile
    <2>2. Same(files[n], files'[n]) /\ IsContent(files'[n])
      BY <1>3, <2>1 DEF Same, IsContent
    <2>3. ASSUME NEW k \in Names \ {n} PROVE Same(files[k], files'[k]) /\ IsContent(files'[k])
      BY <1>3, <1>4 DEF Same
    <2> QED BY <2>2, <2>3
  <1>6. Settled(files, applied) => Settled(files', applied)
    BY <1>5 DEF Settled, Same, Names
  <1>7. ASSUME NEW w \in Workers, Hand(workers[w], private[w], files, applied)
        PROVE  Hand(workers[w], private[w], files', applied)
    <2>1. \A k \in Names : FileAt(workers[w], k, files[k], private[w][k]) => FileAt(workers[w], k, files'[k], private[w][k])
      BY <1>5, FileAtSame
    <2> QED BY <1>6, <1>7, <2>1 DEF Hand
  <1> QED BY <1>1, <1>5, <1>6, <1>7 DEF Whole

-----------------------------------------------------------------------------
(* Both files or none, in every step.                                      *)

\* At the start nobody applies, and nothing was applied.
LEMMA WholeStart == Init => Whole
  <1> SUFFICES ASSUME Init PROVE Whole
    OBVIOUS
  <1>1. /\ workers = [w \in Workers |-> Idle(0)] /\ private = [w \in Workers |-> [n \in Names |-> Unstaged]]
        /\ shown = {} /\ applied = {}
    BY DEF Init, InstallInit
  <1>2. PICK sum \in {Missing, [Missing EXCEPT !.there = TRUE]} :
          files = [mod |-> [Missing EXCEPT !.there = TRUE], sum |-> sum]
    BY DEF Init, InstallInit
  <1>3. files["mod"] = [Missing EXCEPT !.there = TRUE] /\ files["sum"] = sum
    BY <1>2
  <1>4. /\ IsContent(files["mod"]) /\ IsContent(files["sum"])
        /\ files["mod"].there /\ files["mod"].has = {} /\ files["sum"].has = {}
    BY <1>2, <1>3 DEF IsContent, IsFile, Missing
  <1>5. \A w \in Workers : /\ Knows(workers[w]) /\ workers[w].step \notin ApplySteps
                           /\ \A n \in Names : IsCopy(private[w][n]) /\ Clear(private[w][n])
    BY <1>1, IdleKnows, Empties
  <1>6. Settled(files, applied)
    BY <1>1, <1>4 DEF Settled
  <1> QED BY <1>1, <1>4, <1>5, <1>6 DEF Whole, Names

\* A worker that is stuck, or an overlap, is remembered.
LEMMA OnceStuck ==
  ASSUME InstallNext, ~stuck', ~overlapped'
  PROVE  ~stuck /\ ~overlapped
  <1>1. ASSUME NEW w \in Workers, NEW job, NEW pick, NEW step, StartsJob(w, job, pick, step) PROVE ~stuck /\ ~overlapped
    BY <1>1 DEF StartsJob, history
  <1>2. ASSUME NEW w \in Workers, NEW preview \in shown, ApplyCommand(w, preview) PROVE ~stuck /\ ~overlapped
    BY <1>2 DEF ApplyCommand, history
  <1>3. ASSUME NEW w \in Workers, CatalogFromCache(w) \/ Discover(w) \/ StoreCatalog(w) PROVE ~stuck /\ ~overlapped
    BY <1>3 DEF CatalogFromCache, Discover, StoreCatalog, history
  <1>4. ASSUME NEW w \in Workers, AnswerPreview(w) \/ AnswerAdd(w) \/ Report(w) PROVE ~stuck /\ ~overlapped
    BY <1>4 DEF AnswerPreview, AnswerAdd, Report, history
  <1>5. ASSUME NEW w \in Workers, NEW ok \in BOOLEAN, ReadMod(w, ok) \/ ReadSum(w, ok) \/ CopyFiles(w, ok) \/ RunGet(w, ok)
        PROVE  ~stuck /\ ~overlapped
    BY <1>5 DEF ReadMod, ReadSum, CopyFiles, RunGet, history
  <1>6. ASSUME NEW w \in Workers, NEW ok \in BOOLEAN, NEW n \in Names, Guard(w, n, ok) PROVE ~stuck /\ ~overlapped
    BY <1>6, Zenon DEF Guard
  <1>7. ASSUME NEW w \in Workers, NEW ok \in BOOLEAN, Stage(w, ok) \/ Backup(w, ok) \/ CheckBackup(w, ok) \/ Install(w, ok)
        PROVE  ~stuck /\ ~overlapped
    BY <1>7 DEF Stage, Backup, CheckBackup, Install, history
  <1>8. ASSUME NEW w \in Workers, NEW ok \in BOOLEAN, RemoveInstalled(w, ok) \/ Restore(w, ok) \/ Clean(w, ok)
        PROVE  ~stuck /\ ~overlapped
    <2>1. (stuck' = (stuck \/ ~ok)) /\ overlapped' = overlapped
      BY <1>8 DEF RemoveInstalled, Restore, Clean
    <2> QED BY <2>1
  <1>9. ASSUME CatalogExpires \/ \E n \in Names : Edit(n) PROVE ~stuck /\ ~overlapped
    BY <1>9 DEF CatalogExpires, Edit, history
  <1> QED BY <1>1, <1>2, <1>3, <1>4, <1>5, <1>6, <1>7, <1>8, <1>9 DEF InstallNext, AddCommand, PreviewCommand, Completion

\* Every step, of the module files or of another command.
LEMMA WholeStep == InstallInv /\ WholeInv /\ [Next]_vars => WholeInv'
  <1> SUFFICES ASSUME InstallInv, WholeInv, [Next]_vars, ~stuck', ~overlapped' PROVE Whole'
    BY DEF WholeInv
  <1>1. CASE UNCHANGED installVars
    BY <1>1 DEF WholeInv, Whole, installVars
  <1>2. CASE InstallNext
    <2>1. ~stuck /\ ~overlapped
      BY <1>2, OnceStuck
    <2> Whole
      BY <2>1 DEF WholeInv
    <2>2. ASSUME NEW w \in Workers, NEW pick \in Selections, NEW apply \in BOOLEAN, AddCommand(w, pick, apply) PROVE Whole'
      BY <2>2, StartWhole DEF AddCommand
    <2>3. ASSUME NEW w \in Workers, NEW tool \in Tools, PreviewCommand(w, tool) PROVE Whole'
      BY <2>3, StartWhole DEF PreviewCommand
    <2>4. ASSUME NEW w \in Workers, NEW preview \in shown, ApplyCommand(w, preview) PROVE Whole'
      BY <2>4, ApplyCommandWhole
    <2>5. ASSUME NEW w \in Workers, Completion(w) PROVE Whole'
      BY <2>5, StartWhole DEF Completion
    <2>6. ASSUME NEW w \in Workers, CatalogFromCache(w) \/ Discover(w) \/ StoreCatalog(w) PROVE Whole'
      BY <2>6, CatalogWhole
    <2>7. ASSUME NEW w \in Workers, AnswerPreview(w) \/ AnswerAdd(w) \/ Report(w) PROVE Whole'
      BY <2>7, AnswerWhole, ReportWhole
    <2>8. ASSUME NEW w \in Workers, NEW ok \in BOOLEAN, ReadMod(w, ok) \/ ReadSum(w, ok) \/ CopyFiles(w, ok) \/ RunGet(w, ok)
          PROVE  Whole'
      BY <2>8, ReadWhole, RunGetWhole
    <2>9. ASSUME NEW w \in Workers, NEW ok \in BOOLEAN, NEW n \in Names, Guard(w, n, ok) PROVE Whole'
      BY <2>9, GuardWhole
    <2>10. ASSUME NEW w \in Workers, NEW ok \in BOOLEAN, Stage(w, ok) \/ Backup(w, ok) \/ CheckBackup(w, ok) \/ Install(w, ok)
           PROVE  Whole'
      BY <2>10, StageWhole, BackupWhole, CheckBackupWhole, InstallWhole
    <2>11. ASSUME NEW w \in Workers, NEW ok \in BOOLEAN, RemoveInstalled(w, ok) \/ Restore(w, ok) \/ Clean(w, ok)
           PROVE  Whole'
      BY <2>11, RemoveInstalledWhole, RestoreWhole, CleanWhole
    <2>12. ASSUME CatalogExpires PROVE Whole'
      BY <2>12 DEF CatalogExpires, Whole, server, history
    <2>13. ASSUME NEW n \in Names, Edit(n) PROVE Whole'
      BY <2>13, EditWhole
    <2> QED BY <1>2, <2>2, <2>3, <2>4, <2>5, <2>6, <2>7, <2>8, <2>9, <2>10, <2>11, <2>12, <2>13 DEF InstallNext
  <1> QED BY <1>1, <1>2 DEF Next, vars

\* A change of the module files is made to both or to none, for any number of workers, previews, edits of the user and
\* failures, as long as no two workers apply at the same time and no error meets the undoing of another one: when nobody
\* applies, the files hold exactly the selections that were reported as applied.
THEOREM ChangesAreWhole == Spec => []AllOrNothing
  <1>1. Init => InstallInv /\ WholeInv
    BY InstallStart, WholeStart DEF WholeInv
  <1>2. InstallInv /\ WholeInv /\ [Next]_vars => (InstallInv /\ WholeInv)'
    BY InstallStep, WholeStep
  <1>3. WholeInv => AllOrNothing
    BY DEF WholeInv, Whole, AllOrNothing, AtRest, Applying, ApplySteps, Settled
  <1> QED BY <1>1, <1>2, <1>3, PTL DEF Spec

-----------------------------------------------------------------------------
(* The other commands.                                                     *)

OwedSteps == {"close", "unnotify", "clean"}
StepNames ==
  PlainSteps \cup Asking \cup OwedSteps
    \cup {"dispatch", "service", "manager", "apply", "check", "mkdir", "notify", "start", "wait", "locate"}

StepsIn(s) == {s[i] : i \in 1..Len(s)}
First(step) == todo # <<>> /\ Head(todo) = step

\* The order of steps: the application is started when signals are listened for, and waited for at once; a tool is
\* asked when the service is there; what has to be undone is undone later; nothing follows the removal of the directory
\* that waits for the application.
Followed(s, first, later) == \A i \in 1..Len(s) : s[i] \in first => \E j \in 1..Len(s) : i < j /\ s[j] = later
Ordered(s) ==
  /\ s \in Seq(StepNames)
  /\ \A i \in 1..Len(s) : s[i] = "start" => i < Len(s) /\ s[i + 1] = "wait" /\ (i > 1 => s[i - 1] = "notify")
  /\ \A i \in 1..Len(s) : s[i] \in Asking /\ i > 1 => s[i - 1] \in {"service", "manager"}
  /\ Followed(s, {"service", "manager"}, "close") /\ Followed(s, {"mkdir"}, "clean") /\ Followed(s, {"notify"}, "unnotify")
  /\ \A i \in 1..Len(s) : s[i] = "apply" => i < Len(s)
  /\ \A i, j \in 1..Len(s) : s[i] = "start" /\ s[j] = "start" => i = j
  /\ \A i, j \in 1..Len(s) : s[i] = "wait" /\ s[j] = "clean" => i < j
  /\ \A i \in 1..Len(s) : s[i] = "dispatch" => Len(s) = 1

\* The steps t that are left, those of them that are owed, and whether signals are listened for.
StepsOK(t, o, listens) ==
  /\ Ordered(t)
  /\ o \subseteq OwedSteps /\ o \subseteq StepsIn(t)
  /\ t # <<>> /\ Head(t) = "start" => listens
  /\ t # <<>> /\ Head(t) \in Asking => "close" \in o

\* What is there has a step that removes it, or the removal has failed; the application runs only during the wait.
OutliveInv ==
  /\ over \in {"no", "exit", "died"} /\ app \in {"none", "running", "zombie", "reaped"}
  /\ StepsOK(todo, owed, heard)
  /\ over = "exit" => todo = <<>>
  /\ app \in {"running", "zombie"} => over = "no" /\ heard /\ First("wait")
  /\ dir => "clean" \in owed \cup failed
  /\ tools => "close" \in owed \cup failed

Accepted == Handler(typed.command) # {} /\ Understood(Handling, typed.words)
Beans == Accepted /\ Handling = "beans"
Script == StepsOf(Handling, typed.words)

\* The exit code so far, and what the steps that are done have left.
ExitInv ==
  /\ ~Accepted => \/ todo = <<"dispatch">> /\ code = 0
                  \/ todo = <<>> /\ code # 0
  /\ "dispatch" \in StepsIn(todo) => app = "none" /\ code = 0
  /\ "start" \in StepsIn(todo) => app = "none"
  /\ app \in {"none", "running"} => ended = 0
  /\ "wait" \in StepsIn(todo) => failed = {} /\ ~Beans
  /\ code = 0 => failed \subseteq IF Beans THEN {"close"} ELSE {}
  /\ code = 0 /\ ended # 0 => "wait" \in StepsIn(todo)
  /\ code # 0 => ~Accepted \/ failed # {} \/ ended # 0 \/ stopping # "no"
  /\ app = "reaped" /\ stopping = "no" /\ failed = {} /\ "wait" \notin StepsIn(todo) => code = ended
  /\ disk \in {"current", "stale"}
  /\ disk # was => Accepted /\ "apply" \in StepsIn(Script)
  /\ "apply" \in StepsIn(todo) => Accepted /\ "apply" \in StepsIn(Script)
  /\ \A step \in {"apply", "check"} :
       Accepted /\ step \in StepsIn(Script) =>
         "dispatch" \in StepsIn(todo) \/ step \in StepsIn(todo) \/ failed # {} \/ disk = "current"

-----------------------------------------------------------------------------
(* The lists of steps.                                                     *)

\* The steps after the first one.
LEMMA TailFacts ==
  ASSUME NEW s, Ordered(s), s # <<>>
  PROVE  /\ Ordered(Tail(s)) /\ StepsIn(s) = {Head(s)} \cup StepsIn(Tail(s)) /\ Head(s) \in StepNames
         /\ Head(s) = "start" => Tail(s) # <<>> /\ Head(Tail(s)) = "wait" /\ "start" \notin StepsIn(Tail(s))
         /\ Tail(s) # <<>> /\ Head(Tail(s)) = "start" => Head(s) = "notify"
         /\ Tail(s) # <<>> /\ Head(Tail(s)) \in Asking => Head(s) \in {"service", "manager"}
         /\ Head(s) \in {"service", "manager"} => "close" \in StepsIn(Tail(s))
         /\ Head(s) = "mkdir" => "clean" \in StepsIn(Tail(s))
         /\ Head(s) = "notify" => "unnotify" \in StepsIn(Tail(s))
         /\ Head(s) = "apply" => Tail(s) # <<>> /\ s[2] = Head(Tail(s))
         /\ Head(s) = "clean" => "wait" \notin StepsIn(Tail(s))
         /\ Head(s) = "dispatch" => Tail(s) = <<>>
  <1> DEFINE t == Tail(s)
             n == Len(s)
  <1>1. s \in Seq(StepNames) /\ n \in Nat /\ n > 0 /\ Head(s) = s[1] /\ s[1] \in StepNames
    BY DEF Ordered
  <1>2. t \in Seq(StepNames) /\ Len(t) = n - 1 /\ \A i \in 1..(n - 1) : t[i] = s[i + 1]
    BY <1>1
  <1>3. t # <<>> => n > 1 /\ Head(t) = s[2]
    BY <1>1, <1>2
  <1> HIDE DEF t, n
  <1>4. n = 1 <=> t = <<>>
    <2>1. t # <<>> => Len(t) # 0
      BY <1>2, EmptySeq
    <2>2. t = <<>> => Len(t) = 0
      OBVIOUS
    <2> QED BY <1>1, <1>2, <2>1, <2>2
  <1>5. StepsIn(s) = {Head(s)} \cup StepsIn(t)
    <2>1. ASSUME NEW i \in 1..n PROVE s[i] \in {Head(s)} \cup StepsIn(t)
      <3>1. CASE i = 1
        BY <1>1, <3>1
      <3>2. CASE i # 1
        <4>1. i - 1 \in 1..(n - 1) /\ s[i] = t[i - 1]
          BY <1>1, <1>2, <3>2
        <4> QED BY <1>2, <4>1 DEF StepsIn
      <3> QED BY <3>1, <3>2
    <2>2. ASSUME NEW i \in 1..(n - 1) PROVE t[i] \in StepsIn(s)
      <3>1. i + 1 \in 1..n /\ t[i] = s[i + 1]
        BY <1>1, <1>2
      <3> QED BY <3>1 DEF StepsIn, n
    <2> QED BY <1>1, <1>2, <2>1, <2>2 DEF StepsIn, n
  <1>6. Ordered(t)
    <2>1. ASSUME NEW i \in 1..Len(t), t[i] = "start"
          PROVE  i < Len(t) /\ t[i + 1] = "wait" /\ (i > 1 => t[i - 1] = "notify")
      <3>1. i + 1 \in 1..n /\ s[i + 1] = "start" /\ i + 1 > 1
        BY <1>1, <1>2, <2>1
      <3>2. i + 1 < n /\ s[(i + 1) + 1] = "wait" /\ s[(i + 1) - 1] = "notify"
        BY <3>1 DEF Ordered, n
      <3> QED BY <1>1, <1>2, <3>1, <3>2
    <2>2. ASSUME NEW i \in 1..Len(t), t[i] \in Asking, i > 1 PROVE t[i - 1] \in {"service", "manager"}
      <3>1. i + 1 \in 1..n /\ i + 1 > 1 /\ s[i + 1] \in Asking
        BY <1>1, <1>2, <2>2
      <3>2. s[(i + 1) - 1] \in {"service", "manager"}
        BY <3>1 DEF Ordered, n
      <3> QED BY <1>1, <1>2, <2>2, <3>2
    <2>3. ASSUME NEW first, NEW later, Followed(s, first, later) PROVE Followed(t, first, later)
      <3>1. ASSUME NEW i \in 1..Len(t), t[i] \in first PROVE \E j \in 1..Len(t) : i < j /\ t[j] = later
        <4>1. PICK j \in 1..n : i + 1 < j /\ s[j] = later
          BY <1>1, <1>2, <2>3, <3>1 DEF Followed, n
        <4>2. j - 1 \in 1..Len(t) /\ i < j - 1 /\ t[j - 1] = later
          BY <1>1, <1>2, <4>1
        <4> QED BY <4>2
      <3> QED BY <3>1 DEF Followed
    <2>4. /\ Followed(t, {"service", "manager"}, "close") /\ Followed(t, {"mkdir"}, "clean")
          /\ Followed(t, {"notify"}, "unnotify")
      BY <2>3 DEF Ordered
    <2>5. \A i, j \in 1..Len(t) : t[i] = "start" /\ t[j] = "start" => i = j
      BY <1>1, <1>2 DEF Ordered, n
    <2>6. \A i, j \in 1..Len(t) : t[i] = "wait" /\ t[j] = "clean" => i < j
      BY <1>1, <1>2 DEF Ordered, n
    <2>7. \A i \in 1..Len(t) : t[i] = "dispatch" => Len(t) = 1
      BY <1>1, <1>2, SMTT(30) DEF Ordered, n
    <2>9. \A i \in 1..Len(t) : t[i] = "apply" => i < Len(t)
      BY <1>1, <1>2, SMTT(30) DEF Ordered, n
    <2> QED BY <1>2, <2>1, <2>2, <2>3, <2>4, <2>5, <2>6, <2>7, <2>9 DEF Ordered
  <1>7. Head(s) = "start" => t # <<>> /\ Head(t) = "wait" /\ "start" \notin StepsIn(t)
    <2> HAVE Head(s) = "start"
    <2>1. 1 < n /\ s[2] = "wait"
      BY <1>1 DEF Ordered, n
    <2>2. \A i \in 1..(n - 1) : t[i] # "start"
      BY <1>1, <1>2 DEF Ordered, n
    <2> QED BY <1>2, <1>3, <1>4, <2>1, <2>2 DEF StepsIn
  <1>8. /\ t # <<>> /\ Head(t) = "start" => Head(s) = "notify"
        /\ t # <<>> /\ Head(t) \in Asking => Head(s) \in {"service", "manager"}
    BY <1>1, <1>3 DEF Ordered, n
  <1>9. ASSUME NEW first, NEW later, Followed(s, first, later), Head(s) \in first PROVE later \in StepsIn(t)
    <2>1. PICK j \in 1..n : 1 < j /\ s[j] = later
      BY <1>1, <1>9 DEF Followed, n
    <2>2. j - 1 \in 1..Len(t) /\ t[j - 1] = later
      BY <1>1, <1>2, <2>1
    <2> QED BY <2>2 DEF StepsIn
  <1>10. /\ Head(s) \in {"service", "manager"} => "close" \in StepsIn(t)
         /\ Head(s) \in {"mkdir"} => "clean" \in StepsIn(t)
         /\ Head(s) \in {"notify"} => "unnotify" \in StepsIn(t)
    BY <1>9 DEF Ordered
  <1>11. Head(s) = "clean" => "wait" \notin StepsIn(t)
    <2> HAVE Head(s) = "clean"
    <2>1. \A i \in 1..(n - 1) : t[i] # "wait"
      BY <1>1, <1>2 DEF Ordered, n
    <2> QED BY <1>2, <2>1 DEF StepsIn
  <1>12. Head(s) = "dispatch" => t = <<>>
    BY <1>1, <1>4 DEF Ordered, n
  <1>14. Head(s) = "apply" => t # <<>> /\ s[2] = Head(t)
    BY <1>1, <1>3, <1>4 DEF Ordered, n
  <1> QED BY <1>1, <1>5, <1>6, <1>7, <1>8, <1>10, <1>11, <1>12, <1>14 DEF t

\* Lists whose steps need no other one, except that something follows apply.
Loose == StepNames \ ({"dispatch", "start", "wait", "service", "manager", "mkdir", "notify"} \cup Asking)

LEMMA LooseOrdered ==
  ASSUME NEW s \in Seq(Loose), Len(s) > 0 => s[Len(s)] # "apply"
  PROVE  Ordered(s)
  <1>1. s \in Seq(StepNames) /\ \A i \in 1..Len(s) : s[i] \in Loose
    BY DEF Loose
  <1> QED BY <1>1 DEF Ordered, Followed, Loose

\* The concatenation u of two lists.
LEMMA ConcatSteps ==
  ASSUME NEW s \in Seq(StepNames), NEW t \in Seq(StepNames), NEW u, u = s \o t
  PROVE  /\ u \in Seq(StepNames) /\ Len(u) = Len(s) + Len(t)
         /\ \A i \in 1..Len(s) : u[i] = s[i]
         /\ \A i \in 1..Len(t) : u[Len(s) + i] = t[i]
         /\ \A i \in 1..Len(u) : i \in 1..Len(s) \/ (i - Len(s) \in 1..Len(t) /\ u[i] = t[i - Len(s)])
         /\ StepsIn(u) = StepsIn(s) \cup StepsIn(t)
  <1>1. Len(s) \in Nat /\ Len(t) \in Nat
    OBVIOUS
  <1>2. /\ u \in Seq(StepNames) /\ Len(u) = Len(s) + Len(t)
        /\ \A i \in 1..Len(s) + Len(t) : u[i] = IF i <= Len(s) THEN s[i] ELSE t[i - Len(s)]
    BY ConcatProperties
  <1>3. /\ \A i \in 1..Len(s) : u[i] = s[i]
        /\ \A i \in 1..Len(t) : u[Len(s) + i] = t[i]
    BY <1>1, <1>2
  <1>4. ASSUME NEW i \in 1..Len(u)
        PROVE  i \in 1..Len(s) \/ (i - Len(s) \in 1..Len(t) /\ u[i] = t[i - Len(s)])
    <2>1. i \in 1..Len(s) + Len(t)
      BY <1>2
    <2>2. CASE i <= Len(s)
      BY <1>1, <2>1, <2>2
    <2>3. CASE ~(i <= Len(s))
      <3>1. u[i] = t[i - Len(s)]
        BY <1>2, <2>1, <2>3
      <3>2. i - Len(s) \in 1..Len(t)
        BY <1>1, <2>1, <2>3
      <3> QED BY <3>1, <3>2
    <2> QED BY <2>2, <2>3
  <1>5. StepsIn(u) \subseteq StepsIn(s) \cup StepsIn(t)
    BY <1>3, <1>4 DEF StepsIn
  <1>6. ASSUME NEW i \in 1..Len(s) PROVE s[i] \in StepsIn(u)
    <2>1. i \in 1..Len(u)
      BY <1>1, <1>2
    <2> QED BY <1>3, <2>1 DEF StepsIn
  <1>7. ASSUME NEW i \in 1..Len(t) PROVE t[i] \in StepsIn(u)
    <2>1. Len(s) + i \in 1..Len(u)
      BY <1>1, <1>2
    <2> QED BY <1>3, <2>1 DEF StepsIn
  <1>8. StepsIn(s) \subseteq StepsIn(u) /\ StepsIn(t) \subseteq StepsIn(u)
    BY <1>6, <1>7 DEF StepsIn
  <1>9. StepsIn(u) = StepsIn(s) \cup StepsIn(t)
    BY <1>5, <1>8
  <1> QED BY <1>2, <1>3, <1>4, <1>9

\* What is owed is done.
LEMMA DeferredFacts ==
  ASSUME NEW s \in SUBSET OwedSteps
  PROVE  Ordered(Deferred(s)) /\ StepsIn(Deferred(s)) = s
  <1> DEFINE If(step) == IF step \in s THEN <<step>> ELSE <<>>
  <1>1. Deferred(s) = If("close") \o If("unnotify") \o If("clean")
    BY DEF Deferred
  <1>2. ASSUME NEW step \in OwedSteps
        PROVE  If(step) \in Seq(Loose) /\ If(step) \in Seq(StepNames) /\ StepsIn(If(step)) = s \cap {step}
    <2>1. step \in Loose /\ step \in StepNames
      BY DEF Loose, StepNames, OwedSteps, Asking
    <2>2. CASE step \in s
      BY <2>1, <2>2 DEF StepsIn
    <2>3. CASE step \notin s
      BY <2>3 DEF StepsIn
    <2> QED BY <2>2, <2>3
  <1> HIDE DEF If
  <1>3. {"close", "unnotify", "clean"} = OwedSteps
    BY DEF OwedSteps
  <1>4. /\ If("close") \o If("unnotify") \in Seq(StepNames)
        /\ StepsIn(If("close") \o If("unnotify")) = s \cap {"close", "unnotify"}
    <2>1. /\ If("close") \in Seq(StepNames) /\ StepsIn(If("close")) = s \cap {"close"}
          /\ If("unnotify") \in Seq(StepNames) /\ StepsIn(If("unnotify")) = s \cap {"unnotify"}
      BY <1>2, <1>3
    <2>2. /\ If("close") \o If("unnotify") \in Seq(StepNames)
          /\ StepsIn(If("close") \o If("unnotify")) = StepsIn(If("close")) \cup StepsIn(If("unnotify"))
      BY <2>1, ConcatSteps
    <2> QED BY <2>1, <2>2
  <1>5. Deferred(s) \in Seq(StepNames) /\ StepsIn(Deferred(s)) = s
    <2>1. If("clean") \in Seq(StepNames) /\ StepsIn(If("clean")) = s \cap {"clean"}
      BY <1>2, <1>3
    <2>2. /\ Deferred(s) \in Seq(StepNames)
          /\ StepsIn(Deferred(s)) = StepsIn(If("close") \o If("unnotify")) \cup StepsIn(If("clean"))
      BY <1>1, <1>4, <2>1, ConcatSteps
    <2> QED BY <1>3, <1>4, <2>1, <2>2
  <1>6. \A i \in 1..Len(Deferred(s)) : Deferred(s)[i] \in OwedSteps
    BY <1>5 DEF StepsIn
  <1> QED BY <1>5, <1>6 DEF Ordered, Followed, OwedSteps, Asking

\* A list of steps that a command may begin with.
Proper(s) ==
  /\ Ordered(s)
  /\ "dispatch" \notin StepsIn(s)
  /\ Len(s) > 0 => s[1] \notin Asking \cup {"start"}

LEMMA ProperConcat ==
  ASSUME NEW s, NEW t, Proper(s), Proper(t), "start" \notin StepsIn(s), "clean" \notin StepsIn(s)
  PROVE  Proper(s \o t) /\ StepsIn(s \o t) = StepsIn(s) \cup StepsIn(t)
  <1> DEFINE u == s \o t
  <1>1. s \in Seq(StepNames) /\ t \in Seq(StepNames) /\ Len(s) \in Nat /\ Len(t) \in Nat
    BY DEF Proper, Ordered
  <1>2. /\ u \in Seq(StepNames) /\ Len(u) = Len(s) + Len(t)
        /\ \A i \in 1..Len(s) : u[i] = s[i]
        /\ \A i \in 1..Len(t) : u[Len(s) + i] = t[i]
        /\ \A i \in 1..Len(u) : i \in 1..Len(s) \/ (i - Len(s) \in 1..Len(t) /\ u[i] = t[i - Len(s)])
        /\ StepsIn(u) = StepsIn(s) \cup StepsIn(t)
    BY <1>1, ConcatSteps
  <1> HIDE DEF u
  <1>3. ASSUME NEW i \in 1..Len(s) PROVE s[i] # "start" /\ s[i] # "clean"
    BY DEF StepsIn
  <1>4. ASSUME NEW i \in 1..Len(u), u[i] = "start"
        PROVE  i < Len(u) /\ u[i + 1] = "wait" /\ (i > 1 => u[i - 1] = "notify")
    <2>1. i - Len(s) \in 1..Len(t) /\ t[i - Len(s)] = "start"
      BY <1>2, <1>3, <1>4
    <2> DEFINE k == i - Len(s)
    <2>2. k < Len(t) /\ t[k + 1] = "wait" /\ k > 1 /\ t[k - 1] = "notify"
      BY <1>1, <2>1 DEF Proper, Ordered
    <2>3. k \in Nat /\ i = Len(s) + k /\ k + 1 \in 1..Len(t) /\ k - 1 \in 1..Len(t)
      BY <1>1, <2>1, <2>2
    <2>4. u[Len(s) + (k + 1)] = t[k + 1] /\ u[Len(s) + (k - 1)] = t[k - 1]
      BY <1>2, <2>3
    <2>5. Len(s) + (k + 1) = i + 1 /\ Len(s) + (k - 1) = i - 1 /\ i < Len(u)
      BY <1>1, <1>2, <2>2, <2>3
    <2> QED BY <2>2, <2>4, <2>5
  <1>5. ASSUME NEW i \in 1..Len(u), u[i] \in Asking, i > 1 PROVE u[i - 1] \in {"service", "manager"}
    <2>1. CASE i \in 1..Len(s)
      <3>1. i - 1 \in 1..Len(s) /\ s[i - 1] \in {"service", "manager"}
        BY <1>1, <1>2, <1>5, <2>1 DEF Proper, Ordered
      <3> QED BY <1>2, <3>1
    <2>2. CASE i - Len(s) \in 1..Len(t) /\ u[i] = t[i - Len(s)]
      <3> DEFINE k == i - Len(s)
      <3>1. k > 1 /\ t[k - 1] \in {"service", "manager"}
        BY <1>1, <1>5, <2>2 DEF Proper, Ordered
      <3>2. k - 1 \in 1..Len(t) /\ Len(s) + (k - 1) = i - 1
        BY <1>1, <2>2, <3>1
      <3> QED BY <1>2, <3>1, <3>2
    <2> QED BY <1>2, <2>1, <2>2
  <1>6. ASSUME NEW first, NEW later, Followed(s, first, later), Followed(t, first, later) PROVE Followed(u, first, later)
    <2> SUFFICES ASSUME NEW i \in 1..Len(u), u[i] \in first PROVE \E j \in 1..Len(u) : i < j /\ u[j] = later
      BY DEF Followed
    <2>1. CASE i \in 1..Len(s)
      <3>1. PICK j \in 1..Len(s) : i < j /\ s[j] = later
        BY <1>2, <1>6, <2>1 DEF Followed
      <3>2. j \in 1..Len(u) /\ u[j] = later
        BY <1>1, <1>2, <3>1
      <3> QED BY <3>1, <3>2
    <2>2. CASE i - Len(s) \in 1..Len(t) /\ u[i] = t[i - Len(s)]
      <3>1. PICK j \in 1..Len(t) : i - Len(s) < j /\ t[j] = later
        BY <1>6, <2>2 DEF Followed
      <3>2. Len(s) + j \in 1..Len(u) /\ u[Len(s) + j] = later /\ i < Len(s) + j
        BY <1>1, <1>2, <3>1
      <3> QED BY <3>2
    <2> QED BY <1>2, <2>1, <2>2
  <1>7. /\ Followed(u, {"service", "manager"}, "close") /\ Followed(u, {"mkdir"}, "clean")
        /\ Followed(u, {"notify"}, "unnotify")
    BY <1>6 DEF Proper, Ordered
  <1>11. \A i \in 1..Len(u) : u[i] = "apply" => i < Len(u)
    BY <1>1, <1>2 DEF Proper, Ordered
  <1>12. ASSUME NEW i \in 1..Len(u), NEW j \in 1..Len(u), u[i] = "start", u[j] = "start" PROVE i = j
    <2>1. /\ i - Len(s) \in 1..Len(t) /\ t[i - Len(s)] = "start"
          /\ j - Len(s) \in 1..Len(t) /\ t[j - Len(s)] = "start"
      BY <1>2, <1>3, <1>12
    <2>2. i - Len(s) = j - Len(s)
      BY <2>1 DEF Proper, Ordered
    <2> QED BY <1>1, <2>2
  <1>13. ASSUME NEW i \in 1..Len(u), NEW j \in 1..Len(u), u[i] = "wait", u[j] = "clean" PROVE i < j
    <2>1. j - Len(s) \in 1..Len(t) /\ t[j - Len(s)] = "clean"
      BY <1>2, <1>3, <1>13
    <2>2. CASE i \in 1..Len(s)
      BY <1>1, <2>1, <2>2
    <2>3. CASE i - Len(s) \in 1..Len(t) /\ u[i] = t[i - Len(s)]
      <3> DEFINE k == i - Len(s)
                 l == j - Len(s)
      <3>1. k \in 1..Len(t) /\ l \in 1..Len(t) /\ t[k] = "wait" /\ t[l] = "clean"
        BY <1>13, <2>1, <2>3
      <3>2. k \in Int /\ l \in Int /\ i = Len(s) + k /\ j = Len(s) + l
        BY <1>1
      <3> HIDE DEF k, l
      <3>3. k < l
        BY <3>1 DEF Proper, Ordered
      <3> QED BY <1>1, <3>2, <3>3
    <2> QED BY <1>2, <2>2, <2>3
  <1>14. "dispatch" \notin StepsIn(u)
    BY <1>2 DEF Proper
  <1>15. \A i \in 1..Len(u) : u[i] # "dispatch"
    BY <1>14 DEF StepsIn
  <1>16. Len(u) > 0 => u[1] \notin Asking \cup {"start"}
    <2> HAVE Len(u) > 0
    <2>1. CASE Len(s) > 0
      BY <1>1, <1>2, <2>1 DEF Proper
    <2>2. CASE Len(s) = 0
      <3>1. 1 \in 1..Len(t) /\ Len(s) + 1 = 1 /\ u[1] = t[1]
        BY <1>1, <1>2, <2>2
      <3> QED BY <1>1, <3>1 DEF Proper
    <2> QED BY <1>1, <2>1, <2>2
  <1>17. Ordered(u)
    BY <1>2, <1>4, <1>5, <1>7, <1>11, <1>12, <1>13, <1>15 DEF Ordered
  <1> QED BY <1>2, <1>14, <1>16, <1>17 DEF Proper, u

LEMMA LooseProper ==
  ASSUME NEW s \in Seq(Loose), Len(s) > 0 => s[Len(s)] # "apply"
  PROVE  Proper(s) /\ StepsIn(s) \subseteq Loose
  <1>1. \A i \in 1..Len(s) : s[i] \in Loose
    OBVIOUS
  <1>2. Ordered(s)
    BY LooseOrdered
  <1>3. Len(s) > 0 => s[1] \in Loose
    BY <1>1
  <1> QED BY <1>1, <1>2, <1>3 DEF Proper, StepsIn, Loose

LEMMA EmptyProper == Proper(<<>>) /\ StepsIn(<<>>) = {}
  <1> DEFINE s == <<>>
  <1>1. s \in Seq(Loose) /\ Len(s) = 0 /\ ~(Len(s) > 0) /\ 1..Len(s) = {}
    OBVIOUS
  <1> HIDE DEF s
  <1>2. Proper(s)
    <2>1. Ordered(s)
      BY <1>1, LooseOrdered
    <2> QED BY <1>1, <2>1 DEF Proper, StepsIn
  <1>3. StepsIn(s) = {}
    BY <1>1 DEF StepsIn
  <1> QED BY <1>2, <1>3 DEF s

LEMMA LooseLists ==
  ASSUME NEW a \in Loose, NEW b \in Loose, NEW c \in Loose, NEW d \in Loose
  PROVE  /\ a # "apply" => Proper(<<a>>)
         /\ b # "apply" => Proper(<<a, b>>)
         /\ c # "apply" => Proper(<<a, b, c>>)
         /\ d # "apply" => Proper(<<a, b, c, d>>)
  <1>2. a # "apply" => Proper(<<a>>)
    <2> DEFINE s == <<a>>
    <2>1. s \in Seq(Loose) /\ Len(s) = 1 /\ s[1] = a
      OBVIOUS
    <2> HIDE DEF s
    <2>2. a # "apply" => Proper(s)
      BY <2>1, LooseProper
    <2> QED BY <2>2 DEF s
  <1>3. b # "apply" => Proper(<<a, b>>)
    <2> DEFINE s == <<a, b>>
    <2>1. s \in Seq(Loose) /\ Len(s) = 2 /\ s[2] = b
      OBVIOUS
    <2> HIDE DEF s
    <2>2. b # "apply" => Proper(s)
      BY <2>1, LooseProper
    <2> QED BY <2>2 DEF s
  <1>4. c # "apply" => Proper(<<a, b, c>>)
    <2> DEFINE s == <<a, b, c>>
    <2>1. s \in Seq(Loose) /\ Len(s) = 3 /\ s[3] = c
      OBVIOUS
    <2> HIDE DEF s
    <2>2. c # "apply" => Proper(s)
      BY <2>1, LooseProper
    <2> QED BY <2>2 DEF s
  <1>5. d # "apply" => Proper(<<a, b, c, d>>)
    <2> DEFINE s == <<a, b, c, d>>
    <2>1. s \in Seq(Loose) /\ Len(s) = 4 /\ s[4] = d
      OBVIOUS
    <2> HIDE DEF s
    <2>2. d # "apply" => Proper(s)
      BY <2>1, LooseProper
    <2> QED BY <2>2 DEF s
  <1> QED BY <1>2, <1>3, <1>4, <1>5

LEMMA AnalysisProper == Proper(Analysis) /\ StepsIn(Analysis) = {"service", "analyze", "close"}
  <1>1. /\ Analysis \in Seq(StepNames) /\ Len(Analysis) = 3
        /\ Analysis[1] = "service" /\ Analysis[2] = "analyze" /\ Analysis[3] = "close"
    BY DEF Analysis, StepNames, Asking, OwedSteps
  <1>2. 1..3 = {1, 2, 3}
    OBVIOUS
  <1>3. Followed(Analysis, {"service", "manager"}, "close") /\ Followed(Analysis, {"mkdir"}, "clean")
        /\ Followed(Analysis, {"notify"}, "unnotify")
    BY <1>1, <1>2 DEF Followed
  <1>4. StepsIn(Analysis) = {"service", "analyze", "close"}
    BY <1>1, <1>2 DEF StepsIn
  <1>5. Ordered(Analysis)
    BY <1>1, <1>2, <1>3 DEF Ordered, Asking
  <1> QED BY <1>1, <1>4, <1>5 DEF Proper, Asking

LEMMA BeansProper == Proper(BeansSteps) /\ StepsIn(BeansSteps) = {"service", "analyze", "report", "close"}
  <1> DEFINE b == BeansSteps
  <1>1. /\ b \in Seq(StepNames) /\ Len(b) = 4
        /\ b[1] = "service" /\ b[2] = "analyze" /\ b[3] = "report" /\ b[4] = "close"
    BY DEF BeansSteps, StepNames, Asking, OwedSteps, PlainSteps, Writing
  <1>2. 1..4 = {1, 2, 3, 4}
    OBVIOUS
  <1> HIDE DEF b
  <1>3. /\ Followed(b, {"service", "manager"}, "close") /\ Followed(b, {"mkdir"}, "clean")
        /\ Followed(b, {"notify"}, "unnotify")
    BY <1>1, <1>2 DEF Followed
  <1>4. StepsIn(b) = {"service", "analyze", "report", "close"}
    BY <1>1, <1>2 DEF StepsIn
  <1>5. Ordered(b)
    BY <1>1, <1>2, <1>3 DEF Ordered, Asking
  <1> QED BY <1>1, <1>4, <1>5 DEF Proper, Asking, b

LEMMA DoctorProper == Proper(<<"load", "manager", "doctor", "close", "report">>)
  <1> DEFINE b == <<"load", "manager", "doctor", "close", "report">>
  <1>1. /\ b \in Seq(StepNames) /\ Len(b) = 5
        /\ b[1] = "load" /\ b[2] = "manager" /\ b[3] = "doctor" /\ b[4] = "close" /\ b[5] = "report"
    BY DEF StepNames, Asking, OwedSteps, PlainSteps, Writing, Inspecting
  <1>2. 1..5 = {1, 2, 3, 4, 5}
    OBVIOUS
  <1> HIDE DEF b
  <1>3. /\ Followed(b, {"service", "manager"}, "close") /\ Followed(b, {"mkdir"}, "clean")
        /\ Followed(b, {"notify"}, "unnotify")
    BY <1>1, <1>2 DEF Followed
  <1>4. StepsIn(b) = {"load", "manager", "doctor", "close", "report"}
    BY <1>1, <1>2 DEF StepsIn
  <1>5. Ordered(b)
    BY <1>1, <1>2, <1>3 DEF Ordered, Asking
  <1> QED BY <1>1, <1>4, <1>5 DEF Proper, Asking, b

LEMMA BuildAndRunProper == Proper(BuildAndRun)
  <1> DEFINE front == <<"mkdir", "gobuild", "report">>
             middle == front \o Execution
             back == <<"clean">>
             b == middle \o back
  <1>1. BuildAndRun = b
    BY DEF BuildAndRun
  <1>2. /\ b \in Seq(StepNames) /\ Len(b) = 8
        /\ b[1] = "mkdir" /\ b[2] = "gobuild" /\ b[3] = "report" /\ b[4] = "notify"
        /\ b[5] = "start" /\ b[6] = "wait" /\ b[7] = "unnotify" /\ b[8] = "clean"
    <2>1. /\ front \in Seq(StepNames) /\ Len(front) = 3
          /\ front[1] = "mkdir" /\ front[2] = "gobuild" /\ front[3] = "report"
      BY DEF StepNames, PlainSteps, Writing, Building
    <2>2. /\ Execution \in Seq(StepNames) /\ Len(Execution) = 4
          /\ Execution[1] = "notify" /\ Execution[2] = "start" /\ Execution[3] = "wait" /\ Execution[4] = "unnotify"
      BY DEF Execution, StepNames, OwedSteps
    <2>3. back \in Seq(StepNames) /\ Len(back) = 1 /\ back[1] = "clean"
      BY DEF StepNames, OwedSteps
    <2> HIDE DEF front, back
    <2>4. /\ middle \in Seq(StepNames) /\ Len(middle) = 7
          /\ \A i \in 1..3 : middle[i] = front[i]
          /\ \A i \in 1..4 : middle[3 + i] = Execution[i]
      <3>1. /\ middle \in Seq(StepNames) /\ Len(middle) = Len(front) + Len(Execution)
            /\ \A i \in 1..Len(front) : middle[i] = front[i]
            /\ \A i \in 1..Len(Execution) : middle[Len(front) + i] = Execution[i]
        BY <2>1, <2>2, ConcatSteps, ZenonT(30)
      <3> HIDE DEF middle
      <3> QED BY <2>1, <2>2, <3>1
    <2> HIDE DEF middle
    <2>5. /\ b \in Seq(StepNames) /\ Len(b) = 8
          /\ \A i \in 1..7 : b[i] = middle[i]
          /\ \A i \in 1..1 : b[7 + i] = back[i]
      <3>0. b = middle \o back
        OBVIOUS
      <3> HIDE DEF b
      <3>1. /\ b \in Seq(StepNames) /\ Len(b) = Len(middle) + Len(back)
            /\ \A i \in 1..Len(middle) : b[i] = middle[i]
            /\ \A i \in 1..Len(back) : b[Len(middle) + i] = back[i]
        <4>1. middle \in Seq(StepNames) /\ back \in Seq(StepNames)
          BY <2>3, <2>4
        <4> QED BY <4>1, <3>0, ConcatSteps
      <3> QED BY <2>3, <2>4, <3>1
    <2>6. /\ 1 \in 1..3 /\ 2 \in 1..3 /\ 3 \in 1..3
          /\ 1 \in 1..4 /\ 2 \in 1..4 /\ 3 \in 1..4 /\ 4 \in 1..4
          /\ 3 + 1 = 4 /\ 3 + 2 = 5 /\ 3 + 3 = 6 /\ 3 + 4 = 7 /\ 7 + 1 = 8 /\ 1 \in 1..1
      OBVIOUS
    <2> HIDE DEF b
    <2>7. /\ middle[1] = "mkdir" /\ middle[2] = "gobuild" /\ middle[3] = "report" /\ middle[4] = "notify"
          /\ middle[5] = "start" /\ middle[6] = "wait" /\ middle[7] = "unnotify"
      BY <2>1, <2>2, <2>4, <2>6
    <2> QED BY <2>3, <2>5, <2>6, <2>7
  <1>3. 1..8 = {1, 2, 3, 4, 5, 6, 7, 8}
    OBVIOUS
  <1> HIDE DEF b
  <1>4. /\ Followed(b, {"service", "manager"}, "close") /\ Followed(b, {"mkdir"}, "clean")
        /\ Followed(b, {"notify"}, "unnotify")
    BY <1>2, <1>3 DEF Followed
  <1>5. StepsIn(b) = {"mkdir", "gobuild", "report", "notify", "start", "wait", "unnotify", "clean"}
    BY <1>2, <1>3 DEF StepsIn
  <1>6. /\ \A i \in 1..Len(b) : b[i] = "start" => i < Len(b) /\ b[i + 1] = "wait" /\ (i > 1 => b[i - 1] = "notify")
        /\ \A i, j \in 1..Len(b) : b[i] = "start" /\ b[j] = "start" => i = j
        /\ \A i, j \in 1..Len(b) : b[i] = "wait" /\ b[j] = "clean" => i < j
    BY <1>2, <1>3
  <1>7. Ordered(b)
    BY <1>2, <1>3, <1>4, <1>6 DEF Ordered, Asking
  <1> QED BY <1>1, <1>2, <1>5, <1>7 DEF Proper, Asking

\* The steps of every command; spice beans writes nothing and starts nothing.
LEMMA ScriptFacts ==
  ASSUME Accepted
  PROVE  /\ Proper(Script)
         /\ Handling = "beans" => StepsIn(Script) \cap {"apply", "check", "wait"} = {}
  <1> DEFINE Parsed == Parse(Handling, typed.words)
             Topic == IF typed.words = <<>> THEN "" ELSE typed.words[1].val
  <1>1. Handling \in Handler(typed.command)
    BY DEF Accepted, Handling
  <1>2. Handling \in {"help", "version", "generate", "build", "run", "verify", "modules", "test", "beans", "generated",
                      "annotations", "lsp"}
    BY <1>1 DEF Handler, HandlerNames
  <1>3. /\ Handling = "generate" => Script = GenerateSteps(Parsed)
        /\ Handling = "build" => Script = BuildSteps
        /\ Handling = "run" => Script = RunSteps
        /\ Handling = "verify" => Script = VerifySteps(Parsed)
        /\ Handling = "modules" => Script = ModulesSteps(Parsed)
        /\ Handling = "test" => Script = TestSteps
        /\ Handling = "beans" => Script = BeansSteps
        /\ Handling = "generated" => Script = GeneratedSteps
        /\ Handling = "annotations" => Script = AnnotationsSteps(Topic)
        /\ Handling = "lsp" => Script = <<"serve">>
        /\ Handling \in {"help", "version"} => Script = <<"report">>
    BY <1>2 DEF Script, StepsOf
  <1> HIDE DEF Parsed, Topic
  <1>4. {"check", "report", "style", "focus", "locate", "load", "serve", "apply", "note", "gobuild", "gotest", "render",
         "authorize", "layout"} \subseteq Loose
    BY DEF Loose, StepNames, PlainSteps, Building, Writing, Selecting, Inspecting, Asking
  <1>5. /\ Proper(<<>>) /\ StepsIn(<<>>) = {} /\ Proper(<<"check">>) /\ Proper(<<"report">>) /\ Proper(<<"style">>)
        /\ Proper(<<"focus">>) /\ Proper(<<"serve">>)
    <2>1. ASSUME NEW a \in Loose, a # "apply" PROVE Proper(<<a>>)
      BY <2>1, LooseLists
    <2>2. Proper(<<>>) /\ StepsIn(<<>>) = {}
      BY EmptyProper
    <2> QED BY <1>4, <2>1, <2>2
  <1>6. CASE Handling = "generate"
    <2>1. Proper(<<"apply", "report">>)
      BY <1>4, LooseLists
    <2> DEFINE rest == IF Given(Parsed, "check") \/ Given(Parsed, "diff") THEN <<"check">> ELSE <<"apply", "report">>
    <2>2. Proper(rest) /\ Script = Analysis \o rest
      BY <1>3, <1>4, <1>5, <1>6, <2>1 DEF GenerateSteps
    <2> QED BY <1>6, <2>2, AnalysisProper, ProperConcat
  <1>7. CASE Handling = "build"
    <2>1. Proper(<<"apply", "note", "gobuild", "report">>)
      BY <1>4, LooseLists
    <2> QED BY <1>3, <1>7, <2>1, AnalysisProper, ProperConcat DEF BuildSteps
  <1>8. CASE Handling = "run"
    <2> DEFINE layout == <<"layout", "apply", "note">>
               prefix == Analysis \o layout
    <2>1. Proper(layout) /\ StepsIn(layout) = {"layout", "apply", "note"}
      <3>1. layout \in Seq(Loose) /\ Len(layout) = 3 /\ layout[1] = "layout" /\ layout[2] = "apply" /\ layout[3] = "note"
        BY DEF Loose, StepNames, PlainSteps, Writing, Asking
      <3>2. 1..3 = {1, 2, 3}
        OBVIOUS
      <3> HIDE DEF layout
      <3>3. Proper(layout)
        BY <3>1, LooseProper
      <3> QED BY <3>1, <3>2, <3>3 DEF StepsIn
    <2> HIDE DEF layout
    <2>2. Proper(prefix)
      BY <2>1, AnalysisProper, ProperConcat
    <2>3. StepsIn(prefix) = StepsIn(Analysis) \cup StepsIn(layout)
      BY <2>1, AnalysisProper, ProperConcat
    <2>4. Script = prefix \o BuildAndRun
      BY <1>3, <1>8 DEF RunSteps, layout
    <2> HIDE DEF prefix
    <2>5. "start" \notin StepsIn(prefix) /\ "clean" \notin StepsIn(prefix)
      BY <2>1, <2>3, AnalysisProper
    <2> QED BY <1>8, <2>2, <2>4, <2>5, BuildAndRunProper, ProperConcat
  <1>9. CASE Handling = "verify"
    <2> DEFINE style == IF Given(Parsed, "style") THEN <<"style">> ELSE <<>>
               prefix == style \o Analysis
    <2>1. Proper(style) /\ StepsIn(style) \subseteq Loose /\ "clean" \notin StepsIn(style) /\ "start" \notin StepsIn(style)
      <3>1. CASE Given(Parsed, "style")
        <4>1. StepsIn(<<"style">>) = {"style"}
          BY DEF StepsIn
        <4> QED BY <1>4, <1>5, <3>1, <4>1
      <3>2. CASE ~Given(Parsed, "style")
        <4>1. StepsIn(<<>>) = {}
          BY DEF StepsIn
        <4> QED BY <1>4, <1>5, <3>2, <4>1
      <3> QED BY <3>1, <3>2
    <2>2. Script = prefix \o <<"report">>
      BY <1>3, <1>9 DEF VerifySteps
    <2> HIDE DEF style
    <2>3. Proper(prefix)
      BY <2>1, AnalysisProper, ProperConcat
    <2>4. StepsIn(prefix) = StepsIn(style) \cup StepsIn(Analysis)
      BY <2>1, AnalysisProper, ProperConcat
    <2> HIDE DEF prefix
    <2>5. "start" \notin StepsIn(prefix) /\ "clean" \notin StepsIn(prefix)
      BY <2>1, <2>4, AnalysisProper
    <2> QED BY <1>4, <1>5, <1>9, <2>2, <2>3, <2>5, ProperConcat
  <1>10. CASE Handling = "modules"
    <2> DEFINE focus == IF Named(Parsed, "focus") THEN <<"focus">> ELSE <<>>
               prefix == Analysis \o focus
               back == <<"render", "report">>
    <2>1. Proper(focus) /\ "clean" \notin StepsIn(focus) /\ "start" \notin StepsIn(focus)
      <3>1. CASE Named(Parsed, "focus")
        <4>1. StepsIn(<<"focus">>) = {"focus"}
          BY DEF StepsIn
        <4> QED BY <1>4, <1>5, <3>1, <4>1
      <3>2. CASE ~Named(Parsed, "focus")
        <4>1. StepsIn(<<>>) = {}
          BY DEF StepsIn
        <4> QED BY <1>4, <1>5, <3>2, <4>1
      <3> QED BY <3>1, <3>2
    <2>2. Script = prefix \o back
      BY <1>3, <1>10 DEF ModulesSteps
    <2>3. Proper(back)
      BY <1>4, LooseLists
    <2> HIDE DEF focus, back
    <2>4. Proper(prefix)
      BY <2>1, AnalysisProper, ProperConcat
    <2>5. StepsIn(prefix) = StepsIn(Analysis) \cup StepsIn(focus)
      BY <2>1, AnalysisProper, ProperConcat
    <2> HIDE DEF prefix
    <2>6. "start" \notin StepsIn(prefix) /\ "clean" \notin StepsIn(prefix)
      BY <2>1, <2>5, AnalysisProper
    <2> QED BY <1>10, <2>2, <2>3, <2>4, <2>6, ProperConcat
  <1>11. CASE Handling = "test"
    <2>1. Proper(<<"focus", "gotest", "report">>)
      BY <1>4, LooseLists
    <2> QED BY <1>3, <1>11, <2>1, AnalysisProper, ProperConcat DEF TestSteps
  <1>12. CASE Handling = "beans"
    BY <1>3, <1>12, BeansProper
  <1>13. CASE Handling = "generated"
    <2>1. Proper(<<"locate", "report">>)
      BY <1>4, LooseLists
    <2> QED BY <1>3, <1>13, <2>1 DEF GeneratedSteps
  <1>14. CASE Handling = "annotations"
    <2>1. Proper(<<"load", "authorize", "report">>)
      BY <1>4, LooseLists
    <2>2. Proper(<<"load", "report">>)
      BY <1>4, LooseLists
    <2> QED BY <1>3, <1>14, <2>1, <2>2, DoctorProper DEF AnnotationsSteps
  <1>15. CASE Handling \in {"help", "version", "lsp"}
    BY <1>3, <1>4, <1>5, <1>15
  <1> QED BY <1>2, <1>6, <1>7, <1>8, <1>9, <1>10, <1>11, <1>12, <1>13, <1>14, <1>15

-----------------------------------------------------------------------------
(* Nothing outlives the command.                                           *)

\* One step is taken.
LEMMA GoesOn ==
  ASSUME NEW t, NEW o, NEW h, StepsOK(t, o, h), t # <<>>, NEW o2, NEW h2,
         o2 \subseteq (o \ {Head(t)}) \cup (StepsIn(Tail(t)) \cap OwedSteps),
         Head(t) \in {"service", "manager"} => "close" \in o2,
         Head(t) = "notify" => h2
  PROVE  StepsOK(Tail(t), o2, h2)
  BY TailFacts DEF StepsOK

\* The step fails.
LEMMA GivesUp ==
  ASSUME NEW t, NEW o, NEW h, StepsOK(t, o, h), NEW o2, o2 \subseteq o, NEW h2
  PROVE  StepsOK(Deferred(o2), o2, h2)
  <1>1. Ordered(Deferred(o2)) /\ StepsIn(Deferred(o2)) = o2 /\ o2 \subseteq OwedSteps
    BY DeferredFacts DEF StepsOK
  <1>2. Deferred(o2) # <<>> => Head(Deferred(o2)) \in o2
    BY <1>1, TailFacts
  <1> QED BY <1>1, <1>2 DEF StepsOK, OwedSteps, Asking

\* A step that owes nothing, and that nothing else depends on.
LEMMA OneStep ==
  ASSUME OutliveInv, todo # <<>>, Head(todo) \notin OwedSteps \cup {"notify", "service", "manager"},
         Goes \/ Fails, owed' = owed, heard' = heard
  PROVE  StepsOK(todo', owed', heard') /\ failed \subseteq failed'
  <1>1. owed \ {Head(todo)} = owed
    BY DEF OutliveInv, StepsOK
  <1>2. CASE Goes
    BY <1>1, <1>2, GoesOn DEF OutliveInv, Goes
  <1>3. CASE Fails
    BY <1>1, <1>3, GivesUp DEF OutliveInv, Fails
  <1> QED BY <1>2, <1>3

\* What such a step leaves when it concerns neither the application nor what has to be removed.
LEMMA PlainOutlive ==
  ASSUME OutliveInv, over = "no", todo # <<>>, Head(todo) \notin OwedSteps \cup {"notify", "service", "manager", "wait"},
         Goes \/ Fails, UNCHANGED <<owed, tools, dir, process, over>>
  PROVE  OutliveInv'
  <1>1. owed' = owed /\ heard' = heard /\ tools' = tools /\ dir' = dir /\ app' = app /\ over' = over
    BY DEF process
  <1>2. StepsOK(todo', owed', heard') /\ failed \subseteq failed'
    BY <1>1, OneStep
  <1>3. app \notin {"running", "zombie"}
    BY DEF OutliveInv, First
  <1> QED BY <1>1, <1>2, <1>3 DEF OutliveInv

LEMMA DispatchOutlive == ASSUME OutliveInv, Dispatch PROVE OutliveInv'
  <1>1. over = "no" /\ todo # <<>> /\ Head(todo) = "dispatch"
    BY DEF Dispatch, Doing
  <1>2. /\ owed' = owed /\ heard' = heard /\ tools' = tools /\ dir' = dir /\ app' = app /\ over' = over /\ failed' = failed
        /\ (Accepted /\ todo' = Script) \/ todo' = <<>>
    BY DEF Dispatch, process, Accepted, Script
  <1>3. owed = {}
    <2>1. Tail(todo) = <<>> /\ StepsIn(todo) = {"dispatch"} \cup StepsIn(Tail(todo))
      BY <1>1, TailFacts DEF OutliveInv, StepsOK
    <2> QED BY <2>1, EmptyProper DEF OutliveInv, StepsOK, OwedSteps
  <1>4. StepsOK(todo', owed', heard')
    <2>1. Proper(todo')
      BY <1>2, ScriptFacts, EmptyProper
    <2>2. todo' \in Seq(StepNames)
      BY <2>1 DEF Proper, Ordered
    <2>3. todo' # <<>> => Len(todo') > 0 /\ Head(todo') = todo'[1]
      BY <2>2
    <2> QED BY <1>2, <1>3, <2>1, <2>3 DEF Proper, StepsOK
  <1>5. app \notin {"running", "zombie"}
    BY <1>1 DEF OutliveInv, First
  <1> QED BY <1>1, <1>2, <1>4, <1>5 DEF OutliveInv

LEMMA PlainStepOutlive == ASSUME OutliveInv, PlainStep PROVE OutliveInv'
  <1>1. /\ over = "no" /\ todo # <<>> /\ Head(todo) \in PlainSteps /\ (Goes \/ Fails)
        /\ UNCHANGED <<owed, tools, dir, process, over>>
    BY DEF PlainStep, Settles
  <1>2. Head(todo) \notin OwedSteps \cup {"notify", "service", "manager", "wait"}
    BY <1>1 DEF PlainSteps, Building, Writing, Selecting, Inspecting, OwedSteps
  <1> QED BY <1>1, <1>2, PlainOutlive

LEMMA CheckPlanOutlive == ASSUME OutliveInv, CheckPlan PROVE OutliveInv'
  <1>1. /\ over = "no" /\ todo # <<>> /\ Head(todo) = "check" /\ (Goes \/ Fails)
        /\ UNCHANGED <<owed, tools, dir, process, over>>
    BY DEF CheckPlan, Settles, Doing
  <1> QED BY <1>1, PlainOutlive DEF OwedSteps

LEMMA LocateOutlive == ASSUME OutliveInv, Locate PROVE OutliveInv'
  <1>1. /\ over = "no" /\ todo # <<>> /\ Head(todo) = "locate" /\ (Goes \/ Fails)
        /\ UNCHANGED <<owed, tools, dir, process, over>>
    BY DEF Locate, Settles, Doing, general
  <1> QED BY <1>1, PlainOutlive DEF OwedSteps

LEMMA ApplyPlanOutlive == ASSUME OutliveInv, ApplyPlan PROVE OutliveInv'
  <1>1. /\ over = "no" /\ todo # <<>> /\ Head(todo) = "apply"
        /\ UNCHANGED <<owed, tools, dir, process, over>>
    BY DEF ApplyPlan, Doing
  <1>2. CASE Goes \/ Fails
    BY <1>1, <1>2, PlainOutlive DEF OwedSteps
  <1>3. CASE todo' = Tail(Tail(todo)) /\ todo[2] = "note" /\ failed' = failed
    <2>1. /\ owed' = owed /\ heard' = heard /\ tools' = tools /\ dir' = dir /\ app' = app /\ over' = over
      BY <1>1 DEF process
    <2>2. Tail(todo) # <<>> /\ Head(Tail(todo)) = "note"
      BY <1>1, <1>3, TailFacts DEF OutliveInv, StepsOK
    <2>3. owed \ {"apply"} = owed /\ owed \ {"note"} = owed
      BY DEF OutliveInv, StepsOK, OwedSteps
    <2>4. StepsOK(Tail(todo), owed, heard)
      BY <1>1, <2>3, GoesOn DEF OutliveInv
    <2>5. StepsOK(todo', owed', heard')
      BY <1>3, <2>1, <2>2, <2>3, <2>4, GoesOn
    <2>6. app \notin {"running", "zombie"}
      BY <1>1 DEF OutliveInv, First
    <2> QED BY <1>1, <1>3, <2>1, <2>5, <2>6 DEF OutliveInv
  <1> QED BY <1>1, <1>2, <1>3 DEF ApplyPlan, Goes

LEMMA NewServiceOutlive == ASSUME OutliveInv, NewService PROVE OutliveInv'
  <1>1. /\ over = "no" /\ todo # <<>> /\ Head(todo) \in {"service", "manager"}
        /\ heard' = heard /\ tools' = tools /\ dir' = dir /\ app' = app /\ over' = over
        /\ \/ Goes /\ owed' = owed \cup {"close"}
           \/ Fails /\ owed' = owed
    BY DEF NewService, Settles, Doing, process
  <1>2. app \notin {"running", "zombie"}
    BY <1>1 DEF OutliveInv, First
  <1>3. owed \ {Head(todo)} = owed /\ "close" \in StepsIn(Tail(todo)) \cap OwedSteps
    BY <1>1, TailFacts DEF OutliveInv, StepsOK, OwedSteps
  <1>4. StepsOK(todo', owed', heard') /\ failed \subseteq failed' /\ owed \subseteq owed'
    <2>1. CASE Goes /\ owed' = owed \cup {"close"}
      BY <1>1, <1>3, <2>1, GoesOn DEF OutliveInv, Goes
    <2>2. CASE Fails /\ owed' = owed
      BY <1>3, <2>2, GivesUp DEF OutliveInv, Fails
    <2> QED BY <1>1, <2>1, <2>2
  <1> QED BY <1>1, <1>2, <1>4 DEF OutliveInv

LEMMA AnalyzeOutlive == ASSUME OutliveInv, Analyze PROVE OutliveInv'
  <1>1. /\ over = "no" /\ todo # <<>> /\ Head(todo) \in Asking /\ (Goes \/ Fails)
        /\ owed' = owed /\ heard' = heard /\ dir' = dir /\ app' = app /\ over' = over
    BY DEF Analyze, Settles, Doing, process
  <1>2. StepsOK(todo', owed', heard') /\ failed \subseteq failed'
    BY <1>1, OneStep DEF OwedSteps, Asking
  <1>3. app \notin {"running", "zombie"} /\ "close" \in owed
    BY <1>1 DEF OutliveInv, First, StepsOK, Asking
  <1> QED BY <1>1, <1>2, <1>3 DEF OutliveInv

LEMMA CloseServiceOutlive == ASSUME OutliveInv, CloseService PROVE OutliveInv'
  <1>1. /\ over = "no" /\ todo # <<>> /\ Head(todo) = "close"
        /\ owed' = owed \ {"close"} /\ heard' = heard /\ dir' = dir /\ app' = app /\ over' = over
        /\ todo' = Tail(todo) \/ todo' = Deferred(owed \ {"close"})
        /\ failed \subseteq failed' /\ (tools' => "close" \in failed')
    BY DEF CloseService, Settles, Goes, Fails, Doing, process
  <1>2. app \notin {"running", "zombie"}
    BY <1>1 DEF OutliveInv, First
  <1>3. StepsOK(todo', owed', heard')
    <2>1. CASE todo' = Tail(todo)
      BY <1>1, <2>1, GoesOn DEF OutliveInv
    <2>2. CASE todo' = Deferred(owed \ {"close"})
      BY <1>1, <2>2, GivesUp DEF OutliveInv
    <2> QED BY <1>1, <2>1, <2>2
  <1> QED BY <1>1, <1>2, <1>3 DEF OutliveInv

LEMMA MakeTempOutlive == ASSUME OutliveInv, MakeTemp PROVE OutliveInv'
  <1>1. /\ over = "no" /\ todo # <<>> /\ Head(todo) = "mkdir"
        /\ heard' = heard /\ tools' = tools /\ app' = app /\ over' = over
        /\ \/ Goes /\ owed' = owed \cup {"clean"}
           \/ Fails /\ owed' = owed /\ ~dir'
    BY DEF MakeTemp, Settles, Doing, process
  <1>2. app \notin {"running", "zombie"}
    BY <1>1 DEF OutliveInv, First
  <1>3. owed \ {Head(todo)} = owed /\ "clean" \in StepsIn(Tail(todo)) \cap OwedSteps
    BY <1>1, TailFacts DEF OutliveInv, StepsOK, OwedSteps
  <1>4. StepsOK(todo', owed', heard') /\ failed \subseteq failed' /\ owed \subseteq owed'
    <2>1. CASE Goes /\ owed' = owed \cup {"clean"}
      BY <1>1, <1>3, <2>1, GoesOn DEF OutliveInv, Goes
    <2>2. CASE Fails /\ owed' = owed
      BY <1>3, <2>2, GivesUp DEF OutliveInv, Fails
    <2> QED BY <1>1, <2>1, <2>2
  <1> QED BY <1>1, <1>2, <1>4 DEF OutliveInv

LEMMA CleanupOutlive == ASSUME OutliveInv, Cleanup PROVE OutliveInv'
  <1>1. /\ over = "no" /\ todo # <<>> /\ Head(todo) = "clean" /\ todo' = Tail(todo)
        /\ owed' = owed \ {"clean"} /\ heard' = heard /\ tools' = tools /\ app' = app /\ over' = over
        /\ failed \subseteq failed' /\ (dir' => "clean" \in failed')
    BY DEF Cleanup, Doing, process
  <1>2. app \notin {"running", "zombie"}
    BY <1>1 DEF OutliveInv, First
  <1>3. StepsOK(todo', owed', heard')
    BY <1>1, GoesOn DEF OutliveInv
  <1> QED BY <1>1, <1>2, <1>3 DEF OutliveInv

LEMMA NotifyOutlive == ASSUME OutliveInv, Notify PROVE OutliveInv'
  <1>1. /\ over = "no" /\ todo # <<>> /\ Head(todo) = "notify" /\ todo' = Tail(todo) /\ failed' = failed
        /\ owed' = owed \cup {"unnotify"} /\ heard' = TRUE /\ tools' = tools /\ dir' = dir /\ app' = app /\ over' = over
    BY DEF Notify, Doing, Goes, general
  <1>2. app \notin {"running", "zombie"}
    BY <1>1 DEF OutliveInv, First
  <1>3. owed \ {Head(todo)} = owed /\ "unnotify" \in StepsIn(Tail(todo)) \cap OwedSteps
    BY <1>1, TailFacts DEF OutliveInv, StepsOK, OwedSteps
  <1>4. StepsOK(todo', owed', heard')
    BY <1>1, <1>3, GoesOn DEF OutliveInv
  <1> QED BY <1>1, <1>2, <1>4 DEF OutliveInv

LEMMA UnnotifyOutlive == ASSUME OutliveInv, Unnotify PROVE OutliveInv'
  <1>1. /\ over = "no" /\ todo # <<>> /\ Head(todo) = "unnotify" /\ todo' = Tail(todo) /\ failed' = failed
        /\ owed' = owed \ {"unnotify"} /\ tools' = tools /\ dir' = dir /\ app' = app /\ over' = over
    BY DEF Unnotify, Doing, general
  <1>2. app \notin {"running", "zombie"}
    BY <1>1 DEF OutliveInv, First
  <1>3. StepsOK(todo', owed', heard')
    BY <1>1, GoesOn DEF OutliveInv
  <1> QED BY <1>1, <1>2, <1>3 DEF OutliveInv

LEMMA StartApplicationOutlive == ASSUME OutliveInv, StartApplication PROVE OutliveInv'
  <1>1. /\ over = "no" /\ todo # <<>> /\ Head(todo) = "start" /\ (Goes \/ Fails)
        /\ owed' = owed /\ heard' = heard /\ tools' = tools /\ dir' = dir /\ over' = over
        /\ (Goes /\ app' = "running") \/ app' = app
    BY DEF StartApplication, Settles, Doing, general
  <1>2. StepsOK(todo', owed', heard') /\ failed \subseteq failed'
    BY <1>1, OneStep DEF OwedSteps
  <1>3. app \notin {"running", "zombie"} /\ heard
    BY <1>1 DEF OutliveInv, First, StepsOK
  <1>4. Tail(todo) # <<>> /\ Head(Tail(todo)) = "wait"
    BY <1>1, TailFacts DEF OutliveInv, StepsOK
  <1> QED BY <1>1, <1>2, <1>3, <1>4 DEF OutliveInv, Goes, First

\* The process of the application, while the command waits.
LEMMA ProcessOutlive ==
  ASSUME OutliveInv, \/ ApplicationEnds \/ Reap \/ TakeSignal \/ ForceStop
  PROVE  OutliveInv'
  <1>1. /\ todo' = todo /\ owed' = owed /\ failed' = failed /\ heard' = heard /\ tools' = tools /\ dir' = dir /\ over' = over
        /\ app' \in {app, "zombie", "reaped"} /\ (app' \in {"running", "zombie"} => app \in {"running", "zombie"})
    BY DEF ApplicationEnds, Reap, TakeSignal, ForceStop, Killed, general
  <1> QED BY <1>1 DEF OutliveInv, First

LEMMA WaitOutlive == ASSUME OutliveInv, TakeExit \/ AfterKill PROVE OutliveInv'
  <1>1. /\ over = "no" /\ todo # <<>> /\ Head(todo) = "wait" /\ app = "reaped"
        /\ owed' = owed /\ heard' = heard /\ tools' = tools /\ dir' = dir /\ over' = over /\ app' = app
        /\ Fails \/ (todo' = Tail(todo) /\ failed' = failed)
    BY DEF TakeExit, AfterKill, Doing, general, process
  <1>2. owed \ {Head(todo)} = owed
    BY <1>1 DEF OutliveInv, StepsOK, OwedSteps
  <1>3. StepsOK(todo', owed', heard') /\ failed \subseteq failed'
    <2>1. CASE todo' = Tail(todo) /\ failed' = failed
      BY <1>1, <1>2, <2>1, GoesOn DEF OutliveInv
    <2>2. CASE Fails
      BY <1>1, <1>2, <2>2, GivesUp DEF OutliveInv, Fails
    <2> QED BY <1>1, <2>1, <2>2
  <1> QED BY <1>1, <1>3 DEF OutliveInv

LEMMA EndOutlive == ASSUME OutliveInv, Return \/ Signal PROVE OutliveInv'
  <1>1. /\ todo' = todo /\ owed' = owed /\ failed' = failed /\ heard' = heard /\ tools' = tools /\ dir' = dir /\ app' = app
        /\ over' = over \/ (over' = "exit" /\ todo = <<>>) \/ (over' = "died" /\ ~heard)
    BY DEF Return, Signal, general, process
  <1> QED BY <1>1 DEF OutliveInv, First

LEMMA CommandOutlive == ASSUME OutliveInv, CommandNext PROVE OutliveInv'
  BY DispatchOutlive, PlainStepOutlive, CheckPlanOutlive, LocateOutlive, ApplyPlanOutlive, NewServiceOutlive,
     AnalyzeOutlive, CloseServiceOutlive, MakeTempOutlive, CleanupOutlive, NotifyOutlive, UnnotifyOutlive,
     StartApplicationOutlive, ProcessOutlive, WaitOutlive, EndOutlive
  DEF CommandNext

LEMMA InitOutlive == ASSUME CommandInit PROVE OutliveInv
  <1>1. /\ todo = <<"dispatch">> /\ owed = {} /\ ~tools /\ ~dir /\ app = "none" /\ over = "no"
    BY DEF CommandInit
  <1>2. todo \in Seq(StepNames) /\ Len(todo) = 1 /\ todo[1] = "dispatch" /\ Head(todo) = "dispatch"
    BY <1>1 DEF StepNames
  <1>3. Ordered(todo)
    BY <1>2 DEF Ordered, Followed, Asking
  <1> QED BY <1>1, <1>2, <1>3 DEF OutliveInv, StepsOK, Asking

\* For every command line, whichever steps fail and whenever signals arrive: a command never ends while its application
\* runs, and when it returns, the temporary directory and the tools are gone or their removal has failed.
THEOREM NothingOutlivesTheCommand == Spec => []NothingOutlives
  <1>1. Init => OutliveInv
    BY InitOutlive DEF Init
  <1>2. ASSUME OutliveInv, [Next]_vars PROVE OutliveInv'
    <2>1. CASE CommandNext
      BY <1>2, <2>1, CommandOutlive
    <2>2. CASE UNCHANGED commandVars
      <3>1. /\ over' = over /\ app' = app /\ todo' = todo /\ owed' = owed /\ heard' = heard /\ dir' = dir /\ tools' = tools
            /\ failed' = failed
        BY <2>2 DEF commandVars
      <3> QED BY <1>2, <3>1 DEF OutliveInv, First
    <2> QED BY <1>2, <2>1, <2>2 DEF Next, vars
  <1>3. OutliveInv => NothingOutlives
    <2> HAVE OutliveInv
    <2>1. over = "exit" => owed = {}
      <3> HAVE over = "exit"
      <3>1. todo = <<>>
        BY DEF OutliveInv
      <3> QED BY <3>1, EmptyProper DEF OutliveInv, StepsOK
    <2> QED BY <2>1 DEF OutliveInv, NothingOutlives
  <1> QED BY <1>1, <1>2, <1>3, PTL DEF Spec

-----------------------------------------------------------------------------
(* The exit code.                                                          *)

\* What a step finds.
LEMMA AtStep ==
  ASSUME OutliveInv, ExitInv, todo # <<>>, Head(todo) # "dispatch"
  PROVE  /\ Accepted /\ "dispatch" \notin StepsIn(todo)
         /\ StepsIn(todo) = {Head(todo)} \cup StepsIn(Tail(todo))
  <1>1. Ordered(todo) /\ StepsIn(todo) = {Head(todo)} \cup StepsIn(Tail(todo))
    BY TailFacts DEF OutliveInv, StepsOK
  <1>2. todo \in Seq(StepNames) /\ Head(todo) = todo[1]
    BY <1>1 DEF Ordered
  <1>3. "dispatch" \notin StepsIn(todo)
    BY <1>1, <1>2 DEF Ordered, StepsIn
  <1>4. todo # <<"dispatch">>
    OBVIOUS
  <1> QED BY <1>1, <1>3, <1>4 DEF ExitInv

\* A step other than the dispatch and the wait: it succeeds, or fails where that counts.
LEMMA StepExit ==
  ASSUME OutliveInv, ExitInv, todo # <<>>, Head(todo) \notin {"dispatch", "wait"},
         typed' = typed, was' = was, ended' = ended, stopping' = stopping,
         StepsIn(todo') \subseteq StepsIn(todo),
         \/ /\ code' = code /\ (failed' = failed \/ (Beans /\ failed' = failed \cup {"close"}))
            /\ StepsIn(todo) \subseteq StepsIn(todo') \cup {Head(todo), "note"}
            /\ Head(todo) \in {"apply", "check"} => disk' = "current"
         \/ code' # 0 /\ failed \subseteq failed' /\ failed' # {} /\ "wait" \notin StepsIn(todo'),
         app' = app \/ (app' = "running" /\ Head(todo) = "start" /\ "start" \notin StepsIn(todo')),
         disk' \in {disk, "current"}, Head(todo) = "apply" \/ disk' \in {disk, was}
  PROVE  ExitInv'
  <1>1. Accepted /\ "dispatch" \notin StepsIn(todo) /\ StepsIn(todo) = {Head(todo)} \cup StepsIn(Tail(todo))
    BY AtStep
  <1>2. Accepted' /\ Beans' = Beans /\ Script' = Script
    BY <1>1 DEF Accepted, Beans, Script, Handling
  <1>3. "dispatch" \notin StepsIn(todo')
    BY <1>1
  <1>4. "start" \in StepsIn(todo') => app' = "none"
    BY DEF ExitInv
  <1>5. app' \in {"none", "running"} => ended' = 0
    BY <1>1 DEF ExitInv
  <1>6. /\ disk' \in {"current", "stale"}
        /\ disk' # was' => Accepted /\ "apply" \in StepsIn(Script)
        /\ "apply" \in StepsIn(todo') => Accepted /\ "apply" \in StepsIn(Script)
    BY <1>1 DEF ExitInv
  <1>7. CASE /\ code' = code /\ (failed' = failed \/ (Beans /\ failed' = failed \cup {"close"}))
             /\ StepsIn(todo) \subseteq StepsIn(todo') \cup {Head(todo), "note"}
             /\ Head(todo) \in {"apply", "check"} => disk' = "current"
    <2>1. "wait" \in StepsIn(todo') <=> "wait" \in StepsIn(todo)
      BY <1>7
    <2>2. "wait" \in StepsIn(todo') => failed' = {} /\ ~Beans
      BY <1>7, <2>1 DEF ExitInv
    <2>3. code' = 0 => failed' \subseteq IF Beans THEN {"close"} ELSE {}
      BY <1>7 DEF ExitInv
    <2>4. code' = 0 /\ ended' # 0 => "wait" \in StepsIn(todo')
      BY <1>7, <2>1 DEF ExitInv
    <2>5. code' # 0 => failed' # {} \/ ended' # 0 \/ stopping' # "no"
      BY <1>1, <1>7 DEF ExitInv
    <2>6. app' = "reaped" /\ stopping' = "no" /\ failed' = {} /\ "wait" \notin StepsIn(todo') => code' = ended'
      BY <1>7, <2>1 DEF ExitInv
    <2>7. ASSUME NEW step \in {"apply", "check"}, step \in StepsIn(Script)
          PROVE  step \in StepsIn(todo') \/ failed' # {} \/ disk' = "current"
      <3>1. step \in StepsIn(todo) \/ failed # {} \/ disk = "current"
        BY <1>1, <2>7 DEF ExitInv
      <3> QED BY <1>7, <2>7, <3>1
    <2> QED BY <1>2, <1>3, <1>4, <1>5, <1>6, <2>2, <2>3, <2>4, <2>5, <2>6, <2>7 DEF ExitInv
  <1>8. CASE code' # 0 /\ failed \subseteq failed' /\ failed' # {} /\ "wait" \notin StepsIn(todo')
    BY <1>2, <1>3, <1>4, <1>5, <1>6, <1>8 DEF ExitInv
  <1> QED BY <1>7, <1>8

\* After a failure only what is owed is left.
LEMMA FailedSteps ==
  ASSUME OutliveInv, todo # <<>>, Fails
  PROVE  /\ StepsIn(todo') \subseteq StepsIn(todo)
         /\ code' # 0 /\ failed \subseteq failed' /\ failed' # {} /\ "wait" \notin StepsIn(todo')
  <1>1. owed \subseteq OwedSteps /\ owed \subseteq StepsIn(todo)
    BY DEF OutliveInv, StepsOK
  <1>2. StepsIn(todo') = owed \ {Head(todo)}
    BY <1>1, DeferredFacts DEF Fails
  <1>3. code' # 0 /\ failed' = failed \cup {Head(todo)}
    BY DEF Fails
  <1> QED BY <1>1, <1>2, <1>3 DEF OwedSteps

LEMMA NextSteps ==
  ASSUME OutliveInv, todo # <<>>, Goes
  PROVE  /\ StepsIn(todo') \subseteq StepsIn(todo) /\ StepsIn(todo) \subseteq StepsIn(todo') \cup {Head(todo)}
         /\ code' = code /\ failed' = failed
  BY TailFacts DEF OutliveInv, StepsOK, Goes

\* Steps that do not touch the generated files.
LEMMA PlainExit ==
  ASSUME OutliveInv, ExitInv, todo # <<>>, Head(todo) \notin {"dispatch", "wait", "apply", "check"},
         Goes \/ Fails, typed' = typed, was' = was, ended' = ended, stopping' = stopping, disk' = disk, app' = app
  PROVE  ExitInv'
  <1>1. CASE Goes
    BY <1>1, NextSteps, StepExit
  <1>2. CASE Fails
    BY <1>2, FailedSteps, StepExit
  <1> QED BY <1>1, <1>2

LEMMA DispatchExit == ASSUME OutliveInv, ExitInv, Dispatch PROVE ExitInv'
  <1>1. todo # <<>> /\ Head(todo) = "dispatch"
    BY DEF Dispatch, Doing
  <1>2. /\ typed' = typed /\ was' = was /\ disk' = disk /\ failed' = failed /\ ended' = ended /\ app' = app
        /\ stopping' = stopping
        /\ \/ Accepted /\ todo' = Script /\ code' = code
           \/ ~Accepted /\ todo' = <<>> /\ code' # 0
    BY DEF Dispatch, process, inputs, Accepted, Script
  <1>3. Accepted' = Accepted /\ Beans' = Beans /\ Script' = Script
    BY <1>2 DEF Accepted, Beans, Script, Handling
  <1>4. "dispatch" \in StepsIn(todo) /\ app = "none" /\ code = 0 /\ ended = 0
    <2>1. "dispatch" \in StepsIn(todo)
      BY <1>1, TailFacts DEF OutliveInv, StepsOK
    <2> QED BY <2>1 DEF ExitInv
  <1>5. failed \subseteq IF Beans THEN {"close"} ELSE {}
    BY <1>4 DEF ExitInv
  <1>6. CASE Accepted /\ todo' = Script /\ code' = code
    <2>1. "dispatch" \notin StepsIn(todo') /\ (Beans => "wait" \notin StepsIn(todo'))
      BY <1>6, ScriptFacts DEF Proper, Beans
    <2>2. "wait" \in StepsIn(todo') => failed' = {} /\ ~Beans
      BY <1>2, <1>5, <2>1
    <2> QED BY <1>2, <1>3, <1>4, <1>5, <1>6, <2>1, <2>2 DEF ExitInv
  <1>7. CASE ~Accepted /\ todo' = <<>> /\ code' # 0
    <2>1. StepsIn(todo') = {}
      BY <1>7, EmptyProper
    <2> QED BY <1>2, <1>3, <1>4, <1>7, <2>1 DEF ExitInv
  <1> QED BY <1>2, <1>6, <1>7

LEMMA PlainStepExit == ASSUME OutliveInv, ExitInv, PlainStep \/ NewService \/ Analyze \/ MakeTemp \/ Locate PROVE ExitInv'
  <1>1. /\ todo # <<>> /\ Head(todo) \in PlainSteps \cup {"service", "manager", "mkdir", "locate"} \cup Asking
        /\ Goes \/ Fails
    BY DEF PlainStep, NewService, Analyze, MakeTemp, Locate, Settles, Doing
  <1>2. typed' = typed /\ was' = was /\ ended' = ended /\ stopping' = stopping /\ disk' = disk /\ app' = app
    BY DEF PlainStep, NewService, Analyze, MakeTemp, Locate, inputs, process, general
  <1>3. Head(todo) \notin {"dispatch", "wait", "apply", "check"}
    BY <1>1 DEF PlainSteps, Building, Writing, Selecting, Inspecting, Asking
  <1> QED BY <1>1, <1>2, <1>3, PlainExit

LEMMA CheckPlanExit == ASSUME OutliveInv, ExitInv, CheckPlan PROVE ExitInv'
  <1>1. /\ todo # <<>> /\ Head(todo) = "check" /\ (Fails \/ (Goes /\ disk = "current"))
        /\ typed' = typed /\ was' = was /\ ended' = ended /\ stopping' = stopping /\ disk' = disk /\ app' = app
    BY DEF CheckPlan, Settles, Doing, inputs, process
  <1>2. CASE Fails
    <2>1. /\ StepsIn(todo') \subseteq StepsIn(todo)
          /\ code' # 0 /\ failed \subseteq failed' /\ failed' # {} /\ "wait" \notin StepsIn(todo')
      BY <1>1, <1>2, FailedSteps
    <2> QED BY <1>1, <2>1, StepExit
  <1>3. CASE Goes /\ disk = "current"
    <2>1. /\ StepsIn(todo') \subseteq StepsIn(todo) /\ code' = code /\ failed' = failed
          /\ StepsIn(todo) \subseteq StepsIn(todo') \cup {Head(todo)}
      BY <1>1, <1>3, AtStep DEF Goes
    <2> QED BY <1>1, <1>3, <2>1, StepExit
  <1> QED BY <1>1, <1>2, <1>3

LEMMA ApplyPlanExit == ASSUME OutliveInv, ExitInv, ApplyPlan PROVE ExitInv'
  <1>1. /\ todo # <<>> /\ Head(todo) = "apply"
        /\ typed' = typed /\ was' = was /\ ended' = ended /\ stopping' = stopping /\ app' = app
        /\ \/ Fails /\ disk' \in {disk, "current"}
           \/ /\ disk' = "current" /\ code' = code /\ failed' = failed
              /\ todo' = Tail(todo) \/ (todo' = Tail(Tail(todo)) /\ todo[2] = "note")
    BY DEF ApplyPlan, Doing, inputs, process
  <1>2. CASE Fails /\ disk' \in {disk, "current"}
    <2>1. /\ StepsIn(todo') \subseteq StepsIn(todo)
          /\ code' # 0 /\ failed \subseteq failed' /\ failed' # {} /\ "wait" \notin StepsIn(todo')
      BY <1>1, <1>2, FailedSteps
    <2> QED BY <1>1, <1>2, <2>1, StepExit
  <1>3. CASE /\ disk' = "current" /\ code' = code /\ failed' = failed
             /\ todo' = Tail(todo) \/ (todo' = Tail(Tail(todo)) /\ todo[2] = "note")
    <2>1. /\ StepsIn(todo) = {Head(todo)} \cup StepsIn(Tail(todo)) /\ Ordered(Tail(todo))
          /\ Tail(todo) # <<>> /\ Head(Tail(todo)) = todo[2]
      BY <1>1, TailFacts DEF OutliveInv, StepsOK
    <2>2. StepsIn(Tail(todo)) = {Head(Tail(todo))} \cup StepsIn(Tail(Tail(todo)))
      BY <2>1, TailFacts
    <2>3. StepsIn(todo') \subseteq StepsIn(todo) /\ StepsIn(todo) \subseteq StepsIn(todo') \cup {Head(todo), "note"}
      BY <1>3, <2>1, <2>2
    <2> QED BY <1>1, <1>3, <2>3, StepExit
  <1> QED BY <1>1, <1>2, <1>3

LEMMA CloseServiceExit == ASSUME OutliveInv, ExitInv, CloseService PROVE ExitInv'
  <1>1. /\ todo # <<>> /\ Head(todo) = "close"
        /\ typed' = typed /\ was' = was /\ ended' = ended /\ stopping' = stopping /\ app' = app /\ disk' = disk
        /\ \/ Goes \/ Fails
           \/ /\ Handling = "beans" /\ todo' = Tail(todo) /\ code' = code
              /\ failed' = failed \/ failed' = failed \cup {"close"}
    BY DEF CloseService, Settles, Doing, inputs, process
  <1>2. CASE Goes \/ Fails
    BY <1>1, <1>2, PlainExit
  <1>3. CASE /\ Handling = "beans" /\ todo' = Tail(todo) /\ code' = code
             /\ failed' = failed \/ failed' = failed \cup {"close"}
    <2>1. Beans /\ StepsIn(todo) = {Head(todo)} \cup StepsIn(Tail(todo))
      BY <1>1, <1>3, AtStep DEF Beans
    <2> QED BY <1>1, <1>3, <2>1, StepExit
  <1> QED BY <1>1, <1>2, <1>3

LEMMA CleanupExit == ASSUME OutliveInv, ExitInv, Cleanup PROVE ExitInv'
  <1>1. /\ todo # <<>> /\ Head(todo) = "clean" /\ todo' = Tail(todo)
        /\ typed' = typed /\ was' = was /\ ended' = ended /\ stopping' = stopping /\ app' = app /\ disk' = disk
        /\ \/ code' = code /\ failed' = failed
           \/ code' # 0 /\ failed' = failed \cup {"clean"}
    BY DEF Cleanup, CodeAfterClean, Doing, inputs, process
  <1>2. StepsIn(todo) = {Head(todo)} \cup StepsIn(todo') /\ "wait" \notin StepsIn(todo')
    BY <1>1, TailFacts DEF OutliveInv, StepsOK
  <1> QED BY <1>1, <1>2, StepExit

LEMMA ListenExit == ASSUME OutliveInv, ExitInv, Notify \/ Unnotify PROVE ExitInv'
  <1>1. /\ todo # <<>> /\ Head(todo) \in {"notify", "unnotify"} /\ Goes
        /\ typed' = typed /\ was' = was /\ ended' = ended /\ stopping' = stopping /\ app' = app /\ disk' = disk
    BY DEF Notify, Unnotify, Goes, Doing, general, inputs
  <1> QED BY <1>1, PlainExit

LEMMA StartApplicationExit == ASSUME OutliveInv, ExitInv, StartApplication PROVE ExitInv'
  <1>1. /\ todo # <<>> /\ Head(todo) = "start"
        /\ typed' = typed /\ was' = was /\ ended' = ended /\ stopping' = stopping /\ disk' = disk
        /\ (Goes /\ app' = "running") \/ (Fails /\ app' = app)
    BY DEF StartApplication, Settles, Doing, general, inputs
  <1>2. CASE Fails /\ app' = app
    BY <1>1, <1>2, PlainExit
  <1>3. CASE Goes /\ app' = "running"
    <2>1. /\ StepsIn(todo) = {Head(todo)} \cup StepsIn(todo') /\ "start" \notin StepsIn(todo')
      BY <1>1, <1>3, TailFacts DEF OutliveInv, StepsOK, Goes
    <2> QED BY <1>1, <1>3, <2>1, StepExit DEF Goes
  <1> QED BY <1>1, <1>2, <1>3

LEMMA ProcessExit ==
  ASSUME OutliveInv, ExitInv, ApplicationEnds \/ Reap \/ TakeSignal \/ ForceStop
  PROVE  ExitInv'
  <1>1. /\ typed' = typed /\ was' = was /\ disk' = disk /\ todo' = todo /\ failed' = failed /\ code' = code
        /\ app = "running" \/ (todo # <<>> /\ Head(todo) = "wait")
        /\ (app' = "zombie" /\ app = "running") \/ (app' = "reaped" /\ app = "zombie" /\ ended' = ended)
             \/ (app' = app /\ ended' = ended)
        /\ stopping' = stopping \/ stopping' # "no"
    BY DEF ApplicationEnds, Reap, TakeSignal, ForceStop, Killed, Doing, general, inputs
  <1>2. Accepted' = Accepted /\ Beans' = Beans /\ Script' = Script
    BY <1>1 DEF Accepted, Beans, Script, Handling
  <1>3. todo # <<>> /\ Head(todo) = "wait"
    BY <1>1 DEF OutliveInv, First
  <1>4. Accepted /\ "dispatch" \notin StepsIn(todo) /\ "wait" \in StepsIn(todo)
    BY <1>3, AtStep
  <1> QED BY <1>1, <1>2, <1>4 DEF ExitInv

LEMMA WaitExit == ASSUME OutliveInv, ExitInv, TakeExit \/ AfterKill PROVE ExitInv'
  <1>1. /\ todo # <<>> /\ Head(todo) = "wait" /\ app = "reaped"
        /\ typed' = typed /\ was' = was /\ disk' = disk /\ ended' = ended /\ stopping' = stopping /\ app' = app
        /\ \/ Fails
           \/ todo' = Tail(todo) /\ failed' = failed /\ code' = ended
           \/ todo' = Tail(todo) /\ failed' = failed /\ code' # 0 /\ stopping # "no"
    BY DEF TakeExit, AfterKill, Doing, general, inputs, process
  <1>2. Accepted' = Accepted /\ Beans' = Beans /\ Script' = Script
    BY <1>1 DEF Accepted, Beans, Script, Handling
  <1>3. Accepted /\ "dispatch" \notin StepsIn(todo) /\ StepsIn(todo) = {"wait"} \cup StepsIn(Tail(todo))
    BY <1>1, AtStep
  <1>4. failed = {} /\ ~Beans /\ "start" \notin StepsIn(todo)
    BY <1>1, <1>3 DEF ExitInv
  <1>5. CASE Fails
    <2>1. StepsIn(todo') \subseteq StepsIn(todo) /\ "wait" \notin StepsIn(todo') /\ code' # 0 /\ failed' # {}
      BY <1>1, <1>5, FailedSteps
    <2> QED BY <1>1, <1>2, <1>3, <1>4, <2>1 DEF ExitInv
  <1>6. CASE todo' = Tail(todo) /\ failed' = failed /\ (code' = ended \/ (code' # 0 /\ stopping # "no"))
    BY <1>1, <1>2, <1>3, <1>4, <1>6 DEF ExitInv
  <1> QED BY <1>1, <1>5, <1>6

LEMMA EndExit ==
  ASSUME ExitInv, UNCHANGED <<typed, was, disk, todo, failed, code, app, ended, stopping>>
  PROVE  ExitInv'
  <1>1. Accepted' = Accepted /\ Beans' = Beans /\ Script' = Script
    BY DEF Accepted, Beans, Script, Handling
  <1> QED BY <1>1 DEF ExitInv

LEMMA CommandExit == ASSUME OutliveInv, ExitInv, CommandNext PROVE ExitInv'
  <1>1. CASE Return \/ Signal
    BY <1>1, EndExit DEF Return, Signal, inputs, process, general
  <1> QED BY <1>1, DispatchExit, PlainStepExit, CheckPlanExit, ApplyPlanExit, CloseServiceExit, CleanupExit, ListenExit,
             StartApplicationExit, ProcessExit, WaitExit DEF CommandNext

LEMMA InitExit == ASSUME CommandInit PROVE ExitInv
  <1>1. /\ todo = <<"dispatch">> /\ failed = {} /\ code = 0 /\ app = "none" /\ ended = 0
        /\ disk \in {"current", "stale"} /\ was = disk
    BY DEF CommandInit
  <1>2. Len(todo) = 1 /\ todo[1] = "dispatch"
    BY <1>1
  <1>3. StepsIn(todo) = {"dispatch"}
    BY <1>2 DEF StepsIn
  <1> QED BY <1>1, <1>3 DEF ExitInv

\* The exit code of every command line tells what happened: 0 stands for success of all that counts and generated files
\* that are current, the code of an undisturbed application is passed on, and another code has a reason.
THEOREM ExitCodesAreTrue == Spec => []ExitIsTrue
  <1> DEFINE Inv == OutliveInv /\ ExitInv
  <1>1. Init => Inv
    BY InitOutlive, InitExit DEF Init
  <1>2. ASSUME Inv, [Next]_vars PROVE Inv'
    <2>1. CASE CommandNext
      BY <1>2, <2>1, CommandOutlive, CommandExit
    <2>2. CASE UNCHANGED commandVars
      <3>1. /\ over' = over /\ app' = app /\ todo' = todo /\ owed' = owed /\ heard' = heard /\ dir' = dir /\ tools' = tools
            /\ failed' = failed /\ UNCHANGED <<typed, was, disk, todo, failed, code, app, ended, stopping>>
        BY <2>2 DEF commandVars
      <3>2. OutliveInv'
        BY <1>2, <3>1 DEF OutliveInv, First
      <3> QED BY <1>2, <3>1, <3>2, EndExit
    <2> QED BY <1>2, <2>1, <2>2 DEF Next, vars
  <1>3. Inv => ExitIsTrue
    <2> SUFFICES ASSUME Inv, over = "exit" PROVE ExitIsTrue
      BY DEF ExitIsTrue
    <2>1. todo = <<>> /\ StepsIn(todo) = {}
      BY EmptyProper DEF OutliveInv
    <2>2. Accepted => ToSet(Script) = StepsIn(Script)
      <3> HAVE Accepted
      <3>1. Script \in Seq(StepNames)
        BY ScriptFacts DEF Proper, Ordered
      <3> QED BY <3>1 DEF ToSet, StepsIn
    <2>3. Beans => StepsIn(Script) \cap {"apply", "check"} = {}
      BY ScriptFacts DEF Beans
    <2>4. code = 0 => /\ Accepted /\ ended = 0
                      /\ failed \subseteq IF Handling = "beans" THEN {"close"} ELSE {}
                      /\ Accepted /\ ToSet(Script) \cap {"apply", "check"} # {} => disk = "current"
      <3> HAVE code = 0
      <3>1. Accepted
        BY <2>1 DEF ExitInv
      <3>2. ended = 0 /\ failed \subseteq IF Beans THEN {"close"} ELSE {}
        BY <2>1 DEF ExitInv
      <3>3. ToSet(Script) \cap {"apply", "check"} # {} => disk = "current"
        BY <2>1, <2>2, <2>3, <3>1, <3>2 DEF ExitInv
      <3> QED BY <3>1, <3>2, <3>3 DEF Beans
    <2>5. app = "reaped" /\ stopping = "no" /\ failed = {} => code = ended
      BY <2>1 DEF ExitInv
    <2>6. code # 0 => ~Accepted \/ failed # {} \/ ended # 0 \/ stopping # "no"
      BY DEF ExitInv
    <2>7. ~Accepted \/ "apply" \notin ToSet(Script) => disk = was
      BY <2>2 DEF ExitInv
    <2> QED BY <2>4, <2>5, <2>6, <2>7 DEF ExitIsTrue, Accepted, Script
  <1> QED BY <1>1, <1>2, <1>3, PTL DEF Spec

-----------------------------------------------------------------------------
(* The lookups of spice generated.                                         *)

\* Ranges of lines are not empty.
ValidRanges(manifests) ==
  \A manifest \in manifests : \A file \in manifest.files : \A mapping \in file.mappings :
    {mapping.first, mapping.last} \subseteq Nat \ {0} /\ mapping.first <= mapping.last

\* The query for a place, whatever the target.
Query(direction, path, line) == [direction |-> direction, path |-> path, line |-> line, target |-> ""]

LEMMA MatchesFound ==
  ASSUME NEW manifests, NEW path, NEW line
  PROVE  /\ Matches(manifests, Query("source", path, line)) = UNION {SourceGenerated(m, path, line) : m \in manifests}
         /\ Matches(manifests, Query("generated", path, line)) = UNION {GeneratedSource(m, path, line) : m \in manifests}
  <1>1. {x \in manifests : "" \in {"", x.id}} = manifests
    OBVIOUS
  <1> QED BY <1>1 DEF Matches, Query

\* From a source to the generated code and back.
LEMMA SourceAndBack ==
  ASSUME NEW manifests, ValidRanges(manifests), NEW path, NEW line, NEW manifest \in manifests,
         NEW match \in SourceGenerated(manifest, path, line)
  PROVE  match \in GeneratedSource(manifest, match.generated.path, match.generated.line)
  <1>1. PICK file \in manifest.files :
          \/ \E mapping \in file.mappings : match = MappingMatch(manifest, file, mapping)
          \/ file.mappings = {} /\ \E origin \in file.primary : match = FileMatch(manifest, file, origin)
    BY DEF SourceGenerated
  <1>2. CASE \E mapping \in file.mappings : match = MappingMatch(manifest, file, mapping)
    <2>1. PICK mapping \in file.mappings : match = MappingMatch(manifest, file, mapping)
      BY <1>2
    <2>2. match.generated.path = file.path /\ match.generated.line = mapping.first
      BY <2>1 DEF MappingMatch
    <2>3. mapping.first >= mapping.first /\ mapping.first <= mapping.last
      BY DEF ValidRanges
    <2> QED BY <2>1, <2>2, <2>3 DEF GeneratedSource
  <1>3. CASE file.mappings = {} /\ \E origin \in file.primary : match = FileMatch(manifest, file, origin)
    <2>1. match.generated.path = file.path
      BY <1>3 DEF FileMatch
    <2> QED BY <1>3, <2>1 DEF GeneratedSource
  <1> QED BY <1>1, <1>2, <1>3

\* From generated code to its source and back.
LEMMA GeneratedAndBack ==
  ASSUME NEW manifest, NEW path, NEW line, NEW match \in GeneratedSource(manifest, path, line)
  PROVE  match \in SourceGenerated(manifest, match.source.path, match.source.line)
  <1>1. PICK file \in manifest.files :
          \/ \E mapping \in file.mappings : match = MappingMatch(manifest, file, mapping)
          \/ file.mappings = {} /\ \E origin \in file.primary : match = FileMatch(manifest, file, origin)
    BY DEF GeneratedSource
  <1>2. CASE \E mapping \in file.mappings : match = MappingMatch(manifest, file, mapping)
    <2>1. PICK mapping \in file.mappings : match = MappingMatch(manifest, file, mapping)
      BY <1>2
    <2>2. match.source.path = mapping.path /\ match.source.line = mapping.line
      BY <2>1 DEF MappingMatch
    <2> QED BY <2>1, <2>2 DEF SourceGenerated
  <1>3. CASE file.mappings = {} /\ \E origin \in file.primary : match = FileMatch(manifest, file, origin)
    <2>1. PICK origin \in file.primary : match = FileMatch(manifest, file, origin)
      BY <1>3
    <2>2. match.source = origin
      BY <2>1 DEF FileMatch
    <2> QED BY <1>3, <2>1, <2>2 DEF SourceGenerated
  <1> QED BY <1>1, <1>2, <1>3

\* The two directions of spice generated are inverse to each other, for every set of manifests whose ranges are not
\* empty and every place: what is found for a place leads back to it.
THEOREM LookupsInvert ==
  ASSUME NEW manifests, ValidRanges(manifests), NEW path, NEW line
  PROVE  /\ \A m \in Matches(manifests, Query("source", path, line)) :
              m \in Matches(manifests, Query("generated", m.generated.path, m.generated.line))
         /\ \A m \in Matches(manifests, Query("generated", path, line)) :
              m \in Matches(manifests, Query("source", m.source.path, m.source.line))
  <1>1. ASSUME NEW m \in Matches(manifests, Query("source", path, line))
        PROVE  m \in Matches(manifests, Query("generated", m.generated.path, m.generated.line))
    <2>1. PICK manifest \in manifests : m \in SourceGenerated(manifest, path, line)
      BY MatchesFound
    <2>2. m \in GeneratedSource(manifest, m.generated.path, m.generated.line)
      BY <2>1, SourceAndBack
    <2> QED BY <2>2, MatchesFound
  <1>2. ASSUME NEW m \in Matches(manifests, Query("generated", path, line))
        PROVE  m \in Matches(manifests, Query("source", m.source.path, m.source.line))
    <2>1. PICK manifest \in manifests : m \in GeneratedSource(manifest, path, line)
      BY MatchesFound
    <2>2. m \in SourceGenerated(manifest, m.source.path, m.source.line)
      BY <2>1, GeneratedAndBack
    <2> QED BY <2>2, MatchesFound
  <1> QED BY <1>1, <1>2

\* LookupsAgree: so they do for the manifests that spice generated finds, which genfs has written.
THEOREM LookupsAlwaysAgree == Spec => []LookupsAgree
  <1>1. Init => ValidRanges(stored)
    BY StoresAreValid DEF Init, CommandInit, ValidRanges
  <1>2. ASSUME ValidRanges(stored), [Next]_vars PROVE ValidRanges(stored)'
    <2>1. stored' = stored
      BY <1>2 DEF Next, vars, commandVars, CommandNext, Dispatch, PlainStep, NewService, Analyze, CloseService, ApplyPlan,
         CheckPlan, MakeTemp, Cleanup, Return, Notify, Unnotify, StartApplication, ApplicationEnds, Reap, TakeExit,
         TakeSignal, ForceStop, AfterKill, Signal, Locate, inputs, general
    <2> QED BY <1>2, <2>1
  <1>3. ValidRanges(stored) => LookupsAgree
    BY LookupsInvert DEF LookupsAgree, Query
  <1> QED BY <1>1, <1>2, <1>3, PTL DEF Spec
==============================================================================
