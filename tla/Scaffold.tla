------------------------------- MODULE Scaffold -------------------------------
(***************************************************************************)
(* Creation of a project, "spice new" and "spice init", and of one         *)
(* declaration in it, "spice new service" (internal/scaffold/scaffold.go). *)
(* A project is only written into a directory that is new or empty; a file *)
(* is only created where there is none; after a failure what was created   *)
(* is removed.  The user works in the same directory.                      *)
(*                                                                         *)
(* A path is the sequence of its elements below the parent of the project; *)
(* <<"app">> is the directory of the project.                              *)
(***************************************************************************)
EXTENDS Naturals, Sequences, FiniteSets

CONSTANTS
  Configs,        \* configurations of new projects: [module, versions, profile, replacements]
  Declarations,   \* configurations of declarations: [kind, package, name]
  UserPaths,      \* paths at which the user may create a file
  MaxUserFiles,   \* bound: files that the user creates
  MaxIOFaults     \* bound: failed operations

ASSUME ScaffoldBounds == {MaxUserFiles, MaxIOFaults} \subseteq Nat

VARIABLES
  tree,      \* what is at a path: "dir", "scaffold" (a file that was created here) or "user"
  creation,  \* the command: [job, plan, step, left, created, made, ownRoot]
  mine,      \* files that the user created
  ioFaults,  \* failures so far
  clean      \* no removal has failed

scaffoldVars == <<tree, creation, mine, ioFaults, clean>>

Root == <<"app">>
Parent(path) == SubSeq(path, 1, Len(path) - 1)
Parents(path) == {SubSeq(path, 1, k) : k \in 1..(Len(path) - 1)}
There(path) == path \in DOMAIN tree
IsDir(path) == There(path) /\ tree[path] = "dir"
Below(path) == {q \in DOMAIN tree : Len(q) > Len(path) /\ SubSeq(q, 1, Len(path)) = path}

With(t, path, what) == [q \in DOMAIN t \cup {path} |-> IF q = path THEN what ELSE t[q]]
Without(t, path) == [q \in DOMAIN t \ {path} |-> t[q]]
RangeOf(s) == {s[i] : i \in DOMAIN s}

NoCreation == [job |-> "none", plan |-> <<>>, step |-> "idle", left |-> <<>>, created |-> <<>>, made |-> <<>>, ownRoot |-> FALSE]

\* The directory is missing or empty, holds work of the user, or is a file.
ScaffoldInit ==
  /\ tree \in {<<>>, With(<<>>, Root, "dir"), With(With(<<>>, Root, "dir"), <<"app", "notes">>, "user"), With(<<>>, Root, "user")}
  /\ creation = NoCreation
  /\ mine = {q \in DOMAIN tree : tree[q] = "user"} /\ ioFaults = 0 /\ clean = TRUE

Step(record) == creation' = record
To(step) == Step([creation EXCEPT !.step = step])
Result(ok) == IF ok THEN UNCHANGED ioFaults ELSE ioFaults < MaxIOFaults /\ ioFaults' = ioFaults + 1
Over(outcome) == Step([NoCreation EXCEPT !.job = creation.job, !.plan = creation.plan, !.step = outcome])

------------------------------------------------------------------------------
(* Create.                                                                 *)

\* render: the files of the plain and of the java-structured profile, in the order in which they are written.
Plan(structured) ==
  IF structured
  THEN <<<<"app", ".gitignore">>, <<"app", "go.mod">>, <<"app", "internal", "app", "doc.go">>, <<"app", "cmd", "app", "doc.go">>,
         <<"app", ".spice", "style.json">>, <<"app", "README.md">>, <<"app", "cmd", "app", "main.go">>>>
  ELSE <<<<"app", ".gitignore">>, <<"app", "go.mod">>, <<"app", "README.md">>, <<"app", "main.go">>>>

\* validateConfig: paths, versions, profile and replacements.
ValidConfig(config) == config.module /\ config.versions /\ config.profile /\ config.replacements

\* Arguments and configuration that are not valid end the command before it touches anything.
NewCommand(parses, config, structured) ==
  /\ creation.job = "none"
  /\ Step(IF parses /\ ValidConfig(config)
          THEN [NoCreation EXCEPT !.job = "new", !.plan = Plan(structured), !.step = "prepare", !.left = Plan(structured)]
          ELSE [NoCreation EXCEPT !.job = "new", !.step = "failed"])
  /\ UNCHANGED <<tree, mine, ioFaults, clean>>

\* prepareDirectory: an empty directory, or none; then the directory is opened.
PrepareDirectory(ok, opens) ==
  /\ creation.job = "new" /\ creation.step = "prepare"
  /\ Result(ok /\ opens)
  /\ IF There(Root)
     THEN /\ IF ok /\ opens /\ IsDir(Root) /\ Below(Root) = {} THEN To("write") ELSE Over("failed")
          /\ UNCHANGED tree
     ELSE IF ~ok THEN Over("failed") /\ UNCHANGED tree
     ELSE IF opens THEN Step([creation EXCEPT !.step = "write", !.ownRoot = TRUE]) /\ tree' = With(tree, Root, "dir")
     ELSE Over("failed") /\ UNCHANGED tree    \* made and removed again
  /\ UNCHANGED <<mine, clean>>

Undo == Step([creation EXCEPT !.step = "undo", !.left = creation.created])

\* MkdirAll of the parents.
Ensured(t, path) == [q \in DOMAIN t \cup Parents(path) |-> IF q \in DOMAIN t THEN t[q] ELSE "dir"]
CanEnsure(path) == \A q \in Parents(path) : There(q) => IsDir(q)

\* os.O_CREATE without os.O_EXCL.
CreatesOver(path) == CanEnsure(path) /\ ~IsDir(path)
\* os.O_CREATE | os.O_EXCL.
Creates(path) == CanEnsure(path) /\ ~There(path)

\* writePlannedFiles: one file, which may be created and then not be written; the context is checked before it.
WriteFile(created, written) ==
  LET path == Head(creation.left) IN
  /\ creation.job = "new" /\ creation.step = "write" /\ creation.left # <<>>
  /\ written => created
  /\ Result(written \/ ~Creates(path))
  /\ created => Creates(path)
  /\ tree' = IF created THEN With(Ensured(tree, path), path, "scaffold")
             ELSE IF CanEnsure(path) THEN Ensured(tree, path) ELSE tree
  /\ IF written THEN Step([creation EXCEPT !.left = Tail(@), !.created = Append(@, path)])
     ELSE Step([creation EXCEPT !.step = "undo", !.created = IF created THEN Append(@, path) ELSE @,
                                !.left = IF created THEN Append(creation.created, path) ELSE creation.created])
  /\ UNCHANGED <<mine, clean>>

Planned == (UNION {{p} \cup Parents(p) : p \in RangeOf(creation.plan)}) \ {Root}

\* The directory must hold exactly what was planned.
Verify(ok) ==
  /\ creation.job = "new" /\ creation.step = "write" /\ creation.left = <<>>
  /\ Result(ok)
  /\ IF ok /\ Below(Root) = Planned THEN Over("created") ELSE Undo
  /\ UNCHANGED <<tree, mine, clean>>

------------------------------------------------------------------------------
(* rollback.                                                               *)

\* Every planned file instead of every created one.
UndoFilePlanned(ok) ==
  /\ creation.step = "undo" /\ creation.left # <<>> /\ ok
  /\ tree' = [q \in DOMAIN tree \ RangeOf(creation.plan) |-> tree[q]]
  /\ Step([creation EXCEPT !.left = <<>>])
  /\ UNCHANGED <<mine, ioFaults, clean>>

\* The files, the last one first; an error is kept and the loop goes on.
UndoFile(ok) ==
  LET path == creation.left[Len(creation.left)] IN
  /\ creation.step = "undo" /\ creation.left # <<>>
  /\ Result(ok)
  /\ tree' = IF ok /\ There(path) THEN Without(tree, path) ELSE tree
  /\ clean' = (clean /\ ok)
  /\ Step([creation EXCEPT !.left = SubSeq(@, 1, Len(@) - 1)])
  /\ UNCHANGED mine

Removable(path) == IsDir(path) /\ Below(path) = {}

\* os.Remove takes only a directory that is empty.
RemoveDirectory(path, ok) ==
  /\ Result(ok)
  /\ tree' = IF ok /\ Removable(path) THEN Without(tree, path) ELSE tree
  /\ clean' = (clean /\ (~There(path) \/ (ok /\ Removable(path))))

\* Parents of created files, the deepest first.
Remaining == {q \in (UNION {Parents(p) : p \in RangeOf(creation.created)}) \ {Root} : q \notin RangeOf(creation.made)}

UndoDirectory(path, ok) ==
  /\ creation.job = "new" /\ creation.step = "undo" /\ creation.left = <<>>
  /\ path \in Remaining /\ \A q \in Remaining : Len(q) <= Len(path)
  /\ RemoveDirectory(path, ok)
  /\ Step([creation EXCEPT !.made = Append(@, path)])
  /\ UNCHANGED mine

UndoRoot(ok) ==
  /\ creation.job = "new" /\ creation.step = "undo" /\ creation.left = <<>> /\ Remaining = {}
  /\ IF creation.ownRoot THEN RemoveDirectory(Root, ok) ELSE ok /\ UNCHANGED <<tree, clean, ioFaults>>
  /\ Over("failed")
  /\ UNCHANGED mine

------------------------------------------------------------------------------
(* CreateDeclaration.                                                      *)

\* renderDeclaration: a module has a package, with a directory, of its own.
DeclarationFile(kind) ==
  IF kind = "module" THEN <<"app", "internal", "orders", "doc.go">> ELSE <<"app", "orders.go">>

\* validateDeclarationConfig: kind, package and name.
ValidDeclaration(config) == config.kind /\ config.package /\ config.name

\* The nearest parent that is there must be a real directory.
DeclarationCommand(config, kind) ==
  LET path == DeclarationFile(kind)
      parents == [k \in 1..(Len(path) - 1) |-> SubSeq(path, 1, k)]
      missing == SelectSeq(parents, LAMBDA q : ~There(q))
      nearest == Len(parents) - Len(missing)
  IN /\ creation.job \in {"none", "new"} /\ creation.step \in {"idle", "created", "failed"}
     /\ Step(IF ValidDeclaration(config) /\ (nearest > 0 => IsDir(parents[nearest]))
             THEN [NoCreation EXCEPT !.job = "declare", !.plan = <<path>>, !.step = "prepare", !.left = missing]
             ELSE [NoCreation EXCEPT !.job = "declare", !.plan = <<path>>, !.step = "failed"])
     /\ UNCHANGED <<tree, mine, ioFaults, clean>>

Declaration == creation.plan[1]

\* prepareDeclarationDirectory makes the missing directories from the outermost inwards.
MakeDirectory(ok) ==
  LET path == Head(creation.left) IN
  /\ creation.job = "declare" /\ creation.step = "prepare" /\ creation.left # <<>>
  /\ Result(ok)
  /\ LET makes == ok /\ ~There(path) /\ (Parent(path) # <<>> => IsDir(Parent(path)))
     IN /\ tree' = IF makes THEN With(tree, path, "dir") ELSE tree
        /\ IF makes THEN Step([creation EXCEPT !.left = Tail(@), !.made = Append(@, path)])
           ELSE Step([creation EXCEPT !.step = "undo", !.left = <<>>])
  /\ UNCHANGED <<mine, clean>>

\* writeDeclarationFile.
Declarable == IsDir(Parent(Declaration)) /\ ~There(Declaration)

WriteDeclaration(created, written) ==
  /\ creation.job = "declare" /\ creation.step = "prepare" /\ creation.left = <<>>
  /\ written => created
  /\ created => Declarable
  /\ Result(written \/ ~Declarable)
  /\ tree' = IF created THEN With(tree, Declaration, "scaffold") ELSE tree
  /\ IF written THEN Over("created")
     ELSE Step([creation EXCEPT !.step = "undo", !.left = IF created THEN <<Declaration>> ELSE <<>>,
                                !.created = IF created THEN <<Declaration>> ELSE <<>>])
  /\ UNCHANGED <<mine, clean>>

\* cleanupDirectories: the directories that were made, the innermost first.
UndoMade(ok) ==
  LET path == creation.made[Len(creation.made)] IN
  /\ creation.job = "declare" /\ creation.step = "undo" /\ creation.left = <<>>
  /\ IF creation.made = <<>> THEN ok /\ Over("failed") /\ UNCHANGED <<tree, clean, ioFaults>>
     ELSE RemoveDirectory(path, ok) /\ Step([creation EXCEPT !.made = SubSeq(@, 1, Len(@) - 1)])
  /\ UNCHANGED mine

------------------------------------------------------------------------------
UserCreates(path) ==
  /\ Cardinality(mine) < MaxUserFiles /\ ~There(path) /\ IsDir(Parent(path))
  /\ tree' = With(tree, path, "user")
  /\ mine' = mine \cup {path}
  /\ UNCHANGED <<creation, ioFaults, clean>>

ScaffoldNext ==
  \/ \E parses, structured \in BOOLEAN, config \in Configs : NewCommand(parses, config, structured)
  \/ \E ok, opens \in BOOLEAN : PrepareDirectory(ok, opens)
  \/ \E created, written \in BOOLEAN : WriteFile(created, written) \/ WriteDeclaration(created, written)
  \/ \E ok \in BOOLEAN : Verify(ok) \/ UndoFile(ok) \/ UndoRoot(ok) \/ MakeDirectory(ok) \/ UndoMade(ok)
  \/ \E path \in Planned, ok \in BOOLEAN : UndoDirectory(path, ok)
  \/ \E config \in Declarations, kind \in {"module", "service"} : DeclarationCommand(config, kind)
  \/ \E path \in UserPaths : UserCreates(path)

\* A file of the user is neither replaced nor removed, whenever it appears in the directory that a project or a
\* declaration is being written into; and a command that failed has left no file of its own, unless it could not remove
\* it (scaffold.go:634 creates exclusively, :700 removes only what was created).
OnlyOwnIsRemoved ==
  /\ \A path \in mine : There(path) /\ tree[path] = "user"
  /\ creation.step = "failed" /\ clean =>
       IF creation.job = "new" THEN \A path \in DOMAIN tree : tree[path] # "scaffold"
       ELSE There(Declaration) => tree[Declaration] # "scaffold"
===============================================================================
