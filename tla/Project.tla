------------------------------- MODULE Project -------------------------------
(***************************************************************************)
(* A project from outside: a directory in which a project and then a       *)
(* declaration is created; or a project that is there, whose module files  *)
(* are changed by "spice add" and by the language server; or one of the    *)
(* other commands in a project; or one of its files in an editor.          *)
(***************************************************************************)
EXTENDS ModuleInstall, Scaffold, CommandLine, Editor

VARIABLE doing   \* "create", "change", "command" or "edit"

vars == <<installVars, scaffoldVars, commandVars, editorVars, doing>>

\* What is not done is left in one of its initial states.
Init ==
  /\ doing \in {"create", "change", "command", "edit"}
  /\ doing # "create" => tree = <<>>
  /\ doing # "command" => disk = "stale" /\ typed = CHOOSE line \in CommandLines : line.command = "lsp"
  /\ doing # "edit" => saved = CHOOSE text \in FileTexts : TRUE
  /\ InstallInit /\ ScaffoldInit /\ CommandInit /\ EditorInit
  /\ doing # "change" => files.sum = Missing

Next ==
  \/ doing = "create" /\ ScaffoldNext /\ UNCHANGED <<installVars, commandVars, editorVars, doing>>
  \/ doing = "change" /\ InstallNext /\ UNCHANGED <<scaffoldVars, commandVars, editorVars, doing>>
  \/ doing = "command" /\ CommandNext /\ UNCHANGED <<installVars, scaffoldVars, editorVars, doing>>
  \/ doing = "edit" /\ EditorNext /\ UNCHANGED <<installVars, scaffoldVars, commandVars, doing>>

Spec == Init /\ [][Next]_vars
==============================================================================
