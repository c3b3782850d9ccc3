------------------------------- MODULE MCParts -------------------------------
(* LineEditor, ConsoleOutput, PythonRun and TerminalActivity for TLC: they  *)
(* share no state, and a behaviour is one of one of them, the rest at rest. *)
EXTENDS LineEditor, ConsoleOutput, PythonRun, TerminalActivity

VARIABLE part

MCControl == <<"e", "p", "t">>

Init ==
  /\ EditorInit /\ OutputInit /\ RunInit /\ ActivityInit
  /\ part \in {"editor", "output", "python", "activity"}
  /\ part = "activity" \/ ~ (installed \/ setupDone)

Edit == part = "editor" /\ EditorNext /\ UNCHANGED <<outputVars, runVars, activityVars, part>>
Emit == part = "output" /\ OutputNext /\ UNCHANGED <<editorVars, runVars, activityVars, part>>
Exec == part = "python" /\ RunNext /\ UNCHANGED <<editorVars, outputVars, activityVars, part>>
Tabs == part = "activity" /\ ActivityNext /\ UNCHANGED <<editorVars, outputVars, runVars, part>>

Spec ==
  Init /\ [][Edit \/ Emit \/ Exec \/ Tabs]_<<editorVars, outputVars, runVars, activityVars, part>>
=============================================================================
