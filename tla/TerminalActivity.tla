-------------------------- MODULE TerminalActivity --------------------------
(***************************************************************************)
(* ZmuxTerminalActivity.kt: the app's tabs.  Everything that touches them  *)
(* runs on the main thread, one event at a time; starting Python, looking  *)
(* for an installed Linux and installing it are threads, which post what   *)
(* they find back to it.  A tab begins as a local shell and is replaced by *)
(* a Linux shell.  linux-setup, a script in the local shell, asks for the  *)
(* installation with a terminal title and waits for the file .setup_done.  *)
(*                                                                         *)
(* The activity may be destroyed and launched again in the same process,   *)
(* while its threads go on.  The status pill, the note about an old        *)
(* installation, geometry, and shells that exit by themselves, for which   *)
(* the activity does nothing, are left out.                                *)
(***************************************************************************)
EXTENDS Naturals, SequencesExt

CONSTANTS
  TabLimit,     \* tabs from which on the button is off
  MaxShells,    \* bound: local shells
  MaxLaunches,  \* bound: launches of the activity
  MaxSetups     \* bound: times linux-setup is confirmed

Locals   == 1 .. MaxShells   \* local shells, in the order they are started
Launches == 1 .. MaxLaunches
Nothing  == 0

\* The Linux shell that replaces a local one.
Linux(s) == MaxShells + s

ASSUME ActivityAssumption == {TabLimit, MaxShells, MaxLaunches, MaxSetups} \subseteq Nat \ {0}

VARIABLES
  launch,     \* launches so far
  alive,      \* the activity of the last one is not destroyed
  tabs,       \* sessions
  active,     \* activeSessionIndex
  shown,      \* the shell attached to terminalView
  shells,     \* local shells started so far
  running,    \* shells not finished
  startup,    \* Python: "import", "imported" (the post waits), "ready", "failed"
  lookups,    \* <<tab, why, result>>: lookups of an installed Linux
  installed,  \* detectInstalledLinux would find one
  installer,  \* installer[l]: the install thread of launch l; "idle" without one,
              \* and only then is installInProgress clear
  target,     \* target[l]: the tab it works for
  posted,     \* tabs that a finished installation is to replace
  script,     \* script[s]: where linux-setup is in shell s
  titles,     \* shells whose title INSTALL_ALPINE waits for the main thread
  setupDone,  \* the file .setup_done exists
  confirmed   \* confirmations so far

screen  == <<tabs, active, shown, shells, running, script>>
setup   == <<titles, setupDone, confirmed>>
install == <<installed, installer, target, posted>>
threads == <<startup, lookups, install>>
activityVars == <<launch, alive, screen, threads, setup>>

ActivityInit ==
  /\ launch = 0 /\ alive = FALSE
  /\ tabs = << >> /\ active = 1 /\ shown = Nothing
  /\ shells = 0 /\ running = {}
  /\ startup = "failed" /\ lookups = {} /\ installed \in BOOLEAN
  /\ installer = [l \in Launches |-> "idle"] /\ target = [l \in Launches |-> Nothing]
  /\ posted = {}
  /\ script = [s \in Locals |-> "none"] /\ titles = {} /\ setupDone \in BOOLEAN
  /\ confirmed = 0

-----------------------------------------------------------------------------
(* The main thread.                                                        *)

\* A new ZmuxTerminalSession.
Fresh == shells + 1
Started == shells < MaxShells /\ shells' = Fresh

\* Shells that are finished, and one that starts; a script ends with its shell.
Run(over, new) ==
  /\ running' = (running \ over) \union new
  /\ script' = [s \in Locals |-> IF s \in over THEN "none" ELSE script[s]]

\* switchToSession
SwitchTo(t, i) == active' = i /\ shown' = t[i]

\* createNewSession, from the tabs t: with Python ready it looks for Linux.
CreateIn(t) ==
  /\ Started
  /\ tabs' = Append(t, Fresh)
  /\ SwitchTo(tabs', Len(tabs'))
  /\ lookups' = IF startup \in {"imported", "ready"}
                THEN lookups \union {<<Fresh, "new", "looking">>} ELSE lookups

\* onCreate, and createInitialSession
Launch ==
  /\ ~ alive /\ launch < MaxLaunches
  /\ launch' = launch + 1 /\ alive' = TRUE
  /\ Started
  /\ tabs' = <<Fresh>>
  /\ SwitchTo(tabs', 1)
  /\ Run({}, {Fresh})
  /\ startup' = "import"
  /\ UNCHANGED <<lookups, install, setup>>

\* onDestroy
Destroy ==
  /\ alive /\ alive' = FALSE
  /\ Run(ToSet(tabs), {})
  /\ tabs' = << >> /\ active' = 1 /\ shown' = Nothing
  /\ UNCHANGED <<launch, shells, threads, setup>>

NewTab ==
  /\ alive /\ Len(tabs) < TabLimit
  /\ CreateIn(tabs)
  /\ Run({}, {Fresh})
  /\ UNCHANGED <<launch, alive, startup, install, setup>>

Tap(i) ==
  /\ SwitchTo(tabs, i)
  /\ UNCHANGED <<launch, alive, tabs, shells, running, script, threads, setup>>

\* Mutant: the terminal is attached anew only when its own tab was closed.
CloseOther(i) ==
  LET left == RemoveAt(tabs, i) IN
  IF left = << >>
  THEN /\ CreateIn(left)
       /\ Run({tabs[i]}, {Fresh})
       /\ UNCHANGED <<launch, alive, startup, install, setup>>
  ELSE /\ tabs' = left
       /\ active' = (IF active > Len(left) THEN Len(left) ELSE active)
       /\ shown' = (IF i = active THEN left[active'] ELSE shown)
       /\ Run({tabs[i]}, {})
       /\ UNCHANGED <<launch, alive, shells, threads, setup>>

\* closeSession: the index of the active tab stays, unless it was the last.
Close(i) ==
  LET left == RemoveAt(tabs, i) IN
  IF left = << >>
  THEN /\ CreateIn(left)
       /\ Run({tabs[i]}, {Fresh})
       /\ UNCHANGED <<launch, alive, startup, install, setup>>
  ELSE /\ tabs' = left
       /\ SwitchTo(left, IF active > Len(left) THEN Len(left) ELSE active)
       /\ Run({tabs[i]}, {})
       /\ UNCHANGED <<launch, alive, shells, threads, setup>>

\* Mutant: the tab is taken where it was, without another look.
ReplaceAnywhere(s) ==
  IF tabs = << >> THEN UNCHANGED screen
  ELSE /\ tabs' = [tabs EXCEPT ![1] = Linux(s)]
       /\ SwitchTo(tabs', 1)
       /\ Run({s}, {Linux(s)})
       /\ UNCHANGED shells

\* replaceSessionWithLinuxAt, and what launchLinuxSession posts: the tab of
\* shell s, if it is still there, gets a Linux shell and the focus.
Replace(s) ==
  IF s \notin ToSet(tabs) THEN UNCHANGED screen
  ELSE LET i == CHOOSE i \in DOMAIN tabs : tabs[i] = s
       IN  /\ tabs' = [tabs EXCEPT ![i] = Linux(s)]
           /\ SwitchTo(tabs', i)
           /\ Run({s}, {Linux(s)})
           /\ UNCHANGED shells

-----------------------------------------------------------------------------
(* Python and the lookups.                                                 *)

\* The thread of preparePythonRuntime.
Import ==
  /\ startup = "import"
  /\ startup' \in {"imported", "failed"}
  /\ UNCHANGED <<launch, alive, screen, lookups, install, setup>>

\* onPythonRuntimeReady: the first tab, whichever it is by now, is looked up.
OnReady ==
  /\ alive /\ startup = "imported"
  /\ startup' = "ready"
  /\ lookups' = lookups \union {<<tabs[1], "auto", "looking">>}
  /\ UNCHANGED <<launch, alive, screen, install, setup>>

\* detectInstalledLinux
Detect(s, why) ==
  /\ <<s, why, "looking">> \in lookups
  /\ lookups' = (lookups \ {<<s, why, "looking">>})
                  \union {<<s, why, IF installed THEN "found" ELSE "absent">>}
  /\ UNCHANGED <<launch, alive, screen, startup, install, setup>>

\* What the lookup posts.
Promote(s, why) ==
  \E result \in {"found", "absent"} :
    /\ <<s, why, result>> \in lookups
    /\ lookups' = lookups \ {<<s, why, result>>}
    /\ IF result = "found" THEN Replace(s) ELSE UNCHANGED screen
    /\ UNCHANGED <<launch, alive, startup, install, setup>>

-----------------------------------------------------------------------------
(* linux-setup: the script, the title, and the install thread.             *)

ScriptStep(s, from, to) ==
  /\ s \in running /\ script[s] = from
  /\ script' = [script EXCEPT ![s] = to]
  /\ UNCHANGED <<launch, alive, tabs, active, shown, shells, running, threads>>

\* The user, in the tab on the screen, types linux-setup and confirms.
Confirm(s) ==
  /\ alive /\ s = shown
  /\ ScriptStep(s, "none", "title")
  /\ setupDone' = FALSE
  /\ confirmed < MaxSetups /\ confirmed' = confirmed + 1
  /\ UNCHANGED titles

Title(s) ==
  /\ ScriptStep(s, "title", "wait")
  /\ titles' = titles \union {s}
  /\ UNCHANGED <<setupDone, confirmed>>

SeeMarker(s) ==
  /\ setupDone
  /\ ScriptStep(s, "wait", "seen")
  /\ UNCHANGED <<titles, setupDone, confirmed>>

RemoveMarker(s) ==
  /\ ScriptStep(s, "seen", "none")
  /\ setupDone' = FALSE
  /\ UNCHANGED <<titles, confirmed>>

\* onTitleChanged: nothing for a tab that is gone; one installation at a time.
OnTitle(s) ==
  /\ s \in titles
  /\ titles' = titles \ {s}
  /\ IF s \in ToSet(tabs) /\ installer[launch] = "idle"
     THEN /\ installer' = [installer EXCEPT ![launch] = "install"]
          /\ target' = [target EXCEPT ![launch] = s]
     ELSE UNCHANGED <<installer, target>>
  /\ UNCHANGED <<launch, alive, screen, startup, lookups, installed, posted, setupDone, confirmed>>

InstallStep(l, from, to) ==
  /\ installer[l] = from
  /\ installer' = [installer EXCEPT ![l] = to]
  /\ UNCHANGED <<launch, alive, screen, startup, lookups, titles, confirmed>>

\* linuxenv.install, and launchLinuxSession up to its post.
Install(l) ==
  /\ l = launch => startup \in {"imported", "ready"}
  /\ InstallStep(l, "install", "mark")
  /\ installed' = TRUE /\ posted' = posted \union {target[l]}
  /\ target' = [target EXCEPT ![l] = Nothing]
  /\ UNCHANGED setupDone

\* An exception, that of a module not there yet included; or PRoot is missing.
InstallFails(l) ==
  /\ InstallStep(l, "install", "mark")
  /\ target' = [target EXCEPT ![l] = Nothing]
  /\ UNCHANGED <<installed, posted, setupDone>>

\* finally
Mark(l) ==
  /\ InstallStep(l, "mark", "clear")
  /\ setupDone' = TRUE
  /\ UNCHANGED <<installed, posted, target>>

Clear(l) ==
  /\ InstallStep(l, "clear", "idle")
  /\ UNCHANGED <<installed, posted, target, setupDone>>

\* What launchLinuxSession posts.
OpenLinux(s) ==
  /\ s \in posted
  /\ posted' = posted \ {s}
  /\ Replace(s)
  /\ UNCHANGED <<launch, alive, startup, lookups, installed, installer, target, setup>>

ActivityRest == ~ alive /\ UNCHANGED activityVars

User ==
  \/ Launch \/ Destroy \/ NewTab
  \/ \E i \in DOMAIN tabs : Tap(i) \/ Close(i)
  \/ \E s \in Locals : Confirm(s)

Posted(s) == OnTitle(s) \/ OpenLinux(s) \/ \E why \in {"auto", "new"} : Promote(s, why)
Script(s) == Title(s) \/ SeeMarker(s) \/ RemoveMarker(s)
Installs(l) == Install(l) \/ InstallFails(l) \/ Mark(l) \/ Clear(l)

ActivityNext ==
  \/ User \/ Import \/ OnReady \/ ActivityRest
  \/ \E s \in Locals : Posted(s) \/ Script(s) \/ \E why \in {"auto", "new"} : Detect(s, why)
  \/ \E l \in Launches : Installs(l)

\* Threads are scheduled, and the main thread takes what was posted to it.
ActivityFairness ==
  /\ WF_activityVars(Import) /\ WF_activityVars(OnReady)
  /\ \A s \in Locals :
       /\ WF_activityVars(Posted(s)) /\ WF_activityVars(Script(s))
       /\ \A why \in {"auto", "new"} : WF_activityVars(Detect(s, why))
  /\ \A l \in Launches : WF_activityVars(Installs(l))

ActivitySpec == ActivityInit /\ [][ActivityNext]_activityVars /\ ActivityFairness

-----------------------------------------------------------------------------
(* Properties.                                                             *)

\* However lookups and installations end while tabs are opened, closed and
\* chosen: the terminal shows the tab that the keys go to (activeSession), and
\* it is one of the open tabs.
KeysGoToTheScreen ==
  alive => active \in DOMAIN tabs /\ shown = tabs[active]

\* Exactly the shells of open tabs run: none is left behind by a replacement, a
\* closed tab or a destroyed activity, none is finished behind a tab's back,
\* and no thread that comes late starts one (closeSession, onDestroy,
\* replaceSessionWithLinuxAt, launchLinuxSession).
OnlyOpenTabsRun == running = ToSet(tabs)

\* "The host shell waits for this marker.  Always release it after a success or
\* a genuine diagnostic so a corrected retry is possible." (kt:716-717)
SetupIsReleased ==
  \A s \in Locals : script[s] = "wait" ~> script[s] # "wait"
=============================================================================
