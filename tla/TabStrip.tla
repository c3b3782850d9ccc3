------------------------------ MODULE TabStrip ------------------------------
(***************************************************************************)
(* What zmux/sessions.py promises its user: a strip of tabs in creation    *)
(* order, one of which is on screen.  There is always a tab and there is   *)
(* always one on screen ("Activates a neighbour; never leaves zero"), ids  *)
(* are never reused, and every operation happens at once.                  *)
(***************************************************************************)
EXTENDS Naturals, SequencesExt

CONSTANT MaxTabs  \* SessionManager.MAX_SESSIONS

VARIABLES
  tabs,    \* ids of the open tabs, in creation order
  shown,   \* the tab on screen
  opened   \* how many tabs were ever opened: the id of the newest

strip == <<tabs, shown, opened>>

Init == tabs = <<1>> /\ shown = 1 /\ opened = 1

\* create(): a new tab at the right end, on screen.
Open ==
  /\ Len(tabs) < MaxTabs
  /\ opened' = opened + 1
  /\ tabs' = Append(tabs, opened')
  /\ shown' = opened'

\* switch()
Show(i) ==
  /\ shown' = tabs[i]
  /\ UNCHANGED <<tabs, opened>>

\* close() of one tab among several: its right neighbour takes over the
\* screen, the left one if it was the last tab, nobody if it was not shown.
Close(i) ==
  LET neighbour == IF i < Len(tabs) THEN tabs[i + 1] ELSE tabs[i - 1] IN
  /\ Len(tabs) > 1
  /\ tabs' = RemoveAt(tabs, i)
  /\ shown' = IF shown = tabs[i] THEN neighbour ELSE shown
  /\ UNCHANGED opened

\* close() of the only tab: a fresh one replaces it.
Replace ==
  /\ Len(tabs) = 1
  /\ opened' = opened + 1
  /\ tabs' = <<opened'>>
  /\ shown' = opened'

Next ==
  \/ Open
  \/ \E i \in DOMAIN tabs : Show(i) \/ Close(i)
  \/ Replace

Spec == Init /\ [][Next]_strip

=============================================================================
