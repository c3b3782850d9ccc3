------------------------ MODULE RootfsInstall_proofs ------------------------
(***************************************************************************)
(* What holds of linux-setup and of the migration.  The files of the user  *)
(* are safe whatever number of installers there is; the rest is about one, *)
(* which fails, is interrupted and killed any number of times, and for any *)
(* state that older builds may have left.                                  *)
(*                                                                         *)
(* While linux-setup is under way, what is at the live path does not pass  *)
(* for an installation for this device (Clearing), so that its removal,    *)
(* entry by entry, never makes a complete rootfs an incomplete one; and    *)
(* what is moved there from staging was extracted to the end (Staged).     *)
(***************************************************************************)
EXTENDS RootfsInstall, TLAPS

Working == {"purge", "download", "receive", "verify", "unstage", "mkdir"} \union TrySteps

\* An installation at the live path that passes for one, and the legacy rootfs
\* that may be adopted, are complete.
Adopted == "shell" \in legacy.parts /\ legacy.arch = "wanted" => Complete(legacy)

\* What rmtree holds open, and what it has still to remove.
Removing(i) ==
  /\ dir[i] = IF pc[i] \in DOMAIN Removal THEN Removal[pc[i]] ELSE "gone"
  /\ pc[i] = "cleanup" => staging.parts \subseteq left[i]

Clearing(i) ==
  pc[i] \in Working \union {"migrate_clear"} => ~ IsInstalled \/ live.arch # "wanted"

Staged(i) ==
  /\ pc[i] = "open" => staging.arch = "wanted"
  /\ pc[i] = "extract" => Payload \subseteq staging.parts \union left[i] /\ staging.arch = "wanted"
  /\ pc[i] \in {"bootstrap", "swap", "swap_clear", "replace"} =>
       Complete(staging) /\ staging.arch = "wanted"

\* As long as nobody stops it: the tarball is there from the download to the
\* finally clause, the staging directory from its creation to its removal.
Tidy(i) == stops = 0 =>
  /\ pc[i] \in MigrationSteps \union {"check", "purge", "download", "cleanup"} => tarball = "absent"
  /\ pc[i] \notin TrySteps \union {"finally", "cleanup"} => ~ staging.present

OneInv(i) == SwapIsAtomic /\ Adopted /\ Removing(i) /\ Clearing(i) /\ Staged(i) /\ Tidy(i)

-----------------------------------------------------------------------------
(***************************************************************************)
(* Types, for any number of installers.                                    *)
(***************************************************************************)
USE DEF files, vars, live, staging, legacy

\* The initial states are well typed.
LEMMA TypeInit == Init => TypeOK
<1>. SUFFICES ASSUME Init PROVE TypeOK
  OBVIOUS
<1>1. /\ Absent \in Tree /\ Full("wanted", {"files"}) \in Tree
      /\ Full("wanted", Parts) \in Tree /\ Full("other", Payload) \in Tree
  BY DEF Tree, Absent, Full, Parts, Payload
<1>2. trees \in [Places -> Tree]
  BY <1>1 DEF Init
<1>3. home \in [Names -> {"none", "user", "old"}] /\ oldHome \in SUBSET Names
  BY DEF Init
<1>4. pc \in [Installers -> Steps]
  BY DEF Init, Steps
<1>. QED
  BY <1>2, <1>3, <1>4 DEF Init, TypeOK, MigrationSteps

\* Starting a removal keeps the types.
LEMMA StartRemovalTypes ==
  ASSUME TypeOK, NEW i \in Installers, NEW from, NEW loop \in DOMAIN Removal,
         StartRemoval(i, from, loop), loop = "migrate_clear" \/ task[i] = "setup"
  PROVE  /\ pc' \in [Installers -> Steps]
         /\ left' \in [Installers -> SUBSET Parts]
         /\ dir' \in [Installers -> Places \union {"gone"}]
         /\ pc'[i] = loop
         /\ \A j \in Installers : j # i => pc'[j] = pc[j]
<1>1. Removal[loop] \in Places
  BY DEF Removal, Places
<1>2. trees[Removal[loop]].parts \in SUBSET Parts
  BY <1>1 DEF TypeOK, Tree
<1>3. loop \in Steps
  BY DEF Steps, Loops
<1>. QED
  BY <1>1, <1>2, <1>3 DEF StartRemoval, Goto, TypeOK

\* rmtree keeps the types.
LEMMA RemovalTypes ==
  ASSUME TypeOK, NEW i \in Installers, RemovePart(i) \/ RemoveEnd(i)
  PROVE  TypeOK'
<1>1. CASE RemovePart(i)
  <2>1. PICK p \in left[i] :
          /\ trees' = [place \in Places |->
               IF place = dir[i] THEN [trees[place] EXCEPT !.parts = @ \ {p}] ELSE trees[place]]
          /\ left' = [left EXCEPT ![i] = @ \ {p}]
    BY <1>1 DEF RemovePart
  <2>2. trees' \in [Places -> Tree]
    BY <2>1 DEF TypeOK, Tree
  <2>. QED
    BY <1>1, <2>1, <2>2 DEF RemovePart, TypeOK
<1>2. CASE RemoveEnd(i)
  <2>1. trees' \in [Places -> Tree]
    BY <1>2 DEF RemoveEnd, TypeOK, Absent, Tree
  <2>2. dir' \in [Installers -> Places \union {"gone"}]
    BY <1>2 DEF RemoveEnd, TypeOK
  <2>3. /\ pc' \in [Installers -> Steps]
        /\ \A j \in Installers : task[j] = "startup" => pc'[j] \in MigrationSteps
    BY <1>2 DEF RemoveEnd, Goto, AfterRemoval, Removal, TypeOK, Steps, MigrationSteps, TrySteps
  <2>. QED
    BY <1>2, <2>1, <2>2, <2>3 DEF RemoveEnd, TypeOK
<1>. QED
  BY <1>1, <1>2

\* A rename keeps the types.
LEMMA MoveTypes ==
  ASSUME TypeOK, NEW from \in Places, NEW to \in Places, Move(from, to)
  PROVE  /\ trees' \in [Places -> Tree]
         /\ dir' \in [Installers -> Places \union {"gone"}]
<1>1. trees' \in [Places -> Tree]
  BY DEF Move, TypeOK, Absent, Tree
<1>2. \A j \in Installers :
        (CASE dir[j] = from -> to [] dir[j] = to -> "gone" [] OTHER -> dir[j])
          \in Places \union {"gone"}
  BY DEF TypeOK
<1>. QED
  BY <1>1, <1>2 DEF Move

\* The migration keeps the types.
LEMMA MigrationTypes ==
  ASSUME TypeOK, NEW i \in Installers,
         \/ Setup(i) \/ Startup(i) \/ MigrateSkip(i) \/ MigrateAdopt(i)
         \/ MigrateMove(i) \/ MergeEntry(i) \/ MergeEnd(i)
  PROVE  TypeOK'
<1>0. AfterMigrate(i) \in Steps /\ (task[i] = "startup" => AfterMigrate(i) \in MigrationSteps)
  BY DEF AfterMigrate, Steps, MigrationSteps
<1>1. CASE Setup(i) \/ Startup(i)
  BY <1>1 DEF Setup, Startup, Begin, Goto, TypeOK, Steps, MigrationSteps
<1>2. CASE MigrateSkip(i) \/ MergeEnd(i)
  BY <1>0, <1>2 DEF MigrateSkip, MergeEnd, Goto, TypeOK
<1>3. CASE MigrateAdopt(i)
  <2>1. CASE live.present
    <3>1. "migrate_clear" \in DOMAIN Removal /\ "migrate_clear" \in MigrationSteps
      BY DEF Removal, MigrationSteps
    <3>. QED
      BY <1>3, <2>1, <3>1, StartRemovalTypes DEF MigrateAdopt, TypeOK
  <2>2. CASE ~ live.present
    BY <1>3, <2>2 DEF MigrateAdopt, Goto, TypeOK, Steps, MigrationSteps
  <2>. QED
    BY <2>1, <2>2
<1>4. CASE MigrateMove(i)
  <2>1. CASE Movable("legacy", "live")
    <3>1. trees' \in [Places -> Tree] /\ dir' \in [Installers -> Places \union {"gone"}]
      BY <1>4, <2>1, MoveTypes DEF MigrateMove, Places
    <3>. QED
      BY <1>4, <2>1, <3>1 DEF MigrateMove, Goto, TypeOK, Steps, MigrationSteps
  <2>2. CASE ~ Movable("legacy", "live")
    BY <1>0, <1>4, <2>2 DEF MigrateMove, Goto, TypeOK
  <2>. QED
    BY <2>1, <2>2
<1>5. CASE MergeEntry(i)
  BY <1>5 DEF MergeEntry, TypeOK
<1>. QED
  BY <1>1, <1>2, <1>3, <1>4, <1>5

\* linux-setup is past the migration only as a setup.
LEMMA OnlySetups ==
  ASSUME TypeOK, NEW i \in Installers, pc[i] \notin MigrationSteps
  PROVE  task[i] = "setup"
BY DEF TypeOK

\* The checks, the download and the preparation of staging keep the types.
LEMMA DownloadTypes ==
  ASSUME TypeOK, NEW i \in Installers,
         \/ CheckAlready(i) \/ CheckPurge(i) \/ CheckAbsent(i) \/ DownloadOpen(i)
         \/ DownloadFail(i) \/ Receive(i) \/ Verify(i) \/ Mkdir(i)
  PROVE  TypeOK'
<1>0. pc[i] \in {"check", "download", "receive", "verify", "mkdir"}
  BY DEF CheckAlready, CheckPurge, CheckAbsent, DownloadOpen, DownloadFail, Receive, Verify,
         Mkdir, Goto, Ends, StartRemoval
<1>00. task[i] = "setup"
  BY <1>0, OnlySetups DEF MigrationSteps
<1>1. CASE CheckPurge(i)
  BY <1>00, <1>1, StartRemovalTypes DEF CheckPurge, Removal, TypeOK
<1>2. CASE Verify(i)
  <2>1. CASE staging.present
    BY <1>00, <1>2, <2>1, StartRemovalTypes DEF Verify, Removal, TypeOK
  <2>2. CASE ~ staging.present
    BY <1>00, <1>2, <2>2 DEF Verify, Goto, TypeOK, Steps
  <2>. QED
    BY <2>1, <2>2
<1>3. CASE Mkdir(i)
  <2>1. Full("wanted", {}) \in Tree
    BY DEF Tree, Full
  <2>2. trees' \in [Places -> Tree]
    BY <1>3, <2>1 DEF Mkdir, TypeOK
  <2>3. CASE staging.present
    BY <1>00, <1>3, <2>2, <2>3 DEF Mkdir, Ends, Goto, TypeOK, Steps, MigrationSteps
  <2>4. CASE ~ staging.present
    <3>1. pc' = [pc EXCEPT ![i] = "open"] /\ result' = result
      BY <1>3, <2>4 DEF Mkdir, Goto
    <3>. QED
      BY <1>00, <1>3, <2>2, <3>1 DEF Mkdir, TypeOK, Steps, TrySteps
  <2>. QED
    BY <2>3, <2>4
<1>4. CASE CheckAlready(i) \/ DownloadFail(i)
  BY <1>4 DEF CheckAlready, DownloadFail, Unlink, Ends, Goto, TypeOK, Steps, MigrationSteps
<1>5. CASE CheckAbsent(i) \/ DownloadOpen(i) \/ Receive(i)
  BY <1>00, <1>5 DEF CheckAbsent, DownloadOpen, Receive, Goto, TypeOK, Steps
<1>. QED
  BY <1>1, <1>2, <1>3, <1>4, <1>5

\* The extraction, the swap and the clean-up keep the types.
LEMMA SwapTypes ==
  ASSUME TypeOK, NEW i \in Installers,
         \/ ExtractOpen(i) \/ ExtractPart(i) \/ ExtractEnd(i) \/ Bootstrap(i) \/ TryFail(i)
         \/ Swap(i) \/ Replace(i) \/ Finally(i)
  PROVE  TypeOK'
<1>0. pc[i] \in {"open", "extract", "bootstrap", "swap", "replace", "finally"}
  BY DEF ExtractOpen, ExtractPart, ExtractEnd, Bootstrap, TryFail, Swap, Replace, Finally,
         Goto, Fails, StartRemoval
<1>00. task[i] = "setup"
  BY <1>0, OnlySetups DEF MigrationSteps
<1>1. CASE ExtractOpen(i)
  BY <1>00, <1>1 DEF ExtractOpen, Fails, Goto, TypeOK, Steps, Loops, Parts
<1>2. CASE ExtractPart(i)
  <2>1. PICK p \in left[i] :
          /\ trees' = [trees EXCEPT !["staging"] = Full("wanted", @.parts \union {p})]
          /\ left' = [left EXCEPT ![i] = @ \ {p}]
    BY <1>2 DEF ExtractPart
  <2>2. p \in Parts /\ staging.parts \in SUBSET Parts
    BY DEF TypeOK, Tree, Places
  <2>3. Full("wanted", staging.parts \union {p}) \in Tree
    BY <2>2 DEF Tree, Full
  <2>4. trees' \in [Places -> Tree]
    BY <2>1, <2>3 DEF TypeOK
  <2>. QED
    BY <1>2, <2>1, <2>4 DEF ExtractPart, TypeOK
<1>3. CASE ExtractEnd(i) \/ TryFail(i)
  BY <1>00, <1>3 DEF ExtractEnd, TryFail, Fails, Goto, TypeOK, Steps, Loops, TrySteps
<1>4. CASE Bootstrap(i)
  <2>1. trees' \in [Places -> Tree]
    BY <1>4 DEF Bootstrap, TypeOK, Tree, Parts, Payload, Places
  <2>. QED
    BY <1>00, <1>4, <2>1 DEF Bootstrap, Fails, Goto, TypeOK, Steps, TrySteps
<1>5. CASE Swap(i)
  <2>1. CASE live.present
    BY <1>00, <1>5, <2>1, StartRemovalTypes DEF Swap, Removal, TypeOK
  <2>2. CASE ~ live.present
    BY <1>00, <1>5, <2>2 DEF Swap, Goto, TypeOK, Steps, TrySteps
  <2>. QED
    BY <2>1, <2>2
<1>6. CASE Replace(i)
  <2>1. trees' \in [Places -> Tree] /\ dir' \in [Installers -> Places \union {"gone"}]
    BY <1>6, MoveTypes DEF Replace, TypeOK, Places
  <2>. QED
    BY <1>00, <1>6, <2>1 DEF Replace, Fails, Goto, TypeOK, Steps
<1>7. CASE Finally(i)
  BY <1>00, <1>7, StartRemovalTypes DEF Finally, Unlink, Removal, TypeOK
<1>. QED
  BY <1>1, <1>2, <1>3, <1>4, <1>5, <1>6, <1>7

\* Being stopped keeps the types.
LEMMA StopTypes ==
  ASSUME TypeOK, (\E i \in Installers : Interrupt(i)) \/ Crash
  PROVE  TypeOK'
<1>1. ASSUME NEW i \in Installers, Interrupt(i) PROVE TypeOK'
  BY <1>1 DEF Interrupt, Fails, Ends, Goto, TypeOK, Steps
<1>2. CASE Crash
  BY <1>2 DEF Crash, TypeOK, Steps, MigrationSteps
<1>. QED
  BY <1>1, <1>2

\* Every step keeps the types.
LEMMA TypeStep == TypeOK /\ [Next]_vars => TypeOK'
<1>. SUFFICES ASSUME TypeOK, [Next]_vars PROVE TypeOK'
  OBVIOUS
<1>1. CASE UNCHANGED vars
  BY <1>1 DEF TypeOK
<1>2. ASSUME NEW i \in Installers, Setup(i) \/ Startup(i) \/ Step(i) PROVE TypeOK'
  BY <1>2, RemovalTypes, MigrationTypes, DownloadTypes, SwapTypes DEF Step
<1>. QED
  BY <1>1, <1>2, StopTypes DEF Next

\* Every variable has its type, and the startup migrates but never installs.
THEOREM TypeCorrect == Spec => []TypeOK
BY TypeInit, TypeStep, PTL DEF Spec

-----------------------------------------------------------------------------
(***************************************************************************)
(* The files of the user, for any number of installers.                    *)
(***************************************************************************)

\* Only the merge writes into the homes, and it gives a name to a file only
\* where it is free.
LEMMA HomeStep == TypeOK /\ [Next]_vars => HomeSurvives
<1>. SUFFICES ASSUME TypeOK, [Next]_vars PROVE HomeSurvives
  OBVIOUS
<1>1. CASE UNCHANGED <<home, oldHome>>
  BY <1>1 DEF HomeSurvives
<1>2. ASSUME NEW i \in Installers, MergeEntry(i) PROVE HomeSurvives
  BY <1>2 DEF MergeEntry, HomeSurvives, TypeOK
<1>3. ASSUME NEW i \in Installers, RemovePart(i) \/ RemoveEnd(i)
      PROVE  UNCHANGED <<home, oldHome>>
  BY <1>3 DEF RemovePart, RemoveEnd
<1>4. ASSUME NEW i \in Installers,
             \/ Setup(i) \/ Startup(i) \/ MigrateSkip(i) \/ MigrateAdopt(i)
             \/ MigrateMove(i) \/ MergeEnd(i)
      PROVE  UNCHANGED <<home, oldHome>>
  BY <1>4 DEF Setup, Startup, Begin, MigrateSkip, MigrateAdopt, MigrateMove, MergeEnd
<1>5. ASSUME NEW i \in Installers,
             \/ CheckAlready(i) \/ CheckPurge(i) \/ CheckAbsent(i) \/ DownloadOpen(i)
             \/ DownloadFail(i) \/ Receive(i) \/ Verify(i) \/ Mkdir(i)
      PROVE  UNCHANGED <<home, oldHome>>
  BY <1>5 DEF CheckAlready, CheckPurge, CheckAbsent, DownloadOpen, DownloadFail, Receive,
              Verify, Mkdir
<1>6. ASSUME NEW i \in Installers,
             \/ ExtractOpen(i) \/ ExtractPart(i) \/ ExtractEnd(i) \/ Bootstrap(i)
             \/ TryFail(i) \/ Swap(i) \/ Replace(i) \/ Finally(i)
      PROVE  UNCHANGED <<home, oldHome>>
  BY <1>6 DEF ExtractOpen, ExtractPart, ExtractEnd, Bootstrap, TryFail, Swap, Replace, Finally
<1>7. ASSUME (\E i \in Installers : Interrupt(i)) \/ Crash \/ UNCHANGED vars
      PROVE  UNCHANGED <<home, oldHome>>
  BY <1>7 DEF Interrupt, Crash
<1>. QED
  BY <1>1, <1>2, <1>3, <1>4, <1>5, <1>6, <1>7 DEF Next, Step

\* No installation and no migration, of any number that run at once, are
\* interrupted and killed, loses a file of the user: each name that was in a
\* home directory still is in one, and old files replace none.
THEOREM HomeIsSafe == Spec => HomeIsKept
BY TypeCorrect, HomeStep, PTL DEF Spec, HomeIsKept

-----------------------------------------------------------------------------
(***************************************************************************)
(* One installer.                                                          *)
(***************************************************************************)
\* The initial states have the invariant.
LEMMA OneInit ==
  ASSUME NEW i, Installers = {i}, Init
  PROVE  OneInv(i)
<1>1. /\ live \in {Absent, Full("wanted", {"files"}), Full("wanted", Parts), Full("other", Payload)}
      /\ legacy \in {Absent, Full("wanted", {"files"}), Full("wanted", Parts), Full("other", Payload)}
  BY DEF Init, Places
<1>2. SwapIsAtomic /\ Adopted
  BY <1>1 DEF SwapIsAtomic, Adopted, IsInstalled, Complete, Absent, Full, Parts, Payload
<1>3. pc[i] = "idle" /\ dir[i] = "gone" /\ tarball = "absent" /\ ~ staging.present
  BY DEF Init, Absent
<1>4. Removing(i) /\ Clearing(i) /\ Staged(i) /\ Tidy(i)
  BY <1>3 DEF Removing, Clearing, Staged, Tidy, Removal, Working, TrySteps
<1>. QED
  BY <1>2, <1>4 DEF OneInv

\* A step that writes into no tree keeps what the trees hold.
LEMMA SameTrees ==
  ASSUME NEW i, OneInv(i), UNCHANGED trees
  PROVE  SwapIsAtomic' /\ Adopted'
BY DEF OneInv, SwapIsAtomic, Adopted, IsInstalled, Complete

\* Of what is removed at the live path nothing passes for an installation.
LEMMA RemovePartKeeps ==
  ASSUME NEW i, Installers = {i}, TypeOK, OneInv(i), RemovePart(i)
  PROVE  OneInv(i)'
<1>1. PICK p \in left[i] :
        /\ trees' = [place \in Places |->
             IF place = dir[i] THEN [trees[place] EXCEPT !.parts = @ \ {p}] ELSE trees[place]]
        /\ left' = [left EXCEPT ![i] = @ \ {p}]
  BY DEF RemovePart
<1>2. pc[i] \in {"migrate_clear", "purge", "unstage", "swap_clear", "cleanup"}
  BY DEF RemovePart, Removal
<1>3. /\ dir[i] = Removal[pc[i]]
      /\ UNCHANGED <<pc, dir, tarball, stops>>
      /\ left'[i] = left[i] \ {p}
  BY <1>1 DEF RemovePart, OneInv, Removing, TypeOK
<1>4. \A place \in Places :
        /\ trees'[place].present = trees[place].present
        /\ trees'[place].arch = trees[place].arch
        /\ trees'[place].parts = IF place = dir[i] THEN trees[place].parts \ {p}
                                                   ELSE trees[place].parts
  BY <1>1 DEF TypeOK, Tree
<1>5. /\ "live" \in Places /\ "staging" \in Places /\ "legacy" \in Places
      /\ dir[i] \in {"live", "staging"}
      /\ dir[i] = "staging" => pc[i] \in {"unstage", "cleanup"}
      /\ dir[i] = "live" => pc[i] \in {"migrate_clear", "purge", "swap_clear"}
  BY <1>2, <1>3 DEF Places, Removal
<1>6. Adopted'
  BY <1>4, <1>5 DEF OneInv, Adopted, Complete
<1>7. Clearing(i)'
  BY <1>3, <1>4, <1>5 DEF OneInv, Clearing, IsInstalled
<1>8. SwapIsAtomic'
  <2>1. CASE dir[i] = "live"
    <3>1. pc'[i] \in Working \union {"migrate_clear"}
      BY <1>3, <1>5, <2>1 DEF Working, TrySteps
    <3>. QED
      BY <1>7, <3>1 DEF Clearing, SwapIsAtomic
  <2>2. CASE dir[i] = "staging"
    BY <1>4, <1>5, <2>2 DEF OneInv, SwapIsAtomic, IsInstalled, Complete
  <2>. QED
    BY <1>5, <2>1, <2>2
<1>9. Removing(i)'
  BY <1>2, <1>3, <1>4, <1>5 DEF OneInv, Removing, Removal
<1>10. Staged(i)'
  BY <1>2, <1>3, <1>4, <1>5 DEF OneInv, Staged, Complete
<1>11. Tidy(i)'
  BY <1>3, <1>4, <1>5 DEF OneInv, Tidy
<1>. QED
  BY <1>6, <1>7, <1>8, <1>9, <1>10, <1>11 DEF OneInv

\* When the loop is through, the directory is gone or as it was.
LEMMA RemoveEndKeeps ==
  ASSUME NEW i, Installers = {i}, TypeOK, OneInv(i), RemoveEnd(i)
  PROVE  OneInv(i)'
<1>1. pc[i] \in {"migrate_clear", "purge", "unstage", "swap_clear", "cleanup"}
  BY DEF RemoveEnd, Removal
<1>2. /\ pc'[i] = AfterRemoval[pc[i]]
      /\ dir'[i] = "gone"
      /\ UNCHANGED <<tarball, stops>>
      /\ left[i] = {}
  BY DEF RemoveEnd, Goto, TypeOK
<1>3. trees' = IF trees[Removal[pc[i]]].parts = {}
               THEN [trees EXCEPT ![Removal[pc[i]]] = Absent] ELSE trees
  BY DEF RemoveEnd
<1>4. Removal[pc[i]] = IF pc[i] \in {"unstage", "cleanup"} THEN "staging" ELSE "live"
  BY <1>1 DEF Removal
<1>5. legacy' = legacy
  BY <1>3, <1>4 DEF TypeOK, Places
<1>6. live' = live \/ (live' = Absent /\ pc[i] \notin {"unstage", "cleanup"})
  BY <1>3, <1>4 DEF TypeOK, Places
<1>7. \/ staging' = staging /\ (pc[i] = "cleanup" => staging.parts # {})
      \/ staging' = Absent /\ pc[i] \in {"unstage", "cleanup"}
  BY <1>3, <1>4 DEF TypeOK, Places
<1>8. /\ pc[i] = "migrate_clear" => pc'[i] = "migrate_move"
      /\ pc[i] = "purge" => pc'[i] = "download"
      /\ pc[i] = "unstage" => pc'[i] = "mkdir"
      /\ pc[i] = "swap_clear" => pc'[i] = "replace"
      /\ pc[i] = "cleanup" => pc'[i] = "idle"
  BY <1>2 DEF AfterRemoval
<1>9. Adopted' /\ SwapIsAtomic'
  BY <1>5, <1>6 DEF OneInv, Adopted, SwapIsAtomic, IsInstalled, Complete, Absent
<1>10. Removing(i)'
  BY <1>1, <1>2, <1>8 DEF Removing, Removal
<1>11. Clearing(i)'
  BY <1>1, <1>6, <1>8 DEF OneInv, Clearing, IsInstalled, Working, TrySteps, Absent
<1>12. Staged(i)'
  <2>1. CASE pc[i] = "swap_clear"
    BY <1>7, <1>8, <2>1 DEF OneInv, Staged, Complete
  <2>2. CASE pc[i] # "swap_clear"
    BY <1>1, <1>8, <2>2 DEF Staged
  <2>. QED
    BY <2>1, <2>2
<1>13. Tidy(i)'
  <2>1. CASE pc[i] = "cleanup"
    BY <1>2, <1>7, <1>8, <2>1 DEF OneInv, Removing, Tidy, MigrationSteps, TrySteps, Absent
  <2>2. CASE pc[i] # "cleanup"
    BY <1>1, <1>2, <1>7, <1>8, <2>2 DEF OneInv, Tidy, MigrationSteps, TrySteps, Absent
  <2>. QED
    BY <2>1, <2>2
<1>. QED
  BY <1>9, <1>10, <1>11, <1>12, <1>13 DEF OneInv

\* The migration puts a complete rootfs at the live path, and only where none
\* passes for an installation.
LEMMA MigrationKeeps ==
  ASSUME NEW i, Installers = {i}, TypeOK, OneInv(i),
         \/ Setup(i) \/ Startup(i) \/ MigrateSkip(i) \/ MigrateAdopt(i)
         \/ MigrateMove(i) \/ MergeEntry(i) \/ MergeEnd(i)
  PROVE  OneInv(i)'
<1>1. /\ pc[i] \in {"idle", "migrate", "migrate_move", "merge"}
      /\ UNCHANGED <<tarball, stops>>
      /\ staging' = staging
  BY DEF Setup, Startup, Begin, MigrateSkip, MigrateAdopt, MigrateMove, MergeEntry, MergeEnd,
         StartRemoval, Goto, Move, Movable, TypeOK, Places
<1>2. dir[i] = "gone"
  BY <1>1 DEF OneInv, Removing, Removal
<1>3. /\ pc'[i] \in {"idle", "migrate", "migrate_clear", "migrate_move", "merge", "check"}
      /\ dir'[i] = IF pc'[i] = "migrate_clear" THEN "live" ELSE "gone"
      /\ pc'[i] = "migrate_clear" => ~ IsInstalled /\ UNCHANGED trees
  BY <1>1, <1>2 DEF Setup, Startup, Begin, MigrateSkip, MigrateAdopt, MigrateMove, MergeEntry,
       MergeEnd, StartRemoval, Goto, Move, TypeOK, Removal, AfterMigrate, Adoptable
<1>4. Adopted' /\ SwapIsAtomic'
  <2>1. CASE UNCHANGED trees
    BY <2>1, SameTrees
  <2>2. CASE MigrateMove(i) /\ Movable("legacy", "live")
    <3>1. live' = legacy /\ legacy' = Absent
      BY <2>2 DEF MigrateMove, Move, TypeOK, Places
    <3>. QED
      BY <3>1 DEF OneInv, Adopted, SwapIsAtomic, IsInstalled, Complete, Absent
  <2>. QED
    BY <2>1, <2>2 DEF Setup, Startup, Begin, MigrateSkip, MigrateAdopt, MigrateMove, MergeEntry,
         MergeEnd
<1>5. Removing(i)'
  BY <1>3 DEF Removing, Removal
<1>6. Clearing(i)'
  BY <1>3 DEF Clearing, IsInstalled, Working, TrySteps
<1>7. Staged(i)'
  BY <1>3 DEF Staged
<1>8. Tidy(i)'
  BY <1>1, <1>3 DEF OneInv, Tidy, MigrationSteps, TrySteps
<1>. QED
  BY <1>4, <1>5, <1>6, <1>7, <1>8 DEF OneInv

\* Nothing is downloaded over an installation for this device, and nothing is
\* left of a download that fails.
LEMMA DownloadKeeps ==
  ASSUME NEW i, Installers = {i}, TypeOK, OneInv(i),
         \/ CheckAlready(i) \/ CheckPurge(i) \/ CheckAbsent(i) \/ DownloadOpen(i)
         \/ DownloadFail(i) \/ Receive(i) \/ Verify(i)
  PROVE  OneInv(i)'
<1>1. pc[i] \in {"check", "download", "receive", "verify"} /\ UNCHANGED <<trees, stops>>
  BY DEF CheckAlready, CheckPurge, CheckAbsent, DownloadOpen, DownloadFail, Receive, Verify,
         Goto, Ends, StartRemoval
<1>2. dir[i] = "gone"
  BY <1>1 DEF OneInv, Removing, Removal
<1>3. Adopted' /\ SwapIsAtomic'
  BY <1>1, SameTrees
<1>4. Clearing(i) /\ Tidy(i)
  BY DEF OneInv
<1>5. CASE CheckAlready(i) \/ DownloadFail(i)
  <2>1. /\ pc'[i] = "idle" /\ dir'[i] = "gone"
        /\ (tarball' = tarball /\ pc[i] = "check") \/ tarball' = "absent"
    BY <1>2, <1>5 DEF CheckAlready, DownloadFail, Unlink, Ends, Goto, TypeOK
  <2>2. Removing(i)' /\ Clearing(i)' /\ Staged(i)'
    BY <2>1 DEF Removing, Removal, Clearing, Working, TrySteps, Staged
  <2>3. Tidy(i)'
    BY <1>1, <1>4, <2>1 DEF Tidy, MigrationSteps, TrySteps
  <2>. QED
    BY <1>3, <2>2, <2>3 DEF OneInv
<1>6. CASE CheckPurge(i) \/ CheckAbsent(i)
  <2>1. /\ pc[i] = "check" /\ tarball' = tarball
        /\ \/ pc'[i] = "purge" /\ dir'[i] = "live"
           \/ pc'[i] = "download" /\ dir'[i] = "gone"
        /\ ~ IsInstalled \/ live.arch # "wanted"
    <3>1. CASE CheckPurge(i)
      BY <3>1 DEF CheckPurge, StartRemoval, Goto, Removal, WrongArch, TypeOK
    <3>2. CASE CheckAbsent(i)
      BY <1>2, <3>2 DEF CheckAbsent, Goto, TypeOK
    <3>. QED
      BY <1>6, <3>1, <3>2
  <2>2. Removing(i)' /\ Clearing(i)' /\ Staged(i)'
    BY <1>1, <2>1 DEF Removing, Removal, Clearing, IsInstalled, Staged
  <2>3. Tidy(i)'
    BY <1>1, <1>4, <2>1 DEF Tidy, MigrationSteps, TrySteps
  <2>. QED
    BY <1>3, <2>2, <2>3 DEF OneInv
<1>7. CASE DownloadOpen(i) \/ Receive(i) \/ Verify(i)
  <2>1. /\ pc[i] \in {"download", "receive", "verify"}
        /\ pc'[i] \in {"receive", "verify", "unstage", "mkdir"}
        /\ dir'[i] = IF pc'[i] = "unstage" THEN "staging" ELSE "gone"
    BY <1>2, <1>7 DEF DownloadOpen, Receive, Verify, StartRemoval, Goto, Removal, TypeOK
  <2>2. Removing(i)' /\ Staged(i)'
    BY <2>1 DEF Removing, Removal, Staged
  <2>3. Clearing(i)'
    BY <1>1, <1>4, <2>1 DEF Clearing, IsInstalled, Working
  <2>4. Tidy(i)'
    BY <1>1, <1>4, <2>1 DEF Tidy, MigrationSteps, TrySteps
  <2>. QED
    BY <1>3, <2>2, <2>3, <2>4 DEF OneInv
<1>. QED
  BY <1>5, <1>6, <1>7

\* An undisturbed staging directory is made, for this device.
LEMMA MkdirKeeps ==
  ASSUME NEW i, Installers = {i}, TypeOK, OneInv(i), Mkdir(i)
  PROVE  OneInv(i)'
<1>1. /\ pc[i] = "mkdir" /\ UNCHANGED <<tarball, stops>> /\ dir'[i] = "gone"
      /\ legacy' = legacy /\ live' = live
  BY DEF Mkdir, Ends, Goto, OneInv, Removing, Removal, TypeOK, Places
<1>2. \/ pc'[i] = "idle" /\ staging.present
      \/ pc'[i] = "open" /\ staging'.arch = "wanted"
  BY DEF Mkdir, Ends, Goto, TypeOK, Places, Full
<1>3. Adopted' /\ SwapIsAtomic'
  BY <1>1 DEF OneInv, Adopted, SwapIsAtomic, IsInstalled, Complete
<1>4. Removing(i)' /\ Staged(i)'
  BY <1>1, <1>2 DEF Removing, Removal, Staged
<1>5. Clearing(i)'
  BY <1>1, <1>2 DEF OneInv, Clearing, IsInstalled, Working, TrySteps
<1>6. Tidy(i)'
  BY <1>1, <1>2 DEF OneInv, Tidy, MigrationSteps, TrySteps
<1>. QED
  BY <1>3, <1>4, <1>5, <1>6 DEF OneInv

\* The extraction fills staging, and is not left for the swap before it is
\* complete.
LEMMA ExtractKeeps ==
  ASSUME NEW i, Installers = {i}, TypeOK, OneInv(i),
         \/ ExtractOpen(i) \/ ExtractPart(i) \/ ExtractEnd(i) \/ Bootstrap(i) \/ TryFail(i)
  PROVE  OneInv(i)'
<1>1. /\ pc[i] \in {"open", "extract", "bootstrap"} /\ UNCHANGED <<tarball, stops, dir>>
      /\ legacy' = legacy /\ live' = live
  BY DEF ExtractOpen, ExtractPart, ExtractEnd, Bootstrap, TryFail, Fails, Goto, TypeOK, Places
<1>2. dir'[i] = "gone"
  BY <1>1 DEF OneInv, Removing, Removal
<1>3. pc'[i] \in {"extract", "bootstrap", "swap", "finally"}
  BY DEF ExtractOpen, ExtractPart, ExtractEnd, Bootstrap, TryFail, Fails, Goto, TypeOK
<1>4. Adopted' /\ SwapIsAtomic'
  BY <1>1 DEF OneInv, Adopted, SwapIsAtomic, IsInstalled, Complete
<1>5. Removing(i)'
  BY <1>2, <1>3 DEF Removing, Removal
<1>6. Clearing(i)'
  BY <1>1, <1>3 DEF OneInv, Clearing, IsInstalled, Working, TrySteps
<1>7. Tidy(i)'
  BY <1>3 DEF Tidy, MigrationSteps, TrySteps
<1>8. Staged(i)'
  <2>1. CASE ExtractOpen(i)
    BY <2>1 DEF OneInv, Staged, ExtractOpen, Fails, Goto, TypeOK
  <2>2. CASE ExtractPart(i)
    <3>1. PICK p \in left[i] :
            /\ trees' = [trees EXCEPT !["staging"] = Full("wanted", @.parts \union {p})]
            /\ left' = [left EXCEPT ![i] = @ \ {p}]
      BY <2>2 DEF ExtractPart
    <3>2. staging' = Full("wanted", staging.parts \union {p})
      BY <3>1 DEF TypeOK, Places
    <3>3. /\ staging'.parts = staging.parts \union {p} /\ staging'.arch = "wanted"
          /\ left'[i] = left[i] \ {p}
      BY <3>1, <3>2 DEF Full, TypeOK
    <3>4. pc[i] = "extract" /\ pc' = pc
      BY <2>2 DEF ExtractPart
    <3>. QED
      BY <3>3, <3>4 DEF OneInv, Staged
  <2>3. CASE ExtractEnd(i)
    BY <2>3 DEF OneInv, Staged, Complete, ExtractEnd, Goto, TypeOK
  <2>4. CASE Bootstrap(i)
    <3>1. pc[i] = "bootstrap" /\ (pc'[i] = "finally" \/ pc'[i] = "swap")
      BY <2>4 DEF Bootstrap, Fails, Goto, TypeOK
    <3>2. staging'.arch = staging.arch /\ staging.parts \subseteq staging'.parts
      BY <2>4 DEF Bootstrap, TypeOK, Places, Tree
    <3>. QED
      BY <3>1, <3>2 DEF OneInv, Staged, Complete
  <2>5. CASE TryFail(i)
    BY <2>5 DEF Staged, TryFail, Fails, Goto, TypeOK
  <2>. QED
    BY <2>1, <2>2, <2>3, <2>4, <2>5
<1>. QED
  BY <1>4, <1>5, <1>6, <1>7, <1>8 DEF OneInv

\* The swap puts the complete staging at the live path, and the finally clause
\* removes staging and tarball.
LEMMA SwapKeeps ==
  ASSUME NEW i, Installers = {i}, TypeOK, OneInv(i), Swap(i) \/ Replace(i) \/ Finally(i)
  PROVE  OneInv(i)'
<1>1. CASE Swap(i)
  <2>1. /\ pc[i] = "swap" /\ UNCHANGED <<trees, tarball, stops>>
        /\ \/ pc'[i] = "swap_clear" /\ dir'[i] = "live"
           \/ pc'[i] = "replace" /\ dir'[i] = dir[i]
    BY <1>1 DEF Swap, StartRemoval, Goto, Removal, TypeOK
  <2>2. dir[i] = "gone"
    BY <2>1 DEF OneInv, Removing, Removal
  <2>3. Adopted' /\ SwapIsAtomic'
    BY <2>1, SameTrees
  <2>4. Removing(i)' /\ Staged(i)'
    BY <2>1, <2>2 DEF OneInv, Removing, Removal, Staged, Complete
  <2>5. Clearing(i)'
    BY <2>1 DEF OneInv, Clearing, IsInstalled, Working, TrySteps
  <2>6. Tidy(i)'
    BY <2>1 DEF Tidy, MigrationSteps, TrySteps
  <2>. QED
    BY <2>3, <2>4, <2>5, <2>6 DEF OneInv
<1>2. CASE Replace(i)
  <2>1. pc[i] = "replace" /\ pc'[i] = "finally"
    BY <1>2 DEF Replace, Fails, Goto, TypeOK
  <2>2. dir[i] = "gone"
    BY <2>1 DEF OneInv, Removing, Removal
  <2>3. dir'[i] = "gone" /\ legacy' = legacy /\ (live' = live \/ live' = staging)
    BY <1>2, <2>2 DEF Replace, Move, TypeOK, Places
  <2>4. Adopted' /\ SwapIsAtomic'
    BY <2>1, <2>3 DEF OneInv, Adopted, SwapIsAtomic, Staged, IsInstalled, Complete
  <2>5. Removing(i)' /\ Clearing(i)' /\ Staged(i)' /\ Tidy(i)'
    BY <2>1, <2>3 DEF Removing, Removal, Clearing, Working, Staged, Tidy, MigrationSteps, TrySteps
  <2>. QED
    BY <2>4, <2>5 DEF OneInv
<1>3. CASE Finally(i)
  <2>1. /\ pc'[i] = "cleanup" /\ dir'[i] = "staging" /\ left'[i] = staging.parts
        /\ tarball' = "absent" /\ UNCHANGED trees
    BY <1>3 DEF Finally, StartRemoval, Goto, Unlink, Removal, TypeOK
  <2>2. Adopted' /\ SwapIsAtomic'
    BY <2>1, SameTrees
  <2>3. Removing(i)' /\ Clearing(i)' /\ Staged(i)' /\ Tidy(i)'
    BY <2>1 DEF Removing, Removal, Clearing, Working, Staged, Tidy, MigrationSteps, TrySteps
  <2>. QED
    BY <2>2, <2>3 DEF OneInv
<1>. QED
  BY <1>1, <1>2, <1>3

\* A Ctrl+C or a kill leaves the trees as they are.
LEMMA StopKeeps ==
  ASSUME NEW i, Installers = {i}, TypeOK, OneInv(i), Interrupt(i) \/ Crash
  PROVE  OneInv(i)'
<1>1. /\ pc'[i] \in {"idle", "finally"} /\ dir'[i] = "gone"
      /\ stops' = stops + 1 /\ UNCHANGED trees
  BY DEF Interrupt, Crash, Fails, Ends, Goto, TypeOK
<1>2. stops' # 0
  BY <1>1 DEF TypeOK
<1>3. Adopted' /\ SwapIsAtomic'
  BY <1>1, SameTrees
<1>4. Removing(i)' /\ Clearing(i)' /\ Staged(i)' /\ Tidy(i)'
  BY <1>1, <1>2 DEF Removing, Removal, Clearing, Working, TrySteps, Staged, Tidy
<1>. QED
  BY <1>3, <1>4 DEF OneInv

\* Every step keeps the invariant of one installer.
LEMMA OneStep ==
  ASSUME NEW i, Installers = {i}, TypeOK, OneInv(i), [Next]_vars
  PROVE  OneInv(i)'
<1>1. CASE UNCHANGED vars
  <2>1. Adopted' /\ SwapIsAtomic'
    BY <1>1, SameTrees
  <2>2. Removing(i)' /\ Clearing(i)' /\ Staged(i)' /\ Tidy(i)'
    BY <1>1 DEF OneInv, Removing, Clearing, IsInstalled, Staged, Complete, Tidy
  <2>. QED
    BY <2>1, <2>2 DEF OneInv
<1>2. CASE Setup(i) \/ Startup(i) \/ Step(i) \/ Interrupt(i) \/ Crash
  BY <1>2, RemovePartKeeps, RemoveEndKeeps, MigrationKeeps, DownloadKeeps, MkdirKeeps,
     ExtractKeeps, SwapKeeps, StopKeeps DEF Step
<1>. QED
  BY <1>1, <1>2 DEF Next

\* One installer: the invariant holds in every reachable state.
LEMMA OneInvariance ==
  ASSUME NEW i, Installers = {i}
  PROVE  Spec => [](TypeOK /\ OneInv(i))
<1>1. Init => TypeOK /\ OneInv(i)
  BY TypeInit, OneInit
<1>2. TypeOK /\ OneInv(i) /\ [Next]_vars => (TypeOK /\ OneInv(i))'
  BY TypeStep, OneStep
<1>. QED
  BY <1>1, <1>2, PTL DEF Spec

\* One installer never leaves a rootfs for this device that passes for
\* installed and is not complete, whatever fails, however often it is
\* interrupted or killed, and whatever an older build has left.
THEOREM NeverHalfInstalled ==
  ASSUME NEW i, Installers = {i}
  PROVE  Spec => []SwapIsAtomic
<1>1. OneInv(i) => SwapIsAtomic
  BY DEF OneInv
<1>. QED
  BY <1>1, OneInvariance, PTL

\* One installer that nobody stops leaves nothing in the cache or in the
\* staging directory, however often it failed.
THEOREM NothingIsLeft ==
  ASSUME NEW i, Installers = {i}
  PROVE  Spec => []CleanAtRest
<1>1. OneInv(i) => CleanAtRest
  <2>. SUFFICES ASSUME OneInv(i), Idle, stops = 0 PROVE tarball = "absent" /\ ~ staging.present
    BY DEF CleanAtRest
  <2>1. pc[i] = "idle"
    BY DEF Idle
  <2>. QED
    BY <2>1 DEF OneInv, Tidy, MigrationSteps, TrySteps
<1>. QED
  BY <1>1, OneInvariance, PTL
=============================================================================
