---------------------------- MODULE RootfsInstall ----------------------------
(***************************************************************************)
(* zmux/linuxenv.py: linux-setup, the installation of the Alpine rootfs,   *)
(* and the adoption of a rootfs that an older build left elsewhere.        *)
(*                                                                         *)
(* Everything happens in the file system: the rootfs at its live path, the *)
(* staging directory, the legacy rootfs, the downloaded tarball, and the   *)
(* user's two home directories.  Trees are written and removed entry by    *)
(* entry, and between any two steps the app may be killed or linux-setup   *)
(* get a Ctrl+C.  Any number of sessions can run linux-setup at once; they *)
(* share the staging directory and the tarball.                            *)
(*                                                                         *)
(* A tree is the set of those parts of it that the code looks at: "shell"  *)
(* (/bin/sh), "release" (/etc/alpine-release), "arch" (/etc/apk/arch),     *)
(* "marker" (written last by _bootstrap), and "files", all the rest.       *)
(***************************************************************************)
EXTENDS Naturals

CONSTANTS
  Installers,   \* threads that run linux-setup or the migration at startup
  Nobody,       \* no installer
  Names,        \* names of files in a home directory
  MaxFailures,  \* bound: failures of the network or the storage
  MaxStops      \* bound: app kills and Ctrl+C

ASSUME InstallersAssumption == Nobody \notin Installers
ASSUME BoundsAssumption == MaxFailures \in Nat /\ MaxStops \in Nat

VARIABLES
  trees,      \* the trees at the live path, in staging and at the legacy path
  tarball,    \* the cached download: "absent", "partial" or "whole"
  writer,     \* the last installer that opened it for writing
  home,       \* home[n]: whose file of that name is in HOME_DIR
  oldHome,    \* names in the legacy home
  pc,         \* where each installer is
  left,       \* entries its present loop has still to remove or extract
  dir,        \* where the directory is that its rmtree holds open
  result,     \* how its last linux-setup ended
  task,       \* "setup" or "startup"
  failures,
  stops

files == <<trees, tarball, writer, home, oldHome>>
vars  == <<files, pc, left, dir, result, task, failures, stops>>

Payload == {"shell", "release", "arch", "files"}
Parts   == Payload \union {"marker"}
Places  == {"live", "staging", "legacy"}
Tree    == [present : BOOLEAN, parts : SUBSET Parts, arch : {"wanted", "other"}]

Absent == [present |-> FALSE, parts |-> {}, arch |-> "wanted"]
Full(a, ps) == [present |-> TRUE, parts |-> ps, arch |-> a]

live    == trees["live"]
staging == trees["staging"]
legacy  == trees["legacy"]

\* installed_os() = "alpine"
IsInstalled == "shell" \in live.parts /\ live.parts \intersect {"marker", "release"} # {}

Complete(tree) == Payload \subseteq tree.parts

\* What older builds and aborted installations leave behind.
Init ==
  /\ trees \in [Places -> {Absent, Full("wanted", {"files"}), Full("wanted", Parts),
                           Full("other", Payload)}]
  /\ staging = Absent
  /\ tarball = "absent" /\ writer = Nobody
  /\ home \in [Names -> {"none", "user"}]
  /\ oldHome = IF legacy.present THEN Names ELSE {}
  /\ pc = [i \in Installers |-> "idle"]
  /\ left = [i \in Installers |-> {}]
  /\ dir = [i \in Installers |-> "gone"]
  /\ result = [i \in Installers |-> "none"]
  /\ task = [i \in Installers |-> "setup"]
  /\ failures = 0 /\ stops = 0

Goto(i, from, to) == pc[i] = from /\ pc' = [pc EXCEPT ![i] = to]

\* linux-setup returns or raises.
Ends(i, from, how) ==
  /\ Goto(i, from, "idle")
  /\ result' = [result EXCEPT ![i] = how]

Begin(i, job) ==
  /\ Goto(i, "idle", "migrate")
  /\ task' = [task EXCEPT ![i] = job]
  /\ result' = [result EXCEPT ![i] = "none"]
  /\ UNCHANGED <<files, left, dir, failures, stops>>

Setup(i) == Begin(i, "setup")

\* preparePythonRuntime; a new activity in the same process migrates again.
Startup(i) == Begin(i, "startup")

-----------------------------------------------------------------------------
(***************************************************************************)
(* shutil.rmtree(..., ignore_errors=True), wherever it is called.  It      *)
(* opens the directory, lists it, and removes the entries one by one in    *)
(* whatever order they were listed, through the descriptor: when another   *)
(* installer renames the directory meanwhile, they go from its new place.  *)
(* Then the directory at the path goes, unless it is not empty.            *)
(***************************************************************************)
Removal == [migrate_clear |-> "live", purge |-> "live", unstage |-> "staging",
            swap_clear |-> "live", cleanup |-> "staging"]

AfterRemoval == [migrate_clear |-> "migrate_move", purge |-> "download", unstage |-> "mkdir",
                 swap_clear |-> "replace", cleanup |-> "idle"]

StartRemoval(i, from, loop) ==
  /\ Goto(i, from, loop)
  /\ left' = [left EXCEPT ![i] = trees[Removal[loop]].parts]
  /\ dir' = [dir EXCEPT ![i] = Removal[loop]]

RemovePart(i) ==
  /\ pc[i] \in DOMAIN Removal
  /\ \E p \in left[i] :
       /\ trees' = [place \in Places |->
            IF place = dir[i] THEN [trees[place] EXCEPT !.parts = @ \ {p}] ELSE trees[place]]
       /\ left' = [left EXCEPT ![i] = @ \ {p}]
  /\ UNCHANGED <<tarball, writer, home, oldHome, pc, dir, result, task, failures, stops>>

RemoveEnd(i) ==
  /\ pc[i] \in DOMAIN Removal
  /\ left[i] = {}
  /\ Goto(i, pc[i], AfterRemoval[pc[i]])
  /\ LET place == Removal[pc[i]]
         empty == trees[place].parts = {}
     IN  /\ trees' = IF empty THEN [trees EXCEPT ![place] = Absent] ELSE trees
         /\ dir' = [j \in Installers |->
              IF j = i \/ (empty /\ dir[j] = place) THEN "gone" ELSE dir[j]]
  /\ UNCHANGED <<tarball, writer, home, oldHome, left, result, task, failures, stops>>

-----------------------------------------------------------------------------
(***************************************************************************)
(* migrate_legacy_install                                                  *)
(***************************************************************************)
AfterMigrate(i) == IF task[i] = "startup" THEN "idle" ELSE "check"

Adoptable == "shell" \in legacy.parts /\ ~ IsInstalled

MigrateSkip(i) ==
  /\ ~ Adoptable
  /\ Goto(i, "migrate", AfterMigrate(i))
  /\ UNCHANGED <<files, left, dir, result, task, failures, stops>>

MigrateAdopt(i) ==
  /\ Adoptable
  /\ IF live.present THEN StartRemoval(i, "migrate", "migrate_clear")
                     ELSE Goto(i, "migrate", "migrate_move") /\ UNCHANGED <<left, dir>>
  /\ UNCHANGED <<files, result, task, failures, stops>>

\* os.replace of a directory: the target must be absent or empty.
Move(from, to) ==
  /\ trees' = [trees EXCEPT ![to] = trees[from], ![from] = Absent]
  /\ dir' = [i \in Installers |->
       CASE dir[i] = from -> to [] dir[i] = to -> "gone" [] OTHER -> dir[i]]
Movable(from, to) == trees[from].present /\ trees[to].parts = {}

MigrateMove(i) ==
  /\ IF Movable("legacy", "live")
     THEN Goto(i, "migrate_move", "merge") /\ Move("legacy", "live")
     ELSE Goto(i, "migrate_move", AfterMigrate(i)) /\ UNCHANGED <<trees, dir>>
  /\ UNCHANGED <<tarball, writer, home, oldHome, left, result, task, failures, stops>>

\* Mutant: a file that is there already is overwritten.
MergeEntryOver(i) ==
  /\ pc[i] = "merge"
  /\ \E n \in oldHome :
       /\ home' = [home EXCEPT ![n] = "old"]
       /\ oldHome' = oldHome \ {n}
  /\ UNCHANGED <<trees, tarball, writer, pc, left, dir, result, task, failures, stops>>

\* _merge_tree(legacy home, HOME_DIR)
MergeEntry(i) ==
  /\ pc[i] = "merge"
  /\ \E n \in oldHome :
       /\ home[n] = "none"
       /\ home' = [home EXCEPT ![n] = "old"]
       /\ oldHome' = oldHome \ {n}
  /\ UNCHANGED <<trees, tarball, writer, pc, left, dir, result, task, failures, stops>>

Merged == \A n \in oldHome : home[n] # "none"

MergeEnd(i) ==
  /\ Merged
  /\ Goto(i, "merge", AfterMigrate(i))
  /\ UNCHANGED <<files, left, dir, result, task, failures, stops>>

-----------------------------------------------------------------------------
(***************************************************************************)
(* install: is there a rootfs already, and is it for this device?          *)
(***************************************************************************)

\* installed_arch() differs from alpine_arch(): no arch file, no difference.
WrongArch == "arch" \in live.parts /\ live.arch # "wanted"

CheckAlready(i) ==
  /\ IsInstalled /\ ~ WrongArch
  /\ Ends(i, "check", "ok")
  /\ UNCHANGED <<files, left, dir, task, failures, stops>>

CheckPurge(i) ==
  /\ IsInstalled /\ WrongArch
  /\ StartRemoval(i, "check", "purge")
  /\ UNCHANGED <<files, result, task, failures, stops>>

CheckAbsent(i) ==
  /\ ~ IsInstalled
  /\ Goto(i, "check", "download")
  /\ UNCHANGED <<files, left, dir, result, task, failures, stops>>

-----------------------------------------------------------------------------
(***************************************************************************)
(* install: download and verification of the tarball.                      *)
(***************************************************************************)
DownloadOpen(i) ==
  /\ Goto(i, "download", "receive")
  /\ tarball' = "partial" /\ writer' = i
  /\ UNCHANGED <<trees, home, oldHome, left, dir, result, task, failures, stops>>

Unlink == tarball' = "absent" /\ writer' = Nobody

\* No connection, a broken one, too many bytes, or a wrong checksum.
DownloadFail(i) ==
  /\ pc[i] \in {"download", "receive", "verify"}
  /\ failures < MaxFailures
  /\ failures' = failures + 1
  /\ Ends(i, pc[i], "failed")
  /\ Unlink
  /\ UNCHANGED <<trees, home, oldHome, left, dir, task, stops>>

Receive(i) ==
  /\ Goto(i, "receive", "verify")
  /\ tarball' = IF writer = i THEN "whole" ELSE tarball
  /\ UNCHANGED <<trees, writer, home, oldHome, left, dir, result, task, failures, stops>>

\* Mutant: a leftover staging directory is not removed.
VerifyKeepStaging(i) ==
  /\ Goto(i, "verify", "mkdir")
  /\ UNCHANGED <<files, left, dir, result, task, failures, stops>>

\* The digest of what was received is right; a leftover staging goes first.
Verify(i) ==
  /\ IF staging.present THEN StartRemoval(i, "verify", "unstage")
                        ELSE Goto(i, "verify", "mkdir") /\ UNCHANGED <<left, dir>>
  /\ UNCHANGED <<files, result, task, failures, stops>>

\* staging.mkdir(): outside the try, an existing directory is an error.
Mkdir(i) ==
  /\ IF staging.present
     THEN Ends(i, "mkdir", "failed") /\ UNCHANGED trees
     ELSE /\ Goto(i, "mkdir", "open")
          /\ trees' = [trees EXCEPT !["staging"] = Full("wanted", {})]
          /\ UNCHANGED result
  /\ UNCHANGED <<tarball, writer, home, oldHome, left, dir, task, failures, stops>>

-----------------------------------------------------------------------------
(***************************************************************************)
(* install: the try block, from extraction to the swap, and its finally.   *)
(***************************************************************************)
Fails(i, from) ==
  /\ Goto(i, from, "finally")
  /\ result' = [result EXCEPT ![i] = "failed"]

\* _safe_extract reads the whole archive before it writes anything.
ExtractOpen(i) ==
  /\ IF tarball = "whole"
     THEN /\ Goto(i, "open", "extract")
          /\ left' = [left EXCEPT ![i] = Payload]
          /\ UNCHANGED result
     ELSE Fails(i, "open") /\ UNCHANGED left
  /\ UNCHANGED <<files, dir, task, failures, stops>>

ExtractPart(i) ==
  /\ pc[i] = "extract"
  /\ \E p \in left[i] :
       /\ trees' = [trees EXCEPT !["staging"] = Full("wanted", @.parts \union {p})]
       /\ left' = [left EXCEPT ![i] = @ \ {p}]
  /\ UNCHANGED <<tarball, writer, home, oldHome, pc, dir, result, task, failures, stops>>

ExtractEnd(i) ==
  /\ left[i] = {}
  /\ Goto(i, "extract", "bootstrap")
  /\ UNCHANGED <<files, left, dir, result, task, failures, stops>>

Bootstrap(i) ==
  /\ IF "shell" \in staging.parts
     THEN /\ Goto(i, "bootstrap", "swap")
          /\ trees' = [trees EXCEPT !["staging"].parts = @ \union {"release", "marker"}]
          /\ UNCHANGED result
     ELSE Fails(i, "bootstrap") /\ UNCHANGED trees
  /\ UNCHANGED <<tarball, writer, home, oldHome, left, dir, task, failures, stops>>

Swap(i) ==
  /\ IF live.present THEN StartRemoval(i, "swap", "swap_clear")
                     ELSE Goto(i, "swap", "replace") /\ UNCHANGED <<left, dir>>
  /\ UNCHANGED <<files, result, task, failures, stops>>

Replace(i) ==
  /\ IF Movable("staging", "live")
     THEN /\ Goto(i, "replace", "finally")
          /\ Move("staging", "live")
          /\ result' = [result EXCEPT ![i] = "ok"]
     ELSE Fails(i, "replace") /\ UNCHANGED <<trees, dir>>
  /\ UNCHANGED <<tarball, writer, home, oldHome, left, task, failures, stops>>

\* Mutant: the error is swallowed and the installation goes on.
TryFailOn(i) ==
  /\ failures < MaxFailures
  /\ failures' = failures + 1
  /\ pc[i] \in {"extract", "bootstrap"}
  /\ Goto(i, pc[i], "bootstrap")
  /\ UNCHANGED <<files, left, dir, result, task, stops>>

\* The storage is full while files are extracted or configured.
TryFail(i) ==
  /\ failures < MaxFailures
  /\ failures' = failures + 1
  /\ pc[i] \in {"extract", "bootstrap"}
  /\ Fails(i, pc[i])
  /\ UNCHANGED <<files, left, dir, task, stops>>

\* Mutant: only a failed installation deletes the tarball.
FinallyIfFailed(i) ==
  /\ StartRemoval(i, "finally", "cleanup")
  /\ IF result[i] = "failed" THEN Unlink ELSE UNCHANGED <<tarball, writer>>
  /\ UNCHANGED <<trees, home, oldHome, result, task, failures, stops>>

Finally(i) ==
  /\ StartRemoval(i, "finally", "cleanup")
  /\ Unlink
  /\ UNCHANGED <<trees, home, oldHome, result, task, failures, stops>>

-----------------------------------------------------------------------------
TrySteps == {"open", "extract", "bootstrap", "swap", "swap_clear", "replace"}

\* Ctrl+C raises KeyboardInterrupt, which no "except Exception" catches; only
\* the finally block of the installation still runs.
Interrupt(i) ==
  /\ pc[i] # "idle" /\ task[i] = "setup"
  /\ stops < MaxStops
  /\ stops' = stops + 1
  /\ IF pc[i] \in TrySteps THEN Fails(i, pc[i]) ELSE Ends(i, pc[i], "failed")
  /\ left' = [left EXCEPT ![i] = {}]
  /\ dir' = [dir EXCEPT ![i] = "gone"]
  /\ UNCHANGED <<files, task, failures>>

\* Android kills the app: the files stay as they are.
Crash ==
  /\ stops < MaxStops
  /\ stops' = stops + 1
  /\ pc' = [i \in Installers |-> "idle"]
  /\ left' = [i \in Installers |-> {}]
  /\ dir' = [i \in Installers |-> "gone"]
  /\ result' = [i \in Installers |-> "none"]
  /\ writer' = Nobody
  /\ UNCHANGED <<trees, tarball, home, oldHome, task, failures>>

Step(i) ==
  \/ RemovePart(i) \/ RemoveEnd(i)
  \/ MigrateSkip(i) \/ MigrateAdopt(i) \/ MigrateMove(i) \/ MergeEntry(i) \/ MergeEnd(i)
  \/ CheckAlready(i) \/ CheckPurge(i) \/ CheckAbsent(i)
  \/ DownloadOpen(i) \/ DownloadFail(i) \/ Receive(i) \/ Verify(i) \/ Mkdir(i)
  \/ ExtractOpen(i) \/ ExtractPart(i) \/ ExtractEnd(i) \/ Bootstrap(i) \/ TryFail(i)
  \/ Swap(i) \/ Replace(i) \/ Finally(i)

Next ==
  \/ \E i \in Installers : Setup(i) \/ Startup(i) \/ Step(i) \/ Interrupt(i)
  \/ Crash

Spec == Init /\ [][Next]_vars

\* The threads run, and the user runs linux-setup again as he is told to,
\* however often the activity is created anew.
FairSpec == Spec /\ \A i \in Installers : WF_vars(Step(i)) /\ SF_vars(Setup(i))

-----------------------------------------------------------------------------
Loops == DOMAIN Removal \union {"extract"}
Steps == Loops \union TrySteps \union
         {"idle", "migrate", "migrate_move", "merge", "check", "download", "receive", "verify",
          "mkdir", "finally"}
MigrationSteps == {"idle", "migrate", "migrate_clear", "migrate_move", "merge"}

\* Every variable has its type, and the startup migrates but never installs.
TypeOK ==
  /\ trees \in [Places -> Tree]
  /\ tarball \in {"absent", "partial", "whole"}
  /\ writer \in Installers \union {Nobody}
  /\ home \in [Names -> {"none", "user", "old"}]
  /\ oldHome \in SUBSET Names
  /\ pc \in [Installers -> Steps]
  /\ \A i \in Installers : task[i] = "startup" => pc[i] \in MigrationSteps
  /\ left \in [Installers -> SUBSET Parts]
  /\ dir \in [Installers -> Places \union {"gone"}]
  /\ result \in [Installers -> {"none", "ok", "failed"}]
  /\ task \in [Installers -> {"setup", "startup"}]
  /\ failures \in Nat /\ stops \in Nat

Idle == \A i \in Installers : pc[i] = "idle"

\* "never leave a half-installed rootfs at the live path": whenever a rootfs
\* for this device passes for installed it is complete, whatever failures,
\* Ctrl+C and kills happened on the way.
SwapIsAtomic == IsInstalled /\ live.arch = "wanted" => Complete(live)

\* No installation and no migration loses a file of the user: each name that
\* was in a home directory still is in one, and files of the present home are
\* never replaced by old ones.
HomeSurvives ==
  /\ \A n \in Names : home[n] = "user" => home'[n] = "user"
  /\ \A n \in oldHome : n \in oldHome' \/ (home[n] = "none" /\ home'[n] = "old")
HomeIsKept == [][HomeSurvives]_vars

\* Without kills and Ctrl+C, failures included, nothing is left in the cache
\* or in the staging directory.
CleanAtRest == Idle /\ stops = 0 => tarball = "absent" /\ ~ staging.present

\* What is left of a rootfs for another device once its arch file is gone.
Disguised == IsInstalled /\ live.arch # "wanted" /\ ~ WrongArch

\* "reinstalls safely": run again and again, linux-setup ends with a rootfs for
\* this device, whatever was interrupted before - but for the remains above,
\* which pass for an installation.
RerunHeals == <>[](IsInstalled /\ live.arch = "wanted") \/ <>[]Disguised

\* "Install (or repair) the proot'd Alpine userland": when linux-setup reports
\* success the rootfs is complete.
OkMeansComplete == \A i \in Installers : pc[i] = "idle" /\ result[i] = "ok" => Complete(live)

\* "stale home files are merged in without overwriting": once the old rootfs
\* was adopted, the old files whose names are free are in the home.
HomeIsMerged == Idle /\ ~ legacy.present => Merged

=============================================================================
