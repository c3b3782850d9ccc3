-------------------------------- MODULE Zpip --------------------------------
(***************************************************************************)
(* zmux/zpip.py: zpip install and uninstall as transactions over two       *)
(* stores, the package database packages.json and the tree of package      *)
(* files.                                                                  *)
(*                                                                         *)
(* install calls itself for every missing dependency and uninstall for     *)
(* every dependency it takes back, so a user (a session's worker thread    *)
(* or a REST request) is a stack of calls.  Nothing is locked.  Any step   *)
(* may fail with an ordinary exception, which install catches and rolls    *)
(* back; Ctrl+C raises KeyboardInterrupt, which only the finally clauses   *)
(* see; and the app may be killed between any two steps.                   *)
(*                                                                         *)
(* A wheel is a package and a version with the files it holds and what it  *)
(* requires.  Each file of the tree holds nothing or what some wheel put   *)
(* there.  Staging, backup and download have names of their own for each   *)
(* transaction and matter only to the transaction that made them.          *)
(***************************************************************************)
EXTENDS Naturals, Sequences, FiniteSets

CONSTANTS
  Users,        \* threads that run zpip
  Packages,
  Versions,
  Files,        \* paths below USER_PACKAGES_DIR
  Wheels,       \* Wheels[<<p, v>>]: the files in the wheel
  Requires,     \* Requires[<<p, v>>]: its requirements
  Torn,         \* an unfinished or overwritten JSON file
  MaxCommands,  \* bound: zpip commands
  MaxFailures,  \* bound: exceptions from the network, the storage or an import
  MaxStops      \* bound: Ctrl+C and kills

Releases == Packages \X Versions
Requirement == [pkg : Packages, versions : SUBSET Versions]

ASSUME UsersAssumption == IsFiniteSet(Users)
ASSUME WheelsAssumption == Wheels \in [Releases -> SUBSET Files]
ASSUME RequiresAssumption == Requires \in [Releases -> SUBSET Requirement]
ASSUME BoundsAssumption == {MaxCommands, MaxFailures, MaxStops} \subseteq Nat

VARIABLES
  tree,      \* tree[f]: the release whose file is at f, or Nothing
  disk,      \* contents of the files that packages.json and packages.tmp name
  live,      \* the file at packages.json
  temp,      \* the file at packages.tmp, or NoFile
  calls,     \* calls[u]: the stack of calls of user u
  result,    \* how the last command of each user ended
  dropped,   \* packages the users have uninstalled by name
  commands,
  failures,
  stops

files == <<tree, disk, live, temp>>
vars  == <<files, calls, result, dropped, commands, failures, stops>>

Nothing == <<>>
NoRecord == [version |-> Nothing, files |-> {}, explicit |-> FALSE]
NoFile == 0
\* Every user may hold one file open; two more are named.
FileIds == 1 .. Cardinality(Users) + 2

Empty == [p \in Packages |-> NoRecord]
Has(db, p) == db[p] # NoRecord

\* _load_db(): what cannot be read or parsed counts as no package at all.
Load == IF disk[live] = Torn THEN Empty ELSE disk[live]

Satisfies(db, requirement) == db[requirement.pkg].version \in
                                {<<v>> : v \in requirement.versions}

Init ==
  /\ tree = [f \in Files |-> Nothing]
  /\ disk = [i \in FileIds |-> Empty]
  /\ live = 1 /\ temp = NoFile
  /\ calls = [u \in Users |-> <<>>]
  /\ result = [u \in Users |-> "none"]
  /\ dropped = {}
  /\ commands = 0 /\ failures = 0 /\ stops = 0

-----------------------------------------------------------------------------
(* The stack of calls.                                                     *)

Call(operation, p, label) ==
  [op |-> operation, pkg |-> p, pc |-> label, version |-> Nothing, db |-> Empty,
   need |-> {}, asked |-> {}, new |-> <<>>, old |-> {}, left |-> {}, done |-> {},
   backup |-> [f \in Files |-> Nothing], before |-> {}, fd |-> NoFile, outcome |-> "ok"]

InstallCall(p)   == Call("install", p, "resolve")
UninstallCall(p) == Call("uninstall", p, "look")

Running(u) == calls[u] # <<>>
Top(u)     == calls[u][Len(calls[u])]
Callers(u) == SubSeq(calls[u], 1, Len(calls[u]) - 1)
At(u, label) == Running(u) /\ Top(u).pc = label

Continue(u, call) == calls' = [calls EXCEPT ![u] = Append(Callers(u), call)]
Enter(u, waiting, callee) == calls' = [calls EXCEPT ![u] = Callers(u) \o <<waiting, callee>>]
Goto(u, label) == Continue(u, [Top(u) EXCEPT !.pc = label])

\* The packages a recursive install is in the middle of: _stack and package.
InProgress(u) == {calls[u][k].pkg : k \in DOMAIN calls[u]}

Release(call) == <<call.pkg, call.version[1]>>

Leaves(call, how, label) ==
  [call EXCEPT !.outcome = how, !.pc = label, !.left = {}, !.need = {}, !.asked = {}, !.fd = NoFile]

\* What is raised in install's try or its except clause passes the finally clause.
Escapes(call, how) ==
  Leaves(call, how, IF call.op = "install" /\ call.pc # "finally" THEN "finally" ELSE "done")

\* An exception that is not an interrupt: install catches it, uninstall does not.
Handling == {"rollback", "undo", "undoing", "finally"}
Raised(call) ==
  IF call.op = "uninstall" \/ call.pc \in Handling THEN Escapes(call, "raised")
  ELSE Leaves(call, "failed", "rollback")

\* No except clause catches a KeyboardInterrupt.
Interrupted(call) == Escapes(call, "interrupted")

-----------------------------------------------------------------------------
(* zpip install and zpip uninstall, as dispatch() starts them.             *)

Begin(u, call) ==
  /\ ~Running(u)
  /\ commands < MaxCommands
  /\ commands' = commands + 1
  /\ calls' = [calls EXCEPT ![u] = <<call>>]
  /\ result' = [result EXCEPT ![u] = "none"]
  /\ UNCHANGED <<files, dropped, failures, stops>>

Install(u, p)   == Begin(u, InstallCall(p))
Uninstall(u, p) == Begin(u, UninstallCall(p))

Quiet == UNCHANGED <<result, dropped, commands, failures, stops>>

\* The curated index ignores the version asked for and PyPI serves its newest
\* universal wheel, so the version is the network's choice.
Resolve(u) ==
  /\ At(u, "resolve")
  /\ \E v \in Versions :
       Continue(u, [Top(u) EXCEPT
         !.version = <<v>>, !.db = Load, !.pc = "deps",
         !.need = {r \in Requires[<<Top(u).pkg, v>>] : ~Satisfies(Load, r)}])
  /\ UNCHANGED files /\ Quiet

\* Installed in a version that does not fit, or already being installed.
DependencyRefused(u) ==
  /\ At(u, "deps")
  /\ \E r \in Top(u).need : Has(Top(u).db, r.pkg) \/ r.pkg \in InProgress(u)
  /\ Continue(u, Raised(Top(u)))
  /\ UNCHANGED files /\ Quiet

InstallDependency(u) ==
  /\ At(u, "deps")
  /\ \E r \in Top(u).need :
       /\ ~Has(Top(u).db, r.pkg)
       /\ r.pkg \notin InProgress(u)
       /\ Enter(u, [Top(u) EXCEPT !.need = @ \ {r}, !.asked = {r}, !.pc = "awaiting"],
                InstallCall(r.pkg))
  /\ UNCHANGED files /\ Quiet

\* _download, which checks size and SHA-256.
Download(u) ==
  /\ At(u, "deps") /\ Top(u).need = {}
  /\ Goto(u, "unpack")
  /\ UNCHANGED files /\ Quiet

\* _extract into staging, after _safe_members has accepted every name.
Unpack(u) ==
  /\ At(u, "unpack")
  /\ Goto(u, "smoke")
  /\ UNCHANGED files /\ Quiet

\* _smoke_test imports the staged module; an import that fails is a failure.
SmokeTest(u) ==
  /\ At(u, "smoke")
  /\ Goto(u, "owners")
  /\ UNCHANGED files /\ Quiet

Owners(db, p) == UNION {db[q].files : q \in Packages \ {p}}

BeginCommit(u, db) ==
  /\ At(u, "owners")
  /\ LET wheel == Wheels[Release(Top(u))] IN
       Continue(u, IF wheel \intersect Owners(db, Top(u).pkg) # {} THEN Raised(Top(u))
                   ELSE [Top(u) EXCEPT !.db = db, !.old = db[Top(u).pkg].files,
                                       !.left = wheel, !.before = {tree}, !.pc = "commit"])

\* Mutant: the database that was read before the dependencies were installed.
CheckOwnersStale(u) == BeginCommit(u, Top(u).db) /\ UNCHANGED files /\ Quiet

\* The database is read again: the dependencies have changed it.
CheckOwners(u) ==
  /\ BeginCommit(u, Load)
  /\ UNCHANGED files /\ Quiet

\* Mutant: the copy is made after the file was replaced.
CommitFileBackupLate(u) ==
  /\ At(u, "commit")
  /\ \E f \in Top(u).left :
       /\ tree' = [tree EXCEPT ![f] = Release(Top(u))]
       /\ Continue(u, [Top(u) EXCEPT !.left = @ \ {f}, !.done = @ \union {f},
                                     !.backup[f] = Release(Top(u))])
  /\ UNCHANGED <<disk, live, temp>> /\ Quiet

\* A file that is there is copied to the backup, then the staged one takes its place.
CommitFile(u) ==
  /\ At(u, "commit")
  /\ \E f \in Top(u).left :
       /\ tree' = [tree EXCEPT ![f] = Release(Top(u))]
       /\ Continue(u, [Top(u) EXCEPT !.left = @ \ {f}, !.done = @ \union {f},
                                     !.backup[f] = tree[f]])
  /\ UNCHANGED <<disk, live, temp>> /\ Quiet

\* Mutant: the files only the version before had are kept.
CommittedKeepsObsolete(u) ==
  /\ At(u, "commit") /\ Top(u).left = {}
  /\ Goto(u, "obsolete")
  /\ UNCHANGED files /\ Quiet

Committed(u) ==
  /\ At(u, "commit") /\ Top(u).left = {}
  /\ Continue(u, [Top(u) EXCEPT
       !.left = Top(u).old \ Wheels[Release(Top(u))], !.pc = "obsolete"])
  /\ UNCHANGED files /\ Quiet

RemoveObsolete(u) ==
  /\ At(u, "obsolete")
  /\ \E f \in Top(u).left :
       /\ tree' = [tree EXCEPT ![f] = Nothing]
       /\ Continue(u, [Top(u) EXCEPT !.left = @ \ {f}])
  /\ UNCHANGED <<disk, live, temp>> /\ Quiet

Recorded(u, db) ==
  /\ At(u, "obsolete") /\ Top(u).left = {}
  /\ LET p == Top(u).pkg
         record == [version |-> Top(u).version, files |-> Wheels[Release(Top(u))],
                    explicit |-> db[p].explicit \/ Len(calls[u]) = 1]
     IN Continue(u, [Top(u) EXCEPT !.db = [db EXCEPT ![p] = record], !.pc = "open"])

\* Mutant: the database is read once more, after the check of the owners.
WriteRecordReread(u) == Recorded(u, Load) /\ UNCHANGED files /\ Quiet

\* explicit: asked for by name, now or before.
WriteRecord(u) == Recorded(u, Top(u).db) /\ UNCHANGED files /\ Quiet

-----------------------------------------------------------------------------
(***************************************************************************)
(* _save_db(): packages.tmp is truncated or created, written and synced,   *)
(* and renamed to packages.json.  All users share the one name.            *)
(***************************************************************************)
SaveOpen(u) ==
  /\ At(u, "open")
  /\ LET held == {live} \union {Top(w).fd : w \in {x \in Users : Running(x)}}
         file == IF temp # NoFile THEN temp ELSE CHOOSE i \in FileIds \ held : TRUE
     IN  /\ temp' = file
         /\ disk' = [disk EXCEPT ![file] = Torn]
         /\ Continue(u, [Top(u) EXCEPT !.fd = file, !.pc = "write"])
  /\ UNCHANGED <<tree, live>> /\ Quiet

\* Over the text of another writer, the end of a longer text may remain.
SaveWrite(u) ==
  /\ At(u, "write")
  /\ \E text \in {Top(u).db} \union (IF disk[Top(u).fd] = Torn THEN {} ELSE {Torn}) :
       disk' = [disk EXCEPT ![Top(u).fd] = text]
  /\ Goto(u, "replace")
  /\ UNCHANGED <<tree, live, temp>> /\ Quiet

Saved(call) == Leaves(call, "ok", IF call.op = "install" THEN "finally" ELSE "done")

SaveReplace(u) ==
  /\ At(u, "replace") /\ temp # NoFile
  /\ live' = temp /\ temp' = NoFile
  /\ disk' = [disk EXCEPT ![live] = Empty]   \* nothing names the old file now
  /\ Continue(u, Saved(Top(u)))
  /\ dropped' = IF Top(u).op = "uninstall" /\ Len(calls[u]) = 1
                THEN dropped \union {Top(u).pkg} ELSE dropped
  /\ UNCHANGED <<tree, result, commands, failures, stops>>

\* Another user has renamed the file away: FileNotFoundError.
SaveReplaceGone(u) ==
  /\ At(u, "replace") /\ temp = NoFile
  /\ Continue(u, Raised(Top(u)))
  /\ UNCHANGED files /\ Quiet

-----------------------------------------------------------------------------
(* The except clause of install, uninstall, and the end of a call.         *)

RestoreFile(u) ==
  /\ At(u, "rollback")
  /\ \E f \in Top(u).done :
       /\ tree' = [tree EXCEPT ![f] = Top(u).backup[f]]
       /\ Continue(u, [Top(u) EXCEPT !.done = @ \ {f}])
  /\ UNCHANGED <<disk, live, temp>> /\ Quiet

RestoreEnd(u) ==
  /\ At(u, "rollback") /\ Top(u).done = {}
  /\ Goto(u, "undo")
  /\ UNCHANGED files /\ Quiet

\* Mutant: the dependency stays on the list.
UndoDependencyAgain(u) ==
  /\ At(u, "undo") /\ Top(u).new # <<>>
  /\ Enter(u, [Top(u) EXCEPT !.pc = "undoing"], UninstallCall(Top(u).new[1]))
  /\ UNCHANGED files /\ Quiet

\* The last dependency first.
UndoDependency(u) ==
  /\ At(u, "undo") /\ Top(u).new # <<>>
  /\ LET new == Top(u).new
     IN Enter(u, [Top(u) EXCEPT !.new = SubSeq(new, 1, Len(new) - 1), !.pc = "undoing"],
              UninstallCall(new[Len(new)]))
  /\ UNCHANGED files /\ Quiet

UndoEnd(u) ==
  /\ At(u, "undo") /\ Top(u).new = <<>>
  /\ Goto(u, "finally")
  /\ UNCHANGED files /\ Quiet

LookUp(u) ==
  /\ At(u, "look")
  /\ LET p == Top(u).pkg IN
       Continue(u, IF Has(Load, p)
                   THEN [Top(u) EXCEPT !.db = Load, !.old = Load[p].files,
                                         !.left = Load[p].files, !.pc = "unlink"]
                   ELSE [Top(u) EXCEPT !.outcome = "failed", !.pc = "done"])
  /\ UNCHANGED files /\ Quiet

UnlinkFile(u) ==
  /\ At(u, "unlink")
  /\ \E f \in Top(u).left :
       /\ tree' = [tree EXCEPT ![f] = Nothing]
       /\ Continue(u, [Top(u) EXCEPT !.left = @ \ {f}])
  /\ UNCHANGED <<disk, live, temp>> /\ Quiet

DropRecord(u) ==
  /\ At(u, "unlink") /\ Top(u).left = {}
  /\ Continue(u, [Top(u) EXCEPT !.db[Top(u).pkg] = NoRecord, !.pc = "open"])
  /\ UNCHANGED files /\ Quiet

\* finally: wheel, staging and backup are removed.
Finally(u) ==
  /\ At(u, "finally")
  /\ Continue(u, [Top(u) EXCEPT !.pc = "done", !.before = {},
                                !.backup = [f \in Files |-> Nothing]])
  /\ UNCHANGED files /\ Quiet

\* What a caller does with the outcome of the call it waits for.
Resumed(caller, callee) ==
  IF callee.outcome = "interrupted" THEN Interrupted(caller)
  ELSE IF caller.pc = "undoing"
  THEN IF callee.outcome = "raised" THEN Raised(caller) ELSE [caller EXCEPT !.pc = "undo"]
  ELSE IF callee.outcome # "ok" THEN Raised(caller)
  ELSE LET told == [caller EXCEPT !.new = Append(@, callee.pkg), !.asked = {}]
       IN IF \A r \in caller.asked : Satisfies(Load, r) THEN [told EXCEPT !.pc = "deps"]
          ELSE Raised(told)

Return(u) ==
  /\ At(u, "done")
  /\ IF Len(calls[u]) = 1
     THEN /\ calls' = [calls EXCEPT ![u] = <<>>]
          /\ result' = [result EXCEPT ![u] = Top(u).outcome]
     ELSE /\ LET n == Len(calls[u]) - 1
             IN calls' = [calls EXCEPT ![u] = [Callers(u) EXCEPT ![n] = Resumed(@, Top(u))]]
          /\ UNCHANGED result
  /\ UNCHANGED <<files, dropped, commands, failures, stops>>

\* zpip verify, as far as the files go.
Verified(p) == Has(Load, p) /\ \A f \in Load[p].files : tree[f] # Nothing

-----------------------------------------------------------------------------
(* Failures, Ctrl+C and kills.                                             *)

Fail(u) ==
  /\ Running(u)
  /\ Top(u).pc \in {"resolve", "deps", "unpack", "smoke", "owners", "commit", "obsolete", "open",
                   "write", "replace", "rollback", "look", "unlink"}
  /\ failures < MaxFailures
  /\ failures' = failures + 1
  /\ Continue(u, Raised(Top(u)))
  /\ UNCHANGED <<files, result, dropped, commands, stops>>

CanStop == stops < MaxStops /\ stops' = stops + 1

CtrlC(u) ==
  /\ Running(u)
  /\ Top(u).pc # "done"
  /\ CanStop
  /\ Continue(u, Interrupted(Top(u)))
  /\ UNCHANGED <<files, result, dropped, commands, failures>>

Kill ==
  /\ CanStop
  /\ \E u \in Users : Running(u)
  /\ calls' = [u \in Users |-> <<>>]
  /\ result' = [u \in Users |-> IF Running(u) THEN "killed" ELSE result[u]]
  /\ UNCHANGED <<files, dropped, commands, failures>>

InstallStep(u) ==
  \/ Resolve(u) \/ DependencyRefused(u) \/ InstallDependency(u) \/ Download(u) \/ Unpack(u)
  \/ SmokeTest(u) \/ CheckOwners(u) \/ CommitFile(u) \/ Committed(u) \/ RemoveObsolete(u)
  \/ WriteRecord(u) \/ RestoreFile(u) \/ RestoreEnd(u) \/ UndoDependency(u) \/ UndoEnd(u)
  \/ Finally(u)

Step(u) ==
  \/ InstallStep(u)
  \/ LookUp(u) \/ UnlinkFile(u) \/ DropRecord(u)
  \/ SaveOpen(u) \/ SaveWrite(u) \/ SaveReplace(u) \/ SaveReplaceGone(u)
  \/ Return(u)

\* The bound on commands is used up.
Rest == commands = MaxCommands /\ (\A u \in Users : ~Running(u)) /\ UNCHANGED vars

Next ==
  \/ \E u \in Users, p \in Packages : Install(u, p) \/ Uninstall(u, p)
  \/ \E u \in Users : Step(u) \/ Fail(u) \/ CtrlC(u)
  \/ Kill
  \/ Rest

Spec == Init /\ [][Next]_vars

\* A thread that can run is scheduled; network and imports have timeouts.
FairSpec == Spec /\ \A u \in Users : WF_vars(Step(u))

-----------------------------------------------------------------------------
Content == {Nothing} \union {<<r[1], r[2]>> : r \in Releases}
Database == [Packages -> [version : {Nothing} \union {<<v>> : v \in Versions},
                          files : SUBSET Files, explicit : BOOLEAN]]
ASSUME TornAssumption == Torn \notin Database
Labels == {"resolve", "deps", "awaiting", "unpack", "smoke", "owners", "commit", "obsolete",
           "open", "write", "replace", "rollback", "undo", "undoing", "look", "unlink",
           "finally", "done"}

(* Types.  In particular a call that waits is never on top of its stack.   *)
TypeOK ==
  /\ tree \in [Files -> Content]
  /\ disk \in [FileIds -> Database \union {Torn}]
  /\ live \in FileIds /\ temp \in FileIds \union {NoFile} /\ live # temp
  /\ result \in [Users -> {"none", "ok", "failed", "raised", "interrupted", "killed"}]
  /\ \A u \in Users : \A k \in DOMAIN calls[u] :
       LET call == calls[u][k] IN
         /\ call.op \in {"install", "uninstall"} /\ call.pkg \in Packages
         /\ call.pc \in Labels
         /\ (call.pc \in {"awaiting", "undoing"}) = (k < Len(calls[u]))
         /\ call.outcome \in {"ok", "failed", "raised", "interrupted"}
         /\ call.fd \in FileIds \union {NoFile}

(* No file belongs to two packages of the database, whoever else installs  *)
(* or saves at the same time, whatever fails or is killed: the check of    *)
(* the owners sees every record that the save will write back.             *)
OwnersDisjoint ==
  \A p, q \in Packages : p # q => Load[p].files \intersect Load[q].files = {}

OnlyOwnRecord ==
  \A p \in Packages : Load'[p] # Load[p] =>
    /\ \E u \in Users : At(u, "replace") /\ Top(u).pkg = p
    /\ Load'[p] = NoRecord \/ Load'[p].explicit \/ ~Load[p].explicit

(* With one user: a package's record only changes at the end of a          *)
(* transaction of that package, and never loses that the user asked for it *)
(* unless it goes.  Recursion into dependencies, rollbacks and crashes do  *)
(* not bring back an older database.                                       *)
RecordsStand == [][OnlyOwnRecord]_vars

(* With one user: an install that fails with an exception and says that it *)
(* was rolled back has put back every file that its wheel had replaced, and*)
(* taken away those it had added.                                          *)
FailureRestores ==
  \A u \in Users :
    At(u, "finally") /\ Top(u).outcome = "failed" =>
      \A before \in Top(u).before :
        \A f \in Wheels[Release(Top(u))] : tree[f] = before[f]

(* With one user: when install reports success the record is written, each *)
(* file of the wheel is in place and no file of the version before is      *)
(* left; when uninstall does, no file of the package is left.  This holds  *)
(* on whatever an earlier kill or interrupt left behind.                   *)
OkMeansDone ==
  \A u \in Users : Running(u) /\ Top(u).pc \in {"finally", "done"} /\ Top(u).outcome = "ok" =>
    LET call == Top(u) IN
      IF call.op = "install"
      THEN /\ Load[call.pkg].version = call.version
           /\ Load[call.pkg].files = Wheels[Release(call)]
           /\ Verified(call.pkg)
           /\ \A f \in Wheels[Release(call)] : tree[f] = Release(call)
           /\ \A f \in call.old \ Wheels[Release(call)] : tree[f] = Nothing
      ELSE /\ ~Has(Load, call.pkg)
           /\ \A f \in call.old : tree[f] = Nothing

(* With one user: every requirement of an installed package is installed,  *)
(* unless a user uninstalled it by name.  A rollback takes dependencies    *)
(* back in the reverse order, so a kill in its middle strands nobody.      *)
DepsPresent ==
  \A p \in Packages : Has(Load, p) =>
    \A r \in Requires[<<p, Load[p].version[1]>>] : Has(Load, r.pkg) \/ r.pkg \in dropped

(* Every zpip command ends, also on dependency cycles and when rolling     *)
(* back.                                                                   *)
CommandsEnd == \A u \in Users : Running(u) ~> ~Running(u)
=============================================================================
