----------------------------- MODULE Zpip_proofs -----------------------------
(***************************************************************************)
(* What holds of zpip for any packages, wheels and requirements.           *)
(*                                                                         *)
(* For any number of users: no file has two owners in the database.  Every *)
(* database that some call holds or that is on the disk has this property, *)
(* and from the check of the owners to the record the wheel is clear of    *)
(* the other packages in the database that the save will write.            *)
(*                                                                         *)
(* For one user, on top of that: what its topmost call knows of the        *)
(* database is still true (Fresh), what it did to the tree so far is done  *)
(* (Written), and until a rollback has put back all files it knows what was*)
(* in them; and what takes dependencies back touches none of them (Kept),  *)
(* since the last call is an uninstall of another package then (Undoing).  *)
(***************************************************************************)
EXTENDS Zpip, FiniteSetTheorems, SequenceTheorems, TLAPS

-----------------------------------------------------------------------------
(* Any number of users.                                                    *)

Disjoint(db) == \A p, q \in Packages : p # q => db[p].files \intersect db[q].files = {}

Databases == {db \in Database : Disjoint(db)}

Versioned == {Nothing} \union {<<v>> : v \in Versions}

Outcomes == {"ok", "failed", "raised", "interrupted"}

Calls == [op : {"install", "uninstall"}, pkg : Packages, pc : Labels, version : Versioned,
          db : Databases, need : SUBSET Requirement, asked : SUBSET Requirement,
          new : Seq(Packages), old : SUBSET Files, left : SUBSET Files, done : SUBSET Files,
          backup : [Files -> Content], before : SUBSET [Files -> Content],
          fd : FileIds \union {NoFile}, outcome : Outcomes]

Waiting    == {"awaiting", "undoing"}
Committing == {"commit", "obsolete"}
Saving     == {"open", "write", "replace"}
Preparing  == {"deps", "awaiting", "unpack", "smoke", "owners"}
Installing == {"resolve", "rollback", "undo", "undoing", "finally"}
                \union Preparing \union Committing
Removing   == {"look", "unlink"}

Clear(call, db) == Wheels[Release(call)] \intersect Owners(db, call.pkg) = {}

\* A call that is about to change the tree or the database may do so.
Sound(call) ==
  /\ call.pc \in Installing => call.op = "install"
  /\ call.pc \in Removing => call.op = "uninstall"
  /\ call.op = "install" /\ call.pc \in Preparing \union Committing \union Saving =>
       call.version # Nothing
  /\ call.pc \in Committing => Clear(call, call.db)

\* Where the handlers and the end of a call lead.
Exits(call) == IF call.op = "install" THEN {"rollback", "finally", "done"} ELSE {"done"}

GoodCalls == {call \in Calls : Sound(call)}

\* Only the last call of a stack does not wait for another.
Stacked == \A u \in Users : \A k \in DOMAIN calls[u] :
             (calls[u][k].pc \in Waiting) <=> (k < Len(calls[u]))

Stores ==
  /\ tree \in [Files -> Content]
  /\ disk \in [FileIds -> Databases \union {Torn}]
  /\ live \in FileIds /\ temp \in FileIds \union {NoFile} /\ live # temp

IInv == Stores /\ calls \in [Users -> Seq(GoodCalls)] /\ Stacked

-----------------------------------------------------------------------------
(***************************************************************************)
(* The stack of calls.                                                     *)
(***************************************************************************)
USE DEF files, vars

\* The last call is one of the stack, and the others are those before it.
LEMMA TopFacts ==
  ASSUME NEW S, calls \in [Users -> Seq(S)], NEW u \in Users, Running(u)
  PROVE  /\ Len(calls[u]) \in Nat \ {0} /\ Len(calls[u]) \in DOMAIN calls[u]
         /\ DOMAIN calls[u] = 1 .. Len(calls[u])
         /\ Top(u) = calls[u][Len(calls[u])]
         /\ Top(u) \in S
         /\ Callers(u) \in Seq(S) /\ Len(Callers(u)) = Len(calls[u]) - 1
         /\ \A k \in 1 .. Len(calls[u]) - 1 : Callers(u)[k] = calls[u][k]
<1>1. calls[u] \in Seq(S) /\ calls[u] # << >>
  BY DEF Running
<1>2. /\ Len(calls[u]) \in Nat \ {0} /\ DOMAIN calls[u] = 1 .. Len(calls[u])
      /\ \A k \in 1 .. Len(calls[u]) : calls[u][k] \in S
  BY <1>1, EmptySeq, LenProperties
<1>. DEFINE s == calls[u]
            n == Len(s)
<1>. HIDE DEF s
<1>3. /\ n \in Nat \ {0} /\ \A k \in 1 .. n : s[k] \in S
      /\ Callers(u) = SubSeq(s, 1, n - 1)
  BY <1>2 DEF s, Callers
<1>. HIDE DEF n
<1>4. /\ SubSeq(s, 1, n - 1) \in Seq(S)
      /\ Len(SubSeq(s, 1, n - 1)) = n - 1
      /\ \A k \in 1 .. n - 1 : SubSeq(s, 1, n - 1)[k] = s[k]
  <2>1. \A k \in 1 .. n - 1 : s[k] \in S
    BY <1>3
  <2>2. n - 1 \in Int /\ 1 \in Int /\ n - 1 >= 0
    BY <1>3
  <2>3. /\ SubSeq(s, 1, n - 1) \in Seq(S)
        /\ Len(SubSeq(s, 1, n - 1)) = IF 1 <= n - 1 THEN (n - 1) - 1 + 1 ELSE 0
        /\ \A k \in 1 .. (n - 1) - 1 + 1 : SubSeq(s, 1, n - 1)[k] = s[1 + k - 1]
    BY <2>1, <2>2, SubSeqProperties
  <2>. QED
    BY <2>2, <2>3
<1>. QED
  BY <1>2, <1>3, <1>4 DEF s, n, Top

\* Replacing the last call of a stack.
LEMMA ContinueFacts ==
  ASSUME NEW S, calls \in [Users -> Seq(S)], NEW u \in Users, Running(u),
         NEW c \in S, Continue(u, c)
  PROVE  /\ calls' \in [Users -> Seq(S)]
         /\ Len(calls'[u]) = Len(calls[u])
         /\ calls'[u][Len(calls[u])] = c
         /\ \A k \in 1 .. Len(calls[u]) - 1 : calls'[u][k] = calls[u][k]
         /\ \A w \in Users \ {u} : calls'[w] = calls[w]
<1>. DEFINE n == Len(calls[u])
            new == Append(Callers(u), c)
<1>1. n \in Nat \ {0}
  BY TopFacts
<1>2. calls'[u] = new /\ \A w \in Users \ {u} : calls'[w] = calls[w]
  BY DEF Continue
<1>3. /\ new \in Seq(S) /\ Len(new) = n /\ new[n] = c
      /\ \A k \in 1 .. n - 1 : new[k] = calls[u][k]
  <2>1. /\ Callers(u) \in Seq(S) /\ Len(Callers(u)) = n - 1
        /\ \A k \in 1 .. n - 1 : Callers(u)[k] = calls[u][k]
    BY TopFacts
  <2>2. /\ new \in Seq(S) /\ Len(new) = Len(Callers(u)) + 1
        /\ \A k \in 1 .. Len(Callers(u)) : new[k] = Callers(u)[k]
        /\ new[Len(Callers(u)) + 1] = c
    BY <2>1, AppendProperties
  <2>. HIDE DEF new, n
  <2>3. Len(Callers(u)) + 1 = n
    BY <1>1, <2>1
  <2>. QED
    BY <2>1, <2>2, <2>3
<1>4. calls' \in [Users -> Seq(S)]
  BY <1>3 DEF Continue
<1>. QED
  BY <1>2, <1>3, <1>4

\* The last call waits for a new one.
LEMMA EnterFacts ==
  ASSUME NEW S, calls \in [Users -> Seq(S)], NEW u \in Users, Running(u),
         NEW c \in S, NEW d \in S, Enter(u, c, d)
  PROVE  /\ calls' \in [Users -> Seq(S)]
         /\ Len(calls'[u]) = Len(calls[u]) + 1
         /\ calls'[u][Len(calls[u])] = c
         /\ calls'[u][Len(calls[u]) + 1] = d
         /\ \A k \in 1 .. Len(calls[u]) - 1 : calls'[u][k] = calls[u][k]
         /\ \A w \in Users \ {u} : calls'[w] = calls[w]
<1>. DEFINE n == Len(calls[u])
            pair == <<c, d>>
            new == Callers(u) \o pair
<1>1. n \in Nat \ {0}
  BY TopFacts
<1>2. calls'[u] = new /\ \A w \in Users \ {u} : calls'[w] = calls[w]
  BY DEF Enter
<1>3. pair \in Seq(S) /\ Len(pair) = 2 /\ pair[1] = c /\ pair[2] = d
  OBVIOUS
<1>. HIDE DEF pair
<1>4. /\ new \in Seq(S) /\ Len(new) = n + 1 /\ new[n] = c /\ new[n + 1] = d
      /\ \A k \in 1 .. n - 1 : new[k] = calls[u][k]
  <2>1. /\ Callers(u) \in Seq(S) /\ Len(Callers(u)) = n - 1
        /\ \A k \in 1 .. n - 1 : Callers(u)[k] = calls[u][k]
    BY TopFacts
  <2>2. /\ new \in Seq(S) /\ Len(new) = Len(Callers(u)) + Len(pair)
        /\ \A k \in 1 .. Len(Callers(u)) + Len(pair) :
             new[k] = IF k <= Len(Callers(u)) THEN Callers(u)[k] ELSE pair[k - Len(Callers(u))]
    BY <1>3, <2>1, ConcatProperties
  <2>. HIDE DEF new, n
  <2>3. /\ Len(new) = n + 1
        /\ \A k \in 1 .. n + 1 : new[k] = IF k <= n - 1 THEN Callers(u)[k] ELSE pair[k - (n - 1)]
    BY <1>1, <1>3, <2>1, <2>2
  <2>. QED
    BY <1>1, <1>3, <2>1, <2>2, <2>3
<1>5. calls' \in [Users -> Seq(S)]
  BY <1>4 DEF Enter, pair
<1>. QED
  BY <1>2, <1>4, <1>5

\* The last call but one goes on without the last one.
LEMMA ResumeFacts ==
  ASSUME NEW S, calls \in [Users -> Seq(S)], NEW u \in Users, Running(u), Len(calls[u]) # 1,
         NEW c \in S,
         calls' = [calls EXCEPT ![u] = [Callers(u) EXCEPT ![Len(calls[u]) - 1] = c]]
  PROVE  /\ calls' \in [Users -> Seq(S)]
         /\ Len(calls'[u]) = Len(calls[u]) - 1
         /\ Len(calls[u]) \in Nat /\ Len(calls[u]) > 1
         /\ calls'[u][Len(calls[u]) - 1] = c
         /\ \A k \in 1 .. Len(calls[u]) - 2 : calls'[u][k] = calls[u][k]
         /\ \A w \in Users \ {u} : calls'[w] = calls[w]
<1>. DEFINE n == Len(calls[u])
            new == [Callers(u) EXCEPT ![n - 1] = c]
<1>1. n \in Nat /\ n > 1
  <2>1. n \in Nat \ {0}
    BY TopFacts
  <2>2. n # 1
    OBVIOUS
  <2>. HIDE DEF n
  <2>. QED
    BY ONLY <2>1, <2>2
<1>2. calls' = [calls EXCEPT ![u] = new]
  OBVIOUS
<1>3. /\ new \in Seq(S) /\ Len(new) = n - 1 /\ new[n - 1] = c
      /\ \A k \in 1 .. n - 2 : new[k] = calls[u][k]
  <2>1. /\ Callers(u) \in Seq(S) /\ Len(Callers(u)) = n - 1
        /\ \A k \in 1 .. n - 1 : Callers(u)[k] = calls[u][k]
    BY TopFacts
  <2>2. n - 1 \in 1 .. Len(Callers(u))
    BY <1>1, <2>1
  <2>3. /\ new \in Seq(S) /\ Len(new) = Len(Callers(u))
        /\ \A k \in 1 .. Len(Callers(u)) : new[k] = IF k = n - 1 THEN c ELSE Callers(u)[k]
    BY <2>1, <2>2, ExceptSeq
  <2>. HIDE DEF new, n
  <2>. QED
    BY <1>1, <2>1, <2>3
<1>. HIDE DEF new
<1>. QED
  BY <1>1, <1>2, <1>3

-----------------------------------------------------------------------------
(***************************************************************************)
(* The invariant of any number of users.                                   *)
(***************************************************************************)

\* What was read is a database in which no file has two owners.
LEMMA LoadGood ==
  ASSUME Stores
  PROVE  Load \in Databases /\ Empty \in Databases
<1>1. Empty \in Databases
  BY DEF Empty, NoRecord, Nothing, Databases, Database, Disjoint
<1>. QED
  BY <1>1 DEF Stores, Load

\* What follows from the database of a package.
LEMMA RecordFacts ==
  ASSUME NEW db \in Databases, NEW p \in Packages
  PROVE  /\ db[p].files \in SUBSET Files
         /\ db[p].version \in Versioned
         /\ Has(db, p) \/ db[p] = NoRecord
BY DEF Databases, Database, Versioned, Has

\* A new call is a good one.
LEMMA NewCall ==
  ASSUME NEW p \in Packages
  PROVE  /\ InstallCall(p) \in GoodCalls /\ InstallCall(p).pc = "resolve"
         /\ UninstallCall(p) \in GoodCalls /\ UninstallCall(p).pc = "look"
<1>1. Empty \in Databases
  BY DEF Empty, NoRecord, Nothing, Databases, Database, Disjoint
<1>2. Nothing \in Versioned /\ Nothing \in Content /\ NoFile \in FileIds \union {NoFile}
  BY DEF Versioned, Content
<1>3. <<>> \in Seq(Packages)
  OBVIOUS
<1>4. [f \in Files |-> Nothing] \in [Files -> Content]
  BY <1>2
<1>5. {"resolve", "look"} \subseteq Labels
  BY DEF Labels
<1>6. InstallCall(p) \in Calls /\ UninstallCall(p) \in Calls
  BY <1>1, <1>2, <1>3, <1>4, <1>5 DEF InstallCall, UninstallCall, Call, Calls, Outcomes
<1>7. /\ InstallCall(p).pc = "resolve" /\ InstallCall(p).op = "install"
      /\ UninstallCall(p).pc = "look" /\ UninstallCall(p).op = "uninstall"
  BY DEF InstallCall, UninstallCall, Call
<1>. QED
  BY <1>6, <1>7 DEF GoodCalls, Sound, Installing, Preparing, Committing, Saving, Removing

\* A call that is left, by an exception or at its end, is a good one.
LEMMA LeavesGood ==
  ASSUME NEW c \in GoodCalls, NEW how \in Outcomes, NEW label \in Exits(c)
  PROVE  /\ Leaves(c, how, label) \in GoodCalls
         /\ Leaves(c, how, label).pc \notin Waiting
<1>. DEFINE d == Leaves(c, how, label)
<1>1. NoFile \in FileIds \union {NoFile} /\ label \in Labels
  BY DEF Labels, Exits
<1>2. c \in Calls
  BY DEF GoodCalls
<1>3. d \in Calls /\ d.pc = label /\ d.op = c.op
  BY <1>1, <1>2 DEF Leaves, Calls
<1>. HIDE DEF d
<1>4. Sound(d)
  BY <1>3 DEF Sound, Installing, Preparing, Committing, Saving, Removing, Exits
<1>5. label \notin Waiting
  BY DEF Exits, Waiting
<1>. QED
  BY <1>3, <1>4, <1>5 DEF GoodCalls, d

\* So is one through which an exception or a Ctrl+C goes.
LEMMA EscapesGood ==
  ASSUME NEW c \in GoodCalls
  PROVE  /\ Raised(c) \in GoodCalls /\ Raised(c).pc \notin Waiting
         /\ Interrupted(c) \in GoodCalls /\ Interrupted(c).pc \notin Waiting
<1>1. {"raised", "interrupted", "failed"} \subseteq Outcomes
  BY DEF Outcomes
<1>2. c.op \in {"install", "uninstall"}
  BY DEF GoodCalls, Calls
<1>3. ASSUME NEW how \in Outcomes
      PROVE  Escapes(c, how) \in GoodCalls /\ Escapes(c, how).pc \notin Waiting
  <2>1. PICK label \in Exits(c) : Escapes(c, how) = Leaves(c, how, label)
    BY DEF Escapes, Exits
  <2>. QED
    BY <2>1, LeavesGood
<1>4. c.op # "uninstall" => "rollback" \in Exits(c)
  BY <1>2 DEF Exits
<1>5. c.op # "uninstall" => /\ Leaves(c, "failed", "rollback") \in GoodCalls
                            /\ Leaves(c, "failed", "rollback").pc \notin Waiting
  BY <1>1, <1>4, LeavesGood
<1>. QED
  BY <1>1, <1>3, <1>5 DEF Raised, Interrupted

\* The last call goes on.
LEMMA ContinueKeeps ==
  ASSUME IInv, NEW u \in Users, Running(u), NEW c \in GoodCalls, c.pc \notin Waiting,
         Continue(u, c)
  PROVE  calls' \in [Users -> Seq(GoodCalls)] /\ Stacked'
<1>1. /\ calls' \in [Users -> Seq(GoodCalls)]
      /\ Len(calls'[u]) = Len(calls[u])
      /\ calls'[u][Len(calls[u])] = c
      /\ \A k \in 1 .. Len(calls[u]) - 1 : calls'[u][k] = calls[u][k]
      /\ \A w \in Users \ {u} : calls'[w] = calls[w]
  BY ContinueFacts DEF IInv
<1>2. /\ DOMAIN calls[u] = 1 .. Len(calls[u]) /\ Len(calls[u]) \in Nat
      /\ DOMAIN calls'[u] = 1 .. Len(calls'[u])
  BY <1>1, LenProperties DEF IInv
<1>3. ASSUME NEW k \in DOMAIN calls'[u]
      PROVE  calls'[u][k].pc \in Waiting <=> k < Len(calls'[u])
  <2>1. CASE k = Len(calls[u])
    BY <1>1, <1>2, <2>1
  <2>2. CASE k # Len(calls[u])
    BY <1>1, <1>2, <1>3, <2>2 DEF IInv, Stacked
  <2>. QED
    BY <2>1, <2>2
<1>. QED
  BY <1>1, <1>3 DEF IInv, Stacked

\* The last call waits for a new one.
LEMMA EnterKeeps ==
  ASSUME IInv, NEW u \in Users, Running(u), NEW c \in GoodCalls, c.pc \in Waiting,
         NEW d \in GoodCalls, d.pc \notin Waiting, Enter(u, c, d)
  PROVE  calls' \in [Users -> Seq(GoodCalls)] /\ Stacked'
<1>1. /\ calls' \in [Users -> Seq(GoodCalls)]
      /\ Len(calls'[u]) = Len(calls[u]) + 1
      /\ calls'[u][Len(calls[u])] = c
      /\ calls'[u][Len(calls[u]) + 1] = d
      /\ \A k \in 1 .. Len(calls[u]) - 1 : calls'[u][k] = calls[u][k]
      /\ \A w \in Users \ {u} : calls'[w] = calls[w]
  BY EnterFacts DEF IInv
<1>2. /\ DOMAIN calls[u] = 1 .. Len(calls[u]) /\ Len(calls[u]) \in Nat
      /\ DOMAIN calls'[u] = 1 .. Len(calls'[u])
  BY <1>1, LenProperties DEF IInv
<1>3. ASSUME NEW k \in DOMAIN calls'[u]
      PROVE  calls'[u][k].pc \in Waiting <=> k < Len(calls'[u])
  <2>1. CASE k >= Len(calls[u])
    <3>1. k = Len(calls[u]) \/ k = Len(calls[u]) + 1
      BY <1>1, <1>2, <1>3, <2>1
    <3>. QED
      BY <1>1, <1>2, <3>1
  <2>2. CASE k < Len(calls[u])
    BY <1>1, <1>2, <1>3, <2>2 DEF IInv, Stacked
  <2>. QED
    BY <1>2, <1>3, <2>1, <2>2
<1>. QED
  BY <1>1, <1>3 DEF IInv, Stacked

\* The invariant, of a last call that goes on.
LEMMA ContinueInv ==
  ASSUME IInv, NEW u \in Users, Running(u), NEW c \in Calls, Sound(c), c.pc \notin Waiting,
         Continue(u, c), Stores'
  PROVE  IInv'
<1>1. c \in GoodCalls
  BY DEF GoodCalls
<1>. QED
  BY <1>1, ContinueKeeps DEF IInv

\* A step that leaves the files alone.
LEMMA StoresSame ==
  ASSUME IInv, UNCHANGED files
  PROVE  Stores' /\ Load' = Load
BY DEF IInv, Stores, Load

\* The last call, typed.
LEMMA TopGood ==
  ASSUME IInv, NEW u \in Users, Running(u)
  PROVE  Top(u) \in Calls /\ Sound(Top(u)) /\ Top(u) \in GoodCalls
<1>1. Top(u) \in GoodCalls
  BY TopFacts DEF IInv
<1>. QED
  BY <1>1 DEF GoodCalls


\* The choice of the wheel and the dependencies.
LEMMA ResolveInv ==
  ASSUME IInv, NEW u \in Users, Resolve(u) \/ Download(u) \/ Unpack(u) \/ SmokeTest(u)
  PROVE  IInv'
<1>0. Running(u) /\ Stores' /\ Top(u) \in Calls /\ Sound(Top(u))
  BY StoresSame, TopGood DEF Resolve, Download, Unpack, SmokeTest, At
<1>1. CASE Resolve(u)
  <2>1. PICK v \in Versions :
          Continue(u, [Top(u) EXCEPT
            !.version = <<v>>, !.db = Load, !.pc = "deps",
            !.need = {r \in Requires[<<Top(u).pkg, v>>] : ~Satisfies(Load, r)}])
    BY <1>1 DEF Resolve
  <2>. DEFINE needed == {r \in Requires[<<Top(u).pkg, v>>] : ~Satisfies(Load, r)}
              c == [Top(u) EXCEPT !.version = <<v>>, !.db = Load, !.pc = "deps", !.need = needed]
  <2>2. Load \in Databases
    BY LoadGood DEF IInv
  <2>3. needed \in SUBSET Requirement
    <3>1. Top(u).pkg \in Packages
      BY <1>0 DEF Calls
    <3>2. <<Top(u).pkg, v>> \in Releases
      BY <3>1 DEF Releases
    <3>. QED
      BY <3>2, RequiresAssumption
  <2>4. <<v>> \in Versioned /\ <<v>> # Nothing /\ "deps" \in Labels
    BY DEF Versioned, Nothing, Labels
  <2>. HIDE DEF needed
  <2>5. c \in Calls /\ c.pc = "deps" /\ c.version = <<v>> /\ c.op = Top(u).op
    BY <1>0, <2>2, <2>3, <2>4 DEF Calls
  <2>6. Top(u).op = "install"
    BY <1>0, <1>1 DEF Resolve, At, Sound, Installing
  <2>7. Continue(u, c)
    BY <2>1 DEF needed
  <2>. HIDE DEF c
  <2>8. Sound(c)
    BY <2>4, <2>5, <2>6 DEF Sound, Installing, Preparing, Committing, Saving, Removing
  <2>. QED
    BY <1>0, <2>5, <2>7, <2>8, ContinueInv DEF Waiting
<1>2. CASE Download(u) \/ Unpack(u) \/ SmokeTest(u)
  <2>1. PICK label \in {"unpack", "smoke", "owners"} : Goto(u, label)
    BY <1>2 DEF Download, Unpack, SmokeTest
  <2>2. Top(u).pc \in {"deps", "unpack", "smoke"}
    BY <1>2 DEF Download, Unpack, SmokeTest, At
  <2>3. Top(u).op = "install" /\ Top(u).version # Nothing
    BY <1>0, <2>2 DEF Sound, Installing, Preparing, Committing
  <2>. DEFINE c == [Top(u) EXCEPT !.pc = label]
  <2>4. c \in Calls /\ c.pc = label /\ c.op = Top(u).op /\ c.version = Top(u).version
    BY <1>0 DEF Calls, Labels
  <2>5. Continue(u, c)
    BY <2>1 DEF Goto
  <2>. HIDE DEF c
  <2>6. Sound(c)
    BY <2>3, <2>4 DEF Sound, Installing, Preparing, Committing, Saving, Removing
  <2>. QED
    BY <1>0, <2>4, <2>5, <2>6, ContinueInv DEF Waiting
<1>. QED
  BY <1>1, <1>2

\* An exception or a Ctrl+C in the last call.
LEMMA RaiseInv ==
  ASSUME IInv, NEW u \in Users, Running(u), Stores',
         Continue(u, Raised(Top(u))) \/ Continue(u, Interrupted(Top(u)))
  PROVE  IInv'
<1>1. Top(u) \in GoodCalls
  BY TopGood
<1>2. /\ Raised(Top(u)) \in GoodCalls /\ Raised(Top(u)).pc \notin Waiting
      /\ Interrupted(Top(u)) \in GoodCalls /\ Interrupted(Top(u)).pc \notin Waiting
  BY <1>1, EscapesGood
<1>3. calls' \in [Users -> Seq(GoodCalls)] /\ Stacked'
  BY <1>2, ContinueKeeps
<1>. QED
  BY <1>3 DEF IInv

\* The check of the owners is what makes the commit sound.
LEMMA CheckOwnersInv ==
  ASSUME IInv, NEW u \in Users, CheckOwners(u)
  PROVE  IInv'
<1>0. Running(u) /\ Stores' /\ Top(u) \in Calls /\ Sound(Top(u)) /\ Top(u).pc = "owners"
  BY StoresSame, TopGood DEF CheckOwners, BeginCommit, At
<1>. DEFINE wheel == Wheels[Release(Top(u))]
            p == Top(u).pkg
            c == [Top(u) EXCEPT !.db = Load, !.old = Load[p].files, !.left = wheel,
                                !.before = {tree}, !.pc = "commit"]
<1>1. CASE wheel \intersect Owners(Load, p) # {}
  BY <1>0, <1>1, RaiseInv DEF CheckOwners, BeginCommit
<1>2. CASE wheel \intersect Owners(Load, p) = {}
  <2>1. Continue(u, c)
    BY <1>2 DEF CheckOwners, BeginCommit
  <2>2. Load \in Databases
    BY LoadGood DEF IInv
  <2>3. /\ p \in Packages /\ Top(u).op = "install" /\ Top(u).version # Nothing
        /\ Top(u).version \in Versioned
    BY <1>0 DEF Calls, Sound, Installing, Preparing
  <2>4. Release(Top(u)) \in Releases
    BY <2>3 DEF Release, Releases, Versioned, Nothing
  <2>5. wheel \in SUBSET Files /\ Load[p].files \in SUBSET Files
    BY <2>2, <2>3, <2>4, WheelsAssumption, RecordFacts
  <2>6. {tree} \in SUBSET [Files -> Content] /\ "commit" \in Labels
    BY DEF IInv, Stores, Labels
  <2>. HIDE DEF wheel
  <2>7. /\ c \in Calls /\ c.pc = "commit" /\ c.op = "install" /\ c.version = Top(u).version
        /\ c.db = Load /\ c.pkg = p
    BY <1>0, <2>2, <2>3, <2>5, <2>6 DEF Calls
  <2>8. Release(c) = Release(Top(u))
    BY <2>7 DEF Release
  <2>. HIDE DEF c, p
  <2>9. Clear(c, c.db)
    BY <1>2, <2>7, <2>8 DEF Clear, wheel
  <2>10. Sound(c)
    BY <2>3, <2>7, <2>9 DEF Sound, Installing, Preparing, Committing, Saving, Removing
  <2>. QED
    BY <1>0, <2>1, <2>7, <2>10, ContinueInv DEF Waiting
<1>. QED
  BY <1>1, <1>2

\* Writing the files and taking away the obsolete ones.
LEMMA CommitInv ==
  ASSUME IInv, NEW u \in Users, CommitFile(u) \/ Committed(u) \/ RemoveObsolete(u)
  PROVE  IInv'
<1>0. /\ Running(u) /\ Top(u) \in Calls /\ Sound(Top(u)) /\ Top(u).pc \in Committing
      /\ UNCHANGED <<disk, live, temp>>
  BY TopGood DEF CommitFile, Committed, RemoveObsolete, At, Committing
<1>1. /\ Top(u).op = "install" /\ Top(u).version # Nothing /\ Clear(Top(u), Top(u).db)
      /\ Top(u).left \in SUBSET Files /\ Top(u).done \in SUBSET Files
      /\ Top(u).backup \in [Files -> Content] /\ tree \in [Files -> Content]
  BY <1>0 DEF Calls, Sound, Installing, IInv, Stores
<1>2. Release(Top(u)) \in Content /\ Release(Top(u)) \in Releases
  BY <1>0, <1>1 DEF Calls, Release, Releases, Versioned, Nothing, Content
<1>3. ASSUME NEW c \in Calls, c.pc \in Committing, c.op = "install", Continue(u, c),
             c.version = Top(u).version, c.pkg = Top(u).pkg, c.db = Top(u).db, Stores'
      PROVE  IInv'
  <2>1. Release(c) = Release(Top(u))
    BY <1>3 DEF Release
  <2>2. Clear(c, c.db)
    BY <1>1, <1>3, <2>1 DEF Clear
  <2>3. Sound(c)
    BY <1>1, <1>3, <2>2 DEF Sound, Installing, Preparing, Committing, Saving, Removing
  <2>. QED
    BY <1>0, <1>3, <2>3, ContinueInv DEF Waiting, Committing
<1>4. CASE CommitFile(u)
  <2>1. PICK f \in Top(u).left :
          /\ tree' = [tree EXCEPT ![f] = Release(Top(u))]
          /\ Continue(u, [Top(u) EXCEPT !.left = @ \ {f}, !.done = @ \union {f},
                                        !.backup[f] = tree[f]])
    BY <1>4 DEF CommitFile
  <2>2. f \in Files /\ tree[f] \in Content
    BY <1>1, <2>1
  <2>. DEFINE b == [Top(u).backup EXCEPT ![f] = tree[f]]
              c == [Top(u) EXCEPT !.left = Top(u).left \ {f}, !.done = Top(u).done \union {f},
                                  !.backup = b]
  <2>3. Continue(u, c)
    BY <2>1, <1>0 DEF Calls
  <2>4. Top(u).left \ {f} \in SUBSET Files /\ Top(u).done \union {f} \in SUBSET Files
    BY <1>1, <2>2
  <2>5. b \in [Files -> Content]
    BY <1>1, <2>2
  <2>. HIDE DEF b
  <2>6. /\ c \in Calls /\ c.pc = Top(u).pc /\ c.op = "install" /\ c.version = Top(u).version
        /\ c.pkg = Top(u).pkg /\ c.db = Top(u).db
    BY <1>0, <1>1, <2>4, <2>5 DEF Calls
  <2>7. Stores'
    <3>1. tree' \in [Files -> Content]
      BY <1>1, <1>2, <2>1
    <3>. QED
      BY <1>0, <3>1 DEF IInv, Stores
  <2>. QED
    BY <1>0, <1>3, <2>3, <2>6, <2>7
<1>5. CASE Committed(u)
  <2>. DEFINE l == Top(u).old \ Wheels[Release(Top(u))]
              c == [Top(u) EXCEPT !.left = l, !.pc = "obsolete"]
  <2>1. Continue(u, c) /\ Stores'
    BY <1>5, StoresSame DEF Committed
  <2>2. l \in SUBSET Files /\ "obsolete" \in Labels
    BY <1>0 DEF Calls, Labels
  <2>. HIDE DEF l
  <2>3. /\ c \in Calls /\ c.pc = "obsolete" /\ c.op = "install" /\ c.version = Top(u).version
        /\ c.pkg = Top(u).pkg /\ c.db = Top(u).db
    BY <1>0, <1>1, <2>2 DEF Calls
  <2>. QED
    BY <1>3, <2>1, <2>3 DEF Committing
<1>6. CASE RemoveObsolete(u)
  <2>1. PICK f \in Top(u).left :
          /\ tree' = [tree EXCEPT ![f] = Nothing]
          /\ Continue(u, [Top(u) EXCEPT !.left = @ \ {f}])
    BY <1>6 DEF RemoveObsolete
  <2>. DEFINE l == Top(u).left \ {f}
              c == [Top(u) EXCEPT !.left = l]
  <2>2. Continue(u, c) /\ l \in SUBSET Files
    BY <1>1, <2>1
  <2>. HIDE DEF l
  <2>3. /\ c \in Calls /\ c.pc = Top(u).pc /\ c.op = "install" /\ c.version = Top(u).version
        /\ c.pkg = Top(u).pkg /\ c.db = Top(u).db
    BY <1>0, <1>1, <2>2 DEF Calls
  <2>4. Stores'
    <3>1. tree' \in [Files -> Content]
      BY <1>1, <2>1 DEF Content
    <3>. QED
      BY <1>0, <3>1 DEF IInv, Stores
  <2>. QED
    BY <1>0, <1>3, <2>2, <2>3, <2>4
<1>. QED
  BY <1>4, <1>5, <1>6

\* The record is written into the database in which the owners were checked.
LEMMA WriteRecordInv ==
  ASSUME IInv, NEW u \in Users, WriteRecord(u)
  PROVE  IInv'
<1>0. Running(u) /\ Stores' /\ Top(u) \in Calls /\ Sound(Top(u)) /\ Top(u).pc = "obsolete"
  BY StoresSame, TopGood DEF WriteRecord, Recorded, At
<1>. DEFINE p == Top(u).pkg
            wheel == Wheels[Release(Top(u))]
            before == Top(u).db
            record == [version |-> Top(u).version, files |-> wheel,
                       explicit |-> before[p].explicit \/ Len(calls[u]) = 1]
            db == [before EXCEPT ![p] = record]
            c == [Top(u) EXCEPT !.db = db, !.pc = "open"]
<1>1. Continue(u, c)
  BY DEF WriteRecord, Recorded
<1>2. /\ p \in Packages /\ Top(u).op = "install" /\ Top(u).version # Nothing
      /\ Top(u).version \in Versioned /\ before \in Databases /\ Clear(Top(u), before)
  BY <1>0 DEF Calls, Sound, Installing, Preparing, Committing
<1>3. Release(Top(u)) \in Releases
  BY <1>2 DEF Release, Releases, Versioned, Nothing
<1>4. wheel \in SUBSET Files
  BY <1>3, WheelsAssumption
<1>5. wheel \intersect Owners(before, p) = {}
  BY <1>2 DEF Clear
<1>. HIDE DEF wheel, before, p
<1>6. db \in Databases
  <2>1. before \in Database
    BY <1>2 DEF Databases
  <2>2. (before[p].explicit \/ Len(calls[u]) = 1) \in BOOLEAN
    OBVIOUS
  <2>3. record \in [version : {Nothing} \union {<<v>> : v \in Versions},
                    files : SUBSET Files, explicit : BOOLEAN]
    BY <1>2, <1>4, <2>2 DEF Versioned
  <2>. HIDE DEF record
  <2>4. db \in Database
    BY <2>1, <2>3 DEF Database
  <2>5. record.files = wheel
    BY DEF record
  <2>6. \A q \in Packages : db[q] = IF q = p THEN record ELSE before[q]
    BY <2>1 DEF Database
  <2>7. \A q \in Packages \ {p} : wheel \intersect before[q].files = {}
    BY <1>5 DEF Owners
  <2>8. \A q, r \in Packages : q # r => before[q].files \intersect before[r].files = {}
    BY <1>2 DEF Databases, Disjoint
  <2>. HIDE DEF db
  <2>9. Disjoint(db)
    BY <2>5, <2>6, <2>7, <2>8 DEF Disjoint
  <2>. QED
    BY <2>4, <2>9 DEF Databases
<1>. HIDE DEF db
<1>7. c \in Calls /\ c.pc = "open" /\ c.op = "install" /\ c.version = Top(u).version
  BY <1>0, <1>2, <1>6 DEF Calls, Labels
<1>. HIDE DEF c
<1>8. Sound(c)
  BY <1>2, <1>7 DEF Sound, Installing, Preparing, Committing, Saving, Removing
<1>. QED
  BY <1>0, <1>1, <1>7, <1>8, ContinueInv DEF Waiting

\* There is a file that nobody holds and nothing names.
LEMMA FreshFile ==
  ASSUME IInv
  PROVE  \E i \in FileIds : i \notin {live} \union {Top(w).fd : w \in {x \in Users : Running(x)}}
<1>. DEFINE runners == {x \in Users : Running(x)}
            fds == {Top(w).fd : w \in runners}
            f == [w \in runners |-> Top(w).fd]
<1>1. IsFiniteSet(runners) /\ Cardinality(runners) <= Cardinality(Users)
  BY FS_Subset, UsersAssumption
<1>2. f \in Surjection(runners, fds)
  BY DEF Surjection
<1>. HIDE DEF runners
<1>3. IsFiniteSet(fds) /\ Cardinality(fds) <= Cardinality(runners)
  BY <1>1, <1>2, FS_Surjection
<1>. HIDE DEF fds
<1>. DEFINE held == fds \union {live}
<1>4. IsFiniteSet(held) /\ Cardinality(held) <= Cardinality(fds) + 1
  <2>1. /\ IsFiniteSet(fds \union {live})
        /\ Cardinality(fds \union {live}) = IF live \in fds THEN Cardinality(fds)
                                                            ELSE Cardinality(fds) + 1
    BY <1>3, FS_AddElement
  <2>2. Cardinality(fds) \in Nat
    BY <1>3, FS_CardinalityType
  <2>. QED
    BY <2>1, <2>2
<1>5. /\ Cardinality(Users) \in Nat /\ Cardinality(runners) \in Nat
      /\ Cardinality(fds) \in Nat /\ Cardinality(held) \in Nat
  BY <1>1, <1>3, <1>4, UsersAssumption, FS_CardinalityType
<1>6. Cardinality(FileIds) = Cardinality(Users) + 2
  <2>1. 1 \in Int /\ Cardinality(Users) + 2 \in Int /\ ~ (1 > Cardinality(Users) + 2)
    BY <1>5
  <2>2. Cardinality(1 .. Cardinality(Users) + 2) = (Cardinality(Users) + 2) - 1 + 1
    BY <2>1, FS_Interval
  <2>. QED
    BY <1>5, <2>2 DEF FileIds
<1>. HIDE DEF held
<1>7. ~ (FileIds \subseteq held)
  <2>. SUFFICES ASSUME FileIds \subseteq held PROVE FALSE
    OBVIOUS
  <2>1. Cardinality(FileIds) <= Cardinality(held)
    BY <1>4, FS_Subset
  <2>. QED
    BY <1>1, <1>3, <1>4, <1>5, <1>6, <2>1
<1>. QED
  BY <1>7 DEF held, fds, runners

\* _save_db writes into a file of the database, never into packages.json.
LEMMA SaveInv ==
  ASSUME IInv, NEW u \in Users,
         SaveOpen(u) \/ SaveWrite(u) \/ SaveReplace(u) \/ SaveReplaceGone(u)
  PROVE  IInv'
<1>0. Running(u) /\ Top(u) \in Calls /\ Sound(Top(u)) /\ Top(u) \in GoodCalls
  BY TopGood DEF SaveOpen, SaveWrite, SaveReplace, SaveReplaceGone, At
<1>1. CASE SaveOpen(u)
  <2>. DEFINE held == {live} \union {Top(w).fd : w \in {x \in Users : Running(x)}}
              file == IF temp # NoFile THEN temp ELSE CHOOSE i \in FileIds \ held : TRUE
              c == [Top(u) EXCEPT !.fd = file, !.pc = "write"]
  <2>1. /\ temp' = file /\ disk' = [disk EXCEPT ![file] = Torn] /\ Continue(u, c)
        /\ UNCHANGED <<tree, live>> /\ Top(u).pc = "open"
    BY <1>1 DEF SaveOpen, At
  <2>2. file \in FileIds /\ file # live
    <3>1. \E i : i \in FileIds \ held
      BY FreshFile
    <3>2. (CHOOSE i \in FileIds \ held : TRUE) \in FileIds \ held
      BY <3>1
    <3>. QED
      BY <3>2 DEF IInv, Stores
  <2>. HIDE DEF file
  <2>3. Stores'
    BY <2>1, <2>2 DEF IInv, Stores
  <2>4. c \in Calls /\ c.pc = "write" /\ c.op = Top(u).op /\ c.version = Top(u).version
    BY <1>0, <2>2 DEF Calls, Labels
  <2>5. Top(u).op = "install" => Top(u).version # Nothing
    BY <1>0, <2>1 DEF Sound, Saving
  <2>. HIDE DEF c
  <2>6. Sound(c)
    BY <2>4, <2>5 DEF Sound, Installing, Preparing, Committing, Saving, Removing
  <2>. QED
    BY <1>0, <2>1, <2>3, <2>4, <2>6, ContinueInv DEF Waiting
<1>2. CASE SaveWrite(u)
  <2>. DEFINE c == [Top(u) EXCEPT !.pc = "replace"]
  <2>1. PICK t \in {Top(u).db} \union (IF disk[Top(u).fd] = Torn THEN {} ELSE {Torn}) :
          disk' = [disk EXCEPT ![Top(u).fd] = t]
    BY <1>2 DEF SaveWrite
  <2>2. t \in Databases \union {Torn}
    BY <1>0, <2>1 DEF Calls
  <2>3. Continue(u, c) /\ UNCHANGED <<tree, live, temp>> /\ Top(u).pc = "write"
    BY <1>2 DEF SaveWrite, Goto, At
  <2>4. Stores'
    BY <2>1, <2>2, <2>3 DEF IInv, Stores
  <2>5. c \in Calls /\ c.pc = "replace" /\ c.op = Top(u).op /\ c.version = Top(u).version
    BY <1>0 DEF Calls, Labels
  <2>6. Top(u).op = "install" => Top(u).version # Nothing
    BY <1>0, <2>3 DEF Sound, Saving
  <2>. HIDE DEF c
  <2>7. Sound(c)
    BY <2>5, <2>6 DEF Sound, Installing, Preparing, Committing, Saving, Removing
  <2>. QED
    BY <1>0, <2>3, <2>4, <2>5, <2>7, ContinueInv DEF Waiting
<1>3. CASE SaveReplace(u)
  <2>1. Stores'
    <3>1. /\ temp # NoFile /\ live' = temp /\ temp' = NoFile /\ tree' = tree
          /\ disk' = [disk EXCEPT ![live] = Empty]
      BY <1>3 DEF SaveReplace
    <3>2. Empty \in Databases
      BY LoadGood DEF IInv
    <3>3. disk' \in [FileIds -> Databases \union {Torn}]
      BY <3>1, <3>2 DEF IInv, Stores
    <3>4. live' \in FileIds /\ live' # temp' /\ temp' \in FileIds \union {NoFile}
      BY <3>1 DEF IInv, Stores
    <3>. QED
      BY <3>1, <3>3, <3>4 DEF IInv, Stores
  <2>2. Saved(Top(u)) \in GoodCalls /\ Saved(Top(u)).pc \notin Waiting
    <3>1. PICK label \in Exits(Top(u)) : Saved(Top(u)) = Leaves(Top(u), "ok", label)
      BY <1>0 DEF Saved, Exits, Calls
    <3>2. "ok" \in Outcomes
      BY DEF Outcomes
    <3>. QED
      BY <1>0, <3>1, <3>2, LeavesGood
  <2>3. Continue(u, Saved(Top(u)))
    BY <1>3 DEF SaveReplace
  <2>. QED
    BY <1>0, <2>1, <2>2, <2>3, ContinueKeeps DEF IInv
<1>4. CASE SaveReplaceGone(u)
  BY <1>0, <1>4, StoresSame, RaiseInv DEF SaveReplaceGone
<1>. QED
  BY <1>1, <1>2, <1>3, <1>4

\* The except and the finally clause, and the steps of uninstall.
LEMMA RollbackInv ==
  ASSUME IInv, NEW u \in Users,
         \/ RestoreFile(u) \/ RestoreEnd(u) \/ UndoEnd(u) \/ Finally(u)
         \/ LookUp(u) \/ UnlinkFile(u) \/ DropRecord(u)
  PROVE  IInv'
<1>0. Running(u) /\ Top(u) \in Calls /\ Sound(Top(u)) /\ Top(u) \in GoodCalls
  BY TopGood DEF RestoreFile, RestoreEnd, UndoEnd, Finally, LookUp, UnlinkFile, DropRecord, At
<1>1. CASE RestoreFile(u)
  <2>1. PICK f \in Top(u).done :
          /\ tree' = [tree EXCEPT ![f] = Top(u).backup[f]]
          /\ Continue(u, [Top(u) EXCEPT !.done = @ \ {f}])
    BY <1>1 DEF RestoreFile
  <2>. DEFINE d == Top(u).done \ {f}
              c == [Top(u) EXCEPT !.done = d]
  <2>2. f \in Files /\ Top(u).backup[f] \in Content /\ d \in SUBSET Files
    BY <1>0, <2>1 DEF Calls
  <2>3. Stores'
    BY <1>1, <2>1, <2>2 DEF RestoreFile, IInv, Stores
  <2>4. Continue(u, c) /\ Top(u).pc = "rollback"
    BY <1>1, <2>1 DEF RestoreFile, At
  <2>. HIDE DEF d
  <2>5. c \in Calls /\ c.pc = "rollback" /\ c.op = Top(u).op
    BY <1>0, <2>2, <2>4 DEF Calls
  <2>. HIDE DEF c
  <2>6. Sound(c)
    BY <1>0, <2>4, <2>5 DEF Sound, Installing, Preparing, Committing, Saving, Removing
  <2>. QED
    BY <1>0, <2>3, <2>4, <2>5, <2>6, ContinueInv DEF Waiting
<1>2. CASE RestoreEnd(u) \/ UndoEnd(u)
  <2>1. PICK label \in {"undo", "finally"} : Goto(u, label)
    BY <1>2 DEF RestoreEnd, UndoEnd
  <2>. DEFINE c == [Top(u) EXCEPT !.pc = label]
  <2>2. Stores' /\ Continue(u, c) /\ Top(u).op = "install"
    BY <1>0, <1>2, <2>1, StoresSame DEF RestoreEnd, UndoEnd, At, Sound, Installing, Goto
  <2>3. c \in Calls /\ c.pc = label /\ c.op = "install"
    BY <1>0, <2>2 DEF Calls, Labels
  <2>. HIDE DEF c
  <2>4. Sound(c)
    BY <2>3 DEF Sound, Installing, Preparing, Committing, Saving, Removing
  <2>. QED
    BY <1>0, <2>2, <2>3, <2>4, ContinueInv DEF Waiting
<1>3. CASE Finally(u)
  <2>. DEFINE b == [f \in Files |-> Nothing]
              c == [Top(u) EXCEPT !.pc = "done", !.before = {}, !.backup = b]
  <2>1. Stores' /\ Continue(u, c)
    BY <1>3, StoresSame DEF Finally
  <2>2. b \in [Files -> Content]
    BY DEF Content
  <2>. HIDE DEF b
  <2>3. c \in Calls /\ c.pc = "done"
    BY <1>0, <2>2 DEF Calls, Labels
  <2>. HIDE DEF c
  <2>4. Sound(c)
    BY <2>3 DEF Sound, Installing, Preparing, Committing, Saving, Removing
  <2>. QED
    BY <1>0, <2>1, <2>3, <2>4, ContinueInv DEF Waiting
<1>4. CASE LookUp(u)
  <2>. DEFINE fs == Load[Top(u).pkg].files
              c == [Top(u) EXCEPT !.db = Load, !.old = fs, !.left = fs, !.pc = "unlink"]
              d == [Top(u) EXCEPT !.outcome = "failed", !.pc = "done"]
  <2>1. Stores' /\ (Continue(u, c) \/ Continue(u, d)) /\ Top(u).op = "uninstall"
    BY <1>0, <1>4, StoresSame DEF LookUp, At, Sound, Removing
  <2>2. Load \in Databases /\ fs \in SUBSET Files
    BY <1>0, LoadGood, RecordFacts DEF IInv, Calls
  <2>. HIDE DEF fs
  <2>3. /\ c \in Calls /\ c.pc = "unlink" /\ c.op = "uninstall"
        /\ d \in Calls /\ d.pc = "done" /\ d.op = "uninstall"
    BY <1>0, <2>1, <2>2 DEF Calls, Labels, Outcomes
  <2>. HIDE DEF c, d
  <2>4. Sound(c) /\ Sound(d)
    BY <2>3 DEF Sound, Installing, Preparing, Committing, Saving, Removing
  <2>. QED
    BY <1>0, <2>1, <2>3, <2>4, ContinueInv DEF Waiting
<1>5. CASE UnlinkFile(u)
  <2>1. PICK f \in Top(u).left :
          /\ tree' = [tree EXCEPT ![f] = Nothing]
          /\ Continue(u, [Top(u) EXCEPT !.left = @ \ {f}])
    BY <1>5 DEF UnlinkFile
  <2>. DEFINE l == Top(u).left \ {f}
              c == [Top(u) EXCEPT !.left = l]
  <2>2. f \in Files /\ Nothing \in Content /\ l \in SUBSET Files
    BY <1>0, <2>1 DEF Calls, Content
  <2>3. Stores'
    BY <1>5, <2>1, <2>2 DEF UnlinkFile, IInv, Stores
  <2>4. Continue(u, c) /\ Top(u).pc = "unlink"
    BY <1>5, <2>1 DEF UnlinkFile, At
  <2>. HIDE DEF l
  <2>5. c \in Calls /\ c.pc = "unlink" /\ c.op = Top(u).op
    BY <1>0, <2>2, <2>4 DEF Calls
  <2>. HIDE DEF c
  <2>6. Sound(c)
    BY <1>0, <2>4, <2>5 DEF Sound, Installing, Preparing, Committing, Saving, Removing
  <2>. QED
    BY <1>0, <2>3, <2>4, <2>5, <2>6, ContinueInv DEF Waiting
<1>6. CASE DropRecord(u)
  <2>. DEFINE db == [Top(u).db EXCEPT ![Top(u).pkg] = NoRecord]
              c == [Top(u) EXCEPT !.db = db, !.pc = "open"]
  <2>1. Stores' /\ Continue(u, c) /\ Top(u).op = "uninstall"
    BY <1>0, <1>6, StoresSame DEF DropRecord, At, Sound, Removing
  <2>2. db \in Databases
    <3>1. Top(u).db \in Database /\ Disjoint(Top(u).db) /\ Top(u).pkg \in Packages
      BY <1>0 DEF Calls, Databases
    <3>2. db \in Database
      BY <3>1 DEF Database, NoRecord
    <3>3. Disjoint(db)
      BY <3>1 DEF Database, Disjoint, NoRecord
    <3>. QED
      BY <3>2, <3>3 DEF Databases
  <2>. HIDE DEF db
  <2>3. c \in Calls /\ c.pc = "open" /\ c.op = "uninstall"
    BY <1>0, <2>1, <2>2 DEF Calls, Labels
  <2>. HIDE DEF c
  <2>4. Sound(c)
    BY <2>3 DEF Sound, Installing, Preparing, Committing, Saving, Removing
  <2>. QED
    BY <1>0, <2>1, <2>3, <2>4, ContinueInv DEF Waiting
<1>. QED
  BY <1>1, <1>2, <1>3, <1>4, <1>5, <1>6

\* A call for a dependency, to install it or to take it back.
LEMMA EnterInv ==
  ASSUME IInv, NEW u \in Users, InstallDependency(u) \/ UndoDependency(u)
  PROVE  IInv'
<1>0. Running(u) /\ Top(u) \in Calls /\ Sound(Top(u)) /\ Stores'
  BY TopGood, StoresSame DEF InstallDependency, UndoDependency, At
<1>1. CASE InstallDependency(u)
  <2>1. PICK r \in Top(u).need :
          Enter(u, [Top(u) EXCEPT !.need = @ \ {r}, !.asked = {r}, !.pc = "awaiting"],
                InstallCall(r.pkg))
    BY <1>1 DEF InstallDependency
  <2>. DEFINE n == Top(u).need \ {r}
              c == [Top(u) EXCEPT !.need = n, !.asked = {r}, !.pc = "awaiting"]
  <2>2. /\ r \in Requirement /\ r.pkg \in Packages /\ n \in SUBSET Requirement
        /\ {r} \in SUBSET Requirement
    BY <1>0, <2>1 DEF Calls, Requirement
  <2>3. Enter(u, c, InstallCall(r.pkg)) /\ Top(u).pc = "deps"
    BY <1>1, <2>1 DEF InstallDependency, At
  <2>4. Top(u).op = "install" /\ Top(u).version # Nothing
    BY <1>0, <2>3 DEF Sound, Installing, Preparing
  <2>. HIDE DEF n
  <2>5. c \in Calls /\ c.pc = "awaiting" /\ c.op = "install" /\ c.version = Top(u).version
    BY <1>0, <2>2, <2>4 DEF Calls, Labels
  <2>. HIDE DEF c
  <2>6. c \in GoodCalls
    BY <2>4, <2>5 DEF GoodCalls, Sound, Installing, Preparing, Committing, Saving, Removing
  <2>7. /\ c.pc \in Waiting
        /\ InstallCall(r.pkg) \in GoodCalls /\ InstallCall(r.pkg).pc \notin Waiting
    BY <2>2, <2>5, NewCall DEF Waiting
  <2>. QED
    BY <1>0, <2>3, <2>6, <2>7, EnterKeeps DEF IInv
<1>2. CASE UndoDependency(u)
  <2>. DEFINE n == Len(Top(u).new)
              rest == SubSeq(Top(u).new, 1, n - 1)
              q == Top(u).new[n]
              c == [Top(u) EXCEPT !.new = rest, !.pc = "undoing"]
  <2>1. Enter(u, c, UninstallCall(q)) /\ Top(u).pc = "undo" /\ Top(u).new # <<>>
    BY <1>2 DEF UndoDependency, At
  <2>2. Top(u).new \in Seq(Packages) /\ n \in Nat \ {0}
    BY <1>0, <2>1, EmptySeq DEF Calls
  <2>3. q \in Packages /\ rest \in Seq(Packages)
    <3>1. \A k \in 1 .. n : Top(u).new[k] \in Packages
      BY <2>2, LenProperties
    <3>. HIDE DEF n
    <3>. QED
      BY <2>2, <3>1, SubSeqProperties
  <2>4. Top(u).op = "install"
    BY <1>0, <2>1 DEF Sound, Installing
  <2>. HIDE DEF rest, q
  <2>5. c \in Calls /\ c.pc = "undoing" /\ c.op = "install"
    BY <1>0, <2>3, <2>4 DEF Calls, Labels
  <2>. HIDE DEF c
  <2>6. c \in GoodCalls
    BY <2>5 DEF GoodCalls, Sound, Installing, Preparing, Committing, Saving, Removing
  <2>7. /\ c.pc \in Waiting
        /\ UninstallCall(q) \in GoodCalls /\ UninstallCall(q).pc \notin Waiting
    BY <2>3, <2>5, NewCall DEF Waiting
  <2>. QED
    BY <1>0, <2>1, <2>6, <2>7, EnterKeeps DEF IInv
<1>. QED
  BY <1>1, <1>2

\* What a caller does with an outcome makes a good call.
LEMMA ResumedGood ==
  ASSUME NEW c \in GoodCalls, c.pc \in Waiting, NEW d \in GoodCalls
  PROVE  Resumed(c, d) \in GoodCalls /\ Resumed(c, d).pc \notin Waiting
<1>. DEFINE n == Append(c.new, d.pkg)
            told == [c EXCEPT !.new = n, !.asked = {}]
            on == [told EXCEPT !.pc = "deps"]
            back == [c EXCEPT !.pc = "undo"]
<1>1. c \in Calls /\ Sound(c) /\ d \in Calls
  BY DEF GoodCalls
<1>2. c.op = "install" /\ (c.pc = "awaiting" => c.version # Nothing)
  BY <1>1 DEF Waiting, Sound, Installing, Preparing
<1>3. n \in Seq(Packages)
  BY <1>1, AppendProperties DEF Calls
<1>. HIDE DEF n
<1>4. /\ told \in Calls /\ told.pc = c.pc /\ told.op = "install" /\ told.version = c.version
      /\ on \in Calls /\ on.pc = "deps" /\ on.op = "install" /\ on.version = c.version
      /\ back \in Calls /\ back.pc = "undo" /\ back.op = "install"
  BY <1>1, <1>2, <1>3 DEF Calls, Labels
<1>5. /\ told \in GoodCalls
      /\ back \in GoodCalls
      /\ c.pc = "awaiting" => on \in GoodCalls
  <2>. HIDE DEF told, on, back
  <2>. QED
    BY <1>2, <1>4 DEF GoodCalls, Sound, Installing, Preparing, Committing, Saving, Removing,
       Waiting
<1>6. /\ Raised(c) \in GoodCalls /\ Raised(c).pc \notin Waiting
      /\ Interrupted(c) \in GoodCalls /\ Interrupted(c).pc \notin Waiting
      /\ Raised(told) \in GoodCalls /\ Raised(told).pc \notin Waiting
  BY <1>5, EscapesGood
<1>7. \/ Resumed(c, d) = Interrupted(c)
      \/ Resumed(c, d) = Raised(c)
      \/ Resumed(c, d) = back
      \/ Resumed(c, d) = Raised(told)
      \/ Resumed(c, d) = on /\ c.pc = "awaiting"
  BY DEF Resumed, Waiting, n
<1>. HIDE DEF told, on, back
<1>. QED
  BY <1>4, <1>5, <1>6, <1>7 DEF Waiting

\* A call ends, and its caller goes on, or its user is told.
LEMMA ReturnInv ==
  ASSUME IInv, NEW u \in Users, Return(u)
  PROVE  IInv'
<1>0. /\ Running(u) /\ Stores' /\ Top(u) \in GoodCalls
      /\ Len(calls[u]) \in Nat \ {0} /\ DOMAIN calls[u] = 1 .. Len(calls[u])
  BY StoresSame, TopGood, TopFacts DEF Return, At, IInv
<1>1. CASE Len(calls[u]) = 1
  <2>1. calls' = [calls EXCEPT ![u] = <<>>]
    BY <1>1 DEF Return
  <2>2. <<>> \in Seq(GoodCalls) /\ DOMAIN <<>> = {}
    OBVIOUS
  <2>3. calls' \in [Users -> Seq(GoodCalls)] /\ Stacked'
    BY <2>1, <2>2 DEF IInv, Stacked
  <2>. QED
    BY <1>0, <2>3 DEF IInv
<1>2. CASE Len(calls[u]) # 1
  <2>. DEFINE n == Len(calls[u]) - 1
              c == Resumed(calls[u][n], Top(u))
  <2>1. n \in 1 .. Len(calls[u]) /\ n < Len(calls[u])
    <3>. DEFINE m == Len(calls[u])
    <3>1. m \in Nat \ {0} /\ m # 1
      BY <1>0, <1>2
    <3>. HIDE DEF m
    <3>2. m - 1 \in 1 .. m /\ m - 1 < m
      BY <3>1
    <3>. QED
      BY <3>2 DEF m
  <2>2. calls[u] \in Seq(GoodCalls) /\ calls[u][n] \in GoodCalls
    BY <2>1, ElementOfSeq DEF IInv
  <2>3. calls[u][n].pc \in Waiting
    BY <1>0, <2>1 DEF IInv, Stacked
  <2>4. c \in GoodCalls /\ c.pc \notin Waiting
    BY <1>0, <2>2, <2>3, ResumedGood
  <2>5. Callers(u)[n] = calls[u][n]
    <3>1. \A k \in 1 .. Len(calls[u]) - 1 : Callers(u)[k] = calls[u][k]
      BY <1>0, TopFacts DEF IInv
    <3>. QED
      BY <2>1, <3>1
  <2>6. calls' = [calls EXCEPT ![u] = [Callers(u) EXCEPT ![Len(calls[u]) - 1] = c]]
    BY <1>2, <2>5 DEF Return
  <2>. HIDE DEF c
  <2>7. /\ calls' \in [Users -> Seq(GoodCalls)]
        /\ Len(calls'[u]) = Len(calls[u]) - 1
        /\ calls'[u][Len(calls[u]) - 1] = c
        /\ \A k \in 1 .. Len(calls[u]) - 2 : calls'[u][k] = calls[u][k]
        /\ \A w \in Users \ {u} : calls'[w] = calls[w]
    BY <1>0, <1>2, <2>4, <2>6, ResumeFacts DEF IInv
  <2>8. DOMAIN calls'[u] = 1 .. Len(calls'[u])
    BY <2>7, LenProperties
  <2>9. ASSUME NEW k \in DOMAIN calls'[u]
        PROVE  calls'[u][k].pc \in Waiting <=> k < Len(calls'[u])
    <3>1. CASE k = n
      BY <2>1, <2>4, <2>7, <3>1
    <3>2. CASE k # n
      <4>1. k \in 1 .. Len(calls[u]) - 2 /\ k \in DOMAIN calls[u] /\ k < Len(calls'[u])
            /\ k < Len(calls[u])
        BY <1>0, <2>7, <2>8, <2>9, <3>2
      <4>. QED
        BY <2>7, <4>1 DEF IInv, Stacked
    <3>. QED
      BY <3>1, <3>2
  <2>10. Stacked'
    BY <2>7, <2>9 DEF IInv, Stacked
  <2>. QED
    BY <1>0, <2>7, <2>10 DEF IInv
<1>. QED
  BY <1>1, <1>2

\* A command begins.
LEMMA BeginInv ==
  ASSUME IInv, NEW u \in Users, NEW p \in Packages, Install(u, p) \/ Uninstall(u, p)
  PROVE  IInv'
<1>1. PICK c \in {InstallCall(p), UninstallCall(p)} :
        calls' = [calls EXCEPT ![u] = <<c>>]
  BY DEF Install, Uninstall, Begin
<1>2. Stores'
  BY StoresSame DEF Install, Uninstall, Begin
<1>3. c \in GoodCalls /\ c.pc \notin Waiting
  BY NewCall DEF Waiting
<1>4. /\ <<c>> \in Seq(GoodCalls) /\ DOMAIN <<c>> = {1} /\ Len(<<c>>) = 1 /\ <<c>>[1] = c
  BY <1>3
<1>5. calls' \in [Users -> Seq(GoodCalls)]
  BY <1>1, <1>4 DEF IInv
<1>6. Stacked'
  BY <1>1, <1>3, <1>4 DEF IInv, Stacked
<1>. QED
  BY <1>2, <1>5, <1>6 DEF IInv

\* An app that begins has no calls.
LEMMA NoCalls ==
  ASSUME calls = [u \in Users |-> <<>>]
  PROVE  calls \in [Users -> Seq(GoodCalls)] /\ Stacked
<1>1. <<>> \in Seq(GoodCalls) /\ DOMAIN <<>> = {}
  OBVIOUS
<1>. QED
  BY <1>1 DEF Stacked

LEMMA InitInv == Init => IInv
<1>. SUFFICES ASSUME Init PROVE IInv
  OBVIOUS
<1>1. Empty \in Databases
  BY DEF Empty, NoRecord, Nothing, Databases, Database, Disjoint
<1>2. 1 \in FileIds /\ 1 # NoFile
  <2>1. Cardinality(Users) \in Nat
    BY UsersAssumption, FS_CardinalityType
  <2>. QED
    BY <2>1 DEF FileIds, NoFile
<1>3. Stores
  BY <1>1, <1>2 DEF Init, Stores, Content
<1>. QED
  BY <1>3, NoCalls DEF Init, IInv

\* Every step keeps the invariant.
LEMMA StepInv == IInv /\ [Next]_vars => IInv'
<1>. SUFFICES ASSUME IInv, [Next]_vars PROVE IInv'
  OBVIOUS
<1>1. ASSUME NEW u \in Users, NEW p \in Packages, Install(u, p) \/ Uninstall(u, p)
      PROVE  IInv'
  BY <1>1, BeginInv
<1>2. ASSUME NEW u \in Users, Step(u) PROVE IInv'
  <2>1. CASE InstallStep(u)
    BY <2>1, ResolveInv, EnterInv, CheckOwnersInv, CommitInv, WriteRecordInv, RollbackInv,
       RaiseInv, StoresSame DEF InstallStep, DependencyRefused, At
  <2>. QED
    BY <1>2, <2>1, RollbackInv, SaveInv, ReturnInv DEF Step
<1>3. ASSUME NEW u \in Users, Fail(u) \/ CtrlC(u) PROVE IInv'
  BY <1>3, RaiseInv, StoresSame DEF Fail, CtrlC
<1>4. CASE Kill
  <2>1. Stores' /\ calls' = [u \in Users |-> <<>>]
    BY <1>4, StoresSame DEF Kill
  <2>2. calls' \in [Users -> Seq(GoodCalls)] /\ Stacked'
    <3>1. <<>> \in Seq(GoodCalls) /\ DOMAIN <<>> = {}
      OBVIOUS
    <3>. QED
      BY <2>1, <3>1 DEF Stacked
  <2>. QED
    BY <2>1, <2>2 DEF IInv
<1>5. CASE UNCHANGED vars
  BY <1>5 DEF IInv, Stores, Stacked
<1>. QED
  BY <1>1, <1>2, <1>3, <1>4, <1>5 DEF Next, Rest

\* Every reachable state satisfies the invariant of any number of users.
THEOREM Invariance == Spec => []IInv
BY InitInv, StepInv, PTL DEF Spec

\* No file belongs to two packages of the database, however many users install,
\* uninstall and save at once, whatever fails or is killed, and whatever the
\* wheels hold and require (the check of the owners in install).
THEOREM OwnersStayDisjoint == Spec => []OwnersDisjoint
<1>1. IInv => OwnersDisjoint
  BY LoadGood DEF IInv, OwnersDisjoint, Databases, Disjoint
<1>. QED
  BY <1>1, Invariance, PTL

\* The types, with any number of users; in particular only the last call of a
\* stack does not wait.
THEOREM TypeCorrect == Spec => []TypeOK
<1>. DEFINE Ends == {"none", "ok", "failed", "raised", "interrupted", "killed"}
            Types == result \in [Users -> Ends]
<1>1. Init => Types
  BY DEF Init
<1>2. IInv /\ Types /\ [Next]_vars => Types'
  <2>. SUFFICES ASSUME IInv, Types, [Next]_vars PROVE Types'
    OBVIOUS
  <2>1. ASSUME NEW u \in Users, Return(u) PROVE Types'
    <3>1. Top(u).outcome \in Ends
      BY <2>1, TopGood DEF Return, At, Calls, Outcomes
    <3>. QED
      BY <2>1, <3>1 DEF Return
  <2>2. ASSUME NEW u \in Users, Step(u) PROVE Types'
    <3>. HIDE DEF Types
    <3>1. CASE UNCHANGED result
      BY <3>1 DEF Types
    <3>2. CASE InstallStep(u)
      BY <3>1, <3>2 DEF InstallStep, Quiet, Resolve, DependencyRefused, InstallDependency,
         Download, Unpack, SmokeTest, CheckOwners, CommitFile, Committed, RemoveObsolete,
         WriteRecord, RestoreFile, RestoreEnd, UndoDependency, UndoEnd, Finally
    <3>3. CASE LookUp(u) \/ UnlinkFile(u) \/ DropRecord(u) \/ SaveOpen(u) \/ SaveWrite(u)
               \/ SaveReplace(u) \/ SaveReplaceGone(u)
      BY <3>1, <3>3 DEF Quiet, LookUp, UnlinkFile, DropRecord, SaveOpen, SaveWrite, SaveReplace,
         SaveReplaceGone
    <3>. QED
      BY <2>1, <2>2, <3>2, <3>3 DEF Step
  <2>3. ASSUME NEW u \in Users, NEW p \in Packages, Install(u, p) \/ Uninstall(u, p)
        PROVE  Types'
    BY <2>3 DEF Install, Uninstall, Begin
  <2>4. ASSUME NEW u \in Users, Fail(u) \/ CtrlC(u) PROVE Types'
    BY <2>4 DEF Fail, CtrlC
  <2>5. CASE Kill
    BY <2>5 DEF Kill
  <2>6. CASE UNCHANGED vars
    BY <2>6
  <2>. HIDE DEF Types
  <2>. QED
    BY <2>2, <2>3, <2>4, <2>5, <2>6 DEF Next, Rest
<1>3. IInv /\ Types => TypeOK
  <2>. SUFFICES ASSUME IInv, Types PROVE TypeOK
    OBVIOUS
  <2>1. /\ tree \in [Files -> Content] /\ live \in FileIds
        /\ temp \in FileIds \union {NoFile} /\ live # temp
    BY DEF IInv, Stores
  <2>2. disk \in [FileIds -> Database \union {Torn}]
    BY DEF IInv, Stores, Databases
  <2>3. ASSUME NEW u \in Users, NEW k \in DOMAIN calls[u], NEW call, call = calls[u][k]
        PROVE  /\ call.op \in {"install", "uninstall"} /\ call.pkg \in Packages
               /\ call.pc \in Labels
               /\ (call.pc \in {"awaiting", "undoing"}) = (k < Len(calls[u]))
               /\ call.outcome \in {"ok", "failed", "raised", "interrupted"}
               /\ call.fd \in FileIds \union {NoFile}
    <3>1. calls[u] \in Seq(GoodCalls) /\ k \in 1 .. Len(calls[u])
      BY LenProperties DEF IInv
    <3>2. call \in Calls
      BY <2>3, <3>1, ElementOfSeq DEF GoodCalls
    <3>3. (call.pc \in {"awaiting", "undoing"}) <=> (k < Len(calls[u]))
      BY <2>3 DEF IInv, Stacked, Waiting
    <3>. QED
      BY <3>2, <3>3 DEF Calls, Outcomes
  <2>. QED
    BY <2>1, <2>2, <2>3 DEF TypeOK
<1>. HIDE DEF Types
<1>. QED
  BY <1>1, <1>2, <1>3, Invariance, PTL DEF Spec

-----------------------------------------------------------------------------
(* One user.                                                               *)

Wheel(call) == Wheels[Release(call)]

\* What a call read of the database is what the database holds, and what it
\* is about to save differs from it in its own record.
Fresh(call) ==
  /\ call.pc \in Committing \union {"unlink"} => call.db = Load
  /\ call.pc \in Saving =>
       /\ \A q \in Packages \ {call.pkg} : call.db[q] = Load[q]
       /\ IF call.op = "install"
          THEN /\ call.db[call.pkg].version = call.version
               /\ call.db[call.pkg].files = Wheel(call)
               /\ call.db[call.pkg].explicit \/ ~ Load[call.pkg].explicit
          ELSE call.db[call.pkg] = NoRecord
  /\ call.pc \in {"write", "replace"} => call.fd = temp /\ temp # NoFile
  /\ call.pc = "write" => disk[temp] = Torn
  /\ call.pc = "replace" => disk[temp] = call.db

\* The files it has written are there, and those it has removed are not.
Written(call) ==
  /\ call.pc = "commit" => \A f \in Wheel(call) \ call.left : tree[f] = Release(call)
  /\ call.pc = "obsolete" => call.left \intersect Wheel(call) = {}
  /\ call.op = "install" /\ call.pc \in {"obsolete"} \union Saving =>
       /\ \A f \in Wheel(call) : tree[f] = Release(call)
       /\ \A f \in call.old \ Wheel(call) : f \in call.left \/ tree[f] = Nothing
  /\ call.pc = "unlink" => call.old = Load[call.pkg].files /\ call.left \subseteq call.old
  /\ call.op = "uninstall" /\ call.pc \in {"unlink"} \union Saving =>
       \A f \in call.old : f \in call.left \/ tree[f] = Nothing
  /\ call.pc \in Saving => call.left = {}

\* What it reports is true.
Reported(call) ==
  /\ call.pc = "finally" /\ call.outcome = "failed" =>
       \A b \in call.before : \A f \in Wheel(call) : tree[f] = b[f]
  /\ call.pc \in {"finally", "done"} /\ call.outcome = "ok" =>
       IF call.op = "install"
       THEN /\ Load[call.pkg].version = call.version
            /\ Load[call.pkg].files = Wheel(call)
            /\ Verified(call.pkg)
            /\ \A f \in Wheel(call) : tree[f] = Release(call)
            /\ \A f \in call.old \ Wheel(call) : tree[f] = Nothing
       ELSE /\ ~ Has(Load, call.pkg)
            /\ \A f \in call.old : tree[f] = Nothing

\* What a rollback needs and gives: the content of each file of the wheel
\* before it was replaced, and that no dependency has a file of the wheel.
Kept(call) ==
  /\ call.pc \in {"resolve"} \union Preparing => call.before = {} /\ call.done = {}
  /\ call.pc = "commit" => call.done = Wheel(call) \ call.left /\ call.left \subseteq Wheel(call)
  /\ \A b \in call.before :
       /\ call.op = "install"
       /\ call.pc \notin {"finally", "done"} => Clear(call, Load) /\ call.version # Nothing
       /\ call.pc \notin {"finally", "done", "undo", "undoing"} =>
            /\ \A f \in call.done : call.backup[f] = b[f]
            /\ \A f \in Wheel(call) \ call.done : tree[f] = b[f]
       /\ call.pc \in {"undo", "undoing"} => \A f \in Wheel(call) : tree[f] = b[f]

\* Only a call that has ended has an outcome.
Ended(call) ==
  /\ call.pc \in {"rollback", "undo", "undoing"} => call.outcome = "failed"
  /\ call.pc \notin {"rollback", "undo", "undoing", "finally", "done"} => call.outcome = "ok"

\* The dependencies it has installed are other packages.
Others(call) == \A k \in 1 .. Len(call.new) : call.new[k] # call.pkg

Mine(call) == Kept(call) /\ Ended(call) /\ Others(call)
Last(call) == Fresh(call) /\ Written(call) /\ Reported(call)

\* Who takes a dependency back waits for the last call, an uninstall; and
\* nobody waits for a call of his own package.
Undoing(u) == \A k \in DOMAIN calls[u] : k < Len(calls[u]) =>
  /\ calls[u][k + 1].pkg # calls[u][k].pkg
  /\ calls[u][k].pc = "undoing" => k = Len(calls[u]) - 1 /\ Top(u).op = "uninstall"

OneInv(u) ==
  /\ \A k \in DOMAIN calls[u] : Mine(calls[u][k])
  /\ Running(u) => Last(Top(u))
  /\ Undoing(u)


-----------------------------------------------------------------------------
(* What the stack keeps.                                                   *)

Below(u) == {calls[u][k] : k \in 1 .. Len(calls[u]) - 1}

\* Calls of one release.
LEMMA SameRelease ==
  ASSUME NEW c, NEW d, c.pkg = d.pkg, c.version = d.version
  PROVE  Release(c) = Release(d) /\ Wheel(c) = Wheel(d) /\ \A db : Clear(c, db) <=> Clear(d, db)
BY DEF Release, Wheel, Clear

\* What a call that waits for another needs of a step.
LEMMA WaitingKeeps ==
  ASSUME NEW d \in GoodCalls, d.pc \in Waiting, Mine(d),
         d.pc = "undoing" /\ d.before # {} =>
           Clear(d, Load)' /\ \A f \in Wheel(d) : tree'[f] = tree[f]
  PROVE  Mine(d)'
<1>1. d.pc = "awaiting" \/ d.pc = "undoing"
  BY DEF Waiting
<1>2. Kept(d)'
  <2>1. CASE d.pc = "awaiting"
    BY <2>1 DEF Mine, Kept, Preparing
  <2>2. CASE d.pc = "undoing"
    BY <2>2 DEF Mine, Kept, Preparing
  <2>. QED
    BY <1>1, <2>1, <2>2
<1>3. Ended(d)' /\ Others(d)'
  BY DEF Mine, Ended, Others
<1>. QED
  BY <1>2, <1>3 DEF Mine

\* The calls below the last one.
LEMMA BelowFacts ==
  ASSUME IInv, NEW u \in Users, Running(u), OneInv(u), NEW d \in Below(u)
  PROVE  /\ d \in GoodCalls /\ d.pc \in Waiting /\ Mine(d)
         /\ d.pc = "undoing" => Top(u).op = "uninstall" /\ Top(u).pkg # d.pkg
         /\ d.pc = "undoing" /\ d.before # {} => Clear(d, Load)
<1>. PICK k \in 1 .. Len(calls[u]) - 1 : d = calls[u][k]
  BY DEF Below
<1>1. /\ Len(calls[u]) \in Nat \ {0} /\ DOMAIN calls[u] = 1 .. Len(calls[u])
      /\ Top(u) = calls[u][Len(calls[u])]
  BY TopFacts DEF IInv
<1>2. k \in DOMAIN calls[u] /\ k < Len(calls[u])
  BY <1>1
<1>3. d \in GoodCalls
  BY <1>2, ElementOfSeq, <1>1 DEF IInv
<1>4. d.pc \in Waiting /\ Mine(d)
  BY <1>2 DEF IInv, Stacked, OneInv
<1>5. d.pc = "undoing" => Top(u).op = "uninstall" /\ Top(u).pkg # d.pkg
  BY <1>1, <1>2 DEF OneInv, Undoing
<1>6. d.pc = "undoing" /\ d.before # {} => Clear(d, Load)
  BY <1>4 DEF Mine, Kept
<1>. QED
  BY <1>3, <1>4, <1>5, <1>6

\* A step of an install, and one that touches neither store, is none of their business.
LEMMA BelowKeeps ==
  ASSUME IInv, NEW u \in Users, Running(u), OneInv(u),
         Top(u).op = "install" \/ (tree' = tree /\ Load' = Load)
  PROVE  \A d \in Below(u) : Mine(d)'
<1>. SUFFICES ASSUME NEW d \in Below(u) PROVE Mine(d)'
  OBVIOUS
<1>1. /\ d \in GoodCalls /\ d.pc \in Waiting /\ Mine(d)
      /\ d.pc = "undoing" => Top(u).op = "uninstall"
      /\ d.pc = "undoing" /\ d.before # {} => Clear(d, Load)
  BY BelowFacts
<1>2. Load' = Load => (Clear(d, Load)' <=> Clear(d, Load))
  BY DEF Clear, Owners
<1>. QED
  BY <1>1, <1>2, WaitingKeeps

\* The last call goes on.
LEMMA ContinueOne ==
  ASSUME IInv, NEW u \in Users, Running(u), OneInv(u), NEW c, Continue(u, c),
         c.op = Top(u).op, c.pkg = Top(u).pkg, Mine(c)', Last(c)',
         \A d \in Below(u) : Mine(d)'
  PROVE  OneInv(u)'
<1>. DEFINE S == GoodCalls \union {c}
            n == Len(calls[u])
<1>1. calls \in [Users -> Seq(S)] /\ c \in S
  <2>1. \A s \in Seq(GoodCalls) : s \in Seq(S)
    OBVIOUS
  <2>. QED
    BY <2>1 DEF IInv
<1>2. /\ calls' \in [Users -> Seq(S)] /\ Len(calls'[u]) = n /\ calls'[u][n] = c
      /\ \A k \in 1 .. n - 1 : calls'[u][k] = calls[u][k]
  <2>. HIDE DEF S
  <2>. QED
    BY <1>1, ContinueFacts
<1>3. /\ n \in Nat \ {0} /\ DOMAIN calls[u] = 1 .. n /\ Top(u) = calls[u][n]
      /\ DOMAIN calls'[u] = 1 .. n
  <2>. HIDE DEF S
  <2>. QED
    BY <1>1, <1>2, TopFacts, LenProperties
<1>4. Top(u)' = c
  BY <1>2 DEF Top
<1>. HIDE DEF n, S
<1>5. ASSUME NEW k \in 1 .. n PROVE Mine(calls[u][k])'
  <2>1. CASE k = n
    BY <1>2, <2>1
  <2>2. CASE k # n
    <3>1. k \in 1 .. n - 1
      BY <1>3, <2>2
    <3>. PICK d : d = calls[u][k]
      OBVIOUS
    <3>2. d \in Below(u) /\ calls'[u][k] = d
      BY <1>2, <3>1 DEF Below, n
    <3>. QED
      BY <3>2
  <2>. QED
    BY <2>1, <2>2
<1>6. Last(Top(u))'
  BY <1>4
<1>7. Undoing(u)'
  <2>. SUFFICES ASSUME NEW k \in 1 .. n, k < n
                PROVE  /\ calls'[u][k + 1].pkg # calls'[u][k].pkg
                       /\ calls'[u][k].pc = "undoing" => k = n - 1 /\ Top(u)'.op = "uninstall"
    BY <1>2, <1>3 DEF Undoing
  <2>1. /\ calls[u][k + 1].pkg # calls[u][k].pkg
        /\ calls[u][k].pc = "undoing" => k = n - 1 /\ Top(u).op = "uninstall"
    BY <1>3 DEF OneInv, Undoing, n
  <2>2. k \in 1 .. n - 1 /\ (k + 1 \in 1 .. n - 1 \/ k + 1 = n)
    BY <1>3
  <2>. QED
    BY <1>2, <1>3, <1>4, <2>1, <2>2
<1>. QED
  BY <1>2, <1>3, <1>5, <1>6, <1>7 DEF OneInv

\* The last call waits for a new one.
LEMMA EnterOne ==
  ASSUME IInv, NEW u \in Users, Running(u), OneInv(u), NEW c \in GoodCalls, NEW d \in GoodCalls,
         Enter(u, c, d), Top(u).op = "install", c.pkg = Top(u).pkg, d.pkg # c.pkg,
         c.pc = "undoing" => d.op = "uninstall",
         Mine(c)', Mine(d)', Last(d)', \A e \in Below(u) : Mine(e)'
  PROVE  OneInv(u)'
<1>. DEFINE n == Len(calls[u])
<1>1. /\ calls' \in [Users -> Seq(GoodCalls)] /\ Len(calls'[u]) = n + 1
      /\ calls'[u][n] = c /\ calls'[u][n + 1] = d
      /\ \A k \in 1 .. n - 1 : calls'[u][k] = calls[u][k]
  BY EnterFacts DEF IInv
<1>2. n \in Nat \ {0} /\ DOMAIN calls[u] = 1 .. n /\ Top(u) = calls[u][n]
  BY TopFacts DEF IInv
<1>3. DOMAIN calls'[u] = 1 .. n + 1
  BY <1>1, LenProperties
<1>4. Top(u)' = d
  BY <1>1 DEF Top
<1>. HIDE DEF n
<1>5. ASSUME NEW k \in 1 .. n + 1 PROVE Mine(calls[u][k])'
  <2>1. CASE k \in {n, n + 1}
    BY <1>1, <2>1
  <2>2. CASE k \notin {n, n + 1}
    <3>1. k \in 1 .. n - 1
      BY <1>2, <2>2
    <3>. PICK e : e = calls[u][k]
      OBVIOUS
    <3>2. e \in Below(u) /\ calls'[u][k] = e
      BY <1>1, <3>1 DEF Below, n
    <3>. QED
      BY <3>2
  <2>. QED
    BY <2>1, <2>2
<1>6. Last(Top(u))'
  BY <1>4
<1>7. Undoing(u)'
  <2>. SUFFICES ASSUME NEW k \in 1 .. n + 1, k < n + 1
                PROVE  /\ calls'[u][k + 1].pkg # calls'[u][k].pkg
                       /\ calls'[u][k].pc = "undoing" => k = n /\ Top(u)'.op = "uninstall"
    BY <1>1, <1>2, <1>3 DEF Undoing
  <2>1. CASE k = n
    BY <1>1, <1>2, <1>4, <2>1
  <2>2. CASE k # n
    <3>1. k \in 1 .. n - 1 /\ (k + 1 \in 1 .. n - 1 \/ k + 1 = n) /\ k \in 1 .. n /\ k < n
      BY <1>2, <2>2
    <3>2. calls[u][k + 1].pkg # calls[u][k].pkg /\ calls[u][k].pc # "undoing"
      BY <1>2, <3>1 DEF OneInv, Undoing, n
    <3>. QED
      BY <1>1, <1>2, <3>1, <3>2
  <2>. QED
    BY <2>1, <2>2
<1>. QED
  BY <1>1, <1>3, <1>5, <1>6, <1>7 DEF OneInv

\* The last call has ended and its caller goes on.
LEMMA ResumeOne ==
  ASSUME IInv, NEW u \in Users, Running(u), OneInv(u), Len(calls[u]) # 1, NEW c \in GoodCalls,
         calls' = [calls EXCEPT ![u] = [Callers(u) EXCEPT ![Len(calls[u]) - 1] = c]],
         c.pkg = calls[u][Len(calls[u]) - 1].pkg,
         Mine(c)', Last(c)', \A e \in Below(u) : Mine(e)'
  PROVE  OneInv(u)'
<1>0. /\ calls \in [Users -> Seq(GoodCalls)] /\ Running(u) /\ Len(calls[u]) # 1
      /\ u \in Users /\ c \in GoodCalls
      /\ calls' = [calls EXCEPT ![u] = [Callers(u) EXCEPT ![Len(calls[u]) - 1] = c]]
  BY DEF IInv
<1>. DEFINE n == Len(calls[u])
<1>1. /\ calls' \in [Users -> Seq(GoodCalls)] /\ Len(calls'[u]) = Len(calls[u]) - 1
      /\ Len(calls[u]) \in Nat /\ Len(calls[u]) > 1
      /\ calls'[u][Len(calls[u]) - 1] = c
      /\ \A k \in 1 .. Len(calls[u]) - 2 : calls'[u][k] = calls[u][k]
  BY ONLY <1>0, ResumeFacts
<1>2. DOMAIN calls[u] = 1 .. n
  BY TopFacts DEF IInv
<1>3. DOMAIN calls'[u] = 1 .. n - 1
  BY <1>1, LenProperties
<1>4. Top(u)' = c
  BY <1>1 DEF Top
<1>8. /\ n \in Nat /\ n > 1 /\ Len(calls'[u]) = n - 1 /\ calls'[u][n - 1] = c
      /\ \A k \in 1 .. n - 2 : calls'[u][k] = calls[u][k]
      /\ c.pkg = calls[u][n - 1].pkg
  BY <1>1
<1>. HIDE DEF n
<1>5. ASSUME NEW k \in 1 .. n - 1 PROVE Mine(calls[u][k])'
  <2>1. CASE k = n - 1
    BY <1>8, <2>1
  <2>2. CASE k # n - 1
    <3>1. k \in 1 .. n - 2 /\ k \in 1 .. n - 1
      BY <1>8, <2>2
    <3>. PICK e : e = calls[u][k]
      OBVIOUS
    <3>2. e \in Below(u) /\ calls'[u][k] = e
      BY <1>8, <3>1 DEF Below, n
    <3>. QED
      BY <3>2
  <2>. QED
    BY <2>1, <2>2
<1>6. Last(Top(u))'
  BY <1>4
<1>7. Undoing(u)'
  <2>. SUFFICES ASSUME NEW k \in 1 .. n - 1, k < n - 1
                PROVE  /\ calls'[u][k + 1].pkg # calls'[u][k].pkg
                       /\ calls'[u][k].pc # "undoing"
    BY <1>3, <1>8 DEF Undoing
  <2>1. k \in 1 .. n - 2 /\ (k + 1 \in 1 .. n - 2 \/ k + 1 = n - 1) /\ k \in 1 .. n /\ k < n
        /\ k # n - 1
    BY <1>8
  <2>2. calls[u][k + 1].pkg # calls[u][k].pkg /\ calls[u][k].pc # "undoing"
    BY <1>2, <2>1 DEF OneInv, Undoing, n
  <2>. QED
    BY <1>8, <2>1, <2>2
<1>. QED
  BY <1>1, <1>3, <1>5, <1>6, <1>7 DEF OneInv

-----------------------------------------------------------------------------
(* Exceptions.                                                             *)

\* What the except clause and the finally clause need of a call that fails.
LEMMA RaisedOne ==
  ASSUME NEW c \in GoodCalls, Mine(c), c.pc \notin {"done", "finally"}, tree' = tree, Load' = Load
  PROVE  /\ Raised(c).op = c.op /\ Raised(c).pkg = c.pkg
         /\ Interrupted(c).op = c.op /\ Interrupted(c).pkg = c.pkg
         /\ Mine(Raised(c))' /\ Last(Raised(c))'
         /\ Mine(Interrupted(c))' /\ Last(Interrupted(c))'
<1>1. c \in Calls /\ c.op \in {"install", "uninstall"}
  BY DEF GoodCalls, Calls
<1>2. ASSUME NEW how \in {"raised", "interrupted", "failed"},
             NEW label \in {"rollback", "finally", "done"},
             NEW d, d = Leaves(c, how, label),
             label = "rollback" => c.op = "install" /\ c.pc \notin Handling /\ how = "failed",
             label = "finally" => how # "failed"
      PROVE  /\ d.op = c.op /\ d.pkg = c.pkg /\ Mine(d)' /\ Last(d)'
  <2>1. /\ d.op = c.op /\ d.pkg = c.pkg /\ d.version = c.version /\ d.pc = label
        /\ d.outcome = how /\ d.before = c.before /\ d.done = c.done /\ d.backup = c.backup
        /\ d.new = c.new
    BY <1>1, <1>2 DEF Leaves, Calls
  <2>2. Wheel(d) = Wheel(c) /\ (Clear(d, Load)' <=> Clear(c, Load))
    BY <2>1, SameRelease DEF Clear, Owners
  <2>3. Kept(d)'
    BY <1>2, <2>1, <2>2 DEF Mine, Kept, Preparing, Handling
  <2>4. Ended(d)' /\ Others(d)'
    BY <1>2, <2>1 DEF Mine, Ended, Others
  <2>5. Last(d)'
    BY <1>2, <2>1 DEF Last, Fresh, Written, Reported, Committing, Saving
  <2>. QED
    BY <2>1, <2>3, <2>4, <2>5 DEF Mine
<1>3. PICK d, e : d = Raised(c) /\ e = Interrupted(c)
  OBVIOUS
<1>4. PICK label \in {"finally", "done"} : e = Leaves(c, "interrupted", label)
  BY <1>3 DEF Interrupted, Escapes
<1>5. \/ \E l \in {"finally", "done"} : d = Leaves(c, "raised", l)
      \/ d = Leaves(c, "failed", "rollback") /\ c.op = "install" /\ c.pc \notin Handling
  BY <1>1, <1>3 DEF Raised, Escapes
<1>6. d.op = c.op /\ d.pkg = c.pkg /\ Mine(d)' /\ Last(d)'
  BY <1>2, <1>5
<1>7. e.op = c.op /\ e.pkg = c.pkg /\ Mine(e)' /\ Last(e)'
  BY <1>2, <1>4
<1>. QED
  BY <1>3, <1>6, <1>7

\* The last call of the stack.
LEMMA TopOne ==
  ASSUME IInv, NEW u \in Users, Running(u), OneInv(u)
  PROVE  /\ Top(u) \in GoodCalls /\ Top(u) \in Calls /\ Sound(Top(u))
         /\ Mine(Top(u)) /\ Last(Top(u))
<1>1. Top(u) \in GoodCalls /\ Top(u) \in Calls /\ Sound(Top(u))
  BY TopGood
<1>2. Len(calls[u]) \in DOMAIN calls[u] /\ Top(u) = calls[u][Len(calls[u])]
  BY TopFacts DEF IInv
<1>. QED
  BY <1>1, <1>2 DEF OneInv

\* An exception, or a Ctrl+C.
LEMMA RaiseOne ==
  ASSUME IInv, NEW u \in Users, Running(u), OneInv(u), UNCHANGED files,
         \/ Top(u).pc \notin {"done", "finally"} /\ Continue(u, Raised(Top(u)))
         \/ Top(u).pc # "done" /\ Continue(u, Interrupted(Top(u)))
  PROVE  OneInv(u)'
<1>1. tree' = tree /\ Load' = Load
  BY DEF Load
<1>2. Top(u) \in GoodCalls /\ Top(u) \in Calls /\ Mine(Top(u))
  BY TopOne
<1>3. \A d \in Below(u) : Mine(d)'
  BY <1>1, BelowKeeps
<1>4. PICK c : /\ Continue(u, c) /\ c \in {Raised(Top(u)), Interrupted(Top(u))}
               /\ Top(u).pc \in {"done", "finally"} => c = Interrupted(Top(u)) /\ Top(u).pc # "done"
  OBVIOUS
<1>5. CASE Top(u).pc # "finally"
  <2>1. PICK t : t = Top(u)
    OBVIOUS
  <2>2. t.pc \notin {"done", "finally"} /\ t \in GoodCalls /\ Mine(t)
    BY <1>2, <1>4, <1>5, <2>1
  <2>3. c.op = t.op /\ c.pkg = t.pkg /\ Mine(c)' /\ Last(c)'
    BY <1>1, <1>4, <2>1, <2>2, RaisedOne
  <2>. QED
    BY <1>3, <1>4, <2>1, <2>3, ContinueOne
<1>6. CASE Top(u).pc = "finally"
  <2>1. c = Leaves(Top(u), "interrupted", "done")
    BY <1>4, <1>6 DEF Interrupted, Escapes
  <2>2. /\ c.op = Top(u).op /\ c.pkg = Top(u).pkg /\ c.pc = "done" /\ c.outcome = "interrupted"
        /\ c.before = Top(u).before /\ c.new = Top(u).new
    BY <1>2, <2>1 DEF Leaves, Calls
  <2>3. Mine(c)'
    BY <1>2, <1>6, <2>2 DEF Mine, Kept, Ended, Others, Preparing
  <2>4. Last(c)'
    BY <2>2 DEF Last, Fresh, Written, Reported, Committing, Saving
  <2>. QED
    BY <1>3, <1>4, <2>2, <2>3, <2>4, ContinueOne
<1>. QED
  BY <1>5, <1>6

-----------------------------------------------------------------------------
(* The steps of install before it touches a file.                          *)

\* A call that knows nothing of the stores yet.
LEMMA EarlyCall ==
  ASSUME NEW c, c.pc \in {"resolve", "look"} \union Preparing, c.before = {}, c.done = {},
         c.outcome = "ok", Others(c)
  PROVE  Mine(c)' /\ Last(c)'
<1>1. Kept(c)' /\ Ended(c)' /\ Others(c)'
  BY DEF Kept, Ended, Others, Preparing
<1>2. Fresh(c)' /\ Written(c)' /\ Reported(c)'
  BY DEF Fresh, Written, Reported, Preparing, Committing, Saving
<1>. QED
  BY <1>1, <1>2 DEF Mine, Last

\* A new call is one.
LEMMA NewCallOne ==
  ASSUME NEW p, NEW c \in {InstallCall(p), UninstallCall(p)}
  PROVE  Mine(c)' /\ Last(c)'
<1>1. /\ c.pc \in {"resolve", "look"} /\ c.before = {} /\ c.done = {} /\ c.outcome = "ok"
      /\ c.new = <<>>
  BY DEF InstallCall, UninstallCall, Call
<1>2. Others(c)
  BY <1>1 DEF Others
<1>. QED
  BY <1>1, <1>2, EarlyCall

\* The steps of an install up to the check of the owners.
LEMMA PrepareOne ==
  ASSUME IInv, NEW u \in Users, OneInv(u),
         Resolve(u) \/ Download(u) \/ Unpack(u) \/ SmokeTest(u) \/ InstallDependency(u)
  PROVE  OneInv(u)'
<1>1. Running(u) /\ tree' = tree /\ Load' = Load
  BY DEF Resolve, Download, Unpack, SmokeTest, InstallDependency, At, Load
<1>2. Top(u) \in GoodCalls /\ Top(u) \in Calls /\ Mine(Top(u)) /\ Sound(Top(u))
  BY <1>1, TopOne
<1>3. /\ Top(u).pc \in {"resolve"} \union Preparing
      /\ Top(u).before = {} /\ Top(u).done = {} /\ Top(u).outcome = "ok" /\ Others(Top(u))
      /\ Top(u).op = "install"
  <2>1. Top(u).pc \in {"resolve", "deps", "unpack", "smoke"}
    BY DEF Resolve, Download, Unpack, SmokeTest, InstallDependency, At
  <2>. QED
    BY <1>2, <2>1 DEF Mine, Kept, Ended, Preparing, Sound, Installing
<1>4. \A d \in Below(u) : Mine(d)'
  BY <1>1, BelowKeeps
<1>5. CASE InstallDependency(u)
  <2>1. PICK r \in Top(u).need :
          /\ r.pkg \notin InProgress(u)
          /\ Enter(u, [Top(u) EXCEPT !.need = @ \ {r}, !.asked = {r}, !.pc = "awaiting"],
                   InstallCall(r.pkg))
    BY <1>5 DEF InstallDependency
  <2>2. PICK c, d : /\ c = [Top(u) EXCEPT !.need = @ \ {r}, !.asked = {r}, !.pc = "awaiting"]
                    /\ d = InstallCall(r.pkg) /\ Enter(u, c, d)
    BY <2>1
  <2>3. /\ r \in Requirement /\ {r} \in SUBSET Requirement /\ r.pkg \in Packages
        /\ Top(u).need \ {r} \in SUBSET Requirement
    BY <1>2, <2>1 DEF Calls, Requirement
  <2>4. /\ c \in Calls /\ c.pc = "awaiting" /\ c.op = "install" /\ c.version = Top(u).version
        /\ c.pkg = Top(u).pkg /\ c.before = {} /\ c.done = {} /\ c.outcome = "ok"
        /\ c.new = Top(u).new
    BY <1>2, <1>3, <2>2, <2>3 DEF Calls, Labels
  <2>5. c \in GoodCalls
    <3>1. Top(u).version # Nothing
      BY <1>2, <1>3, <1>5 DEF InstallDependency, At, Sound, Preparing
    <3>. QED
      BY <2>4, <3>1 DEF GoodCalls, Sound, Installing, Preparing, Committing, Saving, Removing
  <2>6. d \in GoodCalls /\ d.pkg = r.pkg /\ Mine(d)' /\ Last(d)'
    <3>1. d.pkg = r.pkg
      BY <2>2 DEF InstallCall, Call
    <3>. QED
      BY <2>2, <2>3, <3>1, NewCall, NewCallOne
  <2>7. r.pkg # Top(u).pkg
    <3>1. Len(calls[u]) \in DOMAIN calls[u] /\ Top(u) = calls[u][Len(calls[u])]
      BY <1>1, TopFacts DEF IInv
    <3>. QED
      BY <2>1, <3>1 DEF InProgress
  <2>8. Mine(c)'
    <3>1. Others(c)
      BY <1>3, <2>4 DEF Others
    <3>. QED
      BY <2>4, <3>1, EarlyCall DEF Preparing
  <2>. QED
    BY <1>1, <1>3, <1>4, <2>2, <2>4, <2>5, <2>6, <2>7, <2>8, EnterOne
<1>6. CASE Resolve(u) \/ Download(u) \/ Unpack(u) \/ SmokeTest(u)
  <2>1. PICK c : /\ Continue(u, c)
                 /\ \/ \E v, need : c = [Top(u) EXCEPT !.version = <<v>>, !.db = Load,
                                                       !.pc = "deps", !.need = need]
                    \/ \E l \in {"unpack", "smoke", "owners"} : c = [Top(u) EXCEPT !.pc = l]
    BY <1>6 DEF Resolve, Download, Unpack, SmokeTest, Goto
  <2>2. /\ c.pc \in Preparing /\ c.op = Top(u).op /\ c.pkg = Top(u).pkg
        /\ c.before = {} /\ c.done = {} /\ c.outcome = "ok" /\ c.new = Top(u).new
    BY <1>2, <1>3, <2>1 DEF Calls, Preparing
  <2>3. Others(c)
    BY <1>3, <2>2 DEF Others
  <2>4. Mine(c)' /\ Last(c)'
    BY <2>2, <2>3, EarlyCall
  <2>. QED
    BY <1>1, <1>4, <2>1, <2>2, <2>4, ContinueOne
<1>. QED
  BY <1>5, <1>6

-----------------------------------------------------------------------------
(* The transaction of install.                                             *)

\* The check of the owners against the database as it is now.
LEMMA CheckOwnersOne ==
  ASSUME IInv, NEW u \in Users, OneInv(u), CheckOwners(u)
  PROVE  OneInv(u)'
<1>1. Running(u) /\ Top(u).pc = "owners" /\ UNCHANGED files /\ tree' = tree /\ Load' = Load
  BY DEF CheckOwners, BeginCommit, At, Load
<1>2. Top(u) \in GoodCalls /\ Top(u) \in Calls /\ Mine(Top(u)) /\ Sound(Top(u))
  BY <1>1, TopOne
<1>3. \A d \in Below(u) : Mine(d)'
  BY <1>1, BelowKeeps
<1>4. CASE Continue(u, Raised(Top(u)))
  BY <1>1, <1>4, RaiseOne
<1>5. CASE ~ Continue(u, Raised(Top(u)))
  <2>1. PICK c : /\ Continue(u, c)
                 /\ c = [Top(u) EXCEPT !.db = Load, !.old = Load[Top(u).pkg].files,
                                       !.left = Wheels[Release(Top(u))], !.before = {tree},
                                       !.pc = "commit"]
                 /\ Clear(Top(u), Load)
    BY <1>5 DEF CheckOwners, BeginCommit, Clear
  <2>2. /\ c.pc = "commit" /\ c.op = Top(u).op /\ c.pkg = Top(u).pkg /\ c.version = Top(u).version
        /\ c.db = Load /\ c.left = Wheels[Release(Top(u))] /\ c.before = {tree}
        /\ c.done = Top(u).done /\ c.new = Top(u).new /\ c.outcome = Top(u).outcome
    BY <1>2, <2>1 DEF Calls
  <2>3. Wheel(c) = c.left /\ Clear(c, Load)'
    <3>1. Wheel(c) = Wheel(Top(u)) /\ Clear(c, Load)
      BY <2>1, <2>2, SameRelease
    <3>2. Wheel(Top(u)) = c.left
      BY <2>2 DEF Wheel
    <3>3. Clear(c, Load)'
      BY <1>1, <3>1 DEF Clear, Owners
    <3>. QED
      BY <3>1, <3>2, <3>3
  <2>4. /\ Top(u).op = "install" /\ Top(u).done = {} /\ Top(u).outcome = "ok" /\ Others(Top(u))
        /\ Top(u).version # Nothing
    BY <1>1, <1>2 DEF Sound, Installing, Preparing, Mine, Kept, Ended
  <2>5. Mine(c)'
    <3>1. Kept(c)'
      BY <1>1, <2>2, <2>3, <2>4 DEF Kept, Preparing
    <3>2. Ended(c)' /\ Others(c)'
      BY <2>2, <2>4 DEF Ended, Others
    <3>. QED
      BY <3>1, <3>2 DEF Mine
  <2>6. Last(c)'
    BY <1>1, <2>2, <2>3 DEF Last, Fresh, Written, Reported, Committing, Saving
  <2>. QED
    BY <1>1, <1>3, <2>1, <2>2, <2>5, <2>6, ContinueOne
<1>. QED
  BY <1>4, <1>5

\* A file is copied to the backup and replaced, or removed as obsolete.
LEMMA CommitOne ==
  ASSUME IInv, NEW u \in Users, OneInv(u), CommitFile(u) \/ Committed(u) \/ RemoveObsolete(u)
  PROVE  OneInv(u)'
<1>1. Running(u) /\ Top(u).pc \in {"commit", "obsolete"} /\ Load' = Load
  BY DEF CommitFile, Committed, RemoveObsolete, At, Load
<1>2. /\ Top(u) \in GoodCalls /\ Top(u) \in Calls /\ Mine(Top(u)) /\ Sound(Top(u))
      /\ Last(Top(u)) /\ tree \in [Files -> Content]
  BY <1>1, TopOne DEF IInv, Stores
<1>3. Top(u).op = "install" /\ Top(u).outcome = "ok" /\ Top(u).db = Load /\ Others(Top(u))
  BY <1>1, <1>2 DEF Sound, Installing, Committing, Mine, Ended, Last, Fresh
<1>4. \A d \in Below(u) : Mine(d)'
  BY <1>1, <1>3, BelowKeeps
<1>5. \A b \in Top(u).before :
        /\ Clear(Top(u), Load) /\ Top(u).version # Nothing
        /\ \A f \in Top(u).done : Top(u).backup[f] = b[f]
        /\ \A f \in Wheel(Top(u)) \ Top(u).done : tree[f] = b[f]
  BY <1>1, <1>2 DEF Mine, Kept
<1>6. CASE CommitFile(u)
  <2>1. PICK f, c :
          /\ f \in Top(u).left
          /\ tree' = [tree EXCEPT ![f] = Release(Top(u))]
          /\ Continue(u, c)
          /\ c = [Top(u) EXCEPT !.left = @ \ {f}, !.done = @ \union {f}, !.backup[f] = tree[f]]
    BY <1>6 DEF CommitFile
  <2>2. Top(u).pc = "commit" /\ f \in Files
    BY <1>2, <1>6, <2>1 DEF CommitFile, At, Calls
  <2>3. /\ c.pc = "commit" /\ c.op = Top(u).op /\ c.pkg = Top(u).pkg /\ c.version = Top(u).version
        /\ c.db = Top(u).db /\ c.left = Top(u).left \ {f} /\ c.done = Top(u).done \union {f}
        /\ c.backup = [Top(u).backup EXCEPT ![f] = tree[f]]
        /\ c.before = Top(u).before /\ c.new = Top(u).new /\ c.outcome = Top(u).outcome
        /\ Top(u).backup \in [Files -> Content] /\ Top(u).done \subseteq Files
    BY <1>2, <2>1, <2>2 DEF Calls
  <2>4. /\ Wheel(c) = Wheel(Top(u)) /\ Release(c) = Release(Top(u))
        /\ Clear(c, Load)' <=> Clear(Top(u), Load)
    BY <1>1, <2>3, SameRelease DEF Clear, Owners
  <2>5. Top(u).done = Wheel(c) \ Top(u).left /\ Top(u).left \subseteq Wheel(c)
    BY <1>2, <2>2, <2>4 DEF Mine, Kept
  <2>6. /\ \A g \in Wheel(c) \ Top(u).left : tree[g] = Release(c)
        /\ Wheel(c) \subseteq Files
    <3>1. \A g \in Wheel(c) \ Top(u).left : tree[g] = Release(c)
      BY <1>2, <2>2, <2>4 DEF Last, Written
    <3>2. Wheel(c) \subseteq Files
      BY <2>3, <2>5, <1>2 DEF Calls
    <3>. QED
      BY <3>1, <3>2
  <2>7. \A g \in Wheel(c) \ c.left : tree'[g] = Release(c)
    BY <1>2, <2>1, <2>2, <2>3, <2>4, <2>6
  <2>8. \A b \in c.before :
          /\ Clear(c, Load)' /\ c.version # Nothing
          /\ \A g \in c.done : c.backup[g] = b[g]
          /\ \A g \in Wheel(c) \ c.done : tree'[g] = b[g]
    <3>. SUFFICES ASSUME NEW b \in c.before
                  PROVE  /\ Clear(c, Load)' /\ c.version # Nothing
                         /\ \A g \in c.done : c.backup[g] = b[g]
                         /\ \A g \in Wheel(c) \ c.done : tree'[g] = b[g]
      OBVIOUS
    <3>1. /\ Clear(c, Load)' /\ c.version # Nothing
          /\ \A g \in Top(u).done : Top(u).backup[g] = b[g]
          /\ \A g \in Wheel(c) \ Top(u).done : tree[g] = b[g]
      BY <1>5, <2>3, <2>4
    <3>2. ASSUME NEW g \in c.done PROVE c.backup[g] = b[g]
      BY <2>1, <2>2, <2>3, <2>5, <3>1
    <3>3. ASSUME NEW g \in Wheel(c) \ c.done PROVE tree'[g] = b[g]
      BY <1>2, <2>1, <2>2, <2>3, <2>6, <3>1
    <3>. QED
      BY <3>1, <3>2, <3>3
  <2>9. Mine(c)'
    <3>1. c.done = Wheel(c) \ c.left /\ c.left \subseteq Wheel(c)
      BY <2>1, <2>3, <2>5
    <3>2. Kept(c)'
      BY <1>3, <2>3, <2>8, <3>1 DEF Kept, Preparing
    <3>3. Ended(c)' /\ Others(c)'
      BY <1>3, <2>3 DEF Ended, Others
    <3>. QED
      BY <3>2, <3>3 DEF Mine
  <2>10. Last(c)'
    BY <1>1, <1>3, <2>3, <2>7 DEF Last, Fresh, Written, Reported, Committing, Saving
  <2>. QED
    BY <1>1, <1>4, <2>1, <2>3, <2>9, <2>10, ContinueOne
<1>7. CASE Committed(u)
  <2>1. PICK c : /\ Continue(u, c) /\ tree' = tree
                 /\ c = [Top(u) EXCEPT !.left = Top(u).old \ Wheels[Release(Top(u))],
                                       !.pc = "obsolete"]
    BY <1>7 DEF Committed
  <2>2. Top(u).pc = "commit" /\ Top(u).left = {}
    BY <1>7 DEF Committed, At
  <2>3. /\ c.pc = "obsolete" /\ c.op = Top(u).op /\ c.pkg = Top(u).pkg
        /\ c.version = Top(u).version /\ c.db = Top(u).db /\ c.done = Top(u).done
        /\ c.left = Top(u).old \ Wheels[Release(Top(u))] /\ c.old = Top(u).old
        /\ c.backup = Top(u).backup
        /\ c.before = Top(u).before /\ c.new = Top(u).new /\ c.outcome = Top(u).outcome
    BY <1>2, <2>1 DEF Calls
  <2>4. /\ Wheel(c) = Wheel(Top(u)) /\ Release(c) = Release(Top(u))
        /\ Clear(c, Load)' <=> Clear(Top(u), Load)
        /\ c.left = c.old \ Wheel(c)
    BY <1>1, <2>3, SameRelease DEF Clear, Owners, Wheel
  <2>5. \A g \in Wheel(c) : tree[g] = Release(c)
    BY <1>2, <2>2, <2>4 DEF Last, Written
  <2>6. Mine(c)'
    <3>1. Kept(c)'
      BY <1>3, <1>5, <2>1, <2>3, <2>4 DEF Kept, Preparing
    <3>2. Ended(c)' /\ Others(c)'
      BY <1>3, <2>3 DEF Ended, Others
    <3>. QED
      BY <3>1, <3>2 DEF Mine
  <2>7. Last(c)'
    BY <1>1, <1>3, <2>1, <2>3, <2>4, <2>5 DEF Last, Fresh, Written, Reported, Committing, Saving
  <2>. QED
    BY <1>1, <1>4, <2>1, <2>3, <2>6, <2>7, ContinueOne
<1>8. CASE RemoveObsolete(u)
  <2>1. PICK f, c :
          /\ f \in Top(u).left
          /\ tree' = [tree EXCEPT ![f] = Nothing]
          /\ Continue(u, c)
          /\ c = [Top(u) EXCEPT !.left = @ \ {f}]
    BY <1>8 DEF RemoveObsolete
  <2>2. Top(u).pc = "obsolete" /\ f \in Files
    BY <1>2, <1>8, <2>1 DEF RemoveObsolete, At, Calls
  <2>3. /\ c.pc = "obsolete" /\ c.op = Top(u).op /\ c.pkg = Top(u).pkg
        /\ c.version = Top(u).version /\ c.db = Top(u).db /\ c.done = Top(u).done
        /\ c.left = Top(u).left \ {f} /\ c.old = Top(u).old /\ c.backup = Top(u).backup
        /\ c.before = Top(u).before /\ c.new = Top(u).new /\ c.outcome = Top(u).outcome
        /\ Top(u).old \subseteq Files
    BY <1>2, <2>1, <2>2 DEF Calls
  <2>4. /\ Wheel(c) = Wheel(Top(u)) /\ Release(c) = Release(Top(u))
        /\ Clear(c, Load)' <=> Clear(Top(u), Load)
    BY <1>1, <2>3, SameRelease DEF Clear, Owners
  <2>5. /\ f \notin Wheel(c) /\ Top(u).left \intersect Wheel(c) = {}
        /\ \A g \in Wheel(c) : tree[g] = Release(c)
        /\ \A g \in Top(u).old \ Wheel(c) : g \in Top(u).left \/ tree[g] = Nothing
    BY <1>2, <1>3, <2>1, <2>2, <2>4 DEF Last, Written
  <2>6. \A g : g # f => tree'[g] = tree[g] \/ g \notin Files
    BY <1>2, <2>1
  <2>7. Wheel(c) \subseteq Files /\ \A g \in Wheel(c) : tree'[g] = tree[g]
    <3>1. Wheel(c) \subseteq Files
      <4>1. Release(c) \in Releases
        <5>1. c.pkg \in Packages /\ c.version # Nothing /\ c.version \in Versioned
          BY <1>2, <1>3, <2>2, <2>3 DEF Calls, Sound, Committing
        <5>. QED
          BY <5>1 DEF Release, Releases, Versioned
      <4>. QED
        BY <4>1, WheelsAssumption DEF Wheel
    <3>. QED
      BY <2>5, <2>6, <3>1
  <2>8. tree'[f] = Nothing
    BY <1>2, <2>1, <2>2
  <2>9. Mine(c)'
    <3>1. Kept(c)'
      BY <1>3, <1>5, <2>3, <2>4, <2>7 DEF Kept, Preparing
    <3>2. Ended(c)' /\ Others(c)'
      BY <1>3, <2>3 DEF Ended, Others
    <3>. QED
      BY <3>1, <3>2 DEF Mine
  <2>10. Last(c)'
    <3>1. c.left \intersect Wheel(c) = {} /\ \A g \in Wheel(c) : tree'[g] = Release(c)
      BY <2>3, <2>5, <2>7
    <3>2. \A g \in c.old \ Wheel(c) : g \in c.left \/ tree'[g] = Nothing
      BY <2>3, <2>5, <2>6, <2>8
    <3>. QED
      BY <1>1, <1>3, <2>3, <3>1, <3>2 DEF Last, Fresh, Written, Reported, Committing, Saving
  <2>. QED
    BY <1>1, <1>4, <2>1, <2>3, <2>9, <2>10, ContinueOne
<1>. QED
  BY <1>6, <1>7, <1>8

\* The record of the wheel, in the database that was checked.
LEMMA WriteRecordOne ==
  ASSUME IInv, NEW u \in Users, OneInv(u), WriteRecord(u)
  PROVE  OneInv(u)'
<1>1. /\ Running(u) /\ Top(u).pc = "obsolete" /\ Top(u).left = {}
      /\ tree' = tree /\ Load' = Load
  BY DEF WriteRecord, Recorded, At, Load
<1>2. /\ Top(u) \in GoodCalls /\ Top(u) \in Calls /\ Mine(Top(u)) /\ Sound(Top(u))
      /\ Last(Top(u)) /\ Load \in Databases
  BY <1>1, TopOne, LoadGood DEF IInv
<1>3. Top(u).op = "install" /\ Top(u).outcome = "ok" /\ Top(u).db = Load /\ Others(Top(u))
  BY <1>1, <1>2 DEF Sound, Installing, Committing, Mine, Ended, Last, Fresh
<1>4. \A d \in Below(u) : Mine(d)'
  BY <1>1, BelowKeeps
<1>. DEFINE explicit == Load[Top(u).pkg].explicit \/ Len(calls[u]) = 1
<1>5. PICK record : record = [version |-> Top(u).version, files |-> Wheels[Release(Top(u))],
                              explicit |-> explicit]
  OBVIOUS
<1>6. PICK c : /\ Continue(u, c)
               /\ c = [Top(u) EXCEPT !.db = [Load EXCEPT ![Top(u).pkg] = record], !.pc = "open"]
  BY <1>3, <1>5 DEF WriteRecord, Recorded
<1>7. /\ c.pc = "open" /\ c.op = Top(u).op /\ c.pkg = Top(u).pkg /\ c.version = Top(u).version
      /\ c.db = [Load EXCEPT ![c.pkg] = record]
      /\ c.left = {} /\ c.old = Top(u).old /\ c.done = Top(u).done /\ c.backup = Top(u).backup
      /\ c.before = Top(u).before /\ c.new = Top(u).new /\ c.outcome = Top(u).outcome
      /\ c.pkg \in Packages
  BY <1>1, <1>2, <1>6 DEF Calls
<1>8. /\ Wheel(c) = Wheel(Top(u)) /\ Release(c) = Release(Top(u))
      /\ Clear(c, Load)' <=> Clear(Top(u), Load)
  BY <1>1, <1>7, SameRelease DEF Clear, Owners
<1>9. /\ c.db[c.pkg] = record /\ \A q \in Packages \ {c.pkg} : c.db[q] = Load[q]
  BY <1>2, <1>7 DEF Databases, Database
<1>10. /\ record.version = c.version /\ record.files = Wheel(c)
       /\ record.explicit \/ ~ Load[c.pkg].explicit
  BY <1>5, <1>7, <1>8 DEF Wheel
<1>11. Mine(c)'
  <2>1. Kept(c)'
    BY <1>1, <1>2, <1>3, <1>7, <1>8 DEF Mine, Kept, Preparing
  <2>2. Ended(c)' /\ Others(c)'
    BY <1>3, <1>7 DEF Ended, Others
  <2>. QED
    BY <2>1, <2>2 DEF Mine
<1>12. Last(c)'
  <2>1. Fresh(c)'
    BY <1>1, <1>3, <1>7, <1>9, <1>10 DEF Fresh, Committing, Saving
  <2>2. Written(c)'
    BY <1>1, <1>2, <1>3, <1>7, <1>8 DEF Last, Written, Saving
  <2>3. Reported(c)'
    BY <1>7 DEF Reported
  <2>. QED
    BY <2>1, <2>2, <2>3 DEF Last
<1>. QED
  BY <1>1, <1>4, <1>6, <1>7, <1>11, <1>12, ContinueOne

-----------------------------------------------------------------------------
(* The save of the database.                                               *)

\* A call that saves goes on to the next step of the save.
LEMMA SavingGoesOn ==
  ASSUME NEW c, NEW d \in Calls, Mine(d), Last(d), d.pc \in Saving,
         c.pc \in Saving, c.op = d.op, c.pkg = d.pkg, c.version = d.version, c.db = d.db,
         c.left = d.left, c.old = d.old, c.done = d.done, c.backup = d.backup,
         c.before = d.before, c.new = d.new, c.outcome = d.outcome,
         tree' = tree, Load' = Load,
         c.pc \in {"write", "replace"} => c.fd = temp' /\ temp' # NoFile,
         c.pc = "write" => disk'[temp'] = Torn,
         c.pc = "replace" => disk'[temp'] = c.db
  PROVE  Mine(c)' /\ Last(c)'
<1>1. /\ Wheel(c) = Wheel(d) /\ Release(c) = Release(d)
      /\ Clear(c, Load)' <=> Clear(d, Load)
  BY SameRelease DEF Clear, Owners
<1>2. Mine(c)'
  <2>1. Kept(c)'
    BY <1>1 DEF Mine, Kept, Preparing, Saving
  <2>2. Ended(c)' /\ Others(c)'
    BY DEF Mine, Ended, Others, Saving
  <2>. QED
    BY <2>1, <2>2 DEF Mine
<1>3. Last(c)'
  <2>1. Fresh(c)'
    BY <1>1 DEF Last, Fresh, Committing, Saving
  <2>2. Written(c)'
    BY <1>1 DEF Last, Written, Saving
  <2>3. Reported(c)'
    BY DEF Reported, Saving
  <2>. QED
    BY <2>1, <2>2, <2>3 DEF Last
<1>. QED
  BY <1>2, <1>3

\* packages.tmp is opened; packages.json stays what it is.
LEMMA SaveOpenOne ==
  ASSUME IInv, NEW u \in Users, OneInv(u), SaveOpen(u)
  PROVE  OneInv(u)' /\ Load' = Load
<1>. DEFINE held == {live} \union {Top(w).fd : w \in {x \in Users : Running(x)}}
<1>. PICK file : file = IF temp # NoFile THEN temp ELSE CHOOSE i \in FileIds \ held : TRUE
  OBVIOUS
<1>. PICK c : c = [Top(u) EXCEPT !.fd = file, !.pc = "write"]
  OBVIOUS
<1>1. /\ temp' = file /\ disk' = [disk EXCEPT ![file] = Torn] /\ Continue(u, c)
      /\ tree' = tree /\ live' = live /\ Running(u) /\ Top(u).pc = "open"
  BY DEF SaveOpen, At
<1>2. file \in FileIds /\ file # live
  <2>1. \E i : i \in FileIds \ held
    BY FreshFile
  <2>2. (CHOOSE i \in FileIds \ held : TRUE) \in FileIds \ held
    BY <2>1
  <2>. QED
    BY <1>1, <2>2 DEF IInv, Stores
<1>3. file # NoFile
  <2>1. Cardinality(Users) \in Nat
    BY UsersAssumption, FS_CardinalityType
  <2>. QED
    BY <1>2, <2>1 DEF FileIds, NoFile
<1>4. Load' = Load /\ disk'[file] = Torn
  BY <1>1, <1>2 DEF IInv, Stores, Load
<1>5. Top(u) \in Calls /\ Mine(Top(u)) /\ Last(Top(u))
  BY <1>1, TopOne
<1>6. PICK d : d = Top(u)
  OBVIOUS
<1>7. /\ c.pc = "write" /\ c.op = d.op /\ c.pkg = d.pkg
      /\ c.version = d.version /\ c.db = d.db /\ c.left = d.left
      /\ c.old = d.old /\ c.done = d.done /\ c.backup = d.backup
      /\ c.before = d.before /\ c.new = d.new /\ c.outcome = d.outcome
      /\ c.fd = file
  BY <1>1, <1>5, <1>6 DEF Calls
<1>8. Mine(c)' /\ Last(c)'
  <2>1. d \in Calls /\ Mine(d) /\ Last(d) /\ d.pc \in Saving /\ c.pc \in Saving
    BY <1>1, <1>5, <1>6, <1>7 DEF Saving
  <2>. QED
    BY <1>1, <1>3, <1>4, <1>7, <2>1, SavingGoesOn
<1>9. \A e \in Below(u) : Mine(e)'
  BY <1>1, <1>4, BelowKeeps
<1>. QED
  BY <1>1, <1>4, <1>6, <1>7, <1>8, <1>9, ContinueOne

\* packages.tmp is this call's alone, and empty: what is written is its database.
LEMMA SaveWriteOne ==
  ASSUME IInv, NEW u \in Users, OneInv(u), SaveWrite(u)
  PROVE  OneInv(u)' /\ Load' = Load
<1>1. PICK c, text : /\ c = [Top(u) EXCEPT !.pc = "replace"] /\ Continue(u, c)
                     /\ text \in {Top(u).db} \union (IF disk[Top(u).fd] = Torn THEN {} ELSE {Torn})
                     /\ disk' = [disk EXCEPT ![Top(u).fd] = text]
                     /\ tree' = tree /\ live' = live /\ temp' = temp
                     /\ Running(u) /\ Top(u).pc = "write"
  BY DEF SaveWrite, At, Goto
<1>2. Top(u) \in Calls /\ Mine(Top(u)) /\ Last(Top(u))
  BY <1>1, TopOne
<1>3. Top(u).fd = temp /\ temp # NoFile /\ disk[temp] = Torn
  BY <1>1, <1>2 DEF Last, Fresh
<1>4. Load' = Load /\ disk'[temp] = Top(u).db
  BY <1>1, <1>3 DEF IInv, Stores, Load
<1>5. PICK d : d = Top(u)
  OBVIOUS
<1>6. /\ c.pc = "replace" /\ c.op = d.op /\ c.pkg = d.pkg
      /\ c.version = d.version /\ c.db = d.db /\ c.left = d.left
      /\ c.old = d.old /\ c.done = d.done /\ c.backup = d.backup
      /\ c.before = d.before /\ c.new = d.new /\ c.outcome = d.outcome
      /\ c.fd = temp
  BY <1>1, <1>2, <1>3, <1>5 DEF Calls
<1>7. Mine(c)' /\ Last(c)'
  <2>1. d \in Calls /\ Mine(d) /\ Last(d) /\ d.pc \in Saving /\ c.pc \in Saving
    BY <1>1, <1>2, <1>5, <1>6 DEF Saving
  <2>2. c.fd = temp' /\ temp' # NoFile /\ disk'[temp'] = c.db
    BY <1>1, <1>3, <1>4, <1>5, <1>6
  <2>. QED
    BY <1>1, <1>4, <1>6, <2>1, <2>2, SavingGoesOn
<1>8. \A e \in Below(u) : Mine(e)'
  BY <1>1, <1>4, BelowKeeps
<1>. QED
  BY <1>1, <1>4, <1>5, <1>6, <1>7, <1>8, ContinueOne

\* The rename: the database of the call is the database now, and it changes in
\* the record of one package, as this call says.
LEMMA SaveReplaceOne ==
  ASSUME IInv, NEW u \in Users, OneInv(u), SaveReplace(u)
  PROVE  /\ OneInv(u)'
         /\ At(u, "replace")
         /\ \A q \in Packages \ {Top(u).pkg} : Load'[q] = Load[q]
         /\ \/ Load'[Top(u).pkg] = NoRecord
            \/ Load'[Top(u).pkg].explicit
            \/ ~ Load[Top(u).pkg].explicit
<1>1. /\ Running(u) /\ Top(u).pc = "replace" /\ temp # NoFile /\ live' = temp
      /\ disk' = [disk EXCEPT ![live] = Empty] /\ tree' = tree
      /\ Continue(u, Saved(Top(u)))
  BY DEF SaveReplace, At
<1>2. /\ Top(u) \in Calls /\ Mine(Top(u)) /\ Sound(Top(u)) /\ Last(Top(u)) /\ Top(u) \in GoodCalls
  BY <1>1, TopOne
<1>. PICK d : d = Top(u)
  OBVIOUS
<1>3. /\ d \in GoodCalls /\ d \in Calls /\ Mine(d) /\ Sound(d) /\ Last(d)
      /\ d.pc = "replace" /\ Continue(u, Saved(d))
  BY <1>1, <1>2
<1>4. disk[temp] = d.db /\ d.db \in Databases
  BY <1>3 DEF Last, Fresh, Calls
<1>5. Load' = d.db
  <2>1. d.db # Torn
    BY <1>4, TornAssumption DEF Databases
  <2>2. disk'[live'] = disk[temp]
    BY <1>1 DEF IInv, Stores
  <2>. QED
    BY <1>4, <2>1, <2>2 DEF Load
<1>6. /\ \A q \in Packages \ {d.pkg} : d.db[q] = Load[q]
      /\ d.op = "install" => /\ d.db[d.pkg].version = d.version
                             /\ d.db[d.pkg].files = Wheel(d)
                             /\ d.db[d.pkg].explicit \/ ~ Load[d.pkg].explicit
      /\ d.op # "install" => d.db[d.pkg] = NoRecord
  BY <1>3 DEF Last, Fresh, Saving
<1>7. PICK c : c = Saved(d)
  OBVIOUS
<1>8. /\ c.op = d.op /\ c.pkg = d.pkg /\ c.version = d.version /\ c.old = d.old
      /\ c.outcome = "ok" /\ c.before = d.before /\ c.new = d.new
      /\ c.pc = IF c.op = "install" THEN "finally" ELSE "done"
      /\ d.op \in {"install", "uninstall"} /\ c.pkg \in Packages
  BY <1>3, <1>7 DEF Saved, Leaves, Calls
<1>9. Wheel(c) = Wheel(d) /\ Release(c) = Release(d)
  BY <1>8, SameRelease
<1>10. Mine(c)'
  <2>1. Kept(c)'
    BY <1>3, <1>8 DEF Mine, Kept, Preparing
  <2>2. Ended(c)' /\ Others(c)'
    BY <1>3, <1>8 DEF Mine, Ended, Others
  <2>. QED
    BY <2>1, <2>2 DEF Mine
<1>11. Last(c)'
  <2>1. Fresh(c)' /\ Written(c)'
    BY <1>8 DEF Fresh, Written, Committing, Saving
  <2>2. CASE c.op = "install"
    <3>1. /\ \A f \in Wheel(c) : tree'[f] = Release(c)
          /\ \A f \in c.old \ Wheel(c) : tree'[f] = Nothing
      <4>1. /\ \A f \in Wheel(d) : tree[f] = Release(d)
            /\ \A f \in d.old \ Wheel(d) : f \in d.left \/ tree[f] = Nothing
            /\ d.left = {}
        BY <1>3, <1>8, <2>2 DEF Last, Written, Saving
      <4>. QED
        BY <1>1, <1>8, <1>9, <4>1
    <3>2. Load'[c.pkg].version = c.version /\ Load'[c.pkg].files = Wheel(c)
      BY <1>5, <1>6, <1>8, <1>9, <2>2
    <3>3. Verified(c.pkg)'
      <4>1. c.version # Nothing
        BY <1>3, <1>8, <2>2 DEF Sound, Saving
      <4>2. Has(Load', c.pkg)
        BY <3>2, <4>1 DEF Has, NoRecord
      <4>3. Release(c) # Nothing
        BY DEF Release, Nothing
      <4>. QED
        BY <3>1, <3>2, <4>2, <4>3 DEF Verified
    <3>. QED
      BY <1>8, <2>1, <2>2, <3>1, <3>2, <3>3 DEF Last, Reported
  <2>3. CASE c.op = "uninstall"
    <3>1. \A f \in c.old : tree'[f] = Nothing
      BY <1>1, <1>3, <1>8, <2>3 DEF Last, Written, Saving
    <3>2. ~ Has(Load', c.pkg)
      BY <1>5, <1>6, <1>8, <2>3 DEF Has
    <3>. QED
      BY <1>8, <2>1, <2>3, <3>1, <3>2 DEF Last, Reported
  <2>. QED
    BY <1>8, <2>2, <2>3
<1>12. \A e \in Below(u) : Mine(e)'
  <2>1. CASE d.op = "install"
    BY <1>1, <2>1, BelowKeeps
  <2>2. CASE d.op # "install"
    <3>. SUFFICES ASSUME NEW e \in Below(u) PROVE Mine(e)'
      OBVIOUS
    <3>1. /\ e \in GoodCalls /\ e.pc \in Waiting /\ Mine(e)
          /\ e.pc = "undoing" /\ e.before # {} => Clear(e, Load)
      BY <1>1, BelowFacts
    <3>2. \A q \in Packages : Load'[q].files \subseteq Load[q].files
      <4>1. \A q \in Packages \ {d.pkg} : Load'[q].files = Load[q].files
        BY <1>5, <1>6
      <4>2. Load'[d.pkg].files = {}
        BY <1>5, <1>6, <2>2 DEF NoRecord
      <4>. QED
        BY <4>1, <4>2
    <3>3. Clear(e, Load) => Clear(e, Load)'
      <4>1. Owners(Load', e.pkg) \subseteq Owners(Load, e.pkg)
        BY <3>2 DEF Owners
      <4>2. Clear(e, Load)' <=> Wheels[Release(e)] \intersect Owners(Load', e.pkg) = {}
        BY DEF Clear, Owners
      <4>. QED
        BY <4>1, <4>2 DEF Clear
    <3>. QED
      BY <1>1, <3>1, <3>3, WaitingKeeps
  <2>. QED
    BY <2>1, <2>2
<1>13. OneInv(u)'
  BY <1>1, <1>3, <1>7, <1>8, <1>10, <1>11, <1>12, ContinueOne
<1>14. /\ \A q \in Packages \ {Top(u).pkg} : Load'[q] = Load[q]
       /\ \/ Load'[Top(u).pkg] = NoRecord
          \/ Load'[Top(u).pkg].explicit
          \/ ~ Load[Top(u).pkg].explicit
  BY <1>5, <1>6
<1>. QED
  BY <1>1, <1>13, <1>14 DEF At

-----------------------------------------------------------------------------
(* The except and the finally clause.                                      *)

\* The files of the wheel are put back.
LEMMA RestoreOne ==
  ASSUME IInv, NEW u \in Users, OneInv(u), RestoreFile(u) \/ RestoreEnd(u)
  PROVE  OneInv(u)'
<1>1. Running(u) /\ Top(u).pc = "rollback" /\ Load' = Load
  BY DEF RestoreFile, RestoreEnd, At, Load
<1>2. /\ Top(u) \in GoodCalls /\ Top(u) \in Calls /\ Mine(Top(u)) /\ Sound(Top(u))
      /\ Last(Top(u)) /\ tree \in [Files -> Content]
  BY <1>1, TopOne DEF IInv, Stores
<1>3. Top(u).op = "install" /\ Top(u).outcome = "failed" /\ Others(Top(u))
  BY <1>1, <1>2 DEF Sound, Installing, Mine, Ended
<1>4. \A d \in Below(u) : Mine(d)'
  BY <1>1, <1>3, BelowKeeps
<1>5. \A b \in Top(u).before :
        /\ Clear(Top(u), Load) /\ Top(u).version # Nothing
        /\ \A f \in Top(u).done : Top(u).backup[f] = b[f]
        /\ \A f \in Wheel(Top(u)) \ Top(u).done : tree[f] = b[f]
  BY <1>1, <1>2 DEF Mine, Kept
<1>6. CASE RestoreFile(u)
  <2>1. PICK f, c :
          /\ f \in Top(u).done
          /\ tree' = [tree EXCEPT ![f] = Top(u).backup[f]]
          /\ Continue(u, c)
          /\ c = [Top(u) EXCEPT !.done = @ \ {f}]
    BY <1>6 DEF RestoreFile
  <2>2. /\ c.pc = "rollback" /\ c.op = Top(u).op /\ c.pkg = Top(u).pkg
        /\ c.version = Top(u).version /\ c.done = Top(u).done \ {f} /\ c.backup = Top(u).backup
        /\ c.before = Top(u).before /\ c.new = Top(u).new /\ c.outcome = Top(u).outcome
        /\ f \in Files
    BY <1>1, <1>2, <2>1 DEF Calls
  <2>3. Wheel(c) = Wheel(Top(u)) /\ (Clear(c, Load)' <=> Clear(Top(u), Load))
    BY <1>1, <2>2, SameRelease DEF Clear, Owners
  <2>4. ASSUME NEW b \in c.before, NEW g \in Wheel(c) \ c.done
        PROVE  tree'[g] = b[g]
    <3>1. CASE g = f
      BY <1>2, <1>5, <2>1, <2>2, <3>1
    <3>2. CASE g # f
      <4>1. g \in Wheel(Top(u)) \ Top(u).done
        BY <2>2, <2>3, <3>2
      <4>2. g \in Files => tree'[g] = tree[g]
        BY <1>2, <2>1, <3>2
      <4>3. g \in Files
        <5>1. Top(u).version # Nothing => Release(Top(u)) \in Releases
          BY <1>2 DEF Calls, Versioned, Release, Releases
        <5>2. Top(u).version # Nothing
          BY <1>5, <2>2
        <5>. QED
          BY <4>1, <5>1, <5>2, WheelsAssumption DEF Wheel
      <4>. QED
        BY <1>5, <2>2, <4>1, <4>2, <4>3
    <3>. QED
      BY <3>1, <3>2
  <2>5. Mine(c)'
    <3>1. Kept(c)'
      BY <1>3, <1>5, <2>2, <2>3, <2>4 DEF Kept, Preparing
    <3>2. Ended(c)' /\ Others(c)'
      BY <1>3, <2>2 DEF Ended, Others
    <3>. QED
      BY <3>1, <3>2 DEF Mine
  <2>6. Last(c)'
    BY <2>2 DEF Last, Fresh, Written, Reported, Committing, Saving
  <2>. QED
    BY <1>1, <1>4, <2>1, <2>2, <2>5, <2>6, ContinueOne
<1>7. CASE RestoreEnd(u)
  <2>1. PICK c : /\ Continue(u, c) /\ tree' = tree /\ Top(u).done = {}
                 /\ c = [Top(u) EXCEPT !.pc = "undo"]
    BY <1>7 DEF RestoreEnd, Goto
  <2>2. /\ c.pc = "undo" /\ c.op = Top(u).op /\ c.pkg = Top(u).pkg
        /\ c.version = Top(u).version /\ c.before = Top(u).before /\ c.new = Top(u).new
        /\ c.outcome = Top(u).outcome
    BY <1>2, <2>1 DEF Calls
  <2>3. Wheel(c) = Wheel(Top(u)) /\ (Clear(c, Load)' <=> Clear(Top(u), Load))
    BY <1>1, <2>2, SameRelease DEF Clear, Owners
  <2>4. Mine(c)'
    <3>1. Kept(c)'
      BY <1>3, <1>5, <2>1, <2>2, <2>3 DEF Kept, Preparing
    <3>2. Ended(c)' /\ Others(c)'
      BY <1>3, <2>2 DEF Ended, Others
    <3>. QED
      BY <3>1, <3>2 DEF Mine
  <2>5. Last(c)'
    BY <2>2 DEF Last, Fresh, Written, Reported, Committing, Saving
  <2>. QED
    BY <1>1, <1>4, <2>1, <2>2, <2>4, <2>5, ContinueOne
<1>. QED
  BY <1>6, <1>7

\* A dependency that the install brought is taken back, or none is left.
LEMMA UndoOne ==
  ASSUME IInv, NEW u \in Users, OneInv(u), UndoDependency(u) \/ UndoEnd(u)
  PROVE  OneInv(u)'
<1>1. Running(u) /\ Top(u).pc = "undo" /\ tree' = tree /\ Load' = Load
  BY DEF UndoDependency, UndoEnd, At, Load
<1>2. Top(u) \in GoodCalls /\ Top(u) \in Calls /\ Mine(Top(u)) /\ Sound(Top(u))
  BY <1>1, TopOne
<1>3. Top(u).op = "install" /\ Top(u).outcome = "failed" /\ Others(Top(u))
  BY <1>1, <1>2 DEF Sound, Installing, Mine, Ended
<1>4. \A d \in Below(u) : Mine(d)'
  BY <1>1, BelowKeeps
<1>5. \A b \in Top(u).before :
        /\ Clear(Top(u), Load) /\ Top(u).version # Nothing
        /\ \A f \in Wheel(Top(u)) : tree[f] = b[f]
  BY <1>1, <1>2 DEF Mine, Kept
<1>6. CASE UndoDependency(u)
  <2>. DEFINE n == Len(Top(u).new)
  <2>1. PICK rest, q : rest = SubSeq(Top(u).new, 1, n - 1) /\ q = Top(u).new[n]
    OBVIOUS
  <2>2. PICK c, d : /\ c = [Top(u) EXCEPT !.new = rest, !.pc = "undoing"]
                    /\ d = UninstallCall(q)
    OBVIOUS
  <2>3. Enter(u, c, d) /\ Top(u).new # <<>>
    BY <1>6, <2>1, <2>2 DEF UndoDependency
  <2>4. /\ Top(u).new \in Seq(Packages) /\ n \in Nat \ {0}
        /\ \A k \in 1 .. n : Top(u).new[k] \in Packages
    <3>1. Top(u).new \in Seq(Packages)
      BY <1>2 DEF Calls
    <3>. QED
      BY <2>3, <3>1, EmptySeq, LenProperties
  <2>5. /\ rest \in Seq(Packages) /\ Len(rest) = n - 1
        /\ \A k \in 1 .. n - 1 : rest[k] = Top(u).new[k]
    <3>. HIDE DEF n
    <3>1. n - 1 \in Int /\ 1 \in Int /\ n - 1 >= 0
      BY <2>4
    <3>2. \A k \in 1 .. n - 1 : Top(u).new[k] \in Packages
      BY <2>4
    <3>3. /\ SubSeq(Top(u).new, 1, n - 1) \in Seq(Packages)
          /\ Len(SubSeq(Top(u).new, 1, n - 1)) = IF 1 <= n - 1 THEN (n - 1) - 1 + 1 ELSE 0
          /\ \A k \in 1 .. (n - 1) - 1 + 1 : SubSeq(Top(u).new, 1, n - 1)[k] = Top(u).new[1 + k - 1]
      BY <3>1, <3>2, SubSeqProperties
    <3>. QED
      BY <2>1, <3>1, <3>3
  <2>6. q \in Packages /\ q # Top(u).pkg
    BY <1>3, <2>1, <2>4 DEF Others
  <2>7. /\ c \in Calls /\ c.pc = "undoing" /\ c.op = "install" /\ c.pkg = Top(u).pkg
        /\ c.version = Top(u).version /\ c.before = Top(u).before /\ c.new = rest
        /\ c.outcome = "failed"
    BY <1>2, <1>3, <2>2, <2>5 DEF Calls, Labels
  <2>8. c \in GoodCalls
    BY <2>7 DEF GoodCalls, Sound, Installing, Preparing, Committing, Saving, Removing
  <2>9. Wheel(c) = Wheel(Top(u)) /\ (Clear(c, Load)' <=> Clear(Top(u), Load))
    BY <1>1, <2>7, SameRelease DEF Clear, Owners
  <2>10. Mine(c)'
    <3>1. Kept(c)'
      BY <1>1, <1>5, <2>7, <2>9 DEF Kept, Preparing
    <3>2. Ended(c)'
      BY <2>7 DEF Ended
    <3>3. Others(c)'
      <4>. HIDE DEF n
      <4>1. \A k \in 1 .. n - 1 : k \in 1 .. n
        BY <2>4
      <4>2. \A k \in 1 .. n : Top(u).new[k] # Top(u).pkg
        BY <1>3 DEF Others, n
      <4>. QED
        BY <2>5, <2>7, <4>1, <4>2 DEF Others
    <3>. QED
      BY <3>1, <3>2, <3>3 DEF Mine
  <2>11. d \in GoodCalls /\ d.pkg = q /\ d.op = "uninstall" /\ Mine(d)' /\ Last(d)'
    <3>1. d.pkg = q /\ d.op = "uninstall"
      BY <2>2 DEF UninstallCall, Call
    <3>. QED
      BY <2>2, <2>6, <3>1, NewCall, NewCallOne
  <2>. QED
    BY <1>1, <1>3, <1>4, <2>3, <2>6, <2>7, <2>8, <2>10, <2>11, EnterOne
<1>7. CASE UndoEnd(u)
  <2>1. PICK c : Continue(u, c) /\ c = [Top(u) EXCEPT !.pc = "finally"]
    BY <1>7 DEF UndoEnd, Goto
  <2>2. /\ c.pc = "finally" /\ c.op = Top(u).op /\ c.pkg = Top(u).pkg
        /\ c.version = Top(u).version /\ c.before = Top(u).before /\ c.new = Top(u).new
        /\ c.outcome = Top(u).outcome
    BY <1>2, <2>1 DEF Calls
  <2>3. Wheel(c) = Wheel(Top(u))
    BY <2>2, SameRelease
  <2>4. Mine(c)'
    <3>1. Kept(c)'
      BY <1>3, <2>2 DEF Kept, Preparing
    <3>2. Ended(c)' /\ Others(c)'
      BY <1>3, <2>2 DEF Ended, Others
    <3>. QED
      BY <3>1, <3>2 DEF Mine
  <2>5. Last(c)'
    <3>1. Fresh(c)' /\ Written(c)'
      BY <2>2 DEF Fresh, Written, Committing, Saving
    <3>2. Reported(c)'
      BY <1>1, <1>3, <1>5, <2>2, <2>3 DEF Reported
    <3>. QED
      BY <3>1, <3>2 DEF Last
  <2>. QED
    BY <1>1, <1>4, <2>1, <2>2, <2>4, <2>5, ContinueOne
<1>. QED
  BY <1>6, <1>7

\* The finally clause changes nothing that the outcome says.
LEMMA FinallyOne ==
  ASSUME IInv, NEW u \in Users, OneInv(u), Finally(u)
  PROVE  OneInv(u)'
<1>1. Running(u) /\ Top(u).pc = "finally" /\ tree' = tree /\ Load' = Load
  BY DEF Finally, At, Load
<1>2. Top(u) \in GoodCalls /\ Top(u) \in Calls /\ Mine(Top(u)) /\ Last(Top(u))
  BY <1>1, TopOne
<1>3. \A d \in Below(u) : Mine(d)'
  BY <1>1, BelowKeeps
<1>4. PICK c : /\ Continue(u, c)
               /\ c = [Top(u) EXCEPT !.pc = "done", !.before = {},
                                     !.backup = [f \in Files |-> Nothing]]
  BY DEF Finally
<1>5. /\ c.pc = "done" /\ c.op = Top(u).op /\ c.pkg = Top(u).pkg
      /\ c.version = Top(u).version /\ c.before = {} /\ c.new = Top(u).new
      /\ c.outcome = Top(u).outcome /\ c.old = Top(u).old
  BY <1>2, <1>4 DEF Calls
<1>6. Wheel(c) = Wheel(Top(u)) /\ Release(c) = Release(Top(u))
  BY <1>5, SameRelease
<1>7. Mine(c)'
  BY <1>2, <1>5 DEF Mine, Kept, Ended, Others, Preparing
<1>8. Last(c)'
  <2>1. Fresh(c)' /\ Written(c)'
    BY <1>5 DEF Fresh, Written, Committing, Saving
  <2>2. \A p : Verified(p)' <=> Verified(p)
    BY <1>1 DEF Verified, Has
  <2>3. Reported(c)'
    BY <1>1, <1>2, <1>5, <1>6, <2>2 DEF Last, Reported, Has
  <2>. QED
    BY <2>1, <2>3 DEF Last
<1>. QED
  BY <1>1, <1>3, <1>4, <1>5, <1>7, <1>8, ContinueOne

-----------------------------------------------------------------------------
(* The steps of uninstall.                                                 *)

\* No call that removes has anything to put back.
LEMMA RemoveOne ==
  ASSUME IInv, NEW u \in Users, OneInv(u), LookUp(u) \/ UnlinkFile(u) \/ DropRecord(u)
  PROVE  OneInv(u)'
<1>1. Running(u) /\ Top(u).pc \in Removing /\ Load' = Load
  BY DEF LookUp, UnlinkFile, DropRecord, At, Load, Removing
<1>2. /\ Top(u) \in GoodCalls /\ Top(u) \in Calls /\ Mine(Top(u)) /\ Sound(Top(u))
      /\ Last(Top(u)) /\ tree \in [Files -> Content] /\ Load \in Databases
  BY <1>1, TopOne, LoadGood DEF IInv, Stores
<1>3. /\ Top(u).op = "uninstall" /\ Top(u).outcome = "ok" /\ Others(Top(u))
      /\ Top(u).before = {} /\ Top(u).pkg \in Packages
  BY <1>1, <1>2 DEF Sound, Removing, Mine, Kept, Ended, Calls
<1>4. CASE LookUp(u)
  <2>1. tree' = tree
    BY <1>4 DEF LookUp
  <2>2. \A d \in Below(u) : Mine(d)'
    BY <1>1, <2>1, BelowKeeps
  <2>. DEFINE fs == Load[Top(u).pkg].files
  <2>3. PICK c : /\ Continue(u, c)
                 /\ \/ c = [Top(u) EXCEPT !.db = Load, !.old = fs, !.left = fs, !.pc = "unlink"]
                    \/ c = [Top(u) EXCEPT !.outcome = "failed", !.pc = "done"]
    BY <1>4 DEF LookUp
  <2>. HIDE DEF fs
  <2>4. /\ c.op = "uninstall" /\ c.pkg = Top(u).pkg /\ c.before = {} /\ c.new = Top(u).new
        /\ \/ c.pc = "unlink" /\ c.db = Load /\ c.old = fs /\ c.left = fs /\ c.outcome = "ok"
           \/ c.pc = "done" /\ c.outcome = "failed"
    BY <1>2, <1>3, <2>3 DEF Calls
  <2>5. Mine(c)'
    BY <1>3, <2>4 DEF Mine, Kept, Ended, Others, Preparing
  <2>6. Last(c)'
    BY <1>1, <2>1, <2>4 DEF Last, Fresh, Written, Reported, Committing, Saving, fs
  <2>. QED
    BY <1>1, <1>3, <2>2, <2>3, <2>4, <2>5, <2>6, ContinueOne
<1>5. CASE UnlinkFile(u)
  <2>1. PICK f, c :
          /\ f \in Top(u).left
          /\ tree' = [tree EXCEPT ![f] = Nothing]
          /\ Continue(u, c)
          /\ c = [Top(u) EXCEPT !.left = @ \ {f}]
    BY <1>5 DEF UnlinkFile
  <2>2. /\ Top(u).pc = "unlink" /\ f \in Files
        /\ c.pc = "unlink" /\ c.op = "uninstall" /\ c.pkg = Top(u).pkg /\ c.before = {}
        /\ c.new = Top(u).new /\ c.outcome = "ok" /\ c.db = Top(u).db /\ c.old = Top(u).old
        /\ c.left = Top(u).left \ {f} /\ c.old \subseteq Files
    BY <1>2, <1>3, <1>5, <2>1 DEF UnlinkFile, At, Calls
  <2>3. /\ Top(u).db = Load /\ Top(u).old = Load[Top(u).pkg].files
        /\ Top(u).left \subseteq Top(u).old
        /\ \A g \in Top(u).old : g \in Top(u).left \/ tree[g] = Nothing
    BY <1>2, <1>3, <2>2 DEF Last, Fresh, Written
  <2>4. /\ tree'[f] = Nothing
        /\ \A g \in Files \ {f} : tree'[g] = tree[g]
    BY <1>2, <2>1, <2>2
  <2>5. Mine(c)'
    BY <1>3, <2>2 DEF Mine, Kept, Ended, Others, Preparing
  <2>6. Last(c)'
    <3>1. \A g \in c.old : g \in c.left \/ tree'[g] = Nothing
      BY <2>2, <2>3, <2>4
    <3>. QED
      BY <1>1, <2>2, <2>3, <3>1 DEF Last, Fresh, Written, Reported, Committing, Saving
  <2>7. ASSUME NEW e \in Below(u) PROVE Mine(e)'
    <3>1. /\ e \in GoodCalls /\ e.pc \in Waiting /\ Mine(e)
          /\ e.pc = "undoing" => Top(u).pkg # e.pkg
          /\ e.pc = "undoing" /\ e.before # {} => Clear(e, Load)
      BY <1>1, BelowFacts
    <3>2. Clear(e, Load)' <=> Clear(e, Load)
      BY <1>1 DEF Clear, Owners
    <3>3. ASSUME e.pc = "undoing", e.before # {}
          PROVE  \A g \in Wheel(e) : tree'[g] = tree[g]
      <4>1. f \in Owners(Load, e.pkg)
        BY <1>3, <2>1, <2>3, <3>1, <3>3 DEF Owners
      <4>2. f \notin Wheel(e)
        BY <3>1, <3>3, <4>1 DEF Clear, Wheel
      <4>3. Wheel(e) \subseteq Files
        <5>1. e.version # Nothing /\ e \in Calls
          BY <3>1, <3>3 DEF Mine, Kept, GoodCalls
        <5>2. Release(e) \in Releases
          BY <5>1 DEF Calls, Versioned, Release, Releases
        <5>. QED
          BY <5>2, WheelsAssumption DEF Wheel
      <4>. QED
        BY <2>4, <4>2, <4>3
    <3>. QED
      BY <3>1, <3>2, <3>3, WaitingKeeps
  <2>. QED
    BY <1>1, <1>3, <2>1, <2>2, <2>5, <2>6, <2>7, ContinueOne
<1>6. CASE DropRecord(u)
  <2>1. PICK c : /\ Continue(u, c) /\ tree' = tree
                 /\ c = [Top(u) EXCEPT !.db[Top(u).pkg] = NoRecord, !.pc = "open"]
    BY <1>6 DEF DropRecord
  <2>2. \A d \in Below(u) : Mine(d)'
    BY <1>1, <2>1, BelowKeeps
  <2>3. Top(u).pc = "unlink" /\ Top(u).left = {}
    BY <1>6 DEF DropRecord, At
  <2>4. /\ c.pc = "open" /\ c.op = "uninstall" /\ c.pkg = Top(u).pkg /\ c.before = {}
        /\ c.new = Top(u).new /\ c.outcome = "ok" /\ c.old = Top(u).old /\ c.left = {}
        /\ c.db = [Top(u).db EXCEPT ![Top(u).pkg] = NoRecord]
    BY <1>2, <1>3, <2>1, <2>3 DEF Calls
  <2>5. /\ Top(u).db = Load
        /\ \A g \in Top(u).old : tree[g] = Nothing
    BY <1>2, <1>3, <2>3 DEF Last, Fresh, Written, Committing
  <2>6. /\ c.db[c.pkg] = NoRecord
        /\ \A q \in Packages \ {c.pkg} : c.db[q] = Load[q]
    BY <1>2, <1>3, <2>4, <2>5 DEF Databases, Database
  <2>7. Mine(c)'
    BY <1>3, <2>4 DEF Mine, Kept, Ended, Others, Preparing
  <2>8. Last(c)'
    BY <1>1, <2>1, <2>4, <2>5, <2>6 DEF Last, Fresh, Written, Reported, Committing, Saving
  <2>. QED
    BY <1>1, <1>3, <2>1, <2>2, <2>4, <2>7, <2>8, ContinueOne
<1>. QED
  BY <1>4, <1>5, <1>6

-----------------------------------------------------------------------------
(* The beginning and the end of a call.                                    *)

\* A user without calls.
LEMMA IdleOne ==
  ASSUME NEW u \in Users, calls'[u] = <<>>
  PROVE  OneInv(u)'
<1>1. DOMAIN <<>> = {}
  OBVIOUS
<1>. QED
  BY <1>1 DEF OneInv, Running, Undoing

LEMMA BeginOne ==
  ASSUME IInv, NEW u \in Users, NEW p \in Packages, Install(u, p) \/ Uninstall(u, p)
  PROVE  OneInv(u)'
<1>1. PICK c \in {InstallCall(p), UninstallCall(p)} : calls' = [calls EXCEPT ![u] = <<c>>]
  BY DEF Install, Uninstall, Begin
<1>2. Mine(c)' /\ Last(c)'
  BY NewCallOne
<1>3. DOMAIN <<c>> = {1} /\ Len(<<c>>) = 1 /\ <<c>>[1] = c
  OBVIOUS
<1>4. calls'[u] = <<c>>
  BY <1>1 DEF IInv
<1>. PICK s : s = <<c>>
  OBVIOUS
<1>5. calls'[u] = s /\ DOMAIN s = {1} /\ Len(s) = 1 /\ s[1] = c
  BY <1>3, <1>4
<1>6. Top(u)' = c
  BY <1>5 DEF Top
<1>7. \A k \in DOMAIN calls'[u] : calls'[u][k] = c
  BY <1>5
<1>8. Undoing(u)'
  BY <1>5 DEF Undoing
<1>9. \A k \in DOMAIN calls'[u] : Mine(calls[u][k])'
  BY <1>2, <1>7
<1>10. Last(Top(u))'
  BY <1>2, <1>6
<1>. QED
  BY <1>8, <1>9, <1>10 DEF OneInv

\* What the caller does with the outcome.
LEMMA ResumedOne ==
  ASSUME NEW e \in GoodCalls, e.pc \in Waiting, Mine(e), NEW d \in GoodCalls, d.pkg # e.pkg,
         NEW c, c = Resumed(e, d), tree' = tree, Load' = Load
  PROVE  Mine(c)' /\ Last(c)' /\ c.pkg = e.pkg
<1>1. e \in Calls /\ Sound(e) /\ e.new \in Seq(Packages) /\ d.pkg \in Packages
  BY DEF GoodCalls, Calls
<1>2. e.op = "install" /\ e.pc \notin {"done", "finally"}
  BY <1>1 DEF Waiting, Sound, Installing, Preparing
<1>3. CASE c = Interrupted(e) \/ c = Raised(e)
  BY <1>2, <1>3, RaisedOne
<1>4. CASE e.pc = "undoing" /\ c = [e EXCEPT !.pc = "undo"]
  <2>1. /\ c.pc = "undo" /\ c.op = e.op /\ c.pkg = e.pkg /\ c.version = e.version
        /\ c.before = e.before /\ c.new = e.new /\ c.outcome = e.outcome
    BY <1>1, <1>4 DEF Calls
  <2>2. Wheel(c) = Wheel(e) /\ (Clear(c, Load)' <=> Clear(e, Load))
    BY <2>1, SameRelease DEF Clear, Owners
  <2>3. Mine(c)'
    <3>1. Kept(c)'
      BY <1>4, <2>1, <2>2 DEF Mine, Kept, Preparing
    <3>2. Ended(c)' /\ Others(c)'
      BY <1>4, <2>1 DEF Mine, Ended, Others
    <3>. QED
      BY <3>1, <3>2 DEF Mine
  <2>4. Last(c)'
    BY <2>1 DEF Last, Fresh, Written, Reported, Committing, Saving
  <2>. QED
    BY <2>1, <2>3, <2>4
<1>5. CASE e.pc = "awaiting"
  <2>. DEFINE n == Append(e.new, d.pkg)
  <2>. PICK told : told = [e EXCEPT !.new = n, !.asked = {}]
    OBVIOUS
  <2>1. /\ n \in Seq(Packages) /\ Len(n) = Len(e.new) + 1 /\ Len(e.new) \in Nat
        /\ \A k \in 1 .. Len(e.new) : n[k] = e.new[k]
        /\ n[Len(e.new) + 1] = d.pkg
    BY <1>1, AppendProperties, LenProperties
  <2>. HIDE DEF n
  <2>2. /\ told.pc = "awaiting" /\ told.op = "install" /\ told.pkg = e.pkg
        /\ told.version = e.version /\ told.before = e.before /\ told.done = e.done
        /\ told.new = n /\ told.outcome = e.outcome /\ told \in Calls
    BY <1>1, <1>2, <1>5, <2>1 DEF Calls
  <2>3. Others(told)
    <3>1. \A k \in 1 .. Len(e.new) : e.new[k] # e.pkg
      BY DEF Mine, Others
    <3>2. \A k \in 1 .. Len(n) : k \in 1 .. Len(e.new) \/ k = Len(e.new) + 1
      BY <2>1
    <3>. QED
      BY <2>1, <2>2, <3>1, <3>2 DEF Others
  <2>4. e.before = {} /\ e.done = {} /\ e.outcome = "ok"
    BY <1>5 DEF Mine, Kept, Ended, Preparing
  <2>5. CASE c = [told EXCEPT !.pc = "deps"]
    <3>1. /\ c.pc = "deps" /\ c.pkg = e.pkg /\ c.before = {} /\ c.done = {} /\ c.outcome = "ok"
          /\ c.new = told.new
      BY <2>2, <2>4, <2>5 DEF Calls
    <3>2. Others(c)
      BY <2>2, <2>3, <3>1 DEF Others
    <3>. QED
      BY <3>1, <3>2, EarlyCall DEF Preparing
  <2>6. CASE c = Raised(told)
    <3>1. told \in GoodCalls
      BY <1>1, <1>5, <2>2
         DEF GoodCalls, Sound, Installing, Preparing, Committing, Saving, Removing
    <3>2. Mine(told)
      BY <2>2, <2>3, <2>4 DEF Mine, Kept, Ended, Preparing
    <3>. QED
      BY <2>2, <2>6, <3>1, <3>2, RaisedOne
  <2>7. c \in {Interrupted(e), Raised(e), [told EXCEPT !.pc = "deps"], Raised(told)}
    BY <1>5 DEF Resumed, n
  <2>. QED
    BY <1>3, <2>5, <2>6, <2>7
<1>6. e.pc = "undoing" => c \in {Interrupted(e), Raised(e), [e EXCEPT !.pc = "undo"]}
  BY DEF Resumed
<1>. QED
  BY <1>3, <1>4, <1>5, <1>6 DEF Waiting

\* A call ends.
LEMMA ReturnOne ==
  ASSUME IInv, NEW u \in Users, OneInv(u), Return(u)
  PROVE  OneInv(u)'
<1>1. Running(u) /\ tree' = tree /\ Load' = Load
  BY DEF Return, At, Load
<1>2. CASE Len(calls[u]) = 1
  <2>1. calls'[u] = <<>>
    BY <1>2 DEF Return, IInv
  <2>. QED
    BY <2>1, IdleOne
<1>3. CASE Len(calls[u]) # 1
  <2>1. /\ Len(calls[u]) \in Nat \ {0} /\ DOMAIN calls[u] = 1 .. Len(calls[u])
        /\ Top(u) = calls[u][Len(calls[u])] /\ Top(u) \in GoodCalls
        /\ \A k \in 1 .. Len(calls[u]) - 1 : Callers(u)[k] = calls[u][k]
    BY <1>1, TopFacts DEF IInv
  <2>2. PICK m : m = Len(calls[u])
    OBVIOUS
  <2>3. m \in Nat /\ m - 1 \in 1 .. m - 1 /\ m - 1 \in 1 .. m /\ m - 1 < m /\ (m - 1) + 1 = m
    <3>1. m \in Nat \ {0} /\ m # 1
      BY <1>3, <2>1, <2>2
    <3>. QED
      BY ONLY <3>1
  <2>4. PICK e, d, c : e = calls[u][m - 1] /\ d = Top(u) /\ c = Resumed(e, d)
    OBVIOUS
  <2>5. e \in Below(u) /\ Callers(u)[m - 1] = e
    BY <2>1, <2>2, <2>3, <2>4 DEF Below
  <2>6. e \in GoodCalls /\ e.pc \in Waiting /\ Mine(e)
    BY <1>1, <2>5, BelowFacts
  <2>7. d.pkg # e.pkg
    BY <2>1, <2>2, <2>3, <2>4 DEF OneInv, Undoing
  <2>8. Mine(c)' /\ Last(c)' /\ c.pkg = e.pkg
    BY <1>1, <2>1, <2>4, <2>6, <2>7, ResumedOne
  <2>9. c \in GoodCalls
    BY <2>1, <2>4, <2>6, ResumedGood
  <2>10. calls' = [calls EXCEPT ![u] = [Callers(u) EXCEPT ![Len(calls[u]) - 1] = c]]
    BY <1>3, <2>2, <2>4, <2>5 DEF Return
  <2>11. \A b \in Below(u) : Mine(b)'
    BY <1>1, BelowKeeps
  <2>. QED
    BY <1>1, <1>3, <2>2, <2>4, <2>8, <2>9, <2>10, <2>11, ResumeOne
<1>. QED
  BY <1>2, <1>3

\* A step of the user, or a failure or Ctrl+C that meets it.
LEMMA StepOne ==
  ASSUME IInv, NEW u \in Users, OneInv(u), Step(u) \/ Fail(u) \/ CtrlC(u)
  PROVE  OneInv(u)'
<1>1. CASE InstallStep(u)
  <2>1. CASE DependencyRefused(u)
    BY <2>1, RaiseOne DEF DependencyRefused, At
  <2>. QED
    BY <1>1, <2>1, PrepareOne, CheckOwnersOne, CommitOne, WriteRecordOne, RestoreOne, UndoOne,
       FinallyOne DEF InstallStep
<1>2. CASE SaveReplaceGone(u)
  BY <1>2, RaiseOne DEF SaveReplaceGone, At
<1>3. CASE Fail(u) \/ CtrlC(u)
  BY <1>3, RaiseOne DEF Fail, CtrlC
<1>. QED
  BY <1>1, <1>2, <1>3, RemoveOne, SaveOpenOne, SaveWriteOne, SaveReplaceOne, ReturnOne DEF Step

\* Nothing changes.
LEMMA StutterOne ==
  ASSUME NEW u \in Users, OneInv(u), UNCHANGED vars
  PROVE  OneInv(u)'
<1>1. tree' = tree /\ disk' = disk /\ live' = live /\ temp' = temp /\ calls' = calls
  OBVIOUS
<1>2. Load' = Load
  BY <1>1 DEF Load
<1>3. ASSUME NEW c, Mine(c) PROVE Mine(c)'
  BY <1>1, <1>2, <1>3 DEF Mine, Kept, Ended, Others, Clear, Owners
<1>4. ASSUME NEW c, Last(c) PROVE Last(c)'
  BY <1>1, <1>2, <1>4 DEF Last, Fresh, Written, Reported, Verified, Has
<1>5. \A k \in DOMAIN calls'[u] : Mine(calls[u][k])'
  <2>. SUFFICES ASSUME NEW k \in DOMAIN calls'[u] PROVE Mine(calls[u][k])'
    OBVIOUS
  <2>. PICK c : c = calls[u][k]
    OBVIOUS
  <2>1. Mine(c) /\ calls'[u][k] = c
    BY <1>1 DEF OneInv
  <2>. QED
    BY <1>3, <2>1
<1>6. Running(u)' => Last(Top(u))'
  <2>. PICK c : c = Top(u)
    OBVIOUS
  <2>1. Top(u)' = c /\ (Running(u)' => Running(u))
    BY <1>1 DEF Top, Running
  <2>. QED
    BY <1>4, <2>1 DEF OneInv
<1>7. Undoing(u)'
  BY <1>1 DEF OneInv, Undoing, Top
<1>. QED
  BY <1>5, <1>6, <1>7 DEF OneInv

\* The invariant of one user.
LEMMA NextOne ==
  ASSUME NEW u, Users = {u}, IInv, OneInv(u), [Next]_vars
  PROVE  OneInv(u)'
<1>1. ASSUME NEW w \in Users, NEW p \in Packages, Install(w, p) \/ Uninstall(w, p)
      PROVE  OneInv(u)'
  BY <1>1, BeginOne
<1>2. ASSUME NEW w \in Users, Step(w) \/ Fail(w) \/ CtrlC(w)
      PROVE  OneInv(u)'
  BY <1>2, StepOne
<1>3. CASE Kill
  BY <1>3, IdleOne DEF Kill
<1>4. CASE UNCHANGED vars
  BY <1>4, StutterOne
<1>. QED
  BY <1>1, <1>2, <1>3, <1>4 DEF Next, Rest

LEMMA InitOne ==
  ASSUME NEW u, Users = {u}, Init
  PROVE  OneInv(u)
<1>1. calls[u] = <<>>
  BY DEF Init
<1>2. DOMAIN <<>> = {}
  OBVIOUS
<1>. QED
  BY <1>1, <1>2 DEF OneInv, Running, Undoing

\* With one user every reachable state satisfies the invariant of one user.
THEOREM OneUser ==
  ASSUME NEW u, Users = {u}
  PROVE  Spec => [](IInv /\ OneInv(u))
<1>1. Init => OneInv(u)
  BY InitOne
<1>2. IInv /\ OneInv(u) /\ [Next]_vars => OneInv(u)'
  BY NextOne
<1>. QED
  BY <1>1, <1>2, InitInv, StepInv, PTL DEF Spec

\* With one user, what zpip reports is true: an install or an uninstall that
\* ends well has done all of it, whatever an earlier kill, Ctrl+C or failed
\* rollback left in the tree and in the database.
THEOREM ReportsAreTrue ==
  ASSUME NEW u, Users = {u}
  PROVE  Spec => []OkMeansDone
<1>1. IInv /\ OneInv(u) => OkMeansDone
  BY DEF OneInv, Last, Reported, OkMeansDone, Wheel
<1>. QED
  BY <1>1, OneUser, PTL

\* With one user, an install that says it was rolled back has put back every
\* file of its wheel, although the dependencies were taken back after that.
THEOREM RollbackIsComplete ==
  ASSUME NEW u, Users = {u}
  PROVE  Spec => []FailureRestores
<1>1. IInv /\ OneInv(u) => FailureRestores
  BY DEF OneInv, Last, Reported, FailureRestores, Wheel, At
<1>. QED
  BY <1>1, OneUser, PTL

\* With one user, a record of the database changes only when a transaction of
\* its package ends, and then it goes or keeps that the user asked for it.
THEOREM RecordsAreKept ==
  ASSUME NEW u, Users = {u}
  PROVE  Spec => RecordsStand
<1>1. IInv /\ OneInv(u) /\ [Next]_vars => [OnlyOwnRecord]_vars
  <2>. SUFFICES ASSUME IInv, OneInv(u), Next PROVE OnlyOwnRecord
    OBVIOUS
  <2>1. Load' = Load => OnlyOwnRecord
    BY DEF OnlyOwnRecord
  <2>2. ASSUME NEW w \in Users, Step(w) PROVE OnlyOwnRecord
    <3>1. CASE SaveReplace(w)
      <4>1. /\ At(w, "replace")
            /\ \A q \in Packages \ {Top(w).pkg} : Load'[q] = Load[q]
            /\ \/ Load'[Top(w).pkg] = NoRecord
               \/ Load'[Top(w).pkg].explicit
               \/ ~ Load[Top(w).pkg].explicit
        BY <3>1, SaveReplaceOne
      <4>. QED
        BY <4>1 DEF OnlyOwnRecord
    <3>2. CASE SaveOpen(w) \/ SaveWrite(w)
      BY <2>1, <3>2, SaveOpenOne, SaveWriteOne
    <3>3. CASE UNCHANGED <<disk, live>>
      BY <2>1, <3>3 DEF Load
    <3>4. CASE InstallStep(w)
      BY <3>3, <3>4 DEF InstallStep, Resolve, DependencyRefused, InstallDependency, Download,
         Unpack, SmokeTest, CheckOwners, CommitFile, Committed, RemoveObsolete, WriteRecord,
         RestoreFile, RestoreEnd, UndoDependency, UndoEnd, Finally
    <3>5. CASE LookUp(w) \/ UnlinkFile(w) \/ DropRecord(w) \/ SaveReplaceGone(w) \/ Return(w)
      BY <3>3, <3>5 DEF LookUp, UnlinkFile, DropRecord, SaveReplaceGone, Return
    <3>. QED
      BY <2>2, <3>1, <3>2, <3>4, <3>5 DEF Step
  <2>3. CASE UNCHANGED <<disk, live>>
    BY <2>1, <2>3 DEF Load
  <2>4. ASSUME NEW w \in Users, NEW p \in Packages, Install(w, p) \/ Uninstall(w, p)
        PROVE  OnlyOwnRecord
    BY <2>3, <2>4 DEF Install, Uninstall, Begin
  <2>5. ASSUME NEW w \in Users, Fail(w) \/ CtrlC(w) PROVE OnlyOwnRecord
    BY <2>3, <2>5 DEF Fail, CtrlC
  <2>6. CASE Kill \/ Rest
    BY <2>3, <2>6 DEF Kill, Rest
  <2>. QED
    BY <2>2, <2>4, <2>5, <2>6 DEF Next
<1>. QED
  BY <1>1, OneUser, PTL DEF Spec, RecordsStand
=============================================================================
