------------------------------- MODULE MCZpip -------------------------------
(***************************************************************************)
(* Zpip for TLC.  app needs lib, and base in its second version; lib needs *)
(* the second version of base, whose first version needs app: a cycle.     *)
(* "shared" is in app's and in lib's first wheel: an ownership conflict.   *)
(***************************************************************************)
EXTENDS Zpip, TLC

MCWheels == [r \in Releases |->
  CASE r = <<"app", 1>>  -> {"app.py", "shared"}
    [] r = <<"app", 2>>  -> {"app.py", "extra"}
    [] r = <<"lib", 1>>  -> {"lib.py", "shared"}
    [] r = <<"lib", 2>>  -> {"lib.py"}
    [] r = <<"base", 1>> -> {"base.py"}
    [] r = <<"base", 2>> -> {"base.py"}]

AnyVersion(p) == [pkg |-> p, versions |-> Versions]
Second(p) == [pkg |-> p, versions |-> {2}]

MCRequires == [r \in Releases |->
  CASE r = <<"app", 1>>  -> {AnyVersion("lib")}
    [] r = <<"app", 2>>  -> {AnyVersion("lib"), AnyVersion("base")}
    [] r[1] = "lib"      -> {Second("base")}
    [] r = <<"base", 1>> -> {AnyVersion("app")}
    [] r = <<"base", 2>> -> {}]

\* For two users: wheels without requirements.
NoRequires == [r \in Releases |-> {}]

UserSymmetry == Permutations(Users)

=============================================================================
