---------------------------- MODULE MCPtySession ----------------------------
(* PtySession for TLC: the users are interchangeable.                      *)
EXTENDS PtySession, TLC

UserSymmetry == Permutations(Users)
=============================================================================
