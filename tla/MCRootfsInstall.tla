--------------------------- MODULE MCRootfsInstall ---------------------------
(* RootfsInstall for TLC.                                                  *)
EXTENDS RootfsInstall
=============================================================================
