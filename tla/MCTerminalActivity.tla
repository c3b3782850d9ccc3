------------------------- MODULE MCTerminalActivity -------------------------
(* TerminalActivity for TLC, by itself.                                    *)
EXTENDS TerminalActivity
=============================================================================
