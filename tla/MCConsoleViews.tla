--------------------------- MODULE MCConsoleViews ---------------------------
(* Two users in one window.                                                  *)
EXTENDS ConsoleViews

CONSTANTS ann, bob

MCUsers == {ann, bob}
=============================================================================
