---------------------------- MODULE MCWebSession ----------------------------
(* An administrator and a student share a window.  Academics stands for the  *)
(* other tabs that switchTab treats alike.                                   *)
EXTENDS WebSession

CONSTANTS admin, student

MCUsers == {admin, student}
MCAdmins == {admin}
MCTabs == {"dashboard", "academics", "mcp", "diagnostics"}
=============================================================================
