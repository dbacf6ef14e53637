------------------------- MODULE MCVaultExplorer -------------------------
(* Two names and paths of up to two of them. *)
EXTENDS VaultExplorer

MCNames == {"notes", "scans"}
MCFolders == {<<"notes">>, <<"notes", "scans">>}
MCOneFolder == {<<"notes">>}
=============================================================================
