--------------------------- MODULE MCInstallView ---------------------------
(* InstallView with a channel that fills up: see the .cfg files.           *)
EXTENDS InstallView
=============================================================================
