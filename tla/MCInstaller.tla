---------------------------- MODULE MCInstaller ----------------------------
(* Installer for the recipes of the .cfg files.                            *)
EXTENDS Installer
=============================================================================
