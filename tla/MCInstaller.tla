----------------------------- MODULE MCInstaller -----------------------------
(* Instances of Installer: a few releases.                                 *)
EXTENDS Installer
=============================================================================
