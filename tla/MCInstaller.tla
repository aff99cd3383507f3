----------------------------- MODULE MCInstaller -----------------------------
(* Installer with two commands running at once and one poll of patience.    *)
EXTENDS Installer
=============================================================================
