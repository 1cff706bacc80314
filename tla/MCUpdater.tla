------------------------------ MODULE MCUpdater ------------------------------
(* An instance of Updater for TLC. *)
EXTENDS Updater

CONSTANTS gui, runtime, script, guide, manifest

Release == <<gui, guide, runtime, script, manifest>>
=============================================================================
