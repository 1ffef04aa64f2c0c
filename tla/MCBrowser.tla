----------------------------- MODULE MCBrowser -----------------------------
(* One session that may reconnect, with three attempts per outage.         *)
EXTENDS SettingsDialog
=============================================================================
