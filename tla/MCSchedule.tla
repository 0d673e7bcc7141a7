---- MODULE MCSchedule ----
(* RefreshSchedule in half seconds: see README.md, "Runs". *)
EXTENDS RefreshSchedule
====
