---- MODULE MCCredential ----
(* Credential on a small instance: see README.md, "Runs". *)
EXTENDS Credential
====
