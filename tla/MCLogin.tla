---- MODULE MCLogin ----
(***************************************************************************)
(* LoginSessions on small instances: see README.md, "Runs".  The view      *)
(* leaves out what no guard and no property can tell apart: the contents   *)
(* of an address nothing points to, and by how much an instant that is     *)
(* only ever compared with the clock has passed.                           *)
(***************************************************************************)
EXTENDS LoginSessions, TLC

Symmetry == Permutations(States) \cup Permutations(Pollers) \cup Permutations(Objs)

Ahead(t) == IF t <= clock THEN 0 ELSE t

Live(o) == IF Free(o) THEN None ELSE [heap[o] EXCEPT !.nextAttempt = Ahead(@)]

View == <<clock, sessions, [o \in Objs |-> Live(o)], poll, reply, code, successes,
          failed, asked, [s \in States |-> Ahead(due[s])], reloads, drops>>
====
