---- MODULE LoginContract ----
(***************************************************************************)
(* What a device login promises to the operator who started it, whatever   *)
(* the number of status requests racing on it and whatever fails on the    *)
(* way: one approval by the user yields at most one credential, a          *)
(* credential reaches the host only out of an approval, and a login that   *)
(* upstream refused, or whose tokens were lost on the way, never yields    *)
(* one.  LoginSessions implements it (ImplementsContract).                 *)
(***************************************************************************)

CONSTANT States                  \* the logins that can be started

VARIABLE login                   \* login[s]: how far login s has come

Phases == {"none", "open", "approved", "refused", "granted", "delivered", "lost"}

ContractInit == login = [s \in States |-> "none"]

Move(s, from, to) ==
    /\ login[s] \in from
    /\ login' = [login EXCEPT ![s] = to]

Open(s) == Move(s, {"none"}, "open")
Approve(s) == Move(s, {"open"}, "approved")

\* The user declines, or the device code runs out upstream.
Refuse(s) == Move(s, {"open", "approved"}, "refused")

\* Upstream turns the approval into tokens; the device code is spent.
Grant(s) == Move(s, {"approved"}, "granted")

\* The host is told "success" and receives the credential.
Deliver(s) == Move(s, {"granted"}, "delivered")

\* The tokens of every login of S are spent upstream and reach no one: the
\* response was lost, or the plugin went away while it held them.
Lose(S) ==
    /\ \A s \in S : login[s] \in {"approved", "granted"}
    /\ login' = [s \in States |-> IF s \in S THEN "lost" ELSE login[s]]

ContractNext ==
    \/ \E s \in States : Open(s) \/ Approve(s) \/ Refuse(s) \/ Grant(s) \/ Deliver(s)
    \/ \E S \in SUBSET States : Lose(S)

ContractSpec == ContractInit /\ [][ContractNext]_login
====
