---- MODULE LoginSessions ----
(***************************************************************************)
(* The device-login half of the plugin: the process-wide session store of  *)
(* src/auth.go, handleLoginStart, and handleLoginPoll with the statements  *)
(* at which two calls can interleave, together with what the calls meet:   *)
(* the host that polls, the x.ai token endpoint that answers (external),   *)
(* the network that drops answers, and a plugin reload that empties the    *)
(* store while the host keeps the metadata of StartLogin.                  *)
(*                                                                         *)
(* The store maps a login state to a *pointer*: a poll keeps the pointer   *)
(* after the mutex of the store is released, so two polls may share one    *)
(* loginSession, or hold two of them for one state.  Objs are the          *)
(* addresses, heap what they point to.                                     *)
(***************************************************************************)
EXTENDS Naturals, FiniteSets

CONSTANTS
    States,               \* login states handed out by handleLoginStart
    Pollers,              \* host threads that may be inside auth.login.poll
    Objs,                 \* addresses of loginSession values
    None,                 \* the nil session
    Second,               \* clock ticks per second: metadata keeps whole seconds
    DefaultPollInterval,  \* 5 s in the code; floor of the interval, slow_down step
    DefaultExpiry,        \* 30 min in the code, when expires_in is not positive
    PruneGrace,           \* 10 min in the code
    Intervals, Expiries,  \* what upstream may answer for interval and expires_in
    MaxClock, MaxInterval, MaxReloads, MaxDrops    \* bounds of the exploration

ASSUME NoneAssumption == None \notin Objs /\ None \notin States
ASSUME TimeAssumption ==
    /\ Second \in Nat \ {0}
    /\ DefaultPollInterval \in Nat \ {0} /\ DefaultExpiry \in Nat /\ PruneGrace \in Nat
    /\ Intervals \subseteq Nat /\ Expiries \subseteq Nat
    /\ \A i \in Intervals \cup {DefaultPollInterval} : i % Second = 0
ASSUME BoundAssumption == {MaxClock, MaxInterval, MaxReloads, MaxDrops} \subseteq Nat

VARIABLES
    clock,      \* time.Now()
    sessions,   \* sessions.sessions: the object a state points to, or None
    heap,       \* the loginSession at each address
    poll,       \* where each handleLoginPoll call stands
    reply,      \* what StartLogin returned: metadata and promised deadline
    code,       \* the device code as the x.ai token endpoint sees it
    successes,  \* how many "success" responses the host received
    failed,     \* whether the host received an "error" response
    asked,      \* history: the interval upstream has asked for so far
    due,        \* history: when upstream expects the next exchange
    reloads, drops

vars == <<clock, sessions, heap, poll, reply, code, successes, failed, asked, due,
          reloads, drops>>
store == <<sessions, heap>>
told == <<successes, failed>>
history == <<asked, due>>
faults == <<reloads, drops>>

Codes == {"unissued", "pending", "approved", "refused", "consumed"}
Outcomes == {"none", "pending", "slow_down", "error", "success"}
PCs == {"idle", "restore", "gate", "send", "wait", "answered", "save"}

\* A loginSession; its device code is named by the login state it was issued to.
Session == [code : States, interval : Nat, expiresAt : Nat, nextAttempt : Nat]

\* The StartLogin answer: metadata in whole seconds; deadline is history, the end
\* of the lifetime that upstream granted.
Reply == [interval : Nat, expiresAt : Nat, deadline : Nat]

Call == [pc : PCs, state : States \cup {None}, session : Objs \cup {None},
         now : Nat, interval : Nat, outcome : Outcomes]

Idle == [pc |-> "idle", state |-> None, session |-> None, now |-> 0, interval |-> 0,
         outcome |-> "none"]

TypeOK ==
    /\ clock \in Nat
    /\ sessions \in [States -> Objs \cup {None}]
    /\ heap \in [Objs -> Session]
    /\ poll \in [Pollers -> Call]
    /\ reply \in [States -> Reply]
    /\ code \in [States -> Codes]
    /\ successes \in [States -> Nat]
    /\ failed \in [States -> BOOLEAN]
    /\ asked \in [States -> Nat] /\ due \in [States -> Nat]
    /\ reloads \in Nat /\ drops \in Nat

Init ==
    /\ clock = 0
    /\ sessions = [s \in States |-> None]
    /\ heap \in [Objs -> {[code |-> s, interval |-> 0, expiresAt |-> 0, nextAttempt |-> 0] :
                          s \in States}]
    /\ poll = [p \in Pollers |-> Idle]
    /\ reply = [s \in States |-> [interval |-> 0, expiresAt |-> 0, deadline |-> 0]]
    /\ code = [s \in States |-> "unissued"]
    /\ successes = [s \in States |-> 0]
    /\ failed = [s \in States |-> FALSE]
    /\ asked = [s \in States |-> 0] /\ due = [s \in States |-> 0]
    /\ reloads = 0 /\ drops = 0

-----------------------------------------------------------------------------
(* The session store: put, delete and the prune inside put.                *)

\* An address no one points to, for a new loginSession.
Free(o) ==
    /\ \A s \in States : sessions[s] # o
    /\ \A p \in Pollers : poll[p].session # o

\* Slip: the grace period is subtracted from the expiry.
Stale_GraceSubtracted(o) == clock + PruneGrace > heap[o].expiresAt
Stale(o) == clock > heap[o].expiresAt + PruneGrace

Put(s, o) ==
    sessions' = [t \in States |->
                    IF t = s THEN o
                    ELSE IF sessions[t] # None /\ Stale(sessions[t]) THEN None
                    ELSE sessions[t]]

Delete(s) == sessions' = [sessions EXCEPT ![s] = None]

Resume(p, pc) == poll' = [poll EXCEPT ![p].pc = pc]
Return(p) == poll' = [poll EXCEPT ![p] = Idle]

\* The response is an "error" status (or, for an unknown state, an error envelope).
TellError(s) == failed' = [failed EXCEPT ![s] = TRUE] /\ UNCHANGED successes

-----------------------------------------------------------------------------
(* auth.login.start                                                        *)

AtLeastDefault_Verbatim(i) == i    \* Slip: no floor under upstream's interval.
AtLeastDefault(i) == IF i < DefaultPollInterval THEN DefaultPollInterval ELSE i
Lifetime(e) == IF e = 0 THEN DefaultExpiry ELSE e

\* time.RFC3339 has no fractional seconds.
WholeSeconds(t) == (t \div Second) * Second

\* History, kept apart from what the handler computes: the wait that upstream
\* may expect between two exchanges, five seconds when it names none or less
\* (RFC 8628), and the life of the code, 30 minutes when upstream names none.
Expected(i) == IF i <= DefaultPollInterval THEN DefaultPollInterval ELSE i
Granted(e) == IF 0 < e THEN e ELSE DefaultExpiry

Start(s, i, e) ==
    /\ code[s] = "unissued"
    /\ clock + Lifetime(e) < MaxClock
    /\ \E o \in Objs :
        /\ Free(o)
        /\ Put(s, o)
        /\ heap' = [heap EXCEPT ![o] = [code |-> s, interval |-> AtLeastDefault(i),
                                        expiresAt |-> clock + Lifetime(e), nextAttempt |-> clock]]
    /\ reply' = [reply EXCEPT ![s] = [interval |-> AtLeastDefault(i),
                                      expiresAt |-> WholeSeconds(clock + Lifetime(e)),
                                      deadline |-> clock + Granted(e)]]
    /\ code' = [code EXCEPT ![s] = "pending"]
    /\ asked' = [asked EXCEPT ![s] = Expected(i)]
    /\ UNCHANGED <<clock, poll, told, due, faults>>

-----------------------------------------------------------------------------
(* auth.login.poll, one action per point at which another call can run     *)

\* The host asks about a login it started, until it is told "success".
MayPoll(p, s) ==
    /\ poll[p].pc = "idle"
    /\ code[s] # "unissued" /\ successes[s] = 0

PollGet(p, s) ==
    /\ MayPoll(p, s) /\ sessions[s] # None
    /\ poll' = [poll EXCEPT ![p] = [Idle EXCEPT !.pc = "gate", !.state = s,
                                                !.session = sessions[s]]]
    /\ UNCHANGED <<clock, store, reply, code, told, history, faults>>

\* sessionFromMetadata.  The host returns the metadata of StartLogin intact, or
\* not at all (PollUnknown): the handler's fall-backs for an interval or an
\* expiry that is missing or unreadable are not taken.
Rebuilt_FreshExpiry(s) ==   \* Slip: login_expires_at is not read back.
    [code |-> s, interval |-> reply[s].interval, expiresAt |-> clock + DefaultExpiry,
     nextAttempt |-> clock]
Rebuilt(s) ==
    [code |-> s, interval |-> reply[s].interval, expiresAt |-> reply[s].expiresAt,
     nextAttempt |-> clock]

PollRebuild(p, s) ==
    /\ MayPoll(p, s) /\ sessions[s] = None
    /\ \E o \in Objs :
        /\ Free(o)
        /\ heap' = [heap EXCEPT ![o] = Rebuilt(s)]
        /\ poll' = [poll EXCEPT ![p] = [Idle EXCEPT !.pc = "restore", !.state = s,
                                                    !.session = o]]
    /\ UNCHANGED <<clock, sessions, reply, code, told, history, faults>>

\* No session, and a host that lost the metadata.
PollUnknown(p, s) ==
    /\ MayPoll(p, s) /\ sessions[s] = None
    /\ TellError(s)
    /\ UNCHANGED <<clock, store, poll, reply, code, history, faults>>

PollRestore(p) ==
    /\ poll[p].pc = "restore"
    /\ Put(poll[p].state, poll[p].session)
    /\ Resume(p, "gate")
    /\ UNCHANGED <<clock, heap, reply, code, told, history, faults>>

Expired_Never(o) == FALSE   \* Slip: the plugin leaves the expiry to upstream.
Expired(o) == clock > heap[o].expiresAt

Early(o) == clock < heap[o].nextAttempt

PollExpired(p) ==
    /\ poll[p].pc = "gate" /\ Expired(poll[p].session)
    /\ Delete(poll[p].state)
    /\ TellError(poll[p].state)
    /\ Return(p)
    /\ UNCHANGED <<clock, heap, reply, code, history, faults>>

PollEarly(p) ==
    /\ poll[p].pc = "gate" /\ ~Expired(poll[p].session) /\ Early(poll[p].session)
    /\ Return(p)
    /\ UNCHANGED <<clock, store, reply, code, told, history, faults>>

PollAdmit(p) ==
    /\ poll[p].pc = "gate" /\ ~Expired(poll[p].session) /\ ~Early(poll[p].session)
    /\ poll' = [poll EXCEPT ![p].pc = "send", ![p].now = clock]
    /\ UNCHANGED <<clock, store, reply, code, told, history, faults>>

\* session.Interval is read, and the token request leaves.
PollSend(p) ==
    /\ poll[p].pc = "send"
    /\ poll' = [poll EXCEPT ![p].pc = "wait", ![p].interval = heap[poll[p].session].interval]
    /\ UNCHANGED <<clock, store, reply, code, told, history, faults>>

-----------------------------------------------------------------------------
(* The answer of the token endpoint, as exchangeDeviceCode classifies it.  *)

Answer(p, outcome) == poll' = [poll EXCEPT ![p].pc = "answered", ![p].outcome = outcome]

Device(p) == heap[poll[p].session].code    \* session.DeviceCode, sent with the request

Waiting(p, c) == poll[p].pc = "wait" /\ code[Device(p)] = c

AnswerPending(p) ==
    LET s == Device(p) IN
    /\ Waiting(p, "pending")
    /\ Answer(p, "pending")
    /\ due' = [due EXCEPT ![s] = poll[p].now + asked[s]]
    /\ UNCHANGED <<clock, store, reply, code, told, asked, faults>>

AnswerSlowDown(p) ==
    LET s == Device(p) IN
    /\ Waiting(p, "pending")
    /\ asked[s] + DefaultPollInterval <= MaxInterval
    /\ Answer(p, "slow_down")
    /\ asked' = [asked EXCEPT ![s] = @ + DefaultPollInterval]
    /\ due' = [due EXCEPT ![s] = poll[p].now + asked[s] + DefaultPollInterval]
    /\ UNCHANGED <<clock, store, reply, code, told, faults>>

\* The code is turned into tokens exactly once.
AnswerGrant(p) ==
    /\ Waiting(p, "approved")
    /\ Answer(p, "success")
    /\ code' = [code EXCEPT ![Device(p)] = "consumed"]
    /\ UNCHANGED <<clock, store, reply, told, history, faults>>

\* access_denied, expired_token, or invalid_grant for a code already used.
AnswerRefuse(p) ==
    /\ Waiting(p, "refused") \/ Waiting(p, "consumed")
    /\ Answer(p, "error")
    /\ UNCHANGED <<clock, store, reply, code, told, history, faults>>

\* The request or its answer is lost or unreadable: postTokenForm fails.  When
\* only the answer is lost, an approved code has been spent.
Drop(p) ==
    /\ poll[p].pc = "wait" /\ drops < MaxDrops
    /\ drops' = drops + 1
    /\ Answer(p, "error")
    /\ \/ UNCHANGED code
       \/ Waiting(p, "approved") /\ code' = [code EXCEPT ![Device(p)] = "consumed"]
    /\ UNCHANGED <<clock, store, reply, told, history, reloads>>

-----------------------------------------------------------------------------
(* The rest of handleLoginPoll, after the exchange                         *)

\* exchangeDeviceCode's NextInterval, from the interval read before the request.
NextInterval_Doubled(call) ==    \* Slip: exponential back-off.
    IF call.outcome = "slow_down" THEN 2 * call.interval ELSE call.interval
NextInterval_Kept(call) == call.interval    \* Slip: slow_down treated as pending.
NextInterval_Shortened(call) ==    \* Slip: the step is taken off.
    IF call.outcome = "slow_down" THEN call.interval - DefaultPollInterval ELSE call.interval
NextInterval(call) ==
    IF call.outcome = "slow_down" THEN call.interval + DefaultPollInterval ELSE call.interval

PollRecord_FromLastAttempt(p) ==    \* Slip: NextAttempt is advanced, not set.
    LET call == poll[p] IN
    /\ call.pc = "answered" /\ call.outcome \in {"pending", "slow_down"}
    /\ heap' = [heap EXCEPT
                  ![call.session].nextAttempt = @ + NextInterval(call),
                  ![call.session].interval = IF call.outcome = "slow_down"
                                             THEN NextInterval(call) ELSE @]
    /\ Resume(p, "save")
    /\ UNCHANGED <<clock, sessions, reply, code, told, history, faults>>

\* The shared loginSession is written without the mutex of the store; now is the
\* time at which the exchange was started.
PollRecord(p) ==
    LET call == poll[p] IN
    /\ call.pc = "answered" /\ call.outcome \in {"pending", "slow_down"}
    /\ heap' = [heap EXCEPT
                  ![call.session].nextAttempt = call.now + NextInterval(call),
                  ![call.session].interval = IF call.outcome = "slow_down"
                                             THEN NextInterval(call) ELSE @]
    /\ Resume(p, "save")
    /\ UNCHANGED <<clock, sessions, reply, code, told, history, faults>>

PollSave(p) ==
    /\ poll[p].pc = "save"
    /\ Put(poll[p].state, poll[p].session)
    /\ Return(p)
    /\ UNCHANGED <<clock, heap, reply, code, told, history, faults>>

PollFail_ToldSuccess(p) ==    \* Slip: an error outcome falls through to success.
    LET s == poll[p].state IN
    /\ poll[p].pc = "answered" /\ poll[p].outcome = "error"
    /\ Delete(s)
    /\ successes' = [successes EXCEPT ![s] = @ + 1]
    /\ Return(p)
    /\ UNCHANGED <<clock, heap, failed, reply, code, history, faults>>
PollFail(p) ==
    /\ poll[p].pc = "answered" /\ poll[p].outcome = "error"
    /\ Delete(poll[p].state)
    /\ TellError(poll[p].state)
    /\ Return(p)
    /\ UNCHANGED <<clock, heap, reply, code, history, faults>>

PollSucceed_SessionKept(p) ==    \* Slip: the session is not deleted on success.
    LET s == poll[p].state IN
    /\ poll[p].pc = "answered" /\ poll[p].outcome = "success"
    /\ successes' = [successes EXCEPT ![s] = @ + 1]
    /\ Return(p)
    /\ UNCHANGED <<clock, store, failed, reply, code, history, faults>>
PollSucceed(p) ==
    LET s == poll[p].state IN
    /\ poll[p].pc = "answered" /\ poll[p].outcome = "success"
    /\ Delete(s)
    /\ successes' = [successes EXCEPT ![s] = @ + 1]
    /\ Return(p)
    /\ UNCHANGED <<clock, heap, failed, reply, code, history, faults>>

-----------------------------------------------------------------------------
(* The environment                                                         *)

Tick ==
    /\ clock < MaxClock
    /\ clock' = clock + 1
    /\ UNCHANGED <<store, poll, reply, code, told, history, faults>>

\* The user decides at x.ai; a code that runs out there counts as refused.
Approve(s) ==
    /\ code[s] = "pending"
    /\ code' = [code EXCEPT ![s] = "approved"]
    /\ UNCHANGED <<clock, store, poll, reply, told, history, faults>>

Refuse(s) ==
    /\ code[s] \in {"pending", "approved"}
    /\ code' = [code EXCEPT ![s] = "refused"]
    /\ UNCHANGED <<clock, store, poll, reply, told, history, faults>>

\* The plugin is unloaded and loaded again: the store is new, calls in flight die.
Reload ==
    /\ reloads < MaxReloads
    /\ reloads' = reloads + 1
    /\ sessions' = [s \in States |-> None]
    /\ poll' = [p \in Pollers |-> Idle]
    /\ UNCHANGED <<clock, heap, reply, code, told, history, drops>>

-----------------------------------------------------------------------------
PollBegin(p, s) == PollGet(p, s) \/ PollRebuild(p, s)
PollStep(p) == \/ PollRestore(p)
               \/ PollExpired(p) \/ PollEarly(p) \/ PollAdmit(p)
               \/ PollSend(p)
               \/ PollRecord(p) \/ PollSave(p) \/ PollFail(p) \/ PollSucceed(p)
Exchange(p) == AnswerPending(p) \/ AnswerSlowDown(p) \/ AnswerGrant(p) \/ AnswerRefuse(p)

Next ==
    \/ \E s \in States, i \in Intervals, e \in Expiries : Start(s, i, e)
    \/ \E p \in Pollers, s \in States : PollBegin(p, s) \/ PollUnknown(p, s)
    \/ \E p \in Pollers : PollStep(p) \/ Exchange(p) \/ Drop(p)
    \/ Tick
    \/ \E s \in States : Approve(s) \/ Refuse(s)
    \/ Reload

Spec == Init /\ [][Next]_vars

\* A host that asks about each login one poll at a time, from whatever thread.
OnePollPerLogin == \A p, q \in Pollers :
    poll[p].state # None /\ poll[p].state = poll[q].state => p = q

SequentialSpec == Init /\ [][Next /\ OnePollPerLogin']_vars

\* Time passes, a call in flight is scheduled, the HTTP client's timeout ends
\* every exchange, and a host thread that keeps becoming free keeps polling each
\* login it was not told the end of.
Fairness ==
    /\ WF_vars(Tick)
    /\ \A p \in Pollers : WF_vars(PollStep(p)) /\ WF_vars(Exchange(p))
    /\ \A s \in States : SF_vars(\E p \in Pollers : PollBegin(p, s))

FairSpec == Spec /\ Fairness

-----------------------------------------------------------------------------
(* Properties                                                              *)

\* p has the tokens of s in hand, and nobody else can get them any more.
Holds(p, s) == poll[p].state = s /\ poll[p].outcome = "success"

\* However polls race, fail or are restarted, the host receives at most one
\* credential per login, only once the device code was spent, and never while
\* another poll still has tokens for it.
OneCredential ==
    \A s \in States :
        /\ successes[s] <= 1
        /\ successes[s] = 1 => code[s] = "consumed" /\ \A p \in Pollers : ~Holds(p, s)
        /\ \A p, q \in Pollers : Holds(p, s) /\ Holds(q, s) => p = q

\* No exchange is admitted after the deadline StartLogin promised, whatever
\* object the poll goes by: the one in the store, one that was replaced under
\* it, or one rebuilt from metadata.  The time meant is the one handleLoginPoll
\* reads before its checks; an admitted exchange may leave later.
ExchangesWithinDeadline ==
    \A p \in Pollers :
        poll[p].pc \in {"send", "wait", "answered", "save"} =>
            poll[p].now <= reply[poll[p].state].deadline

\* A login never waits longer than upstream asked for: no stored NextAttempt
\* lies more than the requested interval in the future.
NoExcessBackoff ==
    \A s \in States : sessions[s] # None => heap[sessions[s]].nextAttempt <= clock + asked[s]

\* While no exchange failed and the plugin was not reloaded, the polls of a
\* host that asks one at a time are never admitted before upstream expects them,
\* however the slow_down answers add up.  Both are counted from the time the
\* plugin read before the previous exchange, as handleLoginPoll counts them.
PacingKept ==
    [][\A p \in Pollers :
         LET s == poll[p].state IN
         poll[p].pc = "gate" /\ poll'[p].pc = "send" /\ ~failed[s] /\ reloads = 0
            => clock >= due[s]]_vars

\* A session is only given up when its promised deadline is reached (to the
\* second the metadata keeps), when its exchange ended, or with the plugin: a
\* neighbour's put, or a rebuild, never takes a live login away.
LiveSessionsSurvive ==
    [][\A s \in States :
         sessions[s] # None /\ sessions'[s] = None =>
            \/ reloads' # reloads
            \/ clock + Second > reply[s].deadline
            \/ \E p \in Pollers : /\ poll[p].state = s
                                  /\ poll[p].pc = "answered"
                                  /\ poll[p].outcome \in {"error", "success"}]_vars

\* login_test.go: "session should be consumed after login success".
ConsumedOnSuccess == \A s \in States : successes[s] > 0 => sessions[s] = None

\* auth.go: "slow_down bookkeeping survives between polls": when no poll is
\* under way, the interval kept for a login is the one upstream asked for.
SlowDownSurvives ==
    \A s \in States :
        sessions[s] # None /\ reloads = 0 /\ ~failed[s]
            /\ (\A p \in Pollers : poll[p].state # s)
            => heap[sessions[s]].interval = asked[s]

\* Every started login comes to an end the host is told about: a credential or
\* an error.
EveryLoginSettles ==
    \A s \in States : code[s] = "pending" ~> (successes[s] > 0 \/ failed[s])

-----------------------------------------------------------------------------
(* The device login of LoginContract that a state of this module stands for. *)

LoginOf(s) ==
    IF successes[s] > 0 THEN "delivered"
    ELSE IF code[s] = "unissued" THEN "none"
    ELSE IF code[s] = "pending" THEN "open"
    ELSE IF code[s] # "consumed" THEN code[s]
    ELSE IF \E p \in Pollers : Holds(p, s) THEN "granted" ELSE "lost"

LoginMap == [s \in States |-> LoginOf(s)]

Contract == INSTANCE LoginContract WITH login <- LoginMap

\* The plugin keeps the contract of a device login at every step.
ImplementsContract == Contract!ContractSpec
====
