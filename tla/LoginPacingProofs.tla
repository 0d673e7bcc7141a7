---- MODULE LoginPacingProofs ----
(***************************************************************************)
(* No login waits longer than x.ai asked for, for every number of logins,  *)
(* polls and addresses: the intervals and next attempts that the calls and *)
(* the sessions hold never run ahead of the answers, however they are      *)
(* shared.                                                                 *)
(***************************************************************************)
EXTENDS LoginSessionsProofs

\* A session asks no more of its login than upstream did.
Paced(o, s) == heap[o].interval <= asked[s] /\ heap[o].nextAttempt <= clock + asked[s]

\* A call past the gate was let through by now, and will record no more than `limit`.
CallPaced(c, time, limit) ==
    /\ c.pc \in Sent => c.now <= time
    /\ c.pc \in {"wait", "answered"} => c.interval <= limit
    /\ c.pc = "answered" => NextInterval(c) <= limit

BackoffInv ==
    /\ \A s \in States : sessions[s] # None => Paced(sessions[s], s)
    /\ \A p \in Pollers : poll[p].pc # "idle" =>
        /\ Paced(poll[p].session, poll[p].state)
        /\ CallPaced(poll[p], clock, asked[poll[p].state])
    /\ \A s \in States : code[s] # "unissued" => reply[s].interval <= asked[s]

\* Steps that only move pointers, while time and the intervals asked for grow.
Rises ==
    /\ clock <= clock'
    /\ \A s \in States : asked[s] <= asked'[s]
    /\ \A s \in States : code'[s] # "unissued" => code[s] # "unissued"
Paces == \A o \in Objs : /\ heap'[o].interval = heap[o].interval
                         /\ heap'[o].nextAttempt = heap[o].nextAttempt
CallsPaced == \A p \in Pollers : poll'[p].pc # "idle" =>
                CallPaced(poll'[p], clock', asked'[poll'[p].state])

-----------------------------------------------------------------------------
(* Steps that write no session                                             *)

\* A session in bounds stays there while it is not written.
LEMMA PacedRises ==
    ASSUME TypeInv, TypeInv', Rises, Paces, NEW s \in States, NEW o \in Objs, Paced(o, s)
    PROVE Paced(o, s)'
<1>1. /\ heap'[o].interval = heap[o].interval /\ heap'[o].nextAttempt = heap[o].nextAttempt
      /\ clock <= clock' /\ asked[s] <= asked'[s]
      BY DEF Rises, Paces
<1>2. /\ heap[o].interval \in Nat /\ heap[o].nextAttempt \in Nat
      /\ clock \in Nat /\ clock' \in Nat /\ asked[s] \in Nat /\ asked'[s] \in Nat
      BY DEF TypeInv, TypeOK, Session
<1> QED BY <1>1, <1>2 DEF Paced

\* Whoever gets a session by a moved pointer gets one in bounds.
LEMMA MoveKeepsBackoff ==
    ASSUME TypeInv, TypeInv', AliasInv, BackoffInv, PointersMove, Rises, Paces, CallsPaced
    PROVE BackoffInv'
<1> USE DEF TypeInv, TypeOK
<1>1. ASSUME NEW s \in States, sessions'[s] # None PROVE Paced(sessions[s], s)'
  <2>1. PICK o \in Objs : sessions'[s] = o /\ Paced(o, s)
    <3>1. CASE sessions'[s] = sessions[s] BY <1>1, <3>1 DEF BackoffInv
    <3>2. CASE sessions'[s] # sessions[s]
      <4>1. PICK p \in Pollers : /\ poll[p].pc # "idle" /\ poll[p].state = s
                                 /\ sessions'[s] = poll[p].session
            BY <1>1, <3>2 DEF PointersMove
      <4>2. poll[p].session \in Objs BY <4>1 DEF Bound
      <4> QED BY <4>1, <4>2 DEF BackoffInv
    <3> QED BY <3>1, <3>2
  <2>2. Paced(o, s)' BY <2>1, PacedRises
  <2> QED BY <2>1, <2>2 DEF Paced
<1>2. ASSUME NEW p \in Pollers, poll'[p].pc # "idle"
      PROVE Paced(poll[p].session, poll[p].state)'
  <2>1. PICK s \in States, o \in Objs :
          poll'[p].state = s /\ poll'[p].session = o /\ Paced(o, s)
    <3>1. CASE /\ poll[p].pc # "idle"
               /\ poll'[p].state = poll[p].state /\ poll'[p].session = poll[p].session
          BY <3>1 DEF Bound, BackoffInv
    <3>2. CASE /\ poll'[p].state \in States /\ sessions[poll'[p].state] # None
               /\ poll'[p].session = sessions[poll'[p].state]
          BY <3>2 DEF BackoffInv
    <3> QED BY <1>2, <3>1, <3>2 DEF PointersMove
  <2>2. Paced(o, s)' BY <2>1, PacedRises
  <2> QED BY <2>1, <2>2 DEF Paced
<1>3. ASSUME NEW s \in States, code'[s] # "unissued"
      PROVE reply'[s].interval <= asked'[s]
  <2>1. reply'[s] = reply[s] /\ reply[s].interval <= asked[s] /\ asked[s] <= asked'[s]
        BY <1>3 DEF PointersMove, Rises, BackoffInv
  <2>2. reply[s].interval \in Nat /\ asked[s] \in Nat /\ asked'[s] \in Nat BY DEF Reply
  <2> QED BY <2>1, <2>2
<1> QED BY <1>1, <1>2, <1>3 DEF BackoffInv, CallsPaced

\* A call that waits stays in bounds while time and the intervals asked for grow.
LEMMA CallPacedRises ==
    ASSUME NEW c \in Call, NEW t \in Nat, NEW u \in Nat, NEW k \in Nat, NEW l \in Nat,
           t <= u, k <= l, CallPaced(c, t, k)
    PROVE CallPaced(c, u, l)
<1>1. c.now \in Nat /\ c.interval \in Nat /\ NextInterval(c) \in Nat
      BY TimeAssumption DEF Call, NextInterval
<1> QED BY <1>1 DEF CallPaced

\* The calls that a step leaves as they are stay in bounds.
LEMMA OtherCalls ==
    ASSUME TypeInv, TypeInv', BackoffInv, Rises, NEW p \in Pollers, poll[p].pc # "idle",
           poll'[p] = poll[p]
    PROVE CallPaced(poll'[p], clock', asked'[poll'[p].state])
<1>1. /\ poll[p] \in Call /\ poll[p].state \in States
      /\ clock \in Nat /\ clock' \in Nat /\ clock <= clock'
      BY DEF TypeInv, TypeOK, Bound, Rises
<1>2. /\ asked[poll[p].state] \in Nat /\ asked'[poll[p].state] \in Nat
      /\ asked[poll[p].state] <= asked'[poll[p].state]
      BY <1>1 DEF TypeInv, TypeOK, Rises
<1>3. CallPaced(poll[p], clock, asked[poll[p].state]) BY DEF BackoffInv
<1> QED BY <1>1, <1>2, <1>3, CallPacedRises

\* Steps that let no call past the gate, record nothing and ask for nothing.
Quiet ==
    /\ Rises /\ Paces
    /\ \A p \in Pollers : \/ poll'[p].pc \in {"idle", "restore", "gate"}
                          \/ poll'[p] = poll[p]

\* A quiet step leaves every call within what upstream asked for.
LEMMA QuietCalls ==
    ASSUME TypeInv, TypeInv', BackoffInv, Quiet PROVE CallsPaced
<1> SUFFICES ASSUME NEW p \in Pollers, poll'[p].pc # "idle"
             PROVE CallPaced(poll'[p], clock', asked'[poll'[p].state])
    BY DEF CallsPaced
<1>1. CASE poll'[p].pc \in {"restore", "gate"} BY <1>1 DEF CallPaced, Sent
<1>2. CASE poll'[p] = poll[p] BY <1>2, OtherCalls DEF Quiet
<1> QED BY <1>1, <1>2 DEF Quiet

\* The quiet steps: sessions come and go, and calls end or come to the gate.
LEMMA StepIsQuiet ==
    ASSUME TypeInv,
           \/ \E p \in Pollers, s \in States : PollGet(p, s) \/ PollUnknown(p, s)
           \/ \E p \in Pollers : \/ PollRestore(p) \/ PollExpired(p) \/ PollEarly(p)
                                \/ PollSave(p) \/ PollFail(p) \/ PollSucceed(p)
           \/ Tick \/ Reload
           \/ \E s \in States : Approve(s) \/ Refuse(s)
    PROVE Quiet
<1> USE DEF TypeInv, TypeOK, Quiet, Rises, Paces, store, told, history, faults
<1>1. ASSUME NEW p \in Pollers, NEW s \in States, PollGet(p, s) PROVE Quiet
  <2>1. poll'[p].pc = "gate" /\ \A q \in Pollers \ {p} : poll'[q] = poll[q]
        BY <1>1 DEF PollGet, Idle
  <2>2. clock' = clock /\ asked' = asked /\ heap' = heap /\ code' = code
        BY <1>1 DEF PollGet
  <2> QED BY <2>1, <2>2
<1>2. ASSUME NEW p \in Pollers, NEW s \in States, PollUnknown(p, s) PROVE Quiet
      BY <1>2 DEF PollUnknown
<1>3. ASSUME NEW p \in Pollers, PollRestore(p) PROVE Quiet
      BY <1>3 DEF PollRestore, Resume, Call
<1>4. ASSUME NEW p \in Pollers, PollExpired(p) PROVE Quiet
      BY <1>4 DEF PollExpired, Return, Idle
<1>5. ASSUME NEW p \in Pollers, PollEarly(p) PROVE Quiet
      BY <1>5 DEF PollEarly, Return, Idle
<1>6. ASSUME NEW p \in Pollers, PollSave(p) PROVE Quiet
      BY <1>6 DEF PollSave, Return, Idle
<1>7. ASSUME NEW p \in Pollers, PollFail(p) PROVE Quiet
      BY <1>7 DEF PollFail, Return, Idle
<1>8. ASSUME NEW p \in Pollers, PollSucceed(p) PROVE Quiet
      BY <1>8 DEF PollSucceed, Return, Idle
<1>9. ASSUME Tick PROVE Quiet BY <1>9 DEF Tick
<1>10. ASSUME Reload PROVE Quiet BY <1>10 DEF Reload, Idle
<1>11. ASSUME NEW s \in States, Approve(s) PROVE Quiet BY <1>11 DEF Approve
<1>12. ASSUME NEW s \in States, Refuse(s) PROVE Quiet BY <1>12 DEF Refuse
<1> QED BY <1>1, <1>2, <1>3, <1>4, <1>5, <1>6, <1>7, <1>8, <1>9, <1>10, <1>11, <1>12

\* One call moves on in bounds; the others stay as they are.
OneCall(p) ==
    /\ Rises /\ Paces
    /\ \A q \in Pollers \ {p} : poll'[q] = poll[q]
    /\ CallPaced(poll'[p], clock', asked'[poll'[p].state])

\* A step of one call that leaves it within bounds leaves every call there.
LEMMA OneCallPaced ==
    ASSUME TypeInv, TypeInv', BackoffInv, NEW p \in Pollers, OneCall(p) PROVE CallsPaced
<1> SUFFICES ASSUME NEW q \in Pollers, poll'[q].pc # "idle"
             PROVE CallPaced(poll'[q], clock', asked'[poll'[q].state])
    BY DEF CallsPaced
<1>1. CASE q = p BY <1>1 DEF OneCall
<1>2. CASE q # p BY <1>2, OtherCalls DEF OneCall
<1> QED BY <1>1, <1>2

\* The call's way through the exchange: the time it is let through, the interval it
\* reads from the session, and the answer that names its next one.
LEMMA ExchangePaced ==
    ASSUME TypeInv, AliasInv, BackoffInv, NEW p \in Pollers,
           \/ PollAdmit(p) \/ PollSend(p) \/ Exchange(p) \/ Drop(p)
    PROVE OneCall(p)
<1> USE DEF TypeInv, TypeOK, OneCall, Rises, Paces, store, told, history, faults
<1> DEFINE c == poll[p]
<1>1. /\ c.pc # "idle" /\ c \in Call /\ c.state \in States /\ c.session \in Objs
      /\ Device(p) = c.state
  <2>1. c.pc # "idle"
        BY DEF PollAdmit, PollSend, Exchange, AnswerPending, AnswerSlowDown, AnswerGrant,
               AnswerRefuse, Drop, Waiting
  <2> QED BY <2>1 DEF Bound, AliasInv, Owned, Device
<1>2. /\ Paced(c.session, c.state) /\ CallPaced(c, clock, asked[c.state])
      BY <1>1 DEF BackoffInv
<1>3. /\ asked[c.state] \in Nat /\ c.interval \in Nat /\ clock \in Nat
      BY <1>1 DEF Call
<1>4. CASE PollAdmit(p)
  <2>1. /\ poll'[p].pc = "send" /\ poll'[p].now = clock /\ clock' = clock
        BY <1>1, <1>4 DEF PollAdmit, Call
  <2>2. CallPaced(poll'[p], clock', asked'[poll'[p].state]) BY <1>3, <2>1 DEF CallPaced
  <2> QED BY <1>3, <1>4, <2>2 DEF PollAdmit
<1>5. CASE PollSend(p)
  <2>1. /\ poll'[p].pc = "wait" /\ poll'[p].now = c.now /\ poll'[p].state = c.state
        /\ poll'[p].interval = heap[c.session].interval
        /\ c.pc = "send" /\ clock' = clock /\ asked' = asked
        BY <1>1, <1>5 DEF PollSend, Call
  <2>2. CallPaced(poll'[p], clock', asked'[poll'[p].state])
        BY <1>2, <2>1 DEF CallPaced, Paced, Sent
  <2> QED BY <1>3, <1>5, <2>2 DEF PollSend
<1>6. CASE AnswerPending(p) \/ AnswerGrant(p) \/ AnswerRefuse(p) \/ Drop(p)
  <2>1. /\ poll'[p].pc = "answered" /\ poll'[p].now = c.now /\ poll'[p].state = c.state
        /\ poll'[p].interval = c.interval /\ poll'[p].outcome # "slow_down"
        /\ c.pc = "wait" /\ clock' = clock /\ asked' = asked
        BY <1>1, <1>6 DEF AnswerPending, AnswerGrant, AnswerRefuse, Drop, Answer, Waiting, Call
  <2>2. CallPaced(poll'[p], clock', asked'[poll'[p].state])
        BY <1>2, <2>1 DEF CallPaced, Sent, NextInterval
  <2>3. \A s \in States : code'[s] # "unissued" => code[s] # "unissued"
        BY <1>1, <1>6 DEF AnswerPending, AnswerGrant, AnswerRefuse, Drop, Waiting
  <2>4. \A q \in Pollers \ {p} : poll'[q] = poll[q]
        BY <1>6 DEF AnswerPending, AnswerGrant, AnswerRefuse, Drop, Answer
  <2>5. heap' = heap BY <1>6 DEF AnswerPending, AnswerGrant, AnswerRefuse, Drop
  <2> QED BY <2>1, <2>2, <2>3, <2>4, <2>5
<1>7. CASE AnswerSlowDown(p)
  <2>1. /\ poll'[p].pc = "answered" /\ poll'[p].now = c.now /\ poll'[p].state = c.state
        /\ poll'[p].interval = c.interval /\ poll'[p].outcome = "slow_down"
        /\ c.pc = "wait" /\ clock' = clock
        BY <1>1, <1>7 DEF AnswerSlowDown, Answer, Waiting, Call
  <2>2. asked' = [asked EXCEPT ![c.state] = asked[c.state] + DefaultPollInterval]
        BY <1>1, <1>7 DEF AnswerSlowDown
  <2>3. DefaultPollInterval \in Nat BY TimeAssumption
  <2>4. CallPaced(poll'[p], clock', asked'[poll'[p].state])
        BY <1>1, <1>2, <1>3, <2>1, <2>2, <2>3 DEF CallPaced, Sent, NextInterval
  <2>5. \A s \in States : asked[s] <= asked'[s] BY <1>3, <2>2, <2>3
  <2>6. /\ heap' = heap /\ code' = code
        /\ \A q \in Pollers \ {p} : poll'[q] = poll[q]
        BY <1>7 DEF AnswerSlowDown, Answer
  <2> QED BY <1>3, <2>1, <2>4, <2>5, <2>6
<1> QED BY <1>4, <1>5, <1>6, <1>7 DEF Exchange

-----------------------------------------------------------------------------
(* Steps that write a session                                              *)

\* What a poll records was asked for, and counts from the time its exchange began;
\* whoever shares the session is of the same login.
LEMMA RecordKeepsBackoff ==
    ASSUME TypeInv, TypeInv', AliasInv, BackoffInv, NEW p \in Pollers, PollRecord(p)
    PROVE BackoffInv'
<1> USE DEF TypeInv, TypeOK
<1> DEFINE c == poll[p]
<1>0. PICK s \in States, o \in Objs : s = c.state /\ o = c.session
      BY DEF PollRecord, Bound
<1>1. c.pc = "answered" /\ c \in Call /\ heap[o].code = s
      BY <1>0 DEF PollRecord, AliasInv, Owned
<1>2. /\ Paced(o, s) /\ c.now <= clock /\ NextInterval(c) <= asked[s]
      BY <1>0, <1>1 DEF BackoffInv, CallPaced, Sent
<1>3. /\ c.now \in Nat /\ clock \in Nat /\ asked[s] \in Nat /\ NextInterval(c) \in Nat
      BY <1>1, TimeAssumption DEF Call, NextInterval
<1>4. /\ heap' = [heap EXCEPT
                    ![o].nextAttempt = c.now + NextInterval(c),
                    ![o].interval = IF c.outcome = "slow_down" THEN NextInterval(c) ELSE @]
      /\ poll' = [poll EXCEPT ![p].pc = "save"]
      /\ UNCHANGED <<clock, sessions, reply, code, asked>>
      BY <1>0 DEF PollRecord, Resume, told, history, faults
<1>5. /\ heap'[o].nextAttempt = c.now + NextInterval(c)
      /\ heap'[o].interval \in {NextInterval(c), heap[o].interval}
      /\ \A a \in Objs \ {o} : heap'[a] = heap[a]
      BY <1>1, <1>4 DEF Session
<1>6. Paced(o, s)' BY <1>1, <1>2, <1>3, <1>4, <1>5 DEF Paced
<1>7. ASSUME NEW t \in States, NEW a \in Objs, Owned(a, t), Paced(a, t) PROVE Paced(a, t)'
  <2>1. CASE a = o
    <3>1. t = s BY <1>1, <1>7, <2>1 DEF Owned
    <3> QED BY <1>6, <2>1, <3>1 DEF Paced
  <2>2. CASE a # o BY <1>4, <1>5, <1>7, <2>2 DEF Paced
  <2> QED BY <2>1, <2>2
<1>8. ASSUME NEW t \in States, sessions'[t] # None PROVE Paced(sessions[t], t)'
  <2>1. /\ sessions'[t] = sessions[t] /\ sessions[t] \in Objs
        /\ Owned(sessions[t], t) /\ Paced(sessions[t], t)
        BY <1>4, <1>8 DEF AliasInv, BackoffInv
  <2> QED BY <1>7, <2>1 DEF Paced
<1>9. ASSUME NEW q \in Pollers, poll'[q].pc # "idle"
      PROVE /\ Paced(poll[q].session, poll[q].state)'
            /\ CallPaced(poll'[q], clock', asked'[poll'[q].state])
  <2>1. /\ poll[q].pc # "idle" /\ poll'[q].state = poll[q].state
        /\ poll'[q].session = poll[q].session /\ poll'[q].now = poll[q].now
        BY <1>1, <1>4, <1>9 DEF Call
  <2>2. /\ poll[q].state \in States /\ poll[q].session \in Objs
        /\ Owned(poll[q].session, poll[q].state) /\ Paced(poll[q].session, poll[q].state)
        /\ CallPaced(poll[q], clock, asked[poll[q].state])
        BY <2>1 DEF Bound, AliasInv, BackoffInv
  <2>3. Paced(poll[q].session, poll[q].state)' BY <1>7, <2>1, <2>2 DEF Paced
  <2>4. CASE q = p
    <3>1. poll'[q].pc = "save" /\ poll'[q].now = c.now BY <1>1, <1>4, <2>1, <2>4
    <3>2. c.now <= clock' BY <1>2, <1>4
    <3>3. CallPaced(poll'[q], clock', asked'[poll'[q].state])
          BY <3>1, <3>2 DEF CallPaced
    <3> QED BY <2>3, <3>3
  <2>5. CASE q # p BY <1>4, <2>2, <2>3, <2>5
  <2> QED BY <2>4, <2>5
<1> QED BY <1>4, <1>8, <1>9 DEF BackoffInv

\* The session of a new login has its interval from the answer.
LEMMA StartKeepsBackoff ==
    ASSUME TypeInv, TypeInv', AliasInv, BackoffInv,
           NEW s \in States, NEW i \in Intervals, NEW e \in Expiries, Start(s, i, e)
    PROVE BackoffInv'
<1> USE DEF TypeInv, TypeOK
<1>1. PICK o \in Objs : /\ Free(o) /\ Put(s, o)
                        /\ heap' = [heap EXCEPT ![o] =
                               [code |-> s, interval |-> AtLeastDefault(i),
                                expiresAt |-> clock + Lifetime(e), nextAttempt |-> clock]]
      BY DEF Start
<1>2. /\ code[s] = "unissued" /\ code' = [code EXCEPT ![s] = "pending"]
      /\ asked' = [asked EXCEPT ![s] = AtLeastDefault(i)]
      /\ reply'[s].interval = AtLeastDefault(i)
      /\ \A t \in States \ {s} : reply'[t] = reply[t]
      /\ poll' = poll /\ clock' = clock
      BY StartsAsExpected DEF Start
<1>3. AtLeastDefault(i) \in Nat /\ clock \in Nat BY AtLeastDefaultType
<1>4. Paced(o, s)' BY <1>1, <1>2, <1>3 DEF Paced
<1>5. ASSUME NEW t \in States \ {s}, NEW a \in Objs \ {o}, Paced(a, t) PROVE Paced(a, t)'
      BY <1>1, <1>2, <1>5 DEF Paced
<1>6. ASSUME NEW t \in States, sessions'[t] # None PROVE Paced(sessions[t], t)'
  <2>1. CASE t = s
    <3>1. sessions'[t] = o BY <1>1, <2>1 DEF Put
    <3> QED BY <1>4, <2>1, <3>1 DEF Paced
  <2>2. CASE t # s
    <3>1. sessions'[t] = sessions[t] BY <1>1, <1>6, <2>2 DEF Put
    <3>2. sessions[t] \in Objs \ {o} /\ Paced(sessions[t], t)
          BY <1>1, <1>6, <3>1 DEF Free, BackoffInv
    <3> QED BY <1>5, <2>2, <3>1, <3>2 DEF Paced
  <2> QED BY <2>1, <2>2
<1>7. ASSUME NEW q \in Pollers, poll'[q].pc # "idle"
      PROVE /\ Paced(poll[q].session, poll[q].state)'
            /\ CallPaced(poll'[q], clock', asked'[poll'[q].state])
  <2>1. /\ poll'[q] = poll[q] /\ poll[q].pc # "idle"
        /\ poll[q].state \in States /\ poll[q].session \in Objs
        BY <1>2, <1>7 DEF Bound
  <2>2. poll[q].state # s /\ poll[q].session # o
        BY <1>1, <1>2, <2>1 DEF AliasInv, Owned, Free
  <2>3. /\ Paced(poll[q].session, poll[q].state)
        /\ CallPaced(poll[q], clock, asked[poll[q].state])
        BY <2>1 DEF BackoffInv
  <2>4. asked'[poll[q].state] = asked[poll[q].state] BY <1>2, <2>1, <2>2
  <2>5. Paced(poll[q].session, poll[q].state)' BY <1>5, <2>1, <2>2, <2>3 DEF Paced
  <2> QED BY <1>2, <2>1, <2>3, <2>4, <2>5
<1>8. ASSUME NEW t \in States, code'[t] # "unissued"
      PROVE reply'[t].interval <= asked'[t]
  <2>1. CASE t = s BY <1>2, <1>3, <2>1
  <2>2. CASE t # s BY <1>2, <1>8, <2>2 DEF BackoffInv
  <2> QED BY <2>1, <2>2
<1> QED BY <1>6, <1>7, <1>8 DEF BackoffInv

\* A rebuilt session has the interval of the metadata, which never grew.
LEMMA RebuildKeepsBackoff ==
    ASSUME TypeInv, TypeInv', AliasInv, BackoffInv, NEW p \in Pollers, NEW s \in States,
           PollRebuild(p, s)
    PROVE BackoffInv'
<1> USE DEF TypeInv, TypeOK
<1>1. PICK o \in Objs : /\ Free(o)
                        /\ heap' = [heap EXCEPT ![o] = Rebuilt(s)]
                        /\ poll' = [poll EXCEPT ![p] = [Idle EXCEPT !.pc = "restore",
                                                        !.state = s, !.session = o]]
      BY DEF PollRebuild
<1>2. /\ code[s] # "unissued"
      /\ UNCHANGED <<clock, sessions, reply, code, asked>>
      BY DEF PollRebuild, MayPoll, told, history, faults
<1>3. /\ reply[s].interval <= asked[s] /\ asked[s] \in Nat /\ clock \in Nat
      BY <1>2 DEF BackoffInv
<1>4. /\ heap'[o].interval = reply[s].interval /\ heap'[o].nextAttempt = clock
      BY <1>1 DEF Rebuilt
<1>5. Paced(o, s)' BY <1>2, <1>3, <1>4 DEF Paced
<1>6. ASSUME NEW t \in States, NEW a \in Objs \ {o}, Paced(a, t) PROVE Paced(a, t)'
      BY <1>1, <1>2, <1>6 DEF Paced
<1>7. ASSUME NEW t \in States, sessions'[t] # None PROVE Paced(sessions[t], t)'
  <2>1. /\ sessions'[t] = sessions[t] /\ sessions[t] \in Objs \ {o}
        /\ Paced(sessions[t], t)
        BY <1>1, <1>2, <1>7 DEF Free, BackoffInv
  <2> QED BY <1>6, <2>1 DEF Paced
<1>8. ASSUME NEW q \in Pollers, poll'[q].pc # "idle"
      PROVE /\ Paced(poll[q].session, poll[q].state)'
            /\ CallPaced(poll'[q], clock', asked'[poll'[q].state])
  <2>1. CASE q = p
    <3>1. poll'[q].pc = "restore" /\ poll'[q].state = s /\ poll'[q].session = o
          BY <1>1, <2>1 DEF Idle
    <3>2. CallPaced(poll'[q], clock', asked'[poll'[q].state])
          BY <3>1 DEF CallPaced, Sent
    <3> QED BY <1>5, <3>1, <3>2 DEF Paced
  <2>2. CASE q # p
    <3>1. /\ poll'[q] = poll[q] /\ poll[q].pc # "idle"
          /\ poll[q].state \in States /\ poll[q].session \in Objs \ {o}
          BY <1>1, <1>8, <2>2 DEF Bound, Free
    <3>2. /\ Paced(poll[q].session, poll[q].state)
          /\ CallPaced(poll[q], clock, asked[poll[q].state])
          BY <3>1 DEF BackoffInv
    <3>3. Paced(poll[q].session, poll[q].state)' BY <1>6, <3>1, <3>2 DEF Paced
    <3> QED BY <1>2, <3>1, <3>2, <3>3
  <2> QED BY <2>1, <2>2
<1> QED BY <1>2, <1>7, <1>8 DEF BackoffInv

-----------------------------------------------------------------------------
(* The invariant, and what follows                                         *)

\* No step lets a session or a call run ahead of what upstream asked for.
LEMMA StepKeepsBackoff ==
    TypeInv /\ TypeInv' /\ AliasInv /\ BackoffInv /\ [Next]_vars => BackoffInv'
<1> SUFFICES ASSUME TypeInv, TypeInv', AliasInv, BackoffInv, [Next]_vars PROVE BackoffInv'
    OBVIOUS
<1>1. CASE \E s \in States, i \in Intervals, e \in Expiries : Start(s, i, e)
      BY <1>1, StartKeepsBackoff
<1>2. CASE \E p \in Pollers, s \in States : PollRebuild(p, s)
      BY <1>2, RebuildKeepsBackoff
<1>3. CASE \E p \in Pollers : PollRecord(p)
      BY <1>3, RecordKeepsBackoff
<1>4. CASE UNCHANGED vars BY <1>4 DEF vars, BackoffInv, Paced
<1>5. CASE /\ Next
           /\ \A s \in States, i \in Intervals, e \in Expiries : ~Start(s, i, e)
           /\ \A p \in Pollers, s \in States : ~PollRebuild(p, s)
           /\ \A p \in Pollers : ~PollRecord(p)
  <2>1. PointersMove BY <1>5, StepMovesPointers
  <2>2. Quiet \/ \E p \in Pollers : OneCall(p)
    <3>1. ASSUME NEW p \in Pollers,
                 PollAdmit(p) \/ PollSend(p) \/ Exchange(p) \/ Drop(p)
          PROVE OneCall(p)
          BY <3>1, ExchangePaced
    <3> QED BY <1>5, <3>1, StepIsQuiet DEF Next, PollBegin, PollStep
  <2>3. Rises /\ Paces /\ CallsPaced
        BY <2>2, QuietCalls, OneCallPaced DEF Quiet, OneCall
  <2> QED BY <2>1, <2>3, MoveKeepsBackoff
<1> QED BY <1>1, <1>2, <1>3, <1>4, <1>5

\* Whatever is shared, raced over or rebuilt, nothing a login goes by runs ahead of
\* upstream.
THEOREM BackoffInvariant == Spec => []BackoffInv
<1>1. Init => BackoffInv BY DEF Init, BackoffInv, Idle
<1> QED BY <1>1, StepKeepsBackoff, TypeInvariant, AliasInvariant, PTL DEF Spec

\* A login never waits longer than upstream asked for.
THEOREM NeverTooPatient == Spec => []NoExcessBackoff
<1>1. BackoffInv => NoExcessBackoff BY DEF BackoffInv, NoExcessBackoff, Paced
<1> QED BY <1>1, BackoffInvariant, PTL
====
