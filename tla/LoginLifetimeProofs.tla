---- MODULE LoginLifetimeProofs ----
(***************************************************************************)
(* A login is not given up before its time, for every number of logins,    *)
(* polls and addresses: whatever session a login goes by lasts as long as  *)
(* it was promised, to the second, so neither the prune of a neighbour's   *)
(* put nor the expiry check of a poll takes it away early.                 *)
(***************************************************************************)
EXTENDS LoginSessionsProofs

\* A session lasts as long as its login was promised, to the second.
Lasting(o, s) == reply[s].deadline < heap[o].expiresAt + Second

LastingInv ==
    /\ \A s \in States : sessions[s] # None => Lasting(sessions[s], s)
    /\ \A p \in Pollers : poll[p].pc # "idle" => Lasting(poll[p].session, poll[p].state)
    /\ \A s \in States : code[s] # "unissued" =>
          reply[s].deadline < reply[s].expiresAt + Second

\* Dropping the fraction of a second costs less than a second.
LEMMA WholeSecondsAbove ==
    ASSUME NEW t \in Nat PROVE t < WholeSeconds(t) + Second
<1>1. Second \in Nat /\ Second > 0 BY TimeAssumption
<1> DEFINE q == t \div Second
<1>2. q \in Nat /\ t < (q + 1) * Second BY <1>1
<1>3. (q + 1) * Second = q * Second + Second BY <1>1, <1>2
<1> QED BY <1>2, <1>3 DEF WholeSeconds

-----------------------------------------------------------------------------
(* The inductive invariant                                                 *)

\* Passing pointers hands on sessions that last.
LEMMA MoveKeepsLasting ==
    ASSUME TypeInv, LastingInv, PointersMove,
           \A s \in States : code'[s] # "unissued" => code[s] # "unissued"
    PROVE LastingInv'
<1> USE DEF TypeInv, TypeOK
<1>1. ASSUME NEW s \in States, NEW o \in Objs, Lasting(o, s)
      PROVE reply'[s].deadline < heap'[o].expiresAt + Second
      BY <1>1 DEF PointersMove, Lasting
<1>2. ASSUME NEW s \in States, sessions'[s] # None PROVE Lasting(sessions[s], s)'
  <2>1. PICK o \in Objs : sessions'[s] = o /\ Lasting(o, s)
    <3>1. CASE sessions'[s] = sessions[s] BY <1>2, <3>1 DEF LastingInv
    <3>2. CASE sessions'[s] # sessions[s]
      <4>1. PICK p \in Pollers : /\ poll[p].pc # "idle" /\ poll[p].state = s
                                 /\ sessions'[s] = poll[p].session
            BY <1>2, <3>2 DEF PointersMove
      <4>2. poll[p].session \in Objs BY <4>1 DEF Bound
      <4> QED BY <4>1, <4>2 DEF LastingInv
    <3> QED BY <3>1, <3>2
  <2> QED BY <1>1, <2>1 DEF Lasting
<1>3. ASSUME NEW p \in Pollers, poll'[p].pc # "idle"
      PROVE Lasting(poll[p].session, poll[p].state)'
  <2>1. PICK s \in States, o \in Objs :
          poll'[p].state = s /\ poll'[p].session = o /\ Lasting(o, s)
    <3>1. CASE /\ poll[p].pc # "idle"
               /\ poll'[p].state = poll[p].state /\ poll'[p].session = poll[p].session
          BY <3>1 DEF Bound, LastingInv
    <3>2. CASE /\ poll'[p].state \in States /\ sessions[poll'[p].state] # None
               /\ poll'[p].session = sessions[poll'[p].state]
          BY <3>2 DEF LastingInv
    <3> QED BY <1>3, <3>1, <3>2 DEF PointersMove
  <2> QED BY <1>1, <2>1 DEF Lasting
<1>4. ASSUME NEW s \in States, code'[s] # "unissued"
      PROVE reply'[s].deadline < reply'[s].expiresAt + Second
      BY <1>4 DEF PointersMove, LastingInv
<1> QED BY <1>2, <1>3, <1>4 DEF LastingInv

\* A new login's session lasts to its deadline, its metadata to the second before.
LEMMA StartKeepsLasting ==
    ASSUME TypeInv, AliasInv, LastingInv,
           NEW s \in States, NEW i \in Intervals, NEW e \in Expiries, Start(s, i, e)
    PROVE LastingInv'
<1> USE DEF TypeInv, TypeOK
<1> DEFINE end == clock + Lifetime(e)
<1>1. PICK o \in Objs : /\ Free(o) /\ Put(s, o)
                        /\ heap' = [heap EXCEPT ![o] =
                               [code |-> s, interval |-> AtLeastDefault(i),
                                expiresAt |-> end, nextAttempt |-> clock]]
      BY DEF Start
<1>2. /\ code[s] = "unissued" /\ code' = [code EXCEPT ![s] = "pending"]
      /\ reply'[s].expiresAt = WholeSeconds(end) /\ reply'[s].deadline = end
      /\ \A t \in States \ {s} : reply'[t] = reply[t]
      /\ poll' = poll
      BY StartsAsExpected DEF Start
<1>3. end \in Nat /\ Second \in Nat /\ Second > 0 BY LifetimeType, TimeAssumption
<1>4. heap'[o].expiresAt = end /\ \A a \in Objs \ {o} : heap'[a] = heap[a] BY <1>1
<1> HIDE DEF end
<1>5. Lasting(o, s)' BY <1>2, <1>3, <1>4 DEF Lasting
<1>6. ASSUME NEW t \in States \ {s}, NEW a \in Objs \ {o}, Lasting(a, t)
      PROVE reply'[t].deadline < heap'[a].expiresAt + Second
      BY <1>2, <1>4, <1>6 DEF Lasting
<1>7. ASSUME NEW t \in States, sessions'[t] # None PROVE Lasting(sessions[t], t)'
  <2>1. CASE t = s
    <3>1. sessions'[t] = o BY <1>1, <2>1 DEF Put
    <3> QED BY <1>5, <2>1, <3>1 DEF Lasting
  <2>2. CASE t # s
    <3>1. sessions'[t] = sessions[t] BY <1>1, <1>7, <2>2 DEF Put
    <3>2. sessions[t] \in Objs \ {o} /\ Lasting(sessions[t], t)
          BY <1>1, <1>7, <3>1 DEF Free, LastingInv
    <3> QED BY <1>6, <2>2, <3>1, <3>2 DEF Lasting
  <2> QED BY <2>1, <2>2
<1>8. ASSUME NEW q \in Pollers, poll'[q].pc # "idle"
      PROVE Lasting(poll[q].session, poll[q].state)'
  <2>1. /\ poll'[q] = poll[q] /\ poll[q].pc # "idle"
        /\ poll[q].state \in States \ {s} /\ poll[q].session \in Objs \ {o}
        BY <1>1, <1>2, <1>8 DEF Bound, AliasInv, Owned, Free
  <2>2. Lasting(poll[q].session, poll[q].state) BY <2>1 DEF LastingInv
  <2> QED BY <1>6, <2>1, <2>2 DEF Lasting
<1>9. ASSUME NEW t \in States, code'[t] # "unissued"
      PROVE reply'[t].deadline < reply'[t].expiresAt + Second
  <2>1. CASE t = s BY <1>2, <1>3, <2>1, WholeSecondsAbove
  <2>2. CASE t # s BY <1>2, <1>9, <2>2 DEF LastingInv
  <2> QED BY <2>1, <2>2
<1> QED BY <1>7, <1>8, <1>9 DEF LastingInv

\* A rebuilt session lasts as long as the metadata.
LEMMA RebuildKeepsLasting ==
    ASSUME TypeInv, AliasInv, LastingInv, NEW p \in Pollers, NEW s \in States,
           PollRebuild(p, s)
    PROVE LastingInv'
<1> USE DEF TypeInv, TypeOK
<1>1. PICK o \in Objs : /\ Free(o)
                        /\ heap' = [heap EXCEPT ![o] = Rebuilt(s)]
                        /\ poll' = [poll EXCEPT ![p] = [Idle EXCEPT !.pc = "restore",
                                                        !.state = s, !.session = o]]
      BY DEF PollRebuild
<1>2. code[s] # "unissued" /\ UNCHANGED <<sessions, reply, code>>
      BY DEF PollRebuild, MayPoll
<1>3. heap'[o].expiresAt = reply[s].expiresAt /\ \A a \in Objs \ {o} : heap'[a] = heap[a]
      BY <1>1 DEF Rebuilt
<1>4. Lasting(o, s)' BY <1>2, <1>3 DEF LastingInv, Lasting
<1>5. ASSUME NEW t \in States, NEW a \in Objs \ {o}, Lasting(a, t)
      PROVE reply'[t].deadline < heap'[a].expiresAt + Second
      BY <1>2, <1>3, <1>5 DEF Lasting
<1>6. ASSUME NEW t \in States, sessions'[t] # None PROVE Lasting(sessions[t], t)'
  <2>1. /\ sessions'[t] = sessions[t] /\ sessions[t] \in Objs \ {o}
        /\ Lasting(sessions[t], t)
        BY <1>1, <1>2, <1>6 DEF Free, LastingInv
  <2> QED BY <1>5, <2>1 DEF Lasting
<1>7. ASSUME NEW q \in Pollers, poll'[q].pc # "idle"
      PROVE Lasting(poll[q].session, poll[q].state)'
  <2>1. CASE q = p
    <3>1. poll'[q].state = s /\ poll'[q].session = o BY <1>1, <2>1 DEF Idle
    <3> QED BY <1>4, <3>1 DEF Lasting
  <2>2. CASE q # p
    <3>1. /\ poll'[q] = poll[q] /\ poll[q].pc # "idle"
          /\ poll[q].state \in States /\ poll[q].session \in Objs \ {o}
          BY <1>1, <1>7, <2>2 DEF Bound, Free
    <3>2. Lasting(poll[q].session, poll[q].state) BY <3>1 DEF LastingInv
    <3> QED BY <1>5, <3>1, <3>2 DEF Lasting
  <2> QED BY <2>1, <2>2
<1> QED BY <1>2, <1>6, <1>7 DEF LastingInv

\* Only handleLoginStart issues a code.
LEMMA OnlyStartIssues ==
    ASSUME TypeInv, Next, \A s \in States, i \in Intervals, e \in Expiries : ~Start(s, i, e)
    PROVE \A s \in States : code'[s] # "unissued" => code[s] # "unissued"
<1> USE DEF TypeInv, TypeOK
<1>1. ASSUME NEW p \in Pollers, Exchange(p) \/ Drop(p)
      PROVE \A s \in States : code'[s] # "unissued" => code[s] # "unissued"
      BY <1>1 DEF Exchange, AnswerPending, AnswerSlowDown, AnswerGrant, AnswerRefuse,
                  Drop, Waiting
<1>2. ASSUME NEW s \in States, Approve(s) \/ Refuse(s)
      PROVE \A t \in States : code'[t] # "unissued" => code[t] # "unissued"
      BY <1>2 DEF Approve, Refuse
<1>3. ASSUME NEW p \in Pollers, PollStep(p) PROVE code' = code
      BY <1>3 DEF PollStep, PollRestore, PollExpired, PollEarly, PollAdmit, PollSend,
                  PollRecord, PollSave, PollFail, PollSucceed
<1>4. ASSUME NEW p \in Pollers, NEW s \in States, PollBegin(p, s) \/ PollUnknown(p, s)
      PROVE code' = code
      BY <1>4 DEF PollBegin, PollGet, PollRebuild, PollUnknown
<1>5. ASSUME Tick \/ Reload PROVE code' = code BY <1>5 DEF Tick, Reload, told
<1> QED BY <1>1, <1>2, <1>3, <1>4, <1>5 DEF Next

\* Whatever session a login goes by lasts as long as promised.
THEOREM LastingInvariant == Spec => []LastingInv
<1>1. Init => LastingInv BY DEF Init, LastingInv, Idle
<1>2. TypeInv /\ AliasInv /\ LastingInv /\ [Next]_vars => LastingInv'
  <2> SUFFICES ASSUME TypeInv, AliasInv, LastingInv, [Next]_vars PROVE LastingInv' OBVIOUS
  <2>1. CASE \E s \in States, i \in Intervals, e \in Expiries : Start(s, i, e)
        BY <2>1, StartKeepsLasting
  <2>2. CASE \E p \in Pollers, s \in States : PollRebuild(p, s)
        BY <2>2, RebuildKeepsLasting
  <2>3. CASE /\ Next
             /\ \A s \in States, i \in Intervals, e \in Expiries : ~Start(s, i, e)
             /\ \A p \in Pollers, s \in States : ~PollRebuild(p, s)
        BY <2>3, StepMovesPointers, OnlyStartIssues, MoveKeepsLasting
  <2>4. CASE UNCHANGED vars BY <2>4 DEF vars, LastingInv, Lasting
  <2> QED BY <2>1, <2>2, <2>3, <2>4
<1> QED BY <1>1, <1>2, TypeInvariant, AliasInvariant, PTL DEF Spec

-----------------------------------------------------------------------------
(* What follows from it                                                    *)

\* The moments at which a login may be given up.
MayGiveUp(s) ==
    \/ reloads' # reloads
    \/ clock + Second > reply[s].deadline
    \/ \E p \in Pollers : /\ poll[p].state = s /\ poll[p].pc = "answered"
                          /\ poll[p].outcome \in {"error", "success"}

\* A session the clock has passed was not promised for longer, but for a second.
LEMMA PastIsLate ==
    ASSUME TypeInv, NEW s \in States, NEW o \in Objs, Lasting(o, s),
           clock > heap[o].expiresAt
    PROVE clock + Second > reply[s].deadline
<1>1. /\ clock \in Nat /\ Second \in Nat /\ heap[o].expiresAt \in Nat
      /\ reply[s].deadline \in Nat
      BY TimeAssumption DEF TypeInv, TypeOK, Session, Reply
<1> QED BY <1>1 DEF Lasting

\* The prune of a put gives up only what is past its expiry and the grace period.
LEMMA PutGivesUpLate ==
    ASSUME TypeInv, LastingInv, NEW t \in States, NEW o \in Objs, Put(t, o),
           NEW s \in States, sessions[s] # None, sessions'[s] = None
    PROVE clock + Second > reply[s].deadline
<1>1. sessions[s] \in Objs /\ Lasting(sessions[s], s)
      BY DEF TypeInv, TypeOK, LastingInv
<1>2. Stale(sessions[s]) BY NoneAssumption DEF Put
<1>3. clock > heap[sessions[s]].expiresAt
      BY <1>1, <1>2, TimeAssumption DEF Stale, TypeInv, TypeOK, Session
<1> QED BY <1>1, <1>3, PastIsLate

\* A session is only given up at its deadline, after its exchange, or with the plugin.
THEOREM LiveLoginsSurvive == Spec => LiveSessionsSurvive
<1>1. ASSUME TypeInv, LastingInv, [Next]_vars, NEW s \in States,
             sessions[s] # None, sessions'[s] = None
      PROVE MayGiveUp(s)
  <2> USE DEF store
  <2>1. ASSUME NEW t \in States, NEW i \in Intervals, NEW e \in Expiries, Start(t, i, e)
        PROVE MayGiveUp(s)
        BY <1>1, <2>1, PutGivesUpLate DEF Start, MayGiveUp
  <2>2. ASSUME NEW p \in Pollers, PollRestore(p) \/ PollSave(p) PROVE MayGiveUp(s)
    <3>1. /\ poll[p].state \in States /\ poll[p].session \in Objs
          /\ Put(poll[p].state, poll[p].session)
          BY <1>1, <2>2 DEF PollRestore, PollSave, TypeInv, Bound
    <3> QED BY <1>1, <3>1, PutGivesUpLate DEF MayGiveUp
  <2>3. ASSUME NEW p \in Pollers, PollExpired(p) PROVE MayGiveUp(s)
    <3>1. /\ Delete(poll[p].state) /\ clock > heap[poll[p].session].expiresAt
          /\ poll[p].session \in Objs /\ Lasting(poll[p].session, poll[p].state)
          BY <1>1, <2>3 DEF PollExpired, Expired, LastingInv, TypeInv, Bound
    <3>2. poll[p].state = s BY <1>1, <3>1 DEF Delete, TypeInv, TypeOK
    <3> QED BY <1>1, <3>1, <3>2, PastIsLate DEF MayGiveUp
  <2>4. ASSUME NEW p \in Pollers, PollFail(p) \/ PollSucceed(p) PROVE MayGiveUp(s)
    <3>1. /\ Delete(poll[p].state) /\ poll[p].pc = "answered"
          /\ poll[p].outcome \in {"error", "success"}
          BY <2>4 DEF PollFail, PollSucceed
    <3>2. poll[p].state = s BY <1>1, <3>1 DEF Delete, TypeInv, TypeOK
    <3> QED BY <3>1, <3>2 DEF MayGiveUp
  <2>5. ASSUME Reload PROVE MayGiveUp(s)
    <3>1. reloads' # reloads BY <1>1, <2>5 DEF Reload, TypeInv, TypeOK
    <3> QED BY <3>1 DEF MayGiveUp
  <2>6. ASSUME NEW p \in Pollers,
               \/ PollEarly(p) \/ PollAdmit(p) \/ PollSend(p) \/ PollRecord(p)
               \/ Exchange(p) \/ Drop(p)
        PROVE FALSE
    <3>1. CASE PollEarly(p) \/ PollAdmit(p) \/ PollSend(p) \/ PollRecord(p)
          BY <1>1, <3>1 DEF PollEarly, PollAdmit, PollSend, PollRecord
    <3>2. CASE Exchange(p) \/ Drop(p)
          BY <1>1, <3>2 DEF Exchange, AnswerPending, AnswerSlowDown, AnswerGrant,
                            AnswerRefuse, Drop
    <3> QED BY <2>6, <3>1, <3>2
  <2>7. ASSUME NEW p \in Pollers, NEW t \in States, PollBegin(p, t) \/ PollUnknown(p, t)
        PROVE FALSE
        BY <1>1, <2>7 DEF PollBegin, PollGet, PollRebuild, PollUnknown
  <2>8. ASSUME \/ Tick \/ UNCHANGED vars \/ \E t \in States : Approve(t) \/ Refuse(t)
        PROVE FALSE
        BY <1>1, <2>8 DEF Tick, vars, Approve, Refuse
  <2> QED BY <1>1, <2>1, <2>2, <2>3, <2>4, <2>5, <2>6, <2>7, <2>8 DEF Next, PollStep
<1>2. TypeInv /\ LastingInv /\ [Next]_vars =>
        [\A s \in States :
           sessions[s] # None /\ sessions'[s] = None =>
              \/ reloads' # reloads
              \/ clock + Second > reply[s].deadline
              \/ \E p \in Pollers : /\ poll[p].state = s
                                    /\ poll[p].pc = "answered"
                                    /\ poll[p].outcome \in {"error", "success"}]_vars
      BY <1>1 DEF MayGiveUp
<1> QED BY <1>2, TypeInvariant, LastingInvariant, PTL DEF Spec, LiveSessionsSurvive
====
