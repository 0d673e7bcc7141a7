---- MODULE LoginSequentialProofs ----
(***************************************************************************)
(* What a login gets out of a host that asks about it one poll at a time,  *)
(* for every number of logins, threads and addresses: the interval that    *)
(* upstream asked for survives from poll to poll, no poll reaches upstream *)
(* early, and a session is gone for good once its credential is delivered. *)
(* Two polls of one login at a time break each of the three (see the runs  *)
(* login_slow_down_lost and login_resurrected).                            *)
(***************************************************************************)
EXTENDS LoginSessionsProofs

\* A sequential host is a host.
LEMMA SequentialIsSpec == SequentialSpec => Spec
<1>1. [Next /\ OnePollPerLogin']_vars => [Next]_vars OBVIOUS
<1> QED BY <1>1, PTL DEF SequentialSpec, Spec

\* One poll per login, from the start.
LEMMA OnePollInvariant == SequentialSpec => []OnePollPerLogin
<1>1. Init => OnePollPerLogin BY DEF Init, OnePollPerLogin, Idle
<1>2. OnePollPerLogin /\ [Next /\ OnePollPerLogin']_vars => OnePollPerLogin'
      BY DEF OnePollPerLogin, vars
<1> QED BY <1>1, <1>2, PTL DEF SequentialSpec

-----------------------------------------------------------------------------
(* A delivered login stays forgotten                                       *)

ConsumedInv ==
    \A s \in States : successes[s] > 0 =>
        sessions[s] = None /\ \A p \in Pollers : poll[p].state # s

\* Whoever is in the store after a step was there, is new, or is put by its poll.
StoreFollows ==
    \A s \in States : sessions'[s] # None =>
        \/ sessions[s] # None
        \/ code[s] = "unissued"
        \/ \E p \in Pollers : poll[p].state = s
\* A login is begun to be polled only before its success.
PollsFollow ==
    \A s \in States, p \in Pollers : poll'[p].state = s =>
        poll[p].state = s \/ successes[s] = 0

\* Every step puts sessions back, and begins polls, only as said.
LEMMA StoreAndPollsFollow ==
    ASSUME TypeInv, [Next]_vars PROVE StoreFollows /\ PollsFollow
<1> USE DEF TypeInv, TypeOK, StoreFollows, PollsFollow, store, told, history, faults
<1> DEFINE Follow == StoreFollows /\ PollsFollow
<1>0. None \notin States BY NoneAssumption
<1>1. ASSUME NEW s \in States, NEW i \in Intervals, NEW e \in Expiries, Start(s, i, e)
      PROVE Follow
      BY <1>1 DEF Start, Put
<1>2. ASSUME NEW p \in Pollers, NEW s \in States, PollGet(p, s) \/ PollUnknown(p, s)
      PROVE Follow
      BY <1>2 DEF PollGet, PollUnknown, MayPoll, Idle
<1>3. ASSUME NEW p \in Pollers, NEW s \in States, PollRebuild(p, s) PROVE Follow
      BY <1>3 DEF PollRebuild, MayPoll, Idle
<1>4. ASSUME NEW p \in Pollers, PollRestore(p) \/ PollSave(p) PROVE Follow
      BY <1>0, <1>4 DEF PollRestore, PollSave, Put, Resume, Return, Idle, Call
<1>5. ASSUME NEW p \in Pollers, PollExpired(p) \/ PollFail(p) \/ PollSucceed(p)
      PROVE Follow
      BY <1>0, <1>5 DEF PollExpired, PollFail, PollSucceed, Delete, Return, Idle
<1>6. ASSUME NEW p \in Pollers, PollEarly(p) PROVE Follow
      BY <1>0, <1>6 DEF PollEarly, Return, Idle
<1>7. ASSUME NEW p \in Pollers, PollAdmit(p) \/ PollSend(p) PROVE Follow
      BY <1>7 DEF PollAdmit, PollSend, Call
<1>8. ASSUME NEW p \in Pollers, PollRecord(p) PROVE Follow
      BY <1>8 DEF PollRecord, Resume, Call
<1>9. ASSUME NEW p \in Pollers, Exchange(p) \/ Drop(p) PROVE Follow
      BY <1>9 DEF Exchange, AnswerPending, AnswerSlowDown, AnswerGrant, AnswerRefuse,
                  Drop, Answer, Call
<1>10. ASSUME Tick \/ \E s \in States : Approve(s) \/ Refuse(s) PROVE Follow
       BY <1>10 DEF Tick, Approve, Refuse
<1>11. ASSUME Reload PROVE Follow BY <1>0, <1>11 DEF Reload, Idle
<1>12. CASE UNCHANGED vars BY <1>12 DEF vars
<1> QED BY <1>1, <1>2, <1>3, <1>4, <1>5, <1>6, <1>7, <1>8, <1>9, <1>10, <1>11, <1>12
        DEF Next, PollBegin, PollStep

\* Only the end of a poll delivers a credential.
LEMMA DeliveredByPoll ==
    ASSUME TypeInv, [Next]_vars, NEW s \in States, successes'[s] # successes[s]
    PROVE \E p \in Pollers : PollSucceed(p) /\ poll[p].state = s
<1> USE DEF TypeInv, TypeOK, store, told, history, faults
<1>1. ASSUME NEW p \in Pollers, PollSucceed(p) PROVE poll[p].state = s
      BY <1>1 DEF PollSucceed, Bound
<1>2. CASE \E t \in States, i \in Intervals, e \in Expiries : Start(t, i, e)
      BY <1>2 DEF Start
<1>3. CASE \E p \in Pollers, t \in States : PollBegin(p, t) \/ PollUnknown(p, t)
      BY <1>3 DEF PollBegin, PollGet, PollRebuild, PollUnknown, TellError
<1>4. CASE \E p \in Pollers : \/ PollRestore(p) \/ PollExpired(p) \/ PollEarly(p)
                              \/ PollAdmit(p) \/ PollSend(p) \/ PollRecord(p)
                              \/ PollSave(p) \/ PollFail(p)
      BY <1>4 DEF PollRestore, PollExpired, PollEarly, PollAdmit, PollSend, PollRecord,
                  PollSave, PollFail, TellError
<1>5. CASE \E p \in Pollers : Exchange(p) \/ Drop(p)
      BY <1>5 DEF Exchange, AnswerPending, AnswerSlowDown, AnswerGrant, AnswerRefuse, Drop
<1>6. CASE Tick \/ Reload \/ \E t \in States : Approve(t) \/ Refuse(t)
      BY <1>6 DEF Tick, Reload, Approve, Refuse
<1>7. CASE UNCHANGED vars BY <1>7 DEF vars
<1> QED BY <1>1, <1>2, <1>3, <1>4, <1>5, <1>6, <1>7 DEF Next, PollStep

\* Once the host has the credential of a login, no poll is left to bring its session
\* back: under a sequential host the plugin has forgotten it for good.
THEOREM ConsumedInvariant == SequentialSpec => []ConsumedInv
<1>1. Init => ConsumedInv BY DEF Init, ConsumedInv
<1>2. ASSUME TypeInv, OneCredential, OnePollPerLogin, ConsumedInv, [Next]_vars
      PROVE ConsumedInv'
  <2> SUFFICES ASSUME NEW s \in States, successes'[s] > 0
               PROVE sessions'[s] = None /\ \A p \in Pollers : poll'[p].state # s
      BY DEF ConsumedInv
  <2>1. CASE successes[s] > 0
    <3>1. code[s] # "unissued" BY <1>2, <2>1 DEF OneCredential, TypeInv, TypeOK
    <3> QED BY <1>2, <2>1, <3>1, StoreAndPollsFollow
            DEF ConsumedInv, StoreFollows, PollsFollow, TypeInv, TypeOK
  <2>2. CASE ~(successes[s] > 0)
    <3>1. PICK p \in Pollers : PollSucceed(p) /\ poll[p].state = s
          BY <1>2, <2>2, DeliveredByPoll
    <3>2. sessions'[s] = None BY <1>2, <3>1 DEF PollSucceed, Delete, TypeInv, TypeOK
    <3>3. poll' = [poll EXCEPT ![p] = Idle] BY <3>1 DEF PollSucceed, Return
    <3>4. \A q \in Pollers \ {p} : poll'[q] = poll[q] /\ poll[q].state # s
          BY <1>2, <3>1, <3>3, NoneAssumption DEF OnePollPerLogin, TypeInv, TypeOK
    <3>5. poll'[p].state = None BY <1>2, <3>3 DEF Idle, TypeInv, TypeOK
    <3> QED BY <3>2, <3>4, <3>5, NoneAssumption
  <2> QED BY <2>1, <2>2
<1>3. TypeInv /\ OneCredential /\ OnePollPerLogin /\ ConsumedInv
        /\ [Next /\ OnePollPerLogin']_vars => ConsumedInv'
      BY <1>2
<1> QED BY <1>1, <1>3, SequentialIsSpec, TypeInvariant, SingleCredential, OnePollInvariant,
           PTL DEF SequentialSpec

\* A session is gone once its credential is delivered, for a host that asks about each
\* login one poll at a time.
THEOREM ConsumedOnce == SequentialSpec => []ConsumedOnSuccess
<1>1. ConsumedInv => ConsumedOnSuccess BY DEF ConsumedInv, ConsumedOnSuccess
<1> QED BY <1>1, ConsumedInvariant, PTL

-----------------------------------------------------------------------------
(* The metadata never promises more than the session                        *)

Outlasts(o, s) == reply[s].expiresAt <= heap[o].expiresAt

OutlastInv ==
    /\ \A s \in States : sessions[s] # None => Outlasts(sessions[s], s)
    /\ \A p \in Pollers : poll[p].pc # "idle" => Outlasts(poll[p].session, poll[p].state)

\* A session changes hands with its expiry.
LEMMA MoveKeepsOutlast ==
    ASSUME TypeInv, OutlastInv, PointersMove PROVE OutlastInv'
<1> USE DEF TypeInv, TypeOK
<1>1. ASSUME NEW s \in States, NEW o \in Objs, Outlasts(o, s)
      PROVE reply'[s].expiresAt <= heap'[o].expiresAt
      BY <1>1 DEF PointersMove, Outlasts
<1>2. ASSUME NEW s \in States, sessions'[s] # None PROVE Outlasts(sessions[s], s)'
  <2>1. PICK o \in Objs : sessions'[s] = o /\ Outlasts(o, s)
    <3>1. CASE sessions'[s] = sessions[s] BY <1>2, <3>1 DEF OutlastInv
    <3>2. CASE sessions'[s] # sessions[s]
      <4>1. PICK p \in Pollers : /\ poll[p].pc # "idle" /\ poll[p].state = s
                                 /\ sessions'[s] = poll[p].session
            BY <1>2, <3>2 DEF PointersMove
      <4>2. poll[p].session \in Objs BY <4>1 DEF Bound
      <4> QED BY <4>1, <4>2 DEF OutlastInv
    <3> QED BY <3>1, <3>2
  <2> QED BY <1>1, <2>1 DEF Outlasts
<1>3. ASSUME NEW p \in Pollers, poll'[p].pc # "idle"
      PROVE Outlasts(poll[p].session, poll[p].state)'
  <2>1. PICK s \in States, o \in Objs :
          poll'[p].state = s /\ poll'[p].session = o /\ Outlasts(o, s)
    <3>1. CASE /\ poll[p].pc # "idle"
               /\ poll'[p].state = poll[p].state /\ poll'[p].session = poll[p].session
          BY <3>1 DEF Bound, OutlastInv
    <3>2. CASE /\ poll'[p].state \in States /\ sessions[poll'[p].state] # None
               /\ poll'[p].session = sessions[poll'[p].state]
          BY <3>2 DEF OutlastInv
    <3> QED BY <1>3, <3>1, <3>2 DEF PointersMove
  <2> QED BY <1>1, <2>1 DEF Outlasts
<1> QED BY <1>2, <1>3 DEF OutlastInv

\* A new session lasts a fraction of a second longer than its metadata says.
LEMMA StartKeepsOutlast ==
    ASSUME TypeInv, AliasInv, OutlastInv,
           NEW s \in States, NEW i \in Intervals, NEW e \in Expiries, Start(s, i, e)
    PROVE OutlastInv'
<1> USE DEF TypeInv, TypeOK
<1>1. PICK o \in Objs : /\ Free(o) /\ Put(s, o)
                        /\ heap' = [heap EXCEPT ![o] =
                               [code |-> s, interval |-> AtLeastDefault(i),
                                expiresAt |-> clock + Lifetime(e), nextAttempt |-> clock]]
      BY DEF Start
<1>2. /\ code[s] = "unissued" /\ poll' = poll
      /\ reply'[s].expiresAt = WholeSeconds(clock + Lifetime(e))
      /\ \A t \in States \ {s} : reply'[t] = reply[t]
      BY DEF Start
<1>3. reply'[s].expiresAt <= heap'[o].expiresAt
      BY <1>1, <1>2, LifetimeType, WholeSecondsBelow
<1>4. ASSUME NEW t \in States \ {s}, NEW a \in Objs \ {o}, Outlasts(a, t)
      PROVE reply'[t].expiresAt <= heap'[a].expiresAt
      BY <1>1, <1>2, <1>4 DEF Outlasts
<1>5. ASSUME NEW t \in States, sessions'[t] # None PROVE Outlasts(sessions[t], t)'
  <2>1. CASE t = s BY <1>1, <1>3, <2>1 DEF Put, Outlasts
  <2>2. CASE t # s
    <3>1. sessions'[t] = sessions[t] BY <1>1, <1>5, <2>2 DEF Put
    <3>2. sessions[t] \in Objs \ {o} /\ Outlasts(sessions[t], t)
          BY <1>1, <1>5, <3>1 DEF Free, OutlastInv
    <3> QED BY <1>4, <2>2, <3>1, <3>2 DEF Outlasts
  <2> QED BY <2>1, <2>2
<1>6. ASSUME NEW q \in Pollers, poll'[q].pc # "idle"
      PROVE Outlasts(poll[q].session, poll[q].state)'
  <2>1. /\ poll'[q] = poll[q] /\ poll[q].state \in States \ {s}
        /\ poll[q].session \in Objs \ {o} /\ Outlasts(poll[q].session, poll[q].state)
        BY <1>1, <1>2, <1>6 DEF Bound, AliasInv, Owned, Free, OutlastInv
  <2> QED BY <1>4, <2>1 DEF Outlasts
<1> QED BY <1>5, <1>6 DEF OutlastInv

\* A rebuilt session lasts as long as its metadata says.
LEMMA RebuildKeepsOutlast ==
    ASSUME TypeInv, OutlastInv, NEW p \in Pollers, NEW s \in States, PollRebuild(p, s)
    PROVE OutlastInv'
<1> USE DEF TypeInv, TypeOK
<1>1. PICK o \in Objs : /\ Free(o)
                        /\ heap' = [heap EXCEPT ![o] = Rebuilt(s)]
                        /\ poll' = [poll EXCEPT ![p] = [Idle EXCEPT !.pc = "restore",
                                                        !.state = s, !.session = o]]
      BY DEF PollRebuild
<1>2. sessions' = sessions /\ reply' = reply BY DEF PollRebuild
<1>3. heap'[o].expiresAt = reply[s].expiresAt BY <1>1 DEF Rebuilt
<1>4. ASSUME NEW t \in States, NEW a \in Objs \ {o}, Outlasts(a, t)
      PROVE reply'[t].expiresAt <= heap'[a].expiresAt
      BY <1>1, <1>2, <1>4 DEF Outlasts
<1>5. ASSUME NEW t \in States, sessions'[t] # None PROVE Outlasts(sessions[t], t)'
  <2>1. /\ sessions'[t] = sessions[t] /\ sessions[t] \in Objs \ {o}
        /\ Outlasts(sessions[t], t)
        BY <1>1, <1>2, <1>5 DEF Free, OutlastInv
  <2> QED BY <1>4, <2>1 DEF Outlasts
<1>6. ASSUME NEW q \in Pollers, poll'[q].pc # "idle"
      PROVE Outlasts(poll[q].session, poll[q].state)'
  <2>1. CASE q = p
    <3>1. poll'[q].state = s /\ poll'[q].session = o BY <1>1, <2>1 DEF Idle
    <3>2. reply[s].expiresAt \in Nat BY DEF Reply
    <3> QED BY <1>2, <1>3, <3>1, <3>2 DEF Outlasts
  <2>2. CASE q # p
    <3>1. /\ poll'[q] = poll[q] /\ poll[q].state \in States
          /\ poll[q].session \in Objs \ {o} /\ Outlasts(poll[q].session, poll[q].state)
          BY <1>1, <1>6, <2>2 DEF Bound, Free, OutlastInv
    <3> QED BY <1>4, <3>1 DEF Outlasts
  <2> QED BY <2>1, <2>2
<1> QED BY <1>5, <1>6 DEF OutlastInv

\* Whatever session a login goes by lasts at least as long as its metadata says, so a
\* session that was pruned cannot be rebuilt into one that is still good.
THEOREM OutlastInvariant == Spec => []OutlastInv
<1>1. Init => OutlastInv BY DEF Init, OutlastInv, Idle
<1>2. ASSUME TypeInv, AliasInv, OutlastInv, [Next]_vars PROVE OutlastInv'
  <2>1. CASE \E s \in States, i \in Intervals, e \in Expiries : Start(s, i, e)
        BY <1>2, <2>1, StartKeepsOutlast
  <2>2. CASE \E p \in Pollers, s \in States : PollRebuild(p, s)
        BY <1>2, <2>2, RebuildKeepsOutlast
  <2>3. CASE /\ Next
             /\ \A s \in States, i \in Intervals, e \in Expiries : ~Start(s, i, e)
             /\ \A p \in Pollers, s \in States : ~PollRebuild(p, s)
        BY <1>2, <2>3, StepMovesPointers, MoveKeepsOutlast
  <2>4. CASE UNCHANGED vars BY <1>2, <2>4 DEF vars, OutlastInv, Outlasts
  <2> QED BY <1>2, <2>1, <2>2, <2>3, <2>4
<1>3. TypeInv /\ AliasInv /\ OutlastInv /\ [Next]_vars => OutlastInv' BY <1>2
<1> QED BY <1>1, <1>3, TypeInvariant, AliasInvariant, PTL DEF Spec

-----------------------------------------------------------------------------
(* A login that nothing went wrong with keeps pace with upstream            *)

AtPace(o, s) == heap[o].interval = asked[s] /\ due[s] <= heap[o].nextAttempt

\* What a call of login s has in hand on its way through the handler.
CallAtPace(c, s) ==
    /\ c.pc = "restore" => Expired(c.session)
    /\ c.pc = "gate" => /\ sessions[s] \in {None, c.session}
                        /\ Expired(c.session) \/ AtPace(c.session, s)
    /\ c.pc = "save" => AtPace(c.session, s)
    /\ c.pc \in {"send", "wait"} \/ (c.pc = "answered" /\ c.outcome = "pending") =>
          heap[c.session].interval = asked[s]
    /\ c.pc = "wait" => c.interval = asked[s]
    /\ c.pc = "answered" /\ c.outcome \in {"pending", "slow_down"} =>
          NextInterval(c) = asked[s] /\ due[s] <= c.now + asked[s]

\* A login under way that no error was told of, in a plugin that was not reloaded.
Watched(s) == code[s] # "unissued" /\ successes[s] = 0 /\ ~failed[s] /\ reloads = 0

Pace(s) ==
    Watched(s) =>
        /\ sessions[s] = None => clock > reply[s].expiresAt
        /\ sessions[s] # None /\ (\A p \in Pollers : poll[p].state # s) =>
              AtPace(sessions[s], s)
        /\ \A p \in Pollers : poll[p].state = s => CallAtPace(poll[p], s)

PaceInv ==
    /\ \A s \in States : Pace(s)
    /\ \A s \in States : code[s] = "unissued" => due[s] = 0 /\ successes[s] = 0

Before == TypeInv /\ AliasInv /\ OutlastInv /\ OnePollPerLogin /\ PaceInv

\* A step that does nothing to login s, or prunes its session.
Rests(s) ==
    /\ Watched(s)' => Watched(s)
    /\ clock <= clock' /\ reply'[s] = reply[s] /\ asked'[s] = asked[s] /\ due'[s] = due[s]
    /\ \A o \in Objs : ~Free(o) /\ heap[o].code = s => heap'[o] = heap[o]
    /\ \/ sessions'[s] = sessions[s]
       \/ sessions[s] # None /\ Stale(sessions[s]) /\ sessions'[s] = None
    /\ \A p \in Pollers : poll[p].state = s \/ poll'[p].state = s => poll'[p] = poll[p]

\* A login at rest stays at pace: only an expired session is pruned.
LEMMA RestsKeepsPace ==
    ASSUME Before, TypeInv', NEW s \in States, Rests(s) PROVE Pace(s)'
<1> USE DEF TypeInv, TypeOK, Before
<1> SUFFICES ASSUME Watched(s)'
             PROVE /\ sessions'[s] = None => clock' > reply'[s].expiresAt
                   /\ sessions'[s] # None /\ (\A p \in Pollers : poll'[p].state # s) =>
                        AtPace(sessions[s], s)'
                   /\ \A p \in Pollers : poll'[p].state = s => CallAtPace(poll[p], s)'
    BY DEF Pace
<1>1. /\ Watched(s) /\ Pace(s) BY DEF Rests, PaceInv
<1>2. /\ clock \in Nat /\ clock' \in Nat /\ clock <= clock' /\ reply'[s] = reply[s]
      /\ reply[s].expiresAt \in Nat /\ asked'[s] = asked[s] /\ due'[s] = due[s]
      BY DEF Rests, Reply
<1>3. ASSUME sessions'[s] = None PROVE clock' > reply'[s].expiresAt
  <2>1. CASE sessions[s] = None BY <1>1, <1>2, <2>1 DEF Pace
  <2>2. CASE sessions[s] # None
    <3>1. sessions[s] \in Objs /\ Stale(sessions[s]) BY <1>3, <2>2 DEF Rests
    <3>2. /\ heap[sessions[s]].expiresAt \in Nat /\ PruneGrace \in Nat
          /\ reply[s].expiresAt <= heap[sessions[s]].expiresAt
          BY <2>2, <3>1, TimeAssumption DEF Session, OutlastInv, Outlasts
    <3> QED BY <1>2, <3>1, <3>2 DEF Stale
  <2> QED BY <2>1, <2>2
<1>4. ASSUME sessions'[s] # None, \A p \in Pollers : poll'[p].state # s
      PROVE AtPace(sessions[s], s)'
  <2>1. \A p \in Pollers : poll[p].state # s BY <1>4 DEF Rests
  <2>2. sessions'[s] = sessions[s] /\ sessions[s] \in Objs BY <1>4 DEF Rests
  <2>3. ~Free(sessions[s]) /\ heap[sessions[s]].code = s
        BY <1>4, <2>2 DEF Free, AliasInv, Owned
  <2>4. heap'[sessions[s]] = heap[sessions[s]] BY <2>2, <2>3 DEF Rests
  <2> QED BY <1>1, <1>2, <1>4, <2>1, <2>2, <2>4 DEF Pace, AtPace
<1>5. ASSUME NEW p \in Pollers, poll'[p].state = s PROVE CallAtPace(poll[p], s)'
  <2>1. poll'[p] = poll[p] /\ poll[p].state = s BY <1>5 DEF Rests
  <2>2. poll[p].pc # "idle" /\ poll[p].session \in Objs
        BY <2>1, NoneAssumption DEF Bound, Idle
  <2>3. ~Free(poll[p].session) /\ heap[poll[p].session].code = s
        BY <2>1, <2>2 DEF Free, AliasInv, Owned
  <2>4. heap'[poll[p].session] = heap[poll[p].session] BY <2>2, <2>3 DEF Rests
  <2>5. CallAtPace(poll[p], s) BY <1>1, <2>1 DEF Pace
  <2>6. Expired(poll[p].session) => Expired(poll[p].session)'
        BY <1>2, <2>1, <2>2, <2>4 DEF Expired, Session
  <2>7. AtPace(poll[p].session, s) => AtPace(poll[p].session, s)'
        BY <1>2, <2>1, <2>4 DEF AtPace
  <2>8. sessions'[s] \in {sessions[s], None} BY DEF Rests
  <2>9. NextInterval(poll[p])' = NextInterval(poll[p]) BY <2>1 DEF NextInterval
  <2> QED BY <1>2, <2>1, <2>4, <2>5, <2>6, <2>7, <2>8, <2>9 DEF CallAtPace
<1> QED BY <1>3, <1>4, <1>5

-----------------------------------------------------------------------------
(* One login's steps leave the others at rest                              *)

\* What a poll of login s does.
Polls(p, s) ==
    \/ PollGet(p, s) \/ PollRebuild(p, s)
    \/ poll[p].state = s /\ (PollStep(p) \/ Exchange(p) \/ Drop(p))

\* A poll of one login leaves every other login at rest.
LEMMA OthersRest ==
    ASSUME Before, TypeInv', NEW p \in Pollers, NEW s \in States, Polls(p, s),
           NEW t \in States \ {s}
    PROVE Rests(t)
<1> USE DEF TypeInv, TypeOK, Before, Rests, Watched, store, told, history, faults
<1>0. clock \in Nat /\ t # None BY NoneAssumption
<1>1. CASE PollGet(p, s) BY <1>0, <1>1, NoneAssumption DEF PollGet, MayPoll, Idle, Bound
<1>2. CASE PollRebuild(p, s)
      BY <1>0, <1>2, NoneAssumption DEF PollRebuild, MayPoll, Idle, Bound
<1> SUFFICES ASSUME poll[p].state = s, PollStep(p) \/ Exchange(p) \/ Drop(p)
             PROVE Rests(t)
    BY <1>1, <1>2 DEF Polls
<1>3. /\ poll[p].pc # "idle" /\ poll[p].session \in Objs /\ Device(p) = s
      /\ heap[poll[p].session].code = s
      BY NoneAssumption DEF Bound, Idle, AliasInv, Owned, Device
<1>4. CASE PollRestore(p) BY <1>0, <1>4 DEF PollRestore, Put, Resume
<1>5. CASE PollSave(p) BY <1>0, <1>5 DEF PollSave, Put, Return, Idle
<1>6. CASE PollExpired(p) \/ PollFail(p)
      BY <1>0, <1>6 DEF PollExpired, PollFail, Delete, TellError, Return, Idle
<1>7. CASE PollSucceed(p) BY <1>0, <1>7 DEF PollSucceed, Delete, Return, Idle
<1>8. CASE PollEarly(p) BY <1>0, <1>8 DEF PollEarly, Return, Idle
<1>9. CASE PollAdmit(p) \/ PollSend(p)
  <2>1. poll[p] \in Call OBVIOUS
  <2>2. poll'[p].state = s /\ \A q \in Pollers \ {p} : poll'[q] = poll[q]
        BY <1>9, <2>1 DEF PollAdmit, PollSend, Call
  <2>3. UNCHANGED <<clock, store, reply, code, told, history, faults>>
        BY <1>9 DEF PollAdmit, PollSend
  <2> QED BY <1>0, <2>2, <2>3
<1>10. CASE PollRecord(p) BY <1>0, <1>3, <1>10 DEF PollRecord, Resume
<1>11. CASE Exchange(p) \/ Drop(p)
  <2>1. /\ UNCHANGED <<clock, store, reply, told, reloads>>
        /\ \E outcome \in Outcomes : Answer(p, outcome)
        BY <1>11 DEF Exchange, AnswerPending, AnswerSlowDown, AnswerGrant, AnswerRefuse,
                     Drop, Outcomes
  <2>2. poll'[p].state = s /\ \A q \in Pollers \ {p} : poll'[q] = poll[q]
        BY <2>1 DEF Answer, Call
  <2>3. code'[t] = code[t] /\ asked'[t] = asked[t] /\ due'[t] = due[t]
        BY <1>3, <1>11 DEF Exchange, AnswerPending, AnswerSlowDown, AnswerGrant,
                           AnswerRefuse, Drop
  <2> QED BY <1>0, <2>1, <2>2, <2>3
<1> QED BY <1>4, <1>5, <1>6, <1>7, <1>8, <1>9, <1>10, <1>11 DEF PollStep

\* A step of the host, the user or the clock leaves every login at rest.
LEMMA AllRest ==
    ASSUME Before, TypeInv', NEW t \in States,
           \/ Tick \/ UNCHANGED vars
           \/ \E s \in States : Approve(s) \/ Refuse(s) \/ \E p \in Pollers : PollUnknown(p, s)
    PROVE Rests(t)
<1> USE DEF TypeInv, TypeOK, Before, Rests, Watched, store, told, history, faults
<1>1. clock \in Nat OBVIOUS
<1>2. CASE Tick BY <1>1, <1>2 DEF Tick
<1>3. CASE UNCHANGED vars BY <1>1, <1>3 DEF vars
<1>4. ASSUME NEW s \in States, Approve(s) \/ Refuse(s) PROVE Rests(t)
      BY <1>1, <1>4 DEF Approve, Refuse
<1>5. ASSUME NEW s \in States, NEW p \in Pollers, PollUnknown(p, s) PROVE Rests(t)
      BY <1>1, <1>5 DEF PollUnknown, TellError
<1> QED BY <1>2, <1>3, <1>4, <1>5

\* Where a login has one poll, its pace is the pace of that poll.
LEMMA OnePollPace ==
    ASSUME Before, TypeInv', OnePollPerLogin', NEW s \in States, NEW p \in Pollers,
           poll[p].state = s \/ poll'[p].state = s,
           \A q \in Pollers \ {p} : poll'[q] = poll[q],
           Watched(s)' =>
              /\ sessions'[s] = None => clock' > reply'[s].expiresAt
              /\ poll'[p].state # s /\ sessions'[s] # None => AtPace(sessions[s], s)'
              /\ poll'[p].state = s => CallAtPace(poll[p], s)'
    PROVE Pace(s)'
<1>1. \A q \in Pollers \ {p} : poll'[q].state # s
      BY NoneAssumption DEF Before, OnePollPerLogin
<1> QED BY <1>1 DEF Pace

-----------------------------------------------------------------------------
(* The steps of a login itself                                             *)

\* A login starts at pace: nothing is due yet.
LEMMA StartAtPace ==
    ASSUME Before, TypeInv', NEW s \in States, NEW i \in Intervals, NEW e \in Expiries,
           Start(s, i, e)
    PROVE /\ Pace(s)'
          /\ \A t \in States \ {s} : Rests(t)
<1> USE DEF TypeInv, TypeOK, Before
<1>1. PICK o \in Objs : /\ Free(o) /\ Put(s, o)
                        /\ heap' = [heap EXCEPT ![o] =
                               [code |-> s, interval |-> AtLeastDefault(i),
                                expiresAt |-> clock + Lifetime(e), nextAttempt |-> clock]]
      BY DEF Start
<1>2. /\ code[s] = "unissued" /\ code' = [code EXCEPT ![s] = "pending"]
      /\ asked' = [asked EXCEPT ![s] = AtLeastDefault(i)]
      /\ \A t \in States \ {s} : reply'[t] = reply[t]
      /\ UNCHANGED <<clock, poll, told, due, faults>>
      BY StartsAsExpected DEF Start
<1>3. due[s] = 0 /\ clock \in Nat BY <1>2 DEF PaceInv
<1>4. sessions'[s] = o /\ o # None BY <1>1, NoneAssumption DEF Put
<1>5. AtPace(o, s)' BY <1>1, <1>2, <1>3 DEF AtPace
<1>6. \A p \in Pollers : poll'[p].state # s
      BY <1>2, NoneAssumption DEF AliasInv, Owned, Bound, Idle
<1>7. Pace(s)'
  <2>1. AtPace(sessions[s], s)' BY <1>4, <1>5 DEF AtPace
  <2> QED BY <1>4, <1>6, <2>1 DEF Pace
<1>8. ASSUME NEW t \in States \ {s} PROVE Rests(t)
  <2>1. Watched(t)' => Watched(t) BY <1>2 DEF Watched, told, faults
  <2>2. \A a \in Objs : ~Free(a) => heap'[a] = heap[a] BY <1>1
  <2>3. \/ sessions'[t] = sessions[t]
        \/ sessions[t] # None /\ Stale(sessions[t]) /\ sessions'[t] = None
        BY <1>1 DEF Put
  <2> QED BY <1>2, <1>3, <2>1, <2>2, <2>3 DEF Rests
<1> QED BY <1>7, <1>8

\* A poll takes the session as it is kept, or rebuilds one that has expired.
LEMMA BeginAtPace ==
    ASSUME Before, TypeInv', OnePollPerLogin', NEW s \in States, NEW p \in Pollers,
           PollGet(p, s) \/ PollRebuild(p, s)
    PROVE Pace(s)'
<1> USE DEF TypeInv, TypeOK, Before
<1>1. /\ poll[p].pc = "idle" /\ poll[p].state = None
      /\ UNCHANGED <<clock, sessions, reply, code, told, history, faults>>
  <2>1. MayPoll(p, s) BY DEF PollGet, PollRebuild
  <2>2. UNCHANGED <<clock, sessions, reply, code, told, history, faults>>
        BY DEF PollGet, PollRebuild, store
  <2> QED BY <2>1, <2>2 DEF MayPoll, Bound, Idle
<1>2. /\ poll'[p].state = s /\ \A q \in Pollers \ {p} : poll'[q] = poll[q]
  <2>1. CASE PollGet(p, s) BY <2>1 DEF PollGet, Idle
  <2>2. CASE PollRebuild(p, s) BY <2>2 DEF PollRebuild, Idle
  <2> QED BY <2>1, <2>2
<1>3. \A q \in Pollers : poll[q].state # s
      BY <1>1, <1>2, NoneAssumption DEF OnePollPerLogin
<1> SUFFICES ASSUME Watched(s)'
             PROVE /\ sessions'[s] = None => clock' > reply'[s].expiresAt
                   /\ CallAtPace(poll[p], s)'
    BY <1>2, OnePollPace
<1>4. Watched(s) BY <1>1 DEF Watched, told, faults
<1>5. /\ sessions[s] = None => clock > reply[s].expiresAt
      /\ sessions[s] # None => AtPace(sessions[s], s)
      BY <1>3, <1>4 DEF PaceInv, Pace
<1>6. CASE PollGet(p, s)
  <2>1. /\ poll'[p].pc = "gate" /\ poll'[p].session = sessions[s] /\ sessions[s] # None
        /\ heap' = heap
        BY <1>6 DEF PollGet, Idle, store
  <2>2. AtPace(poll[p].session, s)' BY <1>1, <1>5, <2>1 DEF AtPace, history
  <2> QED BY <1>1, <1>5, <2>1, <2>2 DEF CallAtPace
<1>7. CASE PollRebuild(p, s)
  <2>1. PICK o \in Objs : /\ heap' = [heap EXCEPT ![o] = Rebuilt(s)]
                          /\ poll' = [poll EXCEPT ![p] = [Idle EXCEPT !.pc = "restore",
                                                          !.state = s, !.session = o]]
        BY <1>7 DEF PollRebuild
  <2>2. poll'[p].pc = "restore" /\ poll'[p].session = o BY <2>1 DEF Idle
  <2>3. heap'[o].expiresAt = reply[s].expiresAt BY <2>1 DEF Rebuilt
  <2>4. sessions[s] = None BY <1>7 DEF PollRebuild
  <2>5. Expired(poll[p].session)' BY <1>1, <1>5, <2>2, <2>3, <2>4 DEF Expired
  <2> QED BY <1>1, <1>5, <2>2, <2>5 DEF CallAtPace
<1> QED BY <1>6, <1>7

\* A call between its first look at the store and the exchange. What it takes along is
\* what upstream asked for, as the session it may go on with has not expired.
LEMMA GateAtPace ==
    ASSUME Before, TypeInv', OnePollPerLogin', NEW s \in States, NEW p \in Pollers,
           poll[p].state = s,
           PollRestore(p) \/ PollEarly(p) \/ PollAdmit(p) \/ PollSend(p)
    PROVE Pace(s)'
<1> USE DEF TypeInv, TypeOK, Before
<1>1. /\ poll[p].pc # "idle" /\ poll[p].session \in Objs /\ poll[p] \in Call
      /\ UNCHANGED <<clock, heap, reply, code, told, history, faults>>
      BY NoneAssumption DEF PollRestore, PollEarly, PollAdmit, PollSend, Bound, store
<1>2. \A q \in Pollers \ {p} : poll'[q] = poll[q]
      BY DEF PollRestore, PollEarly, PollAdmit, PollSend, Resume, Return
<1> SUFFICES ASSUME Watched(s)'
             PROVE /\ sessions'[s] = None => clock' > reply'[s].expiresAt
                   /\ poll'[p].state # s /\ sessions'[s] # None => AtPace(sessions[s], s)'
                   /\ poll'[p].state = s => CallAtPace(poll[p], s)'
    BY <1>2, OnePollPace
<1>3. Watched(s) BY <1>1 DEF Watched, told, faults
<1>4. /\ sessions[s] = None => clock > reply[s].expiresAt
      /\ CallAtPace(poll[p], s)
      BY <1>3 DEF PaceInv, Pace
<1>5. CASE PollRestore(p)
  <2>1. sessions'[s] = poll[p].session /\ poll[p].session # None
        BY <1>1, <1>5, NoneAssumption DEF PollRestore, Put
  <2>2. /\ poll'[p].pc = "gate" /\ poll'[p].session = poll[p].session
        /\ poll'[p].state = s
        BY <1>1, <1>5 DEF PollRestore, Resume, Call
  <2>3. Expired(poll[p].session) BY <1>4, <1>5 DEF PollRestore, CallAtPace
  <2>4. Expired(poll[p].session)' BY <1>1, <2>2, <2>3 DEF Expired
  <2> QED BY <2>1, <2>2, <2>4 DEF CallAtPace
<1>6. CASE PollEarly(p)
  <2>1. /\ poll'[p].state = None /\ sessions' = sessions
        BY <1>6 DEF PollEarly, Return, Idle, store
  <2>2. sessions[s] # None => AtPace(sessions[s], s)
        BY <1>4, <1>6 DEF PollEarly, CallAtPace
  <2> QED BY <1>1, <1>4, <2>1, <2>2, NoneAssumption DEF AtPace, history
<1>7. CASE PollAdmit(p)
  <2>1. /\ poll'[p].pc = "send" /\ poll'[p].session = poll[p].session
        /\ poll'[p].state = s /\ sessions' = sessions
        BY <1>1, <1>7 DEF PollAdmit, Call, store
  <2>2. heap[poll[p].session].interval = asked[s]
        BY <1>4, <1>7 DEF PollAdmit, CallAtPace, AtPace
  <2> QED BY <1>1, <1>4, <2>1, <2>2 DEF CallAtPace, history
<1>8. CASE PollSend(p)
  <2>1. /\ poll'[p].pc = "wait" /\ poll'[p].session = poll[p].session
        /\ poll'[p].state = s /\ sessions' = sessions
        /\ poll'[p].interval = heap[poll[p].session].interval
        BY <1>1, <1>8 DEF PollSend, Call, store
  <2>2. heap[poll[p].session].interval = asked[s]
        BY <1>4, <1>8 DEF PollSend, CallAtPace
  <2> QED BY <1>1, <1>4, <2>1, <2>2 DEF CallAtPace, history
<1> QED BY <1>5, <1>6, <1>7, <1>8

\* The answer of upstream moves what it asks for and what the call will record alike.
LEMMA ExchangeAtPace ==
    ASSUME Before, TypeInv', OnePollPerLogin', NEW s \in States, NEW p \in Pollers,
           poll[p].state = s, Exchange(p) \/ Drop(p)
    PROVE Pace(s)'
<1> USE DEF TypeInv, TypeOK, Before
<1>1. /\ poll[p].pc = "wait" /\ poll[p].session \in Objs /\ poll[p] \in Call
      /\ Device(p) = s /\ code[s] # "unissued"
  <2>1. poll[p].pc = "wait"
        BY DEF Exchange, AnswerPending, AnswerSlowDown, AnswerGrant, AnswerRefuse, Drop,
               Waiting
  <2> QED BY <2>1 DEF Bound, AliasInv, Owned, Device
<1>2. /\ UNCHANGED <<clock, store, reply, told, reloads>>
      /\ \E outcome \in Outcomes : Answer(p, outcome)
      BY DEF Exchange, AnswerPending, AnswerSlowDown, AnswerGrant, AnswerRefuse, Drop,
             Outcomes, faults
<1>3. /\ \A q \in Pollers \ {p} : poll'[q] = poll[q]
      /\ poll'[p].pc = "answered" /\ poll'[p].state = s
      /\ poll'[p].session = poll[p].session /\ poll'[p].now = poll[p].now
      /\ poll'[p].interval = poll[p].interval
      BY <1>1, <1>2 DEF Answer, Call
<1> SUFFICES ASSUME Watched(s)'
             PROVE /\ sessions'[s] = None => clock' > reply'[s].expiresAt
                   /\ CallAtPace(poll[p], s)'
    BY <1>3, OnePollPace
<1>4. Watched(s) BY <1>1, <1>2 DEF Watched, told
<1>5. /\ sessions[s] = None => clock > reply[s].expiresAt
      /\ heap[poll[p].session].interval = asked[s] /\ poll[p].interval = asked[s]
      BY <1>1, <1>4 DEF PaceInv, Pace, CallAtPace
<1>6. asked[s] \in Nat /\ poll[p].now \in Nat BY <1>1 DEF Call
<1>7. CASE AnswerPending(p)
  <2>1. /\ poll'[p].outcome = "pending" /\ asked' = asked
        /\ due'[s] = poll[p].now + asked[s]
        BY <1>1, <1>7 DEF AnswerPending, Answer, Call
  <2> QED BY <1>2, <1>3, <1>5, <1>6, <2>1 DEF CallAtPace, NextInterval, store
<1>8. CASE AnswerSlowDown(p)
  <2>1. /\ poll'[p].outcome = "slow_down" /\ asked'[s] = asked[s] + DefaultPollInterval
        /\ due'[s] = poll[p].now + asked[s] + DefaultPollInterval
        BY <1>1, <1>8 DEF AnswerSlowDown, Answer, Call
  <2>2. DefaultPollInterval \in Nat BY TimeAssumption
  <2> QED BY <1>2, <1>3, <1>5, <1>6, <2>1, <2>2 DEF CallAtPace, NextInterval, store
<1>9. CASE AnswerGrant(p) \/ AnswerRefuse(p) \/ Drop(p)
  <2>1. poll'[p].outcome \in {"success", "error"}
        BY <1>1, <1>9 DEF AnswerGrant, AnswerRefuse, Drop, Answer, Call
  <2> QED BY <1>2, <1>3, <1>5, <2>1 DEF CallAtPace, store
<1> QED BY <1>7, <1>8, <1>9 DEF Exchange

\* The end of a poll: what it recorded is in the session, and the session in the store.
\* A poll that ends in an error or in success is no longer watched.
LEMMA EndAtPace ==
    ASSUME Before, TypeInv', OnePollPerLogin', NEW s \in States, NEW p \in Pollers,
           poll[p].state = s,
           \/ PollRecord(p) \/ PollSave(p) \/ PollExpired(p) \/ PollFail(p) \/ PollSucceed(p)
    PROVE Pace(s)'
<1> USE DEF TypeInv, TypeOK, Before
<1>1. /\ poll[p].pc # "idle" /\ poll[p].session \in Objs /\ poll[p] \in Call
      /\ UNCHANGED <<clock, reply, code, history, faults>>
      /\ \A q \in Pollers \ {p} : poll'[q] = poll[q]
      BY DEF PollRecord, PollSave, PollExpired, PollFail, PollSucceed, Resume, Return, Bound
<1>2. CASE PollExpired(p) \/ PollFail(p) \/ PollSucceed(p)
  <2>1. failed'[s] \/ successes'[s] # 0
        BY <1>2 DEF PollExpired, PollFail, PollSucceed, TellError
  <2> QED BY <2>1 DEF Pace, Watched
<1> SUFFICES ASSUME Watched(s)', PollRecord(p) \/ PollSave(p)
             PROVE /\ sessions'[s] = None => clock' > reply'[s].expiresAt
                   /\ poll'[p].state # s /\ sessions'[s] # None => AtPace(sessions[s], s)'
                   /\ poll'[p].state = s => CallAtPace(poll[p], s)'
    BY <1>1, <1>2, OnePollPace DEF Pace
<1>3. Watched(s) BY <1>1 DEF PollRecord, PollSave, Watched, told, faults
<1>4. /\ sessions[s] = None => clock > reply[s].expiresAt
      /\ CallAtPace(poll[p], s)
      BY <1>3 DEF PaceInv, Pace
<1>5. CASE PollRecord(p)
  <2>1. /\ poll'[p].pc = "save" /\ poll'[p].state = s /\ sessions' = sessions
        /\ poll'[p].session = poll[p].session
        BY <1>1, <1>5 DEF PollRecord, Resume, Call
  <2>2. /\ NextInterval(poll[p]) = asked[s] /\ due[s] <= poll[p].now + asked[s]
        /\ poll[p].outcome = "pending" => heap[poll[p].session].interval = asked[s]
        BY <1>4, <1>5 DEF PollRecord, CallAtPace
  <2>3. heap[poll[p].session] \in Session BY <1>1
  <2>4. /\ heap'[poll[p].session].nextAttempt = poll[p].now + asked[s]
        /\ heap'[poll[p].session].interval = asked[s]
        BY <1>1, <1>5, <2>2, <2>3 DEF PollRecord, Session
  <2>5. AtPace(poll[p].session, s)' BY <1>1, <2>1, <2>2, <2>4 DEF AtPace, history
  <2> QED BY <1>1, <1>4, <2>1, <2>5 DEF CallAtPace
<1>6. CASE PollSave(p)
  <2>1. /\ poll'[p].state = None /\ sessions'[s] = poll[p].session /\ heap' = heap
        BY <1>6 DEF PollSave, Put, Return, Idle
  <2>2. AtPace(poll[p].session, s) BY <1>4, <1>6 DEF PollSave, CallAtPace
  <2>3. AtPace(sessions[s], s)' BY <1>1, <2>1, <2>2 DEF AtPace, history
  <2> QED BY <1>1, <2>1, <2>3, NoneAssumption
<1> QED BY <1>5, <1>6

\* Nothing is due and nothing was delivered before a login is started.
LEMMA UnissuedIsNew ==
    ASSUME Before, TypeInv', [Next]_vars, NEW s \in States, code'[s] = "unissued"
    PROVE due'[s] = 0 /\ successes'[s] = 0
<1> USE DEF TypeInv, TypeOK, Before, store, told, history, faults
<1> DEFINE Kept == code[s] = "unissued" /\ due'[s] = due[s] /\ successes'[s] = successes[s]
<1> SUFFICES Kept BY DEF PaceInv
<1>1. CASE \E t \in States, i \in Intervals, e \in Expiries : Start(t, i, e)
      BY <1>1 DEF Start
<1>2. CASE \E p \in Pollers, t \in States : PollBegin(p, t) \/ PollUnknown(p, t)
      BY <1>2 DEF PollBegin, PollGet, PollRebuild, PollUnknown, TellError
<1>3. CASE \E p \in Pollers : \/ PollRestore(p) \/ PollExpired(p) \/ PollEarly(p)
                              \/ PollAdmit(p) \/ PollSend(p) \/ PollRecord(p)
                              \/ PollSave(p) \/ PollFail(p)
      BY <1>3 DEF PollRestore, PollExpired, PollEarly, PollAdmit, PollSend, PollRecord,
                  PollSave, PollFail, TellError
<1>4. ASSUME NEW p \in Pollers, PollSucceed(p) PROVE Kept
  <2>1. poll[p].state \in States /\ code[poll[p].state] # "unissued"
        BY <1>4 DEF PollSucceed, Bound, AliasInv, Owned
  <2> QED BY <1>4, <2>1 DEF PollSucceed
<1>5. ASSUME NEW p \in Pollers, Exchange(p) \/ Drop(p) PROVE Kept
  <2>1. Device(p) \in States /\ code[Device(p)] # "unissued"
    <3>1. poll[p].pc = "wait"
          BY <1>5 DEF Exchange, AnswerPending, AnswerSlowDown, AnswerGrant, AnswerRefuse,
                      Drop, Waiting
    <3> QED BY <3>1 DEF Bound, AliasInv, Owned, Device
  <2> QED BY <1>5, <2>1 DEF Exchange, AnswerPending, AnswerSlowDown, AnswerGrant,
                            AnswerRefuse, Drop
<1>6. CASE Tick \/ Reload \/ \E t \in States : Approve(t) \/ Refuse(t)
      BY <1>6 DEF Tick, Reload, Approve, Refuse
<1>7. CASE UNCHANGED vars BY <1>7 DEF vars
<1> QED BY <1>1, <1>2, <1>3, <1>4, <1>5, <1>6, <1>7 DEF Next, PollStep

-----------------------------------------------------------------------------
(* The invariant, and what follows                                         *)

\* Every step keeps every login at pace.
LEMMA NextKeepsPace ==
    ASSUME Before, TypeInv', OnePollPerLogin', [Next]_vars PROVE PaceInv'
<1> SUFFICES ASSUME NEW s \in States PROVE Pace(s)'
    BY UnissuedIsNew DEF PaceInv
<1>1. ASSUME NEW t \in States, NEW i \in Intervals, NEW e \in Expiries, Start(t, i, e)
      PROVE Pace(s)'
      BY <1>1, StartAtPace, RestsKeepsPace
<1>2. ASSUME NEW p \in Pollers, NEW t \in States, Polls(p, t) PROVE Pace(s)'
  <2>1. CASE s = t
        BY <1>2, <2>1, BeginAtPace, GateAtPace, ExchangeAtPace, EndAtPace DEF Polls, PollStep
  <2>2. CASE s # t BY <1>2, <2>2, OthersRest, RestsKeepsPace
  <2> QED BY <2>1, <2>2
<1>3. ASSUME NEW p \in Pollers, PollStep(p) \/ Exchange(p) \/ Drop(p)
      PROVE \E t \in States : Polls(p, t)
  <2>1. poll[p].pc # "idle"
        BY <1>3 DEF PollStep, PollRestore, PollExpired, PollEarly, PollAdmit, PollSend,
                    PollRecord, PollSave, PollFail, PollSucceed, Exchange, AnswerPending,
                    AnswerSlowDown, AnswerGrant, AnswerRefuse, Drop, Waiting
  <2> QED BY <1>3, <2>1 DEF Polls, Before, TypeInv, Bound
<1>4. CASE Reload
  <2>1. reloads' # 0 BY <1>4 DEF Reload, Before, TypeInv, TypeOK
  <2> QED BY <2>1 DEF Pace, Watched
<1>5. CASE \/ Tick \/ UNCHANGED vars
           \/ \E t \in States : Approve(t) \/ Refuse(t) \/ \E p \in Pollers : PollUnknown(p, t)
      BY <1>5, AllRest, RestsKeepsPace
<1> QED BY <1>1, <1>2, <1>3, <1>4, <1>5 DEF Next, PollBegin, Polls

\* What a login goes by, in the store or in the hands of its poll, is what upstream
\* asked for.
THEOREM PaceInvariant == SequentialSpec => []PaceInv
<1>1. Init => PaceInv BY DEF Init, PaceInv, Pace, Watched
<1>2. TypeInv /\ TypeInv' /\ AliasInv /\ OutlastInv /\ OnePollPerLogin /\ PaceInv
        /\ [Next /\ OnePollPerLogin']_vars => PaceInv'
  <2> SUFFICES ASSUME Before, TypeInv', [Next /\ OnePollPerLogin']_vars PROVE PaceInv'
      BY DEF Before
  <2>1. OnePollPerLogin' BY DEF Before, OnePollPerLogin, vars
  <2> QED BY <2>1, NextKeepsPace
<1> QED BY <1>1, <1>2, SequentialIsSpec, TypeInvariant, AliasInvariant, OutlastInvariant,
           OnePollInvariant, PTL DEF SequentialSpec

\* The interval kept for a login between two polls is the one upstream asked for,
\* however often it said slow_down: no step of the back-off is lost.
THEOREM SlowDownKept == SequentialSpec => []SlowDownSurvives
<1>1. ASSUME TypeInv, AliasInv, ConsumedInv, PaceInv, NEW s \in States,
             sessions[s] # None, reloads = 0, ~failed[s],
             \A p \in Pollers : poll[p].state # s
      PROVE heap[sessions[s]].interval = asked[s]
  <2>1. code[s] # "unissued" BY <1>1 DEF AliasInv, Owned
  <2>2. successes[s] = 0 BY <1>1 DEF ConsumedInv, TypeInv, TypeOK
  <2> QED BY <1>1, <2>1, <2>2 DEF PaceInv, Pace, Watched, AtPace
<1>2. TypeInv /\ AliasInv /\ ConsumedInv /\ PaceInv => SlowDownSurvives
      BY <1>1 DEF SlowDownSurvives
<1> QED BY <1>2, SequentialIsSpec, TypeInvariant, AliasInvariant, ConsumedInvariant,
           PaceInvariant, PTL

\* Only the gate lets a call through to the exchange.
LEMMA OnlyAdmitSends ==
    ASSUME TypeInv, [Next]_vars, NEW p \in Pollers, poll[p].pc = "gate", poll'[p].pc = "send"
    PROVE PollAdmit(p)
<1> USE DEF TypeInv, TypeOK
<1>1. ASSUME NEW q \in Pollers \ {p},
             (\E s \in States : PollBegin(q, s)) \/ PollStep(q) \/ Exchange(q) \/ Drop(q)
      PROVE poll'[p] = poll[p]
      BY <1>1 DEF PollBegin, PollGet, PollRebuild, PollStep, PollRestore, PollExpired,
                  PollEarly, PollAdmit, PollSend, PollRecord, PollSave, PollFail, PollSucceed,
                  Exchange, AnswerPending, AnswerSlowDown, AnswerGrant, AnswerRefuse, Drop,
                  Resume, Return, Answer
<1>2. CASE \E s \in States : PollBegin(p, s)
      BY <1>2 DEF PollBegin, PollGet, PollRebuild, MayPoll
<1>3. CASE PollStep(p)
      BY <1>3 DEF PollStep, PollRestore, PollExpired, PollEarly, PollSend, PollRecord,
                  PollSave, PollFail, PollSucceed, Return, Idle
<1>4. CASE Exchange(p) \/ Drop(p)
      BY <1>4 DEF Exchange, AnswerPending, AnswerSlowDown, AnswerGrant, AnswerRefuse, Drop,
                  Waiting
<1>5. CASE \/ \E s \in States, i \in Intervals, e \in Expiries : Start(s, i, e)
           \/ \E q \in Pollers, s \in States : PollUnknown(q, s)
           \/ Tick \/ \E s \in States : Approve(s) \/ Refuse(s)
           \/ UNCHANGED vars
      BY <1>5 DEF Start, PollUnknown, Tick, Approve, Refuse, vars
<1>6. CASE Reload BY <1>6 DEF Reload, Idle
<1> QED BY <1>1, <1>2, <1>3, <1>4, <1>5, <1>6 DEF Next

\* No poll reaches upstream before it expects one, while nothing failed.
THEOREM PolledWhenDue == SequentialSpec => PacingKept
<1>1. ASSUME TypeInv, AliasInv, ConsumedInv, PaceInv, [Next]_vars, NEW p \in Pollers,
             poll[p].pc = "gate", poll'[p].pc = "send",
             ~failed[poll[p].state], reloads = 0
      PROVE clock >= due[poll[p].state]
  <2>1. PICK s \in States, o \in Objs : poll[p].state = s /\ poll[p].session = o
        BY <1>1 DEF TypeInv, Bound
  <2>2. Watched(s)
    <3>1. code[s] # "unissued" BY <1>1, <2>1 DEF AliasInv, Owned
    <3>2. successes[s] = 0 BY <1>1, <2>1 DEF ConsumedInv, TypeInv, TypeOK
    <3> QED BY <1>1, <2>1, <3>1, <3>2 DEF Watched
  <2>3. PollAdmit(p) BY <1>1, OnlyAdmitSends
  <2>4. AtPace(o, s) BY <1>1, <2>1, <2>2, <2>3 DEF PollAdmit, PaceInv, Pace, CallAtPace
  <2>5. ~(clock < heap[o].nextAttempt) BY <2>1, <2>3 DEF PollAdmit, Early
  <2>6. /\ clock \in Nat /\ due[s] \in Nat /\ heap[o].nextAttempt \in Nat
        BY <1>1, <2>1 DEF TypeInv, TypeOK, Session
  <2> QED BY <2>1, <2>4, <2>5, <2>6 DEF AtPace
<1>2. TypeInv /\ AliasInv /\ ConsumedInv /\ PaceInv /\ [Next]_vars =>
        [\A p \in Pollers :
           LET s == poll[p].state IN
           poll[p].pc = "gate" /\ poll'[p].pc = "send" /\ ~failed[s] /\ reloads = 0
              => clock >= due[s]]_vars
      BY <1>1
<1> QED BY <1>2, SequentialIsSpec, TypeInvariant, AliasInvariant, ConsumedInvariant,
           PaceInvariant, PTL DEF Spec, PacingKept
====
