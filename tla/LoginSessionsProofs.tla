---- MODULE LoginSessionsProofs ----
(***************************************************************************)
(* What LoginSessions guarantees for every number of logins, polls and     *)
(* addresses, every clock and every sequence of faults: types, the single  *)
(* credential, and the promised deadline.                                  *)
(***************************************************************************)
EXTENDS LoginSessions, TLAPS

-----------------------------------------------------------------------------
(* Lemmas about the operators                                              *)

\* Dropping the fraction of a second never moves an instant forward.
LEMMA WholeSecondsBelow ==
    ASSUME NEW t \in Nat PROVE WholeSeconds(t) \in Nat /\ WholeSeconds(t) <= t
<1>1. Second \in Nat /\ Second > 0 BY TimeAssumption
<1> DEFINE q == t \div Second
<1>2. q \in Nat /\ q * Second <= t BY <1>1
<1>3. q * Second \in Nat BY <1>1, <1>2
<1> QED BY <1>2, <1>3 DEF WholeSeconds

\* An interval upstream may answer becomes one that respects the floor.
LEMMA AtLeastDefaultType ==
    ASSUME NEW i \in Intervals
    PROVE AtLeastDefault(i) \in Nat
BY TimeAssumption DEF AtLeastDefault

\* A session without a positive expires_in lives for the default lifetime.
LEMMA LifetimeType == ASSUME NEW e \in Expiries PROVE Lifetime(e) \in Nat
BY TimeAssumption DEF Lifetime

\* The handler starts from what upstream may expect and what it granted.
LEMMA StartsAsExpected ==
    /\ \A i \in Intervals : Expected(i) = AtLeastDefault(i)
    /\ \A e \in Expiries : Granted(e) = Lifetime(e)
BY TimeAssumption DEF Expected, AtLeastDefault, Granted, Lifetime

-----------------------------------------------------------------------------
(* Types                                                                   *)

\* The store and the calls stay well-typed through the operators they share.
LEMMA PutType ==
    ASSUME TypeOK, NEW s \in States, NEW o \in Objs, Put(s, o)
    PROVE sessions' \in [States -> Objs \cup {None}]
BY DEF TypeOK, Put

\* Forgetting a login, after its end or its expiry, leaves a well-typed store.
LEMMA DeleteType ==
    ASSUME TypeOK, NEW s \in States, Delete(s)
    PROVE sessions' \in [States -> Objs \cup {None}]
BY DEF TypeOK, Delete

\* A thread between two calls is a well-typed call record.
LEMMA IdleType == Idle \in Call
BY DEF Idle, Call, PCs, Outcomes

\* A call that answers the host leaves its thread idle.
LEMMA ReturnType ==
    ASSUME TypeOK, NEW p \in Pollers, Return(p)
    PROVE poll' \in [Pollers -> Call]
BY IdleType DEF TypeOK, Return

\* A call that goes on to its next statement keeps what it holds.
LEMMA ResumeType ==
    ASSUME TypeOK, NEW p \in Pollers, NEW pc \in PCs, Resume(p, pc)
    PROVE poll' \in [Pollers -> Call]
BY DEF TypeOK, Resume, Call

\* A call in flight has a login and an address: the fields are nil only when idle.
Bound == \A p \in Pollers :
            /\ poll[p].pc # "idle" => poll[p].state \in States /\ poll[p].session \in Objs
            /\ poll[p].pc = "idle" => poll[p] = Idle

TypeInv == TypeOK /\ Bound

\* The type invariant and the store's bounds are inductive: no handler step stores
\* an instant, pointer or outcome outside its type.
THEOREM TypeInvariant == Spec => []TypeInv
<1>1. Init => TypeInv
  <2> SUFFICES ASSUME Init PROVE TypeInv OBVIOUS
  <2>1. heap \in [Objs -> Session] BY DEF Init, Session
  <2>2. poll \in [Pollers -> Call] BY IdleType DEF Init
  <2> QED BY <2>1, <2>2 DEF Init, TypeInv, TypeOK, Bound, Reply, Codes, Idle
<1>2. TypeInv /\ [Next]_vars => TypeInv'
  <2> SUFFICES ASSUME TypeInv, [Next]_vars PROVE TypeInv' OBVIOUS
  <2> USE DEF TypeInv, TypeOK, Bound, store, told, history, faults
  <2>1. ASSUME NEW s \in States, NEW i \in Intervals, NEW e \in Expiries, Start(s, i, e)
        PROVE TypeInv'
    <3>1. clock + Lifetime(e) \in Nat BY LifetimeType
    <3>2. PICK o \in Objs : /\ Put(s, o)
                            /\ heap' = [heap EXCEPT ![o] =
                                   [code |-> s, interval |-> AtLeastDefault(i),
                                    expiresAt |-> clock + Lifetime(e), nextAttempt |-> clock]]
          BY <2>1 DEF Start
    <3>3. sessions' \in [States -> Objs \cup {None}] BY <3>2, PutType
    <3>4. heap' \in [Objs -> Session] BY <3>1, <3>2, AtLeastDefaultType DEF Session
    <3>5. reply' \in [States -> Reply]
          BY <2>1, <3>1, AtLeastDefaultType, StartsAsExpected, WholeSecondsBelow DEF Start, Reply
    <3> QED BY <2>1, <3>3, <3>4, <3>5, AtLeastDefaultType, StartsAsExpected DEF Start, Codes
  <2>2. ASSUME NEW p \in Pollers, NEW s \in States, PollGet(p, s) PROVE TypeInv'
        BY <2>2 DEF PollGet, MayPoll, Idle, Call, PCs, Outcomes
  <2>3. ASSUME NEW p \in Pollers, NEW s \in States, PollRebuild(p, s) PROVE TypeInv'
    <3>1. PICK o \in Objs : /\ heap' = [heap EXCEPT ![o] = Rebuilt(s)]
                            /\ poll' = [poll EXCEPT ![p] = [Idle EXCEPT !.pc = "restore",
                                                            !.state = s, !.session = o]]
          BY <2>3 DEF PollRebuild
    <3>2. heap' \in [Objs -> Session] BY <3>1 DEF Rebuilt, Session, Reply
    <3>3. poll' \in [Pollers -> Call] BY <3>1 DEF Idle, Call, PCs, Outcomes
    <3> QED BY <2>3, <3>1, <3>2, <3>3 DEF PollRebuild, Idle
  <2>4. ASSUME NEW p \in Pollers, NEW s \in States, PollUnknown(p, s) PROVE TypeInv'
        BY <2>4 DEF PollUnknown, TellError
  <2>5. ASSUME NEW p \in Pollers, PollRestore(p) PROVE TypeInv'
    <3>1. sessions' \in [States -> Objs \cup {None}] BY <2>5, PutType DEF PollRestore
    <3>2. poll' \in [Pollers -> Call] BY <2>5, ResumeType DEF PollRestore, PCs
    <3> QED BY <2>5, <3>1, <3>2 DEF PollRestore, Resume, Call
  <2>6. ASSUME NEW p \in Pollers, PollExpired(p) PROVE TypeInv'
        BY <2>6, DeleteType, ReturnType DEF PollExpired, TellError, Return, Idle
  <2>7. ASSUME NEW p \in Pollers, PollEarly(p) PROVE TypeInv'
        BY <2>7, ReturnType DEF PollEarly, Return, Idle
  <2>8. ASSUME NEW p \in Pollers, PollAdmit(p) PROVE TypeInv'
    <3>1. poll[p] \in Call OBVIOUS
    <3>2. poll' \in [Pollers -> Call] BY <2>8, <3>1 DEF PollAdmit, Call, PCs
    <3>3. Bound' BY <2>8, <3>1 DEF PollAdmit, Call, PCs
    <3>4. TypeOK' BY <2>8, <3>2 DEF PollAdmit
    <3> QED BY <3>3, <3>4
  <2>9. ASSUME NEW p \in Pollers, PollSend(p) PROVE TypeInv'
    <3>1. poll[p] \in Call OBVIOUS
    <3>2. poll' \in [Pollers -> Call] BY <2>9, <3>1 DEF PollSend, Call, PCs, Session
    <3>3. Bound' BY <2>9, <3>1 DEF PollSend, Call, PCs, Session
    <3>4. TypeOK' BY <2>9, <3>2 DEF PollSend
    <3> QED BY <3>3, <3>4
  <2>10. ASSUME NEW p \in Pollers, AnswerPending(p) PROVE TypeInv'
    <3>1. poll[p] \in Call OBVIOUS
    <3>2. poll' \in [Pollers -> Call] BY <2>10, <3>1
          DEF AnswerPending, Answer, Waiting, Call, PCs, Outcomes
    <3>3. Bound' BY <2>10, <3>1
          DEF AnswerPending, Answer, Waiting, Call, PCs, Outcomes
    <3>4. Device(p) \in States /\ poll[p].now \in Nat
          BY <2>10, <3>1 DEF AnswerPending, Waiting, Device, Call, Session
    <3>5. due' \in [States -> Nat] BY <2>10, <3>4 DEF AnswerPending
    <3>6. TypeOK' BY <2>10, <3>2, <3>5 DEF AnswerPending
    <3> QED BY <3>3, <3>6
  <2>11. ASSUME NEW p \in Pollers, AnswerSlowDown(p) PROVE TypeInv'
    <3>1. poll[p] \in Call OBVIOUS
    <3>2. poll' \in [Pollers -> Call] BY <2>11, <3>1
          DEF AnswerSlowDown, Answer, Waiting, Call, PCs, Outcomes
    <3>3. Bound' BY <2>11, <3>1
          DEF AnswerSlowDown, Answer, Waiting, Call, PCs, Outcomes
    <3>4. Device(p) \in States /\ poll[p].now \in Nat
          BY <2>11, <3>1 DEF AnswerSlowDown, Waiting, Device, Call, Session
    <3>5. asked' \in [States -> Nat] /\ due' \in [States -> Nat]
          BY <2>11, <3>4, TimeAssumption DEF AnswerSlowDown
    <3>6. TypeOK' BY <2>11, <3>2, <3>5 DEF AnswerSlowDown
    <3> QED BY <3>3, <3>6
  <2>12. ASSUME NEW p \in Pollers, AnswerGrant(p) PROVE TypeInv'
    <3>1. poll[p] \in Call OBVIOUS
    <3>2. poll' \in [Pollers -> Call] BY <2>12, <3>1
          DEF AnswerGrant, Answer, Waiting, Call, PCs, Outcomes
    <3>3. Bound' BY <2>12, <3>1
          DEF AnswerGrant, Answer, Waiting, Call, PCs, Outcomes
    <3>4. TypeOK' BY <2>12, <3>2 DEF AnswerGrant, Waiting, Codes
    <3> QED BY <3>3, <3>4
  <2>13. ASSUME NEW p \in Pollers, AnswerRefuse(p) PROVE TypeInv'
    <3>1. poll[p] \in Call OBVIOUS
    <3>2. poll' \in [Pollers -> Call] BY <2>13, <3>1
          DEF AnswerRefuse, Answer, Waiting, Call, PCs, Outcomes
    <3>3. Bound' BY <2>13, <3>1
          DEF AnswerRefuse, Answer, Waiting, Call, PCs, Outcomes
    <3>4. TypeOK' BY <2>13, <3>2 DEF AnswerRefuse
    <3> QED BY <3>3, <3>4
  <2>14. ASSUME NEW p \in Pollers, Drop(p) PROVE TypeInv'
    <3>1. poll[p] \in Call OBVIOUS
    <3>2. poll' \in [Pollers -> Call] BY <2>14, <3>1
          DEF Drop, Answer, Waiting, Call, PCs, Outcomes
    <3>3. Bound' BY <2>14, <3>1
          DEF Drop, Answer, Waiting, Call, PCs, Outcomes
    <3>4. TypeOK' BY <2>14, <3>2 DEF Drop, Waiting, Codes
    <3> QED BY <3>3, <3>4
  <2>15. ASSUME NEW p \in Pollers, PollRecord(p) PROVE TypeInv'
    <3>1. NextInterval(poll[p]) \in Nat BY TimeAssumption DEF NextInterval, Call
    <3>2. heap' \in [Objs -> Session] BY <2>15, <3>1 DEF PollRecord, Session, Call
    <3>3. poll' \in [Pollers -> Call] BY <2>15, ResumeType DEF PollRecord, PCs
    <3> QED BY <2>15, <3>2, <3>3 DEF PollRecord, Resume, Call
  <2>16. ASSUME NEW p \in Pollers, PollSave(p) PROVE TypeInv'
        BY <2>16, PutType, ReturnType DEF PollSave, Return, Idle
  <2>17. ASSUME NEW p \in Pollers, PollFail(p) PROVE TypeInv'
        BY <2>17, DeleteType, ReturnType DEF PollFail, TellError, Return, Idle
  <2>18. ASSUME NEW p \in Pollers, PollSucceed(p) PROVE TypeInv'
    <3>1. poll[p].state \in States BY <2>18 DEF PollSucceed
    <3>2. sessions' \in [States -> Objs \cup {None}] BY <2>18, <3>1, DeleteType DEF PollSucceed
    <3>3. poll' \in [Pollers -> Call] BY <2>18, ReturnType DEF PollSucceed
    <3>4. Bound' BY <2>18 DEF PollSucceed, Return, Idle
    <3>5. successes' \in [States -> Nat] BY <2>18, <3>1 DEF PollSucceed
    <3>6. TypeOK' BY <2>18, <3>2, <3>3, <3>5 DEF PollSucceed
    <3> QED BY <3>4, <3>6
  <2>19. ASSUME Tick PROVE TypeInv' BY <2>19 DEF Tick
  <2>20. ASSUME NEW s \in States, Approve(s) PROVE TypeInv' BY <2>20 DEF Approve, Codes
  <2>21. ASSUME NEW s \in States, Refuse(s) PROVE TypeInv' BY <2>21 DEF Refuse, Codes
  <2>22. ASSUME Reload PROVE TypeInv' BY <2>22, IdleType DEF Reload, Idle
  <2>23. CASE UNCHANGED vars BY <2>23 DEF vars
  <2> QED BY <2>1, <2>2, <2>3, <2>4, <2>5, <2>6, <2>7, <2>8, <2>9, <2>10, <2>11, <2>12,
             <2>13, <2>14, <2>15, <2>16, <2>17, <2>18, <2>19, <2>20, <2>21, <2>22, <2>23
          DEF Next, PollBegin, PollStep, Exchange
<1> QED BY <1>1, <1>2, PTL DEF Spec

\* Every variable of the login half keeps its type in every reachable state.
THEOREM TypeCorrect == Spec => []TypeOK
<1>1. TypeInv => TypeOK BY DEF TypeInv
<1> QED BY <1>1, TypeInvariant, PTL

-----------------------------------------------------------------------------
(* Pointers: an address that is stored, or held by a call, belongs to the   *)
(* login it is used for, and expires no later than that login was promised. *)

Owned(o, s) ==
    /\ heap[o].code = s /\ code[s] # "unissued"
    /\ heap[o].expiresAt <= reply[s].deadline

AliasInv ==
    /\ \A s \in States : sessions[s] # None => Owned(sessions[s], s)
    /\ \A p \in Pollers : poll[p].pc # "idle" => Owned(poll[p].session, poll[p].state)
    /\ \A s \in States : reply[s].expiresAt <= reply[s].deadline

\* What most steps do with pointers: identity and expiry of a session are never
\* written, the store gets what a call holds, a call gets what the store holds.
PointersMove ==
    /\ \A o \in Objs : heap'[o].code = heap[o].code /\ heap'[o].expiresAt = heap[o].expiresAt
    /\ reply' = reply
    /\ \A s \in States : code[s] # "unissued" => code'[s] # "unissued"
    /\ \A s \in States :
        \/ sessions'[s] \in {sessions[s], None}
        \/ \E p \in Pollers : /\ poll[p].pc # "idle" /\ poll[p].state = s
                             /\ sessions'[s] = poll[p].session
    /\ \A p \in Pollers :
        \/ poll'[p].pc = "idle"
        \/ /\ poll[p].pc # "idle"
           /\ poll'[p].state = poll[p].state /\ poll'[p].session = poll[p].session
        \/ /\ poll'[p].state \in States /\ sessions[poll'[p].state] # None
           /\ poll'[p].session = sessions[poll'[p].state]

\* Passing pointers between the store and the calls, without writing a session's
\* code or expiry, keeps every login on a session of its own.
LEMMA PointersMoveKeeps ==
    ASSUME TypeInv, AliasInv, PointersMove PROVE AliasInv'
<1> USE DEF TypeInv, TypeOK, AliasInv, PointersMove
<1>1. ASSUME NEW s \in States, sessions'[s] # None PROVE Owned(sessions[s], s)'
  <2>1. CASE sessions'[s] = sessions[s]
    <3>1. sessions[s] \in Objs /\ Owned(sessions[s], s) BY <1>1, <2>1
    <3> QED BY <2>1, <3>1 DEF Owned
  <2>2. CASE sessions'[s] # sessions[s]
    <3>1. PICK p \in Pollers : /\ poll[p].pc # "idle" /\ poll[p].state = s
                               /\ sessions'[s] = poll[p].session
          BY <1>1, <2>2
    <3>2. poll[p].session \in Objs /\ Owned(poll[p].session, s) BY <3>1 DEF Bound
    <3> QED BY <3>1, <3>2 DEF Owned
  <2> QED BY <2>1, <2>2
<1>2. ASSUME NEW p \in Pollers, poll'[p].pc # "idle"
      PROVE Owned(poll[p].session, poll[p].state)'
  <2>1. CASE /\ poll[p].pc # "idle"
             /\ poll'[p].state = poll[p].state /\ poll'[p].session = poll[p].session
    <3>1. /\ poll[p].state \in States /\ poll[p].session \in Objs
          /\ Owned(poll[p].session, poll[p].state)
          BY <2>1 DEF Bound
    <3> QED BY <2>1, <3>1 DEF Owned
  <2>2. CASE /\ poll'[p].state \in States /\ sessions[poll'[p].state] # None
             /\ poll'[p].session = sessions[poll'[p].state]
    <3>1. poll'[p].session \in Objs /\ Owned(sessions[poll'[p].state], poll'[p].state)
          BY <2>2
    <3> QED BY <2>2, <3>1 DEF Owned
  <2> QED BY <1>2, <2>1, <2>2
<1>3. (\A s \in States : reply[s].expiresAt <= reply[s].deadline)' OBVIOUS
<1> QED BY <1>1, <1>2, <1>3

\* Every step other than the creation of a session only moves pointers.
LEMMA StepMovesPointers ==
    ASSUME TypeInv, AliasInv, Next,
           \A s \in States, i \in Intervals, e \in Expiries : ~Start(s, i, e),
           \A p \in Pollers, s \in States : ~PollRebuild(p, s)
    PROVE PointersMove
<1> USE DEF TypeInv, TypeOK, PointersMove, store, told, history, faults
<1>1. ASSUME NEW p \in Pollers, NEW s \in States, PollGet(p, s) PROVE PointersMove
      BY <1>1 DEF PollGet, MayPoll, Idle
<1>2. ASSUME NEW p \in Pollers, NEW s \in States, PollUnknown(p, s) PROVE PointersMove
      BY <1>2 DEF PollUnknown, TellError
<1>3. ASSUME NEW p \in Pollers, PollRestore(p) PROVE PointersMove
      BY <1>3 DEF PollRestore, Put, Resume
<1>4. ASSUME NEW p \in Pollers, PollExpired(p) PROVE PointersMove
      BY <1>4 DEF PollExpired, Delete, Return, Idle, TellError
<1>5. ASSUME NEW p \in Pollers, PollEarly(p) PROVE PointersMove
      BY <1>5 DEF PollEarly, Return, Idle
<1>6. ASSUME NEW p \in Pollers, PollAdmit(p) PROVE PointersMove
      BY <1>6 DEF PollAdmit, Call
<1>7. ASSUME NEW p \in Pollers, PollSend(p) PROVE PointersMove
      BY <1>7 DEF PollSend, Call
<1>8. ASSUME NEW p \in Pollers, AnswerPending(p) PROVE PointersMove
      BY <1>8 DEF AnswerPending, Answer, Waiting
<1>9. ASSUME NEW p \in Pollers, AnswerSlowDown(p) PROVE PointersMove
      BY <1>9 DEF AnswerSlowDown, Answer, Waiting
<1>10. ASSUME NEW p \in Pollers, AnswerGrant(p) PROVE PointersMove
      BY <1>10 DEF AnswerGrant, Answer, Waiting
<1>11. ASSUME NEW p \in Pollers, AnswerRefuse(p) PROVE PointersMove
      BY <1>11 DEF AnswerRefuse, Answer, Waiting
<1>12. ASSUME NEW p \in Pollers, Drop(p) PROVE PointersMove
      BY <1>12 DEF Drop, Answer, Waiting
<1>13. ASSUME NEW p \in Pollers, PollRecord(p) PROVE PointersMove
      BY <1>13 DEF PollRecord, Resume
<1>14. ASSUME NEW p \in Pollers, PollSave(p) PROVE PointersMove
      BY <1>14 DEF PollSave, Put, Return, Idle
<1>15. ASSUME NEW p \in Pollers, PollFail(p) PROVE PointersMove
      BY <1>15 DEF PollFail, Delete, Return, Idle, TellError
<1>16. ASSUME NEW p \in Pollers, PollSucceed(p) PROVE PointersMove
      BY <1>16 DEF PollSucceed, Delete, Return, Idle
<1>17. ASSUME Tick PROVE PointersMove BY <1>17 DEF Tick
<1>18. ASSUME Reload PROVE PointersMove BY <1>18 DEF Reload, Idle
<1>19. ASSUME NEW s \in States, Approve(s) PROVE PointersMove BY <1>19 DEF Approve
<1>20. ASSUME NEW s \in States, Refuse(s) PROVE PointersMove BY <1>20 DEF Refuse
<1> QED BY <1>1, <1>2, <1>3, <1>4, <1>5, <1>6, <1>7, <1>8, <1>9, <1>10, <1>11, <1>12,
          <1>13, <1>14, <1>15, <1>16, <1>17, <1>18, <1>19, <1>20
        DEF Next, PollBegin, PollStep, Exchange

\* handleLoginStart puts a session at an address nobody points to, with the
\* expiry it promises the host.
LEMMA StartKeepsAlias ==
    ASSUME TypeInv, AliasInv, NEW s \in States, NEW i \in Intervals, NEW e \in Expiries,
           Start(s, i, e)
    PROVE AliasInv'
<1> USE DEF TypeInv, TypeOK
<1>1. PICK o \in Objs : /\ Free(o)
                        /\ Put(s, o)
                        /\ heap' = [heap EXCEPT ![o] =
                               [code |-> s, interval |-> AtLeastDefault(i),
                                expiresAt |-> clock + Lifetime(e), nextAttempt |-> clock]]
      BY DEF Start
<1>2. /\ code[s] = "unissued"
      /\ code' = [code EXCEPT ![s] = "pending"]
      /\ reply' = [reply EXCEPT ![s] = [interval |-> AtLeastDefault(i),
                                        expiresAt |-> WholeSeconds(clock + Lifetime(e)),
                                        deadline |-> clock + Lifetime(e)]]
      /\ poll' = poll
      BY StartsAsExpected DEF Start
<1>3. clock + Lifetime(e) \in Nat BY LifetimeType
<1>4. Owned(o, s)' BY <1>1, <1>2, <1>3 DEF Owned
<1>5. ASSUME NEW t \in States, sessions'[t] # None PROVE Owned(sessions[t], t)'
  <2>1. CASE t = s BY <1>1, <1>4, <2>1 DEF Put, Owned
  <2>2. CASE t # s
    <3>1. sessions'[t] = sessions[t] BY <1>1, <1>5, <2>2 DEF Put
    <3>2. sessions[t] \in Objs /\ sessions[t] # o /\ Owned(sessions[t], t)
          BY <1>1, <1>5, <3>1 DEF Free, AliasInv
    <3> QED BY <1>1, <1>2, <2>2, <3>1, <3>2 DEF Owned
  <2> QED BY <2>1, <2>2
<1>6. ASSUME NEW p \in Pollers, poll'[p].pc # "idle"
      PROVE Owned(poll[p].session, poll[p].state)'
  <2>1. /\ poll[p].state \in States /\ poll[p].session \in Objs
        /\ Owned(poll[p].session, poll[p].state)
        BY <1>2, <1>6 DEF AliasInv, Bound
  <2>2. poll[p].session # o /\ poll[p].state # s BY <1>1, <1>2, <2>1 DEF Free, Owned
  <2> QED BY <1>1, <1>2, <2>1, <2>2 DEF Owned
<1>7. ASSUME NEW t \in States PROVE reply'[t].expiresAt <= reply'[t].deadline
      BY <1>2, <1>3, WholeSecondsBelow DEF AliasInv
<1> QED BY <1>5, <1>6, <1>7 DEF AliasInv

\* sessionFromMetadata allocates a fresh session, whose expiry is the promised one
\* to the second, or less.
LEMMA RebuildKeepsAlias ==
    ASSUME TypeInv, AliasInv, NEW q \in Pollers, NEW s \in States, PollRebuild(q, s)
    PROVE AliasInv'
<1> USE DEF TypeInv, TypeOK
<1>1. PICK o \in Objs : /\ Free(o)
                        /\ heap' = [heap EXCEPT ![o] = Rebuilt(s)]
                        /\ poll' = [poll EXCEPT ![q] = [Idle EXCEPT !.pc = "restore",
                                                        !.state = s, !.session = o]]
      BY DEF PollRebuild
<1>2. code[s] # "unissued" /\ code' = code /\ reply' = reply /\ sessions' = sessions
      BY DEF PollRebuild, MayPoll
<1>3. Owned(o, s)' BY <1>1, <1>2 DEF Owned, Rebuilt, AliasInv
<1>4. ASSUME NEW t \in States, sessions'[t] # None PROVE Owned(sessions[t], t)'
  <2>1. sessions[t] \in Objs /\ sessions[t] # o /\ Owned(sessions[t], t)
        BY <1>1, <1>2, <1>4 DEF Free, AliasInv
  <2> QED BY <1>1, <1>2, <2>1 DEF Owned
<1>5. ASSUME NEW p \in Pollers, poll'[p].pc # "idle"
      PROVE Owned(poll[p].session, poll[p].state)'
  <2>1. CASE p = q BY <1>1, <1>3, <2>1 DEF Idle, Owned
  <2>2. CASE p # q
    <3>1. poll'[p] = poll[p] BY <1>1, <2>2
    <3>2. /\ poll[p].state \in States /\ poll[p].session \in Objs
          /\ Owned(poll[p].session, poll[p].state)
          BY <1>5, <3>1 DEF AliasInv, Bound
    <3>3. poll[p].session # o BY <1>1 DEF Free
    <3> QED BY <1>1, <1>2, <3>1, <3>2, <3>3 DEF Owned
  <2> QED BY <2>1, <2>2
<1> QED BY <1>2, <1>4, <1>5 DEF AliasInv

\* No step of the plugin or its surroundings mixes up two logins.
LEMMA NextKeepsAlias ==
    ASSUME TypeInv, AliasInv, [Next]_vars PROVE AliasInv'
<1>1. CASE \E s \in States, i \in Intervals, e \in Expiries : Start(s, i, e)
      BY <1>1, StartKeepsAlias
<1>2. CASE \E p \in Pollers, s \in States : PollRebuild(p, s)
      BY <1>2, RebuildKeepsAlias
<1>3. CASE /\ Next
           /\ \A s \in States, i \in Intervals, e \in Expiries : ~Start(s, i, e)
           /\ \A p \in Pollers, s \in States : ~PollRebuild(p, s)
      BY <1>3, StepMovesPointers, PointersMoveKeeps
<1>4. CASE UNCHANGED vars BY <1>4 DEF vars, AliasInv, Owned
<1> QED BY <1>1, <1>2, <1>3, <1>4

\* Whatever races, restarts or replacements happen, no login is ever served
\* through the session of another one or through one that outlives its promise.
THEOREM AliasInvariant == Spec => []AliasInv
<1>1. Init => AliasInv
      BY DEF Init, AliasInv, Idle
<1>2. TypeInv /\ AliasInv /\ [Next]_vars => AliasInv' BY NextKeepsAlias
<1> QED BY <1>1, <1>2, TypeInvariant, PTL DEF Spec

-----------------------------------------------------------------------------
(* The promised deadline                                                    *)

Sent == {"send", "wait", "answered", "save"}

\* Calls past the gate keep the time they were let through and their promise.
SentStays ==
    /\ reply' = reply
    /\ \A p \in Pollers : poll'[p].pc \in Sent =>
          poll[p].pc \in Sent /\ poll'[p].now = poll[p].now /\ poll'[p].state = poll[p].state

\* Only PollAdmit, behind the expiry check, lets a call reach the exchange.
LEMMA StepSentStays ==
    ASSUME TypeInv, Next,
           \A s \in States, i \in Intervals, e \in Expiries : ~Start(s, i, e),
           \A p \in Pollers : ~PollAdmit(p)
    PROVE SentStays
<1> USE DEF TypeInv, TypeOK, SentStays, Sent, store, told, history, faults
<1>1. ASSUME NEW p \in Pollers, NEW s \in States, PollGet(p, s) PROVE SentStays
      BY <1>1 DEF PollGet, MayPoll, Idle
<1>2. ASSUME NEW p \in Pollers, NEW s \in States, PollRebuild(p, s) PROVE SentStays
      BY <1>2 DEF PollRebuild, MayPoll, Idle
<1>3. ASSUME NEW p \in Pollers, NEW s \in States, PollUnknown(p, s) PROVE SentStays
      BY <1>3 DEF PollUnknown, TellError
<1>4. ASSUME NEW p \in Pollers, PollRestore(p) PROVE SentStays
      BY <1>4 DEF PollRestore, Resume
<1>5. ASSUME NEW p \in Pollers, PollExpired(p) PROVE SentStays
      BY <1>5 DEF PollExpired, Return, Idle, TellError
<1>6. ASSUME NEW p \in Pollers, PollEarly(p) PROVE SentStays
      BY <1>6 DEF PollEarly, Return, Idle
<1>7. ASSUME NEW p \in Pollers, PollSend(p) PROVE SentStays
      BY <1>7 DEF PollSend, Call
<1>8. ASSUME NEW p \in Pollers, AnswerPending(p) PROVE SentStays
      BY <1>8 DEF AnswerPending, Answer, Waiting
<1>9. ASSUME NEW p \in Pollers, AnswerSlowDown(p) PROVE SentStays
      BY <1>9 DEF AnswerSlowDown, Answer, Waiting
<1>10. ASSUME NEW p \in Pollers, AnswerGrant(p) PROVE SentStays
      BY <1>10 DEF AnswerGrant, Answer, Waiting
<1>11. ASSUME NEW p \in Pollers, AnswerRefuse(p) PROVE SentStays
      BY <1>11 DEF AnswerRefuse, Answer, Waiting
<1>12. ASSUME NEW p \in Pollers, Drop(p) PROVE SentStays
      BY <1>12 DEF Drop, Answer, Waiting
<1>13. ASSUME NEW p \in Pollers, PollRecord(p) PROVE SentStays
      BY <1>13 DEF PollRecord, Resume
<1>14. ASSUME NEW p \in Pollers, PollSave(p) PROVE SentStays
      BY <1>14 DEF PollSave, Return, Idle
<1>15. ASSUME NEW p \in Pollers, PollFail(p) PROVE SentStays
      BY <1>15 DEF PollFail, Return, Idle, TellError
<1>16. ASSUME NEW p \in Pollers, PollSucceed(p) PROVE SentStays
      BY <1>16 DEF PollSucceed, Return, Idle
<1>17. ASSUME Tick PROVE SentStays
      BY <1>17 DEF Tick
<1>18. ASSUME NEW s \in States, Approve(s) PROVE SentStays
      BY <1>18 DEF Approve
<1>19. ASSUME NEW s \in States, Refuse(s) PROVE SentStays
      BY <1>19 DEF Refuse
<1>20. ASSUME Reload PROVE SentStays
      BY <1>20 DEF Reload, Idle
<1> QED BY <1>1, <1>2, <1>3, <1>4, <1>5, <1>6, <1>7, <1>8, <1>9, <1>10, <1>11, <1>12,
          <1>13, <1>14, <1>15, <1>16, <1>17, <1>18, <1>19, <1>20
        DEF Next, PollBegin, PollStep, Exchange

\* No exchange is ever started after the deadline StartLogin promised, however
\* often the session behind it was replaced or rebuilt.
THEOREM DeadlineKept == Spec => []ExchangesWithinDeadline
<1>1. Init => ExchangesWithinDeadline BY DEF Init, Idle, ExchangesWithinDeadline
<1>2. ASSUME TypeInv, AliasInv, ExchangesWithinDeadline, [Next]_vars
      PROVE ExchangesWithinDeadline'
  <2> USE DEF TypeInv, TypeOK
  <2>1. ASSUME NEW s \in States, NEW i \in Intervals, NEW e \in Expiries, Start(s, i, e)
        PROVE ExchangesWithinDeadline'
    <3>1. /\ code[s] = "unissued" /\ poll' = poll
          /\ \A t \in States \ {s} : reply'[t] = reply[t]
          BY <2>1 DEF Start
    <3>2. \A p \in Pollers : poll[p].pc \in Sent => poll[p].state \in States \ {s}
          BY <3>1, <1>2 DEF AliasInv, Owned, Bound, Sent
    <3> QED BY <3>1, <3>2, <1>2 DEF ExchangesWithinDeadline, Sent
  <2>2. ASSUME NEW q \in Pollers, PollAdmit(q) PROVE ExchangesWithinDeadline'
    <3>1. /\ poll[q].pc # "idle" /\ clock <= heap[poll[q].session].expiresAt
          /\ poll[q].session \in Objs /\ poll[q].state \in States
          BY <1>2, <2>2 DEF PollAdmit, Expired, Bound, Session
    <3>2. clock <= reply[poll[q].state].deadline
      <4>1. /\ heap[poll[q].session].expiresAt \in Nat
            /\ reply[poll[q].state].deadline \in Nat
            BY <1>2, <3>1 DEF Session, Reply
      <4> QED BY <1>2, <3>1, <4>1 DEF AliasInv, Owned
    <3>3. /\ reply' = reply
          /\ poll'[q].now = clock /\ poll'[q].state = poll[q].state
          /\ \A p \in Pollers \ {q} : poll'[p] = poll[p]
          BY <1>2, <2>2 DEF PollAdmit, Call
    <3> QED BY <1>2, <3>2, <3>3 DEF ExchangesWithinDeadline
  <2>3. CASE /\ Next
             /\ \A s \in States, i \in Intervals, e \in Expiries : ~Start(s, i, e)
             /\ \A p \in Pollers : ~PollAdmit(p)
        BY <1>2, <2>3, StepSentStays DEF SentStays, Sent, ExchangesWithinDeadline
  <2>4. CASE UNCHANGED vars BY <1>2, <2>4 DEF vars, ExchangesWithinDeadline
  <2> QED BY <1>2, <2>1, <2>2, <2>3, <2>4
<1>3. TypeInv /\ AliasInv /\ ExchangesWithinDeadline /\ [Next]_vars => ExchangesWithinDeadline'
      BY <1>2
<1> QED BY <1>1, <1>3, TypeInvariant, AliasInvariant, PTL DEF Spec

-----------------------------------------------------------------------------
(* The single credential                                                    *)

\* Tokens in a call's hand, or delivered, were paid for with the device code.
TokensInv ==
    \A s \in States :
        /\ successes[s] \in {0, 1}
        /\ successes[s] = 1 => code[s] = "consumed"
        /\ \A p \in Pollers : Holds(p, s) => code[s] = "consumed" /\ successes[s] = 0
        /\ \A p, q \in Pollers : Holds(p, s) /\ Holds(q, s) => p = q

\* Nobody gains tokens, nothing is delivered, and no code is given back.
NoTokensMove ==
    /\ successes' = successes
    /\ \A s \in States : code[s] = "consumed" => code'[s] = "consumed"
    /\ \A p \in Pollers, s \in States : Holds(p, s)' => Holds(p, s)

\* Only the grant of a device code and the "success" response move tokens.
LEMMA StepNoTokensMove ==
    ASSUME TypeInv, Next,
           \A p \in Pollers : ~AnswerGrant(p) /\ ~PollSucceed(p)
    PROVE NoTokensMove
<1> USE DEF TypeInv, TypeOK, NoTokensMove, Holds, store, told, history, faults
<1>1. ASSUME NEW s \in States, NEW i \in Intervals, NEW e \in Expiries, Start(s, i, e)
      PROVE NoTokensMove
      BY <1>1 DEF Start
<1>2. ASSUME NEW p \in Pollers, NEW s \in States, PollGet(p, s) PROVE NoTokensMove
      BY <1>2 DEF PollGet, MayPoll, Idle
<1>3. ASSUME NEW p \in Pollers, NEW s \in States, PollRebuild(p, s) PROVE NoTokensMove
      BY <1>3 DEF PollRebuild, MayPoll, Idle
<1>4. ASSUME NEW p \in Pollers, NEW s \in States, PollUnknown(p, s) PROVE NoTokensMove
      BY <1>4 DEF PollUnknown, TellError
<1>5. ASSUME NEW p \in Pollers, PollRestore(p) PROVE NoTokensMove
      BY <1>5 DEF PollRestore, Resume
<1>6. ASSUME NEW p \in Pollers, PollExpired(p) PROVE NoTokensMove
      BY <1>6 DEF PollExpired, Return, Idle, TellError
<1>7. ASSUME NEW p \in Pollers, PollEarly(p) PROVE NoTokensMove
      BY <1>7 DEF PollEarly, Return, Idle
<1>8. ASSUME NEW p \in Pollers, PollAdmit(p) PROVE NoTokensMove
      BY <1>8 DEF PollAdmit, Call
<1>9. ASSUME NEW p \in Pollers, PollSend(p) PROVE NoTokensMove
      BY <1>9 DEF PollSend, Call
<1>10. ASSUME NEW p \in Pollers, AnswerPending(p) PROVE NoTokensMove
      BY <1>10 DEF AnswerPending, Answer, Waiting
<1>11. ASSUME NEW p \in Pollers, AnswerSlowDown(p) PROVE NoTokensMove
      BY <1>11 DEF AnswerSlowDown, Answer, Waiting
<1>12. ASSUME NEW p \in Pollers, AnswerRefuse(p) PROVE NoTokensMove
      BY <1>12 DEF AnswerRefuse, Answer, Waiting
<1>13. ASSUME NEW p \in Pollers, Drop(p) PROVE NoTokensMove
      BY <1>13 DEF Drop, Answer, Waiting
<1>14. ASSUME NEW p \in Pollers, PollRecord(p) PROVE NoTokensMove
      BY <1>14 DEF PollRecord, Resume
<1>15. ASSUME NEW p \in Pollers, PollSave(p) PROVE NoTokensMove
      BY <1>15 DEF PollSave, Return, Idle
<1>16. ASSUME NEW p \in Pollers, PollFail(p) PROVE NoTokensMove
      BY <1>16 DEF PollFail, Return, Idle, TellError
<1>17. ASSUME Tick PROVE NoTokensMove
      BY <1>17 DEF Tick
<1>18. ASSUME NEW s \in States, Approve(s) PROVE NoTokensMove
      BY <1>18 DEF Approve
<1>19. ASSUME NEW s \in States, Refuse(s) PROVE NoTokensMove
      BY <1>19 DEF Refuse
<1>20. ASSUME Reload PROVE NoTokensMove
      BY <1>20 DEF Reload, Idle
<1> QED BY <1>1, <1>2, <1>3, <1>4, <1>5, <1>6, <1>7, <1>8, <1>9, <1>10, <1>11, <1>12,
          <1>13, <1>14, <1>15, <1>16, <1>17, <1>18, <1>19, <1>20
        DEF Next, PollBegin, PollStep, Exchange

\* One approval, at most one credential: no interleaving of polls, restarts and
\* lost answers makes the host receive a second one.
THEOREM TokensInvariant == Spec => []TokensInv
<1>1. Init => TokensInv BY DEF Init, Idle, Holds, TokensInv
<1>2. ASSUME TypeInv, AliasInv, TokensInv, [Next]_vars PROVE TokensInv'
  <2> USE DEF TypeInv, TypeOK
  <2>1. ASSUME NEW p \in Pollers, AnswerGrant(p) PROVE TokensInv'
    <3>1. poll[p].pc = "wait" /\ code[Device(p)] = "approved" /\ Device(p) = poll[p].state
          BY <1>2, <2>1 DEF AnswerGrant, Waiting, AliasInv, Owned, Device
    <3>2. poll[p].state \in States BY <1>2, <3>1 DEF Bound
    <3>3. \A q \in Pollers : ~Holds(q, poll[p].state) BY <1>2, <3>1, <3>2 DEF TokensInv
    <3>4. successes[poll[p].state] = 0 BY <1>2, <3>1, <3>2 DEF TokensInv
    <3>5. /\ successes' = successes
          /\ code' = [code EXCEPT ![poll[p].state] = "consumed"]
          /\ poll'[p].state = poll[p].state
          /\ \A q \in Pollers \ {p} : poll'[q] = poll[q]
          BY <1>2, <2>1, <3>1 DEF AnswerGrant, Answer, told
    <3> QED BY <1>2, <3>2, <3>3, <3>4, <3>5 DEF TokensInv, Holds
  <2>2. ASSUME NEW p \in Pollers, PollSucceed(p) PROVE TokensInv'
    <3>1. /\ poll[p].state \in States /\ Holds(p, poll[p].state)
          BY <1>2, <2>2 DEF PollSucceed, Bound, Holds
    <3>2. /\ code' = code
          /\ successes' = [successes EXCEPT ![poll[p].state] = @ + 1]
          /\ poll'[p] = Idle
          /\ \A q \in Pollers \ {p} : poll'[q] = poll[q]
          BY <1>2, <2>2 DEF PollSucceed, Return
    <3>3. /\ code[poll[p].state] = "consumed" /\ successes[poll[p].state] = 0
          /\ \A q \in Pollers \ {p} : ~Holds(q, poll[p].state)
          BY <1>2, <3>1 DEF TokensInv
    <3>4. \A q \in Pollers, s \in States :
             Holds(q, s)' => q # p /\ s # poll[p].state /\ Holds(q, s)
          BY <3>2, <3>3 DEF Holds, Idle
    <3> QED BY <1>2, <3>1, <3>2, <3>3, <3>4 DEF TokensInv
  <2>3. CASE Next /\ \A p \in Pollers : ~AnswerGrant(p) /\ ~PollSucceed(p)
    <3>1. NoTokensMove BY <1>2, <2>3, StepNoTokensMove
    <3> QED BY <1>2, <3>1 DEF TokensInv, NoTokensMove
  <2>4. CASE UNCHANGED vars BY <1>2, <2>4 DEF vars, TokensInv, Holds
  <2> QED BY <1>2, <2>1, <2>2, <2>3, <2>4
<1>3. TypeInv /\ AliasInv /\ TokensInv /\ [Next]_vars => TokensInv' BY <1>2
<1> QED BY <1>1, <1>3, TypeInvariant, AliasInvariant, PTL DEF Spec

\* The host receives at most one credential per login, out of a spent code, and
\* no other poll has tokens left for it.
THEOREM SingleCredential == Spec => []OneCredential
<1>1. TokensInv => OneCredential BY DEF TokensInv, OneCredential
<1> QED BY <1>1, TokensInvariant, PTL

-----------------------------------------------------------------------------
(* The contract of a device login                                           *)

\* A call has tokens in hand only between the answer and its own response.
OutcomeInv == \A p \in Pollers : poll[p].outcome = "success" => poll[p].pc = "answered"

\* A call that has the outcome "success" is at the switch over the outcomes and
\* nowhere else: it has not begun to answer the host.
LEMMA StepKeepsOutcome ==
    ASSUME TypeInv, OutcomeInv, [Next]_vars PROVE OutcomeInv'
<1> USE DEF TypeInv, TypeOK, OutcomeInv
<1>1. ASSUME NEW s \in States, NEW i \in Intervals, NEW e \in Expiries, Start(s, i, e)
      PROVE OutcomeInv'
      BY <1>1 DEF Start
<1>2. ASSUME NEW p \in Pollers, NEW s \in States, PollGet(p, s) PROVE OutcomeInv'
      BY <1>2 DEF PollGet, MayPoll, Idle
<1>3. ASSUME NEW p \in Pollers, NEW s \in States, PollRebuild(p, s) PROVE OutcomeInv'
      BY <1>3 DEF PollRebuild, MayPoll, Idle
<1>4. ASSUME NEW p \in Pollers, NEW s \in States, PollUnknown(p, s) PROVE OutcomeInv'
      BY <1>4 DEF PollUnknown, TellError
<1>5. ASSUME NEW p \in Pollers, PollRestore(p) PROVE OutcomeInv'
      BY <1>5 DEF PollRestore, Resume
<1>6. ASSUME NEW p \in Pollers, PollExpired(p) PROVE OutcomeInv'
      BY <1>6 DEF PollExpired, Return, Idle, TellError
<1>7. ASSUME NEW p \in Pollers, PollEarly(p) PROVE OutcomeInv'
      BY <1>7 DEF PollEarly, Return, Idle
<1>8. ASSUME NEW p \in Pollers, PollAdmit(p) PROVE OutcomeInv'
      BY <1>8 DEF PollAdmit, Call
<1>9. ASSUME NEW p \in Pollers, PollSend(p) PROVE OutcomeInv'
      BY <1>9 DEF PollSend, Call
<1>10. ASSUME NEW p \in Pollers, AnswerPending(p) PROVE OutcomeInv'
      BY <1>10 DEF AnswerPending, Answer, Waiting
<1>11. ASSUME NEW p \in Pollers, AnswerSlowDown(p) PROVE OutcomeInv'
      BY <1>11 DEF AnswerSlowDown, Answer, Waiting
<1>12. ASSUME NEW p \in Pollers, AnswerGrant(p) PROVE OutcomeInv'
      BY <1>12 DEF AnswerGrant, Answer, Waiting
<1>13. ASSUME NEW p \in Pollers, AnswerRefuse(p) PROVE OutcomeInv'
      BY <1>13 DEF AnswerRefuse, Answer, Waiting
<1>14. ASSUME NEW p \in Pollers, Drop(p) PROVE OutcomeInv'
      BY <1>14 DEF Drop, Answer, Waiting
<1>15. ASSUME NEW p \in Pollers, PollRecord(p) PROVE OutcomeInv'
      BY <1>15 DEF PollRecord, Resume
<1>16. ASSUME NEW p \in Pollers, PollSave(p) PROVE OutcomeInv'
      BY <1>16 DEF PollSave, Return, Idle
<1>17. ASSUME NEW p \in Pollers, PollFail(p) PROVE OutcomeInv'
      BY <1>17 DEF PollFail, Return, Idle, TellError
<1>18. ASSUME NEW p \in Pollers, PollSucceed(p) PROVE OutcomeInv'
      BY <1>18 DEF PollSucceed, Return, Idle
<1>19. ASSUME Tick PROVE OutcomeInv'
      BY <1>19 DEF Tick
<1>20. ASSUME NEW s \in States, Approve(s) PROVE OutcomeInv'
      BY <1>20 DEF Approve
<1>21. ASSUME NEW s \in States, Refuse(s) PROVE OutcomeInv'
      BY <1>21 DEF Refuse
<1>22. ASSUME Reload PROVE OutcomeInv'
      BY <1>22 DEF Reload, Idle
<1>23. CASE UNCHANGED vars BY <1>23 DEF vars
<1> QED BY <1>1, <1>2, <1>3, <1>4, <1>5, <1>6, <1>7, <1>8, <1>9, <1>10, <1>11,
          <1>12, <1>13, <1>14, <1>15, <1>16, <1>17, <1>18, <1>19,
          <1>20, <1>21, <1>22, <1>23
        DEF Next, PollBegin, PollStep, Exchange

\* Tokens are in hand only at the switch, in every reachable state.
THEOREM OutcomeInvariant == Spec => []OutcomeInv
<1>1. Init => OutcomeInv BY DEF Init, Idle, OutcomeInv
<1>2. TypeInv /\ OutcomeInv /\ [Next]_vars => OutcomeInv' BY StepKeepsOutcome
<1> QED BY <1>1, <1>2, TypeInvariant, PTL DEF Spec

\* Nothing the contract can see: no code moves, no response, no tokens change hands.
NothingSeen ==
    /\ successes' = successes /\ code' = code
    /\ \A p \in Pollers, s \in States : Holds(p, s)' = Holds(p, s)

\* A step that moves neither code, response nor tokens is a stutter of the contract.
LEMMA NothingSeenStutters == ASSUME NothingSeen PROVE LoginMap' = LoginMap
BY DEF NothingSeen, LoginMap, LoginOf

\* Polls that wait, are turned away, record or fail are invisible to the contract.
LEMMA StepNothingSeen ==
    ASSUME TypeInv, OutcomeInv, Next,
           \A s \in States, i \in Intervals, e \in Expiries : ~Start(s, i, e),
           \A p \in Pollers : ~AnswerGrant(p) /\ ~PollSucceed(p) /\ ~Drop(p),
           \A s \in States : ~Approve(s) /\ ~Refuse(s),
           ~Reload
    PROVE NothingSeen
<1> USE DEF TypeInv, TypeOK, OutcomeInv, NothingSeen, Holds, store, told, history, faults
<1>1. ASSUME NEW p \in Pollers, NEW s \in States, PollGet(p, s) PROVE NothingSeen
      BY <1>1 DEF PollGet, MayPoll, Idle
<1>2. ASSUME NEW p \in Pollers, NEW s \in States, PollRebuild(p, s) PROVE NothingSeen
      BY <1>2 DEF PollRebuild, MayPoll, Idle
<1>3. ASSUME NEW p \in Pollers, NEW s \in States, PollUnknown(p, s) PROVE NothingSeen
      BY <1>3 DEF PollUnknown, TellError
<1>4. ASSUME NEW p \in Pollers, PollRestore(p) PROVE NothingSeen
      BY <1>4 DEF PollRestore, Resume
<1>5. ASSUME NEW p \in Pollers, PollExpired(p) PROVE NothingSeen
      BY <1>5 DEF PollExpired, Return, Idle, TellError
<1>6. ASSUME NEW p \in Pollers, PollEarly(p) PROVE NothingSeen
      BY <1>6 DEF PollEarly, Return, Idle
<1>7. ASSUME NEW p \in Pollers, PollAdmit(p) PROVE NothingSeen
      BY <1>7 DEF PollAdmit, Call
<1>8. ASSUME NEW p \in Pollers, PollSend(p) PROVE NothingSeen
      BY <1>8 DEF PollSend, Call
<1>9. ASSUME NEW p \in Pollers, AnswerPending(p) PROVE NothingSeen
      BY <1>9 DEF AnswerPending, Answer, Waiting
<1>10. ASSUME NEW p \in Pollers, AnswerSlowDown(p) PROVE NothingSeen
      BY <1>10 DEF AnswerSlowDown, Answer, Waiting
<1>11. ASSUME NEW p \in Pollers, AnswerRefuse(p) PROVE NothingSeen
      BY <1>11 DEF AnswerRefuse, Answer, Waiting
<1>12. ASSUME NEW p \in Pollers, PollRecord(p) PROVE NothingSeen
      BY <1>12 DEF PollRecord, Resume
<1>13. ASSUME NEW p \in Pollers, PollSave(p) PROVE NothingSeen
      BY <1>13 DEF PollSave, Return, Idle
<1>14. ASSUME NEW p \in Pollers, PollFail(p) PROVE NothingSeen
      BY <1>14 DEF PollFail, Return, Idle, TellError
<1>15. ASSUME Tick PROVE NothingSeen
      BY <1>15 DEF Tick
<1> QED BY <1>1, <1>2, <1>3, <1>4, <1>5, <1>6, <1>7, <1>8, <1>9, <1>10, <1>11,
          <1>12, <1>13, <1>14, <1>15
        DEF Next, PollBegin, PollStep, Exchange

\* A step that changes what the contract sees of one login at most is a move of it.
LEMMA OneMove ==
    ASSUME NEW s \in States, NEW to,
           LoginOf(s)' = to, \A t \in States \ {s} : LoginOf(t)' = LoginOf(t),
           \/ LoginOf(s) = "none" /\ to = "open"
           \/ LoginOf(s) = "open" /\ to = "approved"
           \/ LoginOf(s) \in {"open", "approved"} /\ to = "refused"
           \/ LoginOf(s) = "approved" /\ to = "granted"
           \/ LoginOf(s) = "granted" /\ to = "delivered"
    PROVE Contract!ContractNext
<1>1. LoginMap[s] = LoginOf(s) /\ LoginMap' = [LoginMap EXCEPT ![s] = to]
      BY DEF LoginMap
<1> USE <1>1 DEF Contract!ContractNext, Contract!Move
<1>2. CASE LoginOf(s) = "none" /\ to = "open" BY <1>2 DEF Contract!Open
<1>3. CASE LoginOf(s) = "open" /\ to = "approved" BY <1>3 DEF Contract!Approve
<1>4. CASE LoginOf(s) \in {"open", "approved"} /\ to = "refused" BY <1>4 DEF Contract!Refuse
<1>5. CASE LoginOf(s) = "approved" /\ to = "granted" BY <1>5 DEF Contract!Grant
<1>6. CASE LoginOf(s) = "granted" /\ to = "delivered" BY <1>6 DEF Contract!Deliver
<1> QED BY <1>2, <1>3, <1>4, <1>5, <1>6

\* Every step of the plugin and of what surrounds it is a step of the contract.
LEMMA StepKeepsContract ==
    ASSUME TypeInv, AliasInv, TokensInv, OutcomeInv, [Next]_vars
    PROVE [Contract!ContractNext]_LoginMap
<1> USE DEF TypeInv, TypeOK
<1>1. ASSUME NEW s \in States, NEW i \in Intervals, NEW e \in Expiries, Start(s, i, e)
      PROVE Contract!ContractNext
  <2>1. /\ code[s] = "unissued" /\ code' = [code EXCEPT ![s] = "pending"]
        /\ successes' = successes /\ poll' = poll
        BY <1>1 DEF Start, told
  <2>2. successes[s] = 0 BY <2>1 DEF TokensInv
  <2>3. LoginOf(s)' = "open" /\ \A t \in States \ {s} : LoginOf(t)' = LoginOf(t)
        BY <2>1, <2>2 DEF LoginOf, Holds
  <2>4. LoginOf(s) = "none" BY <2>1, <2>2 DEF LoginOf
  <2> QED BY <2>3, <2>4, OneMove
<1>2. ASSUME NEW p \in Pollers, AnswerGrant(p) PROVE Contract!ContractNext
  <2>1. /\ poll[p].pc = "wait" /\ code[Device(p)] = "approved"
        /\ Device(p) = poll[p].state
        BY <1>2 DEF AnswerGrant, Waiting, AliasInv, Owned, Device
  <2>2. PICK s \in States : s = Device(p) BY <2>1 DEF Bound
  <2>3. successes[s] = 0 BY <2>1, <2>2 DEF TokensInv
  <2>4. /\ successes' = successes /\ code' = [code EXCEPT ![s] = "consumed"]
        /\ poll'[p].state = s /\ poll'[p].outcome = "success"
        /\ poll[p].state = s
        /\ \A q \in Pollers \ {p} : poll'[q] = poll[q]
        BY <1>2, <2>1, <2>2 DEF AnswerGrant, Answer, told, Call
  <2>5. \E q \in Pollers : poll'[q].state = s /\ poll'[q].outcome = "success" BY <2>4
  <2>6. \A t \in States \ {s}, q \in Pollers : Holds(q, t)' = Holds(q, t)
        BY <2>4 DEF Holds
  <2>7. LoginOf(s)' = "granted" BY <2>2, <2>3, <2>4, <2>5 DEF LoginOf, Holds
  <2>8. ASSUME NEW t \in States \ {s} PROVE LoginOf(t)' = LoginOf(t)
        BY <2>2, <2>4, <2>6, <2>8 DEF LoginOf
  <2>9. LoginOf(s) = "approved" BY <2>1, <2>2, <2>3 DEF LoginOf
  <2> QED BY <2>7, <2>8, <2>9, OneMove
<1>3. ASSUME NEW p \in Pollers, PollSucceed(p) PROVE Contract!ContractNext
  <2>1. PICK s \in States : s = poll[p].state /\ Holds(p, s)
        BY <1>3 DEF PollSucceed, Bound, Holds
  <2>2. code[s] = "consumed" /\ successes[s] = 0 BY <2>1 DEF TokensInv
  <2>3. /\ code' = code /\ successes' = [successes EXCEPT ![s] = @ + 1]
        /\ poll' = [poll EXCEPT ![p] = Idle]
        BY <1>3, <2>1 DEF PollSucceed, Return
  <2>4. \A t \in States \ {s}, q \in Pollers : Holds(q, t)' = Holds(q, t)
        BY <2>1, <2>3, NoneAssumption DEF Holds, Idle
  <2>5. LoginOf(s)' = "delivered" BY <2>2, <2>3 DEF LoginOf
  <2>6. ASSUME NEW t \in States \ {s} PROVE LoginOf(t)' = LoginOf(t)
        BY <2>3, <2>4, <2>6 DEF LoginOf
  <2>7. LoginOf(s) = "granted" BY <2>1, <2>2 DEF LoginOf
  <2> QED BY <2>5, <2>6, <2>7, OneMove
<1>4. ASSUME NEW p \in Pollers, Drop(p) PROVE [Contract!ContractNext]_LoginMap
  <2>1. /\ poll[p].pc = "wait" /\ successes' = successes
        /\ poll'[p].outcome = "error" /\ poll[p].outcome # "success"
        /\ \A q \in Pollers \ {p} : poll'[q] = poll[q]
        BY <1>4 DEF Drop, Answer, told, OutcomeInv, Call
  <2>2. \A q \in Pollers, t \in States : Holds(q, t)' = Holds(q, t) BY <2>1 DEF Holds
  <2>3. CASE code' = code
        BY <2>1, <2>2, <2>3, NothingSeenStutters DEF NothingSeen
  <2>4. CASE Waiting(p, "approved") /\ code' = [code EXCEPT ![Device(p)] = "consumed"]
    <3>1. PICK s \in States : s = Device(p)
          BY <2>1 DEF Device, Bound, Session
    <3>2. /\ code[s] = "approved" /\ code' = [code EXCEPT ![s] = "consumed"]
          BY <2>4, <3>1 DEF Waiting
    <3>3. successes[s] = 0 /\ \A q \in Pollers : ~Holds(q, s) BY <3>2 DEF TokensInv
    <3>4. LoginOf(s) = "approved" BY <3>2, <3>3 DEF LoginOf
    <3>5. LoginOf(s)' = "lost" BY <2>1, <2>2, <3>2, <3>3 DEF LoginOf
    <3>6. ASSUME NEW t \in States \ {s} PROVE LoginOf(t)' = LoginOf(t)
          BY <2>1, <2>2, <3>2, <3>6 DEF LoginOf
    <3>7. LoginMap' = [t \in States |-> IF t \in {s} THEN "lost" ELSE LoginMap[t]]
          BY <3>5, <3>6 DEF LoginMap
    <3>8. Contract!Lose({s}) BY <3>4, <3>7 DEF Contract!Lose, LoginMap
    <3> QED BY <3>8 DEF Contract!ContractNext
  <2> QED BY <1>4, <2>3, <2>4 DEF Drop
<1>5. ASSUME NEW s \in States, Approve(s) PROVE Contract!ContractNext
  <2>1. /\ code[s] = "pending" /\ code' = [code EXCEPT ![s] = "approved"]
        /\ successes' = successes /\ poll' = poll
        BY <1>5 DEF Approve, told
  <2>2. successes[s] = 0 BY <2>1 DEF TokensInv
  <2>3. LoginOf(s)' = "approved" /\ \A t \in States \ {s} : LoginOf(t)' = LoginOf(t)
        BY <2>1, <2>2 DEF LoginOf, Holds
  <2>4. LoginOf(s) = "open" BY <2>1, <2>2 DEF LoginOf
  <2> QED BY <2>3, <2>4, OneMove
<1>6. ASSUME NEW s \in States, Refuse(s) PROVE Contract!ContractNext
  <2>1. /\ code[s] \in {"pending", "approved"} /\ code' = [code EXCEPT ![s] = "refused"]
        /\ successes' = successes /\ poll' = poll
        BY <1>6 DEF Refuse, told
  <2>2. successes[s] = 0 BY <2>1 DEF TokensInv
  <2>3. LoginOf(s)' = "refused" /\ \A t \in States \ {s} : LoginOf(t)' = LoginOf(t)
        BY <2>1, <2>2 DEF LoginOf, Holds
  <2>4. LoginOf(s) \in {"open", "approved"} BY <2>1, <2>2 DEF LoginOf
  <2> QED BY <2>3, <2>4, OneMove
<1>7. ASSUME Reload PROVE Contract!ContractNext
  <2> DEFINE S == {s \in States : LoginOf(s) = "granted"}
  <2>1. /\ code' = code /\ successes' = successes
        /\ poll' = [q \in Pollers |-> Idle]
        BY <1>7 DEF Reload, told
  <2>2. \A t \in States, q \in Pollers : ~Holds(q, t)'
        BY <2>1 DEF Holds, Idle
  <2>3. ASSUME NEW t \in States
        PROVE LoginOf(t)' = IF t \in S THEN "lost" ELSE LoginOf(t)
        BY <2>1, <2>2, <2>3 DEF LoginOf, Codes
  <2>4. LoginMap' = [t \in States |-> IF t \in S THEN "lost" ELSE LoginMap[t]]
        BY <2>3 DEF LoginMap
  <2>5. Contract!Lose(S) BY <2>4 DEF Contract!Lose, LoginMap
  <2> QED BY <2>5 DEF Contract!ContractNext
<1>8. CASE /\ Next
           /\ \A s \in States, i \in Intervals, e \in Expiries : ~Start(s, i, e)
           /\ \A p \in Pollers : ~AnswerGrant(p) /\ ~PollSucceed(p) /\ ~Drop(p)
           /\ \A s \in States : ~Approve(s) /\ ~Refuse(s)
           /\ ~Reload
      BY <1>8, StepNothingSeen, NothingSeenStutters
<1>9. CASE UNCHANGED vars BY <1>9 DEF vars, LoginMap, LoginOf, Holds
<1> QED BY <1>1, <1>2, <1>3, <1>4, <1>5, <1>6, <1>7, <1>8, <1>9

\* The login half of the plugin implements the contract of a device login.
THEOREM LoginImplementsContract == Spec => ImplementsContract
<1>1. Init => Contract!ContractInit
      BY DEF Init, Contract!ContractInit, LoginMap, LoginOf
<1>2. TypeInv /\ AliasInv /\ TokensInv /\ OutcomeInv /\ [Next]_vars
         => [Contract!ContractNext]_LoginMap
      BY StepKeepsContract
<1> QED BY <1>1, <1>2, TypeInvariant, AliasInvariant, TokensInvariant, OutcomeInvariant, PTL
        DEF Spec, ImplementsContract, Contract!ContractSpec

====
