---- MODULE RefreshScheduleProofs ----
(***************************************************************************)
(* What the schedule guarantees for every refresh lead, floor and set of   *)
(* lifetimes, however often and whenever the file is parsed or rewritten:  *)
(* refreshes come ahead of the expiry and never in a loop.                 *)
(***************************************************************************)
EXTENDS RefreshSchedule, TLAPS

\* Every instant is a number, and expires_in is a lifetime that upstream may answer.
Numbers ==
    /\ now \in Nat /\ lifetime \in Lifetimes /\ issued \in Nat /\ parses \in Nat
    /\ expiry \in Int /\ nextRefresh \in Int

\* The host is not past the time it was given by more than it may be late, and that
\* time lies a floor after the refresh that issued the token, less a fraction of a second.
HostInv ==
    /\ issued <= now /\ now <= nextRefresh + Lag
    /\ issued + Floor < nextRefresh + Second

ScheduleInv == Numbers /\ HostInv /\ ParseHardlyDefers

-----------------------------------------------------------------------------
(* Lemmas about the operators                                              *)

\* The constants are numbers, and a floor is a second at least.
LEMMA ConstantsType ==
    /\ Second \in Nat /\ Second > 0 /\ Second <= Floor
    /\ RefreshLead \in Nat /\ Floor \in Nat /\ Minute \in Nat /\ Lag \in Nat
BY ScheduleAssumption

\* A longer count of seconds is a longer time.
LEMMA SecondsMonotone ==
    ASSUME NEW i \in Int, NEW j \in Int, i <= j
    PROVE i * Second \in Int /\ j * Second \in Int /\ i * Second <= j * Second
BY ConstantsType

\* Formatting an instant drops less than a second of it.
LEMMA WholeSecondsBounds ==
    ASSUME NEW t \in Nat
    PROVE /\ WholeSeconds(t) \in Nat
          /\ WholeSeconds(t) <= t /\ t < WholeSeconds(t) + Second
<1> DEFINE q == t \div Second
<1>1. q \in Nat /\ q * Second <= t /\ t < (q + 1) * Second BY ConstantsType
<1>2. q * Second \in Nat /\ (q + 1) * Second = q * Second + Second
      BY ConstantsType, <1>1
<1> QED BY <1>1, <1>2, ConstantsType DEF WholeSeconds

\* expiresIn/2 is half of a lifetime, less half a second when that is odd.
LEMMA HalfBounds ==
    ASSUME NEW l \in Lifetimes
    PROVE /\ l \in Nat /\ Half(l) \in Nat
          /\ Half(l) <= l /\ 2 * Half(l) >= l - Second
<1> DEFINE k == l \div Second
           h == k \div 2
<1>1. l \in Nat /\ l % Second = 0 BY ScheduleAssumption
<1>2. k \in Nat /\ l = k * Second BY <1>1, ConstantsType
<1>3. h \in Nat /\ h <= k /\ k - 1 <= 2 * h BY <1>2
<1>4. h * Second \in Int /\ h * Second <= k * Second /\ (k - 1) * Second <= (2 * h) * Second
      BY <1>2, <1>3, SecondsMonotone
<1>5. /\ h * Second \in Nat /\ (2 * h) * Second = 2 * (h * Second)
      /\ (k - 1) * Second = k * Second - Second
      BY <1>2, <1>3, ConstantsType
<1>6. Half(l) = h * Second BY DEF Half
<1> HIDE DEF h, k
<1> QED BY <1>1, <1>2, <1>4, <1>5, <1>6, ConstantsType

\* Without a timestamp the refresh waits for at least half of expires_in, or a
\* minute, and never longer than expires_in.
LEMMA DelayBounds ==
    ASSUME NEW l \in Lifetimes
    PROVE /\ DelayOf(l) \in Int /\ DelayOf(l) <= l
          /\ 2 * DelayOf(l) >= Sooner(l, 2 * Minute) - Second
<1>1. l \in Nat BY HalfBounds
<1>2. CASE l - RefreshLead < Minute
  <2>1. DelayOf(l) = Half(l) BY <1>2 DEF DelayOf
  <2> QED BY <1>1, <2>1, HalfBounds, ConstantsType DEF Sooner
<1>3. CASE ~(l - RefreshLead < Minute)
  <2>1. DelayOf(l) = l - RefreshLead BY <1>3 DEF DelayOf
  <2> QED BY <1>1, <1>3, <2>1, ConstantsType DEF Sooner
<1> QED BY <1>2, <1>3

\* The time the host is given: a floor away, less the fraction of a second that was
\* dropped, no later than the longer of the floor and expires_in, and ahead of a
\* timestamp by the lead unless the floor forbids.
LEMMA NextRefreshBounds ==
    ASSUME now \in Nat, NEW e \in Int, NEW l \in Lifetimes
    PROVE LET next == NextRefreshAfter(e, l) IN
          /\ next \in Int /\ now + Floor < next + Second
          /\ l > 0 => next - now <= Later(l, Floor)
          /\ e # NoExpiry => next <= Later(e - RefreshLead, now + Floor)
          /\ e = NoExpiry => 2 * (next - now) > Sooner(l, 2 * Minute) - 3 * Second
<1> USE ConstantsType
<1>1. l \in Nat BY HalfBounds
<1>2. CASE e # NoExpiry
  <2> DEFINE due == Later(DueOf(e, l), now + Floor)
  <2>1. /\ DueOf(e, l) \in Int /\ DueOf(e, l) <= e - RefreshLead
        /\ l > 0 => DueOf(e, l) <= now + l
        BY <1>1 DEF DueOf, Sooner
  <2>2. /\ due \in Nat /\ now + Floor <= due
        /\ due <= Later(e - RefreshLead, now + Floor)
        /\ l > 0 => due - now <= Later(l, Floor)
        BY <1>1, <2>1 DEF Later
  <2>3. NextRefreshAfter(e, l) = WholeSeconds(due) BY <1>2 DEF NextRefreshAfter
  <2>4. Later(e - RefreshLead, now + Floor) \in Int /\ Later(l, Floor) \in Int
        BY <1>1 DEF Later
  <2> HIDE DEF due
  <2>5. /\ WholeSeconds(due) \in Nat
        /\ WholeSeconds(due) <= due /\ due < WholeSeconds(due) + Second
        BY <2>2, WholeSecondsBounds
  <2> QED BY <1>1, <1>2, <2>2, <2>3, <2>4, <2>5
<1>3. CASE e = NoExpiry
  <2> DEFINE delay == Later(DelayOf(l), Floor)
  <2>1. /\ DelayOf(l) \in Int /\ DelayOf(l) <= l
        /\ 2 * DelayOf(l) >= Sooner(l, 2 * Minute) - Second
        BY DelayBounds
  <2>2. Sooner(l, 2 * Minute) \in Int /\ Later(l, Floor) \in Int
        BY <1>1 DEF Sooner, Later
  <2>3. /\ delay \in Nat /\ Floor <= delay /\ delay <= Later(l, Floor)
        /\ 2 * delay >= Sooner(l, 2 * Minute) - Second
        BY <1>1, <2>1, <2>2 DEF Later
  <2>4. NextRefreshAfter(e, l) = WholeSeconds(now + delay) BY <1>3 DEF NextRefreshAfter
  <2> HIDE DEF delay
  <2>5. /\ WholeSeconds(now + delay) \in Nat /\ WholeSeconds(now + delay) <= now + delay
        /\ now + delay < WholeSeconds(now + delay) + Second
        BY <2>3, WholeSecondsBounds
  <2> QED BY <1>1, <1>3, <2>2, <2>3, <2>4, <2>5
<1> QED BY <1>2, <1>3

\* A token is stamped with a number.
LEMMA StampType == ASSUME now \in Nat, NEW l \in Lifetimes PROVE ExpiryStamp(l) \in Int
<1>1. l \in Nat /\ now + l \in Nat BY HalfBounds
<1>2. WholeSeconds(now + l) \in Nat BY <1>1, WholeSecondsBounds
<1> QED BY <1>2 DEF ExpiryStamp, NoExpiry

\* One more parse adds one more deferral.
LEMMA OneMoreDeferral ==
    ASSUME NEW n \in Nat
    PROVE /\ Deferral * n \in Nat /\ Deferral * 0 = 0
          /\ Deferral * (n + 1) = Deferral * n + Floor + Lag
BY ConstantsType DEF Deferral

-----------------------------------------------------------------------------
(* The inductive invariant                                                 *)

\* A token that was just issued is scheduled in time.
LEMMA IssuedInTime ==
    ASSUME now \in Nat, NEW l \in Lifetimes, lifetime' = l,
           expiry' = ExpiryStamp(l), nextRefresh' = NextRefreshAfter(ExpiryStamp(l), l),
           now' = now, issued' = now, parses' = 0
    PROVE ScheduleInv'
<1> DEFINE e == ExpiryStamp(l)
<1>1. e \in Int BY StampType
<1> HIDE DEF e
<1>2. /\ nextRefresh' \in Int /\ now + Floor < nextRefresh' + Second
      /\ e # NoExpiry => nextRefresh' <= Later(e - RefreshLead, now + Floor)
      BY <1>1, NextRefreshBounds DEF e
<1>3. Deferral * parses' = 0 BY OneMoreDeferral
<1>4. expiry' = e BY DEF e
<1>5. Numbers' BY <1>1, <1>2, <1>4 DEF Numbers
<1>6. HostInv' BY <1>2, ConstantsType DEF HostInv
<1>7. ParseHardlyDefers' BY <1>1, <1>2, <1>3, <1>4, ConstantsType DEF ParseHardlyDefers, Later
<1> QED BY <1>5, <1>6, <1>7 DEF ScheduleInv

\* The first login is scheduled in time.
LEMMA InitInTime == Init => ScheduleInv
<1> SUFFICES ASSUME Init PROVE ScheduleInv OBVIOUS
<1>1. now \in Nat /\ lifetime \in Lifetimes /\ issued = now /\ parses = 0
      BY ConstantsType DEF Init
<1>2. expiry \in Int /\ nextRefresh = NextRefreshAfter(expiry, lifetime)
      BY <1>1, StampType DEF Init
<1>3. /\ nextRefresh \in Int /\ now + Floor < nextRefresh + Second
      /\ expiry # NoExpiry => nextRefresh <= Later(expiry - RefreshLead, now + Floor)
      BY <1>1, <1>2, NextRefreshBounds
<1>4. Deferral * parses = 0 BY <1>1, OneMoreDeferral
<1> QED BY <1>1, <1>2, <1>3, <1>4, ConstantsType
        DEF ScheduleInv, Numbers, HostInv, ParseHardlyDefers, Later

\* No step of the host, the plugin or the user breaks the invariant.
LEMMA StepInTime == ScheduleInv /\ [Next]_vars => ScheduleInv'
<1> SUFFICES ASSUME ScheduleInv, [Next]_vars PROVE ScheduleInv' OBVIOUS
<1> USE DEF ScheduleInv
<1>1. CASE Tick
      BY <1>1, ConstantsType DEF Tick, Numbers, HostInv, ParseHardlyDefers
<1>2. CASE Refresh
  <2>1. PICK l \in Lifetimes :
          /\ lifetime' = l /\ expiry' = ExpiryStamp(l)
          /\ nextRefresh' = NextRefreshAfter(ExpiryStamp(l), l)
        BY <1>2 DEF Refresh
  <2> QED BY <1>2, <2>1, IssuedInTime DEF Refresh, Numbers
<1>3. CASE Parse
  <2>1. /\ nextRefresh' = NextRefreshAfter(expiry, lifetime) /\ parses' = parses + 1
        /\ UNCHANGED <<now, lifetime, expiry, issued>>
        BY <1>3 DEF Parse
  <2>2. /\ nextRefresh' \in Int /\ now + Floor < nextRefresh' + Second
        /\ expiry # NoExpiry => nextRefresh' <= Later(expiry - RefreshLead, now + Floor)
        BY <2>1, NextRefreshBounds DEF Numbers
  <2>3. /\ Deferral * parses \in Nat
        /\ Deferral * parses' = Deferral * parses + Floor + Lag
        BY <2>1, OneMoreDeferral DEF Numbers
  <2>4. Numbers' /\ HostInv' BY <2>1, <2>2, ConstantsType DEF Numbers, HostInv
  <2>5. ASSUME expiry # NoExpiry
        PROVE nextRefresh' <= Later(expiry - RefreshLead, issued + Floor) + Deferral * parses'
    <3>1. now <= Later(expiry - RefreshLead, issued + Floor) + Deferral * parses + Lag
          BY <2>3, <2>5, ConstantsType DEF HostInv, Numbers, ParseHardlyDefers, Later
    <3> QED BY <2>2, <2>3, <2>5, <3>1, ConstantsType DEF Numbers, Later
  <2> QED BY <2>1, <2>4, <2>5 DEF ParseHardlyDefers
<1>4. CASE Rewrite
  <2>1. /\ expiry # NoExpiry /\ expiry' \in {expiry, NoExpiry} /\ lifetime' \in Lifetimes
        /\ UNCHANGED <<now, nextRefresh, issued, parses>>
        BY <1>4 DEF Rewrite, Numbers
  <2>2. Numbers' /\ HostInv' BY <2>1 DEF Numbers, HostInv, NoExpiry
  <2>3. ParseHardlyDefers'
    <3>1. CASE expiry' = NoExpiry BY <3>1 DEF ParseHardlyDefers
    <3>2. CASE expiry' = expiry BY <2>1, <3>2 DEF ParseHardlyDefers
    <3> QED BY <2>1, <3>1, <3>2
  <2> QED BY <2>2, <2>3
<1>5. CASE UNCHANGED vars
      BY <1>5 DEF vars, Numbers, HostInv, ParseHardlyDefers
<1> QED BY <1>1, <1>2, <1>3, <1>4, <1>5 DEF Next

\* The schedule stays ahead of the expiry.
THEOREM ScheduleInvariant == Spec => []ScheduleInv
BY InitInTime, StepInTime, PTL DEF Spec

-----------------------------------------------------------------------------
(* What follows from it                                                    *)

\* A parse defers the refresh by a floor at most, after the host was late.
THEOREM ParsesHardlyDefer == Spec => []ParseHardlyDefers
BY ScheduleInvariant, PTL DEF ScheduleInv

\* A token that outlives the floor is refreshed before it expires.
THEOREM TokenRefreshedInTime == Spec => []NoExpiredToken
<1>1. ScheduleInv => NoExpiredToken
  <2> SUFFICES ASSUME ScheduleInv, expiry # NoExpiry,
                      Deferral * parses + Lag < RefreshLead,
                      Deferral * (parses + 1) < expiry - issued
               PROVE now < expiry
        BY DEF NoExpiredToken
  <2> USE ConstantsType
  <2>1. /\ Deferral * parses \in Nat
        /\ Deferral * (parses + 1) = Deferral * parses + Floor + Lag
        BY OneMoreDeferral DEF ScheduleInv, Numbers
  <2>2. now <= Later(expiry - RefreshLead, issued + Floor) + Deferral * parses + Lag
        BY <2>1 DEF ScheduleInv, Numbers, HostInv, ParseHardlyDefers, Later
  <2>3. CASE Later(expiry - RefreshLead, issued + Floor) = expiry - RefreshLead
        BY <2>1, <2>2, <2>3 DEF ScheduleInv, Numbers
  <2>4. CASE Later(expiry - RefreshLead, issued + Floor) = issued + Floor
        BY <2>1, <2>2, <2>4 DEF ScheduleInv, Numbers
  <2> QED BY <2>3, <2>4 DEF Later
<1> QED BY <1>1, ScheduleInvariant, PTL

\* No credential is refreshed twice within the floor, less the fraction of a second
\* that RFC3339 drops.
THEOREM NoRefreshLoop == Spec => RefreshesSpaced
<1> DEFINE Spaced == now + Second > issued + Floor
<1>1. ASSUME ScheduleInv, Refresh PROVE Spaced
      BY <1>1, ConstantsType DEF ScheduleInv, Numbers, HostInv, Refresh
<1>2. ScheduleInv /\ [Next]_vars => [Refresh => Spaced]_vars BY <1>1
<1> QED BY <1>2, ScheduleInvariant, PTL DEF Spec, RefreshesSpaced

\* A parse stays within expires_in unless the floor is longer, and without a timestamp
\* it grants half of expires_in but for the rounding.
THEOREM ParseWithinExpiresIn == Spec => WithinExpiresIn
<1> DEFINE delay == nextRefresh' - now
           Within == /\ lifetime >= Floor => delay <= lifetime
                     /\ 0 < lifetime /\ lifetime < Floor => delay <= Floor
                     /\ expiry = NoExpiry
                          => 2 * delay > Sooner(lifetime, 2 * Minute) - 3 * Second
<1>1. ASSUME ScheduleInv, [Next]_vars, parses' = parses + 1 PROVE Within
  <2>1. Parse
    <3>1. parses \in Nat /\ parses' # parses /\ parses' # 0
          BY <1>1 DEF ScheduleInv, Numbers
    <3> QED BY <1>1, <3>1 DEF Next, Tick, Refresh, Rewrite, vars
  <2>2. nextRefresh' = NextRefreshAfter(expiry, lifetime) BY <2>1 DEF Parse
  <2>3. now \in Nat /\ expiry \in Int /\ lifetime \in Lifetimes
        BY <1>1 DEF ScheduleInv, Numbers
  <2>4. nextRefresh' \in Int /\ (lifetime > 0 => delay <= Later(lifetime, Floor))
        BY <2>2, <2>3, NextRefreshBounds
  <2>5. expiry = NoExpiry => 2 * delay > Sooner(lifetime, 2 * Minute) - 3 * Second
        BY <2>2, <2>3, NextRefreshBounds
  <2>6. lifetime \in Nat BY <2>3, HalfBounds
  <2>7. /\ lifetime >= Floor => Later(lifetime, Floor) = lifetime /\ lifetime > 0
        /\ lifetime < Floor => Later(lifetime, Floor) = Floor
        BY <2>6, ConstantsType DEF Later
  <2> HIDE DEF delay
  <2> QED BY <2>4, <2>5, <2>7
<1>2. ScheduleInv /\ [Next]_vars => [parses' = parses + 1 => Within]_vars BY <1>1
<1> QED BY <1>2, ScheduleInvariant, PTL DEF Spec, WithinExpiresIn
====
