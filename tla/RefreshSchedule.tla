---- MODULE RefreshSchedule ----
(***************************************************************************)
(* When the host refreshes a credential: formatNextRefreshAfter of         *)
(* src/storage.go, called on every login, refresh and parse, and a host    *)
(* that acts on the time it was last given, or up to Lag later (external). *)
(* Instants and durations are in ticks, Second of them to a second: the    *)
(* code computes with the clock's fractions and writes RFC3339, which has  *)
(* none.  A lifetime of 0 stands for a token without a positive            *)
(* expires_in, NoExpiry for a credential without a usable timestamp.       *)
(***************************************************************************)
EXTENDS Integers

CONSTANTS
    Second,          \* clock ticks per second
    RefreshLead,     \* 5 min before expiry
    Floor,           \* 15 s: never schedule sooner
    Minute,          \* 60 s: below it, half of expires_in is used
    Lifetimes,       \* the values of expires_in
    Lag,             \* how late the host may be
    MaxTime, MaxParses    \* bounds: the clock, and the parses between two refreshes

ASSUME ScheduleAssumption ==
    /\ Second \in Nat \ {0}
    /\ {RefreshLead, Floor, Minute, Lag, MaxTime, MaxParses} \subseteq Nat
    /\ Second <= Floor
    /\ Lifetimes \subseteq Nat
    /\ \A l \in Lifetimes : l % Second = 0    \* expires_in is an int of seconds

NoExpiry == -1

VARIABLES
    now,
    lifetime,      \* expires_in of the stored token
    expiry,        \* its "expired" timestamp
    nextRefresh,   \* the NextRefreshAfter the host was last given
    issued,        \* history: when the token was issued
    parses         \* history: parses of the file since then

vars == <<now, lifetime, expiry, nextRefresh, issued, parses>>

Later(a, b) == IF a < b THEN b ELSE a
Sooner(a, b) == IF a < b THEN a ELSE b

\* time.RFC3339 has no fractional seconds.
WholeSeconds(t) == (t \div Second) * Second

\* With a timestamp: ahead of the real expiry, within expires_in from now.
DueOf_Relative(e, l) == now + Later(l - RefreshLead, Floor)    \* Slip: from now, not from e.
DueOf_AtExpiry(e, l) == e    \* Slip: no lead.
DueOf(e, l) == IF l > 0 THEN Sooner(e - RefreshLead, now + l) ELSE e - RefreshLead

\* expiresIn/2, a division of ints.
Half(l) == ((l \div Second) \div 2) * Second

\* Without one: relative to now, half of a lifetime that has no room for the lead.
DelayOf_Lead(l) == l - RefreshLead    \* Slip: short lifetimes are not halved.
DelayOf(l) == IF l - RefreshLead < Minute THEN Half(l) ELSE l - RefreshLead

NextRefreshAfter_NoFloor(e, l) ==    \* Slip: the floor is for tokens without timestamp.
    WholeSeconds(IF e # NoExpiry THEN DueOf(e, l) ELSE now + Later(DelayOf(l), Floor))
NextRefreshAfter(e, l) ==
    WholeSeconds(IF e # NoExpiry THEN Later(DueOf(e, l), now + Floor)
                 ELSE now + Later(DelayOf(l), Floor))

\* buildTokenData stamps the expiry only when the answer has an expires_in.
ExpiryStamp(l) == IF l > 0 THEN WholeSeconds(now + l) ELSE NoExpiry

Init ==
    /\ now \in 0..(Second - 1)
    /\ lifetime \in Lifetimes
    /\ expiry = ExpiryStamp(lifetime)
    /\ nextRefresh = NextRefreshAfter(expiry, lifetime)
    /\ issued = now /\ parses = 0

\* The host waits for the time it was given, and may be late.
Tick ==
    /\ now < nextRefresh + Lag /\ now < MaxTime
    /\ now' = now + 1
    /\ UNCHANGED <<lifetime, expiry, nextRefresh, issued, parses>>

Refresh ==
    /\ now >= nextRefresh /\ now < MaxTime
    /\ \E l \in Lifetimes :
        /\ lifetime' = l /\ expiry' = ExpiryStamp(l)
        /\ nextRefresh' = NextRefreshAfter(ExpiryStamp(l), l)
    /\ issued' = now /\ parses' = 0
    /\ UNCHANGED now

\* The host re-reads the file; what it holds is what was last saved.
Parse ==
    /\ parses < MaxParses
    /\ nextRefresh' = NextRefreshAfter(expiry, lifetime)
    /\ parses' = parses + 1
    /\ UNCHANGED <<now, lifetime, expiry, issued>>

\* Another tool or the user rewrites the file: the timestamp goes, or expires_in
\* no longer tells the lifetime the timestamp was stamped with.
Rewrite ==
    /\ expiry # NoExpiry
    /\ \/ expiry' = NoExpiry /\ UNCHANGED lifetime
       \/ lifetime' \in Lifetimes \ {lifetime} /\ UNCHANGED expiry
    /\ UNCHANGED <<now, nextRefresh, issued, parses>>

Next == Tick \/ Refresh \/ Parse \/ Rewrite

Spec == Init /\ [][Next]_vars

-----------------------------------------------------------------------------
(* Properties                                                              *)

\* By how much a parse can put a refresh off: a floor, after the host was late.
Deferral == Floor + Lag

\* Each parse of a file with a timestamp defers its refresh by a floor at most:
\* a file that is read again and again is still refreshed ahead of the real expiry
\* (storage.go: not "now + expires_in" on every parse).
ParseHardlyDefers ==
    expiry # NoExpiry =>
        nextRefresh <= Later(expiry - RefreshLead, issued + Floor) + Deferral * parses

\* A token that outlives the floor is refreshed before it expires, as long as the
\* file is not parsed too often close to its expiry.
NoExpiredToken ==
    expiry # NoExpiry
        /\ Deferral * parses + Lag < RefreshLead
        /\ Deferral * (parses + 1) < expiry - issued
        => now < expiry

\* A parse schedules within expires_in, if that is the floor at least; the floor
\* overrides a shorter expires_in (storage.go:239-240, "the delay never exceeds
\* expires_in", does not say so).  Without a timestamp a parse grants half of
\* expires_in, or a minute, less what the int division and RFC3339 drop: a token
\* that lives shorter than the lead is not refreshed in a loop of 15 s.
WithinExpiresIn ==
    [][parses' = parses + 1 =>
         LET delay == nextRefresh' - now IN
         /\ lifetime >= Floor => delay <= lifetime
         /\ 0 < lifetime /\ lifetime < Floor => delay <= Floor
         /\ expiry = NoExpiry => 2 * delay > Sooner(lifetime, 2 * Minute) - 3 * Second]_vars

\* However short its tokens live and whatever the file says, a credential is never
\* refreshed twice within the floor, less the fraction of a second that RFC3339
\* drops from the time the host is given: no loop of refreshes at a token's expiry.
RefreshesSpaced == [][Refresh => now + Second > issued + Floor]_vars
====
