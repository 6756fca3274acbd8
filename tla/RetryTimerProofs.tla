-------------------------- MODULE RetryTimerProofs --------------------------
(***************************************************************************)
(* The retransmission timers for every set of timers, every width of the   *)
(* tick counter and every range of timeouts: the list is exact, expiries   *)
(* come in time, and what the comment on MIN_TIMEOUT in retry.c says of    *)
(* the arithmetic of stop_timer.                                           *)
(***************************************************************************)
EXTENDS RetryTimer, FiniteSetTheorems, TLAPS

\* What is in a concatenation.
LEMMA Joined ==
    ASSUME NEW S, NEW s \in Seq(S), NEW t \in Seq(S)
    PROVE  /\ s \o t \in Seq(S)
           /\ Len(s \o t) = Len(s) + Len(t)
           /\ \A i \in 1..(Len(s) + Len(t)) :
                 (s \o t)[i] = IF i <= Len(s) THEN s[i] ELSE t[i - Len(s)]
OBVIOUS


-----------------------------------------------------------------------------
(***************************************************************************)
(* The list.                                                               *)
(***************************************************************************)

\* list_add of an entry that is not in the list.
LEMMA Adding ==
    ASSUME NEW S, NEW l \in Seq(S), IsInjective(l), NEW t \in S, t \notin Range(l)
    PROVE  /\ <<t>> \o l \in Seq(S) /\ IsInjective(<<t>> \o l)
           /\ Range(<<t>> \o l) = Range(l) \cup {t}
<1> DEFINE r == <<t>> \o l
<1>1. /\ r \in Seq(S) /\ Len(r) = Len(l) + 1 /\ Len(l) \in Nat /\ DOMAIN l = 1..Len(l)
      /\ DOMAIN r = 1..Len(r)
    OBVIOUS
<1>2. r[1] = t /\ \A i \in 1..Len(l) : r[i + 1] = l[i]
    OBVIOUS
<1> HIDE DEF r
<1>3. \A i \in DOMAIN r : i = 1 \/ (i - 1 \in DOMAIN l /\ r[i] = l[i - 1])
    BY <1>1, <1>2
<1>4. IsInjective(r)
    BY <1>1, <1>2, <1>3 DEF IsInjective, Range
<1>5. Range(r) = Range(l) \cup {t}
  <2>1. \A x \in Range(r) : x \in Range(l) \cup {t}
    BY <1>2, <1>3 DEF Range
  <2>2. \A i \in DOMAIN l : l[i] \in Range(r)
    BY <1>1, <1>2 DEF Range
  <2>3. t \in Range(r)
    BY <1>1, <1>2 DEF Range
  <2> QED BY Zenon, <2>1, <2>2, <2>3 DEF Range
<1> QED BY <1>1, <1>4, <1>5 DEF r

\* list_del of an entry of the list.
LEMMA Removing ==
    ASSUME NEW S, NEW l \in Seq(S), IsInjective(l), NEW t \in Range(l)
    PROVE  /\ Unlisted(l, t) \in Seq(S) /\ IsInjective(Unlisted(l, t))
           /\ Range(Unlisted(l, t)) = Range(l) \ {t}
<1> DEFINE n == CHOOSE i \in DOMAIN l : l[i] = t
           r == SubSeq(l, 1, n - 1) \o SubSeq(l, n + 1, Len(l))
<1>1. n \in DOMAIN l /\ l[n] = t
    BY DEF Range
<1> HIDE DEF n
<1>2. Len(l) \in Nat /\ DOMAIN l = 1..Len(l) /\ \A i \in 1..Len(l) : l[i] \in S
    OBVIOUS
<1>3. r \in Seq(S) /\ Len(r) = Len(l) - 1 /\ DOMAIN r = 1..Len(r)
    BY <1>1, <1>2
<1>4. ASSUME NEW i \in 1..(Len(l) - 1) PROVE r[i] = IF i < n THEN l[i] ELSE l[i + 1]
  <2> DEFINE a == SubSeq(l, 1, n - 1)
             b == SubSeq(l, n + 1, Len(l))
  <2>1. a \in Seq(S) /\ Len(a) = n - 1 /\ b \in Seq(S) /\ Len(b) = Len(l) - n
    BY <1>1, <1>2
  <2>2. (i < n => a[i] = l[i]) /\ (i >= n => b[i - (n - 1)] = l[i + 1])
    BY <1>1, <1>2
  <2> HIDE DEF a, b
  <2>3. (a \o b)[i] = IF i <= Len(a) THEN a[i] ELSE b[i - Len(a)]
    BY <1>1, <1>2, <1>4, <2>1, Joined
  <2>4. r = a \o b
    BY DEF a, b
  <2> HIDE DEF r
  <2> QED BY <1>1, <1>2, <2>1, <2>2, <2>3, <2>4
<1> HIDE DEF r
<1> DEFINE at(i) == IF i < n THEN i ELSE i + 1
<1>5. \A i \in DOMAIN r : r[i] = l[at(i)] /\ at(i) \in DOMAIN l /\ at(i) # n /\ i \in Int
    BY <1>1, <1>2, <1>3, <1>4
<1>6. \A i, j \in Int : at(i) = at(j) => i = j
    BY <1>1, <1>2
<1>7. \A i \in DOMAIN l : i # n => \E j \in DOMAIN r : at(j) = i
  <2> SUFFICES ASSUME NEW i \in DOMAIN l, i # n PROVE \E j \in DOMAIN r : at(j) = i
    OBVIOUS
  <2>1. CASE i < n
    BY <1>1, <1>2, <1>3, <2>1
  <2>2. CASE i > n
    <3>1. i - 1 \in DOMAIN r /\ at(i - 1) = i
      BY <1>1, <1>2, <1>3, <2>2
    <3> QED BY <3>1
  <2> QED BY <1>1, <1>2, <2>1, <2>2
<1> HIDE DEF at
<1>8. IsInjective(r)
    BY <1>5, <1>6 DEF IsInjective
<1>9. Range(r) = Range(l) \ {t}
    BY <1>1, <1>5, <1>7 DEF Range, IsInjective
<1> QED BY Zenon, <1>3, <1>8, <1>9 DEF Unlisted, r, n

-----------------------------------------------------------------------------
(***************************************************************************)
(* One timer.                                                              *)
(***************************************************************************)
Record == [running : BOOLEAN, timeout : Ticks, start : Ticks, count : 0..MaxCount]

\* The bounds of the configuration are numbers.
LEMMA Bounds ==
    /\ Word \in Nat \ {0, 1} /\ MaxCount \in Nat /\ PollsPerTick \in Nat
    /\ MaxSmooth \in Nat /\ MaxSmooth < Word /\ MIN_TIMEOUT \in Nat /\ MIN_TIMEOUT < Word
    /\ MIN_TIMEOUT > 0 /\ MinTicks \in Nat /\ MinTicks < Word
    /\ MaxTicks \in Nat /\ MaxTicks < Word /\ Fixed \subseteq Ticks
BY RetryAssumption DEF Ticks

\* The difference of two readings is a reading.
LEMMA SinceNat == ASSUME NEW a \in Ticks, NEW b \in Ticks PROVE Since(a, b) \in Ticks
BY Bounds DEF Since, Ticks

\* Losing an eighth, rounded down, leaves seven ticks or more of seven or more.
LEMMA Eighth == ASSUME NEW n \in Nat PROVE n - (n \div 8) \in Nat /\ (n >= 7 => n - (n \div 8) >= 7)
OBVIOUS

\* Half a round-trip time is a number of ticks.
LEMMA Half == ASSUME NEW n \in Nat PROVE n \div 2 \in Nat
OBVIOUS

\* stop_timer on a running timer.
LEMMA Stopping ==
    ASSUME NEW x \in Record, x.running, ticks \in Ticks, stop_timer(x).timeout <= MaxSmooth
    PROVE  /\ stop_timer(x) \in Record /\ ~stop_timer(x).running
           /\ x.timeout >= 7 => stop_timer(x).timeout >= 7
<1> DEFINE n == x.timeout
           d == Since(ticks, x.start)
           m == (n - (n \div 8)) + d \div 2
<1>1. n \in Ticks /\ n \in Nat /\ d \in Nat /\ x.count \in 0..MaxCount /\ 0 \in Ticks
  <2>1. n \in Ticks /\ x.start \in Ticks /\ x.count \in 0..MaxCount
    BY DEF Record
  <2>2. d \in Ticks
    BY <2>1, SinceNat
  <2> HIDE DEF d
  <2> QED BY <2>1, <2>2, Bounds DEF Ticks
<1>2. m \in Nat /\ (n >= 7 => m >= 7)
  <2>1. n - (n \div 8) \in Nat /\ (n >= 7 => n - (n \div 8) >= 7) /\ d \div 2 \in Nat
    BY <1>1, Eighth, Half
  <2> QED BY <2>1
<1>3. CASE ~(x.count > 0)
  <2>1. stop_timer(x) = [x EXCEPT !.running = FALSE, !.start = 0, !.timeout = m]
    BY <1>3 DEF stop_timer
  <2> HIDE DEF m
  <2>2. stop_timer(x).timeout = m
    BY <2>1, Zenon DEF Record
  <2>3. m \in Ticks
    BY <1>2, <2>2, Bounds DEF Ticks
  <2>4. stop_timer(x) \in Record /\ ~stop_timer(x).running
    BY <1>1, <2>1, <2>3, Zenon DEF Record
  <2> QED BY <1>2, <2>2, <2>4
<1>4. CASE x.count > 0
  <2>1. stop_timer(x) = [x EXCEPT !.running = FALSE, !.start = 0, !.count = x.count - 1]
    BY <1>4 DEF stop_timer
  <2>2. x.count - 1 \in 0..MaxCount
    BY <1>1, <1>4, Bounds
  <2>3. stop_timer(x) \in Record /\ stop_timer(x).timeout = x.timeout /\ ~stop_timer(x).running
    BY <1>1, <2>1, <2>2, Zenon DEF Record
  <2> QED BY <2>3
<1> QED BY <1>3, <1>4

\* start_timer_fixed.
LEMMA Starting ==
    ASSUME NEW x \in Record, NEW v \in Ticks, ticks \in Ticks
    PROVE  /\ start_timer_fixed(x, v) \in Record /\ start_timer_fixed(x, v).running
           /\ start_timer_fixed(x, v).timeout = v /\ start_timer_fixed(x, v).start = ticks
           /\ start_timer_fixed(x, v).count = x.count
BY Zenon DEF Record, start_timer_fixed

\* start_timer never shortens the timeout.
LEMMA RoundingUp ==
    ASSUME NEW x \in Record
    PROVE  StartTimeout(x) \in Ticks /\ StartTimeout(x) >= x.timeout /\ StartTimeout(x) > 0
<1>1. x.timeout \in Nat /\ x.timeout < Word
    BY Bounds DEF Record, Ticks
<1> QED BY <1>1, Bounds DEF StartTimeout, Larger, Ticks

\* A doubled timeout is a number of ticks; it is twice as long where the width of
\* the tick counter allows it.
LEMMA Doubling ==
    ASSUME NEW x \in Record
    PROVE  /\ Doubled(x) \in Ticks
           /\ 2 * x.timeout < Word => Doubled(x) = 2 * x.timeout
<1>1. x.timeout \in Nat /\ Word \in Nat \ {0}
    BY Bounds DEF Record, Ticks
<1> QED BY <1>1 DEF Doubled, Ticks

\* timer_expired.
LEMMA BackingOff ==
    ASSUME NEW x \in Record, x.count < MaxCount
    PROVE  /\ Backoff(x) \in Record /\ ~Backoff(x).running
           /\ (x.timeout >= 7 /\ MaxTicks >= 7 /\ 2 * x.timeout < Word)
                 => Backoff(x).timeout >= 7
<1> DEFINE n == IF Doubled(x) > MaxTicks THEN MaxTicks ELSE Doubled(x)
           c == x.count + 1
<1>1. /\ x.timeout \in Nat /\ x.count \in 0..MaxCount /\ Doubled(x) \in Nat
      /\ Doubled(x) < Word /\ (2 * x.timeout < Word => Doubled(x) = 2 * x.timeout)
    BY Doubling, Bounds DEF Record, Ticks
<1>2. /\ 0 \in Ticks /\ c \in 0..MaxCount /\ n \in Ticks
      /\ (x.timeout >= 7 /\ MaxTicks >= 7 /\ 2 * x.timeout < Word) => n >= 7
    BY <1>1, Bounds DEF Ticks
<1>3. Backoff(x) = [x EXCEPT !.running = FALSE, !.start = 0, !.count = c, !.timeout = n]
    BY DEF Backoff
<1> HIDE DEF n, c
<1>4. Backoff(x) \in Record /\ Backoff(x).timeout = n /\ ~Backoff(x).running
    BY <1>1, <1>2, <1>3, Zenon DEF Record
<1> QED BY <1>2, <1>4

-----------------------------------------------------------------------------
(***************************************************************************)
(* The list is exact.                                                      *)
(***************************************************************************)

\* An owner has not given up on a running timer.
Counted == \A t \in Timers : tm[t].running => tm[t].count < MaxCount

ListInv == TypeOK /\ Counted /\ ListExact

\* How a step may change the timeout of a timer.
Kept(x, y) == (x.timeout >= 7 /\ y.timeout < 7)
                => \/ y.timeout \in Fixed /\ y.running
                   \/ MaxTicks < 7
                   \/ 2 * x.timeout >= Word

\* The part of a step that concerns the timers and the list: one timer becomes y.
LEMMA OneTimer ==
    ASSUME ListInv, NEW t \in Timers, NEW y \in Record, tm' = [tm EXCEPT ![t] = y],
           y.running => y.count < MaxCount,
           y.running /\ tm[t].running => timers' = timers,
           y.running /\ ~tm[t].running => timers' = <<t>> \o timers,
           ~y.running /\ tm[t].running => timers' = Unlisted(timers, t),
           y.running \/ tm[t].running
    PROVE  /\ tm' \in [Timers -> Record] /\ Counted'
           /\ timers' \in Seq(Timers) /\ IsInjective(timers')
           /\ \A u \in Timers : tm'[u].running <=> u \in Range(timers')
<1>0. /\ tm \in [Timers -> Record] /\ timers \in Seq(Timers) /\ IsInjective(timers)
      /\ \A u \in Timers : tm[u].running <=> u \in Range(timers)
    BY DEF ListInv, TypeOK, ListExact, Record
<1>1. tm'[t] = y /\ \A u \in Timers : u # t => tm'[u] = tm[u]
    BY <1>0
<1>2. tm' \in [Timers -> Record]
    BY <1>0
<1>3. Counted'
    BY Zenon, <1>1 DEF Counted, ListInv
<1>4. CASE y.running /\ tm[t].running
    BY Zenon, <1>0, <1>1, <1>2, <1>3, <1>4
<1>5. CASE y.running /\ ~tm[t].running
  <2>1. timers' \in Seq(Timers) /\ IsInjective(timers') /\ Range(timers') = Range(timers) \cup {t}
    <3>1. t \notin Range(timers) /\ timers' = <<t>> \o timers
      BY Zenon, <1>0, <1>5
    <3> QED BY <1>0, <3>1, Adding
  <2> QED BY Zenon, <1>0, <1>1, <1>2, <1>3, <1>5, <2>1
<1>6. CASE ~y.running /\ tm[t].running
  <2>1. timers' \in Seq(Timers) /\ IsInjective(timers') /\ Range(timers') = Range(timers) \ {t}
    BY <1>0, <1>6, Removing
  <2> QED BY Zenon, <1>0, <1>1, <1>2, <1>3, <1>6, <2>1
<1> QED BY Zenon, <1>4, <1>5, <1>6

\* start_timer_fixed keeps the list exact.
LEMMA ArmList ==
    ASSUME ListInv, NEW t \in Timers, NEW v \in Ticks, Arm(t, v), tm[t].count < MaxCount
    PROVE  ListInv' /\ (tm'[t].timeout = v /\ tm'[t].running)
<1> DEFINE y == start_timer_fixed(tm[t], v)
<1>0. /\ tm \in [Timers -> Record] /\ refs \in [Timers -> 0..2]
      /\ ticks \in Ticks /\ waited \in [Timers -> Ticks]
      /\ rush \in BOOLEAN /\ rushed \in [Timers -> Nat]
      /\ \A u \in Timers : refs[u] = (IF tm[u].running THEN 1 ELSE 0)
                                     + (IF u \in expiring THEN 1 ELSE 0)
    BY DEF ListInv, TypeOK, ListExact, Record
<1>1. y \in Record /\ y.running /\ y.timeout = v /\ y.count = tm[t].count
    BY <1>0, Starting
<1>2. tm' = [tm EXCEPT ![t] = y]
    BY DEF Arm
<1>3. /\ UNCHANGED <<ticks, fails, expiring, polls>> /\ waited' = [waited EXCEPT ![t] = 0]
      /\ rush' = (rush \/ v = 0) /\ rushed' = [rushed EXCEPT ![t] = 0]
      /\ refs' = [refs EXCEPT ![t] = IF tm[t].running THEN refs[t] ELSE refs[t] + 1]
      /\ timers' = IF tm[t].running THEN timers ELSE <<t>> \o timers
    BY DEF Arm, Listed
<1> HIDE DEF y
<1>4. /\ tm' \in [Timers -> Record] /\ Counted'
      /\ timers' \in Seq(Timers) /\ IsInjective(timers')
      /\ \A u \in Timers : tm'[u].running <=> u \in Range(timers')
    BY Zenon, <1>1, <1>2, <1>3, OneTimer
<1>5. tm'[t] = y /\ \A u \in Timers : u # t => tm'[u] = tm[u]
    BY <1>0, <1>2
<1>6. \A u \in Timers : refs'[u] = (IF tm'[u].running THEN 1 ELSE 0)
                                     + (IF u \in expiring' THEN 1 ELSE 0)
    BY <1>0, <1>1, <1>3, <1>5
<1>7. refs' \in [Timers -> 0..2]
    BY <1>0, <1>3, <1>6
<1>8. waited' \in [Timers -> Ticks] /\ rushed' \in [Timers -> Nat]
    BY <1>0, <1>3, Bounds DEF Ticks
<1>9. rush' \in BOOLEAN
    BY <1>0, <1>3
<1> QED BY Zenon, <1>0, <1>1, <1>3, <1>4, <1>5, <1>6, <1>7, <1>8, <1>9 DEF ListInv, TypeOK, ListExact, Record

\* stop_timer keeps the list exact.
LEMMA StopList ==
    ASSUME ListInv, NEW t \in Timers, Stop(t)
    PROVE  ListInv' /\ ~tm'[t].running /\ Kept(tm[t], tm'[t])
<1> DEFINE y == stop_timer(tm[t])
<1>0. /\ tm \in [Timers -> Record] /\ refs \in [Timers -> 0..2]
      /\ ticks \in Ticks /\ waited \in [Timers -> Ticks]
      /\ rush \in BOOLEAN /\ rushed \in [Timers -> Nat]
      /\ \A u \in Timers : refs[u] = (IF tm[u].running THEN 1 ELSE 0)
                                     + (IF u \in expiring THEN 1 ELSE 0)
    BY DEF ListInv, TypeOK, ListExact, Record
<1>1. /\ tm' = [tm EXCEPT ![t] = y] /\ tm[t].running /\ y.timeout <= MaxSmooth
      /\ timers' = Unlisted(timers, t) /\ UNCHANGED <<ticks, fails, expiring, rush, polls>>
      /\ rushed' = [rushed EXCEPT ![t] = 0]
      /\ waited' = [waited EXCEPT ![t] = 0] /\ refs' = [refs EXCEPT ![t] = refs[t] - 1]
    BY DEF Stop
<1>2. y \in Record /\ ~y.running /\ (tm[t].timeout >= 7 => y.timeout >= 7)
    BY <1>0, <1>1, Stopping
<1> HIDE DEF y
<1>3. /\ tm' \in [Timers -> Record] /\ Counted'
      /\ timers' \in Seq(Timers) /\ IsInjective(timers')
      /\ \A u \in Timers : tm'[u].running <=> u \in Range(timers')
    BY Zenon, <1>1, <1>2, OneTimer
<1>4. tm'[t] = y /\ \A u \in Timers : u # t => tm'[u] = tm[u]
    BY <1>0, <1>1
<1>5. \A u \in Timers : refs'[u] = (IF tm'[u].running THEN 1 ELSE 0)
                                     + (IF u \in expiring' THEN 1 ELSE 0)
    BY <1>0, <1>1, <1>2, <1>4
<1>6. refs' \in [Timers -> 0..2]
    BY <1>0, <1>1, <1>5
<1>7. waited' \in [Timers -> Ticks] /\ rushed' \in [Timers -> Nat]
    BY <1>0, <1>1, Bounds DEF Ticks
<1>8. Kept(tm[t], y)
    BY <1>0, <1>2 DEF Kept, Record, Ticks
<1> QED BY Zenon, <1>0, <1>1, <1>2, <1>3, <1>4, <1>5, <1>6, <1>7, <1>8
        DEF ListInv, TypeOK, ListExact, Record

\* timer_expired takes the timer out of the list and keeps its reference.
LEMMA ExpireList ==
    ASSUME ListInv, NEW t \in Timers, Expire(t)
    PROVE  ListInv' /\ ~tm'[t].running /\ Kept(tm[t], tm'[t])
<1> DEFINE y == Backoff(tm[t])
<1>0. /\ tm \in [Timers -> Record] /\ refs \in [Timers -> 0..2] /\ fails \in [Timers -> BOOLEAN]
      /\ ticks \in Ticks /\ waited \in [Timers -> Ticks] /\ polls \in 0..PollsPerTick
      /\ rush \in BOOLEAN /\ rushed \in [Timers -> Nat]
      /\ \A u \in Timers : refs[u] = (IF tm[u].running THEN 1 ELSE 0)
                                     + (IF u \in expiring THEN 1 ELSE 0)
    BY DEF ListInv, TypeOK, ListExact, Record
<1>1. /\ tm' = [tm EXCEPT ![t] = y] /\ tm[t].running /\ timers' = Unlisted(timers, t)
      /\ waited' = [waited EXCEPT ![t] = 0] /\ expiring = {} /\ expiring' = {t}
      /\ UNCHANGED <<ticks, refs, rush>> /\ Polled
      /\ rushed' = [rushed EXCEPT ![t] = 0]
      /\ fails' = [fails EXCEPT ![t] = Doubled(tm[t]) > MaxTicks]
    BY DEF Expire, Overdue
<1>2. /\ y \in Record /\ ~y.running
      /\ (tm[t].timeout >= 7 /\ MaxTicks >= 7 /\ 2 * tm[t].timeout < Word) => y.timeout >= 7
    BY <1>0, <1>1, BackingOff DEF ListInv, Counted
<1> HIDE DEF y
<1>3. /\ tm' \in [Timers -> Record] /\ Counted'
      /\ timers' \in Seq(Timers) /\ IsInjective(timers')
      /\ \A u \in Timers : tm'[u].running <=> u \in Range(timers')
    BY Zenon, <1>1, <1>2, OneTimer
<1>4. tm'[t] = y /\ \A u \in Timers : u # t => tm'[u] = tm[u]
    BY <1>0, <1>1
<1>5. \A u \in Timers : refs'[u] = (IF tm'[u].running THEN 1 ELSE 0)
                                     + (IF u \in expiring' THEN 1 ELSE 0)
    BY <1>0, <1>1, <1>2, <1>4
<1>6. fails' \in [Timers -> BOOLEAN]
  <2> DEFINE b == Doubled(tm[t]) > MaxTicks
  <2>1. b \in BOOLEAN
    OBVIOUS
  <2>2. fails' = [fails EXCEPT ![t] = b]
    BY <1>1
  <2> HIDE DEF b
  <2> QED BY Zenon, <1>0, <2>1, <2>2
<1>7. waited' \in [Timers -> Ticks] /\ rushed' \in [Timers -> Nat] /\ polls' \in 0..PollsPerTick
    BY <1>0, <1>1, Bounds DEF Ticks, Polled
<1>8. Kept(tm[t], y)
    BY <1>0, <1>2, Bounds DEF Kept, Record, Ticks
<1> QED BY <1>0, <1>1, <1>2, <1>3, <1>4, <1>5, <1>6, <1>7, <1>8
        DEF ListInv, TypeOK, ListExact, Record

\* The other steps leave the timers and the list alone.
LEMMA OtherList ==
    ASSUME ListInv, Rest \/ Return \/ Tick \/ UNCHANGED vars
    PROVE  ListInv' /\ UNCHANGED <<timers, tm>>
<1>0. /\ tm \in [Timers -> Record] /\ refs \in [Timers -> 0..2] /\ fails \in [Timers -> BOOLEAN]
      /\ ticks \in Ticks /\ waited \in [Timers -> Ticks] /\ polls \in 0..PollsPerTick
      /\ rush \in BOOLEAN /\ rushed \in [Timers -> Nat]
      /\ expiring \in {{}} \cup {{t} : t \in Timers}
      /\ \A u \in Timers : refs[u] = (IF tm[u].running THEN 1 ELSE 0)
                                     + (IF u \in expiring THEN 1 ELSE 0)
    BY DEF ListInv, TypeOK, ListExact, Record
<1>1. UNCHANGED <<timers, tm, fails>>
    BY DEF Rest, Return, Tick, vars
<1>2. ticks' \in Ticks /\ polls' \in 0..PollsPerTick
    BY <1>0, Bounds DEF Rest, Return, Tick, vars, Polled, Ticks
<1>3. waited' \in [Timers -> Ticks]
  <2>1. CASE Tick
    <3>1. \A t \in Timers : waited[t] \in Nat /\ waited[t] < Word
      BY <1>0, Bounds DEF Ticks
    <3>2. \A t \in Timers : (IF tm[t].running THEN waited[t] + 1 ELSE waited[t]) \in Ticks
      BY <2>1, <3>1, Bounds DEF Tick, Ticks
    <3> QED BY <2>1, <3>2 DEF Tick
  <2> QED BY <1>0, <2>1 DEF Rest, Return, vars
<1>4. rush' \in BOOLEAN
    BY Zenon, <1>0 DEF Rest, Return, Tick, vars
<1>5. rushed' \in [Timers -> Nat]
  <2>1. CASE Tick
    <3>1. \A t \in Timers : (IF tm[t].running /\ rush THEN rushed[t] + 1 ELSE rushed[t]) \in Nat
      BY <1>0
    <3> QED BY <2>1, <3>1 DEF Tick
  <2> QED BY <1>0, <2>1 DEF Rest, Return, vars
<1>6. expiring' \in {{}} \cup {{t} : t \in Timers}
    BY Zenon, <1>0 DEF Rest, Return, Tick, vars
<1>7. \A u \in Timers : refs'[u] = (IF tm'[u].running THEN 1 ELSE 0)
                                     + (IF u \in expiring' THEN 1 ELSE 0)
    BY <1>0, <1>1 DEF Rest, Return, Tick, vars
<1>8. refs' \in [Timers -> 0..2]
  <2>1. CASE Return
    <3>1. \A u \in Timers : refs'[u] \in 0..2
      BY <1>7
    <3>2. refs' = [u \in Timers |-> refs'[u]]
      BY Zenon, <2>1 DEF Return
    <3> QED BY Zenon, <3>1, <3>2
  <2> QED BY <1>0, <2>1 DEF Rest, Tick, vars
<1> QED BY <1>0, <1>1, <1>2, <1>3, <1>4, <1>5, <1>6, <1>7, <1>8
        DEF ListInv, TypeOK, ListExact, Record, Counted

\* At the start no timer runs ...
LEMMA ListInit == Init => ListInv
<1> SUFFICES ASSUME Init PROVE ListInv
    OBVIOUS
<1>1. Stopped0 \in Record /\ ~Stopped0.running
    BY Bounds DEF Stopped0, Record, Ticks
<1>2. TypeOK
  <2>1. /\ waited \in [Timers -> Ticks] /\ rushed \in [Timers -> Nat] /\ refs \in [Timers -> 0..2]
        /\ polls \in 0..PollsPerTick
    BY Bounds DEF Init, Ticks
  <2>2. tm \in [Timers -> Record] /\ fails \in [Timers -> BOOLEAN]
    BY <1>1 DEF Init
  <2>3. timers \in Seq(Timers) /\ ticks \in Ticks
    BY DEF Init
  <2>4. expiring \in {{}} \cup {{t} : t \in Timers} /\ rush \in BOOLEAN
    BY Zenon DEF Init
  <2> QED BY Zenon, <2>1, <2>2, <2>3, <2>4 DEF TypeOK, Record
<1>3. Counted /\ ListExact
    BY <1>1 DEF Init, Counted, ListExact, Range, IsInjective
<1> QED BY <1>2, <1>3 DEF ListInv

\* ... and every step keeps the list exact, and shortens no timeout below seven
\* ticks that an owner has not chosen.
LEMMA ListStep ==
    ASSUME ListInv, [Next]_vars
    PROVE  ListInv' /\ \A t \in Timers : Kept(tm[t], tm'[t])
<1>0. tm \in [Timers -> Record] /\ \A t \in Timers : Kept(tm[t], tm[t])
  <2>1. tm \in [Timers -> Record]
    BY DEF ListInv, TypeOK, Record
  <2>2. \A t \in Timers : tm[t].timeout \in Nat
    BY <2>1, Bounds DEF Record, Ticks
  <2> QED BY <2>1, <2>2 DEF Kept
<1>1. ASSUME NEW t \in Timers, NEW y, tm' = [tm EXCEPT ![t] = y], Kept(tm[t], tm'[t])
      PROVE  \A u \in Timers : Kept(tm[u], tm'[u])
  <2>1. \A u \in Timers : u # t => tm'[u] = tm[u]
    BY <1>0, <1>1
  <2> QED BY Zenon, <1>0, <1>1, <2>1
<1>2. ASSUME NEW t \in Timers, Start(t)
      PROVE  ListInv' /\ \A u \in Timers : Kept(tm[u], tm'[u])
  <2> DEFINE v == StartTimeout(tm[t])
  <2>1. v \in Ticks /\ v >= tm[t].timeout /\ tm[t].timeout \in Ticks
    BY <1>0, RoundingUp DEF Record
  <2> HIDE DEF v
  <2>2. ListInv' /\ tm'[t].timeout = v
    BY <1>2, <2>1, ArmList DEF Start, v
  <2>3. Kept(tm[t], tm'[t])
    BY <2>1, <2>2, Bounds DEF Kept, Ticks
  <2> QED BY Zenon, <1>1, <1>2, <2>2, <2>3 DEF Start, Arm
<1>3. ASSUME NEW t \in Timers, StartFixed(t)
      PROVE  ListInv' /\ \A u \in Timers : Kept(tm[u], tm'[u])
  <2>1. PICK v \in Fixed : Arm(t, v)
    BY <1>3 DEF StartFixed
  <2>2. ListInv' /\ tm'[t].timeout = v /\ tm'[t].running
    BY <1>3, <2>1, Bounds, ArmList DEF StartFixed
  <2> QED BY Zenon, <1>1, <2>1, <2>2 DEF Arm, Kept
<1>4. ASSUME NEW t \in Timers, Stop(t) \/ Expire(t)
      PROVE  ListInv' /\ \A u \in Timers : Kept(tm[u], tm'[u])
    BY Zenon, <1>1, <1>4, StopList, ExpireList DEF Stop, Expire
<1>5. CASE Rest \/ Return \/ Tick \/ UNCHANGED vars
    BY Zenon, <1>0, <1>5, OtherList
<1> QED BY Zenon, <1>2, <1>3, <1>4, <1>5 DEF Next, Owner, retry_poll

\* The inductive invariant of the list holds in every state.
LEMMA ListHolds == Spec => []ListInv
<1>1. ListInv /\ [Next]_vars => ListInv'
    BY ListStep
<1> QED BY <1>1, ListInit, PTL DEF Spec

\* Timeouts stay within the width of the tick counter and counts within what an
\* owner accepts, whatever is smoothed, doubled and restarted.
THEOREM Typing == Spec => []TypeOK
<1>1. ListInv => TypeOK
    BY DEF ListInv
<1> QED BY <1>1, ListHolds, PTL

\* The list of retry.c holds the running timers, each once, and the references
\* to the owners are exact, whichever timers the callbacks restart and stop.
THEOREM Exact == Spec => []ListExact
<1>1. ListInv => ListExact
    BY DEF ListInv
<1> QED BY <1>1, ListHolds, PTL

\* "The theoretical minimum that the algorithm in stop_timer() can adjust the
\* timeout back down to is seven ticks" (retry.c): holds whatever round-trip
\* times are smoothed in, whatever timers a callback stops, and however often
\* the timeout backs off, unless an owner asks for less.
THEOREM SmoothingStops == Spec => SevenTicks
<1>1. ListInv /\ [Next]_vars
        => [\A t \in Timers : (tm[t].timeout >= 7 /\ tm'[t].timeout < 7)
                => \/ tm'[t].timeout \in Fixed /\ tm'[t].running
                   \/ MaxTicks < 7
                   \/ 2 * tm[t].timeout >= Word]_vars
    BY ListStep DEF Kept
<1> QED BY <1>1, ListHolds, PTL DEF Spec, SevenTicks

-----------------------------------------------------------------------------
(***************************************************************************)
(* Expiries come in time, when retry_poll runs in each tick as often as    *)
(* there are timers: each starts the tick with at most one expiry due, and *)
(* only a timer that is started without delay adds to that number.         *)
(***************************************************************************)
OftenPolled == IsFiniteSet(Timers) /\ Cardinality(Timers) <= PollsPerTick

Late == {t \in Timers : Overdue(t)}

\* The tick counter shows for how long a timer has run, ...
Clock == \A t \in Timers : tm[t].running => waited[t] = Since(ticks, tm[t].start)

\* ... nothing is later than now, but for the ticks of a rush, ...
InTime == \A t \in Timers : tm[t].running => waited[t] <= tm[t].timeout + rushed[t]

\* ... and without one there are polls enough in this tick for what is late.
Enough == ~rush => Cardinality(Late) + polls <= PollsPerTick

TimeInv == ListInv /\ Clock /\ InTime /\ Enough

\* Modular arithmetic of the tick counter.
LEMMA SinceSteps ==
    /\ \A a \in Ticks : Since(a, a) = 0
    /\ \A a, b \in Ticks : Since(a, b) < Word - 1
          => Since((a + 1) % Word, b) = Since(a, b) + 1
<1>1. ASSUME NEW a \in Ticks PROVE Since(a, a) = 0
    BY Bounds DEF Since, Ticks
<1>2. ASSUME NEW a \in Ticks, NEW b \in Ticks, Since(a, b) < Word - 1
      PROVE  Since((a + 1) % Word, b) = Since(a, b) + 1
  <2>1. Since(a, b) = IF a >= b THEN a - b ELSE a + Word - b
    BY Bounds DEF Since, Ticks
  <2>2. (a + 1) % Word = IF a + 1 = Word THEN 0 ELSE a + 1
    BY Bounds DEF Ticks
  <2>3. \A c \in Ticks : Since(c, b) = IF c >= b THEN c - b ELSE c + Word - b
    BY Bounds DEF Since, Ticks
  <2>4. (a + 1) % Word \in Ticks
    BY <2>2, Bounds DEF Ticks
  <2> QED BY <1>2, <2>1, <2>2, <2>3, <2>4, Bounds DEF Ticks
<1> QED BY <1>1, <1>2

\* Fewer late timers are fewer in number.
LEMMA FewerLate ==
    ASSUME OftenPolled, NEW A \in SUBSET Timers, NEW B \in SUBSET A
    PROVE  /\ Cardinality(A) \in Nat /\ Cardinality(B) \in Nat
           /\ Cardinality(B) <= Cardinality(A) /\ Cardinality(A) <= Cardinality(Timers)
           /\ \A t \in A \ B : Cardinality(B) < Cardinality(A)
<1>1. IsFiniteSet(Timers) /\ IsFiniteSet(A) /\ IsFiniteSet(B)
    BY FS_Subset DEF OftenPolled
<1>2. /\ Cardinality(A) \in Nat /\ Cardinality(B) \in Nat
      /\ Cardinality(B) <= Cardinality(A) /\ Cardinality(A) <= Cardinality(Timers)
    BY <1>1, FS_Subset, FS_CardinalityType
<1>3. ASSUME NEW t \in A \ B PROVE Cardinality(B) < Cardinality(A)
    BY <1>1, <1>2, <1>3, FS_Subset
<1> QED BY <1>2, <1>3

\* A step of an owner, or an expiry: one timer is started now, or is stopped.
LEMMA OneTime ==
    ASSUME OftenPolled, TimeInv, ListInv', NEW t \in Timers, UNCHANGED ticks,
           \A u \in Timers : u # t => /\ tm'[u] = tm[u] /\ waited'[u] = waited[u]
                                     /\ rushed'[u] = rushed[u],
           tm'[t].running => tm'[t].start = ticks /\ waited'[t] = 0 /\ rushed'[t] = 0,
           ~rush' => ~rush /\ (tm'[t].running => tm'[t].timeout > 0),
           polls' \in Nat,
           polls' = polls \/ (polls' <= polls + 1 /\ t \in Late)
    PROVE  TimeInv'
<1>0. /\ tm' \in [Timers -> Record] /\ ticks \in Ticks /\ polls \in Nat
    BY Bounds DEF TimeInv, ListInv, TypeOK, Record
<1>1. tm'[t].running => Since(ticks, tm'[t].start) = 0 /\ tm'[t].timeout \in Nat
  <2>1. tm'[t].timeout \in Nat
    BY <1>0, Bounds DEF Record, Ticks
  <2> QED BY Zenon, <1>0, <2>1, SinceSteps
<1>2. Clock'
    BY <1>0, <1>1 DEF Clock, TimeInv
<1>3. InTime'
    BY <1>0, <1>1 DEF InTime, TimeInv
<1>4. ASSUME ~rush' PROVE Enough'
  <2>1. ~Overdue(t)' /\ \A u \in Timers : u # t => (Overdue(u)' <=> Overdue(u))
    BY <1>0, <1>1, <1>4 DEF Overdue
  <2>2. Late \in SUBSET Timers /\ Late' \in SUBSET Late /\ t \notin Late'
    BY Zenon, <2>1 DEF Late
  <2> DEFINE A == Late
             B == Late'
  <2>3. /\ Cardinality(A) \in Nat /\ Cardinality(B) \in Nat /\ Cardinality(B) <= Cardinality(A)
        /\ t \in A => Cardinality(B) < Cardinality(A)
    BY <2>2, FewerLate
  <2>4. Cardinality(A) + polls <= PollsPerTick
    BY <1>4 DEF TimeInv, Enough
  <2> HIDE DEF A, B
  <2>5. Cardinality(B) + polls' <= PollsPerTick
    BY <1>0, <2>3, <2>4, Bounds DEF A
  <2> QED BY <2>5 DEF Enough, B
<1>5. Enough'
    BY Zenon, <1>4 DEF Enough
<1> QED BY <1>2, <1>3, <1>5 DEF TimeInv

\* A tick: without a rush nothing was late before, so nothing is later than now.
LEMMA TickTime ==
    ASSUME OftenPolled, TimeInv, ListInv', Tick
    PROVE  TimeInv'
<1>0. /\ tm \in [Timers -> Record] /\ ticks \in Ticks /\ waited \in [Timers -> Ticks]
      /\ rushed \in [Timers -> Nat] /\ rush \in BOOLEAN
      /\ polls = PollsPerTick /\ polls' = 0 /\ UNCHANGED tm /\ ticks' = (ticks + 1) % Word
      /\ \A t \in Timers : tm[t].running =>
            /\ waited[t] < Word - 1 /\ waited'[t] = waited[t] + 1
            /\ rushed'[t] = IF rush THEN rushed[t] + 1 ELSE rushed[t]
    BY DEF TimeInv, ListInv, TypeOK, Record, Tick
<1>1. \A t \in Timers : /\ tm[t].start \in Ticks /\ tm[t].timeout \in Nat
                        /\ waited[t] \in Nat /\ rushed[t] \in Nat
    BY <1>0, Bounds DEF Record, Ticks
<1>2. ~rush => Late = {}
  <2>1. Late \in SUBSET Timers /\ {} \in SUBSET Late
    BY DEF Late
  <2>2. Cardinality(Late) \in Nat /\ Cardinality({}) \in Nat
        /\ \A t \in Late : Cardinality({}) < Cardinality(Late)
    BY <2>1, FewerLate
  <2>3. ~rush => Cardinality(Late) + PollsPerTick <= PollsPerTick
    BY <1>0 DEF TimeInv, Enough
  <2> QED BY <2>2, <2>3, Bounds
<1>3. \A t \in Timers : tm[t].running => waited[t] = Since(ticks, tm[t].start)
    BY Zenon DEF Clock, TimeInv
<1>4. Clock'
    BY <1>0, <1>1, <1>3, SinceSteps DEF Clock, TimeInv
<1>5. InTime'
  <2>1. ASSUME NEW t \in Timers, tm[t].running
        PROVE  waited[t] + 1 <= tm[t].timeout + (IF rush THEN rushed[t] + 1 ELSE rushed[t])
    <3>1. CASE rush
      BY <1>1, <2>1, <3>1 DEF InTime, TimeInv
    <3>2. CASE ~rush
      <4>1. ~Overdue(t)
        BY Zenon, <1>2, <3>2 DEF Late
      <4>2. waited[t] < tm[t].timeout
        BY <1>1, <1>3, <2>1, <4>1 DEF Overdue
      <4> QED BY <1>1, <3>2, <4>2
    <3> QED BY <1>0, <3>1, <3>2
  <2> QED BY <1>0, <2>1 DEF InTime
<1>6. Enough'
  <2>1. Late' \in SUBSET Timers
    BY DEF Late
  <2>2. Cardinality(Late') \in Nat /\ Cardinality(Late') <= Cardinality(Timers)
    BY <2>1, FewerLate
  <2> QED BY <1>0, <2>2, Bounds, FS_CardinalityType DEF Enough, OftenPolled
<1> QED BY <1>4, <1>5, <1>6 DEF TimeInv

\* The other steps.
LEMMA OtherTime ==
    ASSUME OftenPolled, TimeInv, ListInv', Rest \/ Return \/ UNCHANGED vars
    PROVE  TimeInv'
<1>1. UNCHANGED <<ticks, tm, waited, rush, rushed>>
    BY DEF Rest, Return, vars
<1>2. Clock' /\ InTime' /\ Late' = Late
    BY Zenon, <1>1 DEF TimeInv, Clock, InTime, Late, Overdue, Since
<1>3. CASE UNCHANGED polls
    BY <1>1, <1>2, <1>3 DEF TimeInv, Enough
<1>4. CASE Rest
  <2>1. Late = {}
    BY <1>4 DEF Rest, Late
  <2>2. Cardinality({}) = 0
    BY FS_EmptySet
  <2>3. polls' \in 0..PollsPerTick
    BY DEF ListInv, TypeOK
  <2> QED BY <1>2, <2>1, <2>2, <2>3, Bounds DEF TimeInv, Enough
<1> QED BY <1>3, <1>4 DEF Return, vars

\* The invariant of the clock is inductive.
LEMMA TimeStep == ASSUME OftenPolled, TimeInv, [Next]_vars PROVE TimeInv'
<1>0. /\ ListInv /\ ListInv' /\ tm \in [Timers -> Record] /\ ticks \in Ticks
      /\ waited \in [Timers -> Ticks] /\ polls \in 0..PollsPerTick
      /\ rushed \in [Timers -> Nat]
    BY Zenon, ListStep DEF TimeInv, ListInv, TypeOK, Record
<1>1. ASSUME NEW t \in Timers, NEW v \in Ticks, Arm(t, v) PROVE TimeInv'
  <2>1. tm[t] \in Record /\ tm' = [tm EXCEPT ![t] = start_timer_fixed(tm[t], v)]
    BY <1>0, <1>1 DEF Arm
  <2>2. tm'[t] = start_timer_fixed(tm[t], v) /\ \A u \in Timers : u # t => tm'[u] = tm[u]
    BY <1>0, <2>1
  <2>3. tm'[t].start = ticks /\ tm'[t].timeout = v
    BY <1>0, <2>1, <2>2, Starting
  <2>4. /\ UNCHANGED <<ticks, polls>> /\ waited'[t] = 0 /\ rushed'[t] = 0
        /\ \A u \in Timers : u # t => waited'[u] = waited[u] /\ rushed'[u] = rushed[u]
    BY <1>0, <1>1 DEF Arm
  <2>5. ~rush' => ~rush /\ v # 0
    BY Zenon, <1>1 DEF Arm
  <2>6. v # 0 => v > 0
    BY Bounds DEF Ticks
  <2> QED BY <1>0, <1>1, <2>2, <2>3, <2>4, <2>5, <2>6, OneTime, Bounds
<1>2. ASSUME NEW t \in Timers, Start(t) PROVE TimeInv'
    BY <1>0, <1>1, <1>2, RoundingUp DEF Start
<1>3. ASSUME NEW t \in Timers, StartFixed(t) PROVE TimeInv'
  <2>1. PICK v \in Fixed : Arm(t, v)
    BY <1>3 DEF StartFixed
  <2>2. v \in Ticks
    BY Bounds
  <2> QED BY <1>1, <2>1, <2>2
<1>4. ASSUME NEW t \in Timers, Stop(t) PROVE TimeInv'
  <2>1. ~tm'[t].running
    BY <1>0, <1>4, StopList
  <2>2. /\ UNCHANGED <<ticks, polls, rush>>
        /\ \A u \in Timers : u # t => /\ tm'[u] = tm[u] /\ waited'[u] = waited[u]
                                     /\ rushed'[u] = rushed[u]
    BY <1>0, <1>4 DEF Stop
  <2> QED BY <1>0, <2>1, <2>2, OneTime, Bounds
<1>5. ASSUME NEW t \in Timers, Expire(t) PROVE TimeInv'
  <2>1. ~tm'[t].running
    BY <1>0, <1>5, ExpireList
  <2>2. /\ UNCHANGED <<ticks, rush>> /\ t \in Late
        /\ \A u \in Timers : u # t => /\ tm'[u] = tm[u] /\ waited'[u] = waited[u]
                                     /\ rushed'[u] = rushed[u]
    BY <1>0, <1>5 DEF Expire, Late
  <2>3. polls' \in Nat /\ polls' <= polls + 1
    BY <1>0, <1>5, Bounds DEF Expire, Polled
  <2> QED BY <1>0, <2>1, <2>2, <2>3, OneTime
<1>6. CASE Tick
    BY <1>0, <1>6, TickTime
<1>7. CASE Rest \/ Return \/ UNCHANGED vars
    BY <1>0, <1>7, OtherTime
<1> QED BY Zenon, <1>2, <1>3, <1>4, <1>5, <1>6, <1>7 DEF Next, Owner, retry_poll

\* Every timer expires when its timeout has passed and not before, also when the
\* tick counter of retry_poll wraps round in between, and within the tick in
\* which it is due, put off by one tick for each in which an owner has started a
\* timer without delay: for every number of timers, and every timeout, zero
\* included, when retry_poll runs in each tick as often as there are timers.
THEOREM Punctual == ASSUME OftenPolled PROVE Spec => []OnTime
<1>1. Init => TimeInv
  <2> SUFFICES ASSUME Init PROVE TimeInv
    OBVIOUS
  <2>1. \A t \in Timers : ~tm[t].running
    BY DEF Init, Stopped0
  <2>2. Clock /\ InTime
    BY Zenon, <2>1 DEF Clock, InTime
  <2>3. Late = {}
    BY Zenon, <2>1 DEF Late, Overdue
  <2>4. Enough
    BY <2>3, FS_EmptySet, Bounds DEF Init, Enough
  <2> QED BY <2>2, <2>4, ListInit DEF TimeInv
<1>2. TimeInv /\ [Next]_vars => TimeInv'
    BY TimeStep
<1>3. TimeInv => OnTime
  <2> SUFFICES ASSUME TimeInv, NEW t \in Timers
               PROVE  /\ Overdue(t) => waited[t] >= tm[t].timeout
                      /\ tm[t].running => waited[t] <= tm[t].timeout + rushed[t]
    BY DEF OnTime
  <2> QED BY DEF TimeInv, Clock, InTime, Overdue
<1> QED BY <1>1, <1>2, <1>3, PTL DEF Spec
=============================================================================
