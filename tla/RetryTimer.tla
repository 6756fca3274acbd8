----------------------------- MODULE RetryTimer -----------------------------
(***************************************************************************)
(* iPXE's retransmission timers (src/src/ipxe/src/net/retry.c), which TCP, *)
(* DHCP, TFTP, DNS, neighbour discovery and SAN devices share.             *)
(*                                                                         *)
(* The tick counter is an unsigned number modulo Word.  retry_poll, run by *)
(* a permanent process, handles at most one expiry.  The callback of an    *)
(* expired timer belongs to its owner: between Expire and Return it may    *)
(* start and stop this timer and any other.  The start time of a stopped   *)
(* timer, which nothing reads, is kept at 0.                               *)
(***************************************************************************)
EXTENDS Naturals, Sequences, Functions

CONSTANTS Timers,
          Word,        \* bound: the tick counter is computed modulo Word
          MIN_TIMEOUT,
          MinTicks, MaxTicks,  \* timer->min and timer->max, or their defaults
          Fixed,       \* timeouts given to start_timer_fixed
          PollsPerTick,  \* bound: retry_poll runs at least this often in a tick
          MaxSmooth,   \* bound: no stop that would smooth a timeout beyond this
          MaxCount     \* bound: an owner gives up after MaxCount expiries

ASSUME RetryAssumption ==
    /\ Word \in Nat /\ {MIN_TIMEOUT, MinTicks, MaxTicks} \cup Fixed \subseteq 0..(Word - 2)
    /\ MIN_TIMEOUT > 0 /\ MaxSmooth < Word
    /\ {MaxCount, MaxSmooth, PollsPerTick} \subseteq Nat

VARIABLES
    ticks,    \* currticks()
    timers,   \* the list of running timers
    tm,       \* running, timeout, start and count of each timer
    fails,    \* the failure indicator of the last expiry of each timer
    refs,     \* references that the timer code holds to the owner
    expiring, \* the timer whose callback is running, if there is one
    waited,   \* history: the ticks that have passed since the timer was started
    rush,     \* history: a timer was started without delay in this tick
    rushed,   \* history: how many of the ticks waited had a rush
    polls     \* bound: polls since the last tick, up to PollsPerTick

vars == <<ticks, timers, tm, fails, refs, expiring, waited, rush, rushed, polls>>

Ticks == 0..(Word - 1)
Stopped0 == [running |-> FALSE, timeout |-> 0, start |-> 0, count |-> 0]

TypeOK ==
    /\ ticks \in Ticks
    /\ timers \in Seq(Timers)
    /\ tm \in [Timers -> [running : BOOLEAN, timeout : Ticks, start : Ticks,
                          count : 0..MaxCount]]
    /\ fails \in [Timers -> BOOLEAN]
    /\ refs \in [Timers -> 0..2]
    /\ expiring \in {{}} \cup {{t} : t \in Timers}
    /\ waited \in [Timers -> Ticks]
    /\ rush \in BOOLEAN
    /\ rushed \in [Timers -> Nat]
    /\ polls \in 0..PollsPerTick

Init ==
    /\ ticks \in Ticks
    /\ timers = <<>>
    /\ tm = [t \in Timers |-> Stopped0]
    /\ fails = [t \in Timers |-> FALSE]
    /\ refs = [t \in Timers |-> 0]
    /\ expiring = {}
    /\ waited = [t \in Timers |-> 0]
    /\ rush = FALSE
    /\ rushed = [t \in Timers |-> 0]
    /\ polls = 0

Larger(a, b) == IF a > b THEN a ELSE b

-----------------------------------------------------------------------------
(***************************************************************************)
(* What the functions do to one timer x, and to the list l.                *)
(***************************************************************************)

\* The counter is taken to have gone round when it is behind the start.
BadSince(now, start) == IF now >= start THEN now - start ELSE Word - 1

\* The difference of two readings of the tick counter.
Since(now, start) == (now + Word - start) % Word

start_timer_fixed(x, timeout) ==
    [x EXCEPT !.running = TRUE, !.start = ticks, !.timeout = timeout]

\* start_timer: the current timeout, rounded up to the minimum.
StartTimeout(x) == Larger(x.timeout, Larger(MinTicks, MIN_TIMEOUT))

\* A timer that is started again is put into the list again.
BadListed(l, t) == <<t>> \o l

\* list_add puts a timer that was not running at the head.
Listed(l, t) == IF tm[t].running THEN l ELSE <<t>> \o l

\* list_del takes it out, wherever it is.
Unlisted(l, t) ==
    LET n == CHOOSE i \in DOMAIN l : l[i] = t
    IN SubSeq(l, 1, n - 1) \o SubSeq(l, n + 1, Len(l))

\* The smoothed round-trip time, which a retransmission would distort.
stop_timer(x) ==
    IF ~x.running THEN x
    ELSE IF x.count > 0 THEN [x EXCEPT !.running = FALSE, !.start = 0, !.count = @ - 1]
    ELSE [x EXCEPT !.running = FALSE, !.start = 0,
                   !.timeout = (@ - (@ \div 8)) + Since(ticks, x.start) \div 2]

\* The timeout is doubled without a limit.
BadBackoff(x) ==
    [x EXCEPT !.running = FALSE, !.start = 0, !.count = @ + 1, !.timeout = 2 * @]

\* timer->timeout <<= 1.
Doubled(x) == (2 * x.timeout) % Word

\* timer_expired: stop without a round-trip time, and back off.
Backoff(x) ==
    [x EXCEPT !.running = FALSE, !.start = 0, !.count = @ + 1,
              !.timeout = IF Doubled(x) > MaxTicks THEN MaxTicks ELSE Doubled(x)]

\* The time of expiry is compared with the tick counter.
BadOverdue(t) == tm[t].running /\ ticks >= tm[t].start + tm[t].timeout

Overdue(t) == tm[t].running /\ Since(ticks, tm[t].start) >= tm[t].timeout

-----------------------------------------------------------------------------
Arm(t, timeout) ==
    /\ timers' = Listed(timers, t)
    /\ refs' = [refs EXCEPT ![t] = IF tm[t].running THEN @ ELSE @ + 1]
    /\ tm' = [tm EXCEPT ![t] = start_timer_fixed(@, timeout)]
    /\ waited' = [waited EXCEPT ![t] = 0]
    /\ rush' = (rush \/ timeout = 0)
    /\ rushed' = [rushed EXCEPT ![t] = 0]
    /\ UNCHANGED <<ticks, fails, expiring, polls>>

\* An owner starts its timer, running or not, in the callback of a timer or not.
Start(t) ==
    /\ tm[t].count < MaxCount
    /\ Arm(t, StartTimeout(tm[t]))

\* start_timer_fixed, and start_timer_nodelay with a timeout of 0.
StartFixed(t) ==
    /\ tm[t].count < MaxCount
    /\ \E v \in Fixed : Arm(t, v)

\* An owner stops its timer, as when an answer has come.
Stop(t) ==
    /\ tm[t].running
    /\ stop_timer(tm[t]).timeout <= MaxSmooth
    /\ timers' = Unlisted(timers, t)
    /\ refs' = [refs EXCEPT ![t] = @ - 1]
    /\ tm' = [tm EXCEPT ![t] = stop_timer(@)]
    /\ waited' = [waited EXCEPT ![t] = 0]
    /\ rushed' = [rushed EXCEPT ![t] = 0]
    /\ UNCHANGED <<ticks, fails, expiring, rush, polls>>

Polled == polls' = IF polls < PollsPerTick THEN polls + 1 ELSE polls

\* retry_poll with an overdue timer: the first in the list is stopped and backs
\* off, and its callback is called.
Expire(t) ==
    /\ expiring = {}
    /\ \E i \in DOMAIN timers :
          timers[i] = t /\ Overdue(t) /\ \A j \in 1..(i - 1) : ~Overdue(timers[j])
    /\ timers' = Unlisted(timers, t)
    /\ tm' = [tm EXCEPT ![t] = Backoff(@)]
    /\ fails' = [fails EXCEPT ![t] = Doubled(tm[t]) > MaxTicks]
    /\ waited' = [waited EXCEPT ![t] = 0]
    /\ rushed' = [rushed EXCEPT ![t] = 0]
    /\ expiring' = {t}
    /\ Polled
    /\ UNCHANGED <<ticks, refs, rush>>

\* The callback returns, and timer_expired puts the reference of the list entry
\* that has expired; a restart has taken its own.
Return ==
    /\ expiring # {}
    /\ refs' = [t \in Timers |-> IF t \in expiring THEN refs[t] - 1 ELSE refs[t]]
    /\ expiring' = {}
    /\ UNCHANGED <<ticks, timers, tm, fails, waited, rush, rushed, polls>>

\* retry_poll with nothing to do.
Rest ==
    /\ expiring = {}
    /\ \A t \in Timers : ~Overdue(t)
    /\ Polled
    /\ UNCHANGED <<ticks, timers, tm, fails, refs, expiring, waited, rush, rushed>>

retry_poll == Rest \/ Return \/ \E t \in Timers : Expire(t)

\* The tick counter advances; no timer waits while it goes round once.
Tick ==
    /\ polls = PollsPerTick
    /\ \A t \in Timers : tm[t].running => waited[t] < Word - 1
    /\ ticks' = (ticks + 1) % Word
    /\ waited' = [t \in Timers |-> IF tm[t].running THEN waited[t] + 1 ELSE waited[t]]
    /\ rushed' = [t \in Timers |-> IF tm[t].running /\ rush THEN rushed[t] + 1 ELSE rushed[t]]
    /\ rush' = FALSE
    /\ polls' = 0
    /\ UNCHANGED <<timers, tm, fails, refs, expiring>>

Owner(t) == Start(t) \/ StartFixed(t) \/ Stop(t)

Next == retry_poll \/ Tick \/ \E t \in Timers : Owner(t)

Spec == Init /\ [][Next]_vars /\ WF_vars(retry_poll) /\ WF_vars(Tick)

-----------------------------------------------------------------------------
(***************************************************************************)
(* Properties.                                                             *)
(***************************************************************************)

\* The list holds the running timers, each once, and there is a reference to the
\* owner for each entry of the list and for a callback that runs: whichever
\* timers a callback restarts and stops, no timer is lost, entered twice, or left
\* in the list after its owner may have been freed.
ListExact ==
    /\ \A t \in Timers : tm[t].running <=> t \in Range(timers)
    /\ IsInjective(timers)
    /\ \A t \in Timers : refs[t] = (IF tm[t].running THEN 1 ELSE 0)
                                     + (IF t \in expiring THEN 1 ELSE 0)

\* A timer expires when its timeout has really passed, also when the tick
\* counter wraps round in between, and is handled within the tick in which it
\* is due, in front of or behind other timers in the list.  A timer that is
\* started without delay is overdue at once, and goes to the head of the list:
\* each tick in which one is started puts off the others, and the one started
\* after the last poll of the tick, by one tick and no more.
OnTime ==
    \A t \in Timers :
        /\ Overdue(t) => waited[t] >= tm[t].timeout
        /\ tm[t].running => waited[t] <= tm[t].timeout + rushed[t]

\* "The theoretical minimum that the algorithm in stop_timer() can adjust the
\* timeout back down to is seven ticks": a timeout of seven ticks or more falls
\* below that only by start_timer_fixed, by a maximum below seven ticks, or when
\* doubling it overflows.
SevenTicks ==
    [][\A t \in Timers : (tm[t].timeout >= 7 /\ tm'[t].timeout < 7)
                            => \/ tm'[t].timeout \in Fixed /\ tm'[t].running
                               \/ MaxTicks < 7
                               \/ 2 * tm[t].timeout >= Word]_vars

\* "If stop_timer() is not called before the timer expires, the timer will be
\* stopped and the timer's callback function will be called": a running timer
\* is restarted, stopped or expires; the newer timers in front of it in the
\* list do not starve it, unless in every tick from some time on one of them is
\* started without delay.
Expires ==
    []<>(~rush /\ polls = PollsPerTick)
        => \A t \in Timers : tm[t].running ~> (waited[t] = 0 \/ ~tm[t].running)
=============================================================================
