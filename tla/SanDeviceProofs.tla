--------------------------- MODULE SanDeviceProofs ---------------------------
(***************************************************************************)
(* The SAN device for every number of paths, every number of retries and   *)
(* every length of a command and of a call: its lists of paths, the        *)
(* assertions of sanboot.c, and what a read or write that succeeds has     *)
(* moved.                                                                  *)
(***************************************************************************)
EXTENDS SanDevice, TLAPS

\* What is in a concatenation.
LEMMA Joined ==
    ASSUME NEW S, NEW s \in Seq(S), NEW t \in Seq(S)
    PROVE  /\ s \o t \in Seq(S)
           /\ Len(s \o t) = Len(s) + Len(t)
           /\ \A i \in 1..(Len(s) + Len(t)) :
                 (s \o t)[i] = IF i <= Len(s) THEN s[i] ELSE t[i - Len(s)]
OBVIOUS

\* The empty sequence is a sequence over every set.
LEMMA EmptySeq ==
    ASSUME NEW S
    PROVE  <<>> \in Seq(S)
OBVIOUS

-----------------------------------------------------------------------------
(***************************************************************************)
(* The lists of paths.                                                     *)
(***************************************************************************)

\* list_del of an entry of the list.
LEMMA Removing ==
    ASSUME NEW S, NEW l \in Seq(S), IsInjective(l), NEW t \in Range(l)
    PROVE  /\ Unlisted(l, t) \in Seq(S) /\ IsInjective(Unlisted(l, t))
           /\ Range(Unlisted(l, t)) = Range(l) \ {t}
<1> DEFINE n == CHOOSE i \in DOMAIN l : l[i] = t
           r == SubSeq(l, 1, n - 1) \o SubSeq(l, n + 1, Len(l))
           at(i) == IF i < n THEN i ELSE i + 1
<1>1. n \in DOMAIN l /\ l[n] = t
    BY DEF Range
<1> HIDE DEF n
<1>2. Len(l) \in Nat /\ DOMAIN l = 1..Len(l) /\ \A i \in 1..Len(l) : l[i] \in S
    OBVIOUS
<1>3. r \in Seq(S) /\ Len(r) = Len(l) - 1 /\ DOMAIN r = 1..Len(r)
    BY <1>1, <1>2
<1>4. ASSUME NEW i \in 1..(Len(l) - 1) PROVE r[i] = l[at(i)]
  <2> DEFINE a == SubSeq(l, 1, n - 1)
             b == SubSeq(l, n + 1, Len(l))
  <2>1. a \in Seq(S) /\ Len(a) = n - 1 /\ b \in Seq(S) /\ Len(b) = Len(l) - n
    BY <1>1, <1>2
  <2>2. (i < n => a[i] = l[i]) /\ (i >= n => b[i - (n - 1)] = l[i + 1])
    <3>1. ASSUME i < n PROVE a[i] = l[i]
      BY <1>1, <1>2, <3>1
    <3>2. ASSUME i >= n PROVE b[i - (n - 1)] = l[i + 1]
      <4>1. i - (n - 1) \in 1..(Len(l) - n) /\ (i - (n - 1)) + n = i + 1
        BY <1>1, <1>2, <3>2
      <4> QED BY <1>1, <1>2, <4>1
    <3> QED BY Zenon, <3>1, <3>2
  <2> HIDE DEF a, b
  <2>3. (a \o b)[i] = IF i <= Len(a) THEN a[i] ELSE b[i - Len(a)]
    BY <1>1, <1>2, <1>4, <2>1, Joined
  <2>4. r = a \o b
    BY DEF a, b
  <2> HIDE DEF r
  <2> QED BY <1>1, <1>2, <2>1, <2>2, <2>3, <2>4
<1> HIDE DEF r
<1>5. \A i \in DOMAIN r : r[i] = l[at(i)] /\ at(i) \in DOMAIN l /\ at(i) # n /\ i \in Int
    BY <1>1, <1>2, <1>3, <1>4
<1>6. \A i, j \in Int : at(i) = at(j) => i = j
    BY <1>1, <1>2
<1>7. \A i \in DOMAIN l : i # n => \E j \in DOMAIN r : at(j) = i
  <2> SUFFICES ASSUME NEW i \in DOMAIN l, i # n PROVE \E j \in DOMAIN r : at(j) = i
    OBVIOUS
  <2>1. CASE i < n
    BY <1>1, <1>2, <1>3, <2>1
  <2>2. CASE i > n
    <3>1. i - 1 \in DOMAIN r /\ at(i - 1) = i
      BY <1>1, <1>2, <1>3, <2>2
    <3> QED BY <3>1
  <2> QED BY <1>1, <1>2, <2>1, <2>2
<1> HIDE DEF at
<1>8. IsInjective(r)
    BY <1>5, <1>6 DEF IsInjective
<1>9. Range(r) = Range(l) \ {t}
    BY <1>1, <1>5, <1>7 DEF Range, IsInjective
<1>10. Unlisted(l, t) = r
    BY Zenon DEF Unlisted, r, n
<1> QED BY Zenon, <1>3, <1>8, <1>9, <1>10

\* list_add_tail.
LEMMA Adding ==
    ASSUME NEW S, NEW l \in Seq(S), IsInjective(l), NEW t \in S, t \notin Range(l)
    PROVE  /\ Append(l, t) \in Seq(S) /\ IsInjective(Append(l, t))
           /\ Range(Append(l, t)) = Range(l) \cup {t}
<1> DEFINE r == Append(l, t)
           n == Len(l)
<1>1. /\ r \in Seq(S) /\ Len(r) = n + 1 /\ n \in Nat /\ DOMAIN l = 1..n /\ DOMAIN r = 1..(n + 1)
    OBVIOUS
<1>2. r[n + 1] = t /\ \A i \in 1..n : r[i] = l[i]
    OBVIOUS
<1> HIDE DEF r, n
<1>3. \A i \in DOMAIN r : i = n + 1 \/ (i \in DOMAIN l /\ r[i] = l[i])
    BY <1>1, <1>2
<1>4. IsInjective(r)
    BY <1>1, <1>2, <1>3 DEF IsInjective, Range
<1>5. Range(r) = Range(l) \cup {t}
  <2>1. \A x \in Range(r) : x \in Range(l) \cup {t}
    BY <1>2, <1>3 DEF Range
  <2>2. \A i \in DOMAIN l : l[i] \in Range(r)
    BY <1>1, <1>2 DEF Range
  <2>3. t \in Range(r)
    BY <1>1, <1>2 DEF Range
  <2> QED BY Zenon, <2>1, <2>2, <2>3 DEF Range
<1> QED BY <1>1, <1>4, <1>5 DEF r
\* The empty list.
LEMMA EmptyList == Range(<<>>) = {} /\ IsInjective(<<>>)
    BY DEF Range, IsInjective

\* list_add_tail of the entries of one list to another.
LEMMA Joining ==
    ASSUME NEW S, NEW l \in Seq(S), NEW m \in Seq(S), IsInjective(l), IsInjective(m),
           Range(l) \cap Range(m) = {}
    PROVE  /\ l \o m \in Seq(S) /\ IsInjective(l \o m)
           /\ Range(l \o m) = Range(l) \cup Range(m)
<1> DEFINE r == l \o m
<1>1. /\ Len(l) \in Nat /\ DOMAIN l = 1..Len(l) /\ Len(m) \in Nat /\ DOMAIN m = 1..Len(m)
      /\ r \in Seq(S) /\ Len(r) = Len(l) + Len(m) /\ DOMAIN r = 1..Len(r)
    OBVIOUS
<1>2. \A i \in DOMAIN r : r[i] = IF i <= Len(l) THEN l[i] ELSE m[i - Len(l)]
    BY <1>1, Joined
<1> HIDE DEF r
<1>3. \A i \in DOMAIN l : i \in DOMAIN r /\ r[i] = l[i]
    BY <1>1, <1>2
<1>4. \A i \in DOMAIN m : i + Len(l) \in DOMAIN r /\ r[i + Len(l)] = m[i]
    BY <1>1, <1>2
<1>5. \A i \in DOMAIN r : i \in DOMAIN l \/ (i > Len(l) /\ i - Len(l) \in DOMAIN m)
    BY <1>1
<1>6. IsInjective(r)
  <2> SUFFICES ASSUME NEW i \in DOMAIN r, NEW j \in DOMAIN r, r[i] = r[j] PROVE i = j
    BY DEF IsInjective
  <2>1. CASE i \in DOMAIN l /\ j \in DOMAIN l
    BY <1>3, <2>1 DEF IsInjective
  <2>2. CASE i \notin DOMAIN l /\ j \notin DOMAIN l
    BY <1>1, <1>2, <1>5, <2>2 DEF IsInjective
  <2>3. CASE i \in DOMAIN l /\ j \notin DOMAIN l
    <3>1. r[i] \in Range(l) /\ r[j] \in Range(m)
      BY <1>1, <1>2, <1>3, <1>5, <2>3 DEF Range
    <3> QED BY <3>1
  <2>4. CASE i \notin DOMAIN l /\ j \in DOMAIN l
    <3>1. r[j] \in Range(l) /\ r[i] \in Range(m)
      BY <1>1, <1>2, <1>3, <1>5, <2>4 DEF Range
    <3> QED BY <3>1
  <2> QED BY <2>1, <2>2, <2>3, <2>4
<1>7. Range(r) = Range(l) \cup Range(m)
  <2>1. \A i \in DOMAIN r : r[i] \in Range(l) \cup Range(m)
    BY <1>1, <1>2, <1>5 DEF Range
  <2>2. \A i \in DOMAIN l : l[i] \in Range(r)
    BY <1>3 DEF Range
  <2>3. \A i \in DOMAIN m : m[i] \in Range(r)
    BY <1>4 DEF Range
  <2> QED BY <2>1, <2>2, <2>3 DEF Range
<1> QED BY <1>1, <1>6, <1>7 DEF r

\* The first n entries of a list, and the rest of it.
LEMMA Splitting ==
    ASSUME NEW S, NEW l \in Seq(S), IsInjective(l), NEW n \in 0..Len(l)
    PROVE  LET a == SubSeq(l, 1, n)
               b == SubSeq(l, n + 1, Len(l)) IN
           /\ a \in Seq(S) /\ b \in Seq(S) /\ IsInjective(a) /\ IsInjective(b)
           /\ Len(a) = n /\ Len(b) = Len(l) - n
           /\ Range(a) \cap Range(b) = {} /\ Range(a) \cup Range(b) = Range(l)
<1> DEFINE a == SubSeq(l, 1, n)
           b == SubSeq(l, n + 1, Len(l))
<1>0. /\ Len(l) \in Nat /\ n \in Nat /\ n <= Len(l) /\ DOMAIN l = 1..Len(l)
      /\ \A j \in 1..Len(l) : l[j] \in S
    OBVIOUS
<1>1. /\ Len(l) \in Nat /\ n \in Nat /\ n <= Len(l) /\ DOMAIN l = 1..Len(l)
      /\ a \in Seq(S) /\ Len(a) = n /\ DOMAIN a = 1..n
      /\ b \in Seq(S) /\ Len(b) = Len(l) - n /\ DOMAIN b = 1..(Len(l) - n)
  <2>1. a \in Seq(S)
    OBVIOUS
  <2>2. b \in Seq(S)
    OBVIOUS
  <2>3. Len(a) = n
    OBVIOUS
  <2>4. Len(b) = Len(l) - n
    OBVIOUS
  <2> HIDE DEF a, b
  <2>5. DOMAIN a = 1..Len(a) /\ DOMAIN b = 1..Len(b)
    BY <2>1, <2>2
  <2> QED BY <1>0, <2>1, <2>2, <2>3, <2>4, <2>5
<1>2. /\ \A i \in DOMAIN a : i \in DOMAIN l /\ i <= n /\ a[i] = l[i]
      /\ \A i \in DOMAIN b : i + n \in DOMAIN l /\ i + n > n /\ b[i] = l[i + n] /\ i \in Int
  <2>1. ASSUME NEW i \in 1..n PROVE i \in 1..Len(l) /\ i <= n /\ a[i] = l[i]
    <3>1. i \in 1..Len(l) /\ i <= n
      BY <1>0
    <3>2. a[i] = l[i]
      BY <1>0
    <3> QED BY <3>1, <3>2
  <2>2. ASSUME NEW i \in 1..(Len(l) - n)
        PROVE  i + n \in 1..Len(l) /\ i + n > n /\ i \in Int /\ b[i] = l[i + n]
    <3>1. /\ \A j \in (n + 1)..Len(l) : l[j] \in S
          /\ n + 1 \in Int /\ Len(l) \in Int /\ i \in 1..(Len(l) - (n + 1) + 1)
      BY <1>0, <2>2
    <3>2. b[i] = l[(n + 1) + i - 1]
      BY <3>1
    <3> HIDE DEF b
    <3>3. (n + 1) + i - 1 = i + n
      BY <1>1, <2>2
    <3> QED BY <1>1, <2>2, <3>2, <3>3
  <2> HIDE DEF a, b
  <2> QED BY <1>1, <2>1, <2>2
<1> HIDE DEF a, b
<1>3. \A i \in DOMAIN l : i \in DOMAIN a \/ (i - n \in DOMAIN b /\ (i - n) + n = i)
    BY <1>1
<1>4. IsInjective(a)
    BY <1>2 DEF IsInjective
<1>5. IsInjective(b)
    BY <1>1, <1>2 DEF IsInjective
<1>6. Range(a) \cap Range(b) = {}
    BY <1>1, <1>2 DEF Range, IsInjective
<1>7. Range(a) \cup Range(b) = Range(l)
  <2>1. Range(a) \subseteq Range(l) /\ Range(b) \subseteq Range(l)
    BY <1>2 DEF Range
  <2>2. \A i \in DOMAIN l : l[i] \in Range(a) \cup Range(b)
    BY <1>2, <1>3 DEF Range
  <2> QED BY Zenon, <2>1, <2>2 DEF Range
<1> QED BY Zenon, <1>1, <1>4, <1>5, <1>6, <1>7 DEF a, b

-----------------------------------------------------------------------------
(***************************************************************************)
(* What the functions do to a device.                                      *)
(***************************************************************************)

\* The fields that only sessions change.
SameSessions(d, e) ==
    /\ e.paths = d.paths /\ e.opened = d.opened /\ e.closed = d.closed /\ e.active = d.active
    /\ e.path_rc = d.path_rc /\ e.window = d.window /\ e.process = d.process

\* The command is unplugged and its timer stopped.
LEMMA Closing ==
    ASSUME NEW d \in Device, NEW rc \in Rcs
    PROVE  LET e == sandev_command_close(d, rc) IN
           /\ e \in Device /\ SameSessions(d, e) /\ e.desc = d.desc /\ e.listed = d.listed
           /\ ~e.timer /\ e.cmds = {} /\ e.command_rc = rc
<1> DEFINE e == sandev_command_close(d, rc)
<1>1. e \in Device
    BY Zenon DEF sandev_command_close, Device
<1>2. SameSessions(d, e) /\ e.desc = d.desc /\ e.listed = d.listed
    BY Zenon DEF sandev_command_close, Device, SameSessions
<1>3. ~e.timer /\ e.cmds = {} /\ e.command_rc = rc
    BY Zenon DEF sandev_command_close, Device
<1> QED BY <1>1, <1>2, <1>3

\* The state of the sessions that every function of sanboot.c keeps: only opened
\* paths have a process, the active path is opened and its window is open, and a
\* command is plugged in only while a path is active and the timer runs.
Sessions(d) ==
    /\ \A p \in Paths : d.process[p] => p \in Range(d.opened)
    /\ d.active # 0 => d.active \in Range(d.opened) /\ d.window[d.active]
    /\ d.cmds # {} => d.active # 0 /\ d.timer

Shape(d) == d \in Device /\ Lists(d) /\ Sessions(d)

\* What is not about sessions stays.
SameDevice(d, e) == e.paths = d.paths /\ e.listed = d.listed /\ e.desc = d.desc

SameCommand(d, e) == e.timer = d.timer /\ e.cmds = d.cmds /\ e.command_rc = d.command_rc

NoCommand(e, rc) == ~e.timer /\ e.cmds = {} /\ e.command_rc = rc

\* sanpath_close of an opened path; the command goes with the active one.
LEMMA ClosingPath ==
    ASSUME NEW d, Shape(d), NEW p \in Range(d.opened), NEW rc \in Rcs
    PROVE  LET e == sanpath_close(d, p, rc) IN
           /\ Shape(e) /\ SameDevice(d, e)
           /\ e.path_rc = [d.path_rc EXCEPT ![p] = rc]
           /\ Range(e.opened) = Range(d.opened) \ {p}
           /\ IF p = d.active THEN e.active = 0 /\ NoCommand(e, rc)
              ELSE e.active = d.active /\ SameCommand(d, e)
<1> DEFINE c == [d EXCEPT !.path_rc[p] = rc,
                          !.opened = Unlisted(@, p),
                          !.closed = Append(Unlisted(@, p), p),
                          !.process[p] = FALSE,
                          !.window[p] = FALSE]
           a == [c EXCEPT !.active = 0]
           opened == Unlisted(d.opened, p)
           closed == Append(d.closed, p)
<1>1. d \in Device /\ Lists(d) /\ Sessions(d)
    BY DEF Shape
<1>2. /\ d.paths \in Paths /\ d.opened \in Seq(Paths) /\ d.closed \in Seq(Paths)
      /\ d.path_rc \in [Paths -> Rcs] /\ d.window \in [Paths -> BOOLEAN]
      /\ d.process \in [Paths -> BOOLEAN]
    BY <1>1 DEF Device
<1>3. p \in Paths /\ p \notin Range(d.closed)
  <2>1. p \in Paths
    BY <1>2 DEF Range
  <2> QED BY Zenon, <1>1, <2>1 DEF Lists
<1>4. /\ opened \in Seq(Paths) /\ IsInjective(opened)
      /\ Range(opened) = Range(d.opened) \ {p}
    BY <1>1, <1>2, Removing DEF Lists
<1>5. /\ closed \in Seq(Paths) /\ IsInjective(closed)
      /\ Range(closed) = Range(d.closed) \cup {p}
    BY <1>1, <1>2, <1>3, Adding DEF Lists
<1>6. Append(Unlisted(d.closed, p), p) = closed
    BY <1>3 DEF Unlisted
<1> HIDE DEF opened, closed
<1>7. /\ c \in Device /\ SameDevice(d, c) /\ SameCommand(d, c) /\ c.active = d.active
      /\ c.opened = opened /\ c.closed = closed
      /\ c.path_rc = [d.path_rc EXCEPT ![p] = rc]
      /\ c.process = [d.process EXCEPT ![p] = FALSE]
      /\ c.window = [d.window EXCEPT ![p] = FALSE]
  <2>1. c.opened = opened /\ c.closed = closed
    BY <1>1, <1>6 DEF Device, opened
  <2>2. c.path_rc = [d.path_rc EXCEPT ![p] = rc] /\ c.process = [d.process EXCEPT ![p] = FALSE]
    BY Zenon, <1>1 DEF Device
  <2>3. c.window = [d.window EXCEPT ![p] = FALSE] /\ c.active = d.active
    BY Zenon, <1>1 DEF Device
  <2>4. SameDevice(d, c) /\ SameCommand(d, c)
    BY Zenon, <1>1 DEF Device, SameDevice, SameCommand
  <2>5. c \in Device
    BY Zenon, <1>1, <1>2, <1>3, <1>4, <1>5, <1>6 DEF Device, opened
  <2> QED BY <2>1, <2>2, <2>3, <2>4, <2>5
<1> HIDE DEF c
<1>8. Lists(c)
    BY <1>1, <1>3, <1>4, <1>5, <1>7 DEF Lists, SameDevice
<1>9. \A q \in Paths : c.process[q] => q \in Range(c.opened)
    BY Zenon, <1>1, <1>2, <1>4, <1>7 DEF Sessions
<1>10. CASE p # d.active
  <2>1. sanpath_close(d, p, rc) = c
    BY <1>10 DEF sanpath_close, c
  <2>2. c.active # 0 => c.active \in Range(c.opened) /\ c.window[c.active]
    <3> SUFFICES ASSUME d.active # 0 PROVE d.active \in Range(c.opened) /\ c.window[d.active]
      BY <1>7
    <3>1. d.active \in Range(d.opened) /\ d.window[d.active]
      BY <1>1 DEF Sessions
    <3>2. d.active \in Paths
      BY <1>2, <3>1 DEF Range
    <3> QED BY Zenon, <1>2, <1>4, <1>7, <1>10, <3>1, <3>2
  <2>3. c.cmds # {} => c.active # 0 /\ c.timer
    BY Zenon, <1>1, <1>7 DEF Sessions, SameCommand
  <2>4. Shape(c)
    BY Zenon, <1>7, <1>8, <1>9, <2>2, <2>3 DEF Shape, Sessions
  <2> QED BY <1>4, <1>7, <1>10, <2>1, <2>4
<1>11. CASE p = d.active
  <2> DEFINE e == sandev_command_close(a, rc)
  <2>1. sanpath_close(d, p, rc) = e
    BY <1>11 DEF sanpath_close, c
  <2>2. a \in Device
    BY Zenon, <1>7 DEF Device
  <2>3. /\ SameDevice(d, a) /\ a.active = 0 /\ a.opened = c.opened /\ a.closed = c.closed
        /\ a.path_rc = c.path_rc /\ a.process = c.process
    BY Zenon, <1>7 DEF Device, SameDevice
  <2> HIDE DEF a
  <2>4. /\ e \in Device /\ SameSessions(a, e) /\ e.desc = a.desc /\ e.listed = a.listed
        /\ NoCommand(e, rc)
    BY Zenon, <2>2, Closing DEF NoCommand
  <2> HIDE DEF e
  <2>5. /\ SameDevice(d, e) /\ e.active = 0 /\ e.opened = c.opened /\ e.closed = c.closed
        /\ e.path_rc = c.path_rc /\ e.process = c.process /\ e.paths = c.paths
    BY <1>7, <2>3, <2>4 DEF SameSessions, SameDevice
  <2>6. Lists(e)
    BY <1>8, <2>5 DEF Lists
  <2>7. Sessions(e)
    BY Zenon, <1>9, <2>4, <2>5 DEF Sessions, NoCommand
  <2>8. Shape(e)
    BY <2>4, <2>6, <2>7 DEF Shape
  <2> QED BY <1>4, <1>7, <1>11, <2>1, <2>4, <2>5, <2>8
<1> QED BY <1>10, <1>11

\* sanpath_step of an opened path: a path becomes the active one, or is closed as
\* a spare, which takes a second path.
LEMMA Stepped ==
    ASSUME NEW d, Shape(d), NEW p \in Range(d.opened)
    PROVE  LET e == sanpath_step(d, p) IN
           /\ Shape(e) /\ SameDevice(d, e) /\ SameCommand(d, e)
           /\ d.active # 0 => e.active = d.active
           /\ d.paths = 1 => Range(e.opened) = Range(d.opened)
<1> DEFINE ok == [d.path_rc EXCEPT ![p] = "ok"]
           f == [d EXCEPT !.path_rc[p] = "ok", !.active = p]
           g == [d EXCEPT !.path_rc[p] = "ok"]
           e == sanpath_step(d, p)
<1>1. d \in Device /\ Lists(d) /\ Sessions(d)
    BY DEF Shape
<1>2. p \in Paths /\ "ok" \in Rcs /\ p # 0 /\ p \in 1..d.paths
    BY <1>1, SanAssumption DEF Device, Range, Rcs, Lists, Paths
<1>3. CASE p = d.active \/ ~d.window[p]
  <2>1. e = d
    BY <1>3 DEF sanpath_step
  <2> QED BY <2>1 DEF SameDevice, SameCommand
<1>4. CASE p # d.active /\ d.window[p] /\ d.active = 0
  <2>1. e = f
    BY <1>4 DEF sanpath_step
  <2>2. f \in Device
    BY Zenon, <1>1, <1>2 DEF Device
  <2>3. /\ SameDevice(d, f) /\ SameCommand(d, f) /\ f.active = p /\ f.opened = d.opened
        /\ f.closed = d.closed /\ f.process = d.process /\ f.window = d.window
    BY Zenon, <1>1 DEF Device, SameDevice, SameCommand
  <2> HIDE DEF f
  <2>4. Lists(f)
    BY <1>1, <2>3 DEF Lists, SameDevice
  <2>5. Sessions(f)
    BY Zenon, <1>1, <1>2, <1>4, <2>3 DEF Sessions, SameCommand
  <2> QED BY <1>4, <2>1, <2>2, <2>3, <2>4, <2>5 DEF Shape
<1>5. CASE p # d.active /\ d.window[p] /\ d.active # 0
  <2>1. e = sanpath_close(g, p, "ok")
    BY <1>5 DEF sanpath_step
  <2>2. g \in Device
    BY Zenon, <1>1, <1>2 DEF Device
  <2>3. /\ SameDevice(d, g) /\ SameCommand(d, g) /\ g.active = d.active /\ g.opened = d.opened
        /\ g.closed = d.closed /\ g.process = d.process /\ g.window = d.window
    BY Zenon, <1>1 DEF Device, SameDevice, SameCommand
  <2> HIDE DEF g
  <2>4. Lists(g)
    BY <1>1, <2>3 DEF Lists, SameDevice
  <2>5. Sessions(g)
    BY Zenon, <1>1, <2>3 DEF Sessions, SameCommand
  <2>6. Shape(g)
    BY <2>2, <2>4, <2>5 DEF Shape
  <2>7. Shape(e) /\ SameDevice(g, e) /\ e.active = g.active /\ SameCommand(g, e)
    <3>1. p \in Range(g.opened) /\ p # g.active
      BY <1>5, <2>3
    <3> DEFINE x == sanpath_close(g, p, "ok")
    <3>2. /\ Shape(x) /\ SameDevice(g, x)
          /\ IF p = g.active THEN x.active = 0 /\ NoCommand(x, "ok")
             ELSE x.active = g.active /\ SameCommand(g, x)
      BY Zenon, <1>2, <2>6, <3>1, ClosingPath
    <3> HIDE DEF e, x
    <3>3. e = x
      BY <2>1 DEF x
    <3> QED BY <3>1, <3>2, <3>3
  <2>8. d.paths # 1
    <3>1. d.active \in 1..d.paths
      BY <1>1, <1>5 DEF Sessions, Lists
    <3> QED BY <1>2, <1>5, <3>1 DEF Paths
  <2> QED BY <2>3, <2>7, <2>8 DEF SameDevice, SameCommand
<1> QED BY <1>3, <1>4, <1>5

\* sandev_restart: all sessions end, and the command with them.
LEMMA Restarting ==
    ASSUME NEW d, Shape(d), NEW rc \in Rcs
    PROVE  LET e == sandev_restart(d, rc) IN
           /\ Shape(e) /\ SameDevice(d, e) /\ NoCommand(e, rc)
           /\ e.opened = <<>> /\ e.active = 0
<1> DEFINE was == Range(d.opened)
           closed == d.closed \o d.opened
           path_rc == [p \in Paths |-> IF p \in was THEN rc ELSE d.path_rc[p]]
           process == [p \in Paths |-> p \notin was /\ d.process[p]]
           window == [p \in Paths |-> p \notin was /\ d.window[p]]
           c == [d EXCEPT !.opened = <<>>, !.closed = closed, !.active = 0,
                          !.path_rc = path_rc, !.process = process, !.window = window]
           e == sandev_command_close(c, rc)
<1>1. d \in Device /\ Lists(d) /\ Sessions(d)
    BY DEF Shape
<1>2. /\ d.paths \in Paths /\ d.opened \in Seq(Paths) /\ d.closed \in Seq(Paths)
      /\ d.path_rc \in [Paths -> Rcs]
    BY <1>1 DEF Device
<1>3. closed \in Seq(Paths) /\ IsInjective(closed) /\ Range(closed) = 1..d.paths
  <2>1. /\ IsInjective(d.opened) /\ IsInjective(d.closed)
        /\ Range(d.closed) \cap Range(d.opened) = {}
        /\ Range(d.closed) \cup Range(d.opened) = 1..d.paths
    BY <1>1 DEF Lists
  <2>2. /\ closed \in Seq(Paths) /\ IsInjective(closed)
        /\ Range(closed) = Range(d.closed) \cup Range(d.opened)
    <3> DEFINE l == d.closed
               m == d.opened
    <3>1. /\ l \in Seq(Paths) /\ m \in Seq(Paths) /\ IsInjective(l) /\ IsInjective(m)
          /\ Range(l) \cap Range(m) = {}
      BY <1>2, <2>1
    <3> HIDE DEF l, m
    <3>2. l \o m \in Seq(Paths) /\ IsInjective(l \o m) /\ Range(l \o m) = Range(l) \cup Range(m)
      BY <3>1, Joining
    <3> QED BY <3>2 DEF l, m
  <2> QED BY <2>1, <2>2
<1>5. /\ path_rc \in [Paths -> Rcs] /\ process \in [Paths -> BOOLEAN]
      /\ window \in [Paths -> BOOLEAN] /\ <<>> \in Seq(Paths)
    BY Zenon, <1>2, EmptySeq
<1>6. \A p \in Paths : ~process[p]
    BY Zenon, <1>1 DEF Sessions
<1>7. sandev_restart(d, rc) = e
    BY DEF sandev_restart
<1> HIDE DEF closed, path_rc, process, window
<1>8. c \in Device
    BY Zenon, <1>1, <1>3, <1>5 DEF Device
<1>9. /\ SameDevice(d, c) /\ c.opened = <<>> /\ c.closed = closed /\ c.active = 0
      /\ c.process = process
    BY Zenon, <1>1 DEF Device, SameDevice
<1> HIDE DEF c
<1>10. /\ e \in Device /\ SameSessions(c, e) /\ e.desc = c.desc /\ e.listed = c.listed
       /\ NoCommand(e, rc)
    BY Zenon, <1>8, Closing DEF NoCommand
<1> HIDE DEF e
<1>11. /\ SameDevice(d, e) /\ e.opened = <<>> /\ e.closed = closed /\ e.active = 0
       /\ e.process = process
    BY <1>9, <1>10 DEF SameSessions, SameDevice
<1>12. Lists(e)
    BY <1>3, <1>11, EmptyList DEF Lists, SameDevice
<1>13. Sessions(e)
    BY Zenon, <1>6, <1>10, <1>11 DEF Sessions, NoCommand
<1> QED BY <1>7, <1>10, <1>11, <1>12, <1>13 DEF Shape, SameDevice

\* The loop of sandev_reopen opens the first closed paths of a restarted device.
LEMMA Opening ==
    ASSUME NEW d, Shape(d), d.opened = <<>>, d.active = 0, NEW n \in 0..Len(d.closed),
           NEW desc \in [Paths -> {"partial", "full"}], NEW ready \in [Paths -> BOOLEAN]
    PROVE  LET e == sanpath_open(d, n, desc, ready) IN
           /\ Shape(e) /\ SameCommand(d, e) /\ e.paths = d.paths /\ e.listed = d.listed
           /\ Len(e.opened) = n /\ e.active = 0
<1> DEFINE opened == SubSeq(d.closed, 1, n)
           closed == SubSeq(d.closed, n + 1, Len(d.closed))
           new == Range(opened)
           descs == [p \in Paths |-> IF p \in new THEN desc[p] ELSE d.desc[p]]
           window == [p \in Paths |-> IF p \in new THEN ready[p] ELSE d.window[p]]
           process == [p \in Paths |-> p \in new \/ d.process[p]]
           path_rc == [p \in Paths |-> IF p \in new THEN "busy" ELSE d.path_rc[p]]
           e == [d EXCEPT !.opened = opened, !.closed = closed, !.desc = descs,
                          !.window = window, !.process = process, !.path_rc = path_rc]
<1>1. d \in Device /\ Lists(d) /\ Sessions(d)
    BY DEF Shape
<1>2. /\ d.paths \in Paths /\ d.closed \in Seq(Paths) /\ d.path_rc \in [Paths -> Rcs]
      /\ d.window \in [Paths -> BOOLEAN]
      /\ d.desc \in [Paths -> {"none", "partial", "full"}] /\ "busy" \in Rcs
    BY <1>1 DEF Device, Rcs
<1>3. Range(d.closed) = 1..d.paths /\ IsInjective(d.closed)
  <2>1. {} \cup Range(d.closed) = 1..d.paths /\ IsInjective(d.closed)
    BY Zenon, <1>1, EmptyList DEF Lists
  <2> QED BY <2>1
<1>4. /\ opened \in Seq(Paths) /\ IsInjective(opened) /\ closed \in Seq(Paths)
      /\ IsInjective(closed) /\ Range(opened) \cap Range(closed) = {}
      /\ Range(opened) \cup Range(closed) = 1..d.paths
    BY Zenon, <1>2, <1>3, Splitting
<1>5. Len(opened) = n
    BY <1>2
<1>6. d.opened \o opened = opened
    BY <1>4
<1>7. /\ descs \in [Paths -> {"none", "partial", "full"}] /\ window \in [Paths -> BOOLEAN]
      /\ process \in [Paths -> BOOLEAN] /\ path_rc \in [Paths -> Rcs]
  <2>1. \A p \in Paths : desc[p] \in {"none", "partial", "full"}
    BY Zenon
  <2> QED BY Zenon, <1>2, <2>1
<1>8. \A p \in Paths : ~d.process[p]
    BY Zenon, <1>1, EmptyList DEF Sessions
<1>9. \A p \in Paths : process[p] => p \in Range(opened)
    BY Zenon, <1>8
<1>10. sanpath_open(d, n, desc, ready) = e
    BY Zenon, <1>6 DEF sanpath_open
<1> HIDE DEF opened, closed, descs, window, process, path_rc
<1>11. e \in Device
    BY Zenon, <1>1, <1>4, <1>7 DEF Device
<1>12. /\ SameCommand(d, e) /\ e.paths = d.paths /\ e.listed = d.listed /\ e.opened = opened
       /\ e.closed = closed /\ e.active = 0 /\ e.process = process
    BY Zenon, <1>1 DEF Device, SameCommand
<1> HIDE DEF e
<1>13. Lists(e)
    BY <1>4, <1>12 DEF Lists
<1>14. Sessions(e)
    BY Zenon, <1>1, <1>9, <1>12 DEF Sessions, SameCommand
<1> QED BY <1>5, <1>10, <1>11, <1>12, <1>13, <1>14 DEF Shape

\* sandev_undescribe.
LEMMA Undescribing ==
    ASSUME NEW d, Shape(d)
    PROVE  LET e == sandev_undescribe(d) IN
           /\ Shape(e) /\ SameCommand(d, e) /\ SameSessions(d, e) /\ e.listed = d.listed
           /\ \A p \in Paths : e.desc[p] = "none"
<1> DEFINE e == sandev_undescribe(d)
<1>1. d \in Device /\ Lists(d) /\ Sessions(d)
    BY DEF Shape
<1>2. e \in Device /\ \A p \in Paths : e.desc[p] = "none"
    BY Zenon, <1>1 DEF sandev_undescribe, Device
<1>3. SameCommand(d, e) /\ SameSessions(d, e) /\ e.listed = d.listed
    BY Zenon, <1>1 DEF sandev_undescribe, Device, SameCommand, SameSessions
<1> HIDE DEF e
<1>4. Lists(e)
    BY <1>1, <1>3 DEF Lists, SameSessions
<1>5. Sessions(e)
    BY Zenon, <1>1, <1>3 DEF Sessions, SameSessions, SameCommand
<1> QED BY Zenon, <1>2, <1>3, <1>4, <1>5 DEF Shape, e

-----------------------------------------------------------------------------
(***************************************************************************)
(* The inductive invariant.                                                *)
(***************************************************************************)

\* The stages that move blocks, and those of register_sandev.
Moving == {"rw", "iso9660"}
Commands == Moving \cup {"capacity"}
Registering == {"reopen", "describe", "capacity", "iso9660"}

\* Where a call is and what it is at: the timer runs only in the loop that waits
\* for it, a device is registered once its registration is over, and a fragment
\* is a part of the blocks that remain.
Calls ==
    /\ dev.timer => pc = "command"
    /\ pc = "idle" <=> op.stage = "none"
    /\ pc # "idle" => (dev.listed <=> op.stage \notin Registering)
    /\ pc = "describe" <=> op.stage = "describe"
    /\ pc \in {"retry", "issue", "command", "delay"} => op.stage \in Commands
    /\ op.retries > SanRetries => pc = "delay"
    /\ op.stage \notin Commands => op.retries = 0
    /\ IF op.stage \in Moving
       THEN /\ op.count = Smaller(MaxCount, op.remaining) /\ op.remaining > 0
            /\ op.lba + op.remaining <= MaxBlocks
       ELSE op.count = 0 /\ op.remaining = 0

\* A device that is not registered is shut down.
ShutDown ==
    (pc = "idle" /\ ~dev.listed) => dev.opened = <<>> /\ \A p \in Paths : dev.desc[p] = "none"

\* A single path is never closed as a spare, so sandev_reopen never takes its
\* status for a success.
OnePath ==
    dev.paths = 1 =>
        /\ (pc = "open" /\ dev.opened = <<>>) => dev.path_rc[1] # "ok"
        /\ pc = "issue" => dev.active # 0
        /\ pc # "asserted"

\* The command that is plugged in is for the current fragment.  The fragments
\* before it have been moved, and it has when it ended well.
Progress ==
    /\ \A c \in dev.cmds : c.lba = op.lba /\ c.count = op.count
    /\ op.stage \in Moving =>
          /\ 0..(op.lba - 1) \subseteq moved
          /\ moved \subseteq 0..(op.lba + op.count - 1)
          /\ (pc = "command" /\ ~dev.timer /\ dev.command_rc = "ok")
                => moved = 0..(op.lba + op.count - 1)

SanInv == TypeOK /\ Sessions(dev) /\ Calls /\ ShutDown /\ OnePath /\ Progress

\* A device as alloc_sandev makes it.
LEMMA Allocated ==
    ASSUME NEW n \in Paths
    PROVE  LET e == alloc_sandev(n) IN
           /\ Shape(e) /\ ~e.timer /\ e.cmds = {} /\ ~e.listed /\ e.opened = <<>>
           /\ \A p \in Paths : e.desc[p] = "none"
<1> DEFINE e == alloc_sandev(n)
           l == [i \in 1..n |-> i]
<1>1. n \in Nat /\ 1..n \subseteq Paths
    BY SanAssumption DEF Paths
<1>2. l \in Seq(Paths) /\ IsInjective(l) /\ Range(l) = 1..n
    BY <1>1 DEF IsInjective, Range
<1>3. <<>> \in Seq(Paths) /\ "busy" \in Rcs /\ "ok" \in Rcs
    BY DEF Rcs
<1>4. /\ e.paths = n /\ e.opened = <<>> /\ e.closed = l /\ e.active = 0 /\ ~e.timer
      /\ e.cmds = {} /\ ~e.listed /\ \A p \in Paths : ~e.process[p] /\ e.desc[p] = "none"
    BY Zenon DEF alloc_sandev
<1> HIDE DEF l
<1>5. e \in Device
    BY Zenon, <1>2, <1>3 DEF alloc_sandev, Device, l
<1> HIDE DEF e
<1>6. Lists(e)
    BY <1>2, <1>4, EmptyList DEF Lists
<1>7. Sessions(e)
    BY Zenon, <1>4 DEF Sessions
<1> QED BY <1>4, <1>5, <1>6, <1>7 DEF Shape, e

\* The invariant holds at the start.
LEMMA SanInit == Init => SanInv
<1> SUFFICES ASSUME Init PROVE SanInv
    OBVIOUS
<1>1. /\ Shape(dev) /\ ~dev.timer /\ dev.cmds = {} /\ ~dev.listed /\ dev.opened = <<>>
      /\ \A p \in Paths : dev.desc[p] = "none"
    BY Zenon, Allocated DEF Init
<1>2. TypeOK
    BY <1>1, SanAssumption DEF Init, TypeOK, Shape, NoOp, Stages, Rcs
<1>3. Calls
    BY <1>1, SanAssumption DEF Init, Calls, NoOp, Moving, Commands, Registering
<1>4. ShutDown /\ OnePath /\ Progress
    BY <1>1 DEF Init, ShutDown, OnePath, Progress, NoOp, Moving
<1> QED BY <1>1, <1>2, <1>3, <1>4 DEF SanInv, Shape

-----------------------------------------------------------------------------
(***************************************************************************)
(* The ways a call goes on.                                                *)
(***************************************************************************)

\* What stays of a device while a call is under way.
Same(d) == Shape(d) /\ d.paths = dev.paths /\ d.listed = dev.listed

\* A call that fails leaves a registered device, or one that is shut down.
LEMMA Failing ==
    ASSUME SanInv, pc # "idle", NEW d, Same(d), ~d.timer, NEW rc \in Rcs, Failed(d, rc)
    PROVE  SanInv'
<1> DEFINE r == sandev_restart(d, rc)
           u == sandev_undescribe(r)
<1>1. Shape(d) /\ d.listed = dev.listed
    BY DEF Same
<1>2. Shape(r) /\ SameDevice(d, r) /\ NoCommand(r, rc) /\ r.opened = <<>>
    BY Zenon, <1>1, Restarting
<1> HIDE DEF r
<1>3. /\ Shape(u) /\ SameCommand(r, u) /\ SameSessions(r, u) /\ u.listed = r.listed
      /\ \A p \in Paths : u.desc[p] = "none"
    BY Zenon, <1>2, Undescribing
<1> HIDE DEF u
<1>4. /\ dev' = IF op.stage \in Registering THEN u ELSE d
      /\ pc' = "idle" /\ op' = NoOp /\ result' = rc
    BY DEF Failed, Registering, r, u
<1>5. /\ Shape(dev)' /\ ~dev'.timer
      /\ ~dev'.listed => dev'.opened = <<>> /\ \A p \in Paths : dev'.desc[p] = "none"
  <2>1. CASE op.stage \in Registering
    BY <1>2, <1>3, <1>4, <2>1 DEF SameCommand, SameSessions, NoCommand
  <2>2. CASE op.stage \notin Registering
    <3>1. d.listed
      BY <1>1, <2>2 DEF SanInv, Calls
    <3> QED BY <1>1, <1>4, <2>2, <3>1
  <2> QED BY <2>1, <2>2
<1>6. TypeOK'
    BY <1>4, <1>5, SanAssumption DEF TypeOK, Shape, NoOp, Stages, Rcs
<1>7. Calls'
    BY <1>4, <1>5, SanAssumption DEF Calls, NoOp, Moving, Commands, Registering
<1>8. ShutDown' /\ OnePath'
    BY <1>4, <1>5 DEF ShutDown, OnePath
<1>9. Progress'
    BY <1>4, <1>5 DEF Progress, NoOp, Moving, Shape, Sessions
<1> QED BY <1>5, <1>6, <1>7, <1>8, <1>9 DEF SanInv, Shape

\* A command without a timer has ended.
LEMMA NoTimer == ASSUME SanInv, ~dev.timer PROVE dev.cmds = {}
    BY DEF SanInv, Sessions

\* Another try, or the call fails.
LEMMA TryingAgain ==
    ASSUME SanInv, pc \in {"issue", "command", "delay"}, ~dev.timer,
           NEW n \in 0..(SanRetries + 1), NEW rc \in Rcs, Again(dev, n, rc)
    PROVE  SanInv'
<1>1. CASE n > SanRetries
  <2>1. Failed(dev, rc)
    BY <1>1 DEF Again
  <2>2. Same(dev)
    BY DEF Same, SanInv, TypeOK, Shape
  <2> QED BY <2>1, <2>2, Failing
<1>2. CASE ~(n > SanRetries)
  <2>1. /\ dev' = dev /\ op' = [op EXCEPT !.retries = n] /\ pc' = "retry" /\ result' = result
        /\ moved' = moved
    BY <1>2 DEF Again
  <2>2. op.stage \in Commands /\ op.stage \in Stages
    BY DEF SanInv, Calls, TypeOK
  <2>3. /\ op'.stage = op.stage /\ op'.retries = n /\ op'.lba = op.lba /\ op'.count = op.count
        /\ op'.remaining = op.remaining
    BY <2>1 DEF SanInv, TypeOK
  <2>4. TypeOK'
    BY <2>1 DEF SanInv, TypeOK
  <2>5. Calls'
    BY <1>2, <2>1, <2>2, <2>3, SanAssumption DEF SanInv, Calls, Commands, Moving
  <2>6. ShutDown' /\ OnePath'
    BY <2>1 DEF SanInv, ShutDown, OnePath
  <2>7. Progress'
    BY <2>1, <2>3 DEF SanInv, Progress
  <2> QED BY <2>1, <2>4, <2>5, <2>6, <2>7 DEF SanInv
<1> QED BY <1>1, <1>2

\* sandev_reopen has failed.
LEMMA ReopenFailing ==
    ASSUME SanInv, pc \in {"reopen", "open"}, NEW d, Same(d), ~d.timer, NEW rc \in Rcs,
           ReopenFails(d, rc)
    PROVE  SanInv'
<1>1. CASE op.stage \in {"reopen", "reset"}
  <2>1. Failed(d, rc)
    BY <1>1 DEF ReopenFails
  <2> QED BY <2>1, Failing
<1>2. CASE op.stage \notin {"reopen", "reset"}
  <2> DEFINE n == IF dev.paths <= 1 THEN op.retries + 1 ELSE op.retries
  <2>1. /\ dev' = d /\ op' = [op EXCEPT !.retries = n] /\ pc' = "delay" /\ result' = result
        /\ moved' = moved
    BY <1>2 DEF ReopenFails
  <2>2. op.stage \in Commands /\ op.stage \in Stages
    BY <1>2 DEF SanInv, Calls, TypeOK, Stages, Commands, Moving
  <2>3. n \in 0..(SanRetries + 1)
    BY SanAssumption DEF SanInv, Calls, TypeOK
  <2> HIDE DEF n
  <2>4. /\ op'.stage = op.stage /\ op'.retries = n /\ op'.lba = op.lba /\ op'.count = op.count
        /\ op'.remaining = op.remaining
    BY <2>1 DEF SanInv, TypeOK
  <2>5. d.cmds = {}
    BY DEF Same, Shape, Sessions
  <2>6. TypeOK'
    BY <2>1, <2>3 DEF SanInv, TypeOK, Same, Shape, Waits
  <2>7. Calls'
    BY <2>1, <2>2, <2>4, SanAssumption DEF SanInv, Calls, Commands, Moving, Same
  <2>8. ShutDown' /\ OnePath'
    BY <2>1 DEF SanInv, ShutDown, OnePath
  <2>9. Progress'
    BY <2>1, <2>4, <2>5 DEF SanInv, Progress
  <2> QED BY <2>1, <2>6, <2>7, <2>8, <2>9 DEF SanInv, Same, Shape
<1> QED BY <1>1, <1>2

\* sandev_reopen has returned 0.
LEMMA Reopening ==
    ASSUME SanInv, pc = "open", Same(dev'), ~dev'.timer, dev.paths = 1 => dev'.active # 0,
           NEW rc \in Rcs, Reopened(rc)
    PROVE  SanInv'
<1>1. Shape(dev') /\ dev'.paths = dev.paths /\ dev'.listed = dev.listed /\ moved' = moved
    BY DEF Same, Reopened
<1>2. dev'.cmds = {}
    BY <1>1 DEF Shape, Sessions
<1>3. op.stage \in Stages \ {"none", "describe"}
    BY DEF SanInv, TypeOK, Calls
<1>4. CASE op.stage = "reset"
  <2>1. pc' = "idle" /\ op' = NoOp /\ result' = rc /\ dev.listed
    BY <1>4 DEF Reopened, SanInv, Calls, Registering
  <2>2. TypeOK'
    BY <1>1, <2>1, SanAssumption DEF TypeOK, Shape, NoOp, Stages
  <2>3. Calls'
    BY <1>1, <2>1, SanAssumption DEF Calls, NoOp, Moving, Commands, Registering
  <2>4. ShutDown' /\ OnePath' /\ Progress'
    BY <1>1, <1>2, <2>1 DEF ShutDown, OnePath, Progress, NoOp, Moving
  <2> QED BY <1>1, <2>2, <2>3, <2>4 DEF SanInv, Shape
<1>5. CASE op.stage = "reopen"
  <2>1. pc' = "describe" /\ op' = [op EXCEPT !.stage = "describe"] /\ result' = result
    BY <1>5 DEF Reopened
  <2>2. /\ op'.stage = "describe" /\ op'.retries = op.retries /\ op'.lba = op.lba
        /\ op'.count = op.count /\ op'.remaining = op.remaining
    BY <2>1 DEF SanInv, TypeOK
  <2>3. TypeOK'
    BY <1>1, <2>1 DEF SanInv, TypeOK, Shape, Stages, Waits
  <2>4. Calls'
    BY <1>1, <1>5, <2>1, <2>2, SanAssumption DEF SanInv, Calls, Moving, Commands, Registering
  <2>5. ShutDown' /\ OnePath' /\ Progress'
    BY <1>1, <1>2, <2>1, <2>2 DEF ShutDown, OnePath, Progress, Moving
  <2> QED BY <1>1, <2>3, <2>4, <2>5 DEF SanInv, Shape
<1>6. CASE op.stage \notin {"reset", "reopen"}
  <2>1. pc' = "issue" /\ op' = op /\ result' = result
    BY <1>6 DEF Reopened
  <2>2. op.stage \in Commands
    BY <1>3, <1>6 DEF Stages, Commands, Moving
  <2>3. TypeOK'
    BY <1>1, <2>1 DEF SanInv, TypeOK, Shape
  <2>4. Calls'
    BY <1>1, <2>1, <2>2 DEF SanInv, Calls, Commands, Moving
  <2>5. ShutDown' /\ OnePath' /\ Progress'
    BY <1>1, <1>2, <2>1 DEF SanInv, ShutDown, OnePath, Progress
  <2> QED BY <1>1, <2>3, <2>4, <2>5 DEF SanInv, Shape
<1> QED BY <1>4, <1>5, <1>6

\* register_sandev is over.
LEMMA Registered ==
    ASSUME SanInv, pc = "command", ~dev.timer, Register
    PROVE  SanInv'
<1>1. dev' = [dev EXCEPT !.listed = TRUE] /\ op' = NoOp /\ pc' = "idle" /\ result' = "ok"
    BY DEF Register
<1>2. dev \in Device /\ Lists(dev) /\ Sessions(dev)
    BY DEF SanInv, TypeOK
<1>3. dev' \in Device /\ dev'.listed /\ SameSessions(dev, dev') /\ SameCommand(dev, dev')
    BY Zenon, <1>1, <1>2 DEF Device, SameSessions, SameCommand
<1>4. Lists(dev')
    BY <1>2, <1>3 DEF Lists, SameSessions
<1>5. Sessions(dev')
    BY Zenon, <1>2, <1>3 DEF Sessions, SameSessions, SameCommand
<1>6. dev'.cmds = {} /\ ~dev'.timer
    BY <1>3, NoTimer DEF SameCommand
<1>7. TypeOK'
    BY <1>1, <1>3, <1>4, SanAssumption DEF TypeOK, NoOp, Stages, Rcs
<1>8. Calls'
    BY <1>1, <1>3, <1>6, SanAssumption DEF Calls, NoOp, Moving, Commands, Registering
<1>9. ShutDown' /\ OnePath' /\ Progress'
    BY <1>1, <1>3, <1>6 DEF ShutDown, OnePath, Progress, NoOp, Moving
<1> QED BY <1>5, <1>7, <1>8, <1>9 DEF SanInv

-----------------------------------------------------------------------------
(***************************************************************************)
(* The calls of the firmware.                                              *)
(***************************************************************************)

\* Between two calls no command is under way.
LEMMA Resting == ASSUME SanInv, pc # "command" PROVE ~dev.timer /\ dev.cmds = {}
    BY NoTimer DEF SanInv, Calls

\* A new device; nothing is known of the one before.
LEMMA Register0 == SanInv /\ register_sandev => SanInv'
<1> SUFFICES ASSUME SanInv, register_sandev PROVE SanInv'
    OBVIOUS
<1>1. CASE ~dev.listed
  <2>1. /\ pc' = "reopen" /\ op' = [NoOp EXCEPT !.stage = "reopen"] /\ result' = result
        /\ moved' = moved
    BY <1>1 DEF register_sandev
  <2>2. Shape(dev') /\ ~dev'.timer /\ dev'.cmds = {} /\ ~dev'.listed
    BY Zenon, <1>1, Allocated DEF register_sandev
  <2>3. TypeOK'
    BY <2>1, <2>2, SanAssumption DEF SanInv, TypeOK, Shape, NoOp, Stages
  <2>4. Calls'
    BY <2>1, <2>2, SanAssumption DEF Calls, NoOp, Moving, Commands, Registering
  <2>5. ShutDown' /\ OnePath' /\ Progress'
    BY <2>1, <2>2 DEF ShutDown, OnePath, Progress, NoOp, Moving
  <2> QED BY <2>2, <2>3, <2>4, <2>5 DEF SanInv, Shape
<1>2. CASE dev.listed
  <2>1. /\ dev' = dev /\ pc' = pc /\ op' = op /\ moved' = moved /\ pc = "idle"
        /\ result' = "err"
    BY <1>2 DEF register_sandev
  <2>2. TypeOK'
    BY <2>1 DEF SanInv, TypeOK, Rcs
  <2>3. Calls' /\ ShutDown' /\ OnePath' /\ Progress'
    BY <2>1 DEF SanInv, Calls, Commands, Registering, Moving, ShutDown, OnePath, Progress
  <2> QED BY <2>1, <2>2, <2>3 DEF SanInv
<1> QED BY <1>1, <1>2

\* A registered device is opened again.
LEMMA Reset0 == SanInv /\ sandev_reset => SanInv'
<1> SUFFICES ASSUME SanInv, sandev_reset PROVE SanInv'
    OBVIOUS
<1>1. /\ pc' = "reopen" /\ op' = [NoOp EXCEPT !.stage = "reset"] /\ result' = result
      /\ moved' = moved /\ dev' = dev /\ dev.listed /\ pc = "idle"
    BY DEF sandev_reset
<1>2. ~dev.timer /\ dev.cmds = {}
    BY <1>1, Resting
<1>3. TypeOK'
    BY <1>1, SanAssumption DEF SanInv, TypeOK, NoOp, Stages
<1>4. Calls'
    BY <1>1, <1>2, SanAssumption DEF Calls, NoOp, Moving, Commands, Registering
<1>5. ShutDown' /\ OnePath' /\ Progress'
    BY <1>1, <1>2 DEF ShutDown, OnePath, Progress, NoOp, Moving
<1> QED BY <1>1, <1>3, <1>4, <1>5 DEF SanInv

\* A fragment at lba of what remains, when all before it has been moved.
LEMMA Fragments ==
    ASSUME SanInv, dev' = dev, ~dev.timer, pc' = "retry", result' = result,
           NEW s \in Moving, NEW l \in Nat, NEW r \in Nat \ {0}, l + r <= MaxBlocks,
           op' = Fragment(s, l, r), moved' = 0..(l - 1), dev.listed <=> s # "iso9660"
    PROVE  SanInv'
<1>1. dev.cmds = {}
    BY NoTimer
<1>2. /\ op'.stage = s /\ op'.retries = 0 /\ op'.lba = l /\ op'.count = Smaller(MaxCount, r)
      /\ op'.remaining = r
    BY DEF Fragment
<1>3. Smaller(MaxCount, r) \in 1..MaxCount
    BY SanAssumption DEF Smaller
<1>4. TypeOK'
    BY <1>3, SanAssumption DEF SanInv, TypeOK, Fragment, Moving, Stages
<1>5. Calls'
    BY <1>2, SanAssumption DEF Calls, Moving, Commands, Registering
<1>6. ShutDown' /\ OnePath'
    BY DEF SanInv, ShutDown, OnePath
<1>7. Progress'
    BY <1>1, <1>2, <1>3, SanAssumption DEF Progress
<1> QED BY <1>4, <1>5, <1>6, <1>7 DEF SanInv

\* The first fragment of a read or write.
LEMMA Rw0 == SanInv /\ sandev_rw => SanInv'
<1> SUFFICES ASSUME SanInv, sandev_rw PROVE SanInv'
    OBVIOUS
<1>1. /\ pc' = "retry" /\ result' = result /\ moved' = {} /\ dev' = dev /\ dev.listed
      /\ pc = "idle"
    BY DEF sandev_rw
<1>2. PICK n \in 1..MaxBlocks : op' = Fragment("rw", 0, n)
    BY DEF sandev_rw
<1>3. ~dev.timer
    BY <1>1, Resting
<1>4. /\ "rw" \in Moving /\ "rw" # "iso9660" /\ n \in Nat \ {0} /\ 0 + n <= MaxBlocks
      /\ 0 \in Nat /\ moved' = 0..(0 - 1)
    BY <1>1, SanAssumption DEF Moving
<1> QED BY <1>1, <1>2, <1>3, <1>4, Fragments

\* The device is shut down.
LEMMA Unregister0 == SanInv /\ unregister_sandev => SanInv'
<1> SUFFICES ASSUME SanInv, unregister_sandev PROVE SanInv'
    OBVIOUS
<1> DEFINE d == [dev EXCEPT !.listed = FALSE]
           r == sandev_restart(d, "ok")
           u == sandev_undescribe(r)
<1>1. /\ dev' = u /\ pc' = pc /\ op' = op /\ result' = result /\ moved' = moved /\ pc = "idle"
    BY DEF unregister_sandev
<1>2. dev \in Device /\ Lists(dev) /\ Sessions(dev) /\ "ok" \in Rcs
    BY DEF SanInv, TypeOK, Rcs
<1>3. d \in Device /\ ~d.listed /\ SameSessions(dev, d) /\ SameCommand(dev, d)
    BY Zenon, <1>2 DEF Device, SameSessions, SameCommand
<1> HIDE DEF d
<1>4. Lists(d)
    BY <1>2, <1>3 DEF Lists, SameSessions
<1>5. Sessions(d)
    BY Zenon, <1>2, <1>3 DEF Sessions, SameSessions, SameCommand
<1>6. Shape(r) /\ SameDevice(d, r) /\ NoCommand(r, "ok") /\ r.opened = <<>>
  <2>1. Shape(d)
    BY <1>3, <1>4, <1>5 DEF Shape
  <2> QED BY Zenon, <1>2, <2>1, Restarting
<1> HIDE DEF r
<1>7. /\ Shape(u) /\ SameCommand(r, u) /\ SameSessions(r, u) /\ u.listed = r.listed
      /\ \A p \in Paths : u.desc[p] = "none"
    BY Zenon, <1>6, Undescribing
<1> HIDE DEF u
<1>8. /\ Shape(dev') /\ ~dev'.timer /\ dev'.cmds = {} /\ ~dev'.listed /\ dev'.opened = <<>>
      /\ \A p \in Paths : dev'.desc[p] = "none"
    BY <1>1, <1>3, <1>6, <1>7 DEF SameCommand, SameSessions, SameDevice, NoCommand
<1>9. TypeOK'
    BY <1>1, <1>8 DEF SanInv, TypeOK, Shape
<1>10. Calls'
    BY <1>1, <1>8 DEF SanInv, Calls
<1>11. ShutDown' /\ OnePath' /\ Progress'
    BY <1>1, <1>8 DEF SanInv, Calls, ShutDown, OnePath, Progress, Moving
<1> QED BY <1>8, <1>9, <1>10, <1>11 DEF SanInv, Shape

-----------------------------------------------------------------------------
(***************************************************************************)
(* The steps of the calls.                                                 *)
(***************************************************************************)

\* All paths are restarted, and opened until one fails.
LEMMA Reopen0 == SanInv /\ Reopen => SanInv'
<1> SUFFICES ASSUME SanInv, Reopen PROVE SanInv'
    OBVIOUS
<1> DEFINE clean == sandev_restart(dev, "err")
<1>1. pc = "reopen" /\ "err" \in Rcs /\ Shape(dev)
    BY DEF Reopen, Rcs, SanInv, TypeOK, Shape
<1>2. /\ Shape(clean) /\ SameDevice(dev, clean) /\ NoCommand(clean, "err")
      /\ clean.opened = <<>> /\ clean.active = 0
    BY Zenon, <1>1, Restarting
<1>3. PICK n \in 0..Len(clean.closed), desc \in [Paths -> {"partial", "full"}],
           ready \in [Paths -> BOOLEAN] :
        LET d == sanpath_open(clean, n, desc, ready)
        IN IF n < Len(clean.closed) THEN ReopenFails(sandev_restart(d, "err"), "err")
           ELSE dev' = d /\ pc' = "open" /\ UNCHANGED <<op, result, moved>>
    BY Zenon DEF Reopen
<1> HIDE DEF clean
<1> DEFINE d == sanpath_open(clean, n, desc, ready)
           r == sandev_restart(d, "err")
<1>4. /\ Shape(d) /\ SameCommand(clean, d) /\ d.paths = clean.paths /\ d.listed = clean.listed
      /\ Len(d.opened) = n
    BY Zenon, <1>2, Opening
<1>5. Same(d) /\ ~d.timer /\ d.cmds = {}
    BY <1>2, <1>4 DEF Same, SameDevice, SameCommand, NoCommand
<1>6. CASE n < Len(clean.closed)
  <2>1. ReopenFails(r, "err")
    BY Zenon, <1>3, <1>6
  <2> HIDE DEF d
  <2>2. Shape(r) /\ SameDevice(d, r) /\ NoCommand(r, "err")
    BY Zenon, <1>1, <1>4, Restarting
  <2> HIDE DEF r
  <2>3. Same(r) /\ ~r.timer
    BY <1>5, <2>2 DEF Same, SameDevice, NoCommand
  <2> QED BY <1>1, <2>1, <2>3, ReopenFailing
<1>7. CASE ~(n < Len(clean.closed))
  <2>1. dev' = d /\ pc' = "open" /\ op' = op /\ result' = result /\ moved' = moved
    BY Zenon, <1>3, <1>7
  <2> HIDE DEF d
  <2>2. d.opened # <<>>
    <3>1. clean.closed \in Seq(Paths) /\ clean.paths \in Nat \ {0}
      BY <1>2, SanAssumption DEF Shape, Device, Paths
    <3>2. 1 \in Range(clean.closed)
      <4>1. {} \cup Range(clean.closed) = 1..clean.paths
        BY Zenon, <1>2, EmptyList DEF Shape, Lists
      <4> QED BY <3>1, <4>1
    <3>3. Len(clean.closed) > 0
      BY <3>1, <3>2 DEF Range
    <3> QED BY <1>4, <1>7, <3>1, <3>3
  <2>3. TypeOK'
    BY <1>4, <2>1 DEF SanInv, TypeOK, Shape, Waits
  <2>4. Calls'
    BY <1>1, <1>5, <2>1 DEF SanInv, Calls, Same
  <2>5. ShutDown' /\ OnePath' /\ Progress'
    BY <1>5, <2>1, <2>2 DEF SanInv, ShutDown, OnePath, Progress
  <2> QED BY <1>4, <2>1, <2>3, <2>4, <2>5 DEF SanInv, Shape
<1> QED BY <1>6, <1>7

\* A path is active, or all are closed.
LEMMA OpenLoop0 == SanInv /\ OpenLoop => SanInv'
<1> SUFFICES ASSUME SanInv, OpenLoop PROVE SanInv'
    OBVIOUS
<1>1. pc = "open" /\ Shape(dev) /\ Same(dev) /\ "ok" \in Rcs
    BY DEF OpenLoop, SanInv, TypeOK, Shape, Same, Rcs
<1>2. ~dev.timer
    BY <1>1, Resting
<1>3. CASE dev.active # 0
  <2>1. Reopened("ok") /\ dev' = dev
    BY <1>3 DEF OpenLoop
  <2>2. Same(dev')
    BY <1>1, <2>1
  <2> QED BY <1>1, <1>2, <1>3, <2>1, <2>2, Reopening
<1>4. CASE dev.active = 0
  <2> DEFINE rc == dev.path_rc[Head(dev.closed)]
             d == sandev_restart(dev, rc)
  <2>1. /\ dev.opened = <<>>
        /\ IF rc = "ok" THEN Reopened(rc) /\ dev' = d ELSE ReopenFails(d, rc)
    BY <1>4 DEF OpenLoop
  <2>2. Range(dev.closed) = 1..dev.paths
    <3>1. {} \cup Range(dev.closed) = 1..dev.paths
      BY Zenon, <1>1, <2>1, EmptyList DEF Shape, Lists
    <3> QED BY <3>1
  <2>3. /\ dev.closed \in Seq(Paths) /\ dev.paths \in Nat \ {0}
        /\ dev.path_rc \in [Paths -> Rcs]
    BY <1>1, SanAssumption DEF Shape, Device, Paths
  <2>4. Head(dev.closed) \in 1..dev.paths /\ Head(dev.closed) \in Paths
    <3>1. dev.closed # <<>>
      BY <2>2, <2>3 DEF Range
    <3> QED BY <2>2, <2>3, <3>1 DEF Range
  <2>5. rc \in Rcs
    BY Zenon, <2>3, <2>4
  <2>6. dev.paths = 1 => rc # "ok"
    <3> SUFFICES ASSUME dev.paths = 1 PROVE rc # "ok"
      OBVIOUS
    <3>1. Head(dev.closed) = 1
      BY <2>4
    <3> QED BY <1>1, <2>1, <3>1 DEF SanInv, OnePath
  <2> HIDE DEF rc
  <2>7. Shape(d) /\ SameDevice(dev, d) /\ NoCommand(d, rc)
    BY Zenon, <1>1, <2>5, Restarting
  <2> HIDE DEF d
  <2>8. Same(d) /\ ~d.timer
    BY <2>7 DEF Same, SameDevice, NoCommand
  <2>9. CASE rc = "ok"
    <3>1. Same(dev') /\ ~dev'.timer /\ dev.paths # 1 /\ Reopened(rc)
      BY <2>1, <2>6, <2>8, <2>9
    <3> QED BY <1>1, <2>5, <3>1, Reopening
  <2>10. CASE rc # "ok"
    <3>1. ReopenFails(d, rc)
      BY <2>1, <2>10
    <3> QED BY <1>1, <2>5, <2>8, <3>1, ReopenFailing
  <2> QED BY <2>9, <2>10
<1> QED BY <1>3, <1>4

\* The descriptors are complete, or cannot become so.
LEMMA Describe0 == SanInv /\ Describe => SanInv'
<1> SUFFICES ASSUME SanInv, Describe PROVE SanInv'
    OBVIOUS
<1>1. pc = "describe" /\ Same(dev) /\ "err" \in Rcs
    BY DEF Describe, SanInv, TypeOK, Shape, Same, Rcs
<1>2. ~dev.timer /\ dev.cmds = {}
    BY <1>1, Resting
<1>3. CASE Failed(dev, "err")
    BY <1>1, <1>2, <1>3, Failing
<1>4. CASE /\ op' = [op EXCEPT !.stage = "capacity", !.retries = 0] /\ pc' = "retry"
           /\ dev' = dev /\ result' = result /\ moved' = moved
  <2>1. /\ op'.stage = "capacity" /\ op'.retries = 0 /\ op'.lba = op.lba /\ op'.count = op.count
        /\ op'.remaining = op.remaining /\ op.stage = "describe"
    BY <1>1, <1>4 DEF SanInv, TypeOK, Calls
  <2>2. TypeOK'
    <3>1. /\ "capacity" \in Stages /\ 0 \in 0..(SanRetries + 1) /\ pc' \in {"retry"}
      BY <1>4, SanAssumption DEF Stages
    <3> QED BY Zenon, <1>4, <3>1 DEF SanInv, TypeOK
  <2>3. Calls'
    BY <1>1, <1>2, <1>4, <2>1, SanAssumption DEF SanInv, Calls, Moving, Commands, Registering
  <2>4. ShutDown' /\ OnePath' /\ Progress'
    BY <1>2, <1>4, <2>1 DEF SanInv, ShutDown, OnePath, Progress, Moving
  <2> QED BY <1>4, <2>2, <2>3, <2>4 DEF SanInv
<1> QED BY <1>3, <1>4 DEF Describe

\* The pause of sandev_command is over.
LEMMA Delay0 == SanInv /\ DelayOver => SanInv'
<1> SUFFICES ASSUME SanInv, DelayOver PROVE SanInv'
    OBVIOUS
<1>1. pc = "delay" /\ Again(dev, op.retries, "err") /\ "err" \in Rcs
    BY DEF DelayOver, Rcs
<1>2. ~dev.timer /\ op.retries \in 0..(SanRetries + 1)
    BY <1>1, Resting DEF SanInv, TypeOK
<1> QED BY <1>1, <1>2, TryingAgain

\* The top of the loop of sandev_command.
LEMMA Retry0 == SanInv /\ Retry => SanInv'
<1> SUFFICES ASSUME SanInv, Retry PROVE SanInv'
    OBVIOUS
<1>1. /\ pc = "retry" /\ pc' = IF dev.active = 0 THEN "reopen" ELSE "issue"
      /\ dev' = dev /\ op' = op /\ result' = result /\ moved' = moved
    BY DEF Retry
<1>2. ~dev.timer
    BY <1>1, Resting
<1>3. op.stage \in Commands
    BY <1>1 DEF SanInv, Calls
<1>4. TypeOK'
    BY <1>1 DEF SanInv, TypeOK
<1>5. Calls'
    BY <1>1, <1>2, <1>3 DEF SanInv, Calls, Commands, Moving
<1>6. ShutDown' /\ OnePath' /\ Progress'
    BY <1>1 DEF SanInv, ShutDown, OnePath, Progress
<1> QED BY <1>1, <1>4, <1>5, <1>6 DEF SanInv

\* A command is issued on the active path.
LEMMA Issue0 == SanInv /\ Issue => SanInv'
<1> SUFFICES ASSUME SanInv, Issue PROVE SanInv'
    OBVIOUS
<1>1. pc = "issue" /\ "err" \in Rcs
    BY DEF Issue, Rcs
<1>2. ~dev.timer /\ dev.cmds = {}
    BY <1>1, Resting
<1>3. op.stage \in Commands /\ op.retries \in 0..SanRetries
    BY <1>1, SanAssumption DEF SanInv, Calls, TypeOK
<1>4. CASE dev.active = 0
  <2>1. /\ pc' = "asserted" /\ dev' = dev /\ op' = op /\ result' = result /\ moved' = moved
    BY <1>4 DEF Issue
  <2>2. TypeOK'
    BY <2>1 DEF SanInv, TypeOK
  <2>3. Calls'
    BY Zenon, <1>1, <1>2, <1>3, <2>1, SanAssumption DEF SanInv, Calls, Commands, Moving
  <2>4. ShutDown' /\ OnePath' /\ Progress'
    BY Zenon, <1>1, <1>4, <2>1 DEF SanInv, ShutDown, OnePath, Progress
  <2> QED BY <2>1, <2>2, <2>3, <2>4 DEF SanInv
<1>5. CASE dev.active # 0 /\ Again(dev, op.retries + 1, "err")
  <2>1. op.retries + 1 \in 0..(SanRetries + 1)
    BY <1>3, SanAssumption
  <2> QED BY <1>1, <1>2, <1>5, <2>1, TryingAgain
<1>6. CASE /\ dev.active # 0
           /\ dev' = [dev EXCEPT !.timer = TRUE,
                  !.cmds = @ \cup {[lba |-> op.lba, count |-> op.count, try |-> op.retries]}]
           /\ pc' = "command" /\ op' = op /\ result' = result /\ moved' = moved
  <2> DEFINE c == [lba |-> op.lba, count |-> op.count, try |-> op.retries]
             cs == dev.cmds \cup {c}
  <2>1. dev \in Device /\ Lists(dev) /\ Sessions(dev)
    BY DEF SanInv, TypeOK
  <2>2. cs \in SUBSET [lba : Nat, count : Nat, try : Nat]
    <3>1. op.lba \in Nat /\ op.count \in Nat /\ op.retries \in Nat
      BY SanAssumption DEF SanInv, TypeOK
    <3> QED BY <1>2, <3>1
  <2>3. \A x \in cs : x.lba = op.lba /\ x.count = op.count
    BY <1>2
  <2>4. dev' = [dev EXCEPT !.timer = TRUE, !.cmds = cs]
    BY Zenon, <1>6, <2>1 DEF Device
  <2> HIDE DEF c, cs
  <2>5. /\ dev' \in Device /\ SameSessions(dev, dev') /\ SameDevice(dev, dev') /\ dev'.timer
        /\ dev'.cmds = cs
    BY Zenon, <2>1, <2>2, <2>4 DEF Device, SameSessions, SameDevice
  <2>6. Lists(dev')
    BY Zenon, <2>1, <2>5 DEF Lists, SameSessions
  <2>7. Sessions(dev')
    BY Zenon, <1>6, <2>1, <2>5 DEF Sessions, SameSessions
  <2>8. TypeOK'
    BY <1>6, <2>5, <2>6 DEF SanInv, TypeOK, Waits
  <2>9. Calls'
    BY <1>1, <1>3, <1>6, <2>5, SanAssumption DEF SanInv, Calls, Commands, Moving, SameDevice
  <2>10. ShutDown' /\ OnePath'
    BY <1>6 DEF ShutDown, OnePath
  <2>11. Progress'
    BY <1>6, <2>3, <2>5 DEF SanInv, Progress
  <2> QED BY <2>7, <2>8, <2>9, <2>10, <2>11 DEF SanInv
<1> QED BY <1>4, <1>5, <1>6 DEF Issue

\* What a command that ended well has moved.
LEMMA FragmentMoved ==
    ASSUME SanInv, pc = "command", ~dev.timer, dev.command_rc = "ok", op.stage # "capacity"
    PROVE  /\ op.stage \in Moving /\ moved = 0..(op.lba + op.count - 1)
           /\ op.lba \in Nat /\ op.remaining \in Nat \ {0} /\ op.count \in 1..op.remaining
           /\ op.lba + op.remaining <= MaxBlocks
<1>1. op.stage \in Moving
    BY DEF SanInv, Calls, Commands, Moving
<1>2. moved = 0..(op.lba + op.count - 1)
    BY <1>1 DEF SanInv, Progress
<1>3. /\ op.lba \in Nat /\ op.remaining \in Nat \ {0} /\ op.lba + op.remaining <= MaxBlocks
      /\ op.count = Smaller(MaxCount, op.remaining)
    BY <1>1, SanAssumption DEF SanInv, Calls, TypeOK
<1>4. op.count \in 1..op.remaining
    BY <1>3, SanAssumption DEF Smaller
<1> QED BY <1>1, <1>2, <1>3, <1>4

\* A command has ended.
LEMMA CommandLoop0 == SanInv /\ CommandLoop => SanInv'
<1> SUFFICES ASSUME SanInv, CommandLoop PROVE SanInv'
    OBVIOUS
<1>1. pc = "command" /\ ~dev.timer /\ op.stage \in Commands /\ "err" \in Rcs
    BY DEF CommandLoop, SanInv, Calls, Rcs
<1>2. Same(dev) /\ dev.command_rc \in Rcs
    BY Zenon DEF SanInv, TypeOK, Shape, Same, Device
<1>3. CASE dev.command_rc # "ok"
  <2>1. Again(dev, op.retries + 1, dev.command_rc)
    BY <1>3 DEF CommandLoop
  <2>2. op.retries + 1 \in 0..(SanRetries + 1)
    BY <1>1, SanAssumption DEF SanInv, Calls, TypeOK
  <2> QED BY <1>1, <1>2, <2>1, <2>2, TryingAgain
<1>4. CASE dev.command_rc = "ok" /\ op.stage = "capacity"
  <2>1. ParseIso9660
    BY <1>4 DEF CommandLoop
  <2>2. CASE Register
    BY <1>1, <2>2, Registered
  <2>3. CASE Failed(dev, "err")
    BY <1>1, <1>2, <2>3, Failing
  <2>4. CASE /\ op' = Fragment("iso9660", 0, MaxBlocks) /\ pc' = "retry" /\ moved' = {}
             /\ dev' = dev /\ result' = result
    <3>1. /\ "iso9660" \in Moving /\ 0 \in Nat /\ MaxBlocks \in Nat \ {0}
          /\ 0 + MaxBlocks <= MaxBlocks /\ moved' = 0..(0 - 1)
      BY <2>4, SanAssumption DEF Moving
    <3>2. dev.listed <=> "iso9660" # "iso9660"
      BY <1>1, <1>4 DEF SanInv, Calls, Registering
    <3> QED BY <1>1, <2>4, <3>1, <3>2, Fragments
  <2> QED BY <2>1, <2>2, <2>3, <2>4 DEF ParseIso9660
<1>5. CASE dev.command_rc = "ok" /\ op.stage # "capacity"
  <2>1. NextFragment
    BY <1>5 DEF CommandLoop
  <2>2. /\ op.stage \in Moving /\ moved = 0..(op.lba + op.count - 1)
        /\ op.lba \in Nat /\ op.remaining \in Nat \ {0} /\ op.count \in 1..op.remaining
        /\ op.lba + op.remaining <= MaxBlocks
    BY <1>1, <1>5, FragmentMoved
  <2>3. CASE op.remaining = op.count /\ op.stage = "iso9660"
    BY <1>1, <2>1, <2>3, Registered DEF NextFragment
  <2>4. CASE op.remaining = op.count /\ op.stage # "iso9660"
    <3>1. op' = NoOp /\ pc' = "idle" /\ result' = "ok" /\ dev' = dev /\ moved' = moved
      BY <2>1, <2>4 DEF NextFragment
    <3>2. dev.cmds = {}
      BY <1>1, NoTimer
    <3>3. dev.listed
      BY <1>1, <2>2, <2>4 DEF SanInv, Calls, Moving, Registering
    <3>4. TypeOK'
      BY <3>1, SanAssumption DEF SanInv, TypeOK, NoOp, Stages, Rcs
    <3>5. Calls'
      BY <1>1, <3>1, SanAssumption DEF Calls, NoOp, Moving, Commands, Registering
    <3>6. ShutDown' /\ OnePath' /\ Progress'
      BY Zenon, <3>1, <3>2, <3>3 DEF ShutDown, OnePath, Progress, NoOp, Moving
    <3> QED BY <3>1, <3>4, <3>5, <3>6 DEF SanInv
  <2>5. CASE op.remaining # op.count
    <3> DEFINE l == op.lba + op.count
               r == op.remaining - op.count
    <3>1. /\ op' = Fragment(op.stage, l, r) /\ pc' = "retry" /\ dev' = dev
          /\ result' = result /\ moved' = moved
      BY <2>1, <2>5 DEF NextFragment
    <3>2. /\ l \in Nat /\ r \in Nat \ {0} /\ l + r <= MaxBlocks
          /\ moved' = 0..(l - 1)
      BY <2>2, <2>5, <3>1, SanAssumption
    <3>3. dev.listed <=> op.stage # "iso9660"
      BY Zenon, <1>1, <2>2 DEF SanInv, Calls, Moving, Registering
    <3> HIDE DEF l, r
    <3> QED BY Zenon, <1>1, <2>2, <3>1, <3>2, <3>3, Fragments
  <2> QED BY <2>3, <2>4, <2>5
<1> QED BY <1>3, <1>4, <1>5

-----------------------------------------------------------------------------
(***************************************************************************)
(* The events inside step().                                               *)
(***************************************************************************)

\* What an event has to keep.
LEMMA Event ==
    ASSUME SanInv, Stepping, Same(dev'), dev'.timer => dev.timer,
           \A c \in dev'.cmds : c \in dev.cmds,
           (pc = "idle" /\ ~dev.listed) => dev'.opened = <<>> /\ dev'.desc = dev.desc,
           (dev.paths = 1 /\ pc = "open" /\ dev'.opened = <<>>) => dev'.path_rc[1] # "ok",
           op.stage \in Moving =>
              /\ 0..(op.lba - 1) \subseteq moved'
              /\ moved' \subseteq 0..(op.lba + op.count - 1)
              /\ (pc = "command" /\ ~dev'.timer /\ dev'.command_rc = "ok")
                    => moved' = 0..(op.lba + op.count - 1)
    PROVE  SanInv'
<1>1. pc' = pc /\ op' = op /\ result' = result /\ pc \in Waits \cup {"idle"}
    BY DEF Stepping
<1>2. Shape(dev') /\ dev'.paths = dev.paths /\ dev'.listed = dev.listed
    BY Zenon DEF Same
<1>3. TypeOK'
    BY Zenon, <1>1, <1>2 DEF SanInv, TypeOK, Shape
<1>4. Calls'
    BY Zenon, <1>1, <1>2 DEF SanInv, Calls
<1>5. ShutDown' /\ OnePath'
    BY Zenon, <1>1, <1>2 DEF SanInv, ShutDown, OnePath, Waits
<1>6. Progress'
    BY Zenon, <1>1 DEF SanInv, Progress
<1> QED BY Zenon, <1>2, <1>3, <1>4, <1>5, <1>6 DEF SanInv, Shape

\* The sessions of a device with an opened path are not those of one shut down.
LEMMA NotShutDown ==
    ASSUME SanInv, NEW p \in Range(dev.opened)
    PROVE  ~(pc = "idle" /\ ~dev.listed)
    BY EmptyList DEF SanInv, ShutDown

\* sanpath_step is called for an opened path.
LEMMA PathStep ==
    ASSUME SanInv, Stepping, NEW p \in Range(dev.opened), NEW d, Shape(d), SameDevice(dev, d),
           SameCommand(dev, d), d.opened = dev.opened, dev' = sanpath_step(d, p), moved' = moved
    PROVE  SanInv'
<1>1. /\ Shape(dev') /\ SameDevice(d, dev') /\ SameCommand(d, dev')
      /\ d.paths = 1 => Range(dev'.opened) = Range(d.opened)
  <2>1. p \in Range(d.opened)
    OBVIOUS
  <2> QED BY Zenon, <2>1, Stepped
<1>2. Same(dev') /\ SameCommand(dev, dev')
    BY Zenon, <1>1 DEF Same, SameDevice, SameCommand
<1>3. dev.paths = 1 => dev'.opened # <<>>
    BY <1>1, EmptyList DEF SameDevice
<1> QED BY Zenon, <1>2, <1>3, NotShutDown, Event DEF SanInv, Progress, SameCommand

\* A session becomes ready.
LEMMA Window0 == ASSUME SanInv, NEW p \in Paths, WindowOpens(p) PROVE SanInv'
<1> DEFINE d == [dev EXCEPT !.window[p] = TRUE]
<1>1. Stepping /\ p \in Range(dev.opened) /\ dev' = sanpath_step(d, p) /\ moved' = moved
    BY DEF WindowOpens
<1>2. dev \in Device /\ Lists(dev) /\ Sessions(dev)
    BY DEF SanInv, TypeOK
<1>3. /\ d \in Device /\ SameDevice(dev, d) /\ SameCommand(dev, d) /\ d.opened = dev.opened
    BY Zenon, <1>2 DEF Device, SameDevice, SameCommand
<1>4. /\ d.closed = dev.closed /\ d.active = dev.active /\ d.process = dev.process
      /\ d.window = [dev.window EXCEPT ![p] = TRUE]
    BY Zenon, <1>2 DEF Device
<1> HIDE DEF d
<1>5. Lists(d)
    BY <1>2, <1>3, <1>4 DEF Lists, SameDevice
<1>6. dev.window[dev.active] /\ dev.active \in Paths => d.window[dev.active]
    BY Zenon, <1>2, <1>4 DEF Device
<1>7. Sessions(d)
  <2>1. \A q \in Paths : d.process[q] => q \in Range(d.opened)
    BY Zenon, <1>2, <1>3, <1>4 DEF Sessions
  <2>2. d.active # 0 => d.active \in Range(d.opened) /\ d.window[d.active]
    BY Zenon, <1>2, <1>3, <1>4, <1>6 DEF Sessions, Device
  <2>3. d.cmds # {} => d.active # 0 /\ d.timer
    BY Zenon, <1>2, <1>3, <1>4 DEF Sessions, SameCommand
  <2> QED BY Zenon, <2>1, <2>2, <2>3 DEF Sessions
<1>8. Shape(d)
    BY <1>3, <1>5, <1>7 DEF Shape
<1> QED BY Zenon, <1>1, <1>3, <1>8, PathStep

\* The process of a path runs.
LEMMA Process0 == ASSUME SanInv, NEW p \in Paths, PathProcess(p) PROVE SanInv'
<1> DEFINE d == [dev EXCEPT !.process[p] = FALSE]
<1>1. Stepping /\ dev.process[p] /\ dev' = sanpath_step(d, p) /\ moved' = moved
    BY DEF PathProcess
<1>2. dev \in Device /\ Lists(dev) /\ Sessions(dev)
    BY DEF SanInv, TypeOK
<1>3. p \in Range(dev.opened)
    BY <1>1, <1>2 DEF Sessions
<1>4. /\ d \in Device /\ SameDevice(dev, d) /\ SameCommand(dev, d) /\ d.opened = dev.opened
    BY Zenon, <1>2 DEF Device, SameDevice, SameCommand
<1>5. /\ d.closed = dev.closed /\ d.active = dev.active /\ d.window = dev.window
      /\ d.process = [dev.process EXCEPT ![p] = FALSE]
    BY Zenon, <1>2 DEF Device
<1> HIDE DEF d
<1>6. Lists(d)
    BY Zenon, <1>2, <1>4, <1>5 DEF Lists, SameDevice
<1>7. \A q \in Paths : d.process[q] => dev.process[q]
    BY Zenon, <1>2, <1>5 DEF Device
<1>8. Sessions(d)
    BY Zenon, <1>2, <1>4, <1>5, <1>7 DEF Sessions, SameCommand
<1>9. Shape(d)
    BY <1>4, <1>6, <1>8 DEF Shape
<1> QED BY Zenon, <1>1, <1>3, <1>4, <1>9, PathStep

\* A session ends, and the command with it if the path was the active one.
LEMMA BlockClose0 == ASSUME SanInv, NEW p \in Paths, sanpath_block_close(p) PROVE SanInv'
<1>1. /\ Stepping /\ p \in Range(dev.opened) /\ dev' = sanpath_close(dev, p, "err")
      /\ moved' = moved /\ "err" \in Rcs
    BY DEF sanpath_block_close, Rcs
<1>2. Shape(dev)
    BY DEF SanInv, TypeOK, Shape
<1>3. /\ Shape(dev') /\ SameDevice(dev, dev') /\ dev'.path_rc = [dev.path_rc EXCEPT ![p] = "err"]
      /\ IF p = dev.active THEN NoCommand(dev', "err") ELSE SameCommand(dev, dev')
  <2> DEFINE x == sanpath_close(dev, p, "err")
  <2>1. /\ Shape(x) /\ SameDevice(dev, x)
        /\ x.path_rc = [dev.path_rc EXCEPT ![p] = "err"]
        /\ Range(x.opened) = Range(dev.opened) \ {p}
        /\ IF p = dev.active THEN x.active = 0 /\ NoCommand(x, "err")
           ELSE x.active = dev.active /\ SameCommand(dev, x)
    BY Zenon, <1>1, <1>2, ClosingPath
  <2> HIDE DEF x
  <2>2. dev' = x
    BY <1>1 DEF x
  <2> QED BY Zenon, <2>1, <2>2
<1>4. Same(dev')
    BY <1>3 DEF Same, SameDevice
<1>5. dev.paths = 1 => dev'.path_rc[1] # "ok"
  <2>1. p \in 1..dev.paths /\ dev.path_rc \in [Paths -> Rcs]
    BY <1>1, <1>2 DEF Shape, Lists, Device
  <2> QED BY <1>3, <2>1
<1>6. CASE p = dev.active
    BY Zenon, <1>1, <1>3, <1>4, <1>5, <1>6, NotShutDown, Event DEF SanInv, Progress, NoCommand
<1>7. CASE p # dev.active
    BY Zenon, <1>1, <1>3, <1>4, <1>5, <1>7, NotShutDown, Event DEF SanInv, Progress, SameCommand
<1> QED BY <1>6, <1>7

\* A descriptor becomes complete.
LEMMA Described0 == ASSUME SanInv, NEW p \in Paths, Described(p) PROVE SanInv'
<1>1. /\ Stepping /\ p \in Range(dev.opened) /\ dev' = [dev EXCEPT !.desc[p] = "full"]
      /\ moved' = moved
    BY DEF Described
<1>2. dev \in Device /\ Lists(dev) /\ Sessions(dev)
    BY DEF SanInv, TypeOK
<1>3. /\ dev' \in Device /\ SameSessions(dev, dev') /\ SameCommand(dev, dev')
      /\ dev'.listed = dev.listed
    BY Zenon, <1>1, <1>2 DEF Device, SameSessions, SameCommand
<1>4. Lists(dev')
    BY Zenon, <1>2, <1>3 DEF Lists, SameSessions
<1>5. Sessions(dev')
    BY Zenon, <1>2, <1>3 DEF Sessions, SameSessions, SameCommand
<1>6. Same(dev')
    BY Zenon, <1>3, <1>4, <1>5 DEF Same, Shape, SameSessions
<1> QED BY <1>1, <1>3, <1>6, NotShutDown, Event
        DEF SanInv, Progress, OnePath, SameCommand, SameSessions

\* A command that is plugged in is for the fragment of the call that waits.
LEMMA Answer0 == ASSUME SanInv, Answer PROVE SanInv'
<1>1. PICK c \in dev.cmds, rc \in {"ok", "err"} :
          /\ dev' = [sandev_command_close(dev, rc) EXCEPT !.cmds = @ \ {c}]
          /\ moved' = IF rc = "ok" THEN moved \cup Blocks(c) ELSE moved
    BY Zenon DEF Answer
<1>2. Stepping /\ rc \in Rcs
    BY DEF Answer, Rcs
<1>3. dev \in Device /\ Lists(dev) /\ Sessions(dev)
    BY DEF SanInv, TypeOK
<1>4. pc = "command"
    BY <1>1, <1>3 DEF SanInv, Sessions, Calls
<1> DEFINE e == sandev_command_close(dev, rc)
<1>5. /\ e \in Device /\ SameSessions(dev, e) /\ e.desc = dev.desc /\ e.listed = dev.listed
      /\ ~e.timer /\ e.cmds = {} /\ e.command_rc = rc
    BY Zenon, <1>2, <1>3, Closing
<1> HIDE DEF e
<1>6. dev' = [e EXCEPT !.cmds = {}]
  <2>1. dev' = [e EXCEPT !.cmds = e.cmds \ {c}]
    BY Zenon, <1>1, <1>5 DEF e, Device
  <2>2. e.cmds \ {c} = {}
    BY <1>5
  <2> QED BY Zenon, <2>1, <2>2
<1>7. dev' \in Device
    BY Zenon, <1>5, <1>6 DEF Device
<1>8. SameSessions(e, dev') /\ SameDevice(e, dev') /\ dev'.timer = e.timer
    BY Zenon, <1>5, <1>6 DEF Device, SameSessions, SameDevice
<1>9. dev'.command_rc = e.command_rc /\ dev'.cmds = {}
    BY <1>5, <1>6 DEF Device
<1>10. Lists(dev')
    BY Zenon, <1>3, <1>5, <1>8 DEF Lists, SameSessions
<1>11. Sessions(dev')
    BY Zenon, <1>3, <1>5, <1>8, <1>9 DEF Sessions, SameSessions
<1>12. Same(dev') /\ ~dev'.timer /\ dev'.command_rc = rc /\ dev'.path_rc = dev.path_rc
    BY Zenon, <1>5, <1>7, <1>8, <1>9, <1>10, <1>11 DEF Same, Shape, SameSessions, SameDevice
<1>13. ASSUME op.stage \in Moving
       PROVE  /\ 0..(op.lba - 1) \subseteq moved' /\ moved' \subseteq 0..(op.lba + op.count - 1)
              /\ rc = "ok" => moved' = 0..(op.lba + op.count - 1)
  <2>1. c.lba = op.lba /\ c.count = op.count
    BY DEF SanInv, Progress
  <2>2. op.lba \in Nat /\ op.count \in Nat
    BY SanAssumption DEF SanInv, TypeOK
  <2>3. 0..(op.lba - 1) \subseteq moved /\ moved \subseteq 0..(op.lba + op.count - 1)
    BY <1>13 DEF SanInv, Progress
  <2>4. Blocks(c) = op.lba..(op.lba + op.count - 1)
    BY <2>1 DEF Blocks
  <2>5. (0..(op.lba - 1)) \cup (op.lba..(op.lba + op.count - 1)) = 0..(op.lba + op.count - 1)
    BY <2>2
  <2>6. 0..(op.lba - 1) \subseteq 0..(op.lba + op.count - 1)
    BY <2>2
  <2>7. CASE rc = "ok"
    <3>1. moved' = moved \cup (op.lba..(op.lba + op.count - 1))
      BY <1>1, <2>4, <2>7
    <3> QED BY Zenon, <2>3, <2>5, <2>6, <3>1
  <2>8. CASE rc # "ok"
    BY Zenon, <1>1, <2>3, <2>8
  <2> QED BY <2>7, <2>8
<1> QED BY Zenon, <1>2, <1>4, <1>9, <1>12, <1>13, Event

\* The timer of a command expires.
LEMMA Expired0 == SanInv /\ sandev_command_expired => SanInv'
<1> SUFFICES ASSUME SanInv, sandev_command_expired PROVE SanInv'
    OBVIOUS
<1>1. /\ Stepping /\ dev.timer /\ dev' = sandev_command_close(dev, "err") /\ moved' = moved
      /\ "err" \in Rcs
    BY DEF sandev_command_expired, Rcs
<1>2. dev \in Device /\ Lists(dev) /\ Sessions(dev) /\ pc = "command"
    BY <1>1 DEF SanInv, TypeOK, Calls
<1>3. /\ dev' \in Device /\ SameSessions(dev, dev') /\ dev'.desc = dev.desc
      /\ dev'.listed = dev.listed /\ ~dev'.timer /\ dev'.cmds = {} /\ dev'.command_rc = "err"
    BY Zenon, <1>1, <1>2, Closing
<1>4. Lists(dev')
    BY Zenon, <1>2, <1>3 DEF Lists, SameSessions
<1>5. Sessions(dev')
    BY Zenon, <1>2, <1>3 DEF Sessions, SameSessions
<1>6. Same(dev')
    BY Zenon, <1>3, <1>4, <1>5 DEF Same, Shape, SameSessions
<1> QED BY Zenon, <1>1, <1>2, <1>3, <1>6, Event DEF SanInv, Progress

-----------------------------------------------------------------------------
(***************************************************************************)
(* The theorems.                                                           *)
(***************************************************************************)

\* Every step keeps the invariant.
LEMMA SanStep == SanInv /\ [Next]_vars => SanInv'
<1> SUFFICES ASSUME SanInv, [Next]_vars PROVE SanInv'
    OBVIOUS
<1>1. CASE Call
    BY <1>1, Register0, Reset0, Rw0, Unregister0 DEF Call
<1>2. CASE Return
    BY <1>2, Reopen0, OpenLoop0, Describe0, Delay0, Retry0, Issue0, CommandLoop0 DEF Return
<1>3. CASE Answer
    BY <1>3, Answer0
<1>4. CASE sandev_command_expired
    BY <1>4, Expired0
<1>5. CASE \E p \in Paths : PathEvent(p)
  <2>1. PICK p \in Paths : PathEvent(p)
    BY <1>5
  <2>2. CASE WindowOpens(p)
    BY <2>2, Window0
  <2>3. CASE PathProcess(p)
    BY <2>3, Process0
  <2>4. CASE sanpath_block_close(p)
    BY <2>4, BlockClose0
  <2>5. CASE Described(p)
    BY <2>5, Described0
  <2> QED BY <2>1, <2>2, <2>3, <2>4, <2>5 DEF PathEvent
<1>6. CASE UNCHANGED vars
  <2>1. dev' = dev /\ pc' = pc /\ op' = op /\ result' = result /\ moved' = moved
    BY <1>6 DEF vars
  <2> QED BY Zenon, <2>1 DEF SanInv, TypeOK, Calls, ShutDown, OnePath, Progress
<1> QED BY <1>1, <1>2, <1>3, <1>4, <1>5, <1>6 DEF Next

\* The invariant holds in every behaviour.
LEMMA SanHolds == Spec => []SanInv
    BY SanInit, SanStep, PTL DEF Spec

\* Every path is in one of the two lists of the device, once, whatever is opened,
\* closed, lost or restarted; and a call stays within its retries and its blocks.
THEOREM Listed == Spec => []TypeOK
<1>1. SanInv => TypeOK
    BY DEF SanInv
<1> QED BY <1>1, SanHolds, PTL

\* No command waits on a path that is gone: the active path is opened, a command
\* is plugged in only while a path is active and the timer runs, and the timer
\* runs only while sandev_command waits for it.
THEOREM ActiveOpen == Spec => []ActiveIsOpen
<1>1. SanInv => ActiveIsOpen
    BY Zenon DEF SanInv, Sessions, Calls, ActiveIsOpen
<1> QED BY <1>1, SanHolds, PTL

\* The assertions of sandev_free hold after unregister_sandev and after a
\* registration that failed at any point.
THEOREM FreeHolds == Spec => []AllClosed
<1>1. SanInv => AllClosed
  <2> SUFFICES ASSUME SanInv, pc = "idle", ~dev.listed
               PROVE  /\ ~dev.timer /\ dev.active = 0 /\ dev.opened = <<>> /\ dev.cmds = {}
                      /\ \A p \in Paths : dev.desc[p] = "none" /\ ~dev.process[p]
    BY Zenon DEF AllClosed
  <2>1. dev.opened = <<>> /\ \A p \in Paths : dev.desc[p] = "none"
    BY DEF SanInv, ShutDown
  <2>2. ~dev.timer /\ dev.cmds = {}
    BY Resting
  <2>3. dev.active = 0 /\ \A p \in Paths : ~dev.process[p]
    BY Zenon, <2>1, EmptyList DEF SanInv, Sessions
  <2> QED BY Zenon, <2>1, <2>2, <2>3
<1> QED BY <1>1, SanHolds, PTL

\* "assert ( sanpath != NULL )": with one path, a sandev_reopen that returns 0 has
\* left an active path and sandev_command issues its command on it.
THEOREM IssuedOnPath == Spec => []CommandHasPath
<1>1. SanInv => CommandHasPath
    BY DEF SanInv, OnePath, CommandHasPath
<1> QED BY <1>1, SanHolds, PTL

\* sandev_rw never reports success without having moved every block it was asked
\* for, whatever its length, the number of blocks per command, the paths lost and
\* the commands retried or timed out meanwhile.
THEOREM AllMoved == Spec => RwComplete
<1> DEFINE Ended == /\ pc = "command" /\ op.remaining > 0 /\ pc' = "idle" /\ result' = "ok"
<1>1. SanInv /\ [Next]_vars => [Ended => moved' = 0..(op.lba + op.remaining - 1)]_vars
  <2> SUFFICES ASSUME SanInv, Next, Ended PROVE moved' = 0..(op.lba + op.remaining - 1)
    BY DEF Ended
  <2>1. ~Stepping
    BY DEF Stepping
  <2>2. CommandLoop
    <3>1. ~Call
      BY DEF Call, register_sandev, sandev_reset, sandev_rw, unregister_sandev
    <3>2. ~Answer /\ ~sandev_command_expired
      BY Zenon, <2>1 DEF Answer, sandev_command_expired
    <3>3. \A p \in Paths : ~PathEvent(p)
      BY Zenon, <2>1 DEF PathEvent, WindowOpens, PathProcess, sanpath_block_close, Described
    <3>4. ~Reopen /\ ~OpenLoop /\ ~Describe /\ ~DelayOver /\ ~Retry /\ ~Issue
      <4>1. pc \notin {"reopen", "open", "describe", "delay", "retry", "issue"}
        OBVIOUS
      <4> QED BY Zenon, <4>1 DEF Reopen, OpenLoop, Describe, DelayOver, Retry, Issue
    <3> QED BY Zenon, <3>1, <3>2, <3>3, <3>4 DEF Next, Return
  <2>3. ~dev.timer /\ op.stage # "capacity"
    BY <2>2 DEF CommandLoop, SanInv, Calls, Moving
  <2>4. dev.command_rc = "ok"
    <3> SUFFICES ASSUME dev.command_rc # "ok" PROVE FALSE
      OBVIOUS
    <3>1. Again(dev, op.retries + 1, dev.command_rc)
      BY <2>2 DEF CommandLoop
    <3> QED BY <3>1 DEF Again, Failed
  <2>5. NextFragment
    BY <2>2, <2>3, <2>4 DEF CommandLoop
  <2>6. op.remaining = op.count /\ moved' = moved
    BY <2>5 DEF NextFragment, Register
  <2>7. moved = 0..(op.lba + op.count - 1)
    BY <2>3, <2>4, FragmentMoved
  <2> QED BY <2>6, <2>7
<1>2. Spec => [][Ended => moved' = 0..(op.lba + op.remaining - 1)]_vars
    BY <1>1, SanHolds, PTL DEF Spec
<1> QED BY <1>2, PTL DEF RwComplete, Ended
=============================================================================
