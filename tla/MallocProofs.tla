---------------------------- MODULE MallocProofs ----------------------------
(***************************************************************************)
(* The allocator for every heap, every block size, every word width and    *)
(* any number of owners.                                                   *)
(***************************************************************************)
EXTENDS Malloc, FiniteSetTheorems, TLAPS

\* A nonempty set of natural numbers has a least element.
LEMMA NatMin ==
    ASSUME NEW T, T \subseteq Nat, T # {}
    PROVE  \E x \in T : \A y \in T : x <= y
<1>1. PICK x \in T : \A y \in T : ~ (<<y, x>> \in OpToRel(<, Nat))
    BY Zenon, NatLessThanWellFounded, WFMin
<1>2. \A y \in T : ~ (y < x)
    BY Zenon, <1>1 DEF OpToRel
<1> QED BY <1>2

\* What is in a concatenation.
LEMMA Joined ==
    ASSUME NEW S, NEW s \in Seq(S), NEW t \in Seq(S)
    PROVE  /\ s \o t \in Seq(S)
           /\ Len(s \o t) = Len(s) + Len(t)
           /\ \A i \in 1..(Len(s) + Len(t)) :
                 (s \o t)[i] = IF i <= Len(s) THEN s[i] ELSE t[i - Len(s)]
OBVIOUS

\* The empty sequence adds nothing.
LEMMA JoinedEmpty ==
    ASSUME NEW S, NEW s \in Seq(S)
    PROVE  s \o <<>> = s /\ <<>> \o s = s
OBVIOUS


-----------------------------------------------------------------------------
(***************************************************************************)
(* Arithmetic.                                                             *)
(***************************************************************************)

\* What % returns.
LEMMA ModRange ==
    ASSUME NEW a \in Int, NEW m \in Int, m > 0
    PROVE  a % m \in 0..(m - 1) /\ a \div m \in Int /\ a = m * (a \div m) + (a % m)
<1>1. a % m \in 0..(m - 1) /\ a \div m \in Int
    OBVIOUS
<1>2. a = m * (a \div m) + (a % m)
    OBVIOUS
<1> QED BY Zenon, <1>1, <1>2

\* ... and that this is the only such remainder.
LEMMA ModUnique ==
    ASSUME NEW m \in Int, m > 0, NEW q \in Int, NEW r \in 0..(m - 1)
    PROVE  (m * q + r) % m = r
<1> DEFINE a == m * q + r
           d == a \div m
           s == a % m
<1>1. a \in Int /\ d \in Int /\ s \in 0..(m - 1) /\ a = m * d + s
  <2>1. a \in Int
    OBVIOUS
  <2> HIDE DEF a
  <2> QED BY <2>1, ModRange
<1>2. m * (q - d) = s - r
  <2>1. m * q + r = m * d + s
    BY <1>1 DEF a
  <2> HIDE DEF d, s, a
  <2> QED BY <1>1, <2>1
<1>3. s = r
  <2> HIDE DEF d, s, a
  <2> DEFINE e == q - d
  <2>1. e \in Int /\ m * e = s - r
    BY <1>1, <1>2
  <2> HIDE DEF e
  <2>2. CASE e >= 1
    <3>1. m * e >= m
      BY <2>1, <2>2
    <3> QED BY <1>1, <2>1, <3>1
  <2>3. CASE e <= -1
    <3>1. m * e <= -m
      BY <2>1, <2>3
    <3> QED BY <1>1, <2>1, <3>1
  <2>4. CASE e = 0
    BY <1>1, <2>1, <2>4
  <2> QED BY <2>1, <2>2, <2>3, <2>4
<1> QED BY <1>3

\* A multiple of m.
LEMMA Multiple ==
    ASSUME NEW m \in Int, m > 0, NEW q \in Int
    PROVE  (m * q) % m = 0
<1>1. (m * q + 0) % m = 0
    BY ModUnique
<1>2. m * q + 0 = m * q
    OBVIOUS
<1> QED BY <1>1, <1>2

\* ... and what makes a number one.
LEMMA MultipleOf ==
    ASSUME NEW a \in Int, NEW m \in Int, m > 0, a % m = 0
    PROVE  a \div m \in Int /\ a = m * (a \div m)
<1> DEFINE d == a \div m
           r == a % m
<1>1. r = 0 /\ d \in Int /\ a = m * d + r
    BY ModRange
<1> HIDE DEF d, r
<1> QED BY <1>1 DEF d

\* Sums and differences of multiples.
LEMMA Sums ==
    ASSUME NEW m \in Int, m > 0, NEW a \in Int, NEW b \in Int, a % m = 0, b % m = 0
    PROVE  (a + b) % m = 0 /\ (a - b) % m = 0
<1> DEFINE p == a \div m
           q == b \div m
<1>1. p \in Int /\ a = m * p
    BY Zenon, MultipleOf
<1>2. q \in Int /\ b = m * q
    BY Zenon, MultipleOf
<1> HIDE DEF p, q
<1>3. (m * (p + q)) % m = 0 /\ (m * (p - q)) % m = 0
  <2>1. p + q \in Int /\ p - q \in Int
    BY <1>1, <1>2
  <2> QED BY Zenon, <2>1, Multiple
<1>4. m * p + m * q = m * (p + q) /\ m * p - m * q = m * (p - q)
    BY <1>1, <1>2
<1> QED BY Zenon, <1>1, <1>2, <1>3, <1>4

\* A multiple that is smaller than m is zero.
LEMMA SmallMultiple ==
    ASSUME NEW m \in Int, m > 0, NEW a \in Nat, a % m = 0, a < m
    PROVE  a = 0
<1>1. (m * 0 + a) % m = a
    BY ModUnique
<1>2. m * 0 + a = a
    OBVIOUS
<1> QED BY <1>1, <1>2

\* A multiple of a multiple.
LEMMA MultipleOfMultiple ==
    ASSUME NEW m \in Int, m > 0, NEW k \in Int, k > 0, k % m = 0, NEW q \in Int
    PROVE  (k * q) % m = 0
<1> DEFINE d == k \div m
<1>1. d \in Int /\ k = m * d
    BY Zenon, MultipleOf
<1> HIDE DEF d
<1>2. (m * (d * q)) % m = 0
  <2>1. d * q \in Int
    BY <1>1
  <2> QED BY Zenon, <2>1, Multiple
<1>3. (m * d) * q = m * (d * q)
    BY <1>1
<1> QED BY Zenon, <1>1, <1>2, <1>3

\* The constants.
LEMMA Constants ==
    /\ Base \in Int /\ Base > 0 /\ HeapSize \in Int /\ HeapSize >= MinBlock
    /\ MinBlock \in Int /\ MinBlock > 0 /\ Word \in Int /\ Base + HeapSize < Word
    /\ HeapSize % MinBlock = 0 /\ Word % MinBlock = 0
<1>1. /\ Base \in Int /\ Base > 0 /\ HeapSize \in Int /\ HeapSize > 0
      /\ MinBlock \in Int /\ MinBlock > 0 /\ Word \in Int
    BY MallocAssumption
<1>2. Base + HeapSize < Word /\ HeapSize % MinBlock = 0 /\ Word % MinBlock = 0
    BY Zenon, MallocAssumption
<1>3. HeapSize >= MinBlock
  <2>1. HeapSize \in Nat
    BY <1>1
  <2>2. HeapSize < MinBlock => HeapSize = 0
    BY Zenon, <1>1, <1>2, <2>1, SmallMultiple
  <2> QED BY <1>1, <2>2
<1> QED BY Zenon, <1>1, <1>2, <1>3

\* A rounded size is a multiple of MIN_MEMBLOCK_SIZE, and zero only when there
\* was an overflow or nothing was asked for.
LEMMA Rounding ==
    ASSUME NEW s \in Int, 0 <= s, s < Word
    PROVE  /\ Actual(s) \in Int /\ 0 <= Actual(s) /\ Actual(s) % MinBlock = 0
           /\ Actual(s) # 0 => s <= Actual(s) /\ MinBlock <= Actual(s)
<1> DEFINE n == (s + MinBlock - 1) % Word
           d == n \div MinBlock
           r == n % MinBlock
           x == MinBlock * d
<1>1. n = IF s + MinBlock - 1 < Word THEN s + MinBlock - 1 ELSE s + MinBlock - 1 - Word
  <2> DEFINE c == s + MinBlock - 1
  <2>1. c \in Int /\ 0 <= c /\ c < Word + Word /\ Word \in Int /\ Word > 0
    BY Constants
  <2>2. ASSUME c < Word PROVE c % Word = c
    <3>1. c \in 0..(Word - 1) /\ 0 \in Int /\ Word * 0 + c = c
      BY <2>1, <2>2
    <3> HIDE DEF c
    <3>2. (Word * 0 + c) % Word = c
      BY Zenon, <2>1, <3>1, ModUnique
    <3> QED BY Zenon, <3>1, <3>2
  <2>3. ASSUME ~(c < Word) PROVE c % Word = c - Word
    <3>1. c - Word \in 0..(Word - 1) /\ 1 \in Int /\ Word * 1 + (c - Word) = c
      BY <2>1, <2>3
    <3> HIDE DEF c
    <3>2. (Word * 1 + (c - Word)) % Word = c - Word
      BY Zenon, <2>1, <3>1, ModUnique
    <3> QED BY Zenon, <3>1, <3>2
  <2>4. n = c % Word
    OBVIOUS
  <2>5. (c < Word => n = c) /\ (~(c < Word) => n = c - Word)
    BY Zenon, <2>2, <2>3, <2>4
  <2> HIDE DEF n
  <2> QED BY <2>1, <2>5, Constants
<1>2. n \in Int /\ 0 <= n
  <2> HIDE DEF n
  <2> QED BY <1>1, Constants
<1>3. d \in Int /\ r \in 0..(MinBlock - 1) /\ n = x + r
  <2> HIDE DEF n
  <2> QED BY Zenon, <1>2, ModRange, Constants
<1>4. Actual(s) = n - r
    BY DEF Actual
<1>5. x % MinBlock = 0
    BY <1>3, Multiple, Constants
<1> HIDE DEF n, d, r
<1>6. x \in Int
    BY <1>3, Constants
<1> HIDE DEF x
<1>7. Actual(s) = x
    BY <1>2, <1>3, <1>4, <1>6, Constants
<1>8. 0 <= x
  <2>1. x > -MinBlock
    BY <1>2, <1>3, <1>6, Constants
  <2>2. d > -1
    BY <1>3, <2>1, Constants DEF x
  <2> QED BY <1>3, <2>2, Constants DEF x
<1>9. x # 0 => MinBlock <= x
    BY <1>5, <1>6, <1>8, SmallMultiple, Constants
<1>10. x # 0 => s <= x
    BY <1>1, <1>2, <1>3, <1>6, <1>9, Constants
<1> QED BY Zenon, <1>5, <1>6, <1>7, <1>8, <1>9, <1>10

\* The multiple that an address is rounded up to.
Mask(r) == IF r.align > MinBlock THEN r.align ELSE MinBlock

\* The bytes skipped reach the next address with the alignment.
LEMMA Skipping ==
    ASSUME NEW b, b.ptr \in Int, NEW r, r.offset \in Int, r.align \in Int, r.align > 0
    PROVE  /\ PreSize(b, r) \in Int /\ 0 <= PreSize(b, r)
           /\ \E q \in Int : b.ptr + PreSize(b, r) = r.offset + Mask(r) * q
           /\ \A a \in Int : a >= b.ptr /\ (a - r.offset) % Mask(r) = 0
                                => b.ptr + PreSize(b, r) <= a
<1> DEFINE k == Mask(r)
           x == r.offset - b.ptr
           d == x \div k
           p == x % k
<1>0. k \in Int /\ k > 0
    BY Constants DEF Mask
<1>1. x \in Int
    OBVIOUS
<1>2. PreSize(b, r) = p
    BY DEF PreSize, Mask
<1> HIDE DEF k
<1>3. d \in Int /\ p \in 0..(k - 1) /\ x = k * d + p
  <2> HIDE DEF x
  <2> QED BY Zenon, <1>0, <1>1, ModRange
<1> HIDE DEF d, p
<1>4. b.ptr + p = r.offset + k * (-d)
  <2> DEFINE y == k * d
  <2>1. y \in Int /\ k * (-d) = -y
    BY <1>0, <1>3
  <2>2. r.offset - b.ptr = y + p
    BY <1>3
  <2>3. p \in Int
    BY <1>0, <1>3
  <2> DEFINE z == k * (-d)
  <2> HIDE DEF y, z
  <2>4. z = -y
    BY Zenon, <2>1 DEF z
  <2>5. b.ptr + p = r.offset + z
    BY <2>1, <2>2, <2>3, <2>4
  <2> QED BY Zenon, <2>5 DEF z
<1>5. ASSUME NEW a \in Int, a >= b.ptr, (a - r.offset) % k = 0
      PROVE  b.ptr + p <= a
  <2> DEFINE e == (a - r.offset) \div k
  <2>1. e \in Int /\ a - r.offset = k * e
    <3>1. a - r.offset \in Int
      OBVIOUS
    <3> QED BY Zenon, <1>0, <1>5, <3>1, MultipleOf
  <2> HIDE DEF e
  <2>2. k * e >= k * (-d) - p
    <3> DEFINE u == k * e
               v == k * (-d)
    <3>1. u \in Int /\ v \in Int
      BY <1>0, <1>3, <2>1
    <3>2. a - r.offset = u /\ b.ptr + p = r.offset + v
      BY <1>4, <2>1
    <3> HIDE DEF u, v
    <3> QED BY <1>3, <1>5, <3>1, <3>2 DEF u, v
  <2>3. e >= -d
    <3>1. SUFFICES ASSUME e <= -d - 1 PROVE FALSE
      BY <1>3, <2>1
    <3>2. k * e <= k * (-d - 1)
      BY <1>0, <1>3, <2>1, <3>1
    <3>3. k * (-d - 1) = k * (-d) - k
      BY <1>0, <1>3
    <3> DEFINE u == k * e
               v == k * (-d)
               w == k * (-d - 1)
    <3>4. u \in Int /\ v \in Int /\ w \in Int
      BY <1>0, <1>3, <2>1
    <3>5. u >= v - p /\ u <= w /\ w = v - k
      BY <2>2, <3>2, <3>3
    <3> HIDE DEF u, v, w
    <3> QED BY <1>0, <1>3, <3>4, <3>5
  <2>4. k * e >= k * (-d)
    BY <1>0, <1>3, <2>1, <2>3
  <2> DEFINE u == k * e
             v == k * (-d)
  <2>5. u \in Int /\ v \in Int
    BY <1>0, <1>3, <2>1
  <2>6. a - r.offset = u /\ b.ptr + p = r.offset + v /\ u >= v
    BY <1>4, <2>1, <2>4
  <2> HIDE DEF u, v
  <2> QED BY <1>3, <2>5, <2>6
<1>6. -d \in Int /\ p \in Int /\ 0 <= p
    BY <1>0, <1>3
<1>7. \E q \in Int : b.ptr + p = r.offset + k * q
    BY Zenon, <1>4, <1>6
<1> QED BY Zenon, <1>2, <1>5, <1>6, <1>7 DEF k

-----------------------------------------------------------------------------
(***************************************************************************)
(* The free list.                                                          *)
(***************************************************************************)

\* What is where in a list after list_add and list_del.
LEMMA Splicing ==
    ASSUME NEW S, NEW l \in Seq(S), NEW new \in Seq(S), NEW p \in Int, NEW q \in Int,
           1 <= p, p <= q + 1, q <= Len(l)
    PROVE  /\ Spliced(l, p, q, new) \in Seq(S)
           /\ Len(Spliced(l, p, q, new)) = (p - 1) + Len(new) + (Len(l) - q)
           /\ \A i \in 1..(p - 1) : Spliced(l, p, q, new)[i] = l[i]
           /\ \A i \in 1..Len(new) : Spliced(l, p, q, new)[p - 1 + i] = new[i]
           /\ \A i \in (q + 1)..Len(l) :
                 Spliced(l, p, q, new)[i - q + (p - 1) + Len(new)] = l[i]
<1> DEFINE a == SubSeq(l, 1, p - 1)
           b == SubSeq(l, q + 1, Len(l))
           u == a \o new
           r == u \o b
<1>1. Len(l) \in Nat /\ Len(new) \in Nat
    OBVIOUS
<1>2. a \in Seq(S) /\ Len(a) = p - 1
    BY <1>1
<1>3. b \in Seq(S) /\ Len(b) = Len(l) - q
    BY <1>1
<1>4. \A i \in 1..(p - 1) : a[i] = l[i]
    BY <1>1
<1>5. \A i \in (q + 1)..Len(l) : b[i - q] = l[i]
    BY <1>1
<1> HIDE DEF a, b
<1>6. /\ u \in Seq(S) /\ Len(u) = (p - 1) + Len(new)
      /\ \A i \in 1..Len(u) : u[i] = IF i <= Len(a) THEN a[i] ELSE new[i - Len(a)]
  <2>1. /\ u \in Seq(S) /\ Len(u) = Len(a) + Len(new)
        /\ \A i \in 1..(Len(a) + Len(new)) : u[i] = IF i <= Len(a) THEN a[i] ELSE new[i - Len(a)]
    BY Zenon, <1>2, Joined
  <2> HIDE DEF u
  <2> QED BY <1>2, <2>1
<1> HIDE DEF u
<1>7. /\ r \in Seq(S) /\ Len(r) = Len(u) + Len(b)
      /\ \A i \in 1..Len(r) : r[i] = IF i <= Len(u) THEN u[i] ELSE b[i - Len(u)]
  <2>1. /\ r \in Seq(S) /\ Len(r) = Len(u) + Len(b)
        /\ \A i \in 1..(Len(u) + Len(b)) : r[i] = IF i <= Len(u) THEN u[i] ELSE b[i - Len(u)]
    <3>1. u \in Seq(S) /\ b \in Seq(S)
      BY <1>3, <1>6
    <3> QED BY Zenon, <3>1, Joined
  <2> HIDE DEF r
  <2> QED BY <2>1
<1>8. Spliced(l, p, q, new) = r
    BY DEF Spliced, r, u, a, b
<1> HIDE DEF r
<1>9. Len(r) = (p - 1) + Len(new) + (Len(l) - q)
    BY <1>1, <1>3, <1>6, <1>7
<1>10. \A i \in 1..(p - 1) : r[i] = l[i]
  <2> SUFFICES ASSUME NEW i \in 1..(p - 1) PROVE r[i] = l[i]
    OBVIOUS
  <2>1. i \in 1..Len(u) /\ i \in 1..Len(r) /\ i <= Len(a) /\ i <= Len(u)
    BY <1>1, <1>2, <1>3, <1>6, <1>7
  <2> QED BY Zenon, <1>4, <1>6, <1>7, <2>1
<1>11. \A i \in 1..Len(new) : r[p - 1 + i] = new[i]
  <2> SUFFICES ASSUME NEW i \in 1..Len(new) PROVE r[p - 1 + i] = new[i]
    OBVIOUS
  <2>1. p - 1 + i \in 1..Len(u) /\ p - 1 + i \in 1..Len(r) /\ p - 1 + i > Len(a)
        /\ (p - 1 + i) - Len(a) = i
    BY <1>1, <1>2, <1>3, <1>6, <1>7
  <2> QED BY <1>1, <1>2, <1>6, <1>7, <2>1
<1>12. \A i \in (q + 1)..Len(l) : r[i - q + (p - 1) + Len(new)] = l[i]
  <2> SUFFICES ASSUME NEW i \in (q + 1)..Len(l)
               PROVE  r[i - q + (p - 1) + Len(new)] = l[i]
    OBVIOUS
  <2> DEFINE j == i - q + (p - 1) + Len(new)
  <2>1. j \in 1..Len(r) /\ j > Len(u) /\ j - Len(u) = i - q
    BY <1>1, <1>2, <1>3, <1>6, <1>7
  <2> HIDE DEF j
  <2>2. r[j] = b[i - q]
    <3>1. ~(j <= Len(u))
      BY <1>6, <2>1
    <3> QED BY Zenon, <1>7, <2>1, <3>1
  <2> QED BY <1>5, <2>2 DEF j
<1> QED BY Zenon, <1>7, <1>8, <1>9, <1>10, <1>11, <1>12

Block == [ptr : Int, size : Int]

\* The list is in ascending order, and no block reaches the next.
Ascending(l) == \A i, j \in DOMAIN l : i < j => l[i].ptr + l[i].size < l[j].ptr

\* The order after list_add and list_del, and the blocks in the list.
SplicedInOrder(l, p, q, new) ==
    /\ Spliced(l, p, q, new) \in Seq(Block)
    /\ Ascending(Spliced(l, p, q, new))
    /\ Range(Spliced(l, p, q, new)) =
          {l[i] : i \in 1..(p - 1)} \cup Range(new) \cup {l[i] : i \in (q + 1)..Len(l)}

\* It is kept when the new blocks fit between their neighbours.
LEMMA SplicedOrder ==
    ASSUME NEW l \in Seq(Block), NEW new \in Seq(Block), NEW p \in Int, NEW q \in Int,
           1 <= p, p <= q + 1, q <= Len(l), Ascending(l), Ascending(new),
           \A i \in 1..(p - 1), j \in DOMAIN new : l[i].ptr + l[i].size < new[j].ptr,
           \A i \in DOMAIN new, j \in (q + 1)..Len(l) : new[i].ptr + new[i].size < l[j].ptr
    PROVE  SplicedInOrder(l, p, q, new)
<1> DEFINE r == Spliced(l, p, q, new)
           n == Len(new)
<1>1. /\ r \in Seq(Block) /\ Len(r) = (p - 1) + n + (Len(l) - q)
      /\ \A i \in 1..(p - 1) : r[i] = l[i]
      /\ \A i \in 1..n : r[p - 1 + i] = new[i]
      /\ \A i \in (q + 1)..Len(l) : r[i - q + (p - 1) + n] = l[i]
    BY Splicing
<1>2. n \in Nat /\ DOMAIN new = 1..n /\ Len(l) \in Nat /\ DOMAIN l = 1..Len(l)
      /\ DOMAIN r = 1..Len(r)
    BY <1>1
<1>3. /\ \A i \in DOMAIN l : l[i].ptr \in Int /\ l[i].size \in Int
      /\ \A i \in DOMAIN new : new[i].ptr \in Int /\ new[i].size \in Int
  <2>1. ASSUME NEW x \in Block PROVE x.ptr \in Int /\ x.size \in Int
    BY DEF Block
  <2>2. (\A i \in DOMAIN l : l[i] \in Block) /\ (\A i \in DOMAIN new : new[i] \in Block)
    BY <1>2
  <2> QED BY Zenon, <2>1, <2>2
<1> HIDE DEF r, n
<1>4. \A k \in DOMAIN r :
         \/ k \in 1..(p - 1) /\ r[k] = l[k]
         \/ k - (p - 1) \in 1..n /\ r[k] = new[k - (p - 1)]
         \/ k - (p - 1) > n /\ k - (p - 1) - n + q \in (q + 1)..Len(l)
            /\ r[k] = l[k - (p - 1) - n + q]
  <2> SUFFICES ASSUME NEW k \in DOMAIN r, k > p - 1
               PROVE  \/ k - (p - 1) \in 1..n /\ r[k] = new[k - (p - 1)]
                      \/ k - (p - 1) > n /\ k - (p - 1) - n + q \in (q + 1)..Len(l)
                         /\ r[k] = l[k - (p - 1) - n + q]
    BY <1>1, <1>2
  <2>1. CASE k - (p - 1) <= n
    <3> DEFINE i == k - (p - 1)
    <3>1. i \in 1..n /\ p - 1 + i = k
      BY <1>1, <1>2, <2>1
    <3> HIDE DEF i
    <3>2. r[k] = new[i]
      BY <1>1, <3>1
    <3> QED BY <3>1, <3>2 DEF i
  <2>2. CASE k - (p - 1) > n
    <3> DEFINE i == k - (p - 1) - n + q
    <3>1. i \in (q + 1)..Len(l) /\ i - q + (p - 1) + n = k
      BY <1>1, <1>2, <2>2
    <3> HIDE DEF i
    <3>2. r[i - q + (p - 1) + n] = l[i]
      BY Zenon, <1>1, <3>1
    <3>3. r[k] = l[i]
      BY Zenon, <3>1, <3>2
    <3> QED BY Zenon, <2>2, <3>1, <3>3 DEF i
  <2> QED BY <1>1, <1>2, <2>1, <2>2
<1>5. Ascending(r)
  <2> SUFFICES ASSUME NEW i \in DOMAIN r, NEW j \in DOMAIN r, i < j
               PROVE  r[i].ptr + r[i].size < r[j].ptr
    BY DEF Ascending
  <2>1. i \in Int /\ j \in Int
    BY <1>1, <1>2
  <2>2. CASE i \in 1..(p - 1) /\ r[i] = l[i]
    <3>1. i \in DOMAIN l /\ l[i].ptr \in Int /\ l[i].size \in Int
      BY <1>2, <1>3, <2>2
    <3>2. CASE j \in 1..(p - 1) /\ r[j] = l[j]
      BY <1>2, <2>1, <2>2, <3>1, <3>2 DEF Ascending
    <3>3. CASE j - (p - 1) \in 1..n /\ r[j] = new[j - (p - 1)]
      BY <1>2, <2>1, <2>2, <3>1, <3>3
    <3>4. CASE j - (p - 1) > n /\ j - (p - 1) - n + q \in (q + 1)..Len(l)
               /\ r[j] = l[j - (p - 1) - n + q]
      <4>1. i < j - (p - 1) - n + q /\ j - (p - 1) - n + q \in DOMAIN l
        BY <1>2, <2>1, <2>2, <3>4
      <4> QED BY <1>2, <2>1, <2>2, <3>1, <3>4, <4>1 DEF Ascending
    <3> QED BY Zenon, <1>4, <3>2, <3>3, <3>4
  <2>3. CASE i - (p - 1) \in 1..n /\ r[i] = new[i - (p - 1)]
    <3>1. CASE j - (p - 1) \in 1..n /\ r[j] = new[j - (p - 1)]
      <4>1. i - (p - 1) < j - (p - 1)
        BY <2>1
      <4> QED BY <1>2, <2>3, <3>1, <4>1 DEF Ascending
    <3>2. CASE j - (p - 1) > n /\ j - (p - 1) - n + q \in (q + 1)..Len(l)
               /\ r[j] = l[j - (p - 1) - n + q]
      BY <1>2, <2>3, <3>2
    <3> QED BY <1>4, <2>1, <2>3, <3>1, <3>2
  <2>4. CASE i - (p - 1) > n /\ i - (p - 1) - n + q \in (q + 1)..Len(l)
             /\ r[i] = l[i - (p - 1) - n + q]
    <3>1. /\ j - (p - 1) > n /\ j - (p - 1) - n + q \in (q + 1)..Len(l)
          /\ r[j] = l[j - (p - 1) - n + q]
      <4>1. j - (p - 1) > n /\ j \notin 1..(p - 1) /\ j - (p - 1) \notin 1..n
        <5> HIDE DEF n
        <5>1. n \in Nat /\ i - (p - 1) > n
          BY Zenon, <1>2, <2>4
        <5> QED BY <2>1, <5>1
      <4> QED BY Zenon, <1>4, <4>1
    <3>2. /\ i - (p - 1) - n + q < j - (p - 1) - n + q
          /\ i - (p - 1) - n + q \in DOMAIN l /\ j - (p - 1) - n + q \in DOMAIN l
      <4> HIDE DEF n
      <4>1. n \in Int /\ p \in Int /\ q \in Nat /\ DOMAIN l = 1..Len(l) /\ Len(l) \in Nat
        BY <1>2
      <4>2. \A k \in (q + 1)..Len(l) : k \in DOMAIN l
        BY <4>1
      <4>3. i - (p - 1) - n + q < j - (p - 1) - n + q
        BY <2>1, <4>1
      <4> QED BY Zenon, <2>4, <3>1, <4>2, <4>3
    <3> QED BY <2>4, <3>1, <3>2 DEF Ascending
  <2> QED BY Zenon, <1>4, <2>2, <2>3, <2>4
<1>6. Range(r) = {l[i] : i \in 1..(p - 1)} \cup Range(new) \cup {l[i] : i \in (q + 1)..Len(l)}
  <2>1. ASSUME NEW x \in Range(r)
        PROVE  x \in {l[i] : i \in 1..(p - 1)} \cup Range(new) \cup {l[i] : i \in (q + 1)..Len(l)}
    BY Zenon, <1>2, <1>4 DEF Range
  <2>2. \A i \in 1..(p - 1) : i \in DOMAIN r
    BY <1>1, <1>2
  <2>3. \A i \in 1..n : p - 1 + i \in DOMAIN r
    BY <1>1, <1>2
  <2>4. \A i \in (q + 1)..Len(l) : i - q + (p - 1) + n \in DOMAIN r
    BY <1>1, <1>2
  <2>5. {l[i] : i \in 1..(p - 1)} \subseteq Range(r)
    <3> SUFFICES ASSUME NEW i \in 1..(p - 1) PROVE l[i] \in Range(r)
      OBVIOUS
    <3> QED BY Zenon, <1>1, <2>2 DEF Range
  <2>6. Range(new) \subseteq Range(r)
    <3> SUFFICES ASSUME NEW i \in DOMAIN new PROVE new[i] \in Range(r)
      BY DEF Range
    <3>1. p - 1 + i \in DOMAIN r /\ r[p - 1 + i] = new[i]
      BY Zenon, <1>1, <1>2, <2>3
    <3> QED BY Zenon, <3>1 DEF Range
  <2>7. {l[i] : i \in (q + 1)..Len(l)} \subseteq Range(r)
    <3> SUFFICES ASSUME NEW i \in (q + 1)..Len(l) PROVE l[i] \in Range(r)
      OBVIOUS
    <3> QED BY <1>1, <2>4 DEF Range
  <2> QED BY Zenon, <2>1, <2>5, <2>6, <2>7
<1> QED BY Zenon, <1>1, <1>5, <1>6 DEF r, SplicedInOrder

\* A block as check_blocks wants it, and a list of them.
InHeap(b) == MinBlock <= b.size /\ Base <= b.ptr /\ b.ptr + b.size <= Base + HeapSize
Whole(l) == l \in Seq(Block) /\ Ascending(l) /\ \A i \in DOMAIN l : InHeap(l[i])
CellsIn(l) == UNION {CellsOf(b) : b \in Range(l)}
Holds(b, c) == b.ptr <= c /\ c < b.ptr + b.size

\* The types of its blocks.
LEMMA WholeTypes ==
    ASSUME NEW l, Whole(l)
    PROVE  /\ Len(l) \in Nat /\ DOMAIN l = 1..Len(l)
           /\ \A i \in DOMAIN l : l[i].ptr \in Int /\ l[i].size \in Int /\ l[i].size > 0
<1>1. Len(l) \in Nat /\ DOMAIN l = 1..Len(l) /\ \A i \in DOMAIN l : l[i] \in Block
    BY DEF Whole
<1>2. \A b \in Block : b.ptr \in Int /\ b.size \in Int
    BY DEF Block
<1> QED BY <1>1, <1>2, Constants DEF Whole, InHeap

\* A cell of a list is in one of its blocks.
LEMMA CellIn ==
    ASSUME NEW l, Whole(l), NEW c
    PROVE  c \in CellsIn(l) <=> c \in Int /\ \E i \in DOMAIN l : Holds(l[i], c)
<1>1. \A i \in DOMAIN l : c \in CellsOf(l[i]) <=> c \in Int /\ Holds(l[i], c)
  <2> SUFFICES ASSUME NEW i \in DOMAIN l
               PROVE  c \in CellsOf(l[i]) <=> c \in Int /\ Holds(l[i], c)
    OBVIOUS
  <2> DEFINE p == l[i].ptr
             z == l[i].size
  <2>1. p \in Int /\ z \in Int
    BY WholeTypes
  <2> HIDE DEF p, z
  <2>2. c \in p..(p + z - 1) <=> c \in Int /\ p <= c /\ c < p + z
    BY <2>1
  <2> QED BY <2>2 DEF CellsOf, Holds, p, z
<1> QED BY Zenon, <1>1 DEF CellsIn, Range

\* The remainders of a block that was cut.
LEMMA Pieces ==
    ASSUME NEW a \in Int, NEW m \in Int, NEW y \in Int, NEW k \in Int, a + m < y
    PROVE  /\ Piece(a, m) \o Piece(y, k) \in Seq(Block)
           /\ Ascending(Piece(a, m) \o Piece(y, k))
           /\ \A e : e \in Range(Piece(a, m) \o Piece(y, k)) <=>
                       \/ MinBlock <= m /\ e = [ptr |-> a, size |-> m]
                       \/ MinBlock <= k /\ e = [ptr |-> y, size |-> k]
<1> DEFINE u == [ptr |-> a, size |-> m]
           v == [ptr |-> y, size |-> k]
           p == Piece(a, m) \o Piece(y, k)
<1>1. u \in Block /\ v \in Block /\ u.ptr = a /\ u.size = m /\ v.ptr = y /\ v.size = k
    BY DEF Block
<1>2. /\ Piece(a, m) = IF m < MinBlock THEN <<>> ELSE <<u>>
      /\ Piece(y, k) = IF k < MinBlock THEN <<>> ELSE <<v>>
    BY DEF Piece
<1> HIDE DEF u, v
<1>3. CASE m < MinBlock /\ k < MinBlock
  <2>1. p = <<>>
    BY <1>2, <1>3
  <2> QED BY <1>3, <2>1, Constants DEF Range, Ascending, u, v
<1>4. CASE m < MinBlock /\ ~(k < MinBlock)
  <2>1. p = <<v>>
    BY <1>2, <1>4
  <2>2. Range(p) = {v} /\ DOMAIN p = {1} /\ p \in Seq(Block)
    BY <1>1, <2>1 DEF Range
  <2>3. Ascending(p)
    BY <2>2 DEF Ascending
  <2> QED BY <1>4, <2>2, <2>3, Constants DEF v
<1>5. CASE ~(m < MinBlock) /\ k < MinBlock
  <2>1. p = <<u>>
    BY <1>2, <1>5
  <2>2. Range(p) = {u} /\ DOMAIN p = {1} /\ p \in Seq(Block)
    BY <1>1, <2>1 DEF Range
  <2>3. Ascending(p)
    BY <2>2 DEF Ascending
  <2> QED BY <1>5, <2>2, <2>3, Constants DEF u
<1>6. CASE ~(m < MinBlock) /\ ~(k < MinBlock)
  <2> DEFINE w == <<u>> \o <<v>>
  <2>1. p = w
    BY Zenon, <1>2, <1>6
  <2>2. w \in Seq(Block)
    BY <1>1
  <2>3. Len(w) = 2 /\ w[1] = u /\ w[2] = v
    BY <1>1
  <2> HIDE DEF w
  <2>4. DOMAIN w = {1, 2}
    BY <2>2, <2>3
  <2>5. Range(w) = {u, v}
    BY <2>3, <2>4 DEF Range
  <2>6. Ascending(w)
    BY <1>1, <2>3, <2>4 DEF Ascending
  <2>7. \A e : e \in Range(w) <=> (MinBlock <= m /\ e = u) \/ (MinBlock <= k /\ e = v)
    BY <1>6, <2>5, Constants
  <2> QED BY Zenon, <2>1, <2>2, <2>6, <2>7 DEF u, v
<1> QED BY Zenon, <1>3, <1>4, <1>5, <1>6

\* alloc_memblock cuts [x, y) out of the i-th block.
CutAt(l, i, x, y) ==
    Spliced(l, i, i, Piece(l[i].ptr, x - l[i].ptr) \o Piece(y, (l[i].ptr + l[i].size) - y))

\* What is free then, and what is lost.
CutResult(l, i, x, y) ==
    /\ Whole(CutAt(l, i, x, y))
    /\ \A c : c \in CellsIn(CutAt(l, i, x, y)) <=>
          /\ c \in CellsIn(l)
          /\ Holds(l[i], c) => \/ c < x /\ MinBlock <= x - l[i].ptr
                               \/ y <= c /\ MinBlock <= (l[i].ptr + l[i].size) - y
    /\ \A e \in Range(CutAt(l, i, x, y)) :
          \/ \E j \in DOMAIN l \ {i} : e = l[j]
          \/ e.ptr = l[i].ptr /\ e.ptr + e.size = x
          \/ e.ptr = y /\ e.ptr + e.size = l[i].ptr + l[i].size

\* A cut inside a block of the list is like that.
LEMMA Cutting ==
    ASSUME NEW l, Whole(l), NEW i \in DOMAIN l, NEW x \in Int, NEW y \in Int,
           l[i].ptr <= x, x < y, y <= l[i].ptr + l[i].size
    PROVE  CutResult(l, i, x, y)
<1> DEFINE a == l[i].ptr
           z == a + l[i].size
           u == [ptr |-> a, size |-> x - a]
           v == [ptr |-> y, size |-> z - y]
           new == Piece(a, x - a) \o Piece(y, z - y)
           r == CutAt(l, i, x, y)
<1>1. /\ Len(l) \in Nat /\ DOMAIN l = 1..Len(l) /\ i \in Int
      /\ \A j \in DOMAIN l : l[j].ptr \in Int /\ l[j].size \in Int /\ l[j].size > 0
    BY WholeTypes
<1>2. a \in Int /\ z \in Int /\ a < z /\ a <= x /\ y <= z
    BY <1>1
<1>3. r = Spliced(l, i, i, new)
    BY Zenon DEF CutAt
<1>4. l \in Seq(Block) /\ Ascending(l) /\ InHeap(l[i])
    BY DEF Whole
<1>5. \A c : Holds(l[i], c) <=> a <= c /\ c < z
    BY DEF Holds
<1>6. \A j \in DOMAIN l : (j < i => l[j].ptr + l[j].size < a) /\ (j > i => z < l[j].ptr)
    BY <1>1, <1>4 DEF Ascending
<1>7. Base <= a /\ z <= Base + HeapSize
    BY <1>4 DEF InHeap
<1>8. /\ u.ptr = a /\ u.size = x - a /\ v.ptr = y /\ v.size = z - y
    OBVIOUS
<1> HIDE DEF a, z, r
<1>9. /\ new \in Seq(Block) /\ Ascending(new)
      /\ \A e : e \in Range(new) <=> (MinBlock <= x - a /\ e = u) \/ (MinBlock <= z - y /\ e = v)
  <2>1. x - a \in Int /\ z - y \in Int /\ a + (x - a) < y
    BY <1>2
  <2> QED BY <1>2, <2>1, Pieces
<1> HIDE DEF new, u, v
<1>10. \A j \in DOMAIN new : new[j] = u \/ new[j] = v
    BY Zenon, <1>9 DEF Range
<1>11. /\ \A j \in 1..(i - 1), g \in DOMAIN new : l[j].ptr + l[j].size < new[g].ptr
       /\ \A g \in DOMAIN new, j \in (i + 1)..Len(l) : new[g].ptr + new[g].size < l[j].ptr
  <2>1. ASSUME NEW j \in 1..(i - 1), NEW g \in DOMAIN new
        PROVE  l[j].ptr + l[j].size < new[g].ptr
    <3>1. j \in DOMAIN l /\ j < i
      BY <1>1
    <3>2. l[j].ptr + l[j].size < a /\ l[j].ptr \in Int /\ l[j].size \in Int
      BY Zenon, <1>1, <1>6, <3>1
    <3>3. new[g].ptr = a \/ new[g].ptr = y
      BY Zenon, <1>8, <1>10
    <3> QED BY <1>2, <3>2, <3>3
  <2>2. ASSUME NEW g \in DOMAIN new, NEW j \in (i + 1)..Len(l)
        PROVE  new[g].ptr + new[g].size < l[j].ptr
    <3>1. j \in DOMAIN l /\ j > i
      BY <1>1
    <3>2. z < l[j].ptr /\ l[j].ptr \in Int
      BY <1>1, <1>6, <3>1
    <3>3. \/ new[g].ptr = a /\ new[g].size = x - a
          \/ new[g].ptr = y /\ new[g].size = z - y
      BY Zenon, <1>8, <1>10
    <3> QED BY <1>2, <3>2, <3>3
  <2> QED BY Zenon, <2>1, <2>2
<1>12. /\ r \in Seq(Block) /\ Ascending(r)
       /\ Range(r) = {l[j] : j \in 1..(i - 1)} \cup Range(new) \cup {l[j] : j \in (i + 1)..Len(l)}
  <2>1. i \in Int /\ 1 <= i /\ i <= i + 1 /\ i <= Len(l)
    BY <1>1
  <2>2. new \in Seq(Block) /\ Ascending(new) /\ l \in Seq(Block) /\ Ascending(l)
    BY <1>4, <1>9
  <2>3. SplicedInOrder(l, i, i, new)
    BY Zenon, <1>11, <2>1, <2>2, SplicedOrder
  <2> QED BY Zenon, <1>3, <2>3 DEF SplicedInOrder
<1>13. \A e : e \in Range(r) <=>
          \/ \E j \in DOMAIN l \ {i} : e = l[j]
          \/ MinBlock <= x - a /\ e = u
          \/ MinBlock <= z - y /\ e = v
  <2>1. \A j : j \in DOMAIN l \ {i} <=> j \in 1..(i - 1) \/ j \in (i + 1)..Len(l)
    BY <1>1
  <2>2. \A e : e \in Range(r) <=> \/ \E j \in 1..(i - 1) : e = l[j]
                                  \/ e \in Range(new)
                                  \/ \E j \in (i + 1)..Len(l) : e = l[j]
    BY <1>12
  <2>3. \A e : (\E j \in DOMAIN l \ {i} : e = l[j]) <=>
                  (\E j \in 1..(i - 1) : e = l[j]) \/ (\E j \in (i + 1)..Len(l) : e = l[j])
    BY Zenon, <2>1
  <2> QED BY Zenon, <1>9, <2>2, <2>3
<1>14. Whole(r)
  <2>1. \A e \in Range(r) : InHeap(e)
    <3>1. \A j \in DOMAIN l : InHeap(l[j])
      BY DEF Whole
    <3>2. MinBlock <= x - a => InHeap(u)
      BY <1>2, <1>7, <1>8, Constants DEF InHeap
    <3>3. MinBlock <= z - y => InHeap(v)
      BY <1>2, <1>7, <1>8, Constants DEF InHeap
    <3> QED BY Zenon, <1>13, <3>1, <3>2, <3>3
  <2>2. \A j \in DOMAIN r : InHeap(r[j])
    BY Zenon, <2>1 DEF Range
  <2> QED BY Zenon, <1>12, <2>2 DEF Whole
<1>15. ASSUME NEW c
       PROVE  c \in CellsIn(r) <=>
                 /\ c \in CellsIn(l)
                 /\ Holds(l[i], c) => \/ c < x /\ MinBlock <= x - a
                                      \/ y <= c /\ MinBlock <= z - y
  <2>1. c \in CellsIn(r) <=> c \in Int /\ \E e \in Range(r) : Holds(e, c)
    BY Zenon, <1>14, CellIn DEF Range
  <2>2. c \in CellsIn(l) <=> c \in Int /\ \E j \in DOMAIN l : Holds(l[j], c)
    BY Zenon, CellIn
  <2>3. c \in CellsIn(r) <=>
           /\ c \in Int
           /\ \/ \E j \in DOMAIN l \ {i} : Holds(l[j], c)
              \/ MinBlock <= x - a /\ Holds(u, c)
              \/ MinBlock <= z - y /\ Holds(v, c)
    BY Zenon, <1>13, <2>1
  <2>4. ASSUME c \in Int
        PROVE  /\ Holds(u, c) <=> a <= c /\ c < x
               /\ Holds(v, c) <=> y <= c /\ c < z
               /\ \A j \in DOMAIN l \ {i} : Holds(l[j], c) => ~Holds(l[i], c)
    <3>1. Holds(u, c) <=> a <= c /\ c < x
      BY <1>2, <1>8, <2>4 DEF Holds
    <3>2. Holds(v, c) <=> y <= c /\ c < z
      BY <1>2, <1>8, <2>4 DEF Holds
    <3>3. ASSUME NEW j \in DOMAIN l \ {i}, Holds(l[j], c) PROVE ~Holds(l[i], c)
      <4>1. l[j].ptr <= c /\ c < l[j].ptr + l[j].size
        BY <3>3 DEF Holds
      <4>2. /\ l[j].ptr \in Int /\ l[j].size \in Int
            /\ l[j].ptr + l[j].size < a \/ z < l[j].ptr
        <5>1. j < i \/ j > i
          BY <1>1
        <5> QED BY Zenon, <1>1, <1>6, <5>1
      <4>3. ~(a <= c /\ c < z)
        BY <1>2, <2>4, <4>1, <4>2
      <4> QED BY Zenon, <1>5, <4>3
    <3> QED BY Zenon, <3>1, <3>2, <3>3
  <2>5. CASE c \in Int
    <3>1. Holds(u, c) => Holds(l[i], c) /\ c < x
      BY <1>2, <1>5, <2>4, <2>5
    <3>2. Holds(v, c) => Holds(l[i], c) /\ y <= c
      BY <1>2, <1>5, <2>4, <2>5
    <3>3. Holds(l[i], c) /\ c < x => Holds(u, c)
      BY <1>2, <1>5, <2>4, <2>5
    <3>4. Holds(l[i], c) /\ y <= c => Holds(v, c)
      BY <1>2, <1>5, <2>4, <2>5
    <3> QED BY Zenon, <2>2, <2>3, <2>4, <2>5, <3>1, <3>2, <3>3, <3>4
  <2>6. CASE c \notin Int
    BY Zenon, <2>2, <2>3, <2>6
  <2> QED BY Zenon, <2>5, <2>6
<1>16. ASSUME NEW e \in Range(r)
       PROVE  \/ \E j \in DOMAIN l \ {i} : e = l[j]
              \/ e.ptr = a /\ e.ptr + e.size = x
              \/ e.ptr = y /\ e.ptr + e.size = z
  <2>1. u.ptr + u.size = x /\ v.ptr + v.size = z
    BY <1>2, <1>8
  <2>2. (\E j \in DOMAIN l \ {i} : e = l[j]) \/ e = u \/ e = v
    BY Zenon, <1>13
  <2>3. e = u => e.ptr = a /\ e.ptr + e.size = x
    BY Zenon, <1>8, <2>1
  <2>4. e = v => e.ptr = y /\ e.ptr + e.size = z
    BY Zenon, <1>8, <2>1
  <2> QED BY Zenon, <2>2, <2>3, <2>4
<1> QED BY Zenon, <1>14, <1>15, <1>16 DEF r, a, z, CutResult

\* free_memblock puts the block [x, y) in the place of the blocks from the p-th to
\* the q-th, which it takes over.
JoinAt(l, p, q, x, y) == Spliced(l, p, q, <<[ptr |-> x, size |-> y - x]>>)

\* The list after it.
LEMMA Joining ==
    ASSUME NEW l, Whole(l), NEW p \in Int, NEW q \in Int, NEW x \in Int, NEW y \in Int,
           1 <= p, p <= q + 1, q <= Len(l),
           Base <= x, x + MinBlock <= y, y <= Base + HeapSize,
           \A i \in 1..(p - 1) : l[i].ptr + l[i].size < x,
           \A i \in p..q : x <= l[i].ptr /\ l[i].ptr + l[i].size <= y,
           \A i \in (q + 1)..Len(l) : y < l[i].ptr
    PROVE  /\ Whole(JoinAt(l, p, q, x, y))
           /\ \A c : c \in CellsIn(JoinAt(l, p, q, x, y)) <=>
                        c \in CellsIn(l) \/ (c \in Int /\ x <= c /\ c < y)
           /\ \A e \in Range(JoinAt(l, p, q, x, y)) :
                 (\E i \in DOMAIN l : e = l[i]) \/ (e.ptr = x /\ e.ptr + e.size = y)
<1> DEFINE u == [ptr |-> x, size |-> y - x]
           new == <<u>>
           r == JoinAt(l, p, q, x, y)
<1>1. /\ Len(l) \in Nat /\ DOMAIN l = 1..Len(l)
      /\ \A j \in DOMAIN l : l[j].ptr \in Int /\ l[j].size \in Int /\ l[j].size > 0
    BY WholeTypes
<1>2. r = Spliced(l, p, q, new)
    BY Zenon DEF JoinAt
<1>3. l \in Seq(Block) /\ Ascending(l)
    BY DEF Whole
<1>4. u.ptr = x /\ u.size = y - x /\ u \in Block
    BY DEF Block
<1>5. u.ptr + u.size = y
    BY <1>4
<1> HIDE DEF u
<1>6. new \in Seq(Block) /\ DOMAIN new = {1} /\ new[1] = u /\ Range(new) = {u}
    BY <1>4 DEF Range
<1>7. Ascending(new)
    BY <1>6 DEF Ascending
<1> HIDE DEF r, new
<1>8. /\ r \in Seq(Block) /\ Ascending(r)
      /\ Range(r) = {l[j] : j \in 1..(p - 1)} \cup Range(new) \cup {l[j] : j \in (q + 1)..Len(l)}
  <2>1. \A j \in 1..(p - 1), g \in DOMAIN new : l[j].ptr + l[j].size < new[g].ptr
    BY <1>4, <1>6
  <2>2. \A g \in DOMAIN new, j \in (q + 1)..Len(l) : new[g].ptr + new[g].size < l[j].ptr
    BY <1>5, <1>6
  <2>3. SplicedInOrder(l, p, q, new)
    BY Zenon, <1>3, <1>6, <1>7, <2>1, <2>2, SplicedOrder
  <2> QED BY Zenon, <1>2, <2>3 DEF SplicedInOrder
<1>9. \A e : e \in Range(r) <=> \/ \E j \in 1..(p - 1) : e = l[j]
                                \/ e = u
                                \/ \E j \in (q + 1)..Len(l) : e = l[j]
    BY Zenon, <1>6, <1>8
<1>10. \A j : j \in DOMAIN l <=> j \in 1..(p - 1) \/ j \in p..q \/ j \in (q + 1)..Len(l)
    BY <1>1
<1>11. Whole(r)
  <2>1. InHeap(u)
    BY <1>4, <1>5, Constants DEF InHeap
  <2>2. \A j \in DOMAIN l : InHeap(l[j])
    BY DEF Whole
  <2>3. \A e \in Range(r) : InHeap(e)
    BY Zenon, <1>9, <1>10, <2>1, <2>2
  <2>4. \A j \in DOMAIN r : InHeap(r[j])
    BY Zenon, <2>3 DEF Range
  <2> QED BY Zenon, <1>8, <2>4 DEF Whole
<1>12. ASSUME NEW c
       PROVE  c \in CellsIn(r) <=> c \in CellsIn(l) \/ (c \in Int /\ x <= c /\ c < y)
  <2>1. c \in CellsIn(r) <=> c \in Int /\ \E e \in Range(r) : Holds(e, c)
    BY Zenon, <1>11, CellIn DEF Range
  <2>2. c \in CellsIn(l) <=> c \in Int /\ \E j \in DOMAIN l : Holds(l[j], c)
    BY Zenon, CellIn
  <2>3. c \in CellsIn(r) <=>
           /\ c \in Int
           /\ \/ \E j \in 1..(p - 1) : Holds(l[j], c)
              \/ Holds(u, c)
              \/ \E j \in (q + 1)..Len(l) : Holds(l[j], c)
    BY Zenon, <1>9, <2>1
  <2>4. Holds(u, c) <=> x <= c /\ c < y
    BY Zenon, <1>4, <1>5 DEF Holds
  <2>5. ASSUME c \in Int, NEW j \in p..q, Holds(l[j], c) PROVE x <= c /\ c < y
    <3>1. j \in DOMAIN l
      BY <1>1
    <3>2. l[j].ptr \in Int /\ l[j].size \in Int /\ x <= l[j].ptr /\ l[j].ptr + l[j].size <= y
      BY <1>1, <3>1
    <3> QED BY <2>5, <3>2 DEF Holds
  <2> QED BY Zenon, <1>10, <2>2, <2>3, <2>4, <2>5
<1>13. ASSUME NEW e \in Range(r)
       PROVE  (\E i \in DOMAIN l : e = l[i]) \/ (e.ptr = x /\ e.ptr + e.size = y)
    BY Zenon, <1>4, <1>5, <1>9, <1>10
<1> QED BY Zenon, <1>11, <1>12, <1>13 DEF r

\* free_memblock: the list stays whole, the cells of the block and no others are
\* free again, and every block starts and ends where one did before or where the
\* freed one does.
LEMMA Releasing ==
    ASSUME NEW l, Whole(l), NEW ptr \in Int, NEW n \in Int, MinBlock <= n,
           Base <= ptr, ptr + n <= Base + HeapSize,
           \A i \in DOMAIN l : l[i].ptr + l[i].size <= ptr \/ ptr + n <= l[i].ptr
    PROVE  /\ Whole(Release(l, ptr, n))
           /\ \A c : c \in CellsIn(Release(l, ptr, n)) <=>
                        c \in CellsIn(l) \/ (c \in Int /\ ptr <= c /\ c < ptr + n)
           /\ \A e \in Range(Release(l, ptr, n)) :
                 /\ e.ptr = ptr \/ \E i \in DOMAIN l : e.ptr = l[i].ptr
                 /\ \/ e.ptr + e.size = ptr + n
                    \/ \E i \in DOMAIN l : e.ptr + e.size = l[i].ptr + l[i].size
<1> DEFINE z == ptr + n
           behind == {i \in DOMAIN l : l[i].ptr >= ptr + n}
           k == IF behind = {} THEN Len(l) + 1
                ELSE CHOOSE i \in behind : \A j \in behind : i <= j
           front == {i \in 1..(k - 1) : l[i].ptr + l[i].size = ptr}
           m == IF front = {} THEN k ELSE CHOOSE i \in front : TRUE
           x == IF front = {} THEN ptr ELSE l[m].ptr
           q == IF k \in behind /\ l[k].ptr = ptr + n THEN k ELSE k - 1
           y == IF q = k THEN l[k].ptr + l[k].size ELSE ptr + n
<1>1. /\ Len(l) \in Nat /\ DOMAIN l = 1..Len(l)
      /\ \A j \in DOMAIN l : l[j].ptr \in Int /\ l[j].size \in Int /\ l[j].size > 0
    BY WholeTypes
<1>2. /\ \A i, j \in DOMAIN l : i < j => l[i].ptr + l[i].size < l[j].ptr
      /\ \A j \in DOMAIN l : Base <= l[j].ptr /\ l[j].ptr + l[j].size <= Base + HeapSize
    BY DEF Whole, Ascending, InHeap
<1>3. /\ k \in 1..(Len(l) + 1)
      /\ \A j \in DOMAIN l : IF j < k THEN l[j].ptr + l[j].size <= ptr ELSE z <= l[j].ptr
      /\ k \in behind <=> k <= Len(l)
  <2>1. CASE behind = {}
    <3>1. k = Len(l) + 1
      BY <2>1
    <3> HIDE DEF k
    <3> QED BY <1>1, <2>1, <3>1
  <2>2. CASE behind # {}
    <3>1. behind \in SUBSET Nat
      BY <1>1
    <3>2. k \in behind /\ \A j \in behind : k <= j
      <4> HIDE DEF behind
      <4>1. \E i \in behind : \A j \in behind : i <= j
        BY Zenon, <2>2, <3>1, NatMin
      <4> QED BY Zenon, <2>2, <4>1
    <3> HIDE DEF k
    <3>3. k \in DOMAIN l /\ z <= l[k].ptr /\ k \in Int
      BY <1>1, <3>2
    <3>4. ASSUME NEW j \in DOMAIN l, j < k PROVE l[j].ptr + l[j].size <= ptr
      BY <1>1, <3>2, <3>3, <3>4
    <3>5. ASSUME NEW j \in DOMAIN l, ~(j < k) PROVE z <= l[j].ptr
      <4>1. j = k \/ l[k].ptr + l[k].size < l[j].ptr
        BY <1>1, <1>2, <3>3, <3>5
      <4> QED BY <1>1, <3>3, <4>1
    <3>6. k \in 1..(Len(l) + 1) /\ k <= Len(l)
      BY <1>1, <3>3
    <3> QED BY Zenon, <3>2, <3>4, <3>5, <3>6
  <2> QED BY Zenon, <2>1, <2>2
<1>4. k \in Int /\ 1 <= k /\ k <= Len(l) + 1
    BY <1>1, <1>3
<1> HIDE DEF k, behind
<1>5. /\ m = k /\ x = ptr /\ \A i \in 1..(k - 1) : l[i].ptr + l[i].size # ptr
      \/ /\ k > 1 /\ m = k - 1 /\ x = l[m].ptr /\ l[m].ptr + l[m].size = ptr
  <2>1. CASE front = {}
    <3>1. m = k /\ x = ptr
      BY Zenon, <2>1
    <3>2. \A i \in 1..(k - 1) : l[i].ptr + l[i].size # ptr
      BY Zenon, <2>1
    <3> QED BY Zenon, <3>1, <3>2
  <2>2. CASE front # {}
    <3>1. m \in front /\ x = l[m].ptr
      BY Zenon, <2>2
    <3> HIDE DEF m, x
    <3>2. m \in 1..(k - 1) /\ l[m].ptr + l[m].size = ptr
      BY Zenon, <3>1
    <3>3. k > 1 /\ m \in DOMAIN l /\ k - 1 \in DOMAIN l /\ k - 1 < k /\ m <= k - 1 /\ m \in Int
      BY <1>1, <1>4, <3>2
    <3>4. ~(m < k - 1)
      <4> SUFFICES ASSUME m < k - 1
                   PROVE  FALSE
        OBVIOUS
      <4>1. l[m].ptr + l[m].size < l[k - 1].ptr /\ l[k - 1].ptr + l[k - 1].size <= ptr
        BY Zenon, <1>2, <1>3, <3>3
      <4>2. l[k - 1].ptr \in Int /\ l[k - 1].size \in Int /\ l[k - 1].size > 0
        BY Zenon, <1>1, <3>3
      <4>3. ptr < l[k - 1].ptr
        BY Zenon, <3>2, <4>1
      <4> QED BY <4>1, <4>2, <4>3
    <3>5. m = k - 1
      BY <1>4, <3>3, <3>4
    <3> QED BY Zenon, <3>1, <3>2, <3>3, <3>5
  <2> QED BY Zenon, <2>1, <2>2
<1>6. \/ q = k /\ k <= Len(l) /\ l[k].ptr = z /\ y = l[k].ptr + l[k].size
      \/ q = k - 1 /\ y = z /\ (k <= Len(l) => l[k].ptr # z)
  <2>1. CASE k \in behind /\ l[k].ptr = ptr + n
    <3>1. q = k
      BY Zenon, <2>1
    <3>2. y = l[k].ptr + l[k].size
      BY Zenon, <3>1
    <3> QED BY Zenon, <1>3, <2>1, <3>1, <3>2
  <2>2. CASE ~(k \in behind /\ l[k].ptr = ptr + n)
    <3>1. q = k - 1
      BY Zenon, <2>2
    <3>2. q # k
      BY <1>4, <3>1
    <3>3. y = z
      BY Zenon, <3>2
    <3> QED BY Zenon, <1>3, <2>2, <3>1, <3>3
  <2> QED BY Zenon, <2>1, <2>2
<1>7. Release(l, ptr, n) = SubSeq(l, 1, m - 1) \o SubSeq(l, m + 1, k - 1)
         \o <<[ptr |-> x, size |-> y - x]>> \o SubSeq(l, q + 1, Len(l))
    BY Zenon DEF Release, k, behind
<1> HIDE DEF front, m, x, q, y, z
<1>8. z \in Int /\ z = ptr + n
    BY DEF z
<1>9. m \in Int /\ 1 <= m /\ m <= k /\ k <= m + 1 /\ q \in Int /\ k - 1 <= q /\ q <= Len(l)
    BY <1>1, <1>4, <1>5, <1>6
<1>10. Release(l, ptr, n) = JoinAt(l, m, q, x, y)
  <2> DEFINE a == SubSeq(l, 1, m - 1)
  <2>1. l \in Seq(Block)
    BY DEF Whole
  <2>2. a \in Seq(Block)
    BY <1>1, <1>4, <1>9, <2>1
  <2>3. SubSeq(l, m + 1, k - 1) = <<>>
    BY <1>4, <1>9, <2>1
  <2> HIDE DEF a
  <2>4. a \o <<>> = a
    BY Zenon, <2>2, JoinedEmpty
  <2> QED BY Zenon, <1>7, <2>3, <2>4 DEF a, JoinAt, Spliced
<1>11. /\ x \in Int /\ y \in Int /\ Base <= x /\ x <= ptr /\ z <= y /\ y <= Base + HeapSize
  <2>1. x \in Int /\ Base <= x /\ x <= ptr
    <3>1. CASE m = k /\ x = ptr
      BY <3>1
    <3>2. CASE k > 1 /\ m = k - 1 /\ x = l[m].ptr /\ l[m].ptr + l[m].size = ptr
      <4>1. m \in DOMAIN l
        BY <1>1, <1>4, <3>2
      <4> QED BY <1>1, <1>2, <3>2, <4>1
    <3> QED BY Zenon, <1>5, <3>1, <3>2
  <2>2. y \in Int /\ z <= y /\ y <= Base + HeapSize
    <3>1. CASE q = k /\ k <= Len(l) /\ l[k].ptr = z /\ y = l[k].ptr + l[k].size
      <4>1. k \in DOMAIN l
        BY <1>1, <1>4, <3>1
      <4> QED BY <1>1, <1>2, <1>8, <3>1, <4>1
    <3>2. CASE y = z
      BY <1>8, <3>2
    <3> QED BY Zenon, <1>6, <3>1, <3>2
  <2> QED BY Zenon, <2>1, <2>2
<1>12. \A i \in 1..(m - 1) : l[i].ptr + l[i].size < x
  <2> SUFFICES ASSUME NEW i \in 1..(m - 1) PROVE l[i].ptr + l[i].size < x
    OBVIOUS
  <2>1. i \in DOMAIN l /\ i < k /\ i \in Int /\ i < m
    BY <1>1, <1>4, <1>9
  <2>2. l[i].ptr + l[i].size <= ptr /\ l[i].ptr \in Int /\ l[i].size \in Int
    BY Zenon, <1>1, <1>3, <2>1
  <2>3. CASE m = k /\ x = ptr /\ \A j \in 1..(k - 1) : l[j].ptr + l[j].size # ptr
    BY <2>2, <2>3
  <2>4. CASE k > 1 /\ m = k - 1 /\ x = l[m].ptr
    <3>1. m \in DOMAIN l
      BY <1>1, <1>4, <2>4
    <3> QED BY Zenon, <1>2, <2>1, <2>4, <3>1
  <2> QED BY Zenon, <1>5, <2>3, <2>4
<1>13. \A i \in m..q : x <= l[i].ptr /\ l[i].ptr + l[i].size <= y
  <2> SUFFICES ASSUME NEW i \in m..q PROVE x <= l[i].ptr /\ l[i].ptr + l[i].size <= y
    OBVIOUS
  <2>1. i \in DOMAIN l /\ i \in Int /\ m <= i /\ i <= q
    BY <1>1, <1>9
  <2>2. l[i].ptr \in Int /\ l[i].size \in Int /\ l[i].size > 0
    BY Zenon, <1>1, <2>1
  <2>3. CASE i < k
    <3>1. m = k - 1 /\ i = m /\ x = l[m].ptr /\ l[m].ptr + l[m].size = ptr
      BY <1>4, <1>5, <1>9, <2>1, <2>3
    <3> QED BY <1>8, <1>11, <2>2, <3>1, Constants
  <2>4. CASE ~(i < k)
    <3>1. q = k /\ i = k /\ l[k].ptr = z /\ y = l[k].ptr + l[k].size
      BY <1>4, <1>6, <1>9, <2>1, <2>4
    <3> QED BY <1>8, <1>11, <2>2, <3>1, Constants
  <2> QED BY Zenon, <2>3, <2>4
<1>14. \A i \in (q + 1)..Len(l) : y < l[i].ptr
  <2> SUFFICES ASSUME NEW i \in (q + 1)..Len(l) PROVE y < l[i].ptr
    OBVIOUS
  <2>1. i \in DOMAIN l /\ i \in Int /\ q < i /\ ~(i < k)
    BY <1>1, <1>4, <1>9
  <2>2. l[i].ptr \in Int /\ z <= l[i].ptr
    BY Zenon, <1>1, <1>3, <2>1
  <2>3. CASE q = k /\ k <= Len(l) /\ y = l[k].ptr + l[k].size
    <3>1. k \in DOMAIN l /\ k < i
      BY <1>1, <1>4, <2>1, <2>3
    <3> QED BY Zenon, <1>2, <2>1, <2>3, <3>1
  <2>4. CASE q = k - 1 /\ y = z /\ (k <= Len(l) => l[k].ptr # z)
    <3>1. CASE i = k
      <4>1. k <= Len(l)
        BY <1>1, <2>1, <3>1
      <4>2. l[i].ptr # z
        BY Zenon, <2>4, <3>1, <4>1
      <4>3. z < l[i].ptr
        BY <1>8, <2>2, <4>2
      <4> QED BY Zenon, <2>4, <4>3
    <3>2. CASE i # k
      <4>1. k \in DOMAIN l /\ k < i
        BY <1>1, <1>4, <2>1, <3>2
      <4>2. z <= l[k].ptr /\ l[k].ptr \in Int /\ l[k].size \in Int /\ l[k].size > 0
            /\ l[k].ptr + l[k].size < l[i].ptr
        BY <1>1, <1>2, <1>3, <1>4, <2>1, <4>1
      <4>3. z < l[i].ptr
        BY <1>8, <2>2, <4>2
      <4> QED BY Zenon, <2>4, <4>3
    <3> QED BY Zenon, <3>1, <3>2
  <2> QED BY Zenon, <1>6, <2>3, <2>4
<1> DEFINE r == JoinAt(l, m, q, x, y)
<1>15. /\ Whole(r)
       /\ \A c : c \in CellsIn(r) <=> c \in CellsIn(l) \/ (c \in Int /\ x <= c /\ c < y)
       /\ \A e \in Range(r) :
             (\E i \in DOMAIN l : e = l[i]) \/ (e.ptr = x /\ e.ptr + e.size = y)
  <2>1. m <= q + 1 /\ x + MinBlock <= y
    BY <1>4, <1>8, <1>9, <1>11, Constants
  <2>2. m \in Int /\ q \in Int /\ x \in Int /\ y \in Int /\ 1 <= m /\ q <= Len(l)
        /\ Base <= x /\ y <= Base + HeapSize
    BY Zenon, <1>9, <1>11
  <2> QED BY <1>12, <1>13, <1>14, <2>1, <2>2, Joining
<1> HIDE DEF r
<1>16. ASSUME NEW c \in Int, x <= c, c < y, c \notin CellsIn(l) PROVE ptr <= c /\ c < z
  <2>1. \A i \in DOMAIN l : ~(l[i].ptr <= c /\ c < l[i].ptr + l[i].size)
    BY Zenon, <1>16, CellIn DEF Holds
  <2>2. ptr <= c
    <3>1. CASE m = k /\ x = ptr
      BY <1>16, <3>1
    <3>2. CASE k > 1 /\ m = k - 1 /\ x = l[m].ptr /\ l[m].ptr + l[m].size = ptr
      <4>1. m \in DOMAIN l
        BY <1>1, <1>4, <3>2
      <4>2. ~(x <= c /\ c < ptr)
        BY Zenon, <2>1, <3>2, <4>1
      <4> QED BY <1>16, <4>2
    <3> QED BY Zenon, <1>5, <3>1, <3>2
  <2>3. c < z
    <3>1. CASE q = k /\ k <= Len(l) /\ l[k].ptr = z /\ y = l[k].ptr + l[k].size
      <4>1. k \in DOMAIN l
        BY <1>1, <1>4, <3>1
      <4>2. ~(z <= c /\ c < y)
        BY Zenon, <2>1, <3>1, <4>1
      <4> QED BY <1>8, <1>16, <4>2
    <3>2. CASE y = z
      BY <1>16, <3>2
    <3> QED BY Zenon, <1>6, <3>1, <3>2
  <2> QED BY Zenon, <2>2, <2>3
<1>17. ASSUME NEW c \in Int, ptr <= c, c < z PROVE x <= c /\ c < y
    BY <1>8, <1>11, <1>17
<1>18. \A c : c \in CellsIn(r) <=> c \in CellsIn(l) \/ (c \in Int /\ ptr <= c /\ c < z)
    BY Zenon, <1>15, <1>16, <1>17
<1>19. ASSUME NEW e \in Range(r)
       PROVE  /\ e.ptr = ptr \/ \E i \in DOMAIN l : e.ptr = l[i].ptr
              /\ e.ptr + e.size = z \/ \E i \in DOMAIN l : e.ptr + e.size = l[i].ptr + l[i].size
  <2>1. x = ptr \/ \E i \in DOMAIN l : x = l[i].ptr
    <3>1. k > 1 /\ m = k - 1 => m \in DOMAIN l
      BY <1>1, <1>4
    <3> QED BY Zenon, <1>5, <3>1
  <2>2. y = z \/ \E i \in DOMAIN l : y = l[i].ptr + l[i].size
    <3>1. k <= Len(l) => k \in DOMAIN l
      BY <1>1, <1>4
    <3> QED BY Zenon, <1>6, <3>1
  <2> QED BY Zenon, <1>15, <2>1, <2>2
<1> QED BY Zenon, <1>10, <1>15, <1>18, <1>19 DEF r, z

\* The cells of a block that is cut out of the list.
LEMMA CutCells ==
    ASSUME NEW l, Whole(l), NEW i \in DOMAIN l, NEW x \in Int, NEW y \in Int,
           l[i].ptr <= x, x < y, y <= l[i].ptr + l[i].size
    PROVE  /\ Whole(CutAt(l, i, x, y))
           /\ x..(y - 1) \subseteq CellsIn(l)
           /\ CellsIn(CutAt(l, i, x, y)) \subseteq CellsIn(l) \ x..(y - 1)
<1>1. /\ Whole(CutAt(l, i, x, y))
      /\ \A c : c \in CellsIn(CutAt(l, i, x, y)) <=>
                 /\ c \in CellsIn(l)
                 /\ Holds(l[i], c) => \/ c < x /\ MinBlock <= x - l[i].ptr
                                      \/ y <= c /\ MinBlock <= (l[i].ptr + l[i].size) - y
    BY Zenon, Cutting DEF CutResult
<1>2. l[i].ptr \in Int /\ l[i].size \in Int
    BY Zenon, WholeTypes
<1>3. ASSUME NEW c \in x..(y - 1) PROVE c \in Int /\ Holds(l[i], c) /\ ~(c < x) /\ ~(y <= c)
    BY <1>2 DEF Holds
<1>4. x..(y - 1) \subseteq CellsIn(l)
    BY Zenon, <1>3, CellIn
<1>5. CellsIn(CutAt(l, i, x, y)) \subseteq CellsIn(l) \ x..(y - 1)
    BY Zenon, <1>1, <1>3
<1> QED BY Zenon, <1>1, <1>4, <1>5

\* The cells of a block that is given back to it.
ReleaseResult(l, ptr, n) ==
    /\ Whole(Release(l, ptr, n))
    /\ CellsIn(Release(l, ptr, n)) = CellsIn(l) \cup ptr..(ptr + n - 1)
    /\ \A e \in Range(Release(l, ptr, n)) :
          /\ e.ptr = ptr \/ \E i \in DOMAIN l : e.ptr = l[i].ptr
          /\ \/ e.ptr + e.size = ptr + n
             \/ \E i \in DOMAIN l : e.ptr + e.size = l[i].ptr + l[i].size

\* They were not in the list before.
LEMMA ReleaseCells ==
    ASSUME NEW l, Whole(l), NEW ptr \in Int, NEW n \in Int, MinBlock <= n,
           Base <= ptr, ptr + n <= Base + HeapSize, ptr..(ptr + n - 1) \cap CellsIn(l) = {}
    PROVE  ReleaseResult(l, ptr, n)
<1>1. \A i \in DOMAIN l : l[i].ptr + l[i].size <= ptr \/ ptr + n <= l[i].ptr
  <2> SUFFICES ASSUME NEW i \in DOMAIN l, ~(l[i].ptr + l[i].size <= ptr),
                      ~(ptr + n <= l[i].ptr)
               PROVE  FALSE
    BY Zenon
  <2>1. l[i].ptr \in Int /\ l[i].size \in Int /\ l[i].size > 0
    BY Zenon, WholeTypes
  <2> DEFINE c == IF ptr < l[i].ptr THEN l[i].ptr ELSE ptr
  <2>2. c \in Int /\ c \in ptr..(ptr + n - 1) /\ l[i].ptr <= c /\ c < l[i].ptr + l[i].size
    BY <2>1, Constants
  <2> HIDE DEF c
  <2>3. c \in CellsIn(l)
    BY Zenon, <2>2, CellIn DEF Holds
  <2> QED BY Zenon, <2>2, <2>3
<1>2. /\ Whole(Release(l, ptr, n))
      /\ \A c : c \in CellsIn(Release(l, ptr, n)) <=>
                   c \in CellsIn(l) \/ (c \in Int /\ ptr <= c /\ c < ptr + n)
      /\ \A e \in Range(Release(l, ptr, n)) :
            /\ e.ptr = ptr \/ \E i \in DOMAIN l : e.ptr = l[i].ptr
            /\ \/ e.ptr + e.size = ptr + n
               \/ \E i \in DOMAIN l : e.ptr + e.size = l[i].ptr + l[i].size
    BY <1>1, Releasing
<1>3. \A c : c \in ptr..(ptr + n - 1) <=> c \in Int /\ ptr <= c /\ c < ptr + n
    OBVIOUS
<1>4. CellsIn(Release(l, ptr, n)) = CellsIn(l) \cup ptr..(ptr + n - 1)
    BY Zenon, <1>2, <1>3
<1> QED BY Zenon, <1>2, <1>4 DEF ReleaseResult

-----------------------------------------------------------------------------
(***************************************************************************)
(* The invariant.                                                          *)
(***************************************************************************)

\* The block of an owner with its rounded size, and the cells in use.
BlockOf(o) == [ptr |-> blk[o].ptr, size |-> Actual(blk[o].size)]
Owned(o) == IF Held(o) THEN ActualCells(o) ELSE {}
Used == UNION {Owned(o) : o \in Owners}

\* The free list is whole, blocks lie in the heap, no cell is in two places, the
\* request is for somebody who holds nothing yet, and the statistics are right.
HeapInv ==
    /\ TypeOK
    /\ Whole(free_blocks)
    /\ \A o \in Owners : Held(o) => InHeap(BlockOf(o))
    /\ \A o \in Owners : Owned(o) \cap FreeCells = {}
    /\ \A o, p \in Owners : o # p => Owned(o) \cap Owned(p) = {}
    /\ req # NoReq => /\ req.for \in Owners /\ ~Held(req.for)
                      /\ req.kind # "none" /\ req.size # 0
                      /\ req.old # 0 => Held(req.old)
    /\ usedmem = Cardinality(Used) /\ freemem = HeapSize - usedmem

\* What HeapInv says of a block that is held.
LEMMA HeldFacts ==
    ASSUME HeapInv, NEW o \in Owners, Held(o)
    PROVE  /\ blk[o].ptr \in Int /\ Actual(blk[o].size) \in Int
           /\ MinBlock <= Actual(blk[o].size) /\ Base <= blk[o].ptr
           /\ blk[o].ptr + Actual(blk[o].size) <= Base + HeapSize
           /\ Actual(blk[o].size) % MinBlock = 0
           /\ Owned(o) = blk[o].ptr..(blk[o].ptr + Actual(blk[o].size) - 1)
           /\ Owned(o) \cap CellsIn(free_blocks) = {}
<1>1. blk[o] \in [ptr : Nat, size : 0..HeapSize, kind : Kinds \cup {"none"}]
    BY Zenon DEF HeapInv, TypeOK
<1>2. blk[o].ptr \in Int /\ blk[o].size \in Int /\ 0 <= blk[o].size /\ blk[o].size < Word
    BY <1>1, Constants
<1>3. Actual(blk[o].size) \in Int /\ Actual(blk[o].size) % MinBlock = 0
    BY Zenon, <1>2, Rounding
<1>4. InHeap(BlockOf(o))
    BY Zenon DEF HeapInv
<1>5. BlockOf(o).ptr = blk[o].ptr /\ BlockOf(o).size = Actual(blk[o].size)
    BY DEF BlockOf
<1>6. Owned(o) = blk[o].ptr..(blk[o].ptr + Actual(blk[o].size) - 1)
    BY Zenon DEF Owned, ActualCells
<1>7. Owned(o) \cap CellsIn(free_blocks) = {}
    BY Zenon DEF HeapInv, FreeCells, CellsIn
<1> QED BY Zenon, <1>2, <1>3, <1>4, <1>5, <1>6, <1>7 DEF InHeap

\* The number of cells of a block.
LEMMA IntervalSize ==
    ASSUME NEW a \in Int, NEW n \in Int, n > 0
    PROVE  IsFiniteSet(a..(a + n - 1)) /\ Cardinality(a..(a + n - 1)) = n
<1> DEFINE b == a + n - 1
<1>1. b \in Int /\ ~(a > b) /\ b - a + 1 = n
    OBVIOUS
<1> HIDE DEF b
<1>2. IsFiniteSet(a..b) /\ Cardinality(a..b) = IF a > b THEN 0 ELSE b - a + 1
    BY Zenon, <1>1, FS_Interval
<1> QED BY Zenon, <1>1, <1>2 DEF b

\* The cells in use are cells of the heap, so there are finitely many.
LEMMA UsedFinite ==
    ASSUME HeapInv
    PROVE  /\ Used \subseteq Base..(Base + HeapSize - 1)
           /\ IsFiniteSet(Used) /\ Cardinality(Used) \in Nat
           /\ Cardinality(Used) <= HeapSize
<1>1. Used \subseteq Base..(Base + HeapSize - 1)
  <2> SUFFICES ASSUME NEW o \in Owners, NEW c \in Owned(o)
               PROVE  c \in Base..(Base + HeapSize - 1)
    BY Zenon DEF Used
  <2>1. Held(o)
    BY Zenon DEF Owned
  <2>2. c \in blk[o].ptr..(blk[o].ptr + Actual(blk[o].size) - 1)
    BY Zenon, <2>1, HeldFacts
  <2>3. /\ blk[o].ptr \in Int /\ Actual(blk[o].size) \in Int /\ Base <= blk[o].ptr
        /\ blk[o].ptr + Actual(blk[o].size) <= Base + HeapSize
    BY Zenon, <2>1, HeldFacts
  <2> QED BY <2>2, <2>3, Constants
<1>2. /\ IsFiniteSet(Base..(Base + HeapSize - 1))
      /\ Cardinality(Base..(Base + HeapSize - 1)) = HeapSize
  <2>1. HeapSize > 0
    BY Constants
  <2> QED BY Zenon, <2>1, IntervalSize, Constants
<1>3. IsFiniteSet(Used) /\ Cardinality(Used) <= Cardinality(Base..(Base + HeapSize - 1))
    BY Zenon, <1>1, <1>2, FS_Subset
<1>4. Cardinality(Used) \in Nat
    BY Zenon, <1>3, FS_CardinalityType
<1> QED BY Zenon, <1>1, <1>2, <1>3, <1>4

\* free_memblock gives the cells of a block back, to the list and in the statistics.
LEMMA FreeStep ==
    ASSUME HeapInv, NEW o \in Owners, Held(o),
           free_blocks' = free_memblock(o, free_blocks), blk' = [blk EXCEPT ![o] = Free0]
    PROVE  /\ Whole(free_blocks') /\ FreeCells' = FreeCells \cup Owned(o)
           /\ blk'[o] = Free0 /\ \A p \in Owners \ {o} : blk'[p] = blk[p]
           /\ Owned(o)' = {} /\ \A p \in Owners \ {o} : Owned(p)' = Owned(p)
           /\ Cardinality(Used') = Cardinality(Used) - Actual(blk[o].size)
<1> DEFINE n == Actual(blk[o].size)
           f == free_blocks'
<1>1. /\ blk[o].ptr \in Int /\ n \in Int /\ MinBlock <= n /\ Base <= blk[o].ptr
      /\ blk[o].ptr + n <= Base + HeapSize
      /\ Owned(o) = blk[o].ptr..(blk[o].ptr + n - 1)
      /\ Owned(o) \cap CellsIn(free_blocks) = {}
    BY Zenon, HeldFacts
<1>2. f = Release(free_blocks, blk[o].ptr, n)
    BY Zenon DEF free_memblock
<1> HIDE DEF n, f
<1>3. Whole(f) /\ CellsIn(f) = CellsIn(free_blocks) \cup blk[o].ptr..(blk[o].ptr + n - 1)
  <2>1. Whole(free_blocks)
    BY Zenon DEF HeapInv
  <2>2. blk[o].ptr..(blk[o].ptr + n - 1) \cap CellsIn(free_blocks) = {}
    BY Zenon, <1>1
  <2>3. ReleaseResult(free_blocks, blk[o].ptr, n)
    BY Zenon, <1>1, <2>1, <2>2, ReleaseCells
  <2> QED BY Zenon, <1>2, <2>3 DEF ReleaseResult
<1>4. FreeCells' = FreeCells \cup Owned(o)
    BY Zenon, <1>1, <1>3 DEF FreeCells, CellsIn, f
<1>5. blk \in [Owners -> [ptr : Nat, size : 0..HeapSize, kind : Kinds \cup {"none"}]]
    BY Zenon DEF HeapInv, TypeOK
<1>6. blk'[o] = Free0 /\ \A p \in Owners \ {o} : blk'[p] = blk[p]
    BY Zenon, <1>5
<1>7. Owned(o)' = {}
    BY <1>6 DEF Owned, Held, Free0
<1>8. \A p \in Owners \ {o} : Owned(p)' = Owned(p)
    BY Zenon, <1>6 DEF Owned, Held, ActualCells
<1>9. Used' = Used \ Owned(o)
  <2>1. \A p \in Owners \ {o} : Owned(p) \cap Owned(o) = {}
    BY Zenon DEF HeapInv
  <2>2. \A c : c \in Used' <=> \E p \in Owners : c \in Owned(p)'
    BY Zenon DEF Used
  <2>3. \A c : c \in Used <=> \E p \in Owners : c \in Owned(p)
    BY Zenon DEF Used
  <2>4. \A c : c \in Used' <=> c \in Used \ Owned(o)
    <3> SUFFICES ASSUME NEW c PROVE c \in Used' <=> c \in Used \ Owned(o)
      OBVIOUS
    <3>1. ASSUME c \in Used' PROVE c \in Used \ Owned(o)
      <4>1. PICK p \in Owners : c \in Owned(p)'
        BY Zenon, <2>2, <3>1
      <4>2. p # o
        BY Zenon, <1>7, <4>1
      <4> QED BY Zenon, <1>8, <2>1, <2>3, <4>1, <4>2
    <3>2. ASSUME c \in Used \ Owned(o) PROVE c \in Used'
      BY Zenon, <1>8, <2>2, <2>3, <3>2
    <3> QED BY Zenon, <3>1, <3>2
  <2> QED BY Zenon, <2>4
<1>10. Cardinality(Used') = Cardinality(Used) - n
  <2>1. IsFiniteSet(Used)
    BY Zenon, UsedFinite
  <2>2. Cardinality(Used \ Owned(o)) = Cardinality(Used) - Cardinality(Used \cap Owned(o))
    BY Zenon, <2>1, FS_Difference
  <2>3. Used \cap Owned(o) = Owned(o)
    BY Zenon DEF Used
  <2>4. n > 0
    BY <1>1, Constants
  <2>5. Cardinality(Owned(o)) = n
    BY Zenon, <1>1, <2>4, IntervalSize
  <2> QED BY Zenon, <1>9, <2>2, <2>3, <2>5
<1> QED BY Zenon, <1>3, <1>4, <1>6, <1>7, <1>8, <1>10 DEF n, f

\* alloc_memblock cuts the block at x out of the i-th free block.
Need == Actual(req.size)
Given(v) == IF v = 0 THEN {} ELSE Owned(v)
CutList(i, x) == CutAt(free_blocks, i, x, x + Need)
TakeAt(i, x) ==
    /\ req # NoReq /\ i \in DOMAIN free_blocks /\ x \in Int
    /\ x = free_blocks[i].ptr + PreSize(free_blocks[i], req)
    /\ free_blocks[i].ptr <= x /\ x + Need <= free_blocks[i].ptr + free_blocks[i].size
    /\ free_blocks' = IF req.old = 0 THEN CutList(i, x)
                      ELSE free_memblock(req.old, CutList(i, x))
    /\ blk' = [o \in Owners |->
                 IF o = req.for THEN [ptr |-> x, size |-> req.size, kind |-> req.kind]
                 ELSE IF o = req.old THEN Free0 ELSE blk[o]]

\* The request, while there is one.
LEMMA RequestFacts ==
    ASSUME HeapInv, req # NoReq
    PROVE  /\ req.size \in Int /\ 0 < req.size /\ req.size < Word
           /\ req.align \in Int /\ req.align > 0 /\ req.offset \in Int
           /\ req.align \in Aligns \cup {1} /\ req.offset \in Offsets \cup {0}
           /\ req.for \in Owners /\ ~Held(req.for) /\ req.kind \in Kinds
           /\ req.old # 0 => req.old \in Owners /\ Held(req.old) /\ req.old # req.for
           /\ Need \in Int /\ 0 <= Need /\ Need % MinBlock = 0
           /\ Need # 0 => req.size <= Need /\ MinBlock <= Need
<1>1. req \in [size : 0..(Word - 1), align : Aligns \cup {1}, offset : Offsets \cup {0},
               kind : Kinds \cup {"none"}, for : Owners \cup {0}, old : Owners \cup {0}]
    BY Zenon DEF HeapInv, TypeOK
<1>2. /\ req.for \in Owners /\ ~Held(req.for) /\ req.kind # "none" /\ req.size # 0
      /\ req.old # 0 => Held(req.old)
    BY Zenon DEF HeapInv
<1>3. /\ req.size \in 0..(Word - 1) /\ req.align \in Aligns \cup {1}
      /\ req.offset \in Offsets \cup {0} /\ req.kind \in Kinds \cup {"none"}
      /\ req.old \in Owners \cup {0}
    BY Zenon, <1>1
<1>4. req.size \in Int /\ 0 < req.size /\ req.size < Word /\ 0 <= req.size
    BY <1>2, <1>3, Constants
<1>5. req.align \in Int /\ req.align > 0
  <2>1. Aligns \subseteq Nat \ {0}
    BY Zenon, MallocAssumption
  <2>2. req.align \in Nat \ {0} \/ req.align = 1
    BY Zenon, <1>3, <2>1
  <2> QED BY <2>2
<1>6. req.offset \in Int
  <2>1. Offsets \subseteq Int
    BY Zenon, MallocAssumption
  <2>2. req.offset \in Int \/ req.offset = 0
    BY Zenon, <1>3, <2>1
  <2> QED BY <2>2
<1>7. req.kind \in Kinds
    BY Zenon, <1>2, <1>3
<1>8. req.old # 0 => req.old \in Owners /\ Held(req.old) /\ req.old # req.for
    BY Zenon, <1>2, <1>3
<1>9. /\ Need \in Int /\ 0 <= Need /\ Need % MinBlock = 0
      /\ Need # 0 => req.size <= Need /\ MinBlock <= Need
    BY Zenon, <1>4, Rounding DEF Need
<1> QED BY Zenon, <1>2, <1>3, <1>4, <1>5, <1>6, <1>7, <1>8, <1>9

\* A step that finds a block is such a cut.
LEMMA TakeFacts ==
    ASSUME HeapInv, Take
    PROVE  /\ Need # 0 /\ \E i, x : TakeAt(i, x)
           /\ freemem' = freemem - Need + IF req.old = 0 THEN 0 ELSE Actual(blk[req.old].size)
           /\ usedmem' = usedmem + Need - IF req.old = 0 THEN 0 ELSE Actual(blk[req.old].size)
<1>1. req # NoReq /\ Need # 0
    BY Zenon DEF Take, Need
<1>2. PICK i \in DOMAIN free_blocks :
         /\ Fits(free_blocks[i], req)
         /\ free_blocks' = IF req.old = 0 THEN Cut(i, req)
                           ELSE free_memblock(req.old, Cut(i, req))
         /\ blk' = [o \in Owners |->
                      IF o = req.for
                      THEN [ptr |-> free_blocks[i].ptr + PreSize(free_blocks[i], req),
                            size |-> req.size, kind |-> req.kind]
                      ELSE IF o = req.old THEN Free0 ELSE blk[o]]
    BY Zenon DEF Take
<1> DEFINE b == free_blocks[i]
           p == PreSize(b, req)
           x == b.ptr + p
<1>3. b.ptr \in Int /\ b.size \in Int
  <2>1. Whole(free_blocks)
    BY Zenon DEF HeapInv
  <2> QED BY Zenon, <2>1, WholeTypes
<1>4. p \in Int /\ 0 <= p
  <2>1. req.align \in Int /\ req.align > 0 /\ req.offset \in Int
    BY Zenon, <1>1, RequestFacts
  <2> QED BY Zenon, <1>3, <2>1, Skipping
<1>5. b.size >= p /\ b.size - p >= Need
    BY Zenon, <1>2 DEF Fits, Need
<1>6. Need \in Int
    BY Zenon, <1>1, RequestFacts
<1>7. x \in Int /\ b.ptr <= x /\ x + Need <= b.ptr + b.size
  <2> HIDE DEF b, p
  <2> QED BY <1>3, <1>4, <1>5, <1>6
<1>8. Cut(i, req) = CutList(i, x)
    BY Zenon DEF Cut, CutList, CutAt, Need
<1>9. TakeAt(i, x)
    BY Zenon, <1>1, <1>2, <1>7, <1>8 DEF TakeAt
<1>10. /\ freemem' = freemem - Need + IF req.old = 0 THEN 0 ELSE Actual(blk[req.old].size)
       /\ usedmem' = usedmem + Need - IF req.old = 0 THEN 0 ELSE Actual(blk[req.old].size)
    BY Zenon DEF Take, Need
<1> QED BY Zenon, <1>1, <1>9, <1>10

\* The block of the request comes out of the free cells and into the statistics.
TakeResult(i, x, w, v) ==
    /\ Whole(free_blocks')
    /\ x..(x + Need - 1) \subseteq FreeCells
    /\ Base <= x /\ x + Need <= Base + HeapSize /\ Owned(w)' = x..(x + Need - 1)
    /\ blk'[w] = [ptr |-> x, size |-> req.size, kind |-> req.kind]
    /\ \A p \in Owners \ {w, v} : blk'[p] = blk[p] /\ Owned(p)' = Owned(p)
    /\ v # 0 => blk'[v] = Free0 /\ Owned(v)' = {}
    /\ FreeCells' = CellsIn(CutList(i, x)) \cup Given(v)
    /\ CellsIn(CutList(i, x)) \subseteq FreeCells \ x..(x + Need - 1)
    /\ Used' = (Used \ Given(v)) \cup x..(x + Need - 1)

\* A cut for the request does this, and free_memblock takes the old block back.
LEMMA TakeStep ==
    ASSUME HeapInv, NEW i, NEW x, TakeAt(i, x), Need # 0,
           NEW w, w = req.for, NEW v, v = req.old
    PROVE  TakeResult(i, x, w, v)
<1> DEFINE n == Need
           l == free_blocks
           new == x..(x + n - 1)
           cut == CutList(i, x)
           given == Given(v)
           f == free_blocks'
<1>1. /\ req # NoReq /\ i \in DOMAIN l /\ x \in Int
      /\ l[i].ptr <= x /\ x + n <= l[i].ptr + l[i].size
      /\ f = IF v = 0 THEN cut ELSE free_memblock(v, cut)
      /\ blk' = [o \in Owners |->
                   IF o = w THEN [ptr |-> x, size |-> req.size, kind |-> req.kind]
                   ELSE IF o = v THEN Free0 ELSE blk[o]]
    BY Zenon DEF TakeAt
<1>2. /\ n \in Int /\ MinBlock <= n /\ req.size \in Int /\ 0 < req.size /\ req.size <= n
      /\ w \in Owners /\ ~Held(w) /\ req.kind \in Kinds
      /\ v # 0 => v \in Owners /\ Held(v) /\ v # w
    BY Zenon, <1>1, RequestFacts
<1>3. Whole(l) /\ FreeCells = CellsIn(l)
    BY Zenon DEF HeapInv, FreeCells, CellsIn
<1>4. l[i].ptr \in Int /\ l[i].size \in Int
    BY Zenon, <1>1, <1>3, WholeTypes
<1> HIDE DEF n, f, l
<1>5. Whole(cut) /\ new \subseteq CellsIn(l) /\ CellsIn(cut) \subseteq CellsIn(l) \ new
  <2> DEFINE y == x + n
  <2>1. y \in Int /\ x < y /\ y <= l[i].ptr + l[i].size
    BY <1>1, <1>2, <1>4, Constants
  <2>2. x..(y - 1) = new
    BY <1>1, <1>2
  <2>3. cut = CutAt(l, i, x, y)
    BY Zenon DEF CutList, l, n
  <2> HIDE DEF y
  <2>4. /\ Whole(CutAt(l, i, x, y))
        /\ x..(y - 1) \subseteq CellsIn(l)
        /\ CellsIn(CutAt(l, i, x, y)) \subseteq CellsIn(l) \ x..(y - 1)
    BY Zenon, <1>1, <1>3, <2>1, CutCells
  <2> QED BY Zenon, <2>2, <2>3, <2>4
<1>6. Base <= x /\ x + n <= Base + HeapSize
  <2>1. Base <= l[i].ptr /\ l[i].ptr + l[i].size <= Base + HeapSize
    BY Zenon, <1>1, <1>3 DEF Whole, InHeap
  <2>2. x \in Int /\ n \in Int /\ l[i].ptr <= x /\ x + n <= l[i].ptr + l[i].size
    BY Zenon, <1>1, <1>2
  <2> QED BY <1>4, <2>1, <2>2, Constants
<1> HIDE DEF cut
<1>7. Whole(f) /\ CellsIn(f) = CellsIn(cut) \cup given
  <2>1. CASE v = 0
    BY Zenon, <1>1, <1>5, <2>1 DEF Given
  <2>2. CASE v # 0
    <3> DEFINE o == v
               k == Actual(blk[o].size)
    <3>1. o \in Owners /\ Held(o)
      BY Zenon, <1>2, <2>2
    <3>2. /\ blk[o].ptr \in Int /\ k \in Int /\ MinBlock <= k /\ Base <= blk[o].ptr
          /\ blk[o].ptr + k <= Base + HeapSize
          /\ Owned(o) = blk[o].ptr..(blk[o].ptr + k - 1)
          /\ Owned(o) \cap CellsIn(l) = {}
      BY Zenon, <3>1, HeldFacts DEF l
    <3>3. f = Release(cut, blk[o].ptr, k)
      BY Zenon, <1>1, <2>2 DEF free_memblock
    <3> HIDE DEF o, k
    <3>4. blk[o].ptr..(blk[o].ptr + k - 1) \cap CellsIn(cut) = {}
      BY Zenon, <1>5, <3>2
    <3>5. ReleaseResult(cut, blk[o].ptr, k)
      BY Zenon, <1>5, <3>2, <3>4, ReleaseCells
    <3>6. given = Owned(o)
      BY Zenon, <2>2 DEF o, Given
    <3> QED BY Zenon, <3>2, <3>3, <3>5, <3>6 DEF ReleaseResult
  <2> QED BY Zenon, <2>1, <2>2
<1>8. FreeCells' = CellsIn(cut) \cup given
    BY Zenon, <1>7 DEF FreeCells, CellsIn, f
<1>9. /\ blk'[w] = [ptr |-> x, size |-> req.size, kind |-> req.kind]
      /\ \A p \in Owners \ {w, v} : blk'[p] = blk[p]
      /\ v # 0 => blk'[v] = Free0
    BY Zenon, <1>1, <1>2
<1>10. Owned(w)' = new
  <2>1. blk'[w].ptr = x /\ blk'[w].size = req.size /\ blk'[w].kind = req.kind
    <3>1. blk'[w] = [ptr |-> x, size |-> req.size, kind |-> req.kind]
      BY Zenon, <1>9
    <3> QED BY <3>1
  <2>2. req.kind # "none"
    BY <1>2 DEF Kinds
  <2>3. Owned(w)' = blk'[w].ptr..(blk'[w].ptr + Actual(blk'[w].size) - 1)
    BY Zenon, <2>1, <2>2 DEF Owned, Held, ActualCells
  <2>4. Actual(blk'[w].size) = n
    BY Zenon, <2>1 DEF n, Need
  <2> QED BY Zenon, <2>1, <2>3, <2>4
<1>11. \A p \in Owners \ {w, v} : Owned(p)' = Owned(p)
    BY Zenon, <1>9 DEF Owned, Held, ActualCells
<1>12. v # 0 => Owned(v)' = {}
  <2>1. Free0.kind = "none"
    BY DEF Free0
  <2> QED BY Zenon, <1>9, <2>1 DEF Owned, Held
<1>13. Used' = (Used \ given) \cup new
  <2>1. \A c : c \in Used' <=> \E p \in Owners : c \in Owned(p)'
    BY Zenon DEF Used
  <2>2. \A c : c \in Used <=> \E p \in Owners : c \in Owned(p)
    BY Zenon DEF Used
  <2>3. Owned(w) = {}
    BY Zenon, <1>2 DEF Owned
  <2>4. ASSUME NEW c \in Used' PROVE c \in (Used \ given) \cup new
    <3>1. PICK p \in Owners : c \in Owned(p)'
      BY Zenon, <2>1
    <3>2. CASE p = w
      BY Zenon, <1>10, <3>1, <3>2
    <3>3. CASE p # w
      <4>1. p # v
        <5>1. p = v => v # 0
          BY MallocAssumption
        <5> QED BY Zenon, <1>12, <3>1, <5>1
      <4>2. c \in Owned(p)
        BY Zenon, <1>11, <3>1, <3>3, <4>1
      <4>3. c \notin given
        <5>1. v # 0 => Owned(p) \cap Owned(v) = {}
          BY Zenon, <1>2, <4>1 DEF HeapInv
        <5> QED BY Zenon, <4>2, <5>1 DEF Given
      <4> QED BY Zenon, <2>2, <4>2, <4>3
    <3> QED BY Zenon, <3>2, <3>3
  <2>5. ASSUME NEW c \in new PROVE c \in Used'
    BY Zenon, <1>2, <1>10, <2>1
  <2>6. ASSUME NEW c \in Used \ given PROVE c \in Used'
    <3>1. PICK p \in Owners : c \in Owned(p)
      BY Zenon, <2>2
    <3>2. p # w
      BY Zenon, <2>3, <3>1
    <3>3. p # v
      <4>1. p = v => v # 0
        BY MallocAssumption
      <4> QED BY Zenon, <3>1, <4>1 DEF Given
    <3> QED BY Zenon, <1>11, <2>1, <3>1, <3>2, <3>3
  <2> QED BY Zenon, <2>4, <2>5, <2>6
<1>14. /\ Whole(free_blocks')
       /\ x..(x + Need - 1) \subseteq FreeCells
       /\ Base <= x /\ x + Need <= Base + HeapSize /\ Owned(w)' = x..(x + Need - 1)
    BY Zenon, <1>3, <1>5, <1>6, <1>7, <1>10 DEF f, n
<1>15. /\ FreeCells' = CellsIn(CutList(i, x)) \cup given
       /\ CellsIn(CutList(i, x)) \subseteq FreeCells \ x..(x + Need - 1)
       /\ Used' = (Used \ given) \cup x..(x + Need - 1)
    BY Zenon, <1>3, <1>5, <1>8, <1>13 DEF n, cut
<1> QED BY Zenon, <1>9, <1>11, <1>12, <1>14, <1>15 DEF TakeResult

\* The type of a whole list.
LEMMA WholeSeq ==
    ASSUME NEW l, Whole(l)
    PROVE  l \in Seq([ptr : Nat \ {0}, size : 0..HeapSize])
<1> DEFINE T == [ptr : Nat \ {0}, size : 0..HeapSize]
<1>1. l \in Seq(Block) /\ Len(l) \in Nat /\ DOMAIN l = 1..Len(l)
    BY DEF Whole
<1>2. ASSUME NEW i \in DOMAIN l PROVE l[i] \in T
  <2>1. l[i] \in Block /\ InHeap(l[i])
    BY <1>1 DEF Whole
  <2>2. l[i].ptr \in Nat \ {0} /\ l[i].size \in 0..HeapSize
    BY <2>1, Constants DEF Block, InHeap
  <2>3. l[i] = [ptr |-> l[i].ptr, size |-> l[i].size]
    BY <2>1 DEF Block
  <2> QED BY Zenon, <2>2, <2>3
<1> HIDE DEF T
<1>3. l \in Seq(T)
    BY <1>1, <1>2
<1> QED BY <1>3 DEF T

\* init_heap establishes the invariant.
LEMMA HeapInit == Init => HeapInv
<1> SUFFICES ASSUME Init PROVE HeapInv
    OBVIOUS
<1> DEFINE b == [ptr |-> Base, size |-> HeapSize]
<1>1. free_blocks = <<b>>
  <2>1. HeapSize - (HeapSize % MinBlock) = HeapSize
    BY Constants
  <2> QED BY Zenon, <2>1 DEF Init
<1>2. b.ptr = Base /\ b.size = HeapSize /\ b \in Block
    BY Constants DEF Block
<1> HIDE DEF b
<1>3. free_blocks \in Seq(Block) /\ DOMAIN free_blocks = {1} /\ free_blocks[1] = b
    BY <1>1, <1>2
<1>4. Whole(free_blocks)
    BY <1>2, <1>3, Constants DEF Whole, Ascending, InHeap
<1>5. \A o \in Owners : blk[o] = Free0 /\ ~Held(o)
    BY DEF Init, Held, Free0
<1>6. \A o \in Owners : Owned(o) = {}
    BY Zenon, <1>5 DEF Owned
<1>7. Used = {}
    BY Zenon, <1>6 DEF Used
<1>8. req = NoReq /\ ret = "none" /\ odd = FALSE /\ freemem = HeapSize /\ usedmem = 0
    BY Zenon DEF Init
<1>9. TypeOK
  <2>1. free_blocks \in Seq([ptr : Nat \ {0}, size : 0..HeapSize])
    BY Zenon, <1>4, WholeSeq
  <2>2. freemem \in 0..HeapSize /\ usedmem \in 0..HeapSize
    BY <1>8, Constants
  <2>3. blk \in [Owners -> [ptr : Nat, size : 0..HeapSize, kind : Kinds \cup {"none"}]]
    <3>1. Free0 \in [ptr : Nat, size : 0..HeapSize, kind : Kinds \cup {"none"}]
      BY Constants DEF Free0
    <3> QED BY Zenon, <3>1 DEF Init
  <2>4. req \in [size : 0..(Word - 1), align : Aligns \cup {1}, offset : Offsets \cup {0},
                 kind : Kinds \cup {"none"}, for : Owners \cup {0}, old : Owners \cup {0}]
    BY <1>8, Constants DEF NoReq
  <2>5. odd \in BOOLEAN
    BY Zenon, <1>8
  <2> QED BY Zenon, <1>5, <1>8, <2>1, <2>2, <2>3, <2>4, <2>5 DEF TypeOK
<1>10. usedmem = Cardinality(Used) /\ freemem = HeapSize - usedmem
    BY <1>7, <1>8, FS_EmptySet, Constants
<1> QED BY Zenon, <1>4, <1>5, <1>6, <1>8, <1>9, <1>10 DEF HeapInv

\* A step that only makes or answers a request.
LEMMA RequestStep ==
    ASSUME HeapInv, UNCHANGED <<free_blocks, freemem, usedmem, blk, odd>>,
           req' \in [size : 0..(Word - 1), align : Aligns \cup {1}, offset : Offsets \cup {0},
                     kind : Kinds \cup {"none"}, for : Owners \cup {0}, old : Owners \cup {0}],
           req' # NoReq => /\ req'.for \in Owners /\ ~Held(req'.for)
                           /\ req'.kind # "none" /\ req'.size # 0
                           /\ req'.old # 0 => Held(req'.old),
           ret' \in {"none", "block", "null", "freed"}
    PROVE  HeapInv'
<1>1. \A o : (Held(o)' <=> Held(o)) /\ Owned(o)' = Owned(o) /\ BlockOf(o)' = BlockOf(o)
    BY Zenon DEF Held, Owned, ActualCells, BlockOf
<1>2. Used' = Used /\ FreeCells' = FreeCells
    BY Zenon, <1>1 DEF Used, FreeCells
<1>3. TypeOK'
    BY Zenon DEF HeapInv, TypeOK, Held
<1>4. Whole(free_blocks)'
    BY Zenon DEF HeapInv
<1>5. \A o \in Owners : Held(o)' => InHeap(BlockOf(o))'
    BY Zenon, <1>1 DEF HeapInv
<1>6. \A o \in Owners : Owned(o)' \cap FreeCells' = {}
    BY Zenon, <1>1, <1>2 DEF HeapInv
<1>7. \A o, p \in Owners : o # p => Owned(o)' \cap Owned(p)' = {}
    BY Zenon, <1>1 DEF HeapInv
<1>8. (usedmem = Cardinality(Used) /\ freemem = HeapSize - usedmem)'
    BY Zenon, <1>2 DEF HeapInv
<1>9. req' # NoReq => /\ req'.for \in Owners /\ ~(blk'[req'.for].kind # "none")
                      /\ req'.kind # "none" /\ req'.size # 0
                      /\ req'.old # 0 => blk'[req'.old].kind # "none"
    BY Zenon DEF Held
<1> QED BY Zenon, <1>3, <1>4, <1>5, <1>6, <1>7, <1>8, <1>9 DEF HeapInv, Held

\* A step that frees a block.
LEMMA FreedInv ==
    ASSUME HeapInv, NEW o \in Owners, Held(o), req # NoReq => req.old # o,
           free_blocks' = free_memblock(o, free_blocks), blk' = [blk EXCEPT ![o] = Free0],
           freemem' = freemem + Actual(blk[o].size),
           usedmem' = usedmem - Actual(blk[o].size),
           req' = req, odd' = odd, ret' \in {"none", "block", "null", "freed"}
    PROVE  HeapInv'
<1> DEFINE n == Actual(blk[o].size)
<1>1. /\ Whole(free_blocks') /\ FreeCells' = FreeCells \cup Owned(o)
      /\ blk'[o] = Free0 /\ \A p \in Owners \ {o} : blk'[p] = blk[p]
      /\ Owned(o)' = {} /\ \A p \in Owners \ {o} : Owned(p)' = Owned(p)
      /\ Cardinality(Used') = Cardinality(Used) - n
    BY Zenon, FreeStep
<1>2. n \in Int /\ 0 < n /\ n <= Cardinality(Used)
  <2>1. n \in Int /\ MinBlock <= n
    BY Zenon, HeldFacts
  <2>2. 0 < n
    BY <2>1, Constants
  <2>3. Owned(o) = blk[o].ptr..(blk[o].ptr + n - 1) /\ blk[o].ptr \in Int
    BY Zenon, HeldFacts
  <2>4. Cardinality(Owned(o)) = n
    BY Zenon, <2>1, <2>2, <2>3, IntervalSize
  <2>5. Owned(o) \subseteq Used /\ IsFiniteSet(Used)
    BY Zenon, UsedFinite DEF Used
  <2>6. Cardinality(Owned(o)) <= Cardinality(Used)
    BY Zenon, <2>5, FS_Subset
  <2> QED BY Zenon, <2>1, <2>2, <2>4, <2>6
<1>3. /\ Cardinality(Used) \in Nat /\ Cardinality(Used) <= HeapSize
      /\ usedmem = Cardinality(Used) /\ freemem = HeapSize - usedmem
    BY Zenon, UsedFinite DEF HeapInv
<1> HIDE DEF n
<1>4. /\ freemem' \in 0..HeapSize /\ usedmem' \in 0..HeapSize
      /\ usedmem' = Cardinality(Used') /\ freemem' = HeapSize - usedmem'
  <2>1. freemem' = freemem + n /\ usedmem' = usedmem - n
    BY Zenon DEF n
  <2> QED BY <1>1, <1>2, <1>3, <2>1, Constants
<1>5. ~Held(o)' /\ \A p \in Owners \ {o} : (Held(p)' <=> Held(p)) /\ BlockOf(p)' = BlockOf(p)
  <2>1. ~Held(o)'
    BY <1>1 DEF Held, Free0
  <2>2. \A p \in Owners \ {o} : (Held(p)' <=> Held(p)) /\ BlockOf(p)' = BlockOf(p)
    BY Zenon, <1>1 DEF Held, BlockOf
  <2> QED BY Zenon, <2>1, <2>2
<1>6. TypeOK'
  <2>1. free_blocks' \in Seq([ptr : Nat \ {0}, size : 0..HeapSize])
    BY Zenon, <1>1, WholeSeq
  <2>2. blk' \in [Owners -> [ptr : Nat, size : 0..HeapSize, kind : Kinds \cup {"none"}]]
    <3>1. Free0 \in [ptr : Nat, size : 0..HeapSize, kind : Kinds \cup {"none"}]
      BY Constants DEF Free0
    <3>2. blk \in [Owners -> [ptr : Nat, size : 0..HeapSize, kind : Kinds \cup {"none"}]]
      BY Zenon DEF HeapInv, TypeOK
    <3> QED BY Zenon, <3>1, <3>2
  <2>3. \A p \in Owners : Held(p)' => blk'[p].size # 0
    <3>1. \A p \in Owners : Held(p) => blk[p].size # 0
      BY Zenon DEF HeapInv, TypeOK
    <3> QED BY Zenon, <1>1, <1>5, <3>1
  <2>4. req' \in [size : 0..(Word - 1), align : Aligns \cup {1}, offset : Offsets \cup {0},
                 kind : Kinds \cup {"none"}, for : Owners \cup {0}, old : Owners \cup {0}]
    BY Zenon DEF HeapInv, TypeOK
  <2>5. odd' \in BOOLEAN
    BY Zenon DEF HeapInv, TypeOK
  <2> QED BY Zenon, <1>4, <2>1, <2>2, <2>3, <2>4, <2>5 DEF TypeOK
<1>7. \A p \in Owners : Held(p)' => InHeap(BlockOf(p))'
    BY Zenon, <1>5 DEF HeapInv
<1>8. \A p \in Owners : Owned(p)' \cap FreeCells' = {}
  <2> SUFFICES ASSUME NEW p \in Owners PROVE Owned(p)' \cap FreeCells' = {}
    BY Zenon
  <2>1. CASE p = o
    BY Zenon, <1>1, <2>1
  <2>2. CASE p # o
    <3>1. Owned(p) \cap FreeCells = {} /\ Owned(p) \cap Owned(o) = {}
      BY Zenon, <2>2 DEF HeapInv
    <3> QED BY Zenon, <1>1, <2>2, <3>1
  <2> QED BY Zenon, <2>1, <2>2
<1>9. \A p, q \in Owners : p # q => Owned(p)' \cap Owned(q)' = {}
  <2> SUFFICES ASSUME NEW p \in Owners, NEW q \in Owners, p # q
               PROVE  Owned(p)' \cap Owned(q)' = {}
    BY Zenon
  <2>1. CASE p = o \/ q = o
    BY Zenon, <1>1, <2>1
  <2>2. CASE p # o /\ q # o
    <3>1. Owned(p) \cap Owned(q) = {}
      BY Zenon DEF HeapInv
    <3> QED BY Zenon, <1>1, <2>2, <3>1
  <2> QED BY Zenon, <2>1, <2>2
<1>10. (req # NoReq => /\ req.for \in Owners /\ ~Held(req.for)
                       /\ req.kind # "none" /\ req.size # 0
                       /\ req.old # 0 => Held(req.old))'
  <2> SUFFICES ASSUME req # NoReq
               PROVE  /\ req.for \in Owners /\ blk'[req.for].kind = "none"
                      /\ req.kind # "none" /\ req.size # 0
                      /\ req.old # 0 => blk'[req.old].kind # "none"
    BY Zenon DEF Held
  <2>1. /\ req.for \in Owners /\ ~Held(req.for) /\ req.kind # "none" /\ req.size # 0
        /\ req.old # 0 => Held(req.old)
    BY Zenon DEF HeapInv
  <2>2. req.for # o
    BY Zenon, <2>1
  <2>3. req.old # 0 => req.old \in Owners \ {o}
    BY Zenon, RequestFacts
  <2> QED BY Zenon, <1>1, <2>1, <2>2, <2>3 DEF Held
<1> QED BY Zenon, <1>1, <1>4, <1>6, <1>7, <1>8, <1>9, <1>10 DEF HeapInv

\* The step of alloc_memblock that finds a block.
LEMMA TakenInv ==
    ASSUME HeapInv, Take
    PROVE  HeapInv'
<1>1. Need # 0 /\ req # NoReq /\ req' = NoReq /\ ret' = "block"
    BY Zenon, TakeFacts DEF Take
<1>2. PICK i, x : TakeAt(i, x)
    BY Zenon, TakeFacts
<1>3. PICK w, v : w = req.for /\ v = req.old
    BY Zenon
<1> DEFINE n == Need
           new == x..(x + n - 1)
<1>4. /\ n \in Int /\ MinBlock <= n /\ req.size \in Int /\ 0 < req.size /\ req.size <= n
      /\ w \in Owners /\ ~Held(w) /\ req.kind \in Kinds
      /\ v # 0 => v \in Owners /\ Held(v) /\ v # w
    BY Zenon, <1>1, <1>3, RequestFacts
<1>5. /\ Whole(free_blocks') /\ new \subseteq FreeCells
      /\ Base <= x /\ x + n <= Base + HeapSize /\ Owned(w)' = new
      /\ blk'[w] = [ptr |-> x, size |-> req.size, kind |-> req.kind]
      /\ \A p \in Owners \ {w, v} : blk'[p] = blk[p] /\ Owned(p)' = Owned(p)
      /\ v # 0 => blk'[v] = Free0 /\ Owned(v)' = {}
      /\ FreeCells' = CellsIn(CutList(i, x)) \cup Given(v)
      /\ CellsIn(CutList(i, x)) \subseteq FreeCells \ new
      /\ Used' = (Used \ Given(v)) \cup new
  <2>1. TakeResult(i, x, w, v)
    BY Zenon, <1>1, <1>2, <1>3, TakeStep
  <2> QED BY Zenon, <2>1 DEF TakeResult
<1>6. x \in Int /\ 0 < n
  <2>1. x \in Int
    BY Zenon, <1>2 DEF TakeAt
  <2> QED BY <1>4, <2>1, Constants
<1>7. blk'[w].ptr = x /\ blk'[w].size = req.size /\ blk'[w].kind = req.kind
    BY <1>5
<1>8. Actual(blk'[w].size) = n
    BY Zenon, <1>7 DEF Need
<1> HIDE DEF n
<1> DEFINE k == IF v = 0 THEN 0 ELSE Actual(blk[v].size)
<1>9. /\ freemem' = freemem - n + k /\ usedmem' = usedmem + n - k
    BY Zenon, <1>3, TakeFacts DEF n
<1>10. /\ k \in Int /\ Given(v) \subseteq Used /\ Cardinality(Given(v)) = k
  <2>1. CASE v = 0
    BY <2>1, FS_EmptySet DEF Given
  <2>2. CASE v # 0
    <3>1. v \in Owners /\ Held(v)
      BY Zenon, <1>4, <2>2
    <3>2. k = Actual(blk[v].size) /\ Given(v) = Owned(v)
      BY Zenon, <2>2 DEF Given
    <3>3. /\ k \in Int /\ MinBlock <= k /\ blk[v].ptr \in Int
          /\ Owned(v) = blk[v].ptr..(blk[v].ptr + k - 1)
      BY Zenon, <3>1, <3>2, HeldFacts
    <3> HIDE DEF k
    <3>4. 0 < k
      BY <3>3, Constants
    <3>5. Cardinality(Owned(v)) = k
      BY Zenon, <3>3, <3>4, IntervalSize
    <3> QED BY Zenon, <3>1, <3>2, <3>3, <3>5 DEF Used
  <2> QED BY Zenon, <2>1, <2>2
<1> HIDE DEF k
<1>11. /\ Cardinality(Used) \in Nat /\ IsFiniteSet(Used)
       /\ usedmem = Cardinality(Used) /\ freemem = HeapSize - usedmem
    BY Zenon, UsedFinite DEF HeapInv
<1>12. Cardinality(Used') = (Cardinality(Used) - k) + n
  <2> DEFINE A == Used \ Given(v)
  <2>1. IsFiniteSet(A) /\ Cardinality(A) = Cardinality(Used) - k
    <3>1. Used \cap Given(v) = Given(v)
      BY Zenon, <1>10
    <3>2. IsFiniteSet(A) /\ Cardinality(A) = Cardinality(Used) - Cardinality(Used \cap Given(v))
      BY ZenonT(30), <1>11, FS_Difference
    <3> QED BY Zenon, <1>10, <3>1, <3>2
  <2>2. IsFiniteSet(new) /\ Cardinality(new) = n
    BY Zenon, <1>4, <1>6, IntervalSize
  <2>3. A \cap new = {}
    <3>1. \A p \in Owners : Owned(p) \cap FreeCells = {}
      BY Zenon DEF HeapInv
    <3>2. Used \cap FreeCells = {}
      BY Zenon, <3>1 DEF Used
    <3>3. new \subseteq FreeCells
      BY Zenon, <1>5 DEF n
    <3> QED BY Zenon, <3>2, <3>3
  <2> HIDE DEF A, new
  <2>4. Cardinality(A \cup new) = Cardinality(A) + Cardinality(new) - Cardinality(A \cap new)
    BY Zenon, <2>1, <2>2, FS_Union
  <2>5. Cardinality(A \cap new) = 0
    BY Zenon, <2>3, FS_EmptySet
  <2>6. Used' = A \cup new
    BY Zenon, <1>5 DEF A, new, n
  <2> QED BY <1>4, <1>10, <1>11, <2>1, <2>2, <2>4, <2>5, <2>6
<1>13. Used' \subseteq Base..(Base + HeapSize - 1) /\ Cardinality(Used') <= HeapSize
       /\ Cardinality(Used') \in Nat
  <2>1. new \subseteq Base..(Base + HeapSize - 1)
    BY <1>4, <1>5, <1>6, Constants DEF n
  <2>2. Used' \subseteq Base..(Base + HeapSize - 1)
    BY Zenon, <1>5, <2>1, UsedFinite DEF n
  <2>3. HeapSize > 0
    BY Constants
  <2>4. /\ IsFiniteSet(Base..(Base + HeapSize - 1))
        /\ Cardinality(Base..(Base + HeapSize - 1)) = HeapSize
    BY Zenon, <2>3, IntervalSize, Constants
  <2>5. IsFiniteSet(Used') /\ Cardinality(Used') <= HeapSize
    BY Zenon, <2>2, <2>4, FS_Subset
  <2>6. Cardinality(Used') \in Nat
    BY Zenon, <2>5, FS_CardinalityType
  <2> QED BY Zenon, <2>2, <2>5, <2>6
<1>14. /\ usedmem' = Cardinality(Used') /\ freemem' = HeapSize - usedmem'
       /\ usedmem' \in 0..HeapSize /\ freemem' \in 0..HeapSize
  <2>1. usedmem' = Cardinality(Used')
    BY <1>4, <1>9, <1>10, <1>11, <1>12
  <2>2. freemem' = HeapSize - usedmem'
    BY <1>4, <1>9, <1>10, <1>11, Constants
  <2> QED BY <1>13, <2>1, <2>2, Constants
<1>15. /\ Held(w)' /\ \A p \in Owners \ {w, v} : (Held(p)' <=> Held(p)) /\ BlockOf(p)' = BlockOf(p)
       /\ v # 0 => ~Held(v)'
  <2>1. Held(w)'
    BY <1>4, <1>7 DEF Held, Kinds
  <2>2. \A p \in Owners \ {w, v} : (Held(p)' <=> Held(p)) /\ BlockOf(p)' = BlockOf(p)
    BY Zenon, <1>5 DEF Held, BlockOf
  <2>3. v # 0 => ~Held(v)'
    BY <1>5 DEF Held, Free0
  <2> QED BY Zenon, <2>1, <2>2, <2>3
<1>16. 0 \notin Owners
    BY Zenon, MallocAssumption
<1>17. TypeOK'
  <2>1. free_blocks' \in Seq([ptr : Nat \ {0}, size : 0..HeapSize])
    BY Zenon, <1>5, WholeSeq
  <2>2. blk' \in [Owners -> [ptr : Nat, size : 0..HeapSize, kind : Kinds \cup {"none"}]]
    <3>1. Free0 \in [ptr : Nat, size : 0..HeapSize, kind : Kinds \cup {"none"}]
      BY Constants DEF Free0
    <3>2. blk \in [Owners -> [ptr : Nat, size : 0..HeapSize, kind : Kinds \cup {"none"}]]
      BY Zenon DEF HeapInv, TypeOK
    <3>3. [ptr |-> x, size |-> req.size, kind |-> req.kind]
             \in [ptr : Nat, size : 0..HeapSize, kind : Kinds \cup {"none"}]
      <4>1. /\ Base <= x /\ x + n <= Base + HeapSize /\ x \in Int /\ n \in Int
            /\ req.size \in Int /\ 0 < req.size /\ req.size <= n
        BY Zenon, <1>4, <1>5, <1>6
      <4>2. x \in Nat /\ req.size \in 0..HeapSize
        BY <4>1, Constants
      <4> QED BY Zenon, <1>4, <4>2
    <3>4. blk' = [o \in Owners |->
                   IF o = w THEN [ptr |-> x, size |-> req.size, kind |-> req.kind]
                   ELSE IF o = v THEN Free0 ELSE blk[o]]
      BY Zenon, <1>2, <1>3 DEF TakeAt
    <3> QED BY Zenon, <3>1, <3>2, <3>3, <3>4
  <2>3. \A p \in Owners : Held(p)' => blk'[p].size # 0
    <3>1. \A p \in Owners : Held(p) => blk[p].size # 0
      BY Zenon DEF HeapInv, TypeOK
    <3>2. req.size # 0
      BY <1>4
    <3> QED BY Zenon, <1>5, <1>7, <1>15, <1>16, <3>1, <3>2
  <2>4. NoReq \in [size : 0..(Word - 1), align : Aligns \cup {1}, offset : Offsets \cup {0},
                   kind : Kinds \cup {"none"}, for : Owners \cup {0}, old : Owners \cup {0}]
    BY Constants DEF NoReq
  <2>5. odd' \in BOOLEAN
    BY Zenon DEF Take
  <2> QED BY Zenon, <1>1, <1>14, <2>1, <2>2, <2>3, <2>4, <2>5 DEF TypeOK
<1>18. \A p \in Owners : Held(p)' => InHeap(BlockOf(p))'
  <2>1. InHeap(BlockOf(w))'
    <3>1. BlockOf(w)'.ptr = x /\ BlockOf(w)'.size = n
      BY <1>7, <1>8 DEF BlockOf
    <3> QED BY Zenon, <1>4, <1>5, <3>1 DEF InHeap, n
  <2>2. \A p \in Owners : Held(p) => InHeap(BlockOf(p))
    BY Zenon DEF HeapInv
  <2> QED BY Zenon, <1>15, <1>16, <2>1, <2>2
<1>19. \A p \in Owners : Owned(p)' \cap FreeCells' = {}
  <2> SUFFICES ASSUME NEW p \in Owners PROVE Owned(p)' \cap FreeCells' = {}
    BY Zenon
  <2>1. \A q \in Owners : Owned(q) \cap FreeCells = {}
    BY Zenon DEF HeapInv
  <2>2. \A q \in Owners : q # p => Owned(p) \cap Owned(q) = {}
    BY Zenon DEF HeapInv
  <2>3. CASE p = w
    <3>1. new \cap Given(v) = {}
      BY Zenon, <1>4, <1>5, <2>1 DEF Given, n
    <3> QED BY Zenon, <1>5, <2>3, <3>1 DEF n
  <2>4. CASE p = v
    BY Zenon, <1>5, <1>16, <2>4
  <2>5. CASE p # w /\ p # v
    <3>1. Owned(p) \cap Given(v) = {}
      BY Zenon, <1>4, <2>2, <2>5 DEF Given
    <3>2. Owned(p)' = Owned(p)
      BY Zenon, <1>5, <2>5
    <3> QED BY Zenon, <1>5, <2>1, <3>1, <3>2
  <2> QED BY Zenon, <2>3, <2>4, <2>5
<1>20. \A p, q \in Owners : p # q => Owned(p)' \cap Owned(q)' = {}
  <2>1. \A q \in Owners : q # w => new \cap Owned(q)' = {}
    <3>1. \A q \in Owners : Owned(q) \cap FreeCells = {}
      BY Zenon DEF HeapInv
    <3>2. \A q \in Owners : q # w => Owned(q)' \subseteq Owned(q)
      BY Zenon, <1>5, <1>16
    <3> QED BY Zenon, <1>5, <3>1, <3>2 DEF n
  <2>2. \A p, q \in Owners : p # w /\ q # w /\ p # q => Owned(p)' \cap Owned(q)' = {}
    <3>1. \A q \in Owners : q # w => Owned(q)' \subseteq Owned(q)
      BY Zenon, <1>5, <1>16
    <3>2. \A p, q \in Owners : p # q => Owned(p) \cap Owned(q) = {}
      BY Zenon DEF HeapInv
    <3> QED BY Zenon, <3>1, <3>2
  <2>3. Owned(w)' = new
    BY Zenon, <1>5 DEF n
  <2> QED BY Zenon, <2>1, <2>2, <2>3
<1> QED BY Zenon, <1>1, <1>5, <1>14, <1>17, <1>18, <1>19, <1>20 DEF HeapInv

\* realloc makes a request that can be served.
LEMMA ReallocInv ==
    ASSUME HeapInv, NEW o \in Owners, NEW v \in Owners \cup {0}, v # 0 => Held(v),
           NEW s \in Sizes, NEW k \in Kinds, realloc(o, v, s, k)
    PROVE  HeapInv'
<1> DEFINE total == (s + Hdr) % Word
<1>1. /\ req = NoReq /\ s # 0 /\ ~Held(o)
      /\ UNCHANGED <<free_blocks, freemem, usedmem, blk, odd>>
      /\ \/ ret' = "null" /\ req' = req
         \/ /\ ~(total < s) /\ ret' = "none"
            /\ req' = [size |-> total, align |-> 1, offset |-> 0, kind |-> k,
                       for |-> o, old |-> v]
    BY Zenon DEF realloc
<1>2. total \in 0..(Word - 1) /\ s \in Int /\ s > 0
  <2>1. s \in 0..(Word - 1) /\ Hdr \in Nat
    BY Zenon, MallocAssumption
  <2>2. s + Hdr \in Int /\ Word > 0
    BY <2>1, Constants
  <2>3. total \in 0..(Word - 1)
    BY Zenon, <2>2, ModRange, Constants
  <2> QED BY <1>1, <2>1, <2>3, Constants
<1> HIDE DEF total
<1>3. CASE ret' = "null" /\ req' = req
  <2>1. req' \in [size : 0..(Word - 1), align : Aligns \cup {1}, offset : Offsets \cup {0},
                  kind : Kinds \cup {"none"}, for : Owners \cup {0}, old : Owners \cup {0}]
    BY Zenon, <1>3 DEF HeapInv, TypeOK
  <2>2. req' = NoReq
    BY Zenon, <1>1, <1>3
  <2> QED BY Zenon, <1>1, <1>3, <2>1, <2>2, RequestStep
<1>4. CASE /\ ~(total < s) /\ ret' = "none"
           /\ req' = [size |-> total, align |-> 1, offset |-> 0, kind |-> k,
                      for |-> o, old |-> v]
  <2>1. req' \in [size : 0..(Word - 1), align : Aligns \cup {1}, offset : Offsets \cup {0},
                  kind : Kinds \cup {"none"}, for : Owners \cup {0}, old : Owners \cup {0}]
    BY <1>2, <1>4
  <2>2. /\ req'.for = o /\ req'.kind = k /\ req'.size = total /\ req'.old = v
    BY <1>4
  <2>3. total # 0 /\ k # "none"
    BY <1>2, <1>4, Constants DEF Kinds
  <2>4. /\ req'.for \in Owners /\ ~Held(req'.for) /\ req'.kind # "none" /\ req'.size # 0
        /\ req'.old # 0 => Held(req'.old)
    BY Zenon, <1>1, <2>2, <2>3
  <2> QED BY Zenon, <1>1, <1>4, <2>1, <2>4, RequestStep
<1> QED BY Zenon, <1>1, <1>3, <1>4

\* Every step keeps the invariant.
LEMMA HeapNext == HeapInv /\ [Next]_vars => HeapInv'
<1> SUFFICES ASSUME HeapInv, [Next]_vars PROVE HeapInv'
    OBVIOUS
<1> DEFINE R == [size : 0..(Word - 1), align : Aligns \cup {1}, offset : Offsets \cup {0},
                 kind : Kinds \cup {"none"}, for : Owners \cup {0}, old : Owners \cup {0}]
<1>1. req \in R /\ ret \in {"none", "block", "null", "freed"}
    BY Zenon DEF HeapInv, TypeOK
<1>2. NoReq \in R
    BY Constants DEF NoReq
<1>3. 0 \notin Owners
    BY Zenon, MallocAssumption
<1>4. CASE Take
    BY Zenon, <1>4, TakenInv
<1>5. CASE Discard
  <2>1. PICK o \in Owners \ {req.old} :
           /\ blk[o].kind = "cache"
           /\ free_blocks' = free_memblock(o, free_blocks)
           /\ freemem' = freemem + Actual(blk[o].size)
           /\ usedmem' = usedmem - Actual(blk[o].size)
           /\ blk' = [blk EXCEPT ![o] = Free0]
    BY Zenon, <1>5 DEF Discard
  <2>2. Held(o)
    BY <2>1 DEF Held
  <2>3. req' = req /\ ret' = ret /\ odd' = odd /\ o \in Owners /\ req.old # o
    BY Zenon, <1>5 DEF Discard
  <2> QED BY Zenon, <1>1, <2>1, <2>2, <2>3, FreedInv
<1>6. CASE Fail
  <2>1. req' = NoReq /\ ret' = "null" /\ UNCHANGED <<free_blocks, freemem, usedmem, blk, odd>>
    BY Zenon, <1>6 DEF Fail
  <2>2. req' \in R
    BY Zenon, <1>2, <2>1
  <2> QED BY Zenon, <2>1, <2>2, RequestStep
<1>7. CASE \E o \in Owners : Malloc(o)
  <2>1. PICK o \in Owners, s \in Sizes, k \in {"malloc", "cache"} : realloc(o, 0, s, k)
    BY Zenon, <1>7 DEF Malloc
  <2>2. k \in Kinds
    BY Zenon DEF Kinds
  <2> QED BY Zenon, <2>1, <2>2, ReallocInv
<1>8. CASE \E o \in Owners : MallocDma(o)
  <2>1. PICK o \in Owners : MallocDma(o)
    BY Zenon, <1>8
  <2>2. PICK s \in Sizes \ {0}, a \in Aligns, f \in Offsets :
           req' = [size |-> s, align |-> a, offset |-> f, kind |-> "dma",
                   for |-> o, old |-> 0]
    BY Zenon, <2>1 DEF MallocDma
  <2>3. ~Held(o) /\ ret' = "none" /\ UNCHANGED <<free_blocks, freemem, usedmem, blk, odd>>
    BY Zenon, <2>1 DEF MallocDma
  <2>4. s \in 0..(Word - 1) /\ "dma" \in Kinds \cup {"none"} /\ "dma" # "none"
    BY MallocAssumption DEF Kinds
  <2>5. req' \in R
    BY Zenon, <2>2, <2>4
  <2>6. req'.for = o /\ req'.kind = "dma" /\ req'.size = s /\ req'.old = 0
    BY <2>2
  <2>7. /\ req'.for \in Owners /\ ~Held(req'.for) /\ req'.kind # "none" /\ req'.size # 0
        /\ req'.old # 0 => Held(req'.old)
    BY Zenon, <2>2, <2>3, <2>4, <2>6
  <2> QED BY Zenon, <2>3, <2>5, <2>7, RequestStep
<1>9. CASE \E o \in Owners : Free(o)
  <2>1. PICK o \in Owners : Free(o)
    BY Zenon, <1>9
  <2>2. /\ req = NoReq /\ Held(o)
        /\ free_blocks' = free_memblock(o, free_blocks)
        /\ freemem' = freemem + Actual(blk[o].size)
        /\ usedmem' = usedmem - Actual(blk[o].size)
        /\ blk' = [blk EXCEPT ![o] = Free0] /\ ret' = "freed" /\ req' = req /\ odd' = odd
    BY Zenon, <2>1 DEF Free
  <2> QED BY Zenon, <2>2, FreedInv
<1>10. CASE \E o, v \in Owners : Realloc(o, v)
  <2>1. PICK o \in Owners, v \in Owners : Realloc(o, v)
    BY Zenon, <1>10
  <2>2. PICK s \in Sizes : realloc(o, v, s, blk[v].kind)
    BY Zenon, <2>1 DEF Realloc
  <2>3. blk[v].kind \in {"malloc", "cache"}
    BY Zenon, <2>1 DEF Realloc
  <2>4. blk[v].kind \in Kinds /\ Held(v)
    BY <2>3 DEF Kinds, Held
  <2> QED BY Zenon, <2>2, <2>4, ReallocInv
<1>11. CASE UNCHANGED vars
  <2>1. UNCHANGED <<free_blocks, freemem, usedmem, blk, odd>> /\ req' = req /\ ret' = ret
    BY Zenon, <1>11 DEF vars
  <2>2. req # NoReq => /\ req.for \in Owners /\ ~Held(req.for)
                       /\ req.kind # "none" /\ req.size # 0
                       /\ req.old # 0 => Held(req.old)
    BY Zenon DEF HeapInv
  <2> QED BY Zenon, <1>1, <2>1, <2>2, RequestStep
<1> QED BY Zenon, <1>4, <1>5, <1>6, <1>7, <1>8, <1>9, <1>10, <1>11 DEF Next, alloc_memblock

\* The invariant of every behaviour of the allocator.
LEMMA HeapHolds == Spec => []HeapInv
<1> QED BY HeapInit, HeapNext, PTL DEF Spec

\* The types of the allocator's state.
THEOREM Typing == Spec => []TypeOK
<1>1. HeapInv => TypeOK
    BY Zenon DEF HeapInv
<1> QED BY <1>1, HeapHolds, PTL

\* The assertions of check_blocks hold and the statistics agree with the blocks in
\* use, for every heap, every block size and any number of owners.
THEOREM BlocksChecked == Spec => []CheckBlocks
<1>1. HeapInv => CheckBlocks
  <2> SUFFICES ASSUME HeapInv PROVE CheckBlocks
    OBVIOUS
  <2>1. Whole(free_blocks)
    BY Zenon DEF HeapInv
  <2>2. ASSUME NEW i \in DOMAIN free_blocks
        PROVE  /\ free_blocks[i].size >= MinBlock
               /\ i > 1 => free_blocks[i].ptr > free_blocks[i - 1].ptr + free_blocks[i - 1].size
    <3>1. Len(free_blocks) \in Nat /\ DOMAIN free_blocks = 1..Len(free_blocks)
      BY Zenon, <2>1, WholeTypes
    <3>2. \A j \in DOMAIN free_blocks : free_blocks[j].ptr \in Int /\ free_blocks[j].size \in Int
      BY Zenon, <2>1, WholeTypes
    <3>3. free_blocks[i].size >= MinBlock
      <4>1. MinBlock <= free_blocks[i].size
        BY Zenon, <2>1 DEF Whole, InHeap
      <4> QED BY <3>2, <4>1, Constants
    <3>4. ASSUME i > 1
          PROVE  free_blocks[i].ptr > free_blocks[i - 1].ptr + free_blocks[i - 1].size
      <4>1. i - 1 \in DOMAIN free_blocks /\ i - 1 < i
        BY <3>1, <3>4
      <4>2. free_blocks[i - 1].ptr + free_blocks[i - 1].size < free_blocks[i].ptr
        BY Zenon, <2>1, <4>1 DEF Whole, Ascending
      <4> QED BY <3>2, <4>1, <4>2
    <3> QED BY Zenon, <3>3, <3>4
  <2>3. Used = UNION {ActualCells(o) : o \in {q \in Owners : Held(q)}}
    BY Zenon DEF Used, Owned
  <2>4. usedmem = Cardinality(Used) /\ freemem = HeapSize - usedmem
    BY Zenon DEF HeapInv
  <2> QED BY Zenon, <2>2, <2>3, <2>4 DEF CheckBlocks
<1> QED BY <1>1, HeapHolds, PTL

\* Blocks of different owners share no cell, and no cell of a block is free:
\* alloc_memblock never hands out memory twice, whatever alignment and offset it is
\* asked for and whatever a discarder frees meanwhile.
Separate ==
    \A o \in Owners : Held(o) =>
       /\ ActualCells(o) \cap FreeCells = {}
       /\ \A p \in Owners \ {o} : Held(p) => ActualCells(o) \cap ActualCells(p) = {}

\* free_memblock and alloc_memblock keep blocks and free memory apart.
THEOREM NeverTwice == Spec => []Separate
<1>1. HeapInv => Separate
    BY Zenon DEF HeapInv, Separate, Owned
<1> QED BY <1>1, HeapHolds, PTL

-----------------------------------------------------------------------------
(***************************************************************************)
(* An allocation fails only when the heap is full.                         *)
(***************************************************************************)

\* A run of free cells lies in one block of the list, since adjacent blocks are
\* merged.
LEMMA OneBlock ==
    ASSUME NEW l, Whole(l), NEW a \in Int, NEW n \in Int, n > 0,
           a..(a + n - 1) \subseteq CellsIn(l)
    PROVE  \E i \in DOMAIN l : l[i].ptr <= a /\ a + n <= l[i].ptr + l[i].size
<1>1. a \in CellsIn(l)
  <2>1. a \in a..(a + n - 1)
    OBVIOUS
  <2> QED BY Zenon, <2>1
<1>2. PICK i \in DOMAIN l : Holds(l[i], a)
    BY Zenon, <1>1, CellIn
<1>3. /\ Len(l) \in Nat /\ DOMAIN l = 1..Len(l)
      /\ \A j \in DOMAIN l : l[j].ptr \in Int /\ l[j].size \in Int /\ l[j].size > 0
    BY Zenon, WholeTypes
<1> DEFINE e == l[i].ptr + l[i].size
<1>4. l[i].ptr \in Int /\ l[i].size \in Int /\ l[i].ptr <= a /\ a < e /\ e \in Int
    BY <1>2, <1>3 DEF Holds
<1>5. a + n <= e
  <2> SUFFICES ASSUME e < a + n PROVE FALSE
    BY <1>4
  <2>1. e \in a..(a + n - 1)
    BY <1>4
  <2>2. PICK j \in DOMAIN l : Holds(l[j], e)
    BY Zenon, <2>1, CellIn
  <2> HIDE DEF e
  <2>3. l[j].ptr <= e /\ e < l[j].ptr + l[j].size /\ l[j].ptr \in Int /\ l[j].size \in Int
    BY Zenon, <1>3, <2>2 DEF Holds
  <2>4. /\ i < j => e < l[j].ptr
        /\ j < i => l[j].ptr + l[j].size < l[i].ptr
    BY Zenon DEF Whole, Ascending, e
  <2>5. i = j \/ i < j \/ j < i
    BY <1>3
  <2>6. CASE i = j
    BY <1>4, <2>3, <2>6 DEF e
  <2>7. CASE i < j
    BY <1>4, <2>3, <2>4, <2>7
  <2>8. CASE j < i
    BY <1>4, <2>3, <2>4, <2>8
  <2> QED BY Zenon, <2>5, <2>6, <2>7, <2>8
<1> QED BY Zenon, <1>4, <1>5

\* alloc_memblock returns NULL only when no cache is left to discard and no run of
\* free cells has the length and the alignment asked for: first fit misses nothing,
\* however the blocks were cut and merged before.
THEOREM NullMeansFull == Spec => NullOnlyWhenFull
<1> DEFINE Full == /\ \A o \in Owners \ {req.old} : blk[o].kind # "cache"
                   /\ ~ \E a \in FreeCells :
                         /\ (a - req.offset) % req.align = 0 /\ (a - req.offset) % MinBlock = 0
                         /\ a..(a + Actual(req.size) - 1) \subseteq FreeCells
           P == (ret' = "null" /\ req # NoReq /\ req' = NoReq /\ Actual(req.size) # 0) => Full
<1>1. HeapInv /\ Fail /\ Actual(req.size) # 0 => Full
  <2> SUFFICES ASSUME HeapInv, Fail, Actual(req.size) # 0 PROVE Full
    OBVIOUS
  <2>1. /\ \A i \in DOMAIN free_blocks : ~Fits(free_blocks[i], req)
        /\ \A o \in Owners \ {req.old} : blk[o].kind # "cache"
        /\ req # NoReq
    BY Zenon DEF Fail
  <2>2. ASSUME NEW a \in FreeCells,
               (a - req.offset) % req.align = 0, (a - req.offset) % MinBlock = 0,
               a..(a + Actual(req.size) - 1) \subseteq FreeCells
        PROVE  FALSE
    <3> DEFINE n == Actual(req.size)
               l == free_blocks
    <3>1. Whole(l) /\ FreeCells = CellsIn(l)
      BY Zenon DEF HeapInv, FreeCells, CellsIn
    <3>2. a \in Int
      BY Zenon, <3>1, CellIn
    <3>3. /\ n \in Int /\ MinBlock <= n
          /\ req.align \in Int /\ req.align > 0 /\ req.offset \in Int
      BY Zenon, <2>1, RequestFacts DEF Need
    <3>4. a..(a + n - 1) \subseteq CellsIn(l)
      BY Zenon, <2>2, <3>1
    <3> HIDE DEF n
    <3>5. n > 0
      BY <3>3, Constants
    <3>6. PICK i \in DOMAIN l : l[i].ptr <= a /\ a + n <= l[i].ptr + l[i].size
      BY Zenon, <3>1, <3>2, <3>3, <3>4, <3>5, OneBlock
    <3>7. l[i].ptr \in Int /\ l[i].size \in Int
      BY Zenon, <3>1, WholeTypes
    <3> DEFINE p == PreSize(l[i], req)
    <3>8. p \in Int /\ 0 <= p
      BY Zenon, <3>3, <3>7, Skipping
    <3>9. l[i].ptr + p <= a
      <4>1. a >= l[i].ptr
        BY <3>2, <3>6, <3>7
      <4>2. (a - req.offset) % Mask(req) = 0
        BY Zenon, <2>2 DEF Mask
      <4> QED BY Zenon, <3>2, <3>3, <3>7, <4>1, <4>2, Skipping
    <3> HIDE DEF p, l
    <3>10. l[i].size >= p /\ l[i].size - p >= n
      BY <3>2, <3>3, <3>5, <3>6, <3>7, <3>8, <3>9
    <3>11. Fits(l[i], req)
      BY Zenon, <3>10 DEF Fits, p, n
    <3> QED BY Zenon, <2>1, <3>11 DEF l
  <2> QED BY Zenon, <2>1, <2>2
<1> HIDE DEF Full
<1>2. HeapInv /\ Next => P
  <2> SUFFICES ASSUME HeapInv, Next, ret' = "null", req # NoReq, req' = NoReq,
                      Actual(req.size) # 0
               PROVE  Full
    OBVIOUS
  <2>1. Fail
    <3>1. ~Take
      BY Zenon DEF Take
    <3>2. ~Discard
      BY Zenon DEF Discard
    <3>3. \A o \in Owners : ~Malloc(o) /\ ~MallocDma(o) /\ ~Free(o)
      BY Zenon DEF Malloc, realloc, MallocDma, Free
    <3>4. \A o, old \in Owners : ~Realloc(o, old)
      BY Zenon DEF Realloc, realloc
    <3> QED BY Zenon, <3>1, <3>2, <3>3, <3>4 DEF Next, alloc_memblock
  <2> QED BY Zenon, <1>1, <2>1
<1>3. HeapInv /\ [Next]_vars => [P]_vars
    BY Zenon, <1>2
<1> QED BY <1>3, HeapHolds, PTL DEF Spec, NullOnlyWhenFull, Full

-----------------------------------------------------------------------------
(***************************************************************************)
(* Memory is given up only at the ends of the heap, until a block is       *)
(* placed at an offset that is no multiple of MIN_MEMBLOCK_SIZE.           *)
(***************************************************************************)

\* Where blocks start and end, and the cells that may be lost.
Starts(x) == x = Base \/ x % MinBlock = 0
Stops(x) == x = Base + HeapSize \/ x % MinBlock = 0
Edges(l) == \A e \in Range(l) : Starts(e.ptr) /\ Stops(e.ptr + e.size)
AtEnds(c) == c < Base + MinBlock - 1 \/ c > Base + HeapSize - MinBlock

\* Only the first block may start, and only the last one may end, at an address
\* that is no multiple of MIN_MEMBLOCK_SIZE.
EndsInv ==
    /\ Edges(free_blocks)
    /\ \A o \in Owners : Held(o) => blk[o].ptr % MinBlock = 0
    /\ LeaksOnlyAtEnds

\* An aligned block starts at a multiple of MIN_MEMBLOCK_SIZE.
LEMMA AlignedStart ==
    ASSUME HeapInv, req # NoReq, req.offset % MinBlock = 0, NEW b, b.ptr \in Int
    PROVE  (b.ptr + PreSize(b, req)) % MinBlock = 0
<1>1. /\ req.align \in Int /\ req.align > 0 /\ req.offset \in Int
      /\ req.align \in Aligns \cup {1} /\ req.offset \in Offsets \cup {0}
    BY Zenon, RequestFacts
<1>2. PICK q \in Int : b.ptr + PreSize(b, req) = req.offset + Mask(req) * q
    BY Zenon, <1>1, Skipping
<1> DEFINE k == Mask(req)
           z == k * q
           f == req.offset
<1>3. 0 % MinBlock = 0 /\ MinBlock % MinBlock = 0
  <2>1. 0 % MinBlock = 0
    BY Constants
  <2>2. MinBlock * 1 = MinBlock /\ 1 \in Int
    BY Constants
  <2>3. (MinBlock * 1) % MinBlock = 0
    BY Zenon, <2>2, Multiple, Constants
  <2> QED BY Zenon, <2>1, <2>2, <2>3
<1>4. k \in Int /\ k > 0 /\ k % MinBlock = 0
  <2>1. CASE req.align > MinBlock
    <3>1. k = req.align
      BY Zenon, <2>1 DEF Mask
    <3>2. req.align # 1 /\ ~(req.align <= MinBlock)
      BY <1>1, <2>1, Constants
    <3>3. req.align % MinBlock = 0
      BY Zenon, <1>1, <3>2, MallocAssumption
    <3> QED BY Zenon, <1>1, <3>1, <3>3
  <2>2. CASE ~(req.align > MinBlock)
    <3>1. k = MinBlock
      BY Zenon, <2>2 DEF Mask
    <3> QED BY Zenon, <1>3, <3>1, Constants
  <2> QED BY Zenon, <2>1, <2>2
<1>5. f \in Int /\ f % MinBlock = 0
    BY Zenon, <1>1
<1>6. z \in Int
  <2> HIDE DEF k
  <2> QED BY <1>4
<1>7. z % MinBlock = 0
  <2> HIDE DEF k
  <2> QED BY Zenon, <1>4, MultipleOfMultiple, Constants
<1> HIDE DEF z, f
<1>8. (f + z) % MinBlock = 0
    BY Zenon, <1>5, <1>6, <1>7, Sums, Constants
<1> QED BY Zenon, <1>2, <1>8 DEF z, f

\* What alloc_memblock gives up when it cuts a block.
LEMMA CutLoss ==
    ASSUME HeapInv, Edges(free_blocks), req.offset % MinBlock = 0,
           NEW i, NEW x, TakeAt(i, x), Need # 0
    PROVE  /\ x % MinBlock = 0
           /\ Edges(CutList(i, x))
           /\ \A c \in FreeCells \ x..(x + Need - 1) :
                 c \in CellsIn(CutList(i, x)) \/ AtEnds(c)
<1> DEFINE l == free_blocks
           a == l[i].ptr
           z == l[i].ptr + l[i].size
           y == x + Need
           r == CutAt(l, i, x, y)
<1>1. /\ req # NoReq /\ i \in DOMAIN l /\ x \in Int
      /\ x = a + PreSize(l[i], req) /\ a <= x /\ y <= z
    BY Zenon DEF TakeAt
<1>2. Need \in Int /\ MinBlock <= Need /\ Need % MinBlock = 0
    BY Zenon, <1>1, RequestFacts
<1>3. Whole(l) /\ FreeCells = CellsIn(l)
    BY Zenon DEF HeapInv, FreeCells, CellsIn
<1>4. a \in Int /\ l[i].size \in Int
    BY Zenon, <1>1, <1>3, WholeTypes
<1>5. z \in Int /\ y \in Int /\ x < y
    BY <1>1, <1>2, <1>4, Constants
<1>6. x % MinBlock = 0
    BY Zenon, <1>1, <1>4, AlignedStart
<1>7. y % MinBlock = 0
    BY Zenon, <1>1, <1>2, <1>6, Sums, Constants
<1>8. Starts(a) /\ Stops(z)
  <2>1. l[i] \in Range(l)
    BY Zenon, <1>1 DEF Range
  <2> QED BY Zenon, <2>1 DEF Edges
<1>9. CutList(i, x) = r
    BY Zenon DEF CutList
<1> HIDE DEF l, y
<1>10. /\ \A c : c \in CellsIn(r) <=>
                 /\ c \in CellsIn(l)
                 /\ Holds(l[i], c) => \/ c < x /\ MinBlock <= x - l[i].ptr
                                      \/ y <= c /\ MinBlock <= (l[i].ptr + l[i].size) - y
       /\ \A e \in Range(r) :
             \/ \E j \in DOMAIN l \ {i} : e = l[j]
             \/ e.ptr = l[i].ptr /\ e.ptr + e.size = x
             \/ e.ptr = y /\ e.ptr + e.size = l[i].ptr + l[i].size
  <2>1. CutResult(l, i, x, y)
    BY Zenon, <1>1, <1>3, <1>5, Cutting
  <2> QED BY Zenon, <2>1 DEF CutResult
<1>11. Edges(r)
  <2> SUFFICES ASSUME NEW e \in Range(r) PROVE Starts(e.ptr) /\ Stops(e.ptr + e.size)
    BY Zenon DEF Edges
  <2>1. CASE \E j \in DOMAIN l \ {i} : e = l[j]
    BY Zenon, <2>1 DEF Edges, Range, l
  <2>2. CASE e.ptr = l[i].ptr /\ e.ptr + e.size = x
    BY Zenon, <1>6, <1>8, <2>2 DEF Stops
  <2>3. CASE e.ptr = y /\ e.ptr + e.size = l[i].ptr + l[i].size
    BY Zenon, <1>7, <1>8, <2>3 DEF Starts
  <2> QED BY Zenon, <1>10, <2>1, <2>2, <2>3
<1>12. ASSUME NEW c \in CellsIn(l) \ x..(y - 1), c \notin CellsIn(r) PROVE AtEnds(c)
  <2>1. c \in Int
    BY Zenon, <1>3, CellIn
  <2>2. /\ Holds(l[i], c)
        /\ ~(c < x /\ MinBlock <= x - a) /\ ~(y <= c /\ MinBlock <= z - y)
    BY Zenon, <1>10, <1>12
  <2>3. a <= c /\ c < z
    BY Zenon, <2>2 DEF Holds
  <2> HIDE DEF a, z
  <2>4. c < x \/ y <= c
    BY <1>1, <1>5, <2>1, <1>12
  <2>5. CASE c < x
    <3>1. x - a \in Nat /\ x - a < MinBlock /\ x - a # 0
      BY <1>1, <1>4, <2>1, <2>2, <2>3, <2>5, Constants
    <3>2. ~(a % MinBlock = 0)
      <4> SUFFICES ASSUME a % MinBlock = 0 PROVE FALSE
        BY Zenon
      <4>1. (x - a) % MinBlock = 0
        BY Zenon, <1>1, <1>4, <1>6, Sums, Constants
      <4> QED BY Zenon, <3>1, <4>1, SmallMultiple, Constants
    <3>3. a = Base
      BY Zenon, <1>8, <3>2 DEF Starts
    <3> QED BY <1>1, <2>1, <2>5, <3>1, <3>3, Constants DEF AtEnds
  <2>6. CASE y <= c
    <3>1. z - y \in Nat /\ z - y < MinBlock /\ z - y # 0
      BY <1>5, <2>1, <2>2, <2>3, <2>6, Constants
    <3>2. ~(z % MinBlock = 0)
      <4> SUFFICES ASSUME z % MinBlock = 0 PROVE FALSE
        BY Zenon
      <4>1. (z - y) % MinBlock = 0
        BY Zenon, <1>5, <1>7, Sums, Constants
      <4> QED BY Zenon, <3>1, <4>1, SmallMultiple, Constants
    <3>3. z = Base + HeapSize
      BY Zenon, <1>8, <3>2 DEF Stops
    <3> QED BY <1>5, <2>1, <2>6, <3>1, <3>3, Constants DEF AtEnds
  <2> QED BY Zenon, <2>4, <2>5, <2>6
<1>13. x..(y - 1) = x..(x + Need - 1)
    BY <1>1, <1>2 DEF y
<1> HIDE DEF r
<1> QED BY Zenon, <1>3, <1>6, <1>9, <1>11, <1>12, <1>13

\* LeaksOnlyAtEnds, in terms of the cells in use.
LEMMA LeaksMeans ==
    LeaksOnlyAtEnds <=>
       \A c \in Base..(Base + HeapSize - 1) : c \in FreeCells \/ c \in Used \/ AtEnds(c)
<1>1. \A c : c \in Used <=> \E o \in Owners : Held(o) /\ c \in ActualCells(o)
    BY Zenon DEF Used, Owned
<1> QED BY Zenon, <1>1 DEF LeaksOnlyAtEnds, AtEnds

\* The same after a step.
LEMMA LeaksNext ==
    LeaksOnlyAtEnds' <=>
       \A c \in Base..(Base + HeapSize - 1) : c \in FreeCells' \/ c \in Used' \/ AtEnds(c)
<1>1. \A c : c \in Used' <=> \E o \in Owners : Held(o)' /\ c \in ActualCells(o)'
    BY Zenon DEF Used, Owned
<1> QED BY Zenon, <1>1 DEF LeaksOnlyAtEnds, AtEnds

\* A list into which a block was released keeps its edges.
LEMMA ReleaseEdges ==
    ASSUME NEW l, Whole(l), Edges(l), HeapInv, NEW o \in Owners, Held(o),
           blk[o].ptr % MinBlock = 0, Owned(o) \cap CellsIn(l) = {}
    PROVE  Edges(free_memblock(o, l))
<1> DEFINE n == Actual(blk[o].size)
           p == blk[o].ptr
           r == Release(l, p, n)
<1>1. /\ p \in Int /\ n \in Int /\ MinBlock <= n /\ Base <= p /\ p + n <= Base + HeapSize
      /\ n % MinBlock = 0 /\ Owned(o) = p..(p + n - 1)
    BY Zenon, HeldFacts
<1>2. free_memblock(o, l) = r
    BY Zenon DEF free_memblock
<1>3. p % MinBlock = 0
    BY Zenon
<1> HIDE DEF n, p
<1>4. p..(p + n - 1) \cap CellsIn(l) = {}
    BY Zenon, <1>1
<1>5. \A e \in Range(r) :
         /\ e.ptr = p \/ \E i \in DOMAIN l : e.ptr = l[i].ptr
         /\ \/ e.ptr + e.size = p + n
            \/ \E i \in DOMAIN l : e.ptr + e.size = l[i].ptr + l[i].size
  <2>1. ReleaseResult(l, p, n)
    BY Zenon, <1>1, <1>4, ReleaseCells
  <2> QED BY Zenon, <2>1 DEF ReleaseResult
<1>6. (p + n) % MinBlock = 0
    BY Zenon, <1>1, <1>3, Sums, Constants
<1>7. \A i \in DOMAIN l : Starts(l[i].ptr) /\ Stops(l[i].ptr + l[i].size)
    BY Zenon DEF Edges, Range
<1>8. Starts(p) /\ Stops(p + n)
    BY Zenon, <1>3, <1>6 DEF Starts, Stops
<1> HIDE DEF r
<1>9. ASSUME NEW e \in Range(r) PROVE Starts(e.ptr) /\ Stops(e.ptr + e.size)
    BY Zenon, <1>5, <1>7, <1>8
<1> QED BY Zenon, <1>2, <1>9 DEF Edges

\* Freeing a block gives nothing up.
LEMMA FreedEnds ==
    ASSUME HeapInv, EndsInv, NEW o \in Owners, Held(o),
           free_blocks' = free_memblock(o, free_blocks), blk' = [blk EXCEPT ![o] = Free0]
    PROVE  EndsInv'
<1>1. /\ FreeCells' = FreeCells \cup Owned(o)
      /\ blk'[o] = Free0 /\ \A p \in Owners \ {o} : blk'[p] = blk[p]
      /\ \A p \in Owners \ {o} : Owned(p)' = Owned(p)
    BY Zenon, FreeStep
<1>2. Edges(free_blocks)'
  <2>1. Whole(free_blocks) /\ Edges(free_blocks) /\ blk[o].ptr % MinBlock = 0
    BY Zenon DEF HeapInv, EndsInv
  <2>2. Owned(o) \cap CellsIn(free_blocks) = {}
    BY Zenon, HeldFacts
  <2>3. Edges(free_memblock(o, free_blocks))
    BY Zenon, <2>1, <2>2, ReleaseEdges
  <2> QED BY Zenon, <2>3
<1>3. \A p \in Owners : Held(p)' => blk'[p].ptr % MinBlock = 0
  <2>1. ~Held(o)'
    BY <1>1 DEF Held, Free0
  <2>2. \A p \in Owners : Held(p) => blk[p].ptr % MinBlock = 0
    BY Zenon DEF EndsInv
  <2> QED BY Zenon, <1>1, <2>1, <2>2 DEF Held
<1>4. LeaksOnlyAtEnds'
  <2>1. \A c \in Base..(Base + HeapSize - 1) : c \in FreeCells \/ c \in Used \/ AtEnds(c)
    BY Zenon, LeaksMeans DEF EndsInv
  <2>2. \A c \in Used : c \in Owned(o) \/ c \in Used'
    BY Zenon, <1>1 DEF Used
  <2>3. \A c \in Base..(Base + HeapSize - 1) : c \in FreeCells' \/ c \in Used' \/ AtEnds(c)
    BY Zenon, <1>1, <2>1, <2>2
  <2> QED BY Zenon, <2>3, LeaksNext
<1> QED BY Zenon, <1>2, <1>3, <1>4 DEF EndsInv

\* Taking one gives up cells at the ends only.
LEMMA TakenEnds ==
    ASSUME HeapInv, EndsInv, Take, req.offset % MinBlock = 0
    PROVE  EndsInv'
<1>1. Need # 0 /\ req # NoReq
    BY Zenon, TakeFacts DEF Take
<1>2. PICK i, x : TakeAt(i, x)
    BY Zenon, TakeFacts
<1>3. PICK w, v : w = req.for /\ v = req.old
    BY Zenon
<1>4. w \in Owners /\ (v # 0 => v \in Owners /\ Held(v) /\ v # w)
    BY Zenon, <1>1, <1>3, RequestFacts
<1> DEFINE new == x..(x + Need - 1)
           cut == CutList(i, x)
<1>5. /\ blk'[w] = [ptr |-> x, size |-> req.size, kind |-> req.kind]
      /\ \A p \in Owners \ {w, v} : blk'[p] = blk[p]
      /\ v # 0 => blk'[v] = Free0
      /\ FreeCells' = CellsIn(cut) \cup Given(v)
      /\ CellsIn(cut) \subseteq FreeCells \ new
      /\ Used' = (Used \ Given(v)) \cup new
  <2>1. TakeResult(i, x, w, v)
    BY Zenon, <1>1, <1>2, <1>3, TakeStep
  <2> QED BY Zenon, <2>1 DEF TakeResult
<1>6. /\ x % MinBlock = 0 /\ Edges(cut)
      /\ \A c \in FreeCells \ new : c \in CellsIn(cut) \/ AtEnds(c)
    BY Zenon, <1>1, <1>2, CutLoss DEF EndsInv
<1>7. Whole(cut)
  <2>1. Whole(free_blocks) /\ i \in DOMAIN free_blocks
    BY Zenon, <1>2 DEF HeapInv, TakeAt
  <2>2. free_blocks[i].ptr <= x /\ x + Need <= free_blocks[i].ptr + free_blocks[i].size
        /\ x \in Int
    BY Zenon, <1>2 DEF TakeAt
  <2>3. Need \in Int /\ MinBlock <= Need
    BY Zenon, <1>1, RequestFacts
  <2>4. x + Need \in Int /\ x < x + Need
    BY <2>2, <2>3, Constants
  <2> QED BY Zenon, <2>1, <2>2, <2>4, CutCells DEF CutList
<1> HIDE DEF cut, new
<1>8. Edges(free_blocks)'
  <2>1. free_blocks' = IF v = 0 THEN cut ELSE free_memblock(v, cut)
    BY Zenon, <1>2, <1>3 DEF TakeAt, cut
  <2>2. CASE v = 0
    BY Zenon, <1>6, <2>1, <2>2
  <2>3. CASE v # 0
    <3>1. v \in Owners /\ Held(v) /\ blk[v].ptr % MinBlock = 0
      BY Zenon, <1>4, <2>3 DEF EndsInv
    <3>2. Owned(v) \cap FreeCells = {}
      BY Zenon, <3>1 DEF HeapInv
    <3>3. Owned(v) \cap CellsIn(cut) = {}
      BY Zenon, <1>5, <3>2
    <3>4. Edges(free_memblock(v, cut))
      BY Zenon, <1>6, <1>7, <3>1, <3>3, ReleaseEdges
    <3> QED BY Zenon, <2>1, <2>3, <3>4
  <2> QED BY Zenon, <2>2, <2>3
<1>9. \A p \in Owners : Held(p)' => blk'[p].ptr % MinBlock = 0
  <2>1. v # 0 => ~Held(v)'
    BY <1>5 DEF Held, Free0
  <2>2. \A p \in Owners : Held(p) => blk[p].ptr % MinBlock = 0
    BY Zenon DEF EndsInv
  <2>3. blk'[w].ptr = x
    BY <1>5
  <2>4. 0 \notin Owners
    BY Zenon, MallocAssumption
  <2>5. ASSUME NEW p \in Owners, Held(p)' PROVE blk'[p].ptr % MinBlock = 0
    <3>1. CASE p = w
      BY Zenon, <1>6, <2>3, <3>1
    <3>2. CASE p # w
      <4>1. p # v
        BY Zenon, <2>1, <2>4, <2>5
      <4>2. blk'[p] = blk[p]
        BY Zenon, <1>5, <3>2, <4>1
      <4>3. Held(p)
        BY Zenon, <2>5, <4>2 DEF Held
      <4> QED BY <2>2, <4>2, <4>3
    <3> QED BY Zenon, <3>1, <3>2
  <2> QED BY Zenon, <2>5
<1>10. LeaksOnlyAtEnds'
  <2>1. \A c \in Base..(Base + HeapSize - 1) : c \in FreeCells \/ c \in Used \/ AtEnds(c)
    BY Zenon, LeaksMeans DEF EndsInv
  <2>2. ASSUME NEW c \in Base..(Base + HeapSize - 1)
        PROVE  c \in FreeCells' \/ c \in Used' \/ AtEnds(c)
    <3>1. CASE c \in FreeCells
      BY Zenon, <1>5, <1>6, <3>1
    <3>2. CASE c \in Used
      BY Zenon, <1>5, <3>2
    <3> QED BY Zenon, <2>1, <3>1, <3>2
  <2> QED BY Zenon, <2>2, LeaksNext
<1> QED BY Zenon, <1>8, <1>9, <1>10 DEF EndsInv

\* Nothing is lost at first.
LEMMA EndsInit == Init => EndsInv
<1> SUFFICES ASSUME Init PROVE EndsInv
    OBVIOUS
<1> DEFINE b == [ptr |-> Base, size |-> HeapSize]
<1>1. free_blocks = <<b>>
  <2>1. HeapSize - (HeapSize % MinBlock) = HeapSize
    BY Constants
  <2> QED BY Zenon, <2>1 DEF Init
<1>2. b.ptr = Base /\ b.size = HeapSize /\ Range(free_blocks) = {b}
    BY <1>1 DEF Range
<1> HIDE DEF b
<1>3. Edges(free_blocks)
    BY Zenon, <1>2 DEF Edges, Starts, Stops
<1>4. \A o \in Owners : ~Held(o)
    BY DEF Init, Held, Free0
<1>5. \A c \in Base..(Base + HeapSize - 1) : c \in FreeCells
    BY Zenon, <1>2 DEF FreeCells, CellsOf
<1> QED BY Zenon, <1>3, <1>4, <1>5 DEF EndsInv, LeaksOnlyAtEnds

\* Every step keeps this, unless it places a block at such an offset.
LEMMA EndsNext == HeapInv /\ (odd \/ EndsInv) /\ [Next]_vars => (odd \/ EndsInv)'
<1> SUFFICES ASSUME HeapInv, odd \/ EndsInv, [Next]_vars, ~odd' PROVE EndsInv'
    BY Zenon
<1>0. ~odd /\ (Take => req.offset % MinBlock = 0)
  <2>1. Take => (odd' <=> odd \/ req.offset % MinBlock # 0)
    <3>1. Take => odd' = (odd \/ req.offset % MinBlock # 0)
      BY Zenon DEF Take
    <3> QED BY Zenon, <3>1
  <2>2. \A o, v, t, k : realloc(o, v, t, k) => odd' = odd
    BY Zenon DEF realloc
  <2>3. Take \/ odd' = odd
    BY Zenon, <2>2 DEF Next, vars, alloc_memblock, Discard, Fail, Malloc, MallocDma, Free,
       Realloc
  <2> QED BY <2>1, <2>3
<1>1. ASSUME UNCHANGED <<free_blocks, blk>> PROVE EndsInv'
    BY Zenon, <1>0, <1>1 DEF EndsInv, Held, LeaksOnlyAtEnds, FreeCells, ActualCells
<1>2. CASE Take
    BY Zenon, <1>0, <1>2, TakenEnds
<1>3. CASE Discard
  <2>1. PICK o \in Owners : /\ blk[o].kind = "cache"
                            /\ free_blocks' = free_memblock(o, free_blocks)
                            /\ blk' = [blk EXCEPT ![o] = Free0]
    BY Zenon, <1>3 DEF Discard
  <2>2. Held(o)
    BY <2>1 DEF Held
  <2> QED BY Zenon, <1>0, <2>1, <2>2, FreedEnds
<1>4. CASE Fail
    BY Zenon, <1>1, <1>4 DEF Fail
<1>5. CASE \E o \in Owners : Malloc(o) \/ MallocDma(o)
    BY Zenon, <1>1, <1>5 DEF Malloc, realloc, MallocDma
<1>6. CASE \E o \in Owners : Free(o)
    BY Zenon, <1>0, <1>6, FreedEnds DEF Free
<1>7. CASE \E o, old \in Owners : Realloc(o, old)
    BY Zenon, <1>1, <1>7 DEF Realloc, realloc
<1>8. CASE UNCHANGED vars
    BY Zenon, <1>1, <1>8 DEF vars
<1> QED BY Zenon, <1>2, <1>3, <1>4, <1>5, <1>6, <1>7, <1>8 DEF Next, alloc_memblock

\* For every heap, every MIN_MEMBLOCK_SIZE and all the sizes, alignments and offsets
\* that callers ask for: however blocks are allocated, resized and freed, up to the
\* first block at an offset that is no multiple of MIN_MEMBLOCK_SIZE the cells that
\* alloc_memblock has given up are fewer than that at the very start and at the very
\* end of the heap, as its comments say.
THEOREM LeaksBounded == Spec => []LeaksNeedOffset
<1>1. HeapInv /\ (odd \/ EndsInv) /\ [Next]_vars => (HeapInv /\ (odd \/ EndsInv))'
    BY Zenon, EndsNext, HeapNext
<1>2. odd \/ EndsInv => LeaksNeedOffset
    BY Zenon DEF EndsInv, LeaksNeedOffset
<1>3. Init => odd \/ EndsInv
    BY Zenon, EndsInit
<1> QED BY <1>1, <1>2, <1>3, HeapInit, PTL DEF Spec

-----------------------------------------------------------------------------
(***************************************************************************)
(* The allocator implements the abstract heap.                             *)
(***************************************************************************)

\* What is lost when a block is cut lies directly before or after it, and is too
\* small for a block, whatever the offset.
LEMMA CutBeside ==
    ASSUME HeapInv, NEW i, NEW x, TakeAt(i, x), Need # 0
    PROVE  \A c \in FreeCells \ x..(x + Need - 1) :
              c \in CellsIn(CutList(i, x)) \/ c \in TheHeap!Beside(x, Need)
<1> DEFINE l == free_blocks
           a == l[i].ptr
           z == l[i].ptr + l[i].size
           y == x + Need
           r == CutAt(l, i, x, y)
<1>1. req # NoReq /\ i \in DOMAIN l /\ x \in Int /\ a <= x /\ y <= z
    BY Zenon DEF TakeAt
<1>2. Need \in Int /\ MinBlock <= Need
    BY Zenon, <1>1, RequestFacts
<1>3. Whole(l) /\ FreeCells = CellsIn(l)
    BY Zenon DEF HeapInv, FreeCells, CellsIn
<1>4. a \in Int /\ l[i].size \in Int
    BY Zenon, <1>1, <1>3, WholeTypes
<1>5. z \in Int /\ y \in Int /\ x < y
    BY <1>1, <1>2, <1>4, Constants
<1>6. CutList(i, x) = r
    BY Zenon DEF CutList
<1> HIDE DEF l, y
<1>7. \A c : c \in CellsIn(r) <=>
                 /\ c \in CellsIn(l)
                 /\ Holds(l[i], c) => \/ c < x /\ MinBlock <= x - l[i].ptr
                                      \/ y <= c /\ MinBlock <= (l[i].ptr + l[i].size) - y
  <2>1. CutResult(l, i, x, y)
    BY Zenon, <1>1, <1>3, <1>5, Cutting
  <2> QED BY Zenon, <2>1 DEF CutResult
<1>8. ASSUME NEW c \in CellsIn(l) \ x..(y - 1), c \notin CellsIn(r)
      PROVE  c \in (x - MinBlock + 1)..(x - 1) \cup y..(y + MinBlock - 2)
  <2>1. c \in Int
    BY Zenon, <1>3, CellIn
  <2>2. /\ Holds(l[i], c)
        /\ ~(c < x /\ MinBlock <= x - a) /\ ~(y <= c /\ MinBlock <= z - y)
    BY Zenon, <1>7, <1>8
  <2>3. a <= c /\ c < z
    BY Zenon, <2>2 DEF Holds
  <2> HIDE DEF a, z
  <2>4. c < x \/ y <= c
    BY <1>1, <1>5, <2>1, <1>8
  <2> QED BY <1>1, <1>4, <1>5, <2>1, <2>2, <2>3, <2>4, Constants
<1>9. /\ x..(y - 1) = x..(x + Need - 1)
      /\ TheHeap!Beside(x, Need) = (x - MinBlock + 1)..(x - 1) \cup y..(y + MinBlock - 2)
    BY <1>1, <1>2, Constants DEF y, TheHeap!Beside
<1> HIDE DEF r
<1> QED BY Zenon, <1>3, <1>6, <1>8, <1>9

\* The owners' cells, as Heap sees them.
Holding == [o \in Owners |-> Owned(o)]

\* free_memblock gives back the whole block.
LEMMA FreeImplements ==
    ASSUME HeapInv, NEW o \in Owners, Held(o),
           free_blocks' = free_memblock(o, free_blocks), blk' = [blk EXCEPT ![o] = Free0]
    PROVE  TheHeap!Next
<1>1. /\ FreeCells' = FreeCells \cup Owned(o)
      /\ Owned(o)' = {} /\ \A p \in Owners \ {o} : Owned(p)' = Owned(p)
    BY Zenon, FreeStep
<1>2. Holding' = [Holding EXCEPT ![o] = {}]
    BY Zenon, <1>1 DEF Holding
<1>3. FreeCells' = FreeCells \cup Holding[o]
    BY Zenon, <1>1 DEF Holding
<1>4. TheHeap!Free(o)
    BY Zenon, <1>2, <1>3 DEF TheHeap!Free, Holding, Owned
<1> QED BY Zenon, <1>4 DEF TheHeap!Next

\* alloc_memblock hands out free cells, and realloc gives back the old ones.
LEMMA TakeImplements ==
    ASSUME HeapInv, Take
    PROVE  TheHeap!Next
<1>1. Need # 0 /\ req # NoReq
    BY Zenon, TakeFacts DEF Take
<1>2. PICK i, x : TakeAt(i, x)
    BY Zenon, TakeFacts
<1>3. PICK w, v : w = req.for /\ v = req.old
    BY Zenon
<1>4. /\ w \in Owners /\ ~Held(w) /\ (v # 0 => v \in Owners /\ Held(v) /\ v # w)
      /\ Need \in Int /\ MinBlock <= Need
    BY Zenon, <1>1, <1>3, RequestFacts
<1> DEFINE new == x..(x + Need - 1)
           left == CellsIn(CutList(i, x))
<1>5. /\ new \subseteq FreeCells /\ Base <= x /\ x + Need <= Base + HeapSize
      /\ Owned(w)' = new
      /\ \A p \in Owners \ {w, v} : Owned(p)' = Owned(p)
      /\ v # 0 => Owned(v)' = {}
      /\ FreeCells' = left \cup Given(v)
      /\ left \subseteq FreeCells \ new
  <2>1. TakeResult(i, x, w, v)
    BY Zenon, <1>1, <1>2, <1>3, TakeStep
  <2> QED BY Zenon, <2>1 DEF TakeResult
<1>6. (FreeCells \ new) \ left \subseteq TheHeap!Beside(x, Need)
    BY Zenon, <1>1, <1>2, CutBeside
<1>7. x \in TheHeap!Cells /\ Need \in 1..HeapSize
  <2>1. x \in Int
    BY Zenon, <1>2 DEF TakeAt
  <2> QED BY <1>4, <1>5, <2>1, Constants DEF TheHeap!Cells
<1> HIDE DEF new, left
<1>10. 0 \notin Owners
    BY Zenon, MallocAssumption
<1>11. Holding[w] = {}
    BY Zenon, <1>4 DEF Holding, Owned
<1>12. CASE v = 0
  <2>1. Holding' = [Holding EXCEPT ![w] = new]
    <3>1. \A p \in Owners : Owned(p)' = IF p = w THEN new ELSE Owned(p)
      BY Zenon, <1>5, <1>10, <1>12
    <3> QED BY Zenon, <3>1 DEF Holding
  <2>2. FreeCells' = left
    BY Zenon, <1>5, <1>12 DEF Given
  <2>3. TheHeap!Allocate(w)
    BY Zenon, <1>5, <1>6, <1>7, <1>11, <2>1, <2>2 DEF TheHeap!Allocate, Holding, Owned, new
  <2> QED BY Zenon, <1>4, <2>3 DEF TheHeap!Next
<1>13. CASE v # 0
  <2>1. v \in Owners /\ Held(v) /\ v # w /\ Given(v) = Owned(v)
    BY Zenon, <1>4, <1>13 DEF Given
  <2>2. Holding' = [Holding EXCEPT ![w] = new, ![v] = {}]
    <3>1. \A p \in Owners : Owned(p)' = IF p = v THEN {} ELSE IF p = w THEN new ELSE Owned(p)
      BY Zenon, <1>5, <1>13, <2>1
    <3> QED BY Zenon, <3>1 DEF Holding
  <2>3. Holding[v] # {} /\ Holding[v] = Owned(v)
    <3>1. /\ blk[v].ptr \in Int /\ Actual(blk[v].size) \in Int /\ MinBlock <= Actual(blk[v].size)
          /\ Owned(v) = blk[v].ptr..(blk[v].ptr + Actual(blk[v].size) - 1)
      BY Zenon, <2>1, HeldFacts
    <3>2. blk[v].ptr \in blk[v].ptr..(blk[v].ptr + Actual(blk[v].size) - 1)
      BY <3>1, Constants
    <3> QED BY Zenon, <2>1, <3>1, <3>2 DEF Holding
  <2>4. Owned(v) \cap FreeCells = {}
    BY Zenon, <2>1 DEF HeapInv
  <2>5. FreeCells' = left \cup Holding[v]
    BY Zenon, <1>5, <2>1, <2>3
  <2>6. FreeCells' \subseteq (FreeCells \cup Holding[v]) \ new
    BY Zenon, <1>5, <2>3, <2>4, <2>5
  <2>7. ((FreeCells \cup Holding[v]) \ new) \ FreeCells' \subseteq TheHeap!Beside(x, Need)
    BY Zenon, <1>6, <2>5
  <2>8. TheHeap!Move(v, w)
    BY Zenon, <1>5, <1>7, <1>11, <2>2, <2>3, <2>5, <2>6, <2>7
       DEF TheHeap!Move, Holding, Owned, new
  <2> QED BY Zenon, <1>4, <2>1, <2>8 DEF TheHeap!Next
<1> QED BY Zenon, <1>12, <1>13

\* The allocator implements the abstract heap: every step of it allocates a run of
\* free cells, frees a block whole, moves one in realloc, or leaves both alone, and
\* loses less than a block on either side of what it hands out, whatever the offset.
THEOREM Implementation == Spec => ImplementsHeap
<1>1. Init => TheHeap!Init
  <2> SUFFICES ASSUME Init PROVE TheHeap!Init
    OBVIOUS
  <2> DEFINE b == [ptr |-> Base, size |-> HeapSize]
  <2>1. free_blocks = <<b>>
    <3>1. HeapSize - (HeapSize % MinBlock) = HeapSize
      BY Constants
    <3> QED BY Zenon, <3>1 DEF Init
  <2>2. b.ptr = Base /\ b.size = HeapSize /\ Range(free_blocks) = {b}
    BY <2>1 DEF Range
  <2> HIDE DEF b
  <2>3. FreeCells = Base..(Base + HeapSize - 1)
    BY Zenon, <2>2 DEF FreeCells, CellsOf
  <2>4. \A o \in Owners : ~Held(o)
    BY DEF Init, Held, Free0
  <2> QED BY Zenon, <2>3, <2>4 DEF TheHeap!Init, TheHeap!Cells
<1>2. ASSUME UNCHANGED <<free_blocks, blk>>
      PROVE  UNCHANGED <<FreeCells, [o \in Owners |-> IF Held(o) THEN ActualCells(o) ELSE {}]>>
    BY Zenon, <1>2 DEF FreeCells, Held, ActualCells
<1>3. ASSUME HeapInv, [Next]_vars
      PROVE  \/ TheHeap!Next
             \/ UNCHANGED <<FreeCells, [o \in Owners |-> IF Held(o) THEN ActualCells(o) ELSE {}]>>
  <2>1. CASE Take
    BY Zenon, <1>3, <2>1, TakeImplements
  <2>2. CASE Discard
    <3>1. PICK o \in Owners : /\ blk[o].kind = "cache"
                              /\ free_blocks' = free_memblock(o, free_blocks)
                              /\ blk' = [blk EXCEPT ![o] = Free0]
      BY Zenon, <2>2 DEF Discard
    <3>2. Held(o)
      BY <3>1 DEF Held
    <3> QED BY Zenon, <1>3, <3>1, <3>2, FreeImplements
  <2>3. CASE Fail
    BY Zenon, <1>2, <2>3 DEF Fail
  <2>4. CASE \E o \in Owners : Malloc(o) \/ MallocDma(o)
    BY Zenon, <1>2, <2>4 DEF Malloc, realloc, MallocDma
  <2>5. CASE \E o \in Owners : Free(o)
    BY Zenon, <1>3, <2>5, FreeImplements DEF Free
  <2>6. CASE \E o, old \in Owners : Realloc(o, old)
    BY Zenon, <1>2, <2>6 DEF Realloc, realloc
  <2>7. CASE UNCHANGED vars
    BY Zenon, <1>2, <2>7 DEF vars
  <2> QED BY Zenon, <1>3, <2>1, <2>2, <2>3, <2>4, <2>5, <2>6, <2>7 DEF Next, alloc_memblock
<1>4. HeapInv /\ [Next]_vars =>
         [TheHeap!Next]_<<FreeCells, [o \in Owners |-> IF Held(o) THEN ActualCells(o) ELSE {}]>>
    BY Zenon, <1>3
<1> QED BY <1>1, <1>4, HeapHolds, PTL DEF Spec, ImplementsHeap, TheHeap!Spec
=============================================================================
