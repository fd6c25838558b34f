--------------------------- MODULE GradeBookProofs ---------------------------
(***************************************************************************)
(* Proofs about the rosters of the grade program, for any files and        *)
(* options: reading fills them, sorting keeps them whole, and quicksort    *)
(* leaves them in the order of the key.                                    *)
(***************************************************************************)
EXTENDS GradeBook, FiniteSetTheorems, SequenceTheorems, NaturalsInduction, WellFoundedInduction, TLAPS

(* A set of numbers that is not empty has a least member. *)
LEMMA LeastNumber ==
  ASSUME NEW T \in SUBSET Nat, T # {}
  PROVE  \E x \in T : \A y \in T : x <= y
<1> DEFINE Less == OpToRel(<, Nat)
<1>1. PICK x \in T : \A y \in T : ~(<<y, x>> \in Less)
  BY NatLessThanWellFounded, WFMin
<1>2. ASSUME NEW y \in T PROVE x <= y
  <2>1. ~(<<y, x>> \in Less)
    BY <1>1
  <2> QED
    BY <2>1 DEF OpToRel
<1> QED
  BY <1>2

(* A set of numbers that has 0 and with each the next has all up to N. *)
LEMMA UpTo ==
  ASSUME NEW N \in Nat, NEW S, 0 \in S, \A k \in 0..(N - 1) : k \in S => k + 1 \in S
  PROVE  \A k \in 0..N : k \in S
<1> SUFFICES ASSUME NEW k \in 0..N, k \notin S PROVE FALSE
  OBVIOUS
<1> PICK T : T = (0..N) \ S
  OBVIOUS
<1>1. PICK m \in T : \A i \in T : m <= i
  BY LeastNumber
<1>2. m \in 0..N /\ m # 0 /\ m \notin S
  BY <1>1
<1>3. m - 1 \in 0..(N - 1) /\ m - 1 \notin T
  BY <1>1, <1>2
<1>4. m - 1 \in S
  BY <1>3
<1>5. (m - 1) + 1 \in S
  BY <1>3, <1>4
<1> QED
  BY <1>2, <1>5

----------------------------------------------------------------------------
(* Partition *)

(* A turn of the loop of partition. *)
Turn(by, pivot, q) ==
  LET c == Compare(by, q.tab[q.l + 1], pivot)
      r == [q EXCEPT !.alt = IF c = 0 THEN -@ ELSE @]
  IN  IF c > 0 \/ (c = 0 /\ q.alt > 0)
      THEN [r EXCEPT !.tab = Swap(@, q.l + 1, q.h), !.h = @ - 1]
      ELSE [r EXCEPT !.l = @ + 1]

Start(table, low, high) == [tab |-> table, l |-> low, h |-> high, alt |-> 1]

(* What it comes to after N turns: each is there and follows from the last.  *)
Turns(p, by, pivot, q, N) ==
  p[0] = q /\ \A k \in 1..N : p[k] = Turn(by, pivot, p[k - 1])

(* The recursion has a solution, whatever the table. *)
Solved(by, pivot, q, N) == \E p : p = [k \in 0..N |-> IF k = 0 THEN q ELSE Turn(by, pivot, p[k - 1])]

(* So the turns can be taken. *)
LEMMA TurnsBegin ==
  ASSUME NEW by, NEW pivot, NEW q, NEW N \in Nat
  PROVE  Solved(by, pivot, q, N)
<1> DEFINE Step(b, k) == IF k = 0 THEN q ELSE Turn(by, pivot, b[k - 1])
           Begins(d)  == \E f : f = [k \in 0..d |-> Step(f, k)]
<1> PICK S : S = {d \in 0..N : Begins(d)}
  OBVIOUS
<1>1. 0 \in S
  <2>1. PICK f : f = [k \in 0..0 |-> q]
    OBVIOUS
  <2>2. \A k \in 0..0 : k = 0
    OBVIOUS
  <2>3. f = [k \in 0..0 |-> Step(f, k)]
    BY <2>1, <2>2
  <2> QED
    BY <2>3
<1>2. ASSUME NEW d \in 0..(N - 1), d \in S PROVE d + 1 \in S
  <2>1. PICK f : f = [k \in 0..d |-> Step(f, k)]
    BY <1>2
  <2>2. PICK g : g = [k \in 0..(d + 1) |-> IF k = d + 1 THEN Turn(by, pivot, f[d]) ELSE f[k]]
    OBVIOUS
  <2>3. \A k \in 0..(d + 1) : g[k] = Step(g, k)
    <3> TAKE k \in 0..(d + 1)
    <3>1. CASE k = d + 1
      <4>1. k # 0 /\ k - 1 = d /\ d \in 0..(d + 1) /\ d # d + 1
        BY <3>1
      <4>2. g[k] = Turn(by, pivot, f[d]) /\ g[d] = f[d]
        BY ONLY <2>2, <3>1, <4>1, k \in 0..(d + 1)
      <4> QED
        BY <4>1, <4>2
    <3>2. CASE k # d + 1
      <4>1. k \in 0..d /\ g[k] = f[k]
        BY <2>2, <3>2
      <4>2. k # 0 => g[k - 1] = f[k - 1]
        BY <2>2, <4>1
      <4>3. f[k] = Step(f, k)
        BY <2>1, <4>1
      <4> QED
        BY <4>1, <4>2, <4>3
    <3> QED
      BY <3>1, <3>2
  <2>4. g = [k \in 0..(d + 1) |-> Step(g, k)]
    BY <2>2, <2>3
  <2>5. d + 1 \in 0..N
    OBVIOUS
  <2> HIDE DEF Step
  <2> QED
    BY <2>4, <2>5
<1> HIDE DEF Begins
<1>3. N \in S
  BY <1>1, <1>2, UpTo
<1>4. Begins(N)
  BY <1>3
<1> QED
  BY <1>4 DEF Begins, Solved

(* partition makes its turns. *)
LEMMA PartitionTurns ==
  ASSUME NEW by, NEW table, NEW low \in Nat, NEW high \in Nat, low <= high,
         NEW pivot, pivot = table[(low + high) \div 2 + 1]
  PROVE  \E p : /\ Turns(p, by, pivot, Start(table, low, high), high - low)
                /\ Partition(by, table, low, high) = [tab |-> p[high - low].tab, middle |-> p[high - low].l]
<1> DEFINE Step(b, k) == IF k = 0 THEN Start(table, low, high) ELSE Turn(by, pivot, b[k - 1])
           At == CHOOSE b : b = [k \in 0..(high - low) |-> Step(b, k)]
<1>1. Partition(by, table, low, high) = [tab |-> At[high - low].tab, middle |-> At[high - low].l]
  BY DEF Partition, Turn, Start
<1>2. At = [k \in 0..(high - low) |-> Step(At, k)]
  <2>1. high - low \in Nat
    OBVIOUS
  <2>2. Solved(by, pivot, Start(table, low, high), high - low)
    BY ONLY <2>1, TurnsBegin
  <2>4. \E b : b = [k \in 0..(high - low) |-> Step(b, k)]
    BY ONLY <2>2 DEF Solved
  <2> QED
    BY <2>4
<1> HIDE DEF At
<1>3. Turns(At, by, pivot, Start(table, low, high), high - low)
  BY <1>2 DEF Turns
<1> QED
  BY <1>1, <1>3

(* The entries low..high-1 of a table, counted from 0. *)
Slice(t, low, high) == {t[i] : i \in (low + 1)..high}

(* What is left of a table of n entries from V in the part that is split:    *)
(* k entries have been set aside, below l or from h on, all others are where *)
(* they were.                                                               *)
Splitting(q, table, n, V, low, high, k) ==
  /\ q = [tab |-> q.tab, l |-> q.l, h |-> q.h, alt |-> q.alt]
  /\ q.tab \in [1..n -> V] /\ q.l \in low..high /\ q.h \in low..high
  /\ q.h - q.l = high - low - k
  /\ \A i \in 1..n : i \notin (low + 1)..high => q.tab[i] = table[i]
  /\ Slice(q.tab, low, high) = Slice(table, low, high)

Inside(t, n, V, low, high, i, j) ==
  /\ n \in Nat /\ low \in Nat /\ high \in Nat /\ high <= n /\ t \in [1..n -> V]
  /\ i \in (low + 1)..high /\ j \in (low + 1)..high

Exchanged(u, t, n, V, low, high, i, j) ==
  /\ u \in [1..n -> V] /\ u[i] = t[j] /\ u[j] = t[i]
  /\ \A k \in 1..n : k # i /\ k # j => u[k] = t[k]
  /\ Slice(u, low, high) = Slice(t, low, high)

(* Two entries are swapped: no entry is lost. *)
LEMMA Swapped ==
  ASSUME NEW n, NEW V, NEW t, NEW low, NEW high, NEW i, NEW j, Inside(t, n, V, low, high, i, j)
  PROVE  Exchanged(Swap(t, i, j), t, n, V, low, high, i, j)
<1> PICK u : u = Swap(t, i, j)
  OBVIOUS
<1> n \in Nat /\ low \in Nat /\ high \in Nat /\ high <= n /\ t \in [1..n -> V] /\ i \in (low + 1)..high /\ j \in (low + 1)..high
  BY DEF Inside
<1>1. i \in 1..n /\ j \in 1..n
  OBVIOUS
<1>2. /\ u \in [1..n -> V] /\ u[i] = t[j] /\ u[j] = t[i]
      /\ \A k \in 1..n : k # i /\ k # j => u[k] = t[k]
  BY <1>1 DEF Swap
<1>3. \A k \in (low + 1)..high : k \in 1..n
  OBVIOUS
<1>4. ASSUME NEW k \in (low + 1)..high PROVE u[k] \in Slice(t, low, high)
  BY <1>2, <1>3 DEF Slice
<1>5. ASSUME NEW k \in (low + 1)..high PROVE t[k] \in Slice(u, low, high)
  <2>1. CASE k = i
    BY <1>2, <2>1 DEF Slice
  <2>2. CASE k = j
    BY <1>2, <2>2 DEF Slice
  <2>3. CASE k # i /\ k # j
    BY <1>2, <1>3, <2>3 DEF Slice
  <2> QED
    BY <2>1, <2>2, <2>3
<1>6. Exchanged(u, t, n, V, low, high, i, j)
  BY <1>2, <1>4, <1>5 DEF Slice, Exchanged
<1> QED
  BY <1>6

(* One entry has been set aside: the one at l is now at h, or is below l.    *)
SetAside(r, q, n, c) ==
  /\ r.alt = IF c = 0 THEN -q.alt ELSE q.alt
  /\ \/ /\ c > 0 \/ (c = 0 /\ q.alt > 0)
        /\ r.l = q.l /\ r.h = q.h - 1 /\ r.tab[q.h] = q.tab[q.l + 1] /\ r.tab[q.l + 1] = q.tab[q.h]
        /\ \A i \in 1..n : i # q.l + 1 /\ i # q.h => r.tab[i] = q.tab[i]
     \/ ~(c > 0 \/ (c = 0 /\ q.alt > 0)) /\ r.l = q.l + 1 /\ r.h = q.h /\ r.tab = q.tab

(* A turn sets one entry aside. *)
LEMMA TurnSplits ==
  ASSUME NEW by, NEW pivot, NEW table, NEW n \in Nat, NEW V, NEW low \in Nat, NEW high \in Nat, low <= high, high <= n,
         NEW k \in 0..(high - low - 1), NEW q, Splitting(q, table, n, V, low, high, k),
         NEW r, r = Turn(by, pivot, q)
  PROVE  Splitting(r, table, n, V, low, high, k + 1) /\ SetAside(r, q, n, Compare(by, q.tab[q.l + 1], pivot))
<1> PICK c : c = Compare(by, q.tab[q.l + 1], pivot)
  OBVIOUS
<1> PICK a : a = IF c = 0 THEN -q.alt ELSE q.alt
  OBVIOUS
<1>1. PICK tab \in [1..n -> V], l \in low..high, h \in low..high : q.tab = tab /\ q.l = l /\ q.h = h
  BY DEF Splitting
<1>a. q = [tab |-> tab, l |-> l, h |-> h, alt |-> q.alt]
  BY <1>1 DEF Splitting
<1>2. h - l = high - low - k /\ l + 1 \in (low + 1)..high /\ h \in (low + 1)..high /\ h - 1 \in low..high /\ l + 1 <= high
  <2>1. q.h - q.l = high - low - k
    BY DEF Splitting
  <2>2. q.h = h /\ q.l = l
    BY <1>1
  <2>3. h - l = high - low - k
    BY ONLY <2>1, <2>2
  <2> QED
    BY ONLY <2>3, l \in low..high, h \in low..high, low \in Nat, high \in Nat, k \in 0..(high - low - 1)
<1>3. /\ \A i \in 1..n : i \notin (low + 1)..high => tab[i] = table[i]
      /\ Slice(tab, low, high) = Slice(table, low, high)
  BY <1>1 DEF Splitting
<1>5. PICK t : t = Swap(tab, l + 1, h)
  OBVIOUS
<1>6. /\ t \in [1..n -> V] /\ t[h] = tab[l + 1] /\ t[l + 1] = tab[h]
      /\ \A i \in 1..n : i # l + 1 /\ i # h => t[i] = tab[i]
      /\ Slice(t, low, high) = Slice(tab, low, high)
  <2>1. /\ n \in Nat /\ low \in Nat /\ high \in Nat /\ high <= n /\ tab \in [1..n -> V]
        /\ l + 1 \in (low + 1)..high /\ h \in (low + 1)..high
    BY <1>2
  <2>2. PICK i : i = l + 1
    OBVIOUS
  <2>3. Inside(tab, n, V, low, high, i, h) /\ t = Swap(tab, i, h)
    BY ONLY <1>5, <2>1, <2>2 DEF Inside
  <2>4. Exchanged(t, tab, n, V, low, high, i, h)
    BY ONLY <2>3, Swapped
  <2> QED
    BY ONLY <2>2, <2>4 DEF Exchanged
<1>7. r = IF c > 0 \/ (c = 0 /\ q.alt > 0) THEN [tab |-> t, l |-> l, h |-> h - 1, alt |-> a]
          ELSE [tab |-> tab, l |-> l + 1, h |-> h, alt |-> a]
  <2>2. PICK s : s = [tab |-> tab, l |-> l, h |-> h, alt |-> a]
    OBVIOUS
  <2>3. [q EXCEPT !.alt = IF c = 0 THEN -@ ELSE @] = s
    <3>1. [q EXCEPT !.alt = a] = s
      BY ONLY <1>a, <2>2
    <3>2. a = IF c = 0 THEN -q.alt ELSE q.alt
      OBVIOUS
    <3> QED
      BY ONLY <3>1, <3>2
  <2>4. r = IF c > 0 \/ (c = 0 /\ q.alt > 0)
            THEN [s EXCEPT !.tab = Swap(@, q.l + 1, q.h), !.h = @ - 1]
            ELSE [s EXCEPT !.l = @ + 1]
    BY ONLY <2>3, r = Turn(by, pivot, q), c = Compare(by, q.tab[q.l + 1], pivot) DEF Turn
  <2>5. [s EXCEPT !.tab = Swap(@, q.l + 1, q.h), !.h = @ - 1] = [tab |-> t, l |-> l, h |-> h - 1, alt |-> a]
    <3>1. s.tab = tab /\ s.h = h
      BY ONLY <2>2
    <3>2. Swap(s.tab, q.l + 1, q.h) = t
      BY ONLY <1>5, <1>1, <3>1
    <3>3. PICK d : d = h - 1
      OBVIOUS
    <3>4. [s EXCEPT !.tab = t, !.h = d] = [tab |-> t, l |-> l, h |-> d, alt |-> a]
      <4>1. PICK e : e = [s EXCEPT !.tab = t]
        OBVIOUS
      <4>2. e = [tab |-> t, l |-> l, h |-> h, alt |-> a]
        BY ONLY <2>2, <4>1
      <4>3. [e EXCEPT !.h = d] = [tab |-> t, l |-> l, h |-> d, alt |-> a]
        BY ONLY <4>2
      <4>4. [s EXCEPT !.tab = t, !.h = d] = [e EXCEPT !.h = d]
        BY ONLY <4>1
      <4> QED
        BY ONLY <4>3, <4>4
    <3> QED
      BY ONLY <3>1, <3>2, <3>3, <3>4
  <2>6. [s EXCEPT !.l = @ + 1] = [tab |-> tab, l |-> l + 1, h |-> h, alt |-> a]
    <3>1. PICK d : d = l + 1
      OBVIOUS
    <3>2. s.l = l
      BY ONLY <2>2
    <3>3. [s EXCEPT !.l = d] = [tab |-> tab, l |-> d, h |-> h, alt |-> a]
      BY ONLY <2>2
    <3> QED
      BY ONLY <3>1, <3>2, <3>3
  <2> QED
    BY ONLY <1>1, <2>4, <2>5, <2>6
<1>8. CASE c > 0 \/ (c = 0 /\ q.alt > 0)
  <2>1. r = [tab |-> t, l |-> l, h |-> h - 1, alt |-> a]
    BY <1>7, <1>8
  <2>2. \A i \in 1..n : i \notin (low + 1)..high => t[i] = table[i]
    BY <1>2, <1>3, <1>6
  <2>3. Splitting(r, table, n, V, low, high, k + 1)
    <3>1. r.tab = t /\ r.l = l /\ r.h = h - 1 /\ r.alt = a
      BY ONLY <2>1
    <3>2. r = [tab |-> r.tab, l |-> r.l, h |-> r.h, alt |-> r.alt]
      BY ONLY <2>1, <3>1
    <3>3. Slice(t, low, high) = Slice(table, low, high)
      BY <1>3, <1>6
    <3>4. (h - 1) - l = high - low - (k + 1)
      BY <1>2
    <3> QED
      BY <1>2, <1>6, <2>2, <3>1, <3>2, <3>3, <3>4 DEF Splitting
  <2>4. SetAside(r, q, n, c)
    BY <1>1, <1>6, <1>8, <2>1 DEF SetAside
  <2> QED
    BY <2>3, <2>4
<1>9. CASE ~(c > 0 \/ (c = 0 /\ q.alt > 0))
  <2>1. r = [tab |-> tab, l |-> l + 1, h |-> h, alt |-> a]
    BY <1>7, <1>9
  <2>2. Splitting(r, table, n, V, low, high, k + 1)
    <3>1. r.tab = tab /\ r.l = l + 1 /\ r.h = h /\ r.alt = a
      BY ONLY <2>1
    <3>2. r = [tab |-> r.tab, l |-> r.l, h |-> r.h, alt |-> r.alt]
      BY ONLY <2>1, <3>1
    <3>3. h - (l + 1) = high - low - (k + 1) /\ l + 1 \in low..high
      BY <1>2
    <3> QED
      BY <1>3, <3>1, <3>2, <3>3 DEF Splitting
  <2>3. SetAside(r, q, n, c)
    BY <1>1, <1>9, <2>1 DEF SetAside
  <2> QED
    BY <2>2, <2>3
<1> QED
  BY <1>8, <1>9

(* What is below l has keys up to that of the pivot, what is from h on has   *)
(* keys from it on.                                                         *)
Sides(q, low, high, key, pv) ==
  /\ \A i \in (low + 1)..q.l : key[q.tab[i]] <= pv
  /\ \A i \in (q.h + 1)..high : key[q.tab[i]] >= pv

(* The comparison of sort.c, by the difference of two numbers.               *)
ByKey(by, V, key) == key \in [V -> Int] /\ \A s, t \in V : Compare(by, s, t) = key[s] - key[t]

(* A turn keeps the sides apart. *)
LEMMA TurnSides ==
  ASSUME NEW by, NEW pivot, NEW table, NEW n \in Nat, NEW V, NEW low \in Nat, NEW high \in Nat, low <= high, high <= n,
         NEW k \in 0..(high - low - 1), NEW q, Splitting(q, table, n, V, low, high, k),
         NEW key, ByKey(by, V, key), pivot \in V, Sides(q, low, high, key, key[pivot]),
         NEW r, r = Turn(by, pivot, q)
  PROVE  Splitting(r, table, n, V, low, high, k + 1) /\ Sides(r, low, high, key, key[pivot])
<1>1. /\ q.tab \in [1..n -> V] /\ q.l \in low..high /\ q.h \in low..high /\ q.l < q.h
  BY DEF Splitting
<1>2. q.l + 1 \in 1..n /\ q.h \in 1..n
  BY <1>1
<1>3. PICK x \in V : x = q.tab[q.l + 1]
  BY <1>1, <1>2
<1>4. Compare(by, x, pivot) = key[x] - key[pivot] /\ key[x] \in Int /\ key[pivot] \in Int
  BY <1>3 DEF ByKey
<1>5. Splitting(r, table, n, V, low, high, k + 1) /\ SetAside(r, q, n, Compare(by, x, pivot))
  BY <1>3, <1>4, TurnSplits
<1>6. CASE /\ key[x] >= key[pivot] /\ r.l = q.l /\ r.h = q.h - 1 /\ r.tab[q.h] = x
           /\ \A i \in 1..n : i # q.l + 1 /\ i # q.h => r.tab[i] = q.tab[i]
  <2>1. ASSUME NEW i \in (low + 1)..r.l PROVE key[r.tab[i]] <= key[pivot]
    <3>1. i \in (low + 1)..q.l /\ i \in 1..n /\ i # q.l + 1 /\ i # q.h
      BY <1>1, <1>6
    <3> QED
      BY <1>6, <3>1 DEF Sides
  <2>2. ASSUME NEW i \in (r.h + 1)..high PROVE key[r.tab[i]] >= key[pivot]
    <3>1. i = q.h \/ (i \in (q.h + 1)..high /\ i \in 1..n /\ i # q.l + 1 /\ i # q.h)
      BY <1>1, <1>6
    <3> QED
      BY <1>6, <3>1 DEF Sides
  <2> QED
    BY <1>5, <2>1, <2>2 DEF Sides
<1>7. CASE key[x] <= key[pivot] /\ r.l = q.l + 1 /\ r.h = q.h /\ r.tab = q.tab
  <2>1. ASSUME NEW i \in (low + 1)..r.l PROVE key[r.tab[i]] <= key[pivot]
    <3>1. i = q.l + 1 \/ i \in (low + 1)..q.l
      BY <1>1, <1>7
    <3> QED
      BY <1>3, <1>7, <3>1 DEF Sides
  <2> QED
    BY <1>5, <1>7, <2>1 DEF Sides
<1> QED
  BY <1>3, <1>4, <1>5, <1>6, <1>7 DEF SetAside

(* A table that has been split: the same entries, the low ones first.        *)
Parted(r, by, table, n, V, low, high) ==
  /\ r.tab \in [1..n -> V] /\ r.middle \in low..high
  /\ \A i \in 1..n : i \notin (low + 1)..high => r.tab[i] = table[i]
  /\ Slice(r.tab, low, high) = Slice(table, low, high)
  /\ \A key : ByKey(by, V, key) =>
       \A i \in (low + 1)..r.middle, j \in (r.middle + 1)..high : key[r.tab[i]] <= key[r.tab[j]]

(* partition loses no entry and puts no greater key before a smaller one.    *)
THEOREM PartitionSorts ==
  ASSUME NEW by, NEW V, NEW n \in Nat, NEW table \in [1..n -> V],
         NEW low \in Nat, NEW high \in Nat, low < high, high <= n
  PROVE  Parted(Partition(by, table, low, high), by, table, n, V, low, high)
<1>1. (low + high) \div 2 + 1 \in 1..n
  OBVIOUS
<1>2. PICK pivot \in V : pivot = table[(low + high) \div 2 + 1]
  BY <1>1
<1>3. PICK N \in Nat : N = high - low
  OBVIOUS
<1>4. PICK p : /\ Turns(p, by, pivot, Start(table, low, high), N)
               /\ Partition(by, table, low, high) = [tab |-> p[N].tab, middle |-> p[N].l]
  <2>1. low <= high
    OBVIOUS
  <2> QED
    BY <1>2, <1>3, <2>1, PartitionTurns
<1>5. p[0] = [tab |-> table, l |-> low, h |-> high, alt |-> 1]
  BY <1>4 DEF Turns, Start
<1>6. ASSUME NEW k \in 0..(N - 1)
      PROVE  k + 1 \in 1..N /\ k \in 0..(high - low - 1) /\ p[k + 1] = Turn(by, pivot, p[k])
  <2>1. k + 1 \in 1..N /\ (k + 1) - 1 = k /\ k \in 0..(high - low - 1)
    BY <1>3
  <2> QED
    BY <1>4, <2>1 DEF Turns
<1>7. \A k \in 0..N : Splitting(p[k], table, n, V, low, high, k)
  <2>1. PICK S : S = {k \in 0..N : Splitting(p[k], table, n, V, low, high, k)}
    OBVIOUS
  <2>2. 0 \in S
    BY <1>5, <2>1 DEF Splitting
  <2>3. ASSUME NEW k \in 0..(N - 1), k \in S PROVE k + 1 \in S
    <3>1. /\ k + 1 \in 1..N /\ k \in 0..(high - low - 1) /\ p[k + 1] = Turn(by, pivot, p[k])
          /\ Splitting(p[k], table, n, V, low, high, k)
      BY <1>6, <2>1, <2>3
    <3>2. Splitting(p[k + 1], table, n, V, low, high, k + 1)
      BY <3>1, TurnSplits
    <3> QED
      BY <2>1, <3>1, <3>2
  <2>4. \A k \in 0..N : k \in S
    BY ONLY <2>2, <2>3, N \in Nat, UpTo
  <2> QED
    BY <2>1, <2>4
<1>8. PICK q : q = p[N]
  OBVIOUS
<1>9. /\ q.tab \in [1..n -> V] /\ q.l \in low..high /\ q.h = q.l
      /\ \A i \in 1..n : i \notin (low + 1)..high => q.tab[i] = table[i]
      /\ Slice(q.tab, low, high) = Slice(table, low, high)
  <2>1. Splitting(q, table, n, V, low, high, N)
    BY <1>7, <1>8
  <2> QED
    BY <1>3, <2>1 DEF Splitting
<1>10. ASSUME NEW key, ByKey(by, V, key), NEW i \in (low + 1)..q.l, NEW j \in (q.l + 1)..high
       PROVE  key[q.tab[i]] <= key[q.tab[j]]
  <2>1. PICK S : S = {k \in 0..N : Sides(p[k], low, high, key, key[pivot])}
    OBVIOUS
  <2>2. 0 \in S
    BY <1>5, <2>1 DEF Sides
  <2>3. ASSUME NEW k \in 0..(N - 1), k \in S PROVE k + 1 \in S
    <3>1. /\ k + 1 \in 1..N /\ k \in 0..(high - low - 1) /\ p[k + 1] = Turn(by, pivot, p[k])
          /\ Splitting(p[k], table, n, V, low, high, k) /\ Sides(p[k], low, high, key, key[pivot])
      BY <1>6, <1>7, <2>1, <2>3
    <3>2. Splitting(p[k + 1], table, n, V, low, high, k + 1) /\ Sides(p[k + 1], low, high, key, key[pivot])
      <4>1. ByKey(by, V, key) /\ pivot \in V /\ low <= high /\ high <= n /\ n \in Nat /\ low \in Nat /\ high \in Nat
        BY <1>10
      <4> QED
        BY ONLY <3>1, <4>1, TurnSides
    <3> QED
      BY <2>1, <3>1, <3>2
  <2>4. \A k \in 0..N : k \in S
    BY ONLY <2>2, <2>3, N \in Nat, UpTo
  <2>5. Sides(q, low, high, key, key[pivot])
    BY <1>8, <2>1, <2>4
  <2>6. key[q.tab[i]] <= key[pivot] /\ key[pivot] <= key[q.tab[j]]
    BY <1>9, <2>5 DEF Sides
  <2>7. q.tab[i] \in V /\ q.tab[j] \in V
    BY <1>9
  <2>8. key \in [V -> Int]
    BY <1>10 DEF ByKey
  <2>9. PICK a \in Int, b \in Int, c \in Int : a = key[q.tab[i]] /\ b = key[pivot] /\ c = key[q.tab[j]]
    BY ONLY <2>7, <2>8, pivot \in V
  <2>10. a <= b /\ b <= c
    BY ONLY <2>6, <2>9
  <2>11. a <= c
    BY ONLY <2>10, a \in Int, b \in Int, c \in Int
  <2> QED
    BY ONLY <2>9, <2>11
<1>11. PICK r : r = Partition(by, table, low, high) /\ r = [tab |-> q.tab, middle |-> q.l]
  BY <1>4, <1>8
<1>12. r.tab = q.tab /\ r.middle = q.l
  BY ONLY <1>11
<1>13. Parted(r, by, table, n, V, low, high)
  BY ONLY <1>9, <1>10, <1>12 DEF Parted
<1> QED
  BY ONLY <1>11, <1>13

----------------------------------------------------------------------------
(* The calls of sorttable *)

(* The calls that wait, of a table of n entries: each has the entries low to *)
(* high-1, and what was called later lies below.                            *)
ACall == [low : Nat, high : Nat, depth : Nat]
Calls(calls, n) ==
  /\ calls \in Seq(ACall)
  /\ \A k \in 1..Len(calls) : calls[k].low <= calls[k].high /\ calls[k].high <= n
  /\ \A k, m \in 1..Len(calls) : k < m => calls[m].high <= calls[k].low

(* Two entries that a call still has to put in order. *)
Waiting(i, j, calls) == \E k \in 1..Len(calls) : calls[k].low < i /\ j <= calls[k].high

(* All other pairs are in the order of their keys. *)
Arranged(key, t, n, calls) ==
  \A i, j \in 1..n : i < j => key[t[i]] <= key[t[j]] \/ Waiting(i, j, calls)

(* What each call has is numbers. *)
LEMMA CallTyped ==
  ASSUME NEW calls, NEW n, Calls(calls, n)
  PROVE  /\ Len(calls) \in Nat
         /\ \A k \in 1..Len(calls) : /\ calls[k] \in ACall
                                     /\ calls[k].low \in Nat /\ calls[k].high \in Nat
<1>1. calls \in Seq(ACall)
  BY DEF Calls
<1>2. Len(calls) \in Nat /\ \A k \in 1..Len(calls) : calls[k] \in ACall
  BY ONLY <1>1
<1>3. \A c \in ACall : c.low \in Nat /\ c.high \in Nat
  BY DEF ACall
<1> QED
  BY <1>2, <1>3

(* The call made last returns. *)
LEMMA CallReturns ==
  ASSUME NEW calls, NEW n \in Nat, Calls(calls, n), calls # <<>>
  PROVE  /\ Last(calls) \in ACall
         /\ Last(calls).low <= Last(calls).high /\ Last(calls).high <= n
         /\ Last(calls) = calls[Len(calls)] /\ Len(calls) \in Nat \ {0}
         /\ Calls(Front(calls), n) /\ Len(Front(calls)) = Len(calls) - 1
         /\ \A k \in 1..(Len(calls) - 1) : Front(calls)[k] = calls[k] /\ Last(calls).high <= calls[k].low
<1>1. calls \in Seq(ACall) /\ Len(calls) \in Nat \ {0} /\ Len(calls) \in 1..Len(calls)
  <2>1. calls \in Seq(ACall)
    BY DEF Calls
  <2> QED
    BY ONLY <2>1, calls # <<>>
<1>2. PICK rest : rest = SubSeq(calls, 1, Len(calls) - 1)
  OBVIOUS
<1>3. /\ rest \in Seq(ACall) /\ Len(rest) = Len(calls) - 1
      /\ \A k \in 1..(Len(calls) - 1) : rest[k] = calls[k]
  <2>1. PICK m \in Nat : m = Len(calls) - 1 /\ rest = SubSeq(calls, 1, m)
    BY <1>1, <1>2
  <2>2. \A i \in 1..m : calls[i] \in ACall
    BY <1>1, <2>1
  <2>3. /\ SubSeq(calls, 1, m) \in Seq(ACall)
        /\ Len(SubSeq(calls, 1, m)) = IF 1 <= m THEN m - 1 + 1 ELSE 0
        /\ \A i \in 1..(m - 1 + 1) : SubSeq(calls, 1, m)[i] = calls[1 + i - 1]
    BY ONLY <2>2, m \in Nat, SubSeqProperties
  <2>4. \A i \in 1..m : i \in 1..(m - 1 + 1) /\ 1 + i - 1 = i
    OBVIOUS
  <2>5. (IF 1 <= m THEN m - 1 + 1 ELSE 0) = m
    OBVIOUS
  <2> QED
    BY ONLY <2>1, <2>3, <2>4, <2>5
<1>4. \A k \in 1..Len(rest) : k \in 1..Len(calls) /\ rest[k] = calls[k]
  BY <1>1, <1>3
<1>5. Calls(rest, n)
  <2>1. \A k \in 1..Len(rest) : rest[k].low <= rest[k].high /\ rest[k].high <= n
    BY <1>4 DEF Calls
  <2>2. \A k, m \in 1..Len(rest) : k < m => rest[m].high <= rest[k].low
    BY <1>4 DEF Calls
  <2> QED
    BY <1>3, <2>1, <2>2 DEF Calls
<1>6. \A k \in 1..(Len(calls) - 1) : calls[Len(calls)].high <= calls[k].low
  BY <1>1 DEF Calls
<1>7. /\ calls[Len(calls)] \in ACall /\ calls[Len(calls)].low <= calls[Len(calls)].high
      /\ calls[Len(calls)].high <= n
  BY <1>1, CallTyped DEF Calls
<1>8. Last(calls) = calls[Len(calls)] /\ Front(calls) = rest
  BY <1>2 DEF Last, Front
<1> QED
  BY <1>1, <1>3, <1>5, <1>6, <1>7, <1>8

(* A call makes two, for the high entries and, to run first, the low ones.   *)
Made(rest, low, middle, high, d) ==
  rest \o <<[low |-> middle, high |-> high, depth |-> d], [low |-> low, high |-> middle, depth |-> d]>>

Makes(rest, n, low, middle, high, d) ==
  /\ n \in Nat /\ Calls(rest, n) /\ low \in Nat /\ high \in Nat /\ middle \in low..high /\ high <= n
  /\ d \in Nat /\ \A k \in 1..Len(rest) : high <= rest[k].low

(* The two calls are below those that are left, and between their bounds. *)
LEMMA CallsMade ==
  ASSUME NEW rest, NEW n, NEW low, NEW middle, NEW high, NEW d, Makes(rest, n, low, middle, high, d),
         NEW next, next = Made(rest, low, middle, high, d)
  PROVE  /\ Calls(next, n) /\ Len(next) = Len(rest) + 2
         /\ \A k \in 1..Len(rest) : next[k] = rest[k]
         /\ next[Len(rest) + 1] = [low |-> middle, high |-> high, depth |-> d]
         /\ next[Len(rest) + 2] = [low |-> low, high |-> middle, depth |-> d]
<1> /\ n \in Nat /\ Calls(rest, n) /\ low \in Nat /\ high \in Nat /\ middle \in low..high /\ high <= n
    /\ d \in Nat /\ \A k \in 1..Len(rest) : high <= rest[k].low
  BY DEF Makes
<1>1. middle \in Nat
  OBVIOUS
<1>2. PICK a \in ACall : a = [low |-> middle, high |-> high, depth |-> d]
  <2>1. [low |-> middle, high |-> high, depth |-> d] \in ACall
    BY ONLY <1>1, high \in Nat, d \in Nat DEF ACall
  <2> QED
    BY ONLY <2>1
<1>3. PICK b \in ACall : b = [low |-> low, high |-> middle, depth |-> d]
  <2>1. [low |-> low, high |-> middle, depth |-> d] \in ACall
    BY ONLY <1>1, low \in Nat, d \in Nat DEF ACall
  <2> QED
    BY ONLY <2>1
<1>4. rest \in Seq(ACall) /\ Len(rest) \in Nat
  BY DEF Calls
<1>5. next = rest \o <<a, b>>
  BY <1>2, <1>3 DEF Made
<1>6. <<a, b>> \in Seq(ACall) /\ Len(<<a, b>>) = 2 /\ <<a, b>>[1] = a /\ <<a, b>>[2] = b
  BY <1>2, <1>3
<1>7. /\ next \in Seq(ACall) /\ Len(next) = Len(rest) + 2
      /\ \A k \in 1..Len(rest) : next[k] = rest[k]
      /\ next[Len(rest) + 1] = a /\ next[Len(rest) + 2] = b
  BY ONLY <1>4, <1>5, <1>6
<1>8. /\ a.low = middle /\ a.high = high /\ b.low = low /\ b.high = middle
  <2>1. a.low = middle /\ a.high = high
    BY ONLY <1>2
  <2>2. b.low = low /\ b.high = middle
    BY ONLY <1>3
  <2> QED
    BY ONLY <2>1, <2>2
<1>9. \A k \in 1..Len(next) : k \in 1..Len(rest) \/ k = Len(rest) + 1 \/ k = Len(rest) + 2
  <2>1. Len(rest) \in Nat /\ Len(next) = Len(rest) + 2
    BY <1>4, <1>7
  <2> QED
    BY ONLY <2>1
<1>10. \A k \in 1..Len(next) : next[k].low <= next[k].high /\ next[k].high <= n
  <2>1. \A k \in 1..Len(rest) : rest[k].low <= rest[k].high /\ rest[k].high <= n
    BY DEF Calls
  <2>2. low <= middle /\ middle <= high /\ middle <= n
    OBVIOUS
  <2> QED
    BY <1>7, <1>8, <1>9, <2>1, <2>2
<1>11. ASSUME NEW k \in 1..Len(next), NEW m \in 1..Len(next), k < m PROVE next[m].high <= next[k].low
  <2>1. CASE k \in 1..Len(rest)
    <3>1. high <= rest[k].low /\ next[k] = rest[k]
      BY <1>7, <2>1
    <3>2. rest[k].low \in Nat
      BY <2>1, CallTyped
    <3>3. CASE m \in 1..Len(rest)
      BY <1>7, <1>11, <2>1, <3>3 DEF Calls
    <3>4. CASE m \notin 1..Len(rest)
      BY <1>7, <1>8, <1>9, <3>1, <3>2, <3>4
    <3> QED
      BY <3>3, <3>4
  <2>2. CASE k = Len(rest) + 1
    <3>1. m = Len(rest) + 2
      BY <1>4, <1>9, <1>11, <2>2
    <3> QED
      BY <1>7, <1>8, <2>2, <3>1
  <2>3. CASE k = Len(rest) + 2
    BY <1>4, <1>9, <1>11, <2>3
  <2> QED
    BY <1>9, <2>1, <2>2, <2>3
<1>12. Calls(next, n)
  BY <1>7, <1>10, <1>11 DEF Calls
<1> QED
  BY <1>2, <1>3, <1>7, <1>12

(* A call has only changed its own entries, and each pair of them it has put *)
(* in order or left to the calls that come next, which the others are among. *)
Worked(key, V, n, t, u, calls, next) ==
  LET low == Last(calls).low
      high == Last(calls).high
  IN  /\ key \in [V -> Int] /\ n \in Nat /\ t \in [1..n -> V] /\ u \in [1..n -> V]
      /\ Calls(calls, n) /\ calls # <<>>
      /\ \A i \in 1..n : i \notin (low + 1)..high => u[i] = t[i]
      /\ Slice(u, low, high) = Slice(t, low, high)
      /\ \A k \in 1..(Len(calls) - 1) : \E m \in 1..Len(next) : next[m] = calls[k]
      /\ \A i, j \in (low + 1)..high : i < j => key[u[i]] <= key[u[j]] \/ Waiting(i, j, next)

(* So all pairs are in order but those that a call has to see to.            *)
LEMMA Arranges ==
  ASSUME NEW key, NEW V, NEW n, NEW t, NEW u, NEW calls, NEW next,
         Worked(key, V, n, t, u, calls, next), Arranged(key, t, n, calls)
  PROVE  Arranged(key, u, n, next)
<1> PICK low, high : low = Last(calls).low /\ high = Last(calls).high
  OBVIOUS
<1> /\ key \in [V -> Int] /\ n \in Nat /\ t \in [1..n -> V] /\ u \in [1..n -> V]
    /\ Calls(calls, n) /\ calls # <<>>
    /\ \A i \in 1..n : i \notin (low + 1)..high => u[i] = t[i]
    /\ Slice(u, low, high) = Slice(t, low, high)
    /\ \A k \in 1..(Len(calls) - 1) : \E m \in 1..Len(next) : next[m] = calls[k]
    /\ \A i, j \in (low + 1)..high : i < j => key[u[i]] <= key[u[j]] \/ Waiting(i, j, next)
  BY DEF Worked
<1>1. /\ low \in Nat /\ high \in Nat /\ high <= n /\ Len(calls) \in Nat \ {0} /\ low <= high
      /\ calls[Len(calls)].low = low /\ calls[Len(calls)].high = high
      /\ \A k \in 1..(Len(calls) - 1) : high <= calls[k].low
  <2>1. /\ Last(calls) \in ACall
        /\ Last(calls).low <= Last(calls).high /\ Last(calls).high <= n
        /\ Last(calls) = calls[Len(calls)] /\ Len(calls) \in Nat \ {0}
        /\ \A k \in 1..(Len(calls) - 1) : Last(calls).high <= calls[k].low
    BY CallReturns
  <2>2. low \in Nat /\ high \in Nat
    BY <2>1 DEF ACall
  <2> QED
    BY <2>1, <2>2
<1> low \in Nat /\ high \in Nat /\ low <= high
  BY <1>1
<1>2. ASSUME NEW i \in 1..n, NEW j \in 1..n, Waiting(i, j, calls), ~(i \in (low + 1)..high /\ j \in (low + 1)..high), i < j
      PROVE  \E k \in 1..(Len(calls) - 1) : calls[k].low < i /\ j <= calls[k].high
  <2>1. PICK k \in 1..Len(calls) : calls[k].low < i /\ j <= calls[k].high
    BY <1>2 DEF Waiting
  <2>2. k # Len(calls)
    <3>1. SUFFICES ASSUME k = Len(calls) PROVE FALSE
      OBVIOUS
    <3>2. low < i /\ j <= high
      BY <1>1, <2>1, <3>1
    <3>3. i \in (low + 1)..high /\ j \in (low + 1)..high
      BY ONLY <1>1, <3>2, i < j, i \in 1..n, j \in 1..n, n \in Nat
    <3> QED
      BY ONLY <1>2, <3>3
  <2> QED
    BY <1>1, <2>1, <2>2
<1>3. ASSUME NEW i, NEW j, \E k \in 1..(Len(calls) - 1) : calls[k].low < i /\ j <= calls[k].high
      PROVE  Waiting(i, j, next)
  BY <1>3 DEF Waiting
<1>4. \A k \in 1..(Len(calls) - 1) : calls[k].low \in Nat /\ calls[k].high \in Nat
  <2>1. \A k \in 1..Len(calls) : calls[k].low \in Nat /\ calls[k].high \in Nat
    BY CallTyped
  <2> QED
    BY ONLY <1>1, <2>1
<1>5. ASSUME NEW i \in (low + 1)..high PROVE i \in 1..n /\ \E x \in (low + 1)..high : x \in 1..n /\ u[i] = t[x]
  <2>1. u[i] \in Slice(t, low, high)
    BY DEF Slice
  <2> QED
    BY <1>1, <2>1 DEF Slice
<1>6. ASSUME NEW i \in 1..n, NEW j \in 1..n, i < j PROVE key[u[i]] <= key[u[j]] \/ Waiting(i, j, next)
  <2>1. CASE i \in (low + 1)..high /\ j \in (low + 1)..high
    BY <1>6, <2>1
  <2>2. CASE i \notin (low + 1)..high /\ j \notin (low + 1)..high
    <3>1. u[i] = t[i] /\ u[j] = t[j]
      BY <2>2
    <3>2. key[t[i]] <= key[t[j]] \/ Waiting(i, j, calls)
      BY <1>6 DEF Arranged
    <3> QED
      BY <1>2, <1>3, <1>6, <2>2, <3>1, <3>2
  <2>3. CASE i \in (low + 1)..high /\ j \notin (low + 1)..high
    <3>1. PICK x \in (low + 1)..high : x \in 1..n /\ u[i] = t[x]
      BY <1>5, <2>3
    <3>2. x < j /\ u[j] = t[j]
      BY <1>1, <1>6, <2>3
    <3>3. key[t[x]] <= key[t[j]] \/ Waiting(x, j, calls)
      BY <3>1, <3>2 DEF Arranged
    <3>4. ~Waiting(x, j, calls)
      <4>1. SUFFICES ASSUME Waiting(x, j, calls) PROVE FALSE
        OBVIOUS
      <4>2. PICK k \in 1..(Len(calls) - 1) : calls[k].low < x /\ j <= calls[k].high
        BY <1>2, <2>3, <3>1, <3>2, <4>1
      <4> QED
        <5>1. high <= calls[k].low /\ calls[k].low \in Nat
          BY <1>1, <1>4
        <5> QED
          BY ONLY low \in Nat, high \in Nat, <4>2, <5>1, x \in (low + 1)..high
    <3> QED
      BY <3>1, <3>2, <3>3, <3>4
  <2>4. CASE i \notin (low + 1)..high /\ j \in (low + 1)..high
    <3>1. PICK x \in (low + 1)..high : x \in 1..n /\ u[j] = t[x]
      BY <1>5, <2>4
    <3>2. i < x /\ u[i] = t[i] /\ i <= low
      BY <1>1, <1>6, <2>4
    <3>3. key[t[i]] <= key[t[x]] \/ Waiting(i, x, calls)
      BY <3>1, <3>2 DEF Arranged
    <3>4. ~Waiting(i, x, calls)
      <4>1. SUFFICES ASSUME Waiting(i, x, calls) PROVE FALSE
        OBVIOUS
      <4>2. PICK k \in 1..(Len(calls) - 1) : calls[k].low < i /\ x <= calls[k].high
        BY <1>2, <2>4, <3>1, <3>2, <4>1
      <4> QED
        <5>1. high <= calls[k].low /\ calls[k].low \in Nat
          BY <1>1, <1>4
        <5> QED
          BY ONLY low <= high, low \in Nat, high \in Nat, <3>2, <4>2, <5>1, i \in 1..n, n \in Nat
    <3> QED
      BY <3>1, <3>2, <3>3, <3>4
  <2> QED
    BY <2>1, <2>2, <2>3, <2>4
<1> QED
  BY <1>6 DEF Arranged

(* What the call that runs makes of the table t and of the calls. *)
Ran(by, t, calls, u, next) ==
  LET low == Last(calls).low
      high == Last(calls).high
      p == Partition(by, t, low, high)
      d == Last(calls).depth + 1
  IN  \/ low = high /\ u = t /\ next = Front(calls)
      \/ low # high /\ low + 1 = high /\ u = p.tab /\ next = Front(calls)
      \/ /\ low # high /\ low + 1 # high /\ u = p.tab
         /\ next = Front(calls) \o <<[low |-> p.middle, high |-> high, depth |-> d],
                                     [low |-> low, high |-> p.middle, depth |-> d]>>

(* No entry is lost, and all pairs of entries out of order have a call that  *)
(* has to see to them, if they had one before.                              *)
Improved(by, V, n, t, calls, u, next) ==
  /\ u \in [1..n -> V] /\ Range(u) = Range(t) /\ Calls(next, n)
  /\ \A key : ByKey(by, V, key) /\ Arranged(key, t, n, calls) => Arranged(key, u, n, next)

(* A call of sorttable loses no entry and leaves no pair of entries out of   *)
(* order that no other call has to see to.                                  *)
THEOREM CallSorts ==
  ASSUME NEW by, NEW V, NEW n \in Nat, NEW t \in [1..n -> V], NEW calls, Calls(calls, n), calls # <<>>,
         NEW u, NEW next, Ran(by, t, calls, u, next)
  PROVE  Improved(by, V, n, t, calls, u, next)
<1>1. /\ Last(calls) \in ACall /\ Last(calls).low <= Last(calls).high /\ Last(calls).high <= n
      /\ Len(calls) \in Nat \ {0}
      /\ Calls(Front(calls), n) /\ Len(Front(calls)) = Len(calls) - 1
      /\ \A k \in 1..(Len(calls) - 1) : Front(calls)[k] = calls[k] /\ Last(calls).high <= calls[k].low
  BY CallReturns
<1>2. PICK low, high, d : low = Last(calls).low /\ high = Last(calls).high /\ d = Last(calls).depth + 1
  OBVIOUS
<1>3. low \in Nat /\ high \in Nat /\ d \in Nat /\ low <= high /\ high <= n
  BY <1>1, <1>2 DEF ACall
<1>4. PICK p : p = Partition(by, t, low, high)
  OBVIOUS
<1>5. low # high => Parted(p, by, t, n, V, low, high)
  <2> SUFFICES ASSUME low # high PROVE Parted(p, by, t, n, V, low, high)
    OBVIOUS
  <2>1. low < high
    BY ONLY <1>3, low # high
  <2> QED
    BY ONLY <1>3, <1>4, <2>1, n \in Nat, t \in [1..n -> V], PartitionSorts
<1>6. \/ low = high /\ u = t /\ next = Front(calls)
      \/ low # high /\ low + 1 = high /\ u = p.tab /\ next = Front(calls)
      \/ /\ low # high /\ low + 1 # high /\ u = p.tab
         /\ next = Front(calls) \o <<[low |-> p.middle, high |-> high, depth |-> d],
                                     [low |-> low, high |-> p.middle, depth |-> d]>>
  BY ONLY <1>2, <1>4, Ran(by, t, calls, u, next) DEF Ran
<1>7. /\ u \in [1..n -> V] /\ Slice(u, low, high) = Slice(t, low, high)
      /\ \A i \in 1..n : i \notin (low + 1)..high => u[i] = t[i]
  <2>1. CASE low = high
    BY <1>6, <2>1
  <2>2. CASE low # high
    <3>1. u = p.tab
      BY <1>6, <2>2
    <3> QED
      BY <1>5, <2>2, <3>1 DEF Parted
  <2> QED
    BY <2>1, <2>2
<1>8. Range(u) = Range(t)
  <2>1. DOMAIN u = 1..n /\ DOMAIN t = 1..n /\ \A i \in (low + 1)..high : i \in 1..n
    BY <1>3, <1>7
  <2>2. ASSUME NEW i \in 1..n PROVE u[i] \in Range(t) /\ t[i] \in Range(u)
    <3>1. CASE i \in (low + 1)..high
      <4>1. u[i] \in Slice(t, low, high) /\ t[i] \in Slice(u, low, high)
        BY <1>7, <3>1 DEF Slice
      <4> QED
        BY ONLY <2>1, <4>1 DEF Slice, Range
    <3>2. CASE i \notin (low + 1)..high
      BY <1>7, <2>1, <3>2 DEF Range
    <3> QED
      BY <3>1, <3>2
  <2> QED
    BY ONLY <2>1, <2>2 DEF Range
<1>9. CASE low = high \/ low + 1 = high
  <2>1. next = Front(calls)
    BY <1>6, <1>9
  <2>2. \A k \in 1..(Len(calls) - 1) : \E m \in 1..Len(next) : next[m] = calls[k]
    BY <1>1, <2>1
  <2>3. \A i, j \in (low + 1)..high : ~(i < j)
    BY ONLY <1>3, <1>9
  <2>4. ASSUME NEW key, ByKey(by, V, key), Arranged(key, t, n, calls) PROVE Arranged(key, u, n, next)
    <3>1. key \in [V -> Int]
      BY <2>4 DEF ByKey
    <3>2. Worked(key, V, n, t, u, calls, next)
      BY <1>2, <1>7, <2>2, <2>3, <3>1 DEF Worked
    <3> QED
      BY <2>4, <3>2, Arranges
  <2> QED
    BY <1>1, <1>7, <1>8, <2>1, <2>4 DEF Improved
<1>10. CASE low # high /\ low + 1 # high
  <2>1. /\ u = p.tab
        /\ next = Front(calls) \o <<[low |-> p.middle, high |-> high, depth |-> d],
                                    [low |-> low, high |-> p.middle, depth |-> d]>>
    BY <1>6, <1>10
  <2>2. PICK rest : rest = Front(calls)
    OBVIOUS
  <2>3. PICK middle : middle = p.middle
    OBVIOUS
  <2>4. middle \in low..high
    BY <1>5, <1>10, <2>3 DEF Parted
  <2>5. Calls(rest, n) /\ \A k \in 1..Len(rest) : high <= rest[k].low
    BY <1>1, <1>2, <2>2
  <2>6. next = rest \o <<[low |-> middle, high |-> high, depth |-> d], [low |-> low, high |-> middle, depth |-> d]>>
    BY <2>1, <2>2, <2>3
  <2>7. /\ Calls(next, n) /\ Len(next) = Len(rest) + 2
        /\ \A k \in 1..Len(rest) : next[k] = rest[k]
        /\ next[Len(rest) + 1] = [low |-> middle, high |-> high, depth |-> d]
        /\ next[Len(rest) + 2] = [low |-> low, high |-> middle, depth |-> d]
    <3>1. Makes(rest, n, low, middle, high, d) /\ next = Made(rest, low, middle, high, d)
      BY ONLY <1>3, <2>4, <2>5, <2>6, n \in Nat DEF Makes, Made
    <3> QED
      BY ONLY <3>1, CallsMade
  <2>8. PICK N \in Nat : N = Len(rest) /\ N = Len(calls) - 1
    BY <1>1, <2>2
  <2>9. \A k \in 1..(Len(calls) - 1) : \E m \in 1..Len(next) : next[m] = calls[k]
    <3>1. \A k \in 1..N : k \in 1..Len(next) /\ next[k] = calls[k]
      BY <1>1, <2>2, <2>7, <2>8
    <3> QED
      BY ONLY <2>8, <3>1
  <2>10. ASSUME NEW i \in (low + 1)..high, NEW j \in (low + 1)..high, i < j, j <= middle \/ middle < i
         PROVE  Waiting(i, j, next)
    <3>1. N + 1 \in 1..Len(next) /\ N + 2 \in 1..Len(next)
      BY ONLY <2>7, <2>8
    <3>2. next[N + 1].low = middle /\ next[N + 1].high = high
      BY ONLY <2>7, <2>8
    <3>3. next[N + 2].low = low /\ next[N + 2].high = middle
      BY ONLY <2>7, <2>8
    <3>4. low < i /\ j <= high
      BY ONLY <1>3, i \in (low + 1)..high, j \in (low + 1)..high
    <3> QED
      BY ONLY <2>10, <3>1, <3>2, <3>3, <3>4 DEF Waiting
  <2>11. ASSUME NEW key, ByKey(by, V, key), Arranged(key, t, n, calls) PROVE Arranged(key, u, n, next)
    <3>1. key \in [V -> Int]
      BY <2>11 DEF ByKey
    <3>2. ASSUME NEW i \in (low + 1)..high, NEW j \in (low + 1)..high, i < j
          PROVE  key[u[i]] <= key[u[j]] \/ Waiting(i, j, next)
      <4>1. CASE j <= middle \/ middle < i
        BY <2>10, <3>2, <4>1
      <4>2. CASE ~(j <= middle \/ middle < i)
        <5>1. i \in (low + 1)..middle /\ j \in (middle + 1)..high
          BY ONLY <1>3, <2>4, <4>2, i \in (low + 1)..high, j \in (low + 1)..high
        <5> QED
          BY <1>5, <1>10, <2>1, <2>3, <2>11, <5>1 DEF Parted
      <4> QED
        BY <4>1, <4>2
    <3>3. \A i, j \in (low + 1)..high : i < j => key[u[i]] <= key[u[j]] \/ Waiting(i, j, next)
      BY <3>2
    <3>4. Worked(key, V, n, t, u, calls, next)
      BY <1>2, <1>7, <2>9, <3>1, <3>3 DEF Worked
    <3> QED
      BY <2>11, <3>4, Arranges
  <2> QED
    BY <1>7, <1>8, <2>7, <2>11 DEF Improved
<1> QED
  BY <1>9, <1>10

----------------------------------------------------------------------------
(* The course *)

ASection(X) == [name : X, assistant : X, roster : Seq(Nat)]
AStudent(X) == [id : X, name : X, section : Nat, scores : X]
Shape(c, X) == c \in [professor : X, assignments : X, sections : Seq(ASection(X)), students : Seq(AStudent(X))]

In(c, s) == {st \in DOMAIN c.students : c.students[st].section = s}

(* A course as it can be: each student is in a section there is, or was read *)
(* before any, and each section has its students once.                      *)
CourseOK(c) ==
  /\ \E X : Shape(c, X)
  /\ \A st \in DOMAIN c.students : c.students[st].section \in 0..Len(c.sections)
  /\ \A s \in DOMAIN c.sections : Whole(c.sections[s].roster, In(c, s))

(* A list of some things is a list of more things. *)
LEMMA SeqGrows ==
  ASSUME NEW S, NEW T, S \subseteq T, NEW s \in Seq(S)
  PROVE  s \in Seq(T)
<1>1. Len(s) \in Nat /\ s \in [1..Len(s) -> S]
  BY LenProperties
<1>2. s \in [1..Len(s) -> T]
  BY <1>1
<1> QED
  BY <1>1, <1>2

(* A sequence of which an element is changed. *)
LEMMA SeqChanges ==
  ASSUME NEW S, NEW s \in Seq(S), NEW t \in [DOMAIN s -> S]
  PROVE  t \in Seq(S) /\ DOMAIN t = DOMAIN s /\ Len(t) = Len(s)
<1>1. Len(s) \in Nat /\ DOMAIN s = 1..Len(s) /\ s \in [1..Len(s) -> S]
  BY LenProperties
<1>2. DOMAIN t = 1..Len(s)
  BY <1>1
<1>3. t \in [1..Len(s) -> S]
  BY <1>1
<1>4. t \in Seq(S)
  BY ONLY <1>1, <1>3
<1> QED
  BY <1>1, <1>2, <1>4, LenProperties

(* The values of a course are among any that include them. *)
LEMMA ShapeGrows ==
  ASSUME NEW X, NEW Y, X \subseteq Y, NEW c, Shape(c, X)
  PROVE  Shape(c, Y)
<1>1. ASection(X) \subseteq ASection(Y) /\ AStudent(X) \subseteq AStudent(Y)
  BY DEF ASection, AStudent
<1>2. Seq(ASection(X)) \subseteq Seq(ASection(Y)) /\ Seq(AStudent(X)) \subseteq Seq(AStudent(Y))
  BY <1>1, SeqGrows
<1> QED
  BY <1>2 DEF Shape

(* What a course of this shape consists of. *)
LEMMA ShapeParts ==
  ASSUME NEW X, NEW c, Shape(c, X)
  PROVE  /\ c = [professor |-> c.professor, assignments |-> c.assignments, sections |-> c.sections, students |-> c.students]
         /\ c.professor \in X /\ c.assignments \in X
         /\ c.sections \in Seq(ASection(X)) /\ c.students \in Seq(AStudent(X))
         /\ Len(c.sections) \in Nat /\ DOMAIN c.sections = 1..Len(c.sections)
         /\ Len(c.students) \in Nat /\ DOMAIN c.students = 1..Len(c.students)
         /\ \A s \in DOMAIN c.sections : c.sections[s] \in ASection(X) /\ c.sections[s].roster \in Seq(Nat)
         /\ \A st \in DOMAIN c.students : c.students[st] \in AStudent(X) /\ c.students[st].section \in Nat
<1>1. /\ c = [professor |-> c.professor, assignments |-> c.assignments, sections |-> c.sections, students |-> c.students]
      /\ c.professor \in X /\ c.assignments \in X
      /\ c.sections \in Seq(ASection(X)) /\ c.students \in Seq(AStudent(X))
  BY DEF Shape
<1>2. /\ Len(c.sections) \in Nat /\ DOMAIN c.sections = 1..Len(c.sections)
      /\ \A s \in DOMAIN c.sections : c.sections[s] \in ASection(X)
  BY ONLY <1>1
<1>3. /\ Len(c.students) \in Nat /\ DOMAIN c.students = 1..Len(c.students)
      /\ \A st \in DOMAIN c.students : c.students[st] \in AStudent(X)
  BY ONLY <1>1
<1>4. \A s \in ASection(X) : s.roster \in Seq(Nat)
  BY DEF ASection
<1>5. \A st \in AStudent(X) : st.section \in Nat
  BY DEF AStudent
<1> QED
  BY <1>1, <1>2, <1>3, <1>4, <1>5

(* Two courses whose sections have the same students. *)
Alike(d, c) ==
  /\ DOMAIN d.students = DOMAIN c.students
  /\ \A st \in DOMAIN c.students : d.students[st].section = c.students[st].section
  /\ DOMAIN d.sections = DOMAIN c.sections /\ Len(d.sections) = Len(c.sections)
  /\ \A s \in DOMAIN c.sections : /\ Range(d.sections[s].roster) = Range(c.sections[s].roster)
                                  /\ Len(d.sections[s].roster) = Len(c.sections[s].roster)

(* A course that differs in the order of its rosters is as good. *)
LEMMA AlikeOK ==
  ASSUME NEW c, CourseOK(c), NEW X, NEW d, Shape(d, X), Alike(d, c)
  PROVE  CourseOK(d)
<1>1. \A s : In(d, s) = In(c, s)
  BY DEF Alike, In
<1>2. \A s \in DOMAIN d.sections : Whole(d.sections[s].roster, In(d, s))
  BY <1>1 DEF Alike, CourseOK, Whole
<1>3. \A st \in DOMAIN d.students : d.students[st].section \in 0..Len(d.sections)
  BY DEF Alike, CourseOK
<1> QED
  BY <1>2, <1>3 DEF CourseOK

(* A course before anything is read. *)
LEMMA EmptyOK == CourseOK(NoCourse)
<1>1. NoCourse = [professor |-> FALSE, assignments |-> <<>>, sections |-> <<>>, students |-> <<>>]
  BY DEF NoCourse
<1>2. PICK X : FALSE \in X /\ <<>> \in X
  <2>1. FALSE \in {FALSE, <<>>} /\ <<>> \in {FALSE, <<>>}
    OBVIOUS
  <2> QED
    BY <2>1
<1>3. <<>> \in Seq(ASection(X)) /\ <<>> \in Seq(AStudent(X))
  OBVIOUS
<1>4. Shape(NoCourse, X)
  BY <1>1, <1>2, <1>3 DEF Shape
<1>5. DOMAIN NoCourse.students = {} /\ DOMAIN NoCourse.sections = {}
  BY <1>1
<1> QED
  BY <1>4, <1>5 DEF CourseOK

(* The professor and the assignments are nothing to the rosters. *)
LEMMA HeadOK ==
  ASSUME NEW c, CourseOK(c), NEW v, NEW d, d = [c EXCEPT !.professor = v] \/ d = [c EXCEPT !.assignments = v]
  PROVE  CourseOK(d)
<1>1. PICK X0 : Shape(c, X0)
  BY DEF CourseOK
<1>2. PICK X : X = X0 \cup {v}
  OBVIOUS
<1>3. Shape(c, X)
  BY <1>1, <1>2, ShapeGrows
<1>4. Shape(d, X) /\ d.sections = c.sections /\ d.students = c.students
  BY <1>2, <1>3 DEF Shape
<1> QED
  BY <1>4, AlikeOK DEF Alike

(* Whether a section has an assistant, or a roster of the same students. *)
LEMMA SectionOK ==
  ASSUME NEW c, CourseOK(c), NEW l, NEW v, NEW d,
         \/ d = [c EXCEPT !.sections[l].assistant = v]
         \/ /\ d = [c EXCEPT !.sections[l].roster = v] /\ l \in DOMAIN c.sections
            /\ v \in Seq(Nat) /\ Range(v) = Range(c.sections[l].roster) /\ Len(v) = Len(c.sections[l].roster)
  PROVE  CourseOK(d)
<1>1. PICK X0 : Shape(c, X0)
  BY DEF CourseOK
<1>2. PICK X : X = X0 \cup {v}
  OBVIOUS
<1>3. Shape(c, X)
  BY <1>1, <1>2, ShapeGrows
<1>4. PICK t : d = [c EXCEPT !.sections = t] /\
        \/ t = [c.sections EXCEPT ![l].assistant = v]
        \/ /\ t = [c.sections EXCEPT ![l].roster = v] /\ l \in DOMAIN c.sections
           /\ v \in Seq(Nat) /\ Range(v) = Range(c.sections[l].roster) /\ Len(v) = Len(c.sections[l].roster)
  OBVIOUS
<1>5. PICK s \in Seq(ASection(X)) : s = c.sections
  BY <1>3, ShapeParts
<1>6. ASSUME NEW x \in ASection(X) PROVE [x EXCEPT !.assistant = v] \in ASection(X) /\ [x EXCEPT !.assistant = v].roster = x.roster
  BY <1>2 DEF ASection
<1>7. ASSUME NEW x \in ASection(X), v \in Seq(Nat) PROVE [x EXCEPT !.roster = v] \in ASection(X) /\ [x EXCEPT !.roster = v].roster = v
  BY <1>7 DEF ASection
<1>8. /\ t \in Seq(ASection(X)) /\ DOMAIN t = DOMAIN s /\ Len(t) = Len(s)
      /\ \A k \in DOMAIN s : Range(t[k].roster) = Range(s[k].roster) /\ Len(t[k].roster) = Len(s[k].roster)
  <2>1. CASE t = [s EXCEPT ![l].assistant = v]
    <3>1. ASSUME NEW k \in DOMAIN s PROVE t[k] \in ASection(X) /\ t[k].roster = s[k].roster
      <4>1. s[k] \in ASection(X)
        BY ONLY <1>5, <3>1
      <4>2. t[k] = IF k = l THEN [s[k] EXCEPT !.assistant = v] ELSE s[k]
        BY ONLY <2>1, <3>1
      <4> QED
        BY ONLY <1>6, <4>1, <4>2
    <3>a. t \in [DOMAIN s -> ASection(X)]
      BY ONLY <2>1, <3>1
    <3>2. t \in Seq(ASection(X)) /\ DOMAIN t = DOMAIN s /\ Len(t) = Len(s)
      BY <3>a, SeqChanges
    <3> QED
      BY <3>1, <3>2
  <2>2. CASE /\ t = [s EXCEPT ![l].roster = v] /\ l \in DOMAIN s
             /\ v \in Seq(Nat) /\ Range(v) = Range(s[l].roster) /\ Len(v) = Len(s[l].roster)
    <3>1. ASSUME NEW k \in DOMAIN s PROVE t[k] \in ASection(X) /\ (k # l => t[k] = s[k]) /\ (k = l => t[k].roster = v)
      <4>1. s[k] \in ASection(X)
        BY ONLY <1>5, <3>1
      <4>2. t[k] = IF k = l THEN [s[k] EXCEPT !.roster = v] ELSE s[k]
        BY ONLY <2>2, <3>1
      <4> QED
        BY ONLY <1>7, <2>2, <4>1, <4>2
    <3>a. t \in [DOMAIN s -> ASection(X)]
      BY ONLY <2>2, <3>1
    <3>2. t \in Seq(ASection(X)) /\ DOMAIN t = DOMAIN s /\ Len(t) = Len(s)
      BY <3>a, SeqChanges
    <3> QED
      BY <2>2, <3>1, <3>2
  <2> QED
    BY <1>4, <1>5, <2>1, <2>2
<1>9. Shape(d, X) /\ d.sections = t /\ d.students = c.students
  BY <1>3, <1>4, <1>8 DEF Shape
<1> QED
  BY <1>5, <1>8, <1>9, AlikeOK DEF Alike

(* The scores of a student. *)
LEMMA ScoresOK ==
  ASSUME NEW c, CourseOK(c), NEW l, NEW v, NEW d, d = [c EXCEPT !.students[l].scores = v]
  PROVE  CourseOK(d)
<1>1. PICK X0 : Shape(c, X0)
  BY DEF CourseOK
<1>2. PICK X : X = X0 \cup {v}
  OBVIOUS
<1>3. Shape(c, X)
  BY <1>1, <1>2, ShapeGrows
<1>4. PICK t : d = [c EXCEPT !.students = t] /\ t = [c.students EXCEPT ![l].scores = v]
  OBVIOUS
<1>5. PICK s \in Seq(AStudent(X)) : s = c.students
  BY <1>3, ShapeParts
<1>6. ASSUME NEW x \in AStudent(X) PROVE [x EXCEPT !.scores = v] \in AStudent(X) /\ [x EXCEPT !.scores = v].section = x.section
  BY <1>2 DEF AStudent
<1>7. ASSUME NEW k \in DOMAIN s PROVE t[k] \in AStudent(X) /\ t[k].section = s[k].section
  <2>1. s[k] \in AStudent(X)
    BY ONLY <1>5, <1>7
  <2>2. t[k] = IF k = l THEN [s[k] EXCEPT !.scores = v] ELSE s[k]
    BY ONLY <1>4, <1>5, <1>7
  <2> QED
    BY ONLY <1>6, <2>1, <2>2
<1>8. t \in Seq(AStudent(X)) /\ DOMAIN t = DOMAIN s
  <2>1. t \in [DOMAIN s -> AStudent(X)]
    BY ONLY <1>4, <1>5, <1>7
  <2> QED
    BY <2>1, SeqChanges
<1>9. Shape(d, X) /\ d.sections = c.sections /\ d.students = t
  BY <1>3, <1>4, <1>8 DEF Shape
<1> QED
  BY <1>5, <1>7, <1>8, <1>9, AlikeOK DEF Alike

(* A section begins without students. *)
LEMMA NewSectionOK ==
  ASSUME NEW c, CourseOK(c), NEW v, NEW d,
         d = [c EXCEPT !.sections = Append(@, [name |-> v, assistant |-> FALSE, roster |-> <<>>])]
  PROVE  CourseOK(d)
<1>1. PICK X0 : Shape(c, X0)
  BY DEF CourseOK
<1>2. PICK X : X = X0 \cup {v, FALSE}
  OBVIOUS
<1>3. Shape(c, X)
  BY <1>1, <1>2, ShapeGrows
<1>4. PICK n \in Nat : n = Len(c.sections)
  BY <1>3, ShapeParts
<1>5. PICK x \in ASection(X) : x = [name |-> v, assistant |-> FALSE, roster |-> <<>>]
  <2>1. v \in X /\ FALSE \in X /\ <<>> \in Seq(Nat)
    BY <1>2
  <2>2. [name |-> v, assistant |-> FALSE, roster |-> <<>>] \in ASection(X)
    BY ONLY <2>1 DEF ASection
  <2> QED
    BY <2>2
<1>6. PICK s \in Seq(ASection(X)) : s = c.sections
  BY <1>3, ShapeParts
<1>7. PICK t : t = Append(s, x)
  OBVIOUS
<1>8. /\ t \in Seq(ASection(X)) /\ Len(t) = n + 1 /\ DOMAIN t = 1..(n + 1) /\ t[n + 1] = x
      /\ \A k \in 1..n : t[k] = s[k]
  BY ONLY <1>4, <1>6, <1>7
<1>9. d = [c EXCEPT !.sections = t]
  BY <1>5, <1>6, <1>7
<1>10. Shape(d, X) /\ d.sections = t /\ d.students = c.students
  BY <1>3, <1>8, <1>9 DEF Shape
<1>11. \A k : In(d, k) = In(c, k)
  BY <1>10 DEF In
<1>12. \A st \in DOMAIN d.students : d.students[st].section \in 0..Len(d.sections)
  BY <1>4, <1>8, <1>10 DEF CourseOK
<1>13. ASSUME NEW k \in DOMAIN d.sections PROVE Whole(d.sections[k].roster, In(d, k))
  <2>1. CASE k \in 1..n
    <3>1. k \in DOMAIN c.sections
      BY <1>3, <1>4, <2>1, ShapeParts
    <3>2. d.sections[k] = c.sections[k]
      BY <1>6, <1>8, <1>10, <2>1
    <3> QED
      BY <1>11, <3>1, <3>2 DEF CourseOK
  <2>2. CASE k = n + 1
    <3>1. In(d, k) = {}
      <4>1. \A st \in DOMAIN c.students : c.students[st].section \in 0..n
        BY <1>4 DEF CourseOK
      <4>2. \A st \in DOMAIN c.students : c.students[st].section # n + 1
        BY ONLY <4>1, n \in Nat
      <4> QED
        BY <1>11, <2>2, <4>2 DEF In
    <3>2. d.sections[k].roster = <<>>
      BY <1>5, <1>8, <1>10, <2>2
    <3>3. Range(<<>>) = {} /\ Len(<<>>) = 0 /\ Cardinality({}) = 0
      BY FS_EmptySet DEF Range
    <3> QED
      BY <3>1, <3>2, <3>3 DEF Whole
  <2>3. k \in 1..n \/ k = n + 1
    BY <1>8, <1>10
  <2> QED
    BY <2>1, <2>2, <2>3
<1> QED
  BY <1>10, <1>12, <1>13 DEF CourseOK

(* A student is added to the last section, if there is one. *)
LEMMA NewStudentOK ==
  ASSUME NEW c, CourseOK(c), NEW v, NEW w, NEW n, n = Len(c.sections), NEW m, m = Len(c.students), NEW d,
         d = [c EXCEPT !.students = Append(@, [id |-> v, name |-> w, section |-> n, scores |-> <<>>]),
                       !.sections[n].roster = Append(@, m + 1)]
  PROVE  CourseOK(d)
<1>1. PICK X0 : Shape(c, X0)
  BY DEF CourseOK
<1>2. PICK X : X = X0 \cup {v, w, <<>>}
  OBVIOUS
<1>3. Shape(c, X)
  BY <1>1, <1>2, ShapeGrows
<1>4. n \in Nat /\ m \in Nat /\ DOMAIN c.sections = 1..n /\ DOMAIN c.students = 1..m
  BY <1>3, ShapeParts
<1>5. PICK x \in AStudent(X) : x = [id |-> v, name |-> w, section |-> n, scores |-> <<>>]
  <2>1. v \in X /\ w \in X /\ <<>> \in X
    BY <1>2
  <2>2. [id |-> v, name |-> w, section |-> n, scores |-> <<>>] \in AStudent(X)
    BY ONLY <1>4, <2>1 DEF AStudent
  <2> QED
    BY <2>2
<1>6. PICK s \in Seq(ASection(X)) : s = c.sections
  BY <1>3, ShapeParts
<1>7. PICK r \in Seq(AStudent(X)) : r = c.students
  BY <1>3, ShapeParts
<1>8. PICK t : t = [s EXCEPT ![n].roster = Append(@, m + 1)]
  OBVIOUS
<1>9. PICK u : u = Append(r, x)
  OBVIOUS
<1>10. /\ u \in Seq(AStudent(X)) /\ Len(u) = m + 1 /\ DOMAIN u = 1..(m + 1) /\ u[m + 1] = x
       /\ \A k \in 1..m : u[k] = r[k]
  BY ONLY <1>4, <1>7, <1>9, m = Len(c.students)
<1>11. ASSUME NEW y \in ASection(X)
       PROVE  /\ y.roster \in Seq(Nat)
              /\ [y EXCEPT !.roster = Append(@, m + 1)] \in ASection(X)
              /\ [y EXCEPT !.roster = Append(@, m + 1)].roster = Append(y.roster, m + 1)
  <2>1. y.roster \in Seq(Nat)
    BY DEF ASection
  <2>2. PICK z \in Seq(Nat) : z = Append(y.roster, m + 1)
    <3>1. m + 1 \in Nat
      BY ONLY <1>4
    <3>2. Append(y.roster, m + 1) \in Seq(Nat)
      BY ONLY <2>1, <3>1, AppendProperties
    <3> QED
      BY ONLY <3>2
  <2>3. [y EXCEPT !.roster = z] \in ASection(X) /\ [y EXCEPT !.roster = z].roster = z
    BY ONLY y \in ASection(X), z \in Seq(Nat) DEF ASection
  <2> QED
    BY <2>1, <2>2, <2>3
<1>12. ASSUME NEW k \in 1..n
       PROVE  t[k] \in ASection(X) /\ (k # n => t[k] = s[k]) /\ (k = n => t[k].roster = Append(s[k].roster, m + 1))
  <2>1. s[k] \in ASection(X) /\ k \in DOMAIN s
    BY ONLY <1>4, <1>6, k \in 1..n
  <2>2. t[k] = IF k = n THEN [s[k] EXCEPT !.roster = Append(@, m + 1)] ELSE s[k]
    BY ONLY <1>8, <2>1
  <2> QED
    BY ONLY <1>11, <2>1, <2>2
<1>13. t \in Seq(ASection(X)) /\ DOMAIN t = 1..n /\ Len(t) = n
  <2>1. DOMAIN s = 1..n /\ Len(s) = n
    BY ONLY <1>4, <1>6, n = Len(c.sections)
  <2>2. t \in [DOMAIN s -> ASection(X)]
    BY ONLY <1>8, <1>12, <2>1
  <2> QED
    BY <2>1, <2>2, SeqChanges
<1>14. d = [professor |-> c.professor, assignments |-> c.assignments, sections |-> t, students |-> u]
  <2>1. c = [professor |-> c.professor, assignments |-> c.assignments, sections |-> s, students |-> r]
    BY <1>3, <1>6, <1>7, ShapeParts
  <2>2. PICK e : e = [c EXCEPT !.students = u]
    OBVIOUS
  <2>3. e = [professor |-> c.professor, assignments |-> c.assignments, sections |-> s, students |-> u]
    BY ONLY <2>1, <2>2
  <2>4. [e EXCEPT !.sections = t] = [professor |-> c.professor, assignments |-> c.assignments, sections |-> t, students |-> u]
    BY ONLY <2>3
  <2>5. e.sections = s /\ c.students = r
    BY ONLY <1>7, <2>3
  <2>6. d = [e EXCEPT !.sections[n].roster = Append(@, m + 1)]
    BY ONLY <1>5, <1>9, <2>2, <2>5,
            d = [c EXCEPT !.students = Append(@, [id |-> v, name |-> w, section |-> n, scores |-> <<>>]),
                          !.sections[n].roster = Append(@, m + 1)]
  <2>7. d = [e EXCEPT !.sections = t]
    BY ONLY <1>8, <2>5, <2>6
  <2> QED
    BY ONLY <2>4, <2>7
<1>15. Shape(d, X) /\ d.sections = t /\ d.students = u
  <2>1. c.professor \in X /\ c.assignments \in X
    BY <1>3, ShapeParts
  <2> QED
    BY ONLY <1>10, <1>13, <1>14, <2>1 DEF Shape
<1>16. DOMAIN d.students = 1..(m + 1) /\ d.students[m + 1].section = n
       /\ \A st \in 1..m : d.students[st].section = c.students[st].section
  BY <1>5, <1>7, <1>10, <1>15
<1>17. \A st \in DOMAIN d.students : d.students[st].section \in 0..Len(d.sections)
  <2>1. \A st \in 1..m : c.students[st].section \in 0..n
    BY <1>4 DEF CourseOK
  <2>2. \A st \in 1..(m + 1) : st \in 1..m \/ st = m + 1
    BY ONLY <1>4
  <2> QED
    BY <1>4, <1>13, <1>15, <1>16, <2>1, <2>2
<1>18. ASSUME NEW k \in 1..n PROVE Whole(d.sections[k].roster, In(d, k))
  <2>1. Whole(c.sections[k].roster, In(c, k))
    BY <1>4 DEF CourseOK
  <2>2. m + 1 \notin In(c, k) /\ In(c, k) \subseteq 1..m
    BY <1>4 DEF In
  <2>3. CASE k # n
    <3>1. In(d, k) = In(c, k)
      BY <1>4, <1>16, <2>3 DEF In
    <3> QED
      BY <1>6, <1>12, <1>15, <2>1, <2>3, <3>1
  <2>4. CASE k = n
    <3>1. In(d, k) = In(c, k) \cup {m + 1}
      BY <1>4, <1>16, <2>4 DEF In
    <3>2. IsFiniteSet(In(c, k))
      <4>1. IsFiniteSet(1..m)
        <5>1. 1 \in Int /\ m \in Int
          BY <1>4
        <5> QED
          BY ONLY <5>1, FS_Interval
      <4> QED
        BY <2>2, <4>1, FS_Subset
    <3>3. Cardinality(In(d, k)) = Cardinality(In(c, k)) + 1
      BY <2>2, <3>1, <3>2, FS_AddElement
    <3>4. PICK z \in Seq(Nat) : z = c.sections[k].roster
      BY <1>3, <1>4, ShapeParts
    <3>5. PICK y : y = Append(z, m + 1)
      OBVIOUS
    <3>6. Len(y) = Len(z) + 1 /\ DOMAIN y = 1..(Len(z) + 1) /\ y[Len(z) + 1] = m + 1
          /\ Len(z) \in Nat /\ DOMAIN z = 1..Len(z) /\ \A i \in 1..Len(z) : y[i] = z[i]
      BY ONLY <1>4, <3>4, <3>5
    <3>7. Range(y) = Range(z) \cup {m + 1}
      <4>1. \A i \in 1..(Len(z) + 1) : i \in 1..Len(z) \/ i = Len(z) + 1
        BY ONLY <3>6
      <4>2. \A i \in 1..Len(z) : i \in 1..(Len(z) + 1)
        BY ONLY <3>6
      <4>3. Len(z) + 1 \in 1..(Len(z) + 1)
        BY ONLY <3>6
      <4> QED
        BY ONLY <3>6, <4>1, <4>2, <4>3 DEF Range
    <3>8. d.sections[k].roster = y
      BY <1>6, <1>12, <1>15, <2>4, <3>4, <3>5
    <3> QED
      BY <2>1, <3>1, <3>3, <3>4, <3>6, <3>7, <3>8 DEF Whole
  <2> QED
    BY <2>3, <2>4
<1> QED
  BY <1>13, <1>15, <1>17, <1>18 DEF CourseOK

----------------------------------------------------------------------------
(* The program *)

(* A list of something. *)
Listed(s) == s \in Seq(Range(s))

(* A sequence is a list of what is in it. *)
LEMMA SeqIsListed ==
  ASSUME NEW S, NEW s \in Seq(S)
  PROVE  /\ Listed(s) /\ Len(s) \in Nat /\ DOMAIN s = 1..Len(s) /\ s \in [1..Len(s) -> Range(s)]
         /\ Range(s) = {s[i] : i \in 1..Len(s)}
<1>1. Len(s) \in Nat /\ DOMAIN s = 1..Len(s) /\ s \in [1..Len(s) -> S]
  BY LenProperties
<1>2. s \in [1..Len(s) -> Range(s)]
  BY <1>1 DEF Range
<1>3. s \in Seq(Range(s))
  BY ONLY <1>1, <1>2
<1> QED
  BY <1>1, <1>2, <1>3 DEF Listed, Range

(* The students that do_links links are a list. *)
LEMMA LinkedAreListed ==
  ASSUME CourseOK(course)
  PROVE  Listed(LinkStudents)
<1>1. Len(course.students) \in Nat
  BY ShapeParts DEF CourseOK
<1>2. \E f, S : S \subseteq 1..(Len(course.students) + 1) /\ LinkStudents = [k \in 1..Cardinality(S) |-> f[k]]
  <2> DEFINE visits == Concat([a \in Assignments |->
                         Concat([s \in Sections |-> course.sections[s].roster])])
             linked == FoldLeft(Link, [head |-> 0, last |-> 0, cnext |-> [st \in Students |-> 0]], visits)
             chain[k \in 1..Len(course.students) + 1] ==
               IF k = 1 THEN linked.head
               ELSE LET st == chain[k - 1] IN IF st = 0 THEN 0 ELSE linked.cnext[st]
  <2>1. LinkStudents = [k \in 1..Cardinality({i \in 1..Len(course.students) + 1 : chain[i] # 0}) |-> chain[k]]
    BY DEF LinkStudents
  <2> HIDE DEF chain
  <2>2. PICK S : S = {i \in 1..Len(course.students) + 1 : chain[i] # 0}
    OBVIOUS
  <2>3. PICK f : f = chain
    OBVIOUS
  <2>4. S \subseteq 1..(Len(course.students) + 1)
    BY ONLY <2>2
  <2>5. LinkStudents = [k \in 1..Cardinality(S) |-> f[k]]
    BY ONLY <2>1, <2>2, <2>3
  <2> QED
    BY ONLY <2>4, <2>5
<1>3. PICK f, S : S \subseteq 1..(Len(course.students) + 1) /\ LinkStudents = [k \in 1..Cardinality(S) |-> f[k]]
  BY <1>2
<1>4. PICK n \in Nat : n = Cardinality(S)
  <2>1. 1 \in Int /\ Len(course.students) + 1 \in Int
    BY <1>1
  <2>2. IsFiniteSet(1..(Len(course.students) + 1))
    BY ONLY <2>1, FS_Interval
  <2> QED
    BY <1>3, <2>2, FS_Subset, FS_CardinalityType
<1>5. LinkStudents \in Seq({f[k] : k \in 1..n})
  <2>1. LinkStudents = [k \in 1..n |-> f[k]]
    BY ONLY <1>3, <1>4
  <2>2. PICK list : list = LinkStudents
    OBVIOUS
  <2>3. PICK X : X = {f[k] : k \in 1..n}
    OBVIOUS
  <2>4. list \in [1..n -> X]
    BY ONLY <2>1, <2>2, <2>3
  <2>5. list \in Seq(X)
    BY ONLY <2>4, n \in Nat
  <2> QED
    BY ONLY <2>2, <2>3, <2>5
<1> QED
  BY <1>5, SeqIsListed

(* Reading leaves a course as it can be, whatever the lines are.             *)
LEMMA ReadKeeps ==
  ASSUME CourseOK(course), Read
  PROVE  CourseOK(course')
<1>1. CASE course' = course
  BY <1>1
<1>2. ASSUME NEW v, course' = [course EXCEPT !.professor = v] \/ course' = [course EXCEPT !.assignments = v]
      PROVE  CourseOK(course')
  BY <1>2, HeadOK
<1>3. CASE ReadCourse
  BY <1>1, <1>3 DEF ReadCourse, Leave, Fatal
<1>4. CASE ReadProfessor
  BY <1>1, <1>2, <1>4 DEF ReadProfessor, Leave
<1>5. CASE ReadAssignment
  <2>1. CASE Token = "ASSIGNMENT"
    <3>1. PICK old, a : /\ a = [name |-> Line.name, atype |-> Line.atype, weight |-> Unset, policy |-> "RAW",
                                group |-> "BYCLASS", max |-> 0, mean |-> old, stddev |-> old, scale |-> old]
                        /\ course' = [course EXCEPT !.assignments = Append(@, a)]
      BY <1>5, <2>1 DEF ReadAssignment
    <3>2. PICK v : v = Append(course.assignments, a)
      OBVIOUS
    <3>3. course' = [course EXCEPT !.assignments = v]
      BY ONLY <3>1, <3>2
    <3> QED
      BY <1>2, <3>3
  <2>2. CASE Token # "ASSIGNMENT"
    BY <1>1, <1>5, <2>2 DEF ReadAssignment, Leave
  <2> QED
    BY <2>1, <2>2
<1>6. CASE ReadOption
  <2>1. CASE Token \in {"WEIGHT", "NORMALIZE", "MAXIMUM"}
    <3>1. PICK v : v = [course.assignments EXCEPT ![Len(course.assignments)] = WithOption(@, Line)]
      OBVIOUS
    <3>2. course' = [course EXCEPT !.assignments = v]
      BY <1>6, <2>1, <3>1 DEF ReadOption
    <3> QED
      BY <1>2, <3>2
  <2>2. CASE Token \notin {"WEIGHT", "NORMALIZE", "MAXIMUM"}
    BY <1>1, <1>6, <2>2 DEF ReadOption, Leave
  <2> QED
    BY <2>1, <2>2
<1>7. CASE ReadSection
  <2>1. CASE Token = "SECTION"
    <3>1. course' = [course EXCEPT !.sections = Append(@, [name |-> Line.name, assistant |-> FALSE, roster |-> <<>>])]
      BY <1>7, <2>1 DEF ReadSection
    <3> QED
      BY <3>1, NewSectionOK
  <2>2. CASE Token # "SECTION"
    <3>1. course' = course
      BY <1>7, <2>2 DEF ReadSection, IncludeFile, Leave, Fatal
    <3> QED
      BY <1>1, <3>1
  <2> QED
    BY <2>1, <2>2
<1>8. CASE ReadAssistant
  <2>1. CASE Token = "ASSISTANT"
    <3>1. course' = [course EXCEPT !.sections[Section].assistant = TRUE]
      BY <1>8, <2>1 DEF ReadAssistant
    <3> QED
      BY <3>1, SectionOK
  <2>2. CASE Token # "ASSISTANT"
    BY <1>1, <1>8, <2>2 DEF ReadAssistant, Leave
  <2> QED
    BY <2>1, <2>2
<1>9. CASE ReadStudent
  <2>1. CASE Token = "STUDENT"
    <3>1. PICK n, m : n = Len(course.sections) /\ m = Len(course.students)
      OBVIOUS
    <3>2. course' = [course EXCEPT !.students = Append(@, [id |-> Line.id, name |-> Line.name, section |-> n, scores |-> <<>>]),
                                   !.sections[n].roster = Append(@, m + 1)]
      BY <1>9, <2>1, <3>1 DEF ReadStudent, Section, Student
    <3> QED
      BY <3>1, <3>2, NewStudentOK
  <2>2. CASE Token # "STUDENT"
    BY <1>1, <1>9, <2>2 DEF ReadStudent, Leave
  <2> QED
    BY <2>1, <2>2
<1>10. CASE ReadScore
  <2>1. CASE course' = course
    BY <1>1, <2>1
  <2>2. CASE course' # course
    <3>1. PICK x : course' = [course EXCEPT !.students[Student].scores = Append(@, x)]
      BY <1>10, <2>2 DEF ReadScore, Leave, Fatal
    <3>2. PICK v : v = Append(course.students[Student].scores, x)
      OBVIOUS
    <3>3. course' = [course EXCEPT !.students[Student].scores = v]
      BY ONLY <3>1, <3>2
    <3> QED
      BY <3>3, ScoresOK
  <2> QED
    BY <2>1, <2>2
<1>11. CASE ExpectEof
  BY <1>1, <1>11 DEF ExpectEof
<1> QED
  BY <1>3, <1>4, <1>5, <1>6, <1>7, <1>8, <1>9, <1>10, <1>11 DEF Read

(* Between two steps the table that is sorted has the entries of its list,   *)
(* and only quicksort has calls to make.                                    *)
SortingOK ==
  /\ \E X : sorting \in [by : {"name", input.by}, list : Nat, tab : X, calls : X, busy : BOOLEAN]
  /\ sorting.calls # <<>> => sorting.busy
  /\ sorting.busy =>
       /\ phase \in {"sort", "sortby"} /\ sorting.list \in 0..Len(course.sections)
       /\ Listed(sorting.tab) /\ Range(sorting.tab) = Range(List(sorting.list))
       /\ Len(sorting.tab) = Len(List(sorting.list)) /\ Calls(sorting.calls, Len(sorting.tab))

BookInv == CourseOK(course) /\ Listed(roster) /\ SortingOK

(* The rosters of the class and of the sections are lists. *)
LEMMA ListsAreListed ==
  ASSUME BookInv, NEW l \in 0..Len(course.sections)
  PROVE  Listed(List(l))
<1>1. CASE l = 0
  BY <1>1 DEF List, BookInv
<1>2. CASE l # 0
  <2>1. PICK X : Shape(course, X)
    BY DEF BookInv, CourseOK
  <2>2. course.sections[l].roster \in Seq(Nat)
    BY <1>2, <2>1, ShapeParts
  <2>3. Listed(course.sections[l].roster)
    BY <2>2, SeqIsListed
  <2> QED
    BY <1>2, <2>3 DEF List
<1> QED
  BY <1>1, <1>2

(* Nothing is sorted in the other phases. *)
LEMMA NotSorting ==
  ASSUME SortingOK, ~sorting.busy, UNCHANGED <<input, sorting>>
  PROVE  SortingOK'
BY DEF SortingOK

(* Nothing is being sorted when a sort begins. *)
LEMMA IdleOK ==
  ASSUME sorting' = Idle \/ sorting' = [Idle EXCEPT !.by = input'.by]
  PROVE  SortingOK'
<1>1. Idle = [by |-> "name", list |-> 0, tab |-> <<>>, calls |-> <<>>, busy |-> FALSE]
  BY DEF Idle
<1>2. PICK b \in {"name", input'.by} : sorting' = [by |-> b, list |-> 0, tab |-> <<>>, calls |-> <<>>, busy |-> FALSE]
  BY <1>1
<1>3. sorting' \in [by : {"name", input'.by}, list : Nat, tab : {<<>>}, calls : {<<>>}, busy : BOOLEAN]
  BY <1>2
<1>4. sorting'.calls = <<>> /\ ~sorting'.busy
  BY <1>2
<1> QED
  BY <1>3, <1>4 DEF SortingOK

(* A table filled from its end has the entries of the list. *)
LEMMA Reversed ==
  ASSUME NEW s, Listed(s)
  PROVE  Listed(Reverse(s)) /\ Range(Reverse(s)) = Range(s) /\ Len(Reverse(s)) = Len(s)
<1>1. Len(s) \in Nat /\ DOMAIN s = 1..Len(s) /\ s \in [1..Len(s) -> Range(s)]
  BY SeqIsListed DEF Listed
<1>2. PICK r : r = [i \in 1..Len(s) |-> s[(Len(s) - i) + 1]]
  OBVIOUS
<1>3. \A i \in 1..Len(s) : (Len(s) - i) + 1 \in 1..Len(s) /\ (Len(s) - ((Len(s) - i) + 1)) + 1 = i
  BY ONLY <1>1
<1>4. r \in [1..Len(s) -> Range(s)]
  BY ONLY <1>1, <1>2, <1>3
<1>5. r \in Seq(Range(s)) /\ Len(r) = Len(s) /\ DOMAIN r = 1..Len(s)
  BY ONLY <1>1, <1>4
<1>6. Range(r) = Range(s)
  <2>1. ASSUME NEW i \in 1..Len(s) PROVE r[i] \in Range(s)
    BY ONLY <1>4, i \in 1..Len(s)
  <2>2. ASSUME NEW i \in 1..Len(s) PROVE s[i] \in Range(r)
    <3>1. PICK j \in 1..Len(s) : j = (Len(s) - i) + 1 /\ (Len(s) - j) + 1 = i
      BY <1>3
    <3>2. r[j] = s[i]
      BY ONLY <1>2, <3>1
    <3> QED
      BY ONLY <1>5, <3>1, <3>2 DEF Range
  <2> QED
    BY ONLY <1>1, <1>5, <2>1, <2>2 DEF Range
<1>7. Reverse(s) = r
  BY <1>2 DEF Reverse
<1> QED
  BY <1>5, <1>6, <1>7, SeqIsListed

(* The variables that a step of sortrosters leaves alone, and its next state. *)
LEMMA SortingFields ==
  ASSUME SortingOK
  PROVE  /\ sorting = [by |-> sorting.by, list |-> sorting.list, tab |-> sorting.tab, calls |-> sorting.calls, busy |-> sorting.busy]
         /\ sorting.by \in {"name", input.by} /\ sorting.list \in Nat /\ sorting.busy \in BOOLEAN
<1>1. PICK X : sorting \in [by : {"name", input.by}, list : Nat, tab : X, calls : X, busy : BOOLEAN]
  BY DEF SortingOK
<1> QED
  BY ONLY <1>1

SortingIs(by, list, tab, calls, busy) ==
  sorting = [by |-> by, list |-> list, tab |-> tab, calls |-> calls, busy |-> busy]

(* What the sort of a list has to be after a step. *)
LEMMA NewSorting ==
  ASSUME NEW by, by \in {"name", input'.by}, NEW list \in Nat, NEW tab, NEW calls, NEW busy \in BOOLEAN,
         SortingIs(by, list, tab, calls, busy)', calls # <<>> => busy,
         busy =>
           /\ phase' \in {"sort", "sortby"} /\ list \in 0..Len(course'.sections)
           /\ Listed(tab) /\ Range(tab) = Range(List(list)')
           /\ Len(tab) = Len(List(list)') /\ Calls(calls, Len(tab))
  PROVE  SortingOK'
<1>1. PICK X : tab \in X /\ calls \in X
  <2>1. tab \in {tab, calls} /\ calls \in {tab, calls}
    OBVIOUS
  <2> QED
    BY <2>1
<1>2. sorting' = [by |-> by, list |-> list, tab |-> tab, calls |-> calls, busy |-> busy]
  BY DEF SortingIs
<1>3. sorting' \in [by : {"name", input'.by}, list : Nat, tab : X, calls : X, busy : BOOLEAN]
  BY ONLY <1>1, <1>2, by \in {"name", input'.by}, list \in Nat, busy \in BOOLEAN
<1>4. sorting'.list = list /\ sorting'.tab = tab /\ sorting'.calls = calls /\ sorting'.busy = busy
  BY ONLY <1>2
<1> QED
  BY <1>3, <1>4 DEF SortingOK

(* A list is taken up, or passed over if it is empty. *)
LEMMA SortRosterKeeps ==
  ASSUME BookInv, SortRoster
  PROVE  BookInv'
<1>1. phase \in {"sort", "sortby"} /\ ~sorting.busy /\ sorting.list <= Len(course.sections)
      /\ UNCHANGED <<readerVars, phase, roster>>
  BY DEF SortRoster
<1>2. UNCHANGED <<input, course>> /\ \A k : List(k)' = List(k)
  BY <1>1 DEF List, readerVars
<1>3. PICK by, list, tab : by = sorting.by /\ list = sorting.list /\ tab = sorting.tab
  OBVIOUS
<1>4. /\ sorting = [by |-> by, list |-> list, tab |-> tab, calls |-> <<>>, busy |-> FALSE]
      /\ by \in {"name", input.by} /\ list \in Nat
  BY <1>1, <1>3, SortingFields DEF BookInv, SortingOK
<1>5. Len(course.sections) \in Nat
  BY ShapeParts DEF BookInv, CourseOK
<1>6. CASE List(list) = <<>>
  <2>1. sorting' = [sorting EXCEPT !.list = @ + 1]
    BY <1>3, <1>6 DEF SortRoster
  <2>2. PICK l \in Nat : l = list + 1
    BY ONLY <1>4
  <2>3. SortingIs(by, l, tab, <<>>, FALSE)'
    BY ONLY <1>4, <2>1, <2>2 DEF SortingIs
  <2>4. by \in {"name", input'.by} /\ ~(<<>> # <<>>) /\ FALSE \in BOOLEAN
    BY <1>2, <1>4
  <2>5. SortingOK'
    BY ONLY <2>3, <2>4, l \in Nat, NewSorting
  <2> QED
    BY <1>1, <1>2, <2>5 DEF BookInv
<1>7. CASE List(list) # <<>>
  <2>1. PICK s : s = List(list)
    OBVIOUS
  <2>2. Listed(s) /\ Len(s) \in Nat
    BY <1>1, <1>3, <1>4, <1>5, <2>1, ListsAreListed, SeqIsListed DEF Listed
  <2>3. PICK t : t = Reverse(s)
    OBVIOUS
  <2>4. Listed(t) /\ Range(t) = Range(s) /\ Len(t) = Len(s)
    BY <2>2, <2>3, Reversed
  <2>5. PICK call \in ACall : call = [low |-> 0, high |-> Len(s), depth |-> 1]
    <3>1. [low |-> 0, high |-> Len(s), depth |-> 1] \in ACall
      BY ONLY <2>2 DEF ACall
    <3> QED
      BY <3>1
  <2>6. sorting' = [sorting EXCEPT !.busy = TRUE, !.tab = t, !.calls = <<call>>]
    BY <1>3, <1>7, <2>1, <2>3, <2>5 DEF SortRoster
  <2>7. SortingIs(by, list, t, <<call>>, TRUE)'
    BY ONLY <1>4, <2>6 DEF SortingIs
  <2>8. Calls(<<call>>, Len(t))
    <3>1. <<call>> \in Seq(ACall) /\ Len(<<call>>) = 1 /\ <<call>>[1] = call
      OBVIOUS
    <3>2. call.low = 0 /\ call.high = Len(s)
      BY ONLY <2>5
    <3>3. \A k \in 1..Len(<<call>>) : k = 1
      BY ONLY <3>1
    <3> QED
      BY <2>2, <2>4, <3>1, <3>2, <3>3 DEF Calls
  <2>9. list \in 0..Len(course.sections)
    BY <1>1, <1>3, <1>4, <1>5
  <2>10. SortingOK'
    BY <1>1, <1>2, <1>4, <2>1, <2>4, <2>7, <2>8, <2>9, NewSorting
  <2> QED
    BY <1>1, <1>2, <2>10 DEF BookInv
<1> QED
  BY <1>6, <1>7

(* sorttable runs the call made last on the table. *)
LEMMA TableSteps ==
  ASSUME BookInv, SortTable
  PROVE  \E by, list, t, calls, u, next :
           /\ by \in {"name", input.by} /\ list \in 0..Len(course.sections) /\ calls # <<>>
           /\ SortingIs(by, list, t, calls, TRUE) /\ SortingIs(by, list, u, next, TRUE)'
           /\ Ran(by, t, calls, u, next)
<1>1. sorting.calls # <<>> /\ sorting.busy /\ sorting.list \in 0..Len(course.sections)
  BY DEF SortTable, BookInv, SortingOK
<1>2. PICK by, list, t, calls : by = sorting.by /\ list = sorting.list /\ t = sorting.tab /\ calls = sorting.calls
  OBVIOUS
<1>3. /\ sorting = [by |-> by, list |-> list, tab |-> t, calls |-> calls, busy |-> TRUE]
      /\ by \in {"name", input.by} /\ list \in 0..Len(course.sections) /\ calls # <<>>
  BY <1>1, <1>2, SortingFields DEF BookInv
<1>4. PICK call, rest : call = Last(calls) /\ rest = Front(calls)
  OBVIOUS
<1>5. PICK low, high, d : low = call.low /\ high = call.high /\ d = call.depth + 1
  OBVIOUS
<1>6. PICK p : p = Partition(by, t, low, high)
  OBVIOUS
<1>7. PICK two : two = <<[low |-> p.middle, high |-> high, depth |-> d], [low |-> low, high |-> p.middle, depth |-> d]>>
  OBVIOUS
<1>8. IF low = high THEN sorting' = [sorting EXCEPT !.calls = rest]
      ELSE sorting' = [sorting EXCEPT !.tab = p.tab, !.calls = IF low + 1 = high THEN rest ELSE rest \o two]
  <2>1. /\ sorting.by = by /\ sorting.tab = t /\ Last(sorting.calls) = call /\ Front(sorting.calls) = rest
        /\ Last(sorting.calls).low = low /\ Last(sorting.calls).high = high /\ Last(sorting.calls).depth + 1 = d
    BY <1>2, <1>4, <1>5
  <2> QED
    BY ONLY <1>6, <1>7, <2>1, SortTable DEF SortTable
<1>9. CASE low = high
  <2>1. sorting' = [by |-> by, list |-> list, tab |-> t, calls |-> rest, busy |-> TRUE]
    BY ONLY <1>3, <1>8, <1>9
  <2>2. Ran(by, t, calls, t, rest)
    BY ONLY <1>4, <1>5, <1>9 DEF Ran
  <2> QED
    BY ONLY <1>3, <2>1, <2>2 DEF SortingIs
<1>10. CASE low # high
  <2>1. PICK next : next = IF low + 1 = high THEN rest ELSE rest \o two
    OBVIOUS
  <2>2. PICK u : u = p.tab
    OBVIOUS
  <2>3. sorting' = [sorting EXCEPT !.tab = u, !.calls = next]
    BY ONLY <1>8, <1>10, <2>1, <2>2
  <2>4. sorting' = [by |-> by, list |-> list, tab |-> u, calls |-> next, busy |-> TRUE]
    BY ONLY <1>3, <2>3
  <2>5. Ran(by, t, calls, u, next)
    BY ONLY <1>4, <1>5, <1>6, <1>7, <1>10, <2>1, <2>2 DEF Ran
  <2> QED
    BY ONLY <1>3, <2>4, <2>5 DEF SortingIs
<1> QED
  BY <1>9, <1>10

(* A call of sorttable keeps the entries of the table. *)
LEMMA SortTableKeeps ==
  ASSUME BookInv, SortTable
  PROVE  BookInv'
<1>1. UNCHANGED <<input, course, phase, roster>> /\ \A k : List(k)' = List(k)
  BY DEF SortTable, List, readerVars
<1>2. PICK by, list, t, calls, u, next :
        /\ by \in {"name", input.by} /\ list \in 0..Len(course.sections) /\ calls # <<>>
        /\ SortingIs(by, list, t, calls, TRUE) /\ SortingIs(by, list, u, next, TRUE)'
        /\ Ran(by, t, calls, u, next)
  BY TableSteps
<1>3. sorting.list = list /\ sorting.tab = t /\ sorting.calls = calls /\ sorting.busy = TRUE
  BY <1>2 DEF SortingIs
<1>4. /\ phase \in {"sort", "sortby"} /\ Listed(t) /\ Range(t) = Range(List(list))
      /\ Len(t) = Len(List(list)) /\ Calls(calls, Len(t))
  BY <1>3 DEF BookInv, SortingOK
<1>0. PICK V : V = Range(t)
  OBVIOUS
<1>5. PICK n \in Nat : n = Len(t) /\ V = Range(t) /\ t \in [1..n -> V]
  BY <1>0, <1>4, SeqIsListed DEF Listed
<1>6. u \in [1..n -> V] /\ Range(u) = V /\ Calls(next, n)
  <2>1. Calls(calls, n) /\ calls # <<>> /\ Ran(by, t, calls, u, next)
    BY ONLY <1>2, <1>4, <1>5
  <2>2. n \in Nat /\ t \in [1..n -> V]
    BY <1>5
  <2>3. Improved(by, V, n, t, calls, u, next)
    BY ONLY <2>1, <2>2, CallSorts
  <2> QED
    BY ONLY <1>5, <2>3 DEF Improved
<1>7. u \in Seq(V) /\ Len(u) = n
  BY ONLY <1>5, <1>6
<1>8. Listed(u)
  BY <1>7, SeqIsListed
<1>9. SortingOK'
  <2>1. list \in Nat
    BY <1>2
  <2>2. list \in 0..Len(course'.sections) /\ by \in {"name", input'.by} /\ TRUE \in BOOLEAN
    BY <1>1, <1>2
  <2>3. Range(u) = Range(List(list)') /\ Len(u) = Len(List(list)') /\ phase' \in {"sort", "sortby"} /\ Calls(next, Len(u))
    BY <1>1, <1>4, <1>5, <1>6, <1>7
  <2> QED
    BY <1>2, <1>8, <2>1, <2>2, <2>3, NewSorting
<1> QED
  BY <1>1, <1>9 DEF BookInv

(* The table is the new list. *)
LEMMA RelinkKeeps ==
  ASSUME BookInv, Relink
  PROVE  BookInv'
<1>1. sorting.busy /\ UNCHANGED <<input, phase>>
  BY DEF Relink
<1>2. PICK by, list, t : by = sorting.by /\ list = sorting.list /\ t = sorting.tab
  OBVIOUS
<1>3. /\ sorting = [by |-> by, list |-> list, tab |-> t, calls |-> <<>>, busy |-> TRUE]
      /\ by \in {"name", input.by} /\ list \in Nat
  <2>1. sorting.calls = <<>>
    BY DEF Relink
  <2> QED
    BY <1>1, <1>2, <2>1, SortingFields DEF BookInv
<1>4. Listed(t) /\ Range(t) = Range(List(list)) /\ Len(t) = Len(List(list)) /\ list \in 0..Len(course.sections)
  BY <1>1, <1>2 DEF BookInv, SortingOK
<1>5. SortingOK'
  <2>1. sorting' = [sorting EXCEPT !.busy = FALSE, !.list = @ + 1, !.tab = <<>>]
    BY DEF Relink
  <2>2. PICK l \in Nat : l = list + 1
    BY ONLY <1>3
  <2>3. SortingIs(by, l, <<>>, <<>>, FALSE)'
    BY ONLY <1>3, <2>1, <2>2 DEF SortingIs
  <2>4. by \in {"name", input'.by} /\ ~(<<>> # <<>>) /\ FALSE \in BOOLEAN
    BY <1>1, <1>3
  <2> QED
    BY ONLY <2>3, <2>4, l \in Nat, NewSorting
<1>6. CASE list = 0
  <2>1. roster' = t /\ course' = course
    BY <1>2, <1>6 DEF Relink
  <2> QED
    BY <1>4, <1>5, <2>1 DEF BookInv
<1>7. CASE list # 0
  <2>1. course' = [course EXCEPT !.sections[list].roster = t] /\ roster' = roster
    BY <1>2, <1>7 DEF Relink
  <2>2. PICK X : Shape(course, X)
    BY DEF BookInv, CourseOK
  <2>3. list \in DOMAIN course.sections
    BY <1>3, <1>4, <1>7, <2>2, ShapeParts
  <2>4. PICK r \in Seq(Nat) : r = course.sections[list].roster /\ r = List(list)
    BY <1>7, <2>2, <2>3, ShapeParts DEF List
  <2>5. Range(t) \subseteq Nat
    BY <1>4, <2>4, RangeOfSeq
  <2>6. t \in Seq(Nat)
    BY <1>4, <2>5, SeqGrows DEF Listed
  <2>7. Range(t) = Range(course.sections[list].roster) /\ Len(t) = Len(course.sections[list].roster)
    BY <1>4, <2>4
  <2>8. CourseOK(course')
    BY <2>1, <2>3, <2>6, <2>7, SectionOK DEF BookInv
  <2> QED
    BY <1>5, <2>1, <2>8 DEF BookInv
<1> QED
  BY <1>6, <1>7

(* The first state keeps the lists. *)
LEMMA BookInit == Init => BookInv
<1> SUFFICES ASSUME Init PROVE BookInv
  OBVIOUS
<1>1. course = NoCourse /\ roster = <<>> /\ sorting = Idle
  BY DEF Init
<1>2. Listed(roster)
  <2>1. <<>> \in Seq({})
    OBVIOUS
  <2> QED
    BY <1>1, <2>1, SeqIsListed
<1>3. sorting \in [by : {"name", input.by}, list : Nat, tab : {<<>>}, calls : {<<>>}, busy : BOOLEAN]
  BY <1>1 DEF Idle
<1>4. sorting.calls = <<>> /\ ~sorting.busy
  BY <1>1 DEF Idle
<1>5. SortingOK
  BY <1>3, <1>4 DEF SortingOK
<1> QED
  BY <1>1, <1>2, <1>5, EmptyOK DEF BookInv

(* Every step keeps the lists. *)
LEMMA BookStep ==
  ASSUME BookInv, [Next]_vars
  PROVE  BookInv'
<1>1. CASE UNCHANGED vars
  <2>1. UNCHANGED <<input, course, phase, roster, sorting>> /\ \A k : List(k)' = List(k)
    BY <1>1 DEF vars, readerVars, bookVars, List
  <2>2. SortingOK'
    BY <2>1 DEF BookInv, SortingOK
  <2> QED
    BY <2>1, <2>2 DEF BookInv
<1>2. ASSUME phase \notin {"sort", "sortby"} PROVE ~sorting.busy
  BY <1>2 DEF BookInv, SortingOK
<1>3. ASSUME ~sorting.busy, UNCHANGED <<input, course, roster, sorting>> PROVE BookInv'
  BY <1>3, NotSorting DEF BookInv
<1>4. CASE Options
  BY <1>2, <1>3, <1>4 DEF Options, readerVars
<1>5. CASE Reading
  <2>1. ~sorting.busy /\ UNCHANGED <<roster, sorting>> /\ input' = input
    <3>1. input' = input
      BY <1>5 DEF Reading, Read, ReadCourse, ReadProfessor, ReadAssignment, ReadOption, ReadSection, IncludeFile,
                  ReadAssistant, ReadStudent, ReadScore, ExpectEof, Take, Leave, Fatal
    <3> QED
      BY <1>2, <1>5, <3>1 DEF Reading, bookVars
  <2>2. CourseOK(course')
    BY <1>5, ReadKeeps DEF BookInv, Reading
  <2> QED
    BY <2>1, <2>2, NotSorting DEF BookInv
<1>6. CASE GiveUp
  BY <1>2, <1>3, <1>6 DEF GiveUp, readerVars
<1>7. CASE Statistics
  <2>1. ~sorting.busy /\ UNCHANGED <<input, course, sorting>> /\ roster' = LinkStudents
    BY <1>2, <1>7 DEF Statistics, readerVars
  <2>2. Listed(roster')
    BY <2>1, LinkedAreListed DEF BookInv
  <2> QED
    BY <2>1, <2>2, NotSorting DEF BookInv
<1>8. CASE Normalize
  <2>1. ~sorting.busy /\ UNCHANGED <<input, roster, sorting>>
    BY <1>2, <1>8 DEF Normalize
  <2>2. PICK v : course' = [course EXCEPT !.assignments = v]
    BY <1>8 DEF Normalize
  <2>3. CourseOK(course')
    BY <2>2, HeadOK DEF BookInv
  <2> QED
    BY <2>1, <2>3, NotSorting DEF BookInv
<1>9. CASE Composites
  <2>1. UNCHANGED <<course, roster>> /\ sorting' = Idle
    BY <1>9 DEF Composites, readerVars
  <2> QED
    BY <2>1, IdleOK DEF BookInv
<1>10. CASE SortRoster
  BY <1>10, SortRosterKeeps
<1>11. CASE SortTable
  BY <1>11, SortTableKeeps
<1>12. CASE Relink
  BY <1>12, RelinkKeeps
<1>13. CASE CheckForDups
  <2>1. ~sorting.busy /\ UNCHANGED <<input, course, roster>>
    BY <1>13 DEF CheckForDups, Sorted, readerVars
  <2>2. CASE sorting' = sorting
    BY <1>3, <2>1, <2>2
  <2>3. CASE sorting' # sorting
    <3>1. sorting' = [Idle EXCEPT !.by = input'.by]
      BY <1>13, <2>1, <2>3 DEF CheckForDups
    <3> QED
      BY <2>1, <3>1, IdleOK DEF BookInv
  <2> QED
    BY <2>2, <2>3
<1>14. CASE Collate
  BY <1>2, <1>3, <1>14 DEF Collate, readerVars
<1>15. CASE Report
  BY <1>3, <1>15 DEF Report, Sorted, readerVars
<1>16. CASE FreeCourse
  BY <1>2, <1>3, <1>16 DEF FreeCourse, readerVars
<1>17. CASE RunAgain
  <2>1. course' = NoCourse /\ roster' = <<>> /\ sorting' = Idle
    BY <1>17 DEF RunAgain
  <2>2. Listed(<<>>)
    <3>1. <<>> \in Seq({})
      OBVIOUS
    <3> QED
      BY <3>1, SeqIsListed
  <2> QED
    BY <2>1, <2>2, EmptyOK, IdleOK DEF BookInv
<1> QED
  BY <1>1, <1>4, <1>5, <1>6, <1>7, <1>8, <1>9, <1>10, <1>11, <1>12, <1>13, <1>14, <1>15, <1>16, <1>17 DEF Next

(* Whatever is read, reported or sorted, by whatever key: each section's     *)
(* list has every student of the section once and nobody else (read.c       *)
(* builds it, sort.c links it anew).                                        *)
THEOREM RostersKept == Spec => []SectionsWhole
<1>1. BookInv => SectionsWhole
  BY DEF BookInv, CourseOK, In, SectionsWhole, Sections, Students
<1> QED
  BY <1>1, BookInit, BookStep, PTL DEF Spec

----------------------------------------------------------------------------
(* The order of the rosters *)

(* What sort.c compares is numbers: the key is one of three (main.c), and    *)
(* names, ids and scores have an order.                                     *)
Numbered ==
  /\ input.by \in {"name", "id", "score"}
  /\ \A st \in Students : /\ course.students[st].name \in Int /\ course.students[st].id \in Int
                          /\ composite[st] \in Int

(* The key of each student. *)
KeyOf(by) ==
  [st \in Students |-> IF by = "name" THEN course.students[st].name
                       ELSE IF by = "id" THEN course.students[st].id ELSE -composite[st]]

InKeys(key, list) == \A i, j \in 1..Len(list) : i < j => key[list[i]] <= key[list[j]]

SortPhases == {"sort", "collate", "sortby", "free"}

(* The class roster has no number that is no student's. *)
RosterOK == phase \in SortPhases => Range(roster) \subseteq Students

(* The table that is sorted is in order but for what the calls have to see   *)
(* to; so are the lists that were sorted before.                            *)
TableArranged == sorting.busy => Arranged(KeyOf(sorting.by), sorting.tab, Len(sorting.tab), sorting.calls)
ListsSorted   == \A l \in 0..Len(course.sections) : l < sorting.list => InKeys(KeyOf(sorting.by), List(l))

KeyInv ==
  phase \in SortPhases =>
    /\ phase \in {"sort", "collate"} => sorting.by = "name"
    /\ Numbered => TableArranged /\ ListsSorted /\ DupsNoticed

(* The key of a student is what sort.c compares. *)
LEMMA KeyOrders ==
  ASSUME Numbered, NEW by \in {"name", "id", "score"}
  PROVE  ByKey(by, Students, KeyOf(by)) /\ KeyOf(by) \in [Students -> Int]
<1>1. \A st \in Students : course.students[st].name \in Int /\ course.students[st].id \in Int /\ composite[st] \in Int
  BY DEF Numbered
<1>2. KeyOf(by) \in [Students -> Int]
  BY <1>1 DEF KeyOf
<1>3. ASSUME NEW s \in Students, NEW t \in Students PROVE Compare(by, s, t) = KeyOf(by)[s] - KeyOf(by)[t]
  <2>1. CASE by = "name"
    BY <2>1 DEF KeyOf, Compare
  <2>2. CASE by = "id"
    BY <2>2 DEF KeyOf, Compare
  <2>3. CASE by = "score"
    <3>1. KeyOf(by)[s] = -composite[s] /\ KeyOf(by)[t] = -composite[t] /\ Compare(by, s, t) = composite[t] - composite[s]
      BY <2>3 DEF KeyOf, Compare
    <3> QED
      BY <1>1, <3>1
  <2> QED
    BY <2>1, <2>2, <2>3
<1> QED
  BY <1>2, <1>3 DEF ByKey

(* Sorting changes no key. *)
LEMMA KeysStay ==
  ASSUME BookInv, SortRoster \/ SortTable \/ Relink \/ CheckForDups \/ Collate \/ Report
  PROVE  /\ UNCHANGED <<input, composite>> /\ course'.students = course.students
         /\ Len(course'.sections) = Len(course.sections)
         /\ Numbered' = Numbered /\ \A by : KeyOf(by)' = KeyOf(by)
<1>1. UNCHANGED <<input, composite>> /\ course'.students = course.students /\ Len(course'.sections) = Len(course.sections)
  <2>1. CASE course' = course
    BY <2>1 DEF SortRoster, SortTable, Relink, CheckForDups, Collate, Report, readerVars
  <2>2. CASE course' # course
    <3>1. PICK l, v : course' = [course EXCEPT !.sections[l].roster = v]
      BY <2>2 DEF SortRoster, SortTable, Relink, CheckForDups, Collate, Report, readerVars
    <3>2. PICK X : Shape(course, X)
      BY DEF BookInv, CourseOK
    <3>3. PICK s \in Seq(ASection(X)) : s = course.sections
      BY <3>2, ShapeParts
    <3>4. course'.students = course.students /\ course'.sections = [s EXCEPT ![l].roster = v]
      BY <3>1, <3>2, <3>3 DEF Shape
    <3>5. Len([s EXCEPT ![l].roster = v]) = Len(s)
      OBVIOUS
    <3>6. UNCHANGED <<input, composite>>
      BY DEF SortRoster, SortTable, Relink, CheckForDups, Collate, Report, readerVars
    <3> QED
      BY <3>3, <3>4, <3>5, <3>6
  <2> QED
    BY <2>1, <2>2
<1> QED
  BY <1>1 DEF Numbered, KeyOf, Students

(* What is ordered stays so if nothing it depends on changes. *)
LEMMA OrderStays ==
  ASSUME BookInv, KeyInv, phase' \in SortPhases => phase \in SortPhases,
         phase' \in {"sort", "collate"} => phase \in {"sort", "collate"},
         UNCHANGED <<input, course, roster, composite, sorting, dups>>,
         phase' \in {"collate", "sortby", "free"} => phase \in {"collate", "sortby", "free"}
  PROVE  KeyInv'
<1>1. Numbered' = Numbered /\ \A by : KeyOf(by)' = KeyOf(by)
  BY DEF Numbered, KeyOf, Students
<1>2. \A k : List(k)' = List(k)
  BY DEF List
<1>3. SUFFICES ASSUME phase' \in SortPhases PROVE KeyInv'
  BY DEF KeyInv
<1>4. phase' \in {"sort", "collate"} => sorting'.by = "name"
  BY <1>3 DEF KeyInv
<1>5. ASSUME Numbered' PROVE TableArranged' /\ ListsSorted' /\ DupsNoticed'
  <2>1. TableArranged /\ ListsSorted /\ DupsNoticed
    BY <1>1, <1>3, <1>5 DEF KeyInv
  <2>2. TableArranged'
    BY <1>1, <2>1 DEF TableArranged
  <2>3. ListsSorted'
    BY <1>1, <1>2, <2>1 DEF ListsSorted
  <2>4. \A s, t : Compare("name", s, t)' = Compare("name", s, t)
    BY DEF Compare
  <2>5. DupsNoticed'
    BY <2>1, <2>4 DEF DupsNoticed, Finished
  <2> QED
    BY <2>2, <2>3, <2>5
<1> QED
  BY <1>4, <1>5 DEF KeyInv

(* The lists that were sorted by a step before its last, and the table. *)
LEMMA SortRosterOrders ==
  ASSUME BookInv, KeyInv, SortRoster
  PROVE  KeyInv'
<1>1. /\ phase \in {"sort", "sortby"} /\ ~sorting.busy /\ sorting.list <= Len(course.sections)
      /\ UNCHANGED <<input, course, phase, roster, composite, dups>>
  BY DEF SortRoster, readerVars
<1>2. \A k : List(k)' = List(k)
  BY <1>1 DEF List
<1>3. Numbered' = Numbered /\ \A by : KeyOf(by)' = KeyOf(by)
  BY KeysStay
<1>4. PICK by, list, tab : by = sorting.by /\ list = sorting.list /\ tab = sorting.tab
  OBVIOUS
<1>5. /\ sorting = [by |-> by, list |-> list, tab |-> tab, calls |-> <<>>, busy |-> FALSE]
      /\ by \in {"name", input.by} /\ list \in Nat
  BY <1>1, <1>4, SortingFields DEF BookInv, SortingOK
<1>6. sorting'.by = by
  BY <1>4, <1>5 DEF SortRoster
<1>7. phase \in SortPhases /\ (phase' \in {"sort", "collate"} => sorting'.by = "name")
  BY <1>1, <1>4, <1>6 DEF KeyInv, SortPhases
<1>8. ASSUME Numbered' PROVE TableArranged' /\ ListsSorted' /\ DupsNoticed'
  <2>1. ListsSorted /\ DupsNoticed
    BY <1>3, <1>7, <1>8 DEF KeyInv
  <2>2. DupsNoticed'
    <3>1. \A s, t : Compare("name", s, t)' = Compare("name", s, t)
      BY <1>1 DEF Compare
    <3> QED
      BY <1>1, <2>1, <3>1 DEF DupsNoticed, Finished
  <2>3. CASE List(list) = <<>>
    <3>1. sorting' = [sorting EXCEPT !.list = @ + 1]
      BY <1>4, <2>3 DEF SortRoster
    <3>2. sorting'.list = list + 1 /\ sorting'.busy = FALSE
      BY <1>5, <3>1
    <3>3. ASSUME NEW l \in 0..Len(course.sections), l < list + 1 PROVE InKeys(KeyOf(by), List(l))
      <4>1. CASE l < list
        BY <1>4, <2>1, <4>1 DEF ListsSorted
      <4>2. CASE l = list
        <5>1. Len(List(l)) = 0
          BY <2>3, <4>2
        <5> QED
          BY <5>1 DEF InKeys
      <4> QED
        BY <1>5, <3>3, <4>1, <4>2
    <3> QED
      BY <1>1, <1>2, <1>3, <1>6, <2>2, <3>2, <3>3 DEF TableArranged, ListsSorted
  <2>4. CASE List(list) # <<>>
    <3>1. PICK s : s = List(list)
      OBVIOUS
    <3>2. Listed(s) /\ Len(s) \in Nat
      <4>1. Len(course.sections) \in Nat
        BY ShapeParts DEF BookInv, CourseOK
      <4> QED
        BY <1>1, <1>4, <1>5, <3>1, <4>1, ListsAreListed, SeqIsListed DEF Listed
    <3>3. PICK t, call : t = Reverse(s) /\ call = [low |-> 0, high |-> Len(s), depth |-> 1]
      OBVIOUS
    <3>4. Len(t) = Len(s)
      BY <3>2, <3>3, Reversed
    <3>5. sorting' = [sorting EXCEPT !.busy = TRUE, !.tab = t, !.calls = <<call>>]
      BY <1>4, <2>4, <3>1, <3>3 DEF SortRoster
    <3>6. sorting'.list = list /\ sorting'.tab = t /\ sorting'.calls = <<call>>
      BY <1>5, <3>5
    <3>7. ASSUME NEW i \in 1..Len(t), NEW j \in 1..Len(t) PROVE Waiting(i, j, <<call>>)
      <4>1. call.low = 0 /\ call.high = Len(t)
        BY <3>3, <3>4
      <4>2. Len(<<call>>) = 1 /\ <<call>>[1] = call /\ 1 \in 1..1
        OBVIOUS
      <4> QED
        BY <3>2, <3>4, <4>1, <4>2 DEF Waiting
    <3>8. TableArranged'
      BY <3>6, <3>7 DEF TableArranged, Arranged
    <3>9. ListsSorted'
      BY <1>1, <1>2, <1>3, <1>4, <1>6, <2>1, <3>6 DEF ListsSorted
    <3> QED
      BY <2>2, <3>8, <3>9
  <2> QED
    BY <2>3, <2>4
<1> QED
  BY <1>7, <1>8 DEF KeyInv

(* The lists are of students. *)
LEMMA ListsOfStudents ==
  ASSUME BookInv, RosterOK, phase \in SortPhases, NEW l \in 0..Len(course.sections)
  PROVE  Listed(List(l)) /\ Range(List(l)) \subseteq Students /\ Students \subseteq Nat
<1>1. PICK X : Shape(course, X)
  BY DEF BookInv, CourseOK
<1>2. Students \subseteq Nat
  BY <1>1, ShapeParts DEF Students
<1>3. CASE l = 0
  BY <1>2, <1>3, ListsAreListed DEF List, RosterOK
<1>4. CASE l # 0
  <2>1. l \in DOMAIN course.sections
    BY <1>1, <1>4, ShapeParts
  <2>2. Range(course.sections[l].roster) = In(course, l)
    BY <2>1 DEF BookInv, CourseOK, Whole
  <2> QED
    BY <1>2, <1>4, <2>2, ListsAreListed DEF List, In, Students
<1> QED
  BY <1>3, <1>4

(* The key of the sort is one of the three. *)
LEMMA ByIsKey ==
  ASSUME BookInv, Numbered
  PROVE  sorting.by \in {"name", "id", "score"}
BY SortingFields DEF BookInv, Numbered

(* sorttable leaves the table arranged. *)
LEMMA SortTableOrders ==
  ASSUME BookInv, RosterOK, KeyInv, SortTable
  PROVE  KeyInv'
<1>1. UNCHANGED <<input, course, phase, roster, composite, dups>> /\ \A k : List(k)' = List(k)
  BY DEF SortTable, List, readerVars
<1>2. PICK by, list, t, calls, u, next :
        /\ by \in {"name", input.by} /\ list \in 0..Len(course.sections) /\ calls # <<>>
        /\ SortingIs(by, list, t, calls, TRUE) /\ SortingIs(by, list, u, next, TRUE)'
        /\ Ran(by, t, calls, u, next)
  BY TableSteps
<1>3. /\ sorting.by = by /\ sorting.list = list /\ sorting.tab = t /\ sorting.calls = calls /\ sorting.busy = TRUE
      /\ sorting'.by = by /\ sorting'.list = list /\ sorting'.tab = u /\ sorting'.calls = next
  BY <1>2 DEF SortingIs
<1>4. /\ phase \in {"sort", "sortby"} /\ Listed(t) /\ Range(t) = Range(List(list)) /\ Calls(calls, Len(t))
  BY <1>3 DEF BookInv, SortingOK
<1>5. Numbered' = Numbered /\ \A b : KeyOf(b)' = KeyOf(b)
  BY KeysStay
<1>6. phase \in SortPhases /\ (phase' \in {"sort", "collate"} => sorting'.by = "name")
  BY <1>1, <1>3, <1>4 DEF KeyInv, SortPhases
<1>7. ASSUME Numbered' PROVE TableArranged' /\ ListsSorted' /\ DupsNoticed'
  <2>1. TableArranged /\ ListsSorted /\ DupsNoticed
    BY <1>5, <1>6, <1>7 DEF KeyInv
  <2>2. DupsNoticed'
    <3>1. \A s, v : Compare("name", s, v)' = Compare("name", s, v)
      BY <1>1 DEF Compare
    <3> QED
      BY <1>1, <2>1, <3>1 DEF DupsNoticed, Finished
  <2>3. ListsSorted'
    BY <1>1, <1>3, <1>5, <2>1 DEF ListsSorted
  <2>0. PICK V : V = Students
    OBVIOUS
  <2>4. PICK n \in Nat : n = Len(t) /\ V = Students /\ t \in [1..n -> V]
    <3>1. Range(List(list)) \subseteq Students
      BY <1>2, <1>6, ListsOfStudents
    <3>2. Len(t) \in Nat /\ t \in [1..Len(t) -> Range(t)]
      BY <1>4, SeqIsListed DEF Listed
    <3>3. t \in [1..Len(t) -> Students]
      BY <1>4, <3>1, <3>2
    <3> QED
      BY <2>0, <3>2, <3>3
  <2>5. Improved(by, V, n, t, calls, u, next)
    <3>1. Calls(calls, n) /\ calls # <<>> /\ Ran(by, t, calls, u, next)
      BY ONLY <1>2, <1>4, <2>4
    <3> QED
      BY ONLY <2>4, <3>1, CallSorts
  <2>6. ByKey(by, V, KeyOf(by))
    <3>1. by \in {"name", "id", "score"}
      BY <1>3, <1>5, <1>7, ByIsKey
    <3> QED
      BY <1>5, <1>7, <2>4, <3>1, KeyOrders
  <2>7. Arranged(KeyOf(by), t, n, calls)
    BY <1>3, <2>1, <2>4 DEF TableArranged
  <2>8. Arranged(KeyOf(by), u, n, next) /\ Len(u) = n
    <3>1. u \in [1..n -> V]
      BY ONLY <2>5 DEF Improved
    <3>2. u \in Seq(V) /\ Len(u) = n
      BY ONLY <2>4, <3>1
    <3> QED
      BY ONLY <2>5, <2>6, <2>7, <3>2 DEF Improved
  <2>9. TableArranged'
    BY <1>3, <1>5, <2>8 DEF TableArranged
  <2> QED
    BY <2>2, <2>3, <2>9
<1> QED
  BY <1>6, <1>7 DEF KeyInv

(* Relinked, the list is in order. *)
LEMMA RelinkOrders ==
  ASSUME BookInv, RosterOK, KeyInv, Relink
  PROVE  KeyInv'
<1>1. sorting.busy /\ sorting.calls = <<>> /\ UNCHANGED <<input, phase, composite, dups>>
  BY DEF Relink
<1>2. PICK by, list, t : by = sorting.by /\ list = sorting.list /\ t = sorting.tab
  OBVIOUS
<1>3. /\ sorting = [by |-> by, list |-> list, tab |-> t, calls |-> <<>>, busy |-> TRUE]
      /\ by \in {"name", input.by} /\ list \in Nat
  BY <1>1, <1>2, SortingFields DEF BookInv
<1>4. /\ Listed(t) /\ Range(t) = Range(List(list)) /\ Len(t) = Len(List(list)) /\ list \in 0..Len(course.sections)
      /\ phase \in {"sort", "sortby"}
  BY <1>1, <1>2 DEF BookInv, SortingOK
<1>5. sorting'.by = by /\ sorting'.list = list + 1 /\ sorting'.busy = FALSE
  <2>1. sorting' = [sorting EXCEPT !.busy = FALSE, !.list = @ + 1, !.tab = <<>>]
    BY DEF Relink
  <2> QED
    BY ONLY <1>3, <2>1
<1>6. /\ Numbered' = Numbered /\ \A b : KeyOf(b)' = KeyOf(b)
      /\ course'.students = course.students /\ Len(course'.sections) = Len(course.sections)
  BY KeysStay
<1>7. /\ \A l \in 0..Len(course.sections) : l # list => List(l)' = List(l)
      /\ List(list)' = t
      /\ Range(roster') = Range(roster)
  <2>1. CASE list = 0
    <3>1. roster' = t /\ course' = course
      BY <1>2, <2>1 DEF Relink
    <3> QED
      BY <1>4, <2>1, <3>1 DEF List
  <2>2. CASE list # 0
    <3>1. course' = [course EXCEPT !.sections[list].roster = t] /\ roster' = roster
      BY <1>2, <2>2 DEF Relink
    <3>2. PICK X : Shape(course, X)
      BY DEF BookInv, CourseOK
    <3>3. list \in DOMAIN course.sections /\ DOMAIN course.sections = 1..Len(course.sections)
      BY <1>3, <1>4, <2>2, <3>2, ShapeParts
    <3>4. PICK s \in Seq(ASection(X)) : s = course.sections
      BY <3>2, ShapeParts
    <3>5. course'.sections = [s EXCEPT ![list].roster = t]
      BY <3>1, <3>2, <3>4 DEF Shape
    <3>6. course'.sections[list].roster = t
      <4>1. s[list] \in ASection(X)
        BY <3>3, <3>4
      <4>2. [s[list] EXCEPT !.roster = t].roster = t
        BY ONLY <4>1 DEF ASection
      <4> QED
        BY <3>3, <3>4, <3>5, <4>2
    <3>7. \A l \in DOMAIN s : l # list => course'.sections[l] = s[l]
      BY <3>5
    <3>8. ASSUME NEW l \in 0..Len(course.sections), l # list PROVE List(l)' = List(l)
      <4>1. CASE l = 0
        BY <3>1, <4>1 DEF List
      <4>2. CASE l # 0
        <5>1. l \in DOMAIN s
          BY <3>3, <3>4, <4>2, <3>2, ShapeParts
        <5> QED
          BY <3>4, <3>7, <3>8, <4>2, <5>1 DEF List
      <4> QED
        BY <4>1, <4>2
    <3> QED
      BY <2>2, <3>1, <3>6, <3>8 DEF List
  <2> QED
    BY <2>1, <2>2
<1>8. phase \in SortPhases /\ (phase' \in {"sort", "collate"} => sorting'.by = "name")
  BY <1>1, <1>2, <1>4, <1>5 DEF KeyInv, SortPhases
<1>9. ASSUME Numbered' PROVE TableArranged' /\ ListsSorted' /\ DupsNoticed'
  <2>1. TableArranged /\ ListsSorted /\ DupsNoticed
    BY <1>6, <1>8, <1>9 DEF KeyInv
  <2>2. DupsNoticed'
    <3>1. \A s, v : Compare("name", s, v)' = Compare("name", s, v)
      BY <1>1, <1>6 DEF Compare
    <3> QED
      BY <1>1, <1>7, <2>1, <3>1 DEF DupsNoticed, Finished
  <2>3. InKeys(KeyOf(by), t)
    <3>1. Arranged(KeyOf(by), t, Len(t), <<>>)
      BY <1>1, <1>2, <2>1 DEF TableArranged
    <3>2. \A i, j : ~Waiting(i, j, <<>>)
      BY DEF Waiting
    <3> QED
      BY <3>1, <3>2 DEF Arranged, InKeys
  <2>4. ASSUME NEW l \in 0..Len(course'.sections), l < list + 1 PROVE InKeys(KeyOf(by)', List(l)')
    <3>1. l \in 0..Len(course.sections)
      BY <1>6
    <3>2. CASE l = list
      BY <1>6, <1>7, <2>3, <3>2
    <3>3. CASE l # list
      <4>1. l < list
        BY <1>3, <2>4, <3>3
      <4> QED
        BY <1>2, <1>6, <1>7, <2>1, <3>1, <3>3, <4>1 DEF ListsSorted
    <3> QED
      BY <3>2, <3>3
  <2>5. ListsSorted'
    BY <1>5, <2>4 DEF ListsSorted
  <2> QED
    BY <1>5, <2>2, <2>5 DEF TableArranged
<1> QED
  BY <1>8, <1>9 DEF KeyInv

(* The neighbours of one name are all that checkfordups looks at. *)
LEMMA NeighboursTell ==
  ASSUME NEW key, NEW V, NEW list, Listed(list), Range(list) \subseteq V, key \in [V -> Int], InKeys(key, list),
         NEW i \in 1..Len(list), NEW j \in 1..Len(list), i < j, key[list[i]] = key[list[j]]
  PROVE  i \in 1..(Len(list) - 1) /\ key[list[i]] = key[list[i + 1]] /\ list[i] \in V /\ list[i + 1] \in V
<1>1. Len(list) \in Nat /\ list \in [1..Len(list) -> Range(list)]
  BY SeqIsListed DEF Listed
<1>2. i \in 1..(Len(list) - 1) /\ i + 1 \in 1..Len(list) /\ (i + 1 = j \/ i + 1 < j)
  BY ONLY <1>1, i < j, i \in 1..Len(list), j \in 1..Len(list)
<1>3. PICK k \in 1..Len(list) : k = i + 1
  BY <1>2
<1>4. list[i] \in V /\ list[j] \in V /\ list[k] \in V
  BY <1>1
<1>5. key[list[i]] <= key[list[k]] /\ (k = j \/ key[list[k]] <= key[list[j]])
  BY <1>2, <1>3 DEF InKeys
<1>6. key[list[i]] \in Int /\ key[list[j]] \in Int /\ key[list[k]] \in Int
  BY <1>4
<1>7. key[list[i]] = key[list[k]]
  <2>1. CASE k = j
    BY <2>1
  <2>2. CASE k # j
    BY ONLY <1>5, <1>6, <2>2, key[list[i]] = key[list[j]]
  <2> QED
    BY <2>1, <2>2
<1> QED
  BY <1>2, <1>3, <1>4, <1>7

(* checkfordups notices any two of one name, once the roster is sorted by name. *)
LEMMA CheckNotices ==
  ASSUME BookInv, RosterOK, KeyInv, Numbered, CheckForDups
  PROVE  DupsNoticed'
<1>1. /\ phase = "sort" /\ ~sorting.busy /\ sorting.list > Len(course.sections)
      /\ UNCHANGED <<input, course, roster, composite>>
      /\ dups' = {roster[k] : k \in {i \in 1..Len(roster) - 1 : Compare("name", roster[i], roster[i + 1]) = 0}}
  BY DEF CheckForDups, Sorted, readerVars
<1>2. phase \in SortPhases /\ sorting.by = "name" /\ ListsSorted
  BY <1>1 DEF KeyInv, SortPhases
<1>3. 0 \in 0..Len(course.sections) /\ 0 < sorting.list /\ List(0) = roster
  <2>1. Len(course.sections) \in Nat
    BY ShapeParts DEF BookInv, CourseOK
  <2>2. sorting.list \in Nat
    BY SortingFields DEF BookInv
  <2> QED
    BY <1>1, <2>1, <2>2 DEF List
<1>4. PICK key : key = KeyOf("name")
  OBVIOUS
<1>5. InKeys(key, roster)
  BY <1>2, <1>3, <1>4 DEF ListsSorted
<1>6. Listed(roster) /\ Range(roster) \subseteq Students
  BY <1>2, <1>3, ListsOfStudents
<1>7. key \in [Students -> Int] /\ \A s, t \in Students : Compare("name", s, t) = key[s] - key[t]
  BY <1>4, KeyOrders DEF ByKey
<1>8. Len(roster) \in Nat /\ roster \in [1..Len(roster) -> Range(roster)] /\ Range(roster) = {roster[i] : i \in 1..Len(roster)}
  BY <1>6, SeqIsListed DEF Listed
<1>9. ASSUME NEW i \in 1..Len(roster), NEW j \in 1..Len(roster), i < j, key[roster[i]] = key[roster[j]]
      PROVE  roster[i] \in dups'
  <2>1. i \in 1..(Len(roster) - 1) /\ key[roster[i]] = key[roster[i + 1]] /\ roster[i] \in Students /\ roster[i + 1] \in Students
    BY ONLY <1>5, <1>6, <1>7, <1>9, NeighboursTell
  <2>2. Compare("name", roster[i], roster[i + 1]) = 0
    <3>1. Compare("name", roster[i], roster[i + 1]) = key[roster[i]] - key[roster[i + 1]]
      BY <1>7, <2>1
    <3>2. key[roster[i]] \in Int
      BY <1>7, <2>1
    <3> QED
      BY ONLY <2>1, <3>1, <3>2
  <2> QED
    BY <1>1, <2>1, <2>2
<1>10. ASSUME NEW s \in Range(roster), NEW t \in Range(roster), s # t, Compare("name", s, t) = 0
       PROVE  s \in dups' \/ t \in dups'
  <2>1. PICK i \in 1..Len(roster) : s = roster[i]
    BY <1>8
  <2>2. PICK j \in 1..Len(roster) : t = roster[j]
    BY <1>8
  <2>3. key[s] = key[t]
    <3>1. s \in Students /\ t \in Students
      BY <1>6
    <3>2. key[s] \in Int /\ key[t] \in Int /\ key[s] - key[t] = 0
      BY <1>7, <1>10, <3>1
    <3> QED
      BY ONLY <3>2
  <2>4. i < j \/ j < i
    BY <1>8, <1>10, <2>1, <2>2
  <2> QED
    BY <1>9, <2>1, <2>2, <2>3, <2>4
<1>11. \A s, t : Compare("name", s, t)' = Compare("name", s, t)
  BY <1>1 DEF Compare
<1> QED
  BY <1>1, <1>10, <1>11 DEF DupsNoticed

(* checkfordups begins the next sort when the last one is finished. *)
LEMMA CheckOrders ==
  ASSUME BookInv, RosterOK, KeyInv, CheckForDups
  PROVE  KeyInv'
<1>1. /\ phase = "sort" /\ ~sorting.busy /\ UNCHANGED <<course, roster>>
      /\ \/ phase' = "collate" /\ sorting' = sorting
         \/ phase' = "sortby" /\ sorting' = [Idle EXCEPT !.by = input.by]
  BY DEF CheckForDups, Sorted, readerVars
<1>2. Numbered' = Numbered /\ \A b : KeyOf(b)' = KeyOf(b)
  BY KeysStay
<1>3. phase \in SortPhases /\ sorting.by = "name"
  BY <1>1 DEF KeyInv, SortPhases
<1>4. phase' \in {"sort", "collate"} => sorting'.by = "name"
  BY <1>1, <1>3
<1>5. ASSUME Numbered' PROVE TableArranged' /\ ListsSorted' /\ DupsNoticed'
  <2>1. DupsNoticed'
    BY <1>2, <1>5, CheckNotices
  <2>2. CASE sorting' = sorting
    <3>1. ListsSorted
      BY <1>2, <1>3, <1>5 DEF KeyInv
    <3>2. \A k : List(k)' = List(k)
      BY <1>1 DEF List
    <3> QED
      BY <1>1, <1>2, <2>1, <2>2, <3>1, <3>2 DEF TableArranged, ListsSorted
  <2>3. CASE sorting' = [Idle EXCEPT !.by = input.by]
    <3>1. sorting'.list = 0 /\ sorting'.busy = FALSE
      BY <2>3 DEF Idle
    <3> QED
      BY <2>1, <3>1 DEF TableArranged, ListsSorted
  <2> QED
    BY <1>1, <2>2, <2>3
<1> QED
  BY <1>4, <1>5 DEF KeyInv

(* Nothing is sorted in the first state. *)
LEMMA KeyInit == Init => KeyInv
BY DEF Init, KeyInv, SortPhases

(* Every step keeps what is sorted in order. *)
LEMMA KeyStep ==
  ASSUME BookInv, RosterOK, KeyInv, [Next]_vars
  PROVE  KeyInv'
<1>1. ASSUME phase' \notin SortPhases PROVE KeyInv'
  BY <1>1 DEF KeyInv
<1>2. CASE Options \/ Reading \/ GiveUp \/ Statistics \/ Normalize \/ FreeCourse \/ RunAgain
  <2>1. phase' \notin SortPhases
    BY <1>2 DEF Options, Reading, GiveUp, Statistics, Normalize, FreeCourse, RunAgain, bookVars, SortPhases
  <2> QED
    BY <1>1, <2>1
<1>3. CASE Composites
  <2>1. phase' = "sort" /\ sorting' = Idle
    BY <1>3 DEF Composites
  <2>2. sorting'.by = "name" /\ sorting'.list = 0 /\ sorting'.busy = FALSE
    BY <2>1 DEF Idle
  <2> QED
    BY <2>1, <2>2 DEF KeyInv, TableArranged, ListsSorted, DupsNoticed, Finished
<1>4. CASE Collate \/ Report \/ UNCHANGED vars
  <2>1. /\ UNCHANGED <<input, course, roster, composite, sorting, dups>>
        /\ phase' = phase \/ (phase \in {"collate", "sortby"} /\ phase' = "free")
    BY <1>4 DEF Collate, Report, vars, readerVars, bookVars
  <2> QED
    BY <2>1, OrderStays DEF SortPhases
<1>5. CASE SortRoster
  BY <1>5, SortRosterOrders
<1>6. CASE SortTable
  BY <1>6, SortTableOrders
<1>7. CASE Relink
  BY <1>7, RelinkOrders
<1>8. CASE CheckForDups
  BY <1>8, CheckOrders
<1> QED
  BY <1>2, <1>3, <1>4, <1>5, <1>6, <1>7, <1>8 DEF Next

(* In a finished sort every list is in the order of the key. *)
LEMMA KeyedAreOrdered ==
  ASSUME BookInv, RosterOK, KeyInv, Numbered
  PROVE  InKeyOrder /\ DupsNoticed
<1>1. CASE ~Finished
  BY <1>1 DEF InKeyOrder, DupsNoticed
<1>2. CASE Finished
  <2>1. phase \in SortPhases /\ ListsSorted /\ DupsNoticed
    BY <1>2 DEF Finished, SortPhases, KeyInv
  <2>2. ASSUME Sorted, NEW l \in 0..Len(course.sections) PROVE InOrder(sorting.by, List(l))
    <3>1. l < sorting.list
      <4>1. sorting.list \in Nat /\ Len(course.sections) \in Nat
        BY SortingFields, ShapeParts DEF BookInv, CourseOK
      <4> QED
        BY <2>2, <4>1 DEF Sorted
    <3>2. PICK key, list : key = KeyOf(sorting.by) /\ list = List(l)
      OBVIOUS
    <3>3. InKeys(key, list)
      BY <2>1, <3>1, <3>2 DEF ListsSorted
    <3>4. Listed(list) /\ Range(list) \subseteq Students
      BY <2>1, <3>2, ListsOfStudents
    <3>5. key \in [Students -> Int] /\ \A s, t \in Students : Compare(sorting.by, s, t) = key[s] - key[t]
      BY <3>2, ByIsKey, KeyOrders DEF ByKey
    <3>6. Len(list) \in Nat /\ list \in [1..Len(list) -> Students]
      BY <3>4, SeqIsListed DEF Listed
    <3>7. ASSUME NEW i \in 1..(Len(list) - 1) PROVE Compare(sorting.by, list[i], list[i + 1]) <= 0
      <4>1. PICK j \in 1..Len(list) : j = i + 1 /\ i \in 1..Len(list) /\ i < j
        BY <3>6
      <4>2. key[list[i]] <= key[list[j]]
        BY <3>3, <4>1 DEF InKeys
      <4>3. list[i] \in Students /\ list[j] \in Students
        BY <3>6, <4>1
      <4>4. key[list[i]] \in Int /\ key[list[j]] \in Int /\ Compare(sorting.by, list[i], list[j]) = key[list[i]] - key[list[j]]
        BY <3>5, <4>3
      <4>5. Compare(sorting.by, list[i], list[j]) <= 0
        BY ONLY <4>2, <4>4
      <4> QED
        BY <4>1, <4>5
    <3> QED
      BY <3>2, <3>7 DEF InOrder
  <2> QED
    BY <2>1, <2>2 DEF InKeyOrder
<1> QED
  BY <1>1, <1>2

----------------------------------------------------------------------------
(* Folds *)

(* The greatest of a set of numbers that its greatest is in. *)
LEMMA MaxIs ==
  ASSUME NEW s \in SUBSET Nat, NEW m \in s, \A x \in s : x <= m
  PROVE  Max(s) = m
<1>1. \A x \in s : m >= x
  OBVIOUS
<1>2. PICK g : g = Max(s)
  OBVIOUS
<1>3. g \in s /\ \A x \in s : g >= x
  BY <1>1, <1>2 DEF Max
<1>4. g >= m /\ g <= m /\ g \in Nat /\ m \in Nat
  BY <1>3
<1> QED
  BY <1>2, <1>4

(* A set of numbers up to n that is not empty has a greatest. *)
LEMMA MaxThere ==
  ASSUME NEW n \in Nat, NEW s \in SUBSET (1..n), s # {}
  PROVE  Max(s) \in s /\ Max(s) \in 1..n /\ s \ {Max(s)} \in SUBSET (1..n) /\ \A x \in s : x <= Max(s)
<1>1. \E m \in s : \A x \in s : m >= x
  <2>1. PICK T : T = {n - x : x \in s}
    OBVIOUS
  <2>2. T \in SUBSET Nat /\ T # {}
    <3>1. \A x \in s : x \in Nat /\ n - x \in Nat
      OBVIOUS
    <3>2. \E x \in s : n - x \in T
      BY <2>1
    <3> QED
      BY <2>1, <3>1, <3>2
  <2>3. PICK m \in T : \A y \in T : m <= y
    BY <2>2, LeastNumber
  <2>4. PICK x \in s : m = n - x
    BY <2>1
  <2>5. ASSUME NEW y \in s PROVE x >= y
    <3>1. n - x <= n - y
      BY <2>1, <2>3, <2>4
    <3>2. x \in 1..n /\ y \in 1..n
      OBVIOUS
    <3> QED
      BY <3>1, <3>2
  <2> QED
    BY <2>5
<1>2. PICK g : g = Max(s)
  OBVIOUS
<1>3. g \in s /\ \A x \in s : g >= x
  BY <1>1, <1>2 DEF Max
<1> QED
  BY <1>2, <1>3

(* What FoldLeft computes for each part of the sequence gs. *)
Folds(it, n, base, step, gs) ==
  it = [s \in SUBSET (1..n) |-> IF s = {} THEN base ELSE step[<<it[s \ {Max(s)}], gs[Max(s)]>>]]

(* Its recursion has a solution, whatever the sequence. *)
LEMMA FoldExists ==
  ASSUME NEW V, NEW S, NEW n \in Nat, NEW gs \in [1..n -> S], NEW base \in V, NEW step \in [V \X S -> V]
  PROVE  \E it \in [SUBSET (1..n) -> V] : Folds(it, n, base, step, gs)
<1> DEFINE Has(m) == \E it \in [SUBSET (1..m) -> V] : Folds(it, m, base, step, gs)
<1> PICK D : D = {m \in 0..n : Has(m)}
  OBVIOUS
<1> HIDE DEF Has
<1>1. 0 \in D
  <2>1. PICK it : it = [s \in SUBSET (1..0) |-> base]
    OBVIOUS
  <2>2. \A s \in SUBSET (1..0) : s = {}
    OBVIOUS
  <2>3. it \in [SUBSET (1..0) -> V] /\ Folds(it, 0, base, step, gs)
    BY <2>1, <2>2 DEF Folds
  <2>4. Has(0) /\ 0 \in 0..n
    BY <2>3 DEF Has
  <2> QED
    BY <2>4
<1>2. ASSUME NEW m \in 0..(n - 1), m \in D PROVE m + 1 \in D
  <2>1. PICK it \in [SUBSET (1..m) -> V] : Folds(it, m, base, step, gs)
    <3>1. Has(m)
      BY <1>2
    <3> QED
      BY <3>1 DEF Has
  <2>2. PICK k \in 1..n : k = m + 1
    OBVIOUS
  <2>3. PICK f : f = [s \in SUBSET (1..k) |-> IF k \in s THEN step[<<it[s \ {k}], gs[k]>>] ELSE it[s]]
    OBVIOUS
  <2>4. \A s \in SUBSET (1..k) : s \ {k} \in SUBSET (1..m) /\ (k \notin s => s \in SUBSET (1..m))
    <3>1. \A x \in 1..k : x # k => x \in 1..m
      BY ONLY <2>2, m \in 0..(n - 1), n \in Nat
    <3> QED
      BY ONLY <3>1
  <2>5. gs[k] \in S
    OBVIOUS
  <2>6. f \in [SUBSET (1..k) -> V]
    <3>1. ASSUME NEW s \in SUBSET (1..k) PROVE f[s] \in V
      <4>1. CASE k \in s
        <5>1. <<it[s \ {k}], gs[k]>> \in V \X S
          BY <2>1, <2>4, <2>5
        <5>2. step[<<it[s \ {k}], gs[k]>>] \in V
          BY <5>1
        <5> QED
          BY <2>3, <4>1, <5>2
      <4>2. CASE k \notin s
        BY <2>1, <2>3, <2>4, <4>2
      <4> QED
        BY <4>1, <4>2
    <3> QED
      BY <2>3, <3>1
  <2>7. ASSUME NEW s \in SUBSET (1..k)
        PROVE  f[s] = IF s = {} THEN base ELSE step[<<f[s \ {Max(s)}], gs[Max(s)]>>]
    <3>1. CASE s = {}
      <4>1. k \notin s /\ s \in SUBSET (1..m)
        BY <3>1
      <4>2. f[s] = it[s] /\ it[s] = base
        BY <2>1, <2>3, <3>1, <4>1 DEF Folds
      <4> QED
        BY <3>1, <4>2
    <3>2. CASE k \in s
      <4>1. Max(s) = k
        <5>1. s \in SUBSET Nat /\ \A x \in s : x <= k
          OBVIOUS
        <5> QED
          BY <3>2, <5>1, MaxIs
      <4>2. k \notin s \ {k} /\ s \ {k} \in SUBSET (1..k)
        OBVIOUS
      <4>3. f[s \ {k}] = it[s \ {k}]
        BY <2>3, <4>2
      <4>4. f[s] = step[<<it[s \ {k}], gs[k]>>]
        BY <2>3, <3>2
      <4> QED
        BY <3>2, <4>1, <4>3, <4>4
    <3>3. CASE s # {} /\ k \notin s
      <4>1. s \in SUBSET (1..m) /\ f[s] = it[s]
        BY <2>3, <2>4, <3>3
      <4>2. it[s] = step[<<it[s \ {Max(s)}], gs[Max(s)]>>]
        BY <2>1, <3>3, <4>1 DEF Folds
      <4>3. PICK r : r = s \ {Max(s)}
        OBVIOUS
      <4>4. r \in SUBSET (1..k) /\ k \notin r
        BY <3>3, <4>3
      <4>5. f[r] = it[r]
        BY <2>3, <4>4
      <4> QED
        BY <3>3, <4>1, <4>2, <4>3, <4>5
    <3> QED
      BY <3>1, <3>2, <3>3
  <2>8. Folds(f, k, base, step, gs)
    BY <2>3, <2>7 DEF Folds
  <2>9. Has(k)
    BY <2>6, <2>8 DEF Has
  <2> QED
    BY <2>2, <2>9
<1>3. n \in D
  <2>1. \A m \in 0..n : m \in D
    BY ONLY <1>1, <1>2, n \in Nat, UpTo
  <2> QED
    BY <2>1
<1>4. Has(n)
  BY <1>3
<1> QED
  BY <1>4 DEF Has

(* The parts that matter are the first k of a sequence. *)
LEMMA FirstParts ==
  ASSUME NEW n \in Nat, NEW k \in 1..n
  PROVE  /\ 1..k \in SUBSET (1..n) /\ 1..k # {} /\ Max(1..k) = k
         /\ (1..k) \ {k} = 1..(k - 1) /\ 1..(k - 1) \in SUBSET (1..n) /\ 1..0 = {} /\ {} \in SUBSET (1..n)
<1>1. k \in 1..k /\ 1..k \in SUBSET Nat /\ \A x \in 1..k : x <= k
  OBVIOUS
<1>2. Max(1..k) = k
  BY <1>1, MaxIs
<1> QED
  BY <1>1, <1>2

(* Concat joins one sequence after the other. *)
Joined(p, seqs, n, S) ==
  p \in [0..n -> Seq(S)] /\ p[0] = <<>> /\ \A k \in 1..n : p[k] = p[k - 1] \o seqs[k]

(* Concat is the last of those joined sequences. *)
LEMMA ConcatJoins ==
  ASSUME NEW S, NEW n \in Nat, NEW seqs \in [1..n -> Seq(S)]
  PROVE  \E p : Joined(p, seqs, n, S) /\ Concat(seqs) = p[n]
<1> DEFINE I == CHOOSE it : it = [s \in SUBSET DOMAIN seqs |-> IF s = {} THEN <<>> ELSE it[s \ {Max(s)}] \o seqs[Max(s)]]
<1>1. Concat(seqs) = I[DOMAIN seqs]
  BY DEF Concat, FoldLeft, MapThenFoldSet
<1>2. PICK step : step = [x \in Seq(S) \X Seq(S) |-> x[1] \o x[2]]
  OBVIOUS
<1>3. step \in [Seq(S) \X Seq(S) -> Seq(S)] /\ \A x, y \in Seq(S) : step[<<x, y>>] = x \o y /\ x \o y \in Seq(S)
  <2>1. \A x \in Seq(S) \X Seq(S) : x[1] \in Seq(S) /\ x[2] \in Seq(S)
    OBVIOUS
  <2>2. \A x, y \in Seq(S) : x \o y \in Seq(S)
    OBVIOUS
  <2>3. step \in [Seq(S) \X Seq(S) -> Seq(S)]
    BY <1>2, <2>1, <2>2
  <2>4. ASSUME NEW x \in Seq(S), NEW y \in Seq(S) PROVE step[<<x, y>>] = x \o y
    <3>1. <<x, y>> \in Seq(S) \X Seq(S)
      OBVIOUS
    <3> QED
      BY <1>2, <3>1
  <2> QED
    BY <2>2, <2>3, <2>4
<1>4. PICK it \in [SUBSET (1..n) -> Seq(S)] : Folds(it, n, <<>>, step, seqs)
  <2>1. <<>> \in Seq(S)
    OBVIOUS
  <2> QED
    BY ONLY <1>3, <2>1, n \in Nat, seqs \in [1..n -> Seq(S)], FoldExists
<1>5. it = [s \in SUBSET (1..n) |-> IF s = {} THEN <<>> ELSE it[s \ {Max(s)}] \o seqs[Max(s)]]
  <2>1. ASSUME NEW s \in SUBSET (1..n), s # {} PROVE it[s] = it[s \ {Max(s)}] \o seqs[Max(s)]
    <3>1. Max(s) \in 1..n /\ s \ {Max(s)} \in SUBSET (1..n)
      BY <2>1, MaxThere
    <3>2. it[s \ {Max(s)}] \in Seq(S) /\ seqs[Max(s)] \in Seq(S)
      BY <3>1
    <3>3. it[s] = step[<<it[s \ {Max(s)}], seqs[Max(s)]>>]
      BY <1>4, <2>1 DEF Folds
    <3> QED
      BY <1>3, <3>2, <3>3
  <2>2. ASSUME NEW s \in SUBSET (1..n), s = {} PROVE it[s] = <<>>
    BY <1>4, <2>2 DEF Folds
  <2>3. it = [s \in SUBSET (1..n) |-> it[s]]
    OBVIOUS
  <2> QED
    BY <2>1, <2>2, <2>3
<1>6. I = [s \in SUBSET (1..n) |-> IF s = {} THEN <<>> ELSE I[s \ {Max(s)}] \o seqs[Max(s)]]
  <2>1. DOMAIN seqs = 1..n
    OBVIOUS
  <2> QED
    BY <1>5, <2>1
<1> HIDE DEF I
<1>7. PICK p : p = [k \in 0..n |-> I[1..k]]
  OBVIOUS
<1>8. p[0] = <<>> /\ p[n] = Concat(seqs)
  <2>1. 1..0 = {} /\ {} \in SUBSET (1..n) /\ 0 \in 0..n /\ n \in 0..n /\ DOMAIN seqs = 1..n
    OBVIOUS
  <2> QED
    BY <1>1, <1>6, <1>7, <2>1
<1>9. ASSUME NEW k \in 1..n PROVE p[k] = p[k - 1] \o seqs[k]
  <2>1. k \in 0..n /\ k - 1 \in 0..n
    OBVIOUS
  <2>2. p[k] = I[1..k] /\ p[k - 1] = I[1..(k - 1)]
    BY <1>7, <2>1
  <2>3. PICK s \in SUBSET (1..n) : s = 1..k /\ s # {} /\ Max(s) = k /\ s \ {k} = 1..(k - 1)
    BY FirstParts
  <2>4. I[s] = I[s \ {Max(s)}] \o seqs[Max(s)]
    BY <1>6, <2>3
  <2> QED
    BY <2>2, <2>3, <2>4
<1>10. \A k \in 0..n : p[k] \in Seq(S)
  <2>1. PICK D : D = {k \in 0..n : p[k] \in Seq(S)}
    OBVIOUS
  <2>2. 0 \in D
    <3>1. <<>> \in Seq(S) /\ 0 \in 0..n
      OBVIOUS
    <3> QED
      BY <1>8, <2>1, <3>1
  <2>3. ASSUME NEW k \in 0..(n - 1), k \in D PROVE k + 1 \in D
    <3>1. k + 1 \in 1..n /\ (k + 1) - 1 = k
      OBVIOUS
    <3>2. p[k + 1] = p[k] \o seqs[k + 1] /\ seqs[k + 1] \in Seq(S) /\ p[k] \in Seq(S)
      BY <1>9, <2>1, <2>3, <3>1
    <3>3. p[k + 1] \in Seq(S)
      BY <1>3, <3>2
    <3> QED
      BY <2>1, <3>1, <3>3
  <2>4. \A k \in 0..n : k \in D
    BY <2>2, <2>3, UpTo
  <2> QED
    BY <2>1, <2>4
<1> QED
  BY <1>7, <1>8, <1>9, <1>10 DEF Joined

----------------------------------------------------------------------------
(* The class roster *)

(* A list that is as long as it has different members has none of them twice. *)
LEMMA OnceEach ==
  ASSUME NEW X, NEW list \in Seq(X), Whole(list, X)
  PROVE  /\ Len(list) \in Nat /\ list \in [1..Len(list) -> X]
         /\ \A i, j \in 1..Len(list) : i # j => list[i] # list[j]
<1>1. Len(list) \in Nat /\ list \in [1..Len(list) -> X] /\ Range(list) = X /\ Len(list) = Cardinality(X)
      /\ Range(list) = {list[i] : i \in 1..Len(list)}
  BY SeqIsListed, LenProperties DEF Whole
<1>2. PICK n \in Nat : n = Len(list)
  BY <1>1
<1>3. IsFiniteSet(1..n) /\ Cardinality(1..n) = n
  <2>1. 1 \in Int /\ n \in Int
    OBVIOUS
  <2>2. IsFiniteSet(1..n) /\ Cardinality(1..n) = IF 1 > n THEN 0 ELSE n - 1 + 1
    BY ONLY <2>1, FS_Interval
  <2> QED
    BY <2>2
<1>4. list \in Surjection(1..n, X)
  BY <1>1, <1>2 DEF Surjection
<1>5. list \in Injection(1..n, X)
  BY <1>1, <1>2, <1>3, <1>4, FS_SurjSameCardinalityImpliesInj
<1> QED
  BY <1>1, <1>2, <1>5 DEF Injection, IsInjective

(* The rosters of all sections, one after the other. *)
ClassOf(c) == Concat([s \in DOMAIN c.sections |-> c.sections[s].roster])

(* Two lists without a member in common. *)
LEMMA JoinedWhole ==
  ASSUME NEW S, NEW a \in Seq(S), NEW b \in Seq(S), NEW A, NEW B, IsFiniteSet(A), IsFiniteSet(B),
         Whole(a, A), Whole(b, B), A \cap B = {}
  PROVE  Whole(a \o b, A \cup B)
<1>1. PICK c : c = a \o b
  OBVIOUS
<1>2. /\ Len(a) \in Nat /\ Len(b) \in Nat /\ c \in Seq(S) /\ Len(c) = Len(a) + Len(b)
      /\ \A i \in 1..Len(c) : c[i] = IF i <= Len(a) THEN a[i] ELSE b[i - Len(a)]
  BY <1>1
<1>3. /\ Range(a) = {a[i] : i \in 1..Len(a)} /\ Range(b) = {b[i] : i \in 1..Len(b)}
      /\ Range(c) = {c[i] : i \in 1..Len(c)}
  BY <1>2, SeqIsListed
<1>4. ASSUME NEW x \in Range(c) PROVE x \in Range(a) \cup Range(b)
  <2>1. PICK i \in 1..Len(c) : x = c[i]
    BY <1>3
  <2>2. CASE i <= Len(a)
    BY <1>2, <1>3, <2>1, <2>2
  <2>3. CASE ~(i <= Len(a))
    <3>1. PICK j \in 1..Len(b) : j = i - Len(a)
      BY <1>2, <2>3
    <3> QED
      BY <1>2, <1>3, <2>1, <2>3, <3>1
  <2> QED
    BY <2>2, <2>3
<1>5. ASSUME NEW x \in Range(a) PROVE x \in Range(c)
  <2>1. PICK i \in 1..Len(a) : x = a[i]
    BY <1>3
  <2>2. i \in 1..Len(c) /\ c[i] = x
    BY <1>2, <2>1
  <2> QED
    BY <1>3, <2>2
<1>6. ASSUME NEW x \in Range(b) PROVE x \in Range(c)
  <2>1. PICK i \in 1..Len(b) : x = b[i]
    BY <1>3
  <2>2. PICK j \in 1..Len(c) : j = i + Len(a) /\ ~(j <= Len(a)) /\ j - Len(a) = i
    <3>1. i + Len(a) \in 1..Len(c) /\ ~(i + Len(a) <= Len(a)) /\ (i + Len(a)) - Len(a) = i
      BY ONLY <1>2, i \in 1..Len(b)
    <3> QED
      BY ONLY <3>1
  <2>3. c[j] = x
    BY <1>2, <2>1, <2>2
  <2> QED
    BY <1>3, <2>3
<1>7. Range(c) = A \cup B
  BY <1>4, <1>5, <1>6 DEF Whole
<1>8. Cardinality(A \cup B) = Cardinality(A) + Cardinality(B)
  <2>1. Cardinality(A \cup B) = Cardinality(A) + Cardinality(B) - Cardinality(A \cap B)
    BY FS_Union
  <2>2. Cardinality(A \cap B) = 0
    BY FS_EmptySet
  <2>3. Cardinality(A) \in Nat /\ Cardinality(B) \in Nat
    BY FS_CardinalityType
  <2> QED
    BY <2>1, <2>2, <2>3
<1> QED
  BY <1>1, <1>2, <1>7, <1>8 DEF Whole

(* Each student of a section is in it once. *)
LEMMA ClassIsWhole ==
  ASSUME NEW c, CourseOK(c), \A st \in DOMAIN c.students : c.students[st].section # 0
  PROVE  ClassOf(c) \in Seq(DOMAIN c.students) /\ Whole(ClassOf(c), DOMAIN c.students)
<1>1. PICK X : Shape(c, X)
  BY DEF CourseOK
<1>2. PICK n, m \in Nat : n = Len(c.sections) /\ m = Len(c.students) /\ DOMAIN c.sections = 1..n /\ DOMAIN c.students = 1..m
  BY <1>1, ShapeParts
<1>3. n \in Nat
  BY <1>1, <1>2, ShapeParts
<1>4. PICK S : S = DOMAIN c.students
  OBVIOUS
<1>5. PICK seqs : seqs = [s \in 1..n |-> c.sections[s].roster]
  OBVIOUS
<1>6. ASSUME NEW k \in 1..n PROVE seqs[k] \in Seq(S) /\ Whole(seqs[k], In(c, k))
  <2>1. seqs[k] = c.sections[k].roster /\ k \in DOMAIN c.sections
    BY <1>2, <1>5
  <2>2. Whole(seqs[k], In(c, k)) /\ seqs[k] \in Seq(Nat)
    BY <1>1, <2>1, ShapeParts DEF CourseOK
  <2>3. Range(seqs[k]) \subseteq S
    BY <1>4, <2>2 DEF Whole, In
  <2>4. seqs[k] \in Seq(Range(seqs[k]))
    BY <2>2, SeqIsListed DEF Listed
  <2> QED
    BY <2>2, <2>3, <2>4, SeqGrows
<1>7. seqs \in [1..n -> Seq(S)]
  BY <1>5, <1>6
<1>8. PICK p : Joined(p, seqs, n, S) /\ Concat(seqs) = p[n]
  BY <1>3, <1>7, ConcatJoins
<1>9. /\ p[0] = <<>> /\ \A k \in 0..n : p[k] \in Seq(S)
      /\ \A k \in 1..n : p[k] = p[k - 1] \o seqs[k]
  BY <1>8 DEF Joined
<1>10. PICK T : T = [k \in 0..n |-> {st \in S : c.students[st].section \in 1..k}]
  OBVIOUS
<1>11. IsFiniteSet(S)
  <2>1. 1 \in Int /\ m \in Int
    OBVIOUS
  <2>2. IsFiniteSet(1..m)
    BY ONLY <2>1, FS_Interval
  <2> QED
    BY <1>2, <1>4, <2>2
<1>12. \A k \in 0..n : Whole(p[k], T[k])
  <2>1. PICK D : D = {k \in 0..n : Whole(p[k], T[k])}
    OBVIOUS
  <2>2. 0 \in D
    <3>1. T[0] = {} /\ 0 \in 0..n
      BY <1>3, <1>10
    <3>2. Range(<<>>) = {} /\ Len(<<>>) = 0 /\ Cardinality({}) = 0
      BY FS_EmptySet DEF Range
    <3>3. Whole(<<>>, {})
      BY <3>2 DEF Whole
    <3> QED
      BY <1>9, <2>1, <3>1, <3>3
  <2>3. ASSUME NEW k \in 0..(n - 1), k \in D PROVE k + 1 \in D
    <3>1. PICK l \in 1..n : l = k + 1 /\ l - 1 = k
      BY <1>3
    <3>2. Whole(p[k], T[k]) /\ p[k] \in Seq(S) /\ k \in 0..n
      BY <1>9, <2>1, <2>3
    <3>3. p[l] = p[k] \o seqs[l] /\ l \in 0..n
      <4>1. p[l] = p[l - 1] \o seqs[l]
        BY <1>9
      <4>2. l \in 0..n
        BY <1>3
      <4> QED
        BY <3>1, <4>1, <4>2
    <3>4. T[k] \cap In(c, l) = {} /\ T[l] = T[k] \cup In(c, l)
      <4>1. T[k] = {st \in S : c.students[st].section \in 1..k} /\ T[l] = {st \in S : c.students[st].section \in 1..l}
        BY <1>10, <3>2, <3>3
      <4>2. In(c, l) = {st \in S : c.students[st].section = l}
        BY <1>4 DEF In
      <4>3. l \notin 1..k /\ 1..l = (1..k) \cup {l}
        BY <3>1
      <4> QED
        BY ONLY <4>1, <4>2, <4>3
    <3>5. IsFiniteSet(T[k]) /\ IsFiniteSet(In(c, l))
      <4>1. T[k] \subseteq S /\ In(c, l) \subseteq S
        BY <1>4, <1>10, <3>2 DEF In
      <4> QED
        BY <1>11, <4>1, FS_Subset
    <3>6. Whole(p[l], T[l])
      <4>1. seqs[l] \in Seq(S) /\ Whole(seqs[l], In(c, l))
        BY <1>6
      <4>2. Whole(p[k] \o seqs[l], T[k] \cup In(c, l))
        BY ONLY <3>2, <3>4, <3>5, <4>1, JoinedWhole
      <4> QED
        BY <3>3, <3>4, <4>2
    <3> QED
      BY <2>1, <3>1, <3>3, <3>6
  <2>4. \A k \in 0..n : k \in D
    BY ONLY <1>3, <2>2, <2>3, UpTo
  <2> QED
    BY <2>1, <2>4
<1>13. T[n] = S
  <2>1. \A st \in S : c.students[st].section \in 0..n /\ c.students[st].section # 0
    BY <1>2, <1>4 DEF CourseOK
  <2>2. \A st \in S : c.students[st].section \in 1..n
    BY <1>3, <2>1
  <2>3. n \in 0..n
    BY <1>3
  <2> QED
    BY <1>10, <2>2, <2>3
<1>14. ClassOf(c) = p[n]
  BY <1>2, <1>5, <1>8 DEF ClassOf
<1>15. n \in 0..n
  BY <1>3
<1> QED
  BY <1>4, <1>9, <1>12, <1>13, <1>14, <1>15

(* The list of the class while it is linked: no student has a next one yet.  *)
Unlinked(X) == [head |-> 0, last |-> 0, cnext |-> [st \in X |-> 0]]
Links(X)    == [head : Nat, last : Nat, cnext : [X -> Nat]]

Linking(p, visits, n, X) ==
  p \in [0..n -> Links(X)] /\ p[0] = Unlinked(X) /\ \A k \in 1..n : p[k] = Link(p[k - 1], visits[k])

(* A link is a link. *)
LEMMA LinkTyped ==
  ASSUME NEW X \in SUBSET Nat, NEW l \in Links(X), NEW st \in X
  PROVE  /\ Link(l, st) \in Links(X)
         /\ Link(l, st).last = st
         /\ l.last = 0 => Link(l, st).head = st /\ Link(l, st).cnext = [l.cnext EXCEPT ![st] = 0]
         /\ l.last # 0 => /\ Link(l, st).head = l.head
                          /\ Link(l, st).cnext = [[l.cnext EXCEPT ![l.last] = st] EXCEPT ![st] = 0]
<1>1. PICK h, t \in Nat, c \in [X -> Nat] : l = [head |-> h, last |-> t, cnext |-> c]
  BY DEF Links
<1>2. st \in Nat
  OBVIOUS
<1>3. CASE t = 0
  <2>1. PICK d : d = [c EXCEPT ![st] = 0]
    OBVIOUS
  <2>2. d \in [X -> Nat]
    BY <2>1
  <2>3. Link(l, st) = [head |-> st, last |-> st, cnext |-> d]
    BY <1>1, <1>3, <2>1 DEF Link
  <2>4. PICK r : r = Link(l, st)
    OBVIOUS
  <2>5. r \in Links(X) /\ r.last = st /\ r.head = st /\ r.cnext = d
    BY ONLY <1>2, <2>2, <2>3, <2>4 DEF Links
  <2>6. l.last = 0 /\ l.cnext = c
    BY ONLY <1>1, <1>3
  <2> QED
    BY ONLY <2>1, <2>4, <2>5, <2>6
<1>4. CASE t # 0
  <2>1. PICK d : d = [[c EXCEPT ![t] = st] EXCEPT ![st] = 0]
    OBVIOUS
  <2>2. d \in [X -> Nat]
    BY <1>2, <2>1
  <2>3. Link(l, st) = [l EXCEPT !.last = st, !.cnext = d]
    BY <1>1, <1>4, <2>1 DEF Link
  <2>4. Link(l, st) = [head |-> h, last |-> st, cnext |-> d]
    BY ONLY <1>1, <2>3
  <2>5. PICK r : r = Link(l, st)
    OBVIOUS
  <2>6. r \in Links(X) /\ r.last = st /\ r.head = h /\ r.cnext = d
    BY ONLY <1>2, <2>2, <2>4, <2>5, h \in Nat DEF Links
  <2>7. l.last = t /\ l.cnext = c /\ l.head = h
    BY ONLY <1>1
  <2> QED
    BY ONLY <1>4, <2>1, <2>5, <2>6, <2>7
<1> QED
  BY <1>3, <1>4

(* do_links links one student after the other. *)
LEMMA LinksTurn ==
  ASSUME NEW X \in SUBSET Nat, NEW n \in Nat, NEW visits \in [1..n -> X]
  PROVE  \E p : Linking(p, visits, n, X) /\ FoldLeft(Link, Unlinked(X), visits) = p[n]
<1> DEFINE I == CHOOSE it : it = [s \in SUBSET DOMAIN visits |-> IF s = {} THEN Unlinked(X) ELSE Link(it[s \ {Max(s)}], visits[Max(s)])]
<1>1. FoldLeft(Link, Unlinked(X), visits) = I[DOMAIN visits]
  BY DEF FoldLeft, MapThenFoldSet
<1>2. PICK step : step = [x \in Links(X) \X X |-> Link(x[1], x[2])]
  OBVIOUS
<1>3. step \in [Links(X) \X X -> Links(X)] /\ \A l \in Links(X), st \in X : step[<<l, st>>] = Link(l, st)
  <2>1. \A x \in Links(X) \X X : x[1] \in Links(X) /\ x[2] \in X
    OBVIOUS
  <2>2. \A l \in Links(X), st \in X : Link(l, st) \in Links(X)
    BY LinkTyped
  <2>3. step \in [Links(X) \X X -> Links(X)]
    BY <1>2, <2>1, <2>2
  <2>4. ASSUME NEW l \in Links(X), NEW st \in X PROVE step[<<l, st>>] = Link(l, st)
    <3>1. <<l, st>> \in Links(X) \X X /\ <<l, st>>[1] = l /\ <<l, st>>[2] = st
      OBVIOUS
    <3> QED
      BY <1>2, <3>1
  <2> QED
    BY <2>3, <2>4
<1>4. Unlinked(X) \in Links(X)
  BY DEF Unlinked, Links
<1>5. PICK it \in [SUBSET (1..n) -> Links(X)] : Folds(it, n, Unlinked(X), step, visits)
  BY ONLY <1>3, <1>4, n \in Nat, visits \in [1..n -> X], FoldExists
<1>6. it = [s \in SUBSET (1..n) |-> IF s = {} THEN Unlinked(X) ELSE Link(it[s \ {Max(s)}], visits[Max(s)])]
  <2>1. ASSUME NEW s \in SUBSET (1..n), s # {} PROVE it[s] = Link(it[s \ {Max(s)}], visits[Max(s)])
    <3>1. Max(s) \in 1..n /\ s \ {Max(s)} \in SUBSET (1..n)
      BY <2>1, MaxThere
    <3>2. it[s \ {Max(s)}] \in Links(X) /\ visits[Max(s)] \in X
      BY <3>1
    <3>3. it[s] = step[<<it[s \ {Max(s)}], visits[Max(s)]>>]
      BY <1>5, <2>1 DEF Folds
    <3> QED
      BY <1>3, <3>2, <3>3
  <2>2. ASSUME NEW s \in SUBSET (1..n), s = {} PROVE it[s] = Unlinked(X)
    BY <1>5, <2>2 DEF Folds
  <2>3. it = [s \in SUBSET (1..n) |-> it[s]]
    OBVIOUS
  <2> QED
    BY <2>1, <2>2, <2>3
<1>7. I = [s \in SUBSET (1..n) |-> IF s = {} THEN Unlinked(X) ELSE Link(I[s \ {Max(s)}], visits[Max(s)])]
  <2>1. DOMAIN visits = 1..n
    OBVIOUS
  <2> QED
    BY <1>6, <2>1
<1> HIDE DEF I
<1>8. PICK p : p = [k \in 0..n |-> I[1..k]]
  OBVIOUS
<1>9. p[0] = Unlinked(X) /\ p[n] = FoldLeft(Link, Unlinked(X), visits)
  <2>1. 1..0 = {} /\ {} \in SUBSET (1..n) /\ 0 \in 0..n /\ n \in 0..n /\ DOMAIN visits = 1..n
    OBVIOUS
  <2> QED
    BY <1>1, <1>7, <1>8, <2>1
<1>10. ASSUME NEW k \in 1..n PROVE p[k] = Link(p[k - 1], visits[k])
  <2>1. k \in 0..n /\ k - 1 \in 0..n
    OBVIOUS
  <2>2. p[k] = I[1..k] /\ p[k - 1] = I[1..(k - 1)]
    BY <1>8, <2>1
  <2>3. PICK s \in SUBSET (1..n) : s = 1..k /\ s # {} /\ Max(s) = k /\ s \ {k} = 1..(k - 1)
    BY FirstParts
  <2>4. I[s] = Link(I[s \ {Max(s)}], visits[Max(s)])
    BY <1>7, <2>3
  <2> QED
    BY <2>2, <2>3, <2>4
<1>11. \A k \in 0..n : p[k] \in Links(X)
  <2>1. PICK D : D = {k \in 0..n : p[k] \in Links(X)}
    OBVIOUS
  <2>2. 0 \in D
    BY <1>4, <1>9, <2>1
  <2>3. ASSUME NEW k \in 0..(n - 1), k \in D PROVE k + 1 \in D
    <3>1. k + 1 \in 1..n /\ (k + 1) - 1 = k
      OBVIOUS
    <3>2. p[k + 1] = Link(p[k], visits[k + 1]) /\ visits[k + 1] \in X /\ p[k] \in Links(X)
      BY <1>10, <2>1, <2>3, <3>1
    <3>3. p[k + 1] \in Links(X)
      <4>1. PICK l \in Links(X), st \in X : l = p[k] /\ st = visits[k + 1]
        BY <3>2
      <4>2. Link(l, st) \in Links(X)
        BY LinkTyped
      <4> QED
        BY <3>2, <4>1, <4>2
    <3> QED
      BY <2>1, <3>1, <3>3
  <2>4. \A k \in 0..n : k \in D
    BY <2>2, <2>3, UpTo
  <2> QED
    BY <2>1, <2>4
<1> QED
  BY <1>8, <1>9, <1>10, <1>11 DEF Linking

(* A list read again and again: the places of its entries go round.          *)
Rounds(v, list, n) ==
  /\ Len(v) \in Nat
  /\ \E pos \in [1..Len(v) -> 1..n] :
       /\ \A k \in 1..Len(v) : v[k] = list[pos[k]]
       /\ Len(v) > 0 => pos[1] = 1 /\ pos[Len(v)] = n
       /\ \A k \in 1..(Len(v) - 1) : pos[k + 1] = IF pos[k] = n THEN 1 ELSE pos[k] + 1

(* Once more. *)
LEMMA OnceMore ==
  ASSUME NEW X, NEW list \in Seq(X), NEW n \in Nat \ {0}, n = Len(list), NEW v \in Seq(X), Rounds(v, list, n)
  PROVE  Rounds(v \o list, list, n) /\ Len(v \o list) > 0
<1>1. PICK m \in Nat : m = Len(v)
  OBVIOUS
<1>2. PICK w : w = v \o list
  OBVIOUS
<1>3. Len(w) = m + n /\ \A k \in 1..(m + n) : w[k] = IF k <= m THEN v[k] ELSE list[k - m]
  BY <1>1, <1>2
<1>4. PICK pos \in [1..m -> 1..n] :
        /\ \A k \in 1..m : v[k] = list[pos[k]]
        /\ m > 0 => pos[1] = 1 /\ pos[m] = n
        /\ \A k \in 1..(m - 1) : pos[k + 1] = IF pos[k] = n THEN 1 ELSE pos[k] + 1
  BY <1>1 DEF Rounds
<1>5. PICK q : q = [k \in 1..(m + n) |-> IF k <= m THEN pos[k] ELSE k - m]
  OBVIOUS
<1>6. \A k \in 1..(m + n) : (k \in 1..m /\ q[k] = pos[k]) \/ (k > m /\ q[k] = k - m /\ k - m \in 1..n)
  <2>1. ASSUME NEW k \in 1..(m + n) PROVE (k \in 1..m /\ k <= m) \/ (k > m /\ k - m \in 1..n)
    OBVIOUS
  <2> QED
    BY <1>5, <2>1
<1>7. q \in [1..(m + n) -> 1..n]
  BY <1>4, <1>5, <1>6
<1>8. \A k \in 1..(m + n) : w[k] = list[q[k]]
  <2>1. ASSUME NEW k \in 1..(m + n) PROVE w[k] = list[q[k]]
    <3>1. w[k] = IF k <= m THEN v[k] ELSE list[k - m]
      BY <1>3
    <3>2. CASE k <= m
      <4>1. k \in 1..m /\ q[k] = pos[k]
        BY <1>5, <3>2
      <4> QED
        BY <1>4, <3>1, <3>2, <4>1
    <3>3. CASE ~(k <= m)
      BY <1>5, <3>1, <3>3
    <3> QED
      BY <3>2, <3>3
  <2> QED
    BY <2>1
<1>9. q[1] = 1 /\ q[m + n] = n
  <2>1. q[m + n] = n
    <3>1. m + n \in 1..(m + n) /\ ~(m + n <= m) /\ (m + n) - m = n
      OBVIOUS
    <3> QED
      BY ONLY <1>5, <3>1
  <2>2. CASE m > 0
    <3>1. 1 \in 1..(m + n) /\ 1 <= m
      BY <2>2
    <3> QED
      BY <1>4, <1>5, <2>1, <2>2, <3>1
  <2>3. CASE ~(m > 0)
    <3>1. 1 \in 1..(m + n) /\ ~(1 <= m) /\ 1 - m = 1
      BY <2>3
    <3> QED
      BY <1>5, <2>1, <3>1
  <2> QED
    BY <2>2, <2>3
<1>10. ASSUME NEW k \in 1..(m + n - 1) PROVE q[k + 1] = IF q[k] = n THEN 1 ELSE q[k] + 1
  <2>1. k \in 1..(m + n) /\ k + 1 \in 1..(m + n)
    OBVIOUS
  <2>2. CASE k < m
    <3>1. k \in 1..(m - 1) /\ k <= m /\ k + 1 <= m
      BY <2>2
    <3>2. q[k] = pos[k] /\ q[k + 1] = pos[k + 1]
      BY <1>5, <2>1, <3>1
    <3> QED
      BY <1>4, <3>1, <3>2
  <2>3. CASE k = m
    <3>1. k <= m /\ ~(k + 1 <= m) /\ (k + 1) - m = 1 /\ m > 0
      BY <2>3
    <3>2. q[k] = pos[m] /\ q[k + 1] = 1
      BY <1>5, <2>1, <2>3, <3>1
    <3> QED
      BY <1>4, <3>1, <3>2
  <2>4. CASE k > m
    <3>1. ~(k <= m) /\ ~(k + 1 <= m) /\ (k + 1) - m = (k - m) + 1 /\ k - m # n
      BY <2>4
    <3>2. q[k] = k - m /\ q[k + 1] = (k - m) + 1
      BY <1>5, <2>1, <3>1
    <3> QED
      BY <3>1, <3>2
  <2> QED
    BY <2>2, <2>3, <2>4
<1>11. Rounds(w, list, n)
  <2>1. PICK N \in Nat : N = Len(w) /\ N = m + n
    BY <1>3
  <2>2. /\ q \in [1..N -> 1..n] /\ \A k \in 1..N : w[k] = list[q[k]]
        /\ N > 0 => q[1] = 1 /\ q[N] = n
        /\ \A k \in 1..(N - 1) : q[k + 1] = IF q[k] = n THEN 1 ELSE q[k] + 1
    BY ONLY <1>7, <1>8, <1>9, <1>10, <2>1
  <2> QED
    BY ONLY <2>1, <2>2 DEF Rounds
<1>12. Len(w) > 0
  BY <1>3
<1> QED
  BY <1>2, <1>11, <1>12

(* The class roster is read once for each of the assignments. *)
LEMMA ReadForEach ==
  ASSUME NEW X, NEW list \in Seq(X), NEW n \in Nat \ {0}, n = Len(list), NEW A \in Nat \ {0}
  PROVE  /\ Concat([a \in 1..A |-> list]) \in Seq(X)
         /\ Rounds(Concat([a \in 1..A |-> list]), list, n) /\ Len(Concat([a \in 1..A |-> list])) > 0
<1>1. PICK seqs : seqs = [a \in 1..A |-> list]
  OBVIOUS
<1>2. seqs \in [1..A -> Seq(X)]
  BY <1>1
<1>3. PICK p : Joined(p, seqs, A, X) /\ Concat(seqs) = p[A]
  <2>1. A \in Nat
    OBVIOUS
  <2> QED
    BY <1>2, <2>1, ConcatJoins
<1>4. /\ p[0] = <<>> /\ \A k \in 0..A : p[k] \in Seq(X)
      /\ \A k \in 1..A : p[k] = p[k - 1] \o list
  BY <1>1, <1>3 DEF Joined
<1>5. PICK D : D = {k \in 0..A : Rounds(p[k], list, n) /\ (k > 0 => Len(p[k]) > 0)}
  OBVIOUS
<1>6. 0 \in D
  <2>1. Len(<<>>) = 0 /\ 1..0 = {} /\ 1..(0 - 1) = {}
    OBVIOUS
  <2>2. PICK pos : pos = [k \in 1..0 |-> k]
    OBVIOUS
  <2>3. pos \in [1..0 -> 1..n]
    BY <2>2
  <2>4. PICK e : e = <<>>
    OBVIOUS
  <2>5. Len(e) = 0 /\ 0 \in Nat /\ ~(0 > 0) /\ \A k \in 1..0 : FALSE
    BY <2>1, <2>4
  <2>6. \A k \in 1..(0 - 1) : FALSE
    OBVIOUS
  <2>7. Rounds(e, list, n)
    BY ONLY <2>3, <2>5, <2>6 DEF Rounds
  <2> QED
    BY <1>4, <1>5, <2>4, <2>7
<1>7. ASSUME NEW k \in 0..(A - 1), k \in D PROVE k + 1 \in D
  <2>1. k + 1 \in 1..A /\ (k + 1) - 1 = k /\ k \in 0..A /\ k + 1 \in 0..A
    OBVIOUS
  <2>2. p[k + 1] = p[k] \o list /\ p[k] \in Seq(X) /\ Rounds(p[k], list, n)
    BY <1>4, <1>5, <1>7, <2>1
  <2>3. Rounds(p[k + 1], list, n) /\ Len(p[k + 1]) > 0
    BY <2>2, OnceMore
  <2> QED
    BY <1>5, <2>1, <2>3
<1>8. A \in D
  <2>1. \A k \in 0..A : k \in D
    BY ONLY <1>6, <1>7, A \in Nat \ {0}, UpTo
  <2> QED
    BY <2>1
<1> QED
  BY <1>1, <1>3, <1>4, <1>5, <1>8

(* What has been linked when the student in place j was linked last.         *)
LinkedTo(l, list, n, j) ==
  /\ j \in 1..n /\ l.head = list[1] /\ l.last = list[j] /\ l.cnext[list[j]] = 0
  /\ \A i \in 1..(j - 1) : l.cnext[list[i]] = list[i + 1]

(* The next student is linked: the first one again after the last. *)
LEMMA LinksOn ==
  ASSUME NEW X \in SUBSET (Nat \ {0}), NEW n \in Nat \ {0}, NEW list \in [1..n -> X],
         \A i, j \in 1..n : i # j => list[i] # list[j],
         NEW l \in Links(X), NEW j \in 1..n, LinkedTo(l, list, n, j),
         NEW k \in 1..n, k = IF j = n THEN 1 ELSE j + 1
  PROVE  LinkedTo(Link(l, list[k]), list, n, k)
<1>1. PICK st \in X : st = list[k]
  OBVIOUS
<1>2. PICK r : r = Link(l, st)
  OBVIOUS
<1>3. l.last = list[j] /\ list[j] \in X /\ l.last # 0 /\ l.head = list[1]
  BY DEF LinkedTo
<1>4. PICK c \in [X -> Nat] : c = l.cnext
  BY DEF Links
<1>5. r.head = list[1] /\ r.last = st /\ r.cnext = [[c EXCEPT ![list[j]] = st] EXCEPT ![st] = 0]
  <2>1. X \in SUBSET Nat
    OBVIOUS
  <2>2. /\ Link(l, st) \in Links(X)
        /\ Link(l, st).last = st
        /\ l.last = 0 => Link(l, st).head = st /\ Link(l, st).cnext = [l.cnext EXCEPT ![st] = 0]
        /\ l.last # 0 => /\ Link(l, st).head = l.head
                         /\ Link(l, st).cnext = [[l.cnext EXCEPT ![l.last] = st] EXCEPT ![st] = 0]
    BY ONLY <2>1, l \in Links(X), st \in X, LinkTyped
  <2> QED
    BY ONLY <1>2, <1>3, <1>4, <2>2
<1>6. r.cnext[st] = 0
  BY <1>5
<1>7. \A x \in X : x # st => r.cnext[x] = IF x = list[j] THEN st ELSE c[x]
  BY <1>4, <1>5
<1>8. ASSUME NEW i \in 1..(k - 1) PROVE r.cnext[list[i]] = list[i + 1]
  <2>1. k = j + 1 /\ i \in 1..n /\ i # k /\ i + 1 \in 1..n
    OBVIOUS
  <2>2. list[i] \in X /\ list[i] # st
    BY <1>1, <2>1
  <2>3. CASE i = j
    BY <1>1, <1>7, <2>1, <2>2, <2>3
  <2>4. CASE i # j
    <3>1. i \in 1..(j - 1) /\ list[i] # list[j]
      BY <2>1, <2>4
    <3>2. c[list[i]] = list[i + 1]
      BY <1>4, <3>1 DEF LinkedTo
    <3> QED
      BY <1>7, <2>2, <3>1, <3>2
  <2> QED
    BY <2>3, <2>4
<1> QED
  BY <1>1, <1>2, <1>5, <1>6, <1>8 DEF LinkedTo

(* All of a class are linked, whatever the assignments it was linked for.    *)
LEMMA AllLinked ==
  ASSUME NEW X \in SUBSET (Nat \ {0}), NEW list \in Seq(X), NEW n \in Nat \ {0}, n = Len(list), Whole(list, X),
         NEW visits \in Seq(X), Rounds(visits, list, n), Len(visits) > 0
  PROVE  LinkedTo(FoldLeft(Link, Unlinked(X), visits), list, n, n)
<1>1. list \in [1..n -> X] /\ \A i, j \in 1..n : i # j => list[i] # list[j]
  BY OnceEach
<1>2. PICK N \in Nat \ {0} : N = Len(visits)
  OBVIOUS
<1>3. PICK pos \in [1..N -> 1..n] :
        /\ \A k \in 1..N : visits[k] = list[pos[k]]
        /\ pos[1] = 1 /\ pos[N] = n
        /\ \A k \in 1..(N - 1) : pos[k + 1] = IF pos[k] = n THEN 1 ELSE pos[k] + 1
  BY <1>2 DEF Rounds
<1>4. X \in SUBSET Nat /\ visits \in [1..N -> X] /\ N \in Nat
  BY <1>2, LenProperties
<1>5. PICK p : Linking(p, visits, N, X) /\ FoldLeft(Link, Unlinked(X), visits) = p[N]
  BY ONLY <1>4, LinksTurn
<1>6. /\ p \in [0..N -> Links(X)] /\ p[0] = Unlinked(X)
      /\ \A k \in 1..N : p[k] = Link(p[k - 1], visits[k])
  BY <1>5 DEF Linking
<1>7. PICK D : D = {k \in 0..(N - 1) : LinkedTo(p[k + 1], list, n, pos[k + 1])}
  OBVIOUS
<1>8. 0 \in D
  <2>1. PICK st \in X : st = list[1]
    <3>1. 1 \in 1..n
      OBVIOUS
    <3> QED
      BY ONLY <1>1, <3>1
  <2>2. p[1] = Link(Unlinked(X), st)
    <3>1. 1 \in 1..N /\ 1 - 1 = 0
      OBVIOUS
    <3>2. p[1] = Link(p[1 - 1], visits[1]) /\ visits[1] = list[pos[1]]
      BY <1>3, <1>6, <3>1
    <3> QED
      BY <1>3, <1>6, <2>1, <3>1, <3>2
  <2>3. PICK c : c = [x \in X |-> 0]
    OBVIOUS
  <2>4. Unlinked(X) = [head |-> 0, last |-> 0, cnext |-> c]
    BY <2>3 DEF Unlinked
  <2>5. p[1] = [head |-> st, last |-> st, cnext |-> [c EXCEPT ![st] = 0]]
    BY <2>2, <2>4 DEF Link
  <2>6. p[1].head = st /\ p[1].last = st /\ p[1].cnext[st] = 0
    BY <2>3, <2>5
  <2>7. LinkedTo(p[1], list, n, 1)
    <3>1. 1 \in 1..n /\ \A i \in 1..(1 - 1) : FALSE
      OBVIOUS
    <3> QED
      BY ONLY <2>1, <2>6, <3>1 DEF LinkedTo
  <2>8. 0 \in 0..(N - 1) /\ 0 + 1 = 1
    OBVIOUS
  <2> QED
    BY <1>3, <1>7, <2>7, <2>8
<1>9. ASSUME NEW k \in 0..((N - 1) - 1), k \in D PROVE k + 1 \in D
  <2>1. PICK m \in 1..(N - 1) : m = k + 1
    OBVIOUS
  <2>2. m \in 0..(N - 1) /\ m + 1 \in 1..N /\ (m + 1) - 1 = m /\ m \in 0..N /\ m \in 1..N
    OBVIOUS
  <2>3. LinkedTo(p[m], list, n, pos[m])
    BY <1>7, <1>9, <2>1
  <2>4. PICK j, i \in 1..n : j = pos[m] /\ i = pos[m + 1] /\ i = IF j = n THEN 1 ELSE j + 1
    <3>1. pos[m] \in 1..n /\ pos[m + 1] \in 1..n
      BY ONLY <1>3, <2>2
    <3>2. pos[m + 1] = IF pos[m] = n THEN 1 ELSE pos[m] + 1
      BY ONLY <1>3, m \in 1..(N - 1)
    <3> QED
      BY ONLY <3>1, <3>2
  <2>5. j \in 1..n /\ p[m] \in Links(X) /\ p[m + 1] = Link(p[m], list[i])
    BY <1>3, <1>6, <2>2, <2>4
  <2>6. LinkedTo(Link(p[m], list[i]), list, n, i)
    BY ONLY <1>1, <2>3, <2>4, <2>5, X \in SUBSET (Nat \ {0}), n \in Nat \ {0}, LinksOn
  <2> QED
    BY <1>7, <2>1, <2>2, <2>4, <2>5, <2>6
<1>10. N - 1 \in D
  <2>1. N - 1 \in Nat
    OBVIOUS
  <2>2. \A k \in 0..(N - 1) : k \in D
    BY ONLY <1>8, <1>9, <2>1, UpTo
  <2> QED
    BY <2>1, <2>2
<1>11. (N - 1) + 1 = N
  OBVIOUS
<1> QED
  BY <1>3, <1>5, <1>7, <1>10, <1>11

(* What is found from the head of the list on. *)
ChainOf(linked, m) ==
  LET chain[k \in 1..m + 1] ==
        IF k = 1 THEN linked.head
        ELSE LET st == chain[k - 1] IN IF st = 0 THEN 0 ELSE linked.cnext[st]
  IN  [k \in 1..Cardinality({i \in 1..m + 1 : chain[i] # 0}) |-> chain[k]]

Follows(f, linked, m) ==
  /\ f = [k \in 1..m + 1 |-> f[k]]
  /\ \A k \in 1..m + 1 : f[k] = IF k = 1 THEN linked.head ELSE IF f[k - 1] = 0 THEN 0 ELSE linked.cnext[f[k - 1]]

(* It is what follows it. *)
LEMMA ChainFollows ==
  ASSUME NEW linked, NEW m \in Nat, NEW f, Follows(f, linked, m)
  PROVE  ChainOf(linked, m) = [k \in 1..Cardinality({i \in 1..m + 1 : f[i] # 0}) |-> f[k]]
         \/ ~(Cardinality({i \in 1..m + 1 : f[i] # 0}) \in 0..m + 1)
<1> DEFINE chain == CHOOSE c : c = [k \in 1..m + 1 |-> IF k = 1 THEN linked.head
                                     ELSE IF c[k - 1] = 0 THEN 0 ELSE linked.cnext[c[k - 1]]]
<1>1. ChainOf(linked, m) = [k \in 1..Cardinality({i \in 1..m + 1 : chain[i] # 0}) |-> chain[k]]
  BY DEF ChainOf
<1>2. f = [k \in 1..m + 1 |-> IF k = 1 THEN linked.head ELSE IF f[k - 1] = 0 THEN 0 ELSE linked.cnext[f[k - 1]]]
  BY DEF Follows
<1>3. chain = [k \in 1..m + 1 |-> IF k = 1 THEN linked.head ELSE IF chain[k - 1] = 0 THEN 0 ELSE linked.cnext[chain[k - 1]]]
  BY <1>2
<1> HIDE DEF chain
<1>4. PICK D : D = {k \in 0..m : chain[k + 1] = f[k + 1]}
  OBVIOUS
<1>5. 0 \in D
  <2>1. 1 \in 1..m + 1 /\ 0 \in 0..m /\ 0 + 1 = 1
    OBVIOUS
  <2> QED
    BY <1>2, <1>3, <1>4, <2>1
<1>6. ASSUME NEW k \in 0..(m - 1), k \in D PROVE k + 1 \in D
  <2>1. PICK i \in 1..m : i = k + 1
    OBVIOUS
  <2>2. chain[i] = f[i]
    BY <1>4, <1>6, <2>1
  <2>3. i + 1 \in 1..m + 1 /\ (i + 1) - 1 = i /\ i + 1 # 1 /\ i \in 0..m
    OBVIOUS
  <2>4. f[i + 1] = IF f[(i + 1) - 1] = 0 THEN 0 ELSE linked.cnext[f[(i + 1) - 1]]
    BY <1>2, <2>3
  <2>5. chain[i + 1] = IF chain[(i + 1) - 1] = 0 THEN 0 ELSE linked.cnext[chain[(i + 1) - 1]]
    BY <1>3, <2>3
  <2> QED
    BY <1>4, <2>1, <2>2, <2>3, <2>4, <2>5
<1>7. \A k \in 0..m : k \in D
  BY ONLY <1>5, <1>6, m \in Nat, UpTo
<1>8. ASSUME NEW k \in 1..m + 1 PROVE chain[k] = f[k]
  <2>1. k - 1 \in 0..m /\ (k - 1) + 1 = k
    OBVIOUS
  <2> QED
    BY <1>4, <1>7, <2>1
<1>10. {i \in 1..m + 1 : chain[i] # 0} = {i \in 1..m + 1 : f[i] # 0}
  BY <1>8
<1>11. ASSUME NEW C \in 0..m + 1, C = Cardinality({i \in 1..m + 1 : f[i] # 0})
       PROVE  ChainOf(linked, m) = [k \in 1..C |-> f[k]]
  <2>1. \A k \in 1..C : k \in 1..m + 1
    OBVIOUS
  <2>2. ChainOf(linked, m) = [k \in 1..C |-> chain[k]]
    BY <1>1, <1>10, <1>11
  <2> QED
    BY <1>8, <2>1, <2>2
<1> QED
  BY <1>11

(* What is linked to the end of a list is found again as this list.          *)
LEMMA ChainIs ==
  ASSUME NEW X \in SUBSET (Nat \ {0}), NEW n \in Nat \ {0}, NEW list \in [1..n -> X],
         NEW linked, LinkedTo(linked, list, n, n)
  PROVE  ChainOf(linked, n) = list
<1>1. PICK f : f = [k \in 1..n + 1 |-> IF k <= n THEN list[k] ELSE 0]
  OBVIOUS
<1>2. /\ linked.head = list[1] /\ linked.cnext[list[n]] = 0
      /\ \A i \in 1..(n - 1) : linked.cnext[list[i]] = list[i + 1]
  BY DEF LinkedTo
<1>3. /\ DOMAIN f = 1..n + 1 /\ f = [k \in 1..n + 1 |-> f[k]]
      /\ \A k \in 1..n : f[k] = list[k] /\ f[k] # 0
  <2>1. \A k \in 1..n : k \in 1..n + 1 /\ k <= n /\ list[k] # 0
    OBVIOUS
  <2> QED
    BY ONLY <1>1, <2>1
<1>4. f[n + 1] = 0
  <2>1. n + 1 \in 1..n + 1 /\ ~(n + 1 <= n)
    OBVIOUS
  <2> QED
    BY ONLY <1>1, <2>1
<1>5. ASSUME NEW k \in 1..n + 1
      PROVE  f[k] = IF k = 1 THEN linked.head ELSE IF f[k - 1] = 0 THEN 0 ELSE linked.cnext[f[k - 1]]
  <2>1. CASE k = 1
    <3>1. 1 \in 1..n
      OBVIOUS
    <3> QED
      BY <1>2, <1>3, <2>1, <3>1
  <2>2. CASE k # 1
    <3>1. PICK i \in 1..n : i = k - 1
      BY <2>2
    <3>2. f[i] = list[i] /\ f[i] # 0
      BY <1>3
    <3>3. CASE i = n
      <4>1. k = n + 1
        BY <3>1, <3>3
      <4> QED
        BY <1>2, <1>4, <2>2, <3>1, <3>2, <3>3, <4>1
    <3>4. CASE i # n
      <4>1. i \in 1..(n - 1) /\ k = i + 1 /\ k \in 1..n
        BY <3>1, <3>4
      <4>2. f[k] = list[i + 1] /\ linked.cnext[list[i]] = list[i + 1]
        BY <1>2, <1>3, <4>1
      <4> QED
        BY <2>2, <3>1, <3>2, <4>2
    <3> QED
      BY <3>3, <3>4
  <2> QED
    BY <2>1, <2>2
<1>6. Follows(f, linked, n)
  BY <1>3, <1>5 DEF Follows
<1>7. {i \in 1..n + 1 : f[i] # 0} = 1..n
  <2>1. \A i \in 1..n + 1 : i \in 1..n \/ i = n + 1
    OBVIOUS
  <2>2. \A i \in 1..n : i \in 1..n + 1
    OBVIOUS
  <2> QED
    BY ONLY <1>3, <1>4, <2>1, <2>2
<1>8. Cardinality(1..n) = n
  <2>1. 1 \in Int /\ n \in Int /\ 1 <= n
    OBVIOUS
  <2>2. Cardinality(1..n) = IF 1 > n THEN 0 ELSE n - 1 + 1
    BY ONLY <2>1, FS_Interval
  <2> QED
    BY <2>1, <2>2
<1>9. ChainOf(linked, n) = [k \in 1..n |-> f[k]]
  <2>1. n \in 0..n + 1 /\ n \in Nat
    OBVIOUS
  <2> QED
    BY ONLY <1>6, <1>7, <1>8, <2>1, ChainFollows
<1> QED
  BY <1>3, <1>9

(* A list of assignments, however it was read.                               *)
AssignmentsListed(c) == \E X : c.assignments \in Seq(X)

(* Where nobody is linked there is nobody to find.                           *)
LEMMA NobodyLinked ==
  ASSUME NEW X \in SUBSET Nat, NEW m \in Nat
  PROVE  ChainOf(FoldLeft(Link, Unlinked(X), <<>>), m) = <<>>
<1>1. PICK visits : visits = <<>>
  OBVIOUS
<1>2. visits \in [1..0 -> X]
  BY <1>1
<1>3. PICK p : Linking(p, visits, 0, X) /\ FoldLeft(Link, Unlinked(X), visits) = p[0]
  BY ONLY <1>2, X \in SUBSET Nat, 0 \in Nat, LinksTurn
<1>4. PICK linked : linked = FoldLeft(Link, Unlinked(X), visits)
  OBVIOUS
<1>5. linked.head = 0
  BY <1>3, <1>4 DEF Linking, Unlinked
<1>6. PICK f : f = [k \in 1..m + 1 |-> 0]
  OBVIOUS
<1>7. \A k \in 1..m + 1 : f[k] = 0
  BY <1>6
<1>8. Follows(f, linked, m)
  <2>1. f = [k \in 1..m + 1 |-> f[k]]
    BY <1>6
  <2>2. ASSUME NEW k \in 1..m + 1
        PROVE  f[k] = IF k = 1 THEN linked.head ELSE IF f[k - 1] = 0 THEN 0 ELSE linked.cnext[f[k - 1]]
    <3>1. CASE k = 1
      BY <1>5, <1>7, <3>1
    <3>2. CASE k # 1
      <4>1. k - 1 \in 1..m + 1
        BY <3>2
      <4>2. f[k - 1] = 0
        BY <1>7, <4>1
      <4> QED
        BY <1>7, <3>2, <4>2
    <3> QED
      BY <3>1, <3>2
  <2> QED
    BY <2>1, <2>2 DEF Follows
<1>9. {i \in 1..m + 1 : f[i] # 0} = {}
  BY <1>7
<1>10. Cardinality({}) = 0 /\ 0 \in 0..m + 1
  BY FS_EmptySet
<1>11. ChainOf(linked, m) = [k \in 1..0 |-> f[k]]
  <2>1. PICK C : C = Cardinality({i \in 1..m + 1 : f[i] # 0})
    OBVIOUS
  <2>2. C = 0
    BY ONLY <1>9, <1>10, <2>1
  <2>3. \/ ChainOf(linked, m) = [k \in 1..C |-> f[k]]
        \/ ~(C \in 0..m + 1)
    <3>1. \/ ChainOf(linked, m) = [k \in 1..Cardinality({i \in 1..m + 1 : f[i] # 0}) |-> f[k]]
          \/ ~(Cardinality({i \in 1..m + 1 : f[i] # 0}) \in 0..m + 1)
      BY ONLY <1>8, m \in Nat, ChainFollows
    <3> QED
      BY ONLY <2>1, <3>1
  <2> QED
    BY ONLY <1>10, <2>2, <2>3
<1>12. [k \in 1..0 |-> f[k]] = <<>>
  OBVIOUS
<1> QED
  BY <1>1, <1>4, <1>11, <1>12

(* Nobody, for as many assignments as there are. *)
LEMMA NobodyVisited ==
  ASSUME NEW A \in Nat, NEW list, A = 0 \/ list = <<>>
  PROVE  Concat([a \in 1..A |-> list]) = <<>>
<1>1. PICK seqs : seqs = [a \in 1..A |-> list]
  OBVIOUS
<1>2. seqs \in [1..A -> Seq({})]
  <2>1. \A a \in 1..A : list = <<>>
    OBVIOUS
  <2>2. <<>> \in Seq({})
    OBVIOUS
  <2> QED
    BY ONLY <1>1, <2>1, <2>2
<1>3. PICK p : Joined(p, seqs, A, {}) /\ Concat(seqs) = p[A]
  BY ONLY <1>2, A \in Nat, ConcatJoins
<1>4. A \in 0..A
  OBVIOUS
<1>5. p[A] \in Seq({})
  BY <1>3, <1>4 DEF Joined
<1>6. p[A] = <<>>
  <2>1. PICK q, n : q = p[A] /\ n = Len(q)
    OBVIOUS
  <2>2. n \in Nat /\ q \in [1..n -> {}]
    BY <1>5, <2>1, LenProperties
  <2>3. ~(1 \in 1..n)
    BY <2>2
  <2>4. n = 0
    BY <2>2, <2>3
  <2> QED
    BY <2>1, <2>2, <2>4
<1> QED
  BY <1>1, <1>3, <1>6

(* do_links: the list of the class is that of the sections one after the     *)
(* other, however many assignments there are to link it for.                *)
THEOREM LinkedOnce ==
  ASSUME CourseOK(course), AssignmentsListed(course), course.assignments # <<>>,
         \A st \in Students : course.students[st].section # 0
  PROVE  LinkStudents = ClassOf(course) /\ Whole(LinkStudents, Students)
<1>1. PICK list : list = ClassOf(course)
  OBVIOUS
<1>2. list \in Seq(Students) /\ Whole(list, Students)
  BY <1>1, ClassIsWhole DEF Students
<1>3. PICK m \in Nat : m = Len(course.students) /\ Students = 1..m
  BY ShapeParts DEF CourseOK, Students
<1>4. PICK A \in Nat \ {0} : Assignments = 1..A
  <2>1. PICK Y : course.assignments \in Seq(Y)
    BY DEF AssignmentsListed
  <2> QED
    BY <2>1 DEF Assignments
<1>5. Len(list) = m
  <2>1. Cardinality(1..m) = m
    <3>1. 1 \in Int /\ m \in Int /\ m >= 0
      OBVIOUS
    <3>2. Cardinality(1..m) = IF 1 > m THEN 0 ELSE m - 1 + 1
      BY ONLY <3>1, FS_Interval
    <3> QED
      BY <3>1, <3>2
  <2> QED
    BY <1>2, <1>3, <2>1 DEF Whole
<1>6. PICK visits : visits = Concat([a \in 1..A |-> list])
  OBVIOUS
<1>7. PICK X \in SUBSET (Nat \ {0}) : X = Students
  BY <1>3
<1>8. LinkStudents = ChainOf(FoldLeft(Link, Unlinked(X), visits), m)
  BY <1>1, <1>3, <1>4, <1>6, <1>7 DEF LinkStudents, ChainOf, Unlinked, ClassOf, Sections
<1>9. CASE m # 0
  <2>1. m \in Nat \ {0} /\ list \in Seq(X) /\ m = Len(list) /\ Whole(list, X)
    BY <1>2, <1>5, <1>7, <1>9
  <2>2. visits \in Seq(X) /\ Rounds(visits, list, m) /\ Len(visits) > 0
    BY ONLY <1>6, <2>1, A \in Nat \ {0}, ReadForEach
  <2>3. LinkedTo(FoldLeft(Link, Unlinked(X), visits), list, m, m)
    BY ONLY <2>1, <2>2, X \in SUBSET (Nat \ {0}), AllLinked
  <2>4. list \in [1..m -> X]
    BY ONLY <2>1, OnceEach
  <2>5. ChainOf(FoldLeft(Link, Unlinked(X), visits), m) = list
    BY ONLY <2>1, <2>3, <2>4, X \in SUBSET (Nat \ {0}), ChainIs
  <2> QED
    BY <1>1, <1>2, <1>8, <2>5
<1>10. CASE m = 0
  <2>1. list = <<>>
    BY <1>2, <1>5, <1>10
  <2>2. visits = <<>>
    BY <1>6, <2>1, NobodyVisited
  <2>3. LinkStudents = <<>>
    <3>1. X \in SUBSET Nat
      OBVIOUS
    <3> QED
      BY <1>8, <2>2, <3>1, NobodyLinked
  <2> QED
    BY <1>1, <1>2, <2>1, <2>3
<1> QED
  BY <1>9, <1>10

(* Without an assignment nobody is linked. *)
LEMMA NoneLinked ==
  ASSUME CourseOK(course), course.assignments = <<>>
  PROVE  LinkStudents = <<>>
<1>1. PICK m \in Nat : m = Len(course.students) /\ Students = 1..m
  BY ShapeParts DEF CourseOK, Students
<1>2. PICK X \in SUBSET Nat : X = Students
  BY <1>1
<1>3. Assignments = 1..0
  BY DEF Assignments
<1>4. PICK list : list = Concat([s \in Sections |-> course.sections[s].roster])
  OBVIOUS
<1>5. LinkStudents = ChainOf(FoldLeft(Link, Unlinked(X), Concat([a \in 1..0 |-> list])), m)
  BY <1>1, <1>2, <1>3, <1>4 DEF LinkStudents, ChainOf, Unlinked
<1>6. Concat([a \in 1..0 |-> list]) = <<>>
  BY ONLY 0 \in Nat, NobodyVisited
<1> QED
  BY <1>5, <1>6, NobodyLinked

(* What the reader has seen to: a section is open where an assistant, a      *)
(* student or a score is read, and every student was read in a section.      *)
ReadInv ==
  /\ parse = [where |-> parse.where, errors |-> parse.errors]
  /\ AssignmentsListed(course)
  /\ parse.where \in {"assistant", "student", "score"} => course.sections # <<>>
  /\ \A st \in Students : course.students[st].section # 0

Within == {"assistant", "student", "score"}

(* Where nothing is read for the rosters. *)
LEMMA HeadReads ==
  ASSUME ReadInv, course'.sections = course.sections, course'.students = course.students, AssignmentsListed(course'),
         NEW w, NEW e, parse' = [where |-> w, errors |-> e], w \in Within => parse.where \in Within
  PROVE  ReadInv'
<1>1. parse'.where = w /\ parse' = [where |-> parse'.where, errors |-> parse'.errors]
  OBVIOUS
<1> QED
  BY <1>1 DEF ReadInv, Students, Within

(* What Take and Leave leave. *)
LEMMA TakeLeave ==
  ASSUME ReadInv, NEW w
  PROVE  /\ Take(w) => \E e : parse' = [where |-> w, errors |-> e]
         /\ Leave(w) => course' = course /\ \E e : parse' = [where |-> w, errors |-> e]
<1>1. parse = [where |-> parse.where, errors |-> parse.errors]
  BY DEF ReadInv
<1>2. ASSUME Leave(w) PROVE course' = course /\ \E e : parse' = [where |-> w, errors |-> e]
  <2>1. parse' = [parse EXCEPT !.where = w] /\ course' = course
    BY <1>2 DEF Leave
  <2>2. parse' = [where |-> w, errors |-> parse.errors]
    BY ONLY <1>1, <2>1
  <2> QED
    BY <2>1, <2>2
<1> QED
  BY <1>2 DEF Take

(* The fields of a course. *)
LEMMA CourseFields ==
  ASSUME NEW c, CourseOK(c)
  PROVE  /\ c = [professor |-> c.professor, assignments |-> c.assignments, sections |-> c.sections, students |-> c.students]
         /\ Len(c.sections) \in Nat /\ DOMAIN c.sections = 1..Len(c.sections)
         /\ Len(c.students) \in Nat /\ DOMAIN c.students = 1..Len(c.students)
         /\ (c.sections # <<>> <=> Len(c.sections) # 0)
         /\ \E T : c.sections \in Seq(T) /\ c.students \in Seq(T)
<1>1. PICK X : Shape(c, X)
  BY DEF CourseOK
<1>2. PICK T : ASection(X) \subseteq T /\ AStudent(X) \subseteq T
  <2>1. PICK T : T = ASection(X) \cup AStudent(X)
    OBVIOUS
  <2> QED
    BY <2>1
<1>3. c.sections \in Seq(ASection(X)) /\ c.students \in Seq(AStudent(X))
  BY <1>1, ShapeParts
<1>4. c.sections \in Seq(T) /\ c.students \in Seq(T)
  BY ONLY <1>2, <1>3, SeqGrows
<1>5. c.sections # <<>> <=> Len(c.sections) # 0
  BY ONLY <1>4
<1> QED
  BY <1>1, <1>4, <1>5, ShapeParts

(* The reader keeps to it. *)
LEMMA ReadTurns ==
  ASSUME CourseOK(course), ReadInv, Read
  PROVE  ReadInv'
<1>1. AssignmentsListed(course) /\ parse = [where |-> parse.where, errors |-> parse.errors]
  BY DEF ReadInv
<1>0. course = [professor |-> course.professor, assignments |-> course.assignments, sections |-> course.sections,
                students |-> course.students]
  BY CourseFields
<1>2. ASSUME NEW w, NEW e, course' = course, parse' = [where |-> w, errors |-> e], w \in Within => parse.where \in Within
      PROVE  ReadInv'
  BY <1>1, <1>2, HeadReads
<1>3. ASSUME NEW w, Leave(w), w \in Within => parse.where \in Within PROVE ReadInv'
  BY <1>2, <1>3, TakeLeave
<1>4. ASSUME Fatal PROVE ReadInv'
  <2>1. Leave("fatal") /\ "fatal" \notin Within
    BY <1>4 DEF Fatal, Within
  <2> QED
    BY <1>3, <2>1
<1>5. ASSUME NEW v, course' = [course EXCEPT !.assignments = v], \E X : v \in Seq(X), Take("option")
      PROVE  ReadInv'
  <2>1. course' = [professor |-> course.professor, assignments |-> v, sections |-> course.sections, students |-> course.students]
    BY ONLY <1>5, <1>0
  <2>2. AssignmentsListed(course')
    BY <1>5, <2>1 DEF AssignmentsListed
  <2>3. \E e : parse' = [where |-> "option", errors |-> e]
    BY <1>5, TakeLeave
  <2>4. "option" \notin Within
    BY DEF Within
  <2> QED
    BY <2>1, <2>2, <2>3, <2>4, HeadReads
<1>6. CASE ReadCourse
  <2>1. CASE AtEnd
    BY <1>4, <1>6, <2>1 DEF ReadCourse
  <2>2. CASE ~AtEnd
    <3>1. course' = course /\ parse' = [where |-> "professor", errors |-> Token # "COURSE"] /\ "professor" \notin Within
      BY <1>6, <2>2 DEF ReadCourse, Within
    <3> QED
      BY <1>2, <3>1
  <2> QED
    BY <2>1, <2>2
<1>7. CASE ReadProfessor
  <2>1. "assignment" \notin Within
    BY DEF Within
  <2>2. CASE Token = "PROFESSOR"
    <3>1. Take("assignment") /\ course' = [course EXCEPT !.professor = TRUE]
      BY <1>7, <2>2 DEF ReadProfessor
    <3>2. course' = [professor |-> TRUE, assignments |-> course.assignments, sections |-> course.sections, students |-> course.students]
      BY ONLY <3>1, <1>0
    <3>3. AssignmentsListed(course')
      BY <1>1, <3>2 DEF AssignmentsListed
    <3>4. \E e : parse' = [where |-> "assignment", errors |-> e]
      BY <3>1, TakeLeave
    <3> QED
      BY <2>1, <3>2, <3>3, <3>4, HeadReads
  <2>3. CASE Token # "PROFESSOR"
    BY <1>3, <1>7, <2>1, <2>3 DEF ReadProfessor
  <2> QED
    BY <2>2, <2>3
<1>8. CASE ReadAssignment
  <2>1. CASE Token = "ASSIGNMENT"
    <3>1. PICK old, a : /\ a = [name |-> Line.name, atype |-> Line.atype, weight |-> Unset, policy |-> "RAW",
                                group |-> "BYCLASS", max |-> 0, mean |-> old, stddev |-> old, scale |-> old]
                        /\ course' = [course EXCEPT !.assignments = Append(@, a)]
      BY <1>8, <2>1 DEF ReadAssignment
    <3>2. PICK v : v = Append(course.assignments, a)
      OBVIOUS
    <3>3. course' = [course EXCEPT !.assignments = v]
      BY ONLY <3>1, <3>2
    <3>4. PICK X : course.assignments \in Seq(X)
      BY <1>1 DEF AssignmentsListed
    <3>5. PICK Y : Y = X \cup {a}
      OBVIOUS
    <3>6. course.assignments \in Seq(Y) /\ a \in Y
      BY <3>4, <3>5, SeqGrows
    <3>7. v \in Seq(Y)
      BY ONLY <3>2, <3>6, AppendProperties
    <3>8. Take("option")
      BY <1>8, <2>1 DEF ReadAssignment
    <3> QED
      BY <1>5, <3>3, <3>7, <3>8
  <2>2. CASE Token # "ASSIGNMENT"
    <3>1. Leave("section") /\ "section" \notin Within
      BY <1>8, <2>2 DEF ReadAssignment, Within
    <3> QED
      BY <1>3, <3>1
  <2> QED
    BY <2>1, <2>2
<1>9. CASE ReadOption
  <2>1. CASE Token \in {"WEIGHT", "NORMALIZE", "MAXIMUM"}
    <3>1. PICK x, v : v = [course.assignments EXCEPT ![Len(course.assignments)] = x] /\ course' = [course EXCEPT !.assignments = v]
      <4>1. PICK v : v = [course.assignments EXCEPT ![Len(course.assignments)] = WithOption(@, Line)]
        OBVIOUS
      <4>2. PICK x : x = WithOption(course.assignments[Len(course.assignments)], Line)
        OBVIOUS
      <4>3. course' = [course EXCEPT !.assignments = v]
        BY <1>9, <2>1, <4>1 DEF ReadOption
      <4> QED
        BY ONLY <4>1, <4>2, <4>3
    <3>2. PICK X : course.assignments \in Seq(X)
      BY <1>1 DEF AssignmentsListed
    <3>3. PICK Y : Y = X \cup {x}
      OBVIOUS
    <3>4. course.assignments \in Seq(Y) /\ x \in Y
      BY <3>2, <3>3, SeqGrows
    <3>5. PICK s \in Seq(Y) : s = course.assignments
      BY <3>4
    <3>6. v \in Seq(Y)
      <4>1. s \in [DOMAIN s -> Y]
        OBVIOUS
      <4>2. v = [s EXCEPT ![Len(s)] = x]
        BY ONLY <3>1, <3>5
      <4>3. v \in [DOMAIN s -> Y]
        BY ONLY <3>4, <4>1, <4>2
      <4> QED
        BY ONLY s \in Seq(Y), <4>3, SeqChanges
    <3>7. Take("option")
      BY <1>9, <2>1 DEF ReadOption
    <3> QED
      BY <1>5, <3>1, <3>6, <3>7
  <2>2. CASE Token \notin {"WEIGHT", "NORMALIZE", "MAXIMUM"}
    <3>1. Leave("assignment") /\ "assignment" \notin Within
      BY <1>9, <2>2 DEF ReadOption, Within
    <3> QED
      BY <1>3, <3>1
  <2> QED
    BY <2>1, <2>2
<1>10. CASE ReadSection
  <2>1. parse.where = "section" /\ "section" \notin Within /\ "eof" \notin Within
    BY <1>10 DEF ReadSection, Within
  <2>2. CASE Token = "SECTION"
    <3>1. Take("assistant") /\ course' = [course EXCEPT !.sections = Append(@, [name |-> Line.name, assistant |-> FALSE, roster |-> <<>>])]
      BY <1>10, <2>2 DEF ReadSection
    <3>2. PICK x, v : v = Append(course.sections, x) /\ course' = [course EXCEPT !.sections = v]
      BY <3>1
    <3>3. course' = [professor |-> course.professor, assignments |-> course.assignments, sections |-> v, students |-> course.students]
      BY ONLY <3>2, <1>0
    <3>4. v # <<>>
      <4>1. PICK T : course.sections \in Seq(T)
        BY CourseFields
      <4>2. PICK Y : Y = T \cup {x}
        OBVIOUS
      <4>3. course.sections \in Seq(Y) /\ x \in Y
        BY <4>1, <4>2, SeqGrows
      <4>4. Len(v) = Len(course.sections) + 1 /\ Len(course.sections) \in Nat
        BY ONLY <3>2, <4>3, AppendProperties
      <4>5. Len(<<>>) = 0
        OBVIOUS
      <4> QED
        BY <4>4, <4>5
    <3>5. PICK e : parse' = [where |-> "assistant", errors |-> e]
      BY <3>1, TakeLeave
    <3>6. AssignmentsListed(course')
      BY <1>1, <3>3 DEF AssignmentsListed
    <3> QED
      BY <3>3, <3>4, <3>5, <3>6 DEF ReadInv, Students
  <2>3. CASE Token = "FILE"
    <3>1. IncludeFile
      BY <1>10, <2>3 DEF ReadSection
    <3>2. CASE Fatal
      BY <1>4, <3>2
    <3>3. CASE ~Fatal
      <4>1. parse' = [parse EXCEPT !.errors = @ \/ Line.bad] /\ course' = course
        BY <3>1, <3>3 DEF IncludeFile
      <4>2. parse' = [where |-> parse.where, errors |-> parse.errors \/ Line.bad]
        BY ONLY <1>1, <4>1
      <4> QED
        BY <1>2, <4>1, <4>2
    <3> QED
      BY <3>2, <3>3
  <2>4. CASE Token \notin {"SECTION", "FILE"}
    <3>1. Leave("eof") \/ UNCHANGED <<parse, course>>
      BY <1>10, <2>4 DEF ReadSection
    <3> QED
      BY <1>1, <1>2, <1>3, <2>1, <3>1
  <2> QED
    BY <2>2, <2>3, <2>4
<1>11. ASSUME parse.where \in Within, course'.students = course.students, course'.assignments = course.assignments,
              Len(course'.sections) = Len(course.sections), CourseOK(course'), NEW w, NEW e, parse' = [where |-> w, errors |-> e]
       PROVE  ReadInv'
  <2>1. course.sections # <<>>
    BY <1>11 DEF ReadInv, Within
  <2>2. course'.sections # <<>>
    <3>1. Len(course.sections) # 0
      BY <2>1, CourseFields
    <3>2. Len(course'.sections) # 0
      BY ONLY <1>11, <3>1
    <3> QED
      BY <1>11, <3>2, CourseFields
  <2>3. AssignmentsListed(course')
    BY <1>1, <1>11 DEF AssignmentsListed
  <2> QED
    BY <1>11, <2>2, <2>3 DEF ReadInv, Students
<1>12. CASE ReadAssistant
  <2>1. parse.where \in Within /\ CourseOK(course')
    BY <1>12, ReadKeeps DEF ReadAssistant, Within
  <2>2. CASE Token = "ASSISTANT"
    <3>1. Take("student") /\ course' = [course EXCEPT !.sections[Section].assistant = TRUE]
      BY <1>12, <2>2 DEF ReadAssistant
    <3>2. PICK x, v : v = [course.sections EXCEPT ![Section] = x] /\ course' = [course EXCEPT !.sections = v]
      BY <3>1
    <3>3. course' = [professor |-> course.professor, assignments |-> course.assignments, sections |-> v, students |-> course.students]
      BY ONLY <3>2, <1>0
    <3>4. Len(v) = Len(course.sections)
      <4>1. DOMAIN v = 1..Len(course.sections) /\ Len(course.sections) \in Nat
        BY <3>2, CourseFields
      <4>2. Len(v) \in Nat /\ DOMAIN v = 1..Len(v)
        BY <2>1, <3>3, CourseFields
      <4> QED
        BY ONLY <4>1, <4>2
    <3>5. PICK e : parse' = [where |-> "student", errors |-> e]
      BY <3>1, TakeLeave
    <3> QED
      BY <1>11, <2>1, <3>3, <3>4, <3>5
  <2>3. CASE Token # "ASSISTANT"
    BY <1>3, <1>12, <2>1, <2>3 DEF ReadAssistant
  <2> QED
    BY <2>2, <2>3
<1>13. CASE ReadStudent
  <2>1. CASE Token = "STUDENT"
    <3>1. PICK n, m : n = Len(course.sections) /\ m = Len(course.students)
      OBVIOUS
    <3>2. course.sections # <<>> /\ n \in Nat \ {0} /\ m \in Nat
      BY <1>13, <3>1, CourseFields DEF ReadStudent, ReadInv
    <3>3. PICK x, y, u, v : /\ x = [id |-> Line.id, name |-> Line.name, section |-> n, scores |-> <<>>]
                            /\ u = Append(course.students, x) /\ v = [course.sections EXCEPT ![n] = y]
                            /\ course' = [course EXCEPT !.students = u, !.sections = v]
      <4>1. course' = [course EXCEPT !.students = Append(@, [id |-> Line.id, name |-> Line.name, section |-> n, scores |-> <<>>]),
                                     !.sections[n].roster = Append(@, m + 1)]
        BY <1>13, <2>1, <3>1 DEF ReadStudent, Section, Student
      <4> QED
        BY ONLY <4>1
    <3>4. course' = [professor |-> course.professor, assignments |-> course.assignments, sections |-> v, students |-> u]
      BY ONLY <3>3, <1>0
    <3>5. DOMAIN v = 1..n
      BY ONLY <3>1, <3>3, CourseOK(course), CourseFields
    <3>6. v # <<>>
      <4>1. 1 \in DOMAIN v /\ DOMAIN <<>> = {}
        BY <3>2, <3>5
      <4> QED
        BY <4>1
    <3>7. /\ DOMAIN u = 1..(m + 1) /\ u[m + 1] = x /\ \A st \in 1..m : u[st] = course.students[st]
      <4>1. PICK T : course.students \in Seq(T)
        BY CourseFields
      <4>2. PICK Y : Y = T \cup {x}
        OBVIOUS
      <4>3. PICK r \in Seq(Y) : r = course.students /\ x \in Y
        BY <4>1, <4>2, SeqGrows
      <4>4. m = Len(r) /\ u = Append(r, x)
        BY <3>1, <3>3, <4>3
      <4>5. Append(r, x) \in Seq(Y) /\ Len(Append(r, x)) = Len(r) + 1 /\ Append(r, x)[Len(r) + 1] = x
            /\ \A i \in 1..Len(r) : Append(r, x)[i] = r[i]
        BY ONLY <4>3, AppendProperties
      <4>6. DOMAIN u = 1..Len(u)
        BY ONLY <4>4, <4>5
      <4> QED
        BY ONLY <4>3, <4>4, <4>5, <4>6
    <3>8. ASSUME NEW st \in DOMAIN u PROVE u[st].section # 0
      <4>1. CASE st = m + 1
        BY <3>2, <3>3, <3>7, <4>1
      <4>2. CASE st # m + 1
        <5>1. st \in 1..m /\ st \in Students
          <6>1. st \in 1..m
            BY <3>2, <3>7, <4>2
          <6> QED
            BY <3>1, <6>1, CourseFields DEF Students
        <5> QED
          BY <3>7, <5>1 DEF ReadInv
      <4> QED
        BY <4>1, <4>2
    <3>9. PICK e : parse' = [where |-> "score", errors |-> e]
      <4>1. Take("score")
        BY <1>13, <2>1 DEF ReadStudent
      <4> QED
        BY <4>1, TakeLeave
    <3>10. AssignmentsListed(course')
      BY <1>1, <3>4 DEF AssignmentsListed
    <3> QED
      BY <3>4, <3>6, <3>8, <3>9, <3>10 DEF ReadInv, Students
  <2>2. CASE Token # "STUDENT"
    <3>1. Leave("section") /\ "section" \notin Within
      BY <1>13, <2>2 DEF ReadStudent, Within
    <3> QED
      BY <1>3, <3>1
  <2> QED
    BY <2>1, <2>2
<1>14. CASE ReadScore
  <2>1. parse.where \in Within
    BY <1>14 DEF ReadScore, Within
  <2>2. CASE Token # "SCORE"
    BY <1>3, <1>14, <2>1, <2>2 DEF ReadScore
  <2>3. CASE Fatal
    BY <1>4, <2>3
  <2>4. CASE Token = "SCORE" /\ ~Fatal
    <3>1. PICK x : Take("score") /\ course' = [course EXCEPT !.students[Student].scores = Append(@, x)]
      BY <1>14, <2>4 DEF ReadScore
    <3>2. PICK v, u : /\ course' = [course EXCEPT !.students = u] /\ u = [course.students EXCEPT ![Student].scores = v]
      <4>1. PICK v : v = Append(course.students[Student].scores, x)
        OBVIOUS
      <4>2. course' = [course EXCEPT !.students[Student].scores = v]
        BY ONLY <3>1, <4>1
      <4> QED
        BY ONLY <4>2
    <3>3. course' = [professor |-> course.professor, assignments |-> course.assignments, sections |-> course.sections, students |-> u]
      BY ONLY <3>2, <1>0
    <3>4. DOMAIN u = Students
      BY <3>2 DEF Students
    <3>5. ASSUME NEW st \in Students PROVE u[st].section = course.students[st].section
      <4>1. PICK X : Shape(course, X)
        BY DEF CourseOK
      <4>2. course.students[st] \in AStudent(X)
        BY <4>1, ShapeParts DEF Students
      <4>3. \A z \in AStudent(X) : [z EXCEPT !.scores = v].section = z.section
        BY DEF AStudent
      <4>4. u[st] = IF st = Student THEN [course.students[st] EXCEPT !.scores = v] ELSE course.students[st]
        BY <3>2 DEF Students
      <4> QED
        BY <4>2, <4>3, <4>4
    <3>6. PICK e : parse' = [where |-> "score", errors |-> e]
      BY <3>1, TakeLeave
    <3>7. AssignmentsListed(course')
      BY <1>1, <3>3 DEF AssignmentsListed
    <3>8. course.sections # <<>>
      BY <2>1 DEF ReadInv, Within
    <3> QED
      BY <3>3, <3>4, <3>5, <3>6, <3>7, <3>8 DEF ReadInv, Students
  <2> QED
    BY <2>2, <2>3, <2>4
<1>15. CASE ExpectEof
  <2>1. course' = course /\ "done" \notin Within
        /\ parse' = [where |-> "done", errors |-> parse.errors \/ ~(Rest \subseteq {""}) \/ Len(stack) > 1]
    BY <1>15 DEF ExpectEof, Within
  <2> QED
    BY <1>2, <2>1
<1> QED
  BY <1>6, <1>7, <1>8, <1>9, <1>10, <1>12, <1>13, <1>14, <1>15 DEF Read

(* The list of the class has no number but a student's, and every student    *)
(* once where there is an assignment to link them for.                      *)
Unread == {"options", "usage", "reading", "failed"}
ClassInv ==
  phase \notin Unread => Range(roster) \subseteq Students /\ (course.assignments = <<>> \/ Whole(roster, Students))

RunInv == BookInv /\ ReadInv /\ ClassInv

(* The first state has read nothing. *)
LEMMA RunInit == Init => RunInv
<1> SUFFICES ASSUME Init PROVE RunInv
  OBVIOUS
<1>1. /\ parse = [where |-> "course", errors |-> FALSE] /\ phase = "options"
      /\ course = [professor |-> FALSE, assignments |-> <<>>, sections |-> <<>>, students |-> <<>>]
  BY DEF Init, Begun, NoCourse
<1>2. <<>> \in Seq({})
  OBVIOUS
<1>3. ReadInv
  BY <1>1, <1>2 DEF ReadInv, Within, AssignmentsListed, Students
<1> QED
  BY <1>1, <1>3, BookInit DEF RunInv, ClassInv, Unread

(* Reading, counting and the end. *)
LEMMA SameCourse ==
  ASSUME ReadInv, ClassInv, UNCHANGED <<parse, course, roster>>, phase' \in Unread \/ phase \notin Unread
  PROVE  ReadInv' /\ ClassInv'
BY DEF ReadInv, ClassInv, AssignmentsListed, Students

(* Every step keeps what is known of the run. *)
LEMMA RunStep ==
  ASSUME RunInv, [Next]_vars
  PROVE  RunInv'
<1>1. BookInv /\ ReadInv /\ ClassInv /\ CourseOK(course) /\ BookInv'
  BY BookStep DEF RunInv, BookInv
<1>2. CASE UNCHANGED vars
  BY <1>1, <1>2, SameCourse DEF vars, readerVars, bookVars, RunInv
<1>3. CASE Options \/ GiveUp
  <2>1. phase' \in Unread /\ UNCHANGED <<parse, course, roster>>
    BY <1>3 DEF Options, GiveUp, readerVars, Unread
  <2> QED
    BY <1>1, <2>1, SameCourse DEF RunInv
<1>4. CASE Reading
  <2>1. phase' = "reading" /\ Read
    BY <1>4 DEF Reading, bookVars
  <2> QED
    BY <1>1, <2>1, ReadTurns DEF RunInv, ClassInv, Unread
<1>5. CASE Statistics
  <2>1. UNCHANGED <<parse, course>> /\ roster' = LinkStudents
    BY <1>5 DEF Statistics, readerVars
  <2>2. ReadInv'
    BY <1>1, <2>1 DEF ReadInv, AssignmentsListed, Students
  <2>3. CASE course.assignments = <<>>
    <3>1. roster' = <<>> /\ Range(<<>>) = {}
      BY <1>1, <2>1, <2>3, NoneLinked DEF Range
    <3> QED
      BY <1>1, <2>1, <2>2, <2>3, <3>1 DEF RunInv, ClassInv
  <2>4. CASE course.assignments # <<>>
    <3>1. Whole(roster', Students)
      BY <1>1, <2>1, <2>4, LinkedOnce DEF ReadInv
    <3> QED
      BY <1>1, <2>1, <2>2, <3>1 DEF RunInv, ClassInv, Students, Whole
  <2> QED
    BY <2>3, <2>4
<1>6. CASE Normalize
  <2>1. UNCHANGED <<parse, roster>> /\ phase = "normalize"
    BY <1>6 DEF Normalize
  <2>2. PICK v : course' = [course EXCEPT !.assignments = v] /\ DOMAIN v = Assignments /\ v = [a \in Assignments |-> v[a]]
    <3>1. PICK v : v = [a \in Assignments |->
                          IF course.assignments[a].policy = "SCALE" /\ stats[a].class.valid > 0
                          THEN [course.assignments[a] EXCEPT !.max = AtLeastTiny(@)] ELSE course.assignments[a]]
      OBVIOUS
    <3>2. course' = [course EXCEPT !.assignments = v]
      BY <1>6, <3>1 DEF Normalize
    <3>3. DOMAIN v = Assignments /\ v = [a \in Assignments |-> v[a]]
      BY ONLY <3>1
    <3> QED
      BY <3>2, <3>3
  <2>3. course' = [professor |-> course.professor, assignments |-> v, sections |-> course.sections, students |-> course.students]
    <3>1. course = [professor |-> course.professor, assignments |-> course.assignments, sections |-> course.sections,
                    students |-> course.students]
      BY <1>1, CourseFields
    <3> QED
      BY ONLY <2>2, <3>1
  <2>4. PICK A \in Nat : Assignments = 1..A /\ (course.assignments = <<>> => A = 0)
    <3>1. PICK Y : course.assignments \in Seq(Y)
      BY <1>1 DEF ReadInv, AssignmentsListed
    <3> QED
      BY <3>1 DEF Assignments
  <2>5. v \in Seq({v[a] : a \in 1..A})
    <3>1. v \in [1..A -> {v[a] : a \in 1..A}]
      BY <2>2, <2>4
    <3> QED
      BY <3>1
  <2>6. course.assignments = <<>> => v = <<>>
    BY <2>2, <2>4
  <2>7. ReadInv'
    BY <1>1, <2>1, <2>3, <2>5 DEF ReadInv, AssignmentsListed, Students
  <2>8. ClassInv'
    BY <1>1, <2>1, <2>3, <2>6 DEF ClassInv, Students, Unread
  <2> QED
    BY <1>1, <2>7, <2>8 DEF RunInv
<1>7. CASE Composites \/ SortRoster \/ SortTable \/ CheckForDups \/ Collate \/ Report \/ FreeCourse
  <2>1. UNCHANGED <<parse, course, roster>>
    BY <1>7 DEF Composites, SortRoster, SortTable, CheckForDups, Collate, Report, FreeCourse, readerVars
  <2>2. phase \notin Unread
    <3>1. CASE SortTable
      BY <1>1, <3>1 DEF SortTable, BookInv, SortingOK, Unread
    <3> QED
      BY <1>7, <3>1 DEF Composites, SortRoster, CheckForDups, Collate, Report, FreeCourse, Unread
  <2> QED
    BY <1>1, <2>1, <2>2, SameCourse DEF RunInv
<1>8. CASE Relink
  <2>1. sorting.busy /\ UNCHANGED <<parse, phase>>
    BY <1>8 DEF Relink
  <2>2. phase \notin Unread /\ Range(sorting.tab) = Range(List(sorting.list)) /\ Len(sorting.tab) = Len(List(sorting.list))
    BY <1>1, <2>1 DEF BookInv, SortingOK, Unread
  <2>3. CASE sorting.list = 0
    <3>1. roster' = sorting.tab /\ course' = course /\ List(sorting.list) = roster
      BY <1>8, <2>3 DEF Relink, List
    <3> QED
      BY <1>1, <2>1, <2>2, <3>1 DEF RunInv, ReadInv, ClassInv, AssignmentsListed, Students, Whole
  <2>4. CASE sorting.list # 0
    <3>1. PICK v : course' = [course EXCEPT !.sections = v] /\ DOMAIN v = DOMAIN course.sections /\ roster' = roster
      <4>1. PICK v : v = [course.sections EXCEPT ![sorting.list].roster = sorting.tab]
        OBVIOUS
      <4>2. course' = [course EXCEPT !.sections = v] /\ roster' = roster
        BY <1>8, <2>4, <4>1 DEF Relink
      <4> QED
        BY <4>1, <4>2
    <3>2. course' = [professor |-> course.professor, assignments |-> course.assignments, sections |-> v, students |-> course.students]
      <4>1. course = [professor |-> course.professor, assignments |-> course.assignments, sections |-> course.sections,
                      students |-> course.students]
        BY <1>1, CourseFields
      <4> QED
        BY ONLY <3>1, <4>1
    <3>3. course.sections # <<>> => v # <<>>
      <4>1. DOMAIN v = 1..Len(course.sections) /\ Len(course.sections) \in Nat /\ (course.sections # <<>> => Len(course.sections) # 0)
        BY <1>1, <3>1, CourseFields
      <4>2. ASSUME v = <<>>, Len(course.sections) # 0 PROVE FALSE
        <5>1. 1 \in DOMAIN v
          BY ONLY <4>1, <4>2
        <5>2. DOMAIN v = {}
          BY ONLY <4>2
        <5> QED
          BY ONLY <5>1, <5>2
      <4> QED
        BY <4>1, <4>2
    <3> QED
      BY <1>1, <2>1, <3>1, <3>2, <3>3 DEF RunInv, ReadInv, ClassInv, AssignmentsListed, Students
  <2> QED
    BY <2>3, <2>4
<1>9. CASE RunAgain
  <2>1. /\ parse' = [where |-> "course", errors |-> FALSE] /\ phase' = "options"
        /\ course' = [professor |-> FALSE, assignments |-> <<>>, sections |-> <<>>, students |-> <<>>]
    BY <1>9 DEF RunAgain, Begun, NoCourse
  <2>2. <<>> \in Seq({})
    OBVIOUS
  <2>3. ReadInv'
    BY <2>1, <2>2 DEF ReadInv, Within, AssignmentsListed, Students
  <2> QED
    BY <1>1, <2>1, <2>3 DEF RunInv, ClassInv, Unread
<1> QED
  BY <1>2, <1>3, <1>4, <1>5, <1>6, <1>7, <1>8, <1>9 DEF Next

(* However many assignments the class is linked for, and however it was      *)
(* sorted since: its list has every student of every section once (stats.c  *)
(* do_links, sort.c).                                                       *)
THEOREM ClassKept == Spec => []ClassWhole
<1>1. RunInv => ClassWhole
  BY DEF RunInv, ClassInv, ClassWhole, Unread
<1> QED
  BY <1>1, RunInit, RunStep, PTL DEF Spec

(* Where the names, ids and scores are numbers, a finished sort has every    *)
(* list in the order of its key, and any two students of one name next to   *)
(* each other were noticed (sort.c, checkfordups).                          *)
THEOREM RostersOrdered == Spec => [](Numbered => InKeyOrder /\ DupsNoticed)
<1>1. RunInv => RosterOK
  BY DEF RunInv, ClassInv, RosterOK, SortPhases, Unread
<1>2. Init => RunInv /\ KeyInv
  BY RunInit, KeyInit
<1>3. RunInv /\ KeyInv /\ [Next]_vars => RunInv' /\ KeyInv'
  BY <1>1, RunStep, KeyStep DEF RunInv
<1>4. RunInv /\ KeyInv => (Numbered => InKeyOrder /\ DupsNoticed)
  BY <1>1, KeyedAreOrdered DEF RunInv
<1> QED
  BY <1>2, <1>3, <1>4, PTL DEF Spec

----------------------------------------------------------------------------
(* How deep the calls go *)

(* What partition keeps of the part low..high-1 of a table: nothing is at    *)
(* the high end before the first entry equal to the pivot; and while nothing *)
(* is at the low end all that was set aside moved one place down, but the    *)
(* first entry, which is last, and at most one of it is equal to the pivot.  *)
Moved(q, table, low, high) ==
  /\ \A i \in (low + 2)..q.h : q.tab[i] = table[i]
  /\ q.tab[high] = table[low + 1]
  /\ \A i \in (q.h + 1)..(high - 1) : q.tab[i] = table[i + 1]
  /\ low < q.h => q.tab[low + 1] = table[q.h + 1]

Above(q, high, key, pv) ==
  /\ \A i \in (q.h + 1)..high : key[q.tab[i]] >= pv /\ (q.alt = 1 => key[q.tab[i]] > pv)
  /\ \A i, j \in (q.h + 1)..high : i # j => key[q.tab[i]] > pv \/ key[q.tab[j]] > pv

Goes(q, table, low, high, key, pv) ==
  /\ q.alt \in {1, -1}
  /\ q.h = high => q.tab = table /\ q.alt = 1 /\ \A i \in (low + 1)..q.l : key[table[i]] < pv
  /\ q.l = low => Above(q, high, key, pv) /\ (q.h < high => Moved(q, table, low, high))

(* Where things are before a turn, and what it does with the entry at l. *)
AtTurn(q, r, table, n, V, low, high, key, pv) ==
  /\ n \in Nat /\ low \in Nat /\ high \in Nat /\ high <= n /\ key \in [V -> Int] /\ pv \in Int
  /\ table \in [1..n -> V] /\ q.tab \in [1..n -> V] /\ r.tab \in [1..n -> V]
  /\ q.l \in low..high /\ q.h \in low..high /\ q.l < q.h
  /\ SetAside(r, q, n, key[q.tab[q.l + 1]] - pv)

(* A turn that leaves l where it began has an entry above the pivot. *)
LEMMA TurnMoves ==
  ASSUME NEW q, NEW r, NEW table, NEW n, NEW V, NEW low, NEW high, NEW key, NEW pv,
         AtTurn(q, r, table, n, V, low, high, key, pv), Goes(q, table, low, high, key, pv), r.l = low
  PROVE  Above(r, high, key, pv) /\ r.h < high /\ Moved(r, table, low, high)
<1>1. /\ n \in Nat /\ low \in Nat /\ high \in Nat /\ high <= n /\ key \in [V -> Int] /\ pv \in Int
      /\ table \in [1..n -> V] /\ q.tab \in [1..n -> V] /\ r.tab \in [1..n -> V]
      /\ q.l \in low..high /\ q.h \in low..high /\ q.l < q.h
  BY DEF AtTurn
<1>0. PICK l, g : l = q.l /\ g = q.h
  OBVIOUS
<1>a. /\ n \in Nat /\ low \in Nat /\ high \in Nat /\ high <= n
      /\ l \in low..high /\ g \in low..high /\ l < g
  BY ONLY <1>0, <1>1
<1>2. PICK x \in V, c \in Int : x = q.tab[q.l + 1] /\ c = key[x] - pv /\ key[x] \in Int
  <2>1. l + 1 \in 1..n
    BY ONLY <1>a
  <2>2. PICK x \in V : x = q.tab[l + 1]
    BY <1>1, <2>1
  <2>3. PICK y \in Int : y = key[x]
    BY <1>1
  <2>4. PICK c \in Int : c = y - pv
    BY <1>1
  <2> QED
    BY <1>0, <2>2, <2>3, <2>4
<1>3. SetAside(r, q, n, c)
  BY <1>2 DEF AtTurn
<1>4. /\ q.l = low /\ r.h = q.h - 1 /\ r.tab[q.h] = x /\ r.tab[low + 1] = q.tab[q.h] /\ x = q.tab[low + 1]
      /\ \A i \in 1..n : i # low + 1 /\ i # q.h => r.tab[i] = q.tab[i]
      /\ r.alt = IF c = 0 THEN -q.alt ELSE q.alt
      /\ c > 0 \/ (c = 0 /\ q.alt > 0)
  <2>1. ~(low = l + 1)
    BY ONLY <1>a
  <2> QED
    BY <1>0, <1>2, <1>3, <2>1 DEF SetAside
<1>5. PICK h \in (low + 1)..high, rt \in [1..n -> V], qt \in [1..n -> V] : h = q.h /\ r.h = h - 1 /\ rt = r.tab /\ qt = q.tab
  <2>1. g \in (low + 1)..high
    BY ONLY <1>a
  <2> QED
    BY <1>0, <1>1, <1>4, <2>1
<1>b. n \in Nat /\ low \in Nat /\ high \in Nat /\ high <= n /\ h \in (low + 1)..high
  BY <1>1, <1>5
<1>6. /\ rt[h] = x /\ rt[low + 1] = qt[h] /\ x = qt[low + 1]
      /\ \A i \in 1..n : i # low + 1 /\ i # h => rt[i] = qt[i]
  BY ONLY <1>4, <1>5
<1>7. q.alt \in {1, -1} /\ Above(q, high, key, pv) /\ (h < high => Moved(q, table, low, high)) /\ (h = high => qt = table /\ q.alt = 1)
  BY <1>4, <1>5 DEF Goes
<1>8. Above(r, high, key, pv)
  <2>1. ASSUME NEW i \in h..high PROVE i = h \/ (i \in (h + 1)..high /\ rt[i] = qt[i])
    <3>1. i = h \/ (i \in (h + 1)..high /\ i \in 1..n /\ i # low + 1 /\ i # h)
      BY ONLY <1>b, i \in h..high
    <3> QED
      BY ONLY <1>6, <3>1
  <2>2. /\ \A i \in (h + 1)..high : key[qt[i]] >= pv /\ (q.alt = 1 => key[qt[i]] > pv)
        /\ \A i, j \in (h + 1)..high : i # j => key[qt[i]] > pv \/ key[qt[j]] > pv
    BY <1>5, <1>7 DEF Above
  <2>3. PICK y \in Int : y = key[x] /\ c = y - pv /\ pv \in Int
    BY <1>1, <1>2
  <2>0. PICK b : b = r.alt
    OBVIOUS
  <2>a. PICK a \in {1, -1} : a = q.alt /\ b = r.alt
    BY <1>7, <2>0
  <2>b. (c > 0 \/ (c = 0 /\ a > 0)) /\ b = IF c = 0 THEN -a ELSE a
    BY ONLY <1>4, <2>a
  <2>4. (y > pv /\ b = a) \/ (y = pv /\ a = 1 /\ b # 1)
    BY ONLY <2>3, <2>a, <2>b, c \in Int
  <2>5. ASSUME NEW i \in h..high PROVE key[rt[i]] >= pv /\ (r.alt = 1 => key[rt[i]] > pv)
    <3>1. CASE i = h
      <4>1. rt[i] = x
        BY ONLY <1>6, <3>1
      <4> QED
        BY ONLY <2>3, <2>a, <2>4, <4>1
    <3>2. CASE i # h
      <4>1. i \in (h + 1)..high /\ rt[i] = qt[i]
        BY ONLY <2>1, <3>2, i \in h..high
      <4> QED
        BY ONLY <2>2, <2>a, <2>4, <4>1
    <3> QED
      BY ONLY <3>1, <3>2
  <2>6. ASSUME NEW i \in h..high, NEW j \in h..high, i # j PROVE key[rt[i]] > pv \/ key[rt[j]] > pv
    <3>1. CASE i = h
      <4>1. j \in (h + 1)..high /\ rt[j] = qt[j] /\ rt[i] = x
        BY ONLY <1>6, <2>1, <2>6, <3>1, j \in h..high
      <4> QED
        BY ONLY <2>2, <2>3, <2>a, <2>4, <4>1
    <3>2. CASE j = h
      <4>1. i \in (h + 1)..high /\ rt[i] = qt[i] /\ rt[j] = x
        BY ONLY <1>6, <2>1, <2>6, <3>2, i \in h..high
      <4> QED
        BY ONLY <2>2, <2>3, <2>a, <2>4, <4>1
    <3>3. CASE i # h /\ j # h
      BY ONLY <2>1, <2>2, <2>6, <3>3, i \in h..high, j \in h..high
    <3> QED
      BY ONLY <3>1, <3>2, <3>3
  <2>7. (h - 1) + 1 = h
    BY ONLY <1>b
  <2> QED
    BY ONLY <1>5, <2>5, <2>6, <2>7 DEF Above
<1>9. Moved(r, table, low, high)
  <2>1. CASE h = high
    <3>1. qt = table
      BY <1>7, <2>1
    <3>2. \A i \in (low + 2)..(h - 1) : rt[i] = table[i]
      <4>1. \A i \in (low + 2)..(h - 1) : i \in 1..n /\ i # low + 1 /\ i # h
        BY ONLY <1>b
      <4> QED
        BY ONLY <1>6, <3>1, <4>1
    <3>3. rt[high] = table[low + 1]
      BY ONLY <1>6, <2>1, <3>1
    <3>4. \A i \in h..(high - 1) : FALSE
      BY ONLY <1>b, <2>1
    <3>5. rt[low + 1] = table[h]
      BY ONLY <1>6, <3>1
    <3>6. (h - 1) + 1 = h
      BY ONLY <1>b
    <3> QED
      BY ONLY <1>5, <3>2, <3>3, <3>4, <3>5, <3>6 DEF Moved
  <2>2. CASE h # high
    <3>1. h < high /\ (h - 1) + 1 = h
      BY ONLY <1>b, <2>2
    <3>2. /\ \A i \in (low + 2)..h : qt[i] = table[i]
          /\ qt[high] = table[low + 1]
          /\ \A i \in (h + 1)..(high - 1) : qt[i] = table[i + 1]
          /\ qt[low + 1] = table[h + 1]
      <4>1. low < h
        BY ONLY <1>b
      <4> QED
        BY <1>5, <1>7, <3>1, <4>1 DEF Moved
    <3>3. \A i \in (low + 2)..(h - 1) : rt[i] = table[i]
      <4>1. \A i \in (low + 2)..(h - 1) : i \in 1..n /\ i # low + 1 /\ i # h /\ i \in (low + 2)..h
        BY ONLY <1>b
      <4> QED
        BY ONLY <1>6, <3>2, <4>1
    <3>4. rt[high] = table[low + 1]
      <4>1. high \in 1..n /\ high # low + 1 /\ high # h
        BY ONLY <1>b, <3>1
      <4> QED
        BY ONLY <1>6, <3>2, <4>1
    <3>5. ASSUME NEW i \in h..(high - 1) PROVE rt[i] = table[i + 1]
      <4>1. CASE i = h
        BY ONLY <1>6, <3>2, <4>1
      <4>2. CASE i # h
        <5>1. i \in (h + 1)..(high - 1) /\ i \in 1..n /\ i # low + 1
          BY ONLY <1>b, <4>2, i \in h..(high - 1)
        <5> QED
          BY ONLY <1>6, <3>2, <4>2, <5>1
      <4> QED
        BY ONLY <4>1, <4>2
    <3>6. low < h - 1 => rt[low + 1] = table[h]
      <4>1. low < h - 1 => h \in (low + 2)..h
        BY ONLY <1>b
      <4> QED
        BY ONLY <1>6, <3>2, <4>1
    <3> QED
      BY ONLY <1>5, <3>1, <3>3, <3>4, <3>5, <3>6 DEF Moved
  <2> QED
    BY <2>1, <2>2
<1> QED
  <2>1. h - 1 < high
    BY ONLY <1>b
  <2> QED
    BY <1>5, <1>8, <1>9, <2>1

(* A turn leaves the rest of the loop as the last one found it. *)
LEMMA TurnGoes ==
  ASSUME NEW q, NEW r, NEW table, NEW n, NEW V, NEW low, NEW high, NEW key, NEW pv,
         AtTurn(q, r, table, n, V, low, high, key, pv), Goes(q, table, low, high, key, pv)
  PROVE  Goes(r, table, low, high, key, pv)
<1>1. /\ n \in Nat /\ low \in Nat /\ high \in Nat /\ high <= n /\ key \in [V -> Int] /\ pv \in Int
      /\ q.tab \in [1..n -> V]
      /\ q.l \in low..high /\ q.h \in low..high /\ q.l < q.h
  BY DEF AtTurn
<1>0. PICK l, g, m, d : l = q.l /\ g = q.h /\ m = r.l /\ d = r.h
  OBVIOUS
<1>a. /\ n \in Nat /\ low \in Nat /\ high \in Nat /\ high <= n
      /\ l \in low..high /\ g \in low..high /\ l < g
  BY ONLY <1>0, <1>1
<1>2. PICK x \in V, c \in Int : x = q.tab[l + 1] /\ c = key[x] - pv /\ key[x] \in Int
  <2>1. l + 1 \in 1..n
    BY ONLY <1>a
  <2>2. PICK x \in V : x = q.tab[l + 1]
    BY <1>1, <2>1
  <2>3. PICK y \in Int : y = key[x]
    BY <1>1
  <2>4. PICK c \in Int : c = y - pv
    BY <1>1
  <2> QED
    BY <1>0, <2>2, <2>3, <2>4
<1>3. /\ r.alt = IF c = 0 THEN -q.alt ELSE q.alt
      /\ \/ r.l = q.l /\ r.h = q.h - 1
         \/ ~(c > 0 \/ (c = 0 /\ q.alt > 0)) /\ r.l = q.l + 1 /\ r.h = q.h /\ r.tab = q.tab
  <2>1. SetAside(r, q, n, c)
    BY <1>0, <1>2 DEF AtTurn
  <2> QED
    BY ONLY <2>1 DEF SetAside
<1>4. q.alt \in {1, -1} /\ (q.h = high => q.tab = table /\ q.alt = 1 /\ \A i \in (low + 1)..q.l : key[table[i]] < pv)
  BY DEF Goes
<1>5. r.alt \in {1, -1}
  BY ONLY <1>3, <1>4
<1>6. ASSUME r.h = high PROVE r.tab = table /\ r.alt = 1 /\ \A i \in (low + 1)..r.l : key[table[i]] < pv
  <2>1. ~(d = g - 1)
    BY ONLY <1>0, <1>a, <1>6
  <2>2. g = high /\ m = l + 1 /\ r.tab = q.tab /\ ~(c > 0 \/ (c = 0 /\ q.alt > 0))
    BY ONLY <1>0, <1>3, <1>6, <2>1
  <2>3. q.tab = table /\ q.alt = 1 /\ \A i \in (low + 1)..l : key[table[i]] < pv
    BY ONLY <1>0, <1>4, <2>2
  <2>4. c < 0
    <3>1. ~(c > 0 \/ (c = 0 /\ 1 > 0))
      BY ONLY <2>2, <2>3
    <3> QED
      BY ONLY <3>1, c \in Int
  <2>5. PICK y \in Int : y = key[table[l + 1]] /\ c = y - pv /\ pv \in Int
    BY <1>1, <1>2, <2>3
  <2>6. y < pv
    BY ONLY <2>4, <2>5
  <2>7. \A i \in (low + 1)..m : i \in (low + 1)..l \/ i = l + 1
    BY ONLY <1>a, <2>2
  <2>8. \A i \in (low + 1)..m : key[table[i]] < pv
    BY ONLY <2>3, <2>5, <2>6, <2>7
  <2>9. r.alt = 1
    BY ONLY <1>3, <2>3, <2>4
  <2> QED
    BY ONLY <1>0, <2>2, <2>3, <2>8, <2>9
<1>7. r.l = low => Above(r, high, key, pv) /\ (r.h < high => Moved(r, table, low, high))
  BY TurnMoves
<1> QED
  BY ONLY <1>5, <1>6, <1>7 DEF Goes

(* What a split of two entries or more comes to: some entry is at the high   *)
(* end; and if none is at the low end, the pivot was the least, and the      *)
(* middle of the table now has a greater one.                               *)
Progress(r, table, low, high, key, pos) ==
  /\ r.middle # high
  /\ r.middle = low =>
       /\ \A i \in (low + 1)..high : key[table[i]] >= key[table[pos]]
       /\ \E i \in (low + 1)..high : key[r.tab[i]] < key[r.tab[pos]]

(* partition, of two entries or more, never leaves all of them at one end    *)
(* twice in a row.                                                          *)
THEOREM PartitionProgresses ==
  ASSUME NEW by, NEW V, NEW n \in Nat, NEW table \in [1..n -> V],
         NEW low \in Nat, NEW high \in Nat, low + 1 < high, high <= n, NEW key, ByKey(by, V, key)
  PROVE  Progress(Partition(by, table, low, high), table, low, high, key, (low + high) \div 2 + 1)
<1>1. PICK pos \in (low + 2)..high : pos = (low + high) \div 2 + 1
  OBVIOUS
<1>a. pos \in 1..n /\ pos \in (low + 1)..high /\ pos - 1 \in (low + 1)..(high - 1) /\ pos - 1 # pos /\ (pos - 1) + 1 = pos /\ pos - 1 \in (low + 1)..high
  OBVIOUS
<1>2. PICK pivot \in V : pivot = table[pos]
  BY <1>a
<1>3. PICK pv \in Int : pv = key[pivot]
  BY DEF ByKey
<1>4. PICK N \in Nat : N = high - low
  OBVIOUS
<1>5. PICK p : /\ Turns(p, by, pivot, Start(table, low, high), N)
               /\ Partition(by, table, low, high) = [tab |-> p[N].tab, middle |-> p[N].l]
  <2>1. low <= high
    OBVIOUS
  <2> QED
    BY <1>1, <1>2, <1>4, <2>1, PartitionTurns
<1>6. p[0] = [tab |-> table, l |-> low, h |-> high, alt |-> 1]
  BY <1>5 DEF Turns, Start
<1>7. ASSUME NEW k \in 0..(N - 1)
      PROVE  k + 1 \in 1..N /\ k \in 0..(high - low - 1) /\ p[k + 1] = Turn(by, pivot, p[k])
  <2>1. k + 1 \in 1..N /\ (k + 1) - 1 = k /\ k \in 0..(high - low - 1)
    BY <1>4
  <2> QED
    BY <1>5, <2>1 DEF Turns
<1>8. PICK S : S = {k \in 0..N : Splitting(p[k], table, n, V, low, high, k) /\ Goes(p[k], table, low, high, key, pv)}
  OBVIOUS
<1>9. 0 \in S
  <2>1. Splitting(p[0], table, n, V, low, high, 0)
    BY <1>6 DEF Splitting
  <2>2. p[0].tab = table /\ p[0].l = low /\ p[0].h = high /\ p[0].alt = 1
    BY ONLY <1>6
  <2>3. \A i \in (high + 1)..high : FALSE
    OBVIOUS
  <2>4. \A i \in (low + 1)..low : FALSE
    OBVIOUS
  <2>5. Above(p[0], high, key, pv)
    BY ONLY <2>2, <2>3 DEF Above
  <2>6. Goes(p[0], table, low, high, key, pv)
    BY ONLY <2>2, <2>4, <2>5, high \in Nat DEF Goes
  <2> QED
    BY <1>8, <2>1, <2>6
<1>10. ASSUME NEW k \in 0..(N - 1), k \in S PROVE k + 1 \in S
  <2>1. PICK q, r : q = p[k] /\ r = p[k + 1]
    OBVIOUS
  <2>2. /\ k + 1 \in 0..N /\ k \in 0..(high - low - 1) /\ r = Turn(by, pivot, q)
        /\ Splitting(q, table, n, V, low, high, k) /\ Goes(q, table, low, high, key, pv)
    BY <1>7, <1>8, <1>10, <2>1
  <2>3. low <= high /\ high <= n
    OBVIOUS
  <2>4. Splitting(r, table, n, V, low, high, k + 1) /\ SetAside(r, q, n, Compare(by, q.tab[q.l + 1], pivot))
    BY <2>2, <2>3, TurnSplits
  <2>5. PICK l \in low..high, h \in low..high : l = q.l /\ h = q.h /\ h - l = high - low - k /\ q.tab \in [1..n -> V]
    BY <2>2 DEF Splitting
  <2>6. l < h /\ l + 1 \in 1..n
    <3>1. h - l = high - low - k /\ k < high - low
      BY ONLY <2>2, <2>5, low \in Nat, high \in Nat
    <3>2. l \in Nat /\ h \in Nat /\ k \in Nat /\ h <= high /\ high <= n
      BY ONLY <2>2, <2>3, l \in low..high, h \in low..high, low \in Nat, high \in Nat, n \in Nat
    <3> QED
      BY ONLY <3>1, <3>2, low \in Nat, high \in Nat, n \in Nat
  <2>7. q.tab[l + 1] \in V
    BY <2>5, <2>6
  <2>8. Compare(by, q.tab[l + 1], pivot) = key[q.tab[l + 1]] - pv /\ key \in [V -> Int]
    BY <1>3, <2>7 DEF ByKey
  <2>9. SetAside(r, q, n, key[q.tab[q.l + 1]] - pv)
    BY ONLY <2>4, <2>5, <2>8
  <2>10. r.tab \in [1..n -> V]
    BY <2>4 DEF Splitting
  <2>11. AtTurn(q, r, table, n, V, low, high, key, pv)
    BY <2>5, <2>6, <2>8, <2>9, <2>10 DEF AtTurn
  <2>12. Goes(r, table, low, high, key, pv)
    BY ONLY <2>2, <2>11, TurnGoes
  <2> QED
    BY <1>8, <2>1, <2>2, <2>4, <2>12
<1>11. N \in S
  <2>1. \A k \in 0..N : k \in S
    BY ONLY <1>9, <1>10, N \in Nat, UpTo
  <2> QED
    BY <2>1
<1>12. PICK q : q = p[N]
  OBVIOUS
<1>13. Splitting(q, table, n, V, low, high, N) /\ Goes(q, table, low, high, key, pv)
  BY <1>8, <1>11, <1>12
<1>14. PICK t \in [1..n -> V], m \in low..high : t = q.tab /\ m = q.l /\ m = q.h
  <2>1. q.tab \in [1..n -> V] /\ q.l \in low..high /\ q.h \in low..high /\ q.h - q.l = high - low - N
    BY <1>13 DEF Splitting
  <2> QED
    BY <1>4, <2>1
<1>15. m # high
  <2> SUFFICES ASSUME m = high PROVE FALSE
    OBVIOUS
  <2>1. key[table[pos]] < pv
    BY <1>a, <1>13, <1>14 DEF Goes
  <2> QED
    BY <1>2, <1>3, <2>1
<1>16. ASSUME m = low
       PROVE  /\ \A i \in (low + 1)..high : key[table[i]] >= key[table[pos]]
              /\ \E i \in (low + 1)..high : key[t[i]] < key[t[pos]]
  <2>1. low < high /\ high \in (low + 1)..high
    OBVIOUS
  <2>2. Above(q, high, key, pv) /\ Moved(q, table, low, high)
    BY <1>13, <1>14, <1>16, <2>1 DEF Goes
  <2>3. /\ \A i \in (low + 1)..high : key[t[i]] >= pv
        /\ \A i, j \in (low + 1)..high : i # j => key[t[i]] > pv \/ key[t[j]] > pv
    BY ONLY <1>14, <1>16, <2>2 DEF Above
  <2>4. t[high] = table[low + 1] /\ \A i \in (low + 1)..(high - 1) : t[i] = table[i + 1]
    BY ONLY <1>14, <1>16, <2>2 DEF Moved
  <2>5. ASSUME NEW i \in (low + 1)..high PROVE key[table[i]] >= key[table[pos]]
    <3>1. CASE i = low + 1
      BY <1>2, <1>3, <2>1, <2>3, <2>4, <3>1
    <3>2. CASE i # low + 1
      <4>1. PICK j \in (low + 1)..(high - 1) : j = i - 1 /\ j + 1 = i /\ j \in (low + 1)..high
        BY <3>2
      <4>2. t[j] = table[i]
        BY ONLY <2>4, <4>1
      <4>3. key[t[j]] >= pv
        BY ONLY <2>3, <4>1
      <4> QED
        BY ONLY <1>2, <1>3, <4>2, <4>3
    <3> QED
      BY <3>1, <3>2
  <2>6. PICK j \in (low + 1)..(high - 1) : j = pos - 1 /\ j + 1 = pos /\ j \in (low + 1)..high /\ j # pos
    BY <1>a
  <2>7. t[j] = pivot
    BY ONLY <1>2, <2>4, <2>6
  <2>8. key[t[j]] = pv
    BY ONLY <1>3, <2>7
  <2>9. ~(pv > pv)
    OBVIOUS
  <2>10. key[t[pos]] > pv
    BY ONLY <1>a, <2>3, <2>6, <2>8, <2>9
  <2>11. PICK x \in Int : x = key[t[pos]]
    <3>1. t[pos] \in V
      BY <1>a
    <3> QED
      BY <3>1 DEF ByKey
  <2>12. pv < x
    BY <2>10, <2>11
  <2> QED
    BY ONLY <2>5, <2>6, <2>8, <2>11, <2>12
<1>17. Partition(by, table, low, high) = [tab |-> t, middle |-> m]
  BY <1>5, <1>12, <1>14
<1>18. PICK r : r = Partition(by, table, low, high)
  OBVIOUS
<1>19. r.tab = t /\ r.middle = m
  BY ONLY <1>17, <1>18
<1>20. Progress(r, table, low, high, key, pos)
  BY ONLY <1>15, <1>16, <1>19 DEF Progress
<1> QED
  BY ONLY <1>1, <1>18, <1>20

(* How deep a call can be that has the entries low..high-1 of n: each call   *)
(* but those for no entry has fewer than the one that made it, or as many    *)
(* and a pivot that is not the least.                                       *)
Tight(key, t, n, c) ==
  LET s == c.high - c.low
  IN  IF s = 0 THEN c.depth <= 2 * n - 2
      ELSE \/ c.depth <= 2 * (n - s) + 1
           \/ c.depth <= 2 * (n - s) + 2 /\ \E i \in (c.low + 1)..c.high : key[t[i]] < key[t[(c.low + c.high) \div 2 + 1]]

Deep(key, t, n, calls) == \A k \in 1..Len(calls) : Tight(key, t, n, calls[k])

(* The same, of a call of which the numbers are known. *)
TightAt(key, t, n, low, high, d) ==
  \/ low = high /\ d <= 2 * n - 2
  \/ low # high /\ d <= 2 * (n - (high - low)) + 1
  \/ /\ low # high /\ d <= 2 * (n - (high - low)) + 2
     /\ \E i \in (low + 1)..high : key[t[i]] < key[t[(low + high) \div 2 + 1]]

(* Tight in terms of the fields of the call. *)
LEMMA TightIs ==
  ASSUME NEW key, NEW t, NEW n, NEW low \in Nat, NEW high \in Nat, NEW d, NEW c,
         c.low = low, c.high = high, c.depth = d
  PROVE  Tight(key, t, n, c) <=> TightAt(key, t, n, low, high, d)
<1>1. high - low = 0 <=> low = high
  OBVIOUS
<1> QED
  BY <1>1 DEF Tight, TightAt

(* No call is as deep as there are twice the entries. *)
LEMMA TightBounds ==
  ASSUME NEW n \in Nat, NEW V, NEW t \in [1..n -> V], NEW key \in [V -> Int],
         NEW low \in Nat, NEW high \in Nat, low <= high, high <= n, NEW d \in Nat, TightAt(key, t, n, low, high, d)
  PROVE  d < 2 * n
<1>1. CASE low + 1 # high
  BY <1>1 DEF TightAt
<1>2. CASE low + 1 = high
  <2>1. \A i \in (low + 1)..high : i = high
    BY <1>2
  <2>2. (low + high) \div 2 + 1 = high /\ high \in 1..n
    BY <1>2
  <2>3. key[t[high]] \in Int
    BY <2>2
  <2>4. ~(\E i \in (low + 1)..high : key[t[i]] < key[t[(low + high) \div 2 + 1]])
    <3>1. PICK y \in Int : y = key[t[high]]
      BY <2>3
    <3>2. ~(y < y)
      OBVIOUS
    <3> QED
      BY ONLY <2>1, <2>2, <3>1, <3>2
  <2>5. d <= 2 * (n - (high - low)) + 1 \/ d <= 2 * n - 2
    BY ONLY <2>4, TightAt(key, t, n, low, high, d) DEF TightAt
  <2> QED
    BY <1>2, <2>5
<1> QED
  BY <1>1, <1>2

(* The entries of another call stay where they are. *)
LEMMA TightStays ==
  ASSUME NEW key, NEW t, NEW u, NEW n, NEW low \in Nat, NEW high \in Nat, low <= high, NEW d,
         \A i \in (low + 1)..high : u[i] = t[i], TightAt(key, t, n, low, high, d)
  PROVE  TightAt(key, u, n, low, high, d)
<1>1. ASSUME low # high, \E i \in (low + 1)..high : key[t[i]] < key[t[(low + high) \div 2 + 1]]
      PROVE  \E i \in (low + 1)..high : key[u[i]] < key[u[(low + high) \div 2 + 1]]
  <2>1. (low + high) \div 2 + 1 \in (low + 1)..high
    BY <1>1
  <2> QED
    BY <1>1, <2>1
<1> QED
  BY <1>1 DEF TightAt

(* The two calls that a call of two entries or more makes.                   *)
LEMMA TightMade ==
  ASSUME NEW by, NEW V, NEW n \in Nat, NEW t \in [1..n -> V],
         NEW low \in Nat, NEW high \in Nat, low + 1 < high, high <= n, NEW key, ByKey(by, V, key),
         NEW d \in Nat, TightAt(key, t, n, low, high, d),
         NEW p, p = Partition(by, t, low, high), NEW u, u = p.tab, NEW middle, middle = p.middle
  PROVE  TightAt(key, u, n, middle, high, d + 1) /\ TightAt(key, u, n, low, middle, d + 1)
<1>1. middle \in low..high
  <2>1. low < high
    OBVIOUS
  <2> QED
    BY <2>1, PartitionSorts DEF Parted
<1>2. Progress(p, t, low, high, key, (low + high) \div 2 + 1)
  BY PartitionProgresses
<1>3. middle # high
  BY <1>2 DEF Progress
<1>4. PICK s \in Nat : s = high - low /\ s <= n /\ s >= 2
  OBVIOUS
<1>5. CASE middle = low
  <2>1. /\ \A i \in (low + 1)..high : key[t[i]] >= key[t[(low + high) \div 2 + 1]]
        /\ \E i \in (low + 1)..high : key[u[i]] < key[u[(low + high) \div 2 + 1]]
    BY <1>2, <1>5 DEF Progress
  <2>2. \A i \in (low + 1)..high : key[t[i]] \in Int /\ key[t[(low + high) \div 2 + 1]] \in Int
    <3>1. (low + high) \div 2 + 1 \in 1..n /\ \A i \in (low + 1)..high : i \in 1..n
      OBVIOUS
    <3> QED
      BY <3>1 DEF ByKey
  <2>3. ~(\E i \in (low + 1)..high : key[t[i]] < key[t[(low + high) \div 2 + 1]])
    BY <2>1, <2>2
  <2>4. d <= 2 * (n - (high - low)) + 1
    <3>1. low # high
      OBVIOUS
    <3> QED
      BY ONLY <2>3, <3>1, TightAt(key, t, n, low, high, d) DEF TightAt
  <2>5. d + 1 <= 2 * (n - (high - low)) + 2 /\ d + 1 <= 2 * n - 2 /\ low # high
    BY ONLY <2>4, <1>4, n \in Nat, d \in Nat, low \in Nat, high \in Nat
  <2> QED
    BY ONLY <1>5, <2>1, <2>5 DEF TightAt
<1>6. CASE middle # low
  <2>1. d <= 2 * (n - (high - low)) + 2
    <3>1. low # high
      OBVIOUS
    <3>2. d <= 2 * (n - (high - low)) + 1 \/ d <= 2 * (n - (high - low)) + 2
      BY ONLY <3>1, TightAt(key, t, n, low, high, d) DEF TightAt
    <3> QED
      BY <3>2
  <2>2. middle \in Nat /\ low < middle /\ middle < high
    BY <1>1, <1>3, <1>6
  <2>3. /\ d + 1 <= 2 * (n - (high - middle)) + 1 /\ middle # high
        /\ d + 1 <= 2 * (n - (middle - low)) + 1 /\ low # middle
    BY ONLY <2>1, <2>2, n \in Nat, d \in Nat, low \in Nat, high \in Nat
  <2> QED
    BY ONLY <2>3 DEF TightAt
<1> QED
  BY <1>5, <1>6

(* A call of sorttable keeps the calls from going too deep. *)
THEOREM CallsDeepen ==
  ASSUME NEW by, NEW V, NEW n \in Nat, NEW t \in [1..n -> V], NEW calls, Calls(calls, n), calls # <<>>,
         NEW u, NEW next, Ran(by, t, calls, u, next), NEW key, ByKey(by, V, key), Deep(key, t, n, calls)
  PROVE  Deep(key, u, n, next)
<1>1. /\ Last(calls) \in ACall /\ Last(calls).low <= Last(calls).high /\ Last(calls).high <= n
      /\ Last(calls) = calls[Len(calls)] /\ Len(calls) \in Nat \ {0}
      /\ Calls(Front(calls), n) /\ Len(Front(calls)) = Len(calls) - 1
      /\ \A k \in 1..(Len(calls) - 1) : Front(calls)[k] = calls[k] /\ Last(calls).high <= calls[k].low
  BY CallReturns
<1>2. PICK low \in Nat, high \in Nat, d \in Nat : low = Last(calls).low /\ high = Last(calls).high /\ d = Last(calls).depth
  BY <1>1 DEF ACall
<1>3. low <= high /\ high <= n
  BY <1>1, <1>2
<1>4. PICK p : p = Partition(by, t, low, high)
  OBVIOUS
<1>5. PICK rest : rest = Front(calls)
  OBVIOUS
<1>6. \/ low = high /\ u = t /\ next = rest
      \/ low # high /\ low + 1 = high /\ u = p.tab /\ next = rest
      \/ /\ low # high /\ low + 1 # high /\ u = p.tab
         /\ next = rest \o <<[low |-> p.middle, high |-> high, depth |-> d + 1],
                             [low |-> low, high |-> p.middle, depth |-> d + 1]>>
  BY ONLY <1>2, <1>4, <1>5, Ran(by, t, calls, u, next) DEF Ran
<1>7. low # high => Parted(p, by, t, n, V, low, high)
  <2> SUFFICES ASSUME low # high PROVE Parted(p, by, t, n, V, low, high)
    OBVIOUS
  <2>1. low < high
    BY <1>3
  <2> QED
    BY <1>3, <1>4, <2>1, PartitionSorts
<1>8. \A i \in 1..n : i \notin (low + 1)..high => u[i] = t[i]
  BY <1>6, <1>7 DEF Parted
<1>9. ASSUME NEW k \in 1..Len(rest) PROVE Tight(key, u, n, rest[k]) /\ high <= rest[k].low
  <2>1. k \in 1..(Len(calls) - 1) /\ k \in 1..Len(calls)
    BY <1>1, <1>5
  <2>2. rest[k] = calls[k] /\ high <= calls[k].low
    BY <1>1, <1>2, <1>5, <2>1
  <2>3. PICK c : c = calls[k]
    OBVIOUS
  <2>0. PICK e : e = c.depth
    OBVIOUS
  <2>4. PICK a \in Nat, b \in Nat : a = c.low /\ b = c.high /\ e = c.depth /\ a <= b /\ b <= n
    <3>1. calls[k].low \in Nat /\ calls[k].high \in Nat
      BY <2>1, CallTyped
    <3>2. calls[k].low <= calls[k].high /\ calls[k].high <= n
      BY <2>1 DEF Calls
    <3> QED
      BY <2>0, <2>3, <3>1, <3>2
  <2>5. TightAt(key, t, n, a, b, e)
    <3>1. Tight(key, t, n, c)
      BY <2>1, <2>3 DEF Deep
    <3> QED
      BY <2>4, <3>1, TightIs
  <2>6. \A i \in (a + 1)..b : u[i] = t[i]
    <3>1. \A i \in (a + 1)..b : i \in 1..n /\ i \notin (low + 1)..high
      BY <2>2, <2>3, <2>4
    <3> QED
      BY <1>8, <3>1
  <2>7. TightAt(key, u, n, a, b, e)
    BY <2>4, <2>5, <2>6, TightStays
  <2> QED
    BY <2>2, <2>3, <2>4, <2>7, TightIs
<1>10. CASE next = rest
  BY <1>9, <1>10 DEF Deep
<1>11. CASE next # rest
  <2>1. PICK middle : middle = p.middle
    OBVIOUS
  <2>2. /\ low # high /\ low + 1 # high /\ u = p.tab
        /\ next = rest \o <<[low |-> middle, high |-> high, depth |-> d + 1], [low |-> low, high |-> middle, depth |-> d + 1]>>
    BY <1>6, <1>11, <2>1
  <2>3. low + 1 < high /\ d + 1 \in Nat
    BY <1>3, <2>2
  <2>4. middle \in low..high /\ middle \in Nat
    BY <1>7, <2>1, <2>2 DEF Parted
  <2>5. PICK e \in Nat : e = d + 1
    BY <2>3
  <2>6. /\ Len(next) = Len(rest) + 2 /\ \A k \in 1..Len(rest) : next[k] = rest[k]
        /\ next[Len(rest) + 1] = [low |-> middle, high |-> high, depth |-> e]
        /\ next[Len(rest) + 2] = [low |-> low, high |-> middle, depth |-> e]
    <3>1. Calls(rest, n) /\ \A k \in 1..Len(rest) : high <= rest[k].low
      BY <1>1, <1>5, <1>9
    <3>2. Makes(rest, n, low, middle, high, e) /\ next = Made(rest, low, middle, high, e)
      BY ONLY <1>3, <2>2, <2>4, <2>5, <3>1, n \in Nat, low \in Nat, high \in Nat DEF Makes, Made
    <3> QED
      BY ONLY <3>2, CallsMade
  <2>7. TightAt(key, t, n, low, high, d)
    <3>1. Tight(key, t, n, Last(calls))
      BY <1>1 DEF Deep
    <3> QED
      BY <1>2, <3>1, TightIs
  <2>8. TightAt(key, u, n, middle, high, e) /\ TightAt(key, u, n, low, middle, e)
    BY <1>3, <1>4, <2>1, <2>2, <2>3, <2>5, <2>7, TightMade
  <2>9. PICK a, b : a = next[Len(rest) + 1] /\ b = next[Len(rest) + 2]
    OBVIOUS
  <2>10. Tight(key, u, n, a) /\ Tight(key, u, n, b)
    <3>1. a.low = middle /\ a.high = high /\ a.depth = e
      BY ONLY <2>6, <2>9
    <3>2. b.low = low /\ b.high = middle /\ b.depth = e
      BY ONLY <2>6, <2>9
    <3> QED
      BY <2>4, <2>8, <3>1, <3>2, TightIs
  <2>11. \A k \in 1..Len(next) : k \in 1..Len(rest) \/ k = Len(rest) + 1 \/ k = Len(rest) + 2
    <3>1. Len(rest) \in Nat
      BY <1>1, <1>5
    <3> QED
      BY ONLY <2>6, <3>1
  <2> QED
    BY ONLY <1>9, <2>6, <2>9, <2>10, <2>11 DEF Deep
<1> QED
  BY <1>10, <1>11

(* While a table is sorted no call is too deep. *)
DeepInv ==
  phase \in SortPhases /\ sorting.busy /\ Numbered =>
    Deep(KeyOf(sorting.by), sorting.tab, Len(sorting.tab), sorting.calls)

(* The table that is sorted is of students. *)
LEMMA TableOfStudents ==
  ASSUME BookInv, RosterOK, phase \in SortPhases, sorting.busy
  PROVE  \E n \in Nat : n = Len(sorting.tab) /\ sorting.tab \in [1..n -> Students] /\ Calls(sorting.calls, n)
<1>1. /\ sorting.list \in 0..Len(course.sections) /\ Listed(sorting.tab)
      /\ Range(sorting.tab) = Range(List(sorting.list)) /\ Calls(sorting.calls, Len(sorting.tab))
  BY DEF BookInv, SortingOK
<1>2. Range(List(sorting.list)) \subseteq Students
  BY <1>1, ListsOfStudents
<1>3. Len(sorting.tab) \in Nat /\ sorting.tab \in [1..Len(sorting.tab) -> Range(sorting.tab)]
  BY <1>1, SeqIsListed DEF Listed
<1> QED
  BY <1>1, <1>2, <1>3

(* A call of sorttable makes no call too deep. *)
LEMMA DeepTable ==
  ASSUME BookInv, RosterOK, DeepInv, SortTable
  PROVE  DeepInv'
<1> SUFFICES ASSUME (phase \in SortPhases)', sorting'.busy, Numbered'
             PROVE  Deep(KeyOf(sorting.by), sorting.tab, Len(sorting.tab), sorting.calls)'
  BY DEF DeepInv
<1>1. UNCHANGED <<input, course, phase, roster, composite>>
  BY DEF SortTable, readerVars
<1>2. PICK by, list, t, calls, u, next :
        /\ by \in {"name", input.by} /\ list \in 0..Len(course.sections) /\ calls # <<>>
        /\ SortingIs(by, list, t, calls, TRUE) /\ SortingIs(by, list, u, next, TRUE)'
        /\ Ran(by, t, calls, u, next)
  BY TableSteps
<1>3. sorting.by = by /\ sorting.tab = t /\ sorting.calls = calls /\ sorting.busy = TRUE
  BY <1>2 DEF SortingIs
<1>4. sorting'.by = by /\ sorting'.tab = u /\ sorting'.calls = next
  BY <1>2 DEF SortingIs
<1>5. Numbered /\ KeyOf(by)' = KeyOf(by) /\ phase \in SortPhases
  BY <1>1, KeysStay
<1>6. PICK n \in Nat : n = Len(t) /\ t \in [1..n -> Students] /\ Calls(calls, n)
  BY <1>3, <1>5, TableOfStudents
<1>7. PICK key : key = KeyOf(by)
  OBVIOUS
<1>8. ByKey(by, Students, key)
  BY <1>3, <1>5, <1>7, ByIsKey, KeyOrders
<1>9. Deep(key, t, n, calls)
  BY <1>3, <1>5, <1>6, <1>7 DEF DeepInv
<1>10. Deep(key, u, n, next)
  BY ONLY <1>2, <1>6, <1>8, <1>9, n \in Nat, CallsDeepen
<1>11. Len(u) = n
  <2>1. Improved(by, Students, n, t, calls, u, next)
    BY ONLY <1>2, <1>6, n \in Nat, CallSorts
  <2>2. u \in [1..n -> Students]
    BY ONLY <2>1 DEF Improved
  <2> QED
    BY ONLY <2>2, n \in Nat
<1> QED
  BY <1>4, <1>5, <1>7, <1>10, <1>11

(* The first call for a list is not too deep. *)
LEMMA DeepStarts ==
  ASSUME BookInv, RosterOK, SortRoster
  PROVE  DeepInv'
<1> SUFFICES ASSUME sorting'.busy
             PROVE  Deep(KeyOf(sorting.by), sorting.tab, Len(sorting.tab), sorting.calls)'
  BY DEF DeepInv
<1>1. ~sorting.busy /\ phase \in SortPhases
  BY DEF SortRoster, SortPhases
<1>2. PICK by, list, tab, calls : sorting = [by |-> by, list |-> list, tab |-> tab, calls |-> calls, busy |-> FALSE]
  BY <1>1, SortingFields DEF BookInv, SortingOK
<1>3. PICK s : s = List(list)
  OBVIOUS
<1>4. s # <<>>
  <2>1. SUFFICES ASSUME s = <<>> PROVE FALSE
    OBVIOUS
  <2>2. sorting' = [sorting EXCEPT !.list = @ + 1]
    BY <1>2, <1>3, <2>1 DEF SortRoster
  <2>3. sorting'.busy = FALSE
    BY ONLY <1>2, <2>2
  <2> QED
    BY <2>3
<1>5. PICK t, call : t = Reverse(s) /\ call = [low |-> 0, high |-> Len(s), depth |-> 1]
  OBVIOUS
<1>6. sorting' = [sorting EXCEPT !.busy = TRUE, !.tab = t, !.calls = <<call>>]
  BY <1>2, <1>3, <1>4, <1>5 DEF SortRoster
<1>7. sorting'.tab = t /\ sorting'.calls = <<call>>
  BY ONLY <1>2, <1>6
<1>8. Listed(s)
  <2>1. Len(course.sections) \in Nat /\ list \in Nat /\ list <= Len(course.sections)
    <3>1. sorting.list \in Nat
      BY SortingFields DEF BookInv
    <3> QED
      BY <1>2, <3>1, ShapeParts DEF BookInv, CourseOK, SortRoster
  <2> QED
    BY <1>3, <2>1, ListsAreListed
<1>9. PICK n \in Nat : n = Len(s) /\ n = Len(t)
  BY <1>5, <1>8, Reversed, SeqIsListed DEF Listed
<1>10. n # 0
  <2>1. s \in Seq(Range(s))
    BY <1>8 DEF Listed
  <2>2. Len(s) # 0
    BY ONLY <1>4, <2>1
  <2> QED
    BY ONLY <1>9, <2>2
<1>11. ASSUME NEW key PROVE Tight(key, t, n, call)
  <2>1. call.low = 0 /\ call.high = n /\ call.depth = 1
    BY ONLY <1>5, <1>9
  <2>2. 0 # n /\ 1 <= 2 * (n - (n - 0)) + 1
    BY <1>10
  <2>3. TightAt(key, t, n, 0, n, 1)
    BY ONLY <2>2 DEF TightAt
  <2> QED
    BY <2>1, <2>3, TightIs
<1>12. \A k \in 1..Len(<<call>>) : <<call>>[k] = call
  OBVIOUS
<1>13. ASSUME NEW key PROVE Deep(key, t, n, <<call>>)
  BY <1>11, <1>12 DEF Deep
<1> QED
  BY <1>7, <1>9, <1>13

(* Every step keeps the calls from going too deep. *)
LEMMA DeepStep ==
  ASSUME BookInv, RosterOK, DeepInv, [Next]_vars
  PROVE  DeepInv'
<1>1. CASE Options \/ Reading \/ GiveUp \/ Statistics \/ Normalize \/ FreeCourse \/ RunAgain
  <2>1. phase' \notin SortPhases
    BY <1>1 DEF Options, Reading, GiveUp, Statistics, Normalize, FreeCourse, RunAgain, bookVars, SortPhases
  <2> QED
    BY <2>1 DEF DeepInv
<1>2. CASE Composites
  <2>1. sorting'.busy = FALSE
    BY <1>2 DEF Composites, Idle
  <2> QED
    BY <2>1 DEF DeepInv
<1>3. CASE SortRoster
  BY <1>3, DeepStarts
<1>4. CASE SortTable
  BY <1>4, DeepTable
<1>5. CASE Relink
  <2>1. sorting' = [sorting EXCEPT !.busy = FALSE, !.list = @ + 1, !.tab = <<>>]
    BY <1>5 DEF Relink
  <2>2. sorting'.busy = FALSE
    <3>1. PICK by, list, t, calls, b : sorting = [by |-> by, list |-> list, tab |-> t, calls |-> calls, busy |-> b]
      BY SortingFields DEF BookInv
    <3> QED
      BY ONLY <2>1, <3>1
  <2> QED
    BY <2>2 DEF DeepInv
<1>6. CASE CheckForDups
  <2>1. ~sorting.busy /\ (sorting' = sorting \/ sorting' = [Idle EXCEPT !.by = input.by])
    BY <1>6 DEF CheckForDups, Sorted
  <2>2. ~sorting'.busy
    BY <2>1 DEF Idle
  <2> QED
    BY <2>2 DEF DeepInv
<1>7. CASE Collate \/ Report \/ UNCHANGED vars
  <2>1. UNCHANGED sorting /\ (sorting.busy => UNCHANGED vars)
    BY <1>7 DEF Collate, Report, Sorted, vars, bookVars, BookInv, SortingOK
  <2>2. CASE ~sorting.busy
    BY <2>1, <2>2 DEF DeepInv
  <2>3. CASE sorting.busy
    <3>1. UNCHANGED <<input, course, composite, phase, sorting>>
      BY <2>1, <2>3 DEF vars, readerVars, bookVars
    <3> QED
      BY <3>1 DEF DeepInv, Numbered, KeyOf, Students, SortPhases
  <2> QED
    BY <2>2, <2>3
<1> QED
  BY <1>1, <1>2, <1>3, <1>4, <1>5, <1>6, <1>7 DEF Next

(* So no call is as deep as there are twice the students. *)
LEMMA DeepBounds ==
  ASSUME BookInv, RosterOK, DeepInv, Numbered
  PROVE  CallsBounded
<1>1. CASE sorting.calls = <<>>
  BY <1>1 DEF CallsBounded
<1>2. CASE sorting.calls # <<>>
  <2>1. sorting.busy /\ phase \in SortPhases
    BY <1>2 DEF BookInv, SortingOK, SortPhases
  <2>2. PICK t, calls, key : t = sorting.tab /\ calls = sorting.calls /\ key = KeyOf(sorting.by)
    OBVIOUS
  <2>3. PICK n \in Nat : n = Len(t) /\ t \in [1..n -> Students] /\ Calls(calls, n)
    BY <2>1, <2>2, TableOfStudents
  <2>4. Deep(key, t, n, calls)
    BY <2>1, <2>2, <2>3 DEF DeepInv
  <2>5. key \in [Students -> Int]
    BY <2>2, ByIsKey, KeyOrders
  <2>6. calls \in Seq(ACall)
    BY <2>3 DEF Calls
  <2>7. ASSUME NEW k \in DOMAIN calls PROVE calls[k].depth < 2 * n
    <3>1. k \in 1..Len(calls) /\ calls[k] \in ACall
      BY <2>6
    <3>2. PICK low \in Nat, high \in Nat, d \in Nat : low = calls[k].low /\ high = calls[k].high /\ d = calls[k].depth
      BY <3>1 DEF ACall
    <3>3. low <= high /\ high <= n
      BY <2>3, <3>1, <3>2 DEF Calls
    <3>4. TightAt(key, t, n, low, high, d)
      BY <2>4, <3>1, <3>2, TightIs DEF Deep
    <3> QED
      BY <2>3, <2>5, <3>2, <3>3, <3>4, TightBounds
  <2> QED
    BY <2>2, <2>3, <2>7 DEF CallsBounded
<1> QED
  BY <1>1, <1>2

(* Nothing is sorted at first. *)
LEMMA DeepInit == Init => DeepInv
  BY DEF Init, DeepInv, SortPhases, readerVars
==============================================================================
