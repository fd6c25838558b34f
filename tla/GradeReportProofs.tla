-------------------------- MODULE GradeReportProofs --------------------------
(***************************************************************************)
(* Proofs about both ends of GradeBook: what report.c says of the statistics *)
(* is in range, and what read.c reads without an error is all there is.    *)
(***************************************************************************)
EXTENDS GradeNumberProofs

----------------------------------------------------------------------------
(* Quantile summaries *)

(* A sum of one more. *)
LEMMA TotalNext ==
  ASSUME NEW n \in Nat, NEW xs \in [1..(n + 1) -> Int], NEW ys \in [1..n -> Int], \A k \in 1..n : ys[k] = xs[k]
  PROVE  Total(ys) \in Int /\ Total(xs) = Total(ys) + xs[n + 1]
<1>1. PICK p : Sums(p, xs, n + 1) /\ Total(xs) = p[n + 1]
  <2>1. n + 1 \in Nat
    OBVIOUS
  <2> QED
    BY <2>1, TotalSums
<1>2. PICK q : Sums(q, ys, n) /\ Total(ys) = q[n]
  BY TotalSums
<1>3. p[0] = 0 /\ \A k \in 1..(n + 1) : p[k] = p[k - 1] + xs[k]
  BY <1>1 DEF Sums
<1>4. q[0] = 0 /\ q \in [0..n -> Int] /\ \A k \in 1..n : q[k] = q[k - 1] + ys[k]
  BY <1>2 DEF Sums
<1>5. PICK D : D = {k \in 0..n : p[k] = q[k]}
  OBVIOUS
<1>6. 0 \in D
  BY <1>3, <1>4, <1>5
<1>7. ASSUME NEW k \in 0..(n - 1), k \in D PROVE k + 1 \in D
  <2>1. k + 1 \in 1..n /\ (k + 1) - 1 = k /\ k + 1 \in 0..n /\ k + 1 \in 1..(n + 1)
    OBVIOUS
  <2>2. p[k + 1] = p[k] + xs[k + 1] /\ q[k + 1] = q[k] + ys[k + 1]
    BY ONLY <1>3, <1>4, <2>1
  <2> QED
    BY <1>5, <1>7, <2>1, <2>2
<1>8. n \in D
  <2>1. \A k \in 0..n : k \in D
    BY ONLY <1>6, <1>7, n \in Nat, UpTo
  <2> QED
    BY <2>1
<1>9. p[n + 1] = p[n] + xs[n + 1]
  <2>1. n + 1 \in 1..(n + 1) /\ (n + 1) - 1 = n
    OBVIOUS
  <2> QED
    BY ONLY <1>3, <2>1
<1> QED
  BY <1>1, <1>2, <1>4, <1>5, <1>8, <1>9

(* How many are below the next entry of a table. *)
LEMMA NumLessTurns ==
  ASSUME NEW f \in Tables
  PROVE  NumLess(f, 1) = 0 /\ \A k \in 1..Len(f) : /\ NumLess(f, k) \in Nat
                                                   /\ NumLess(f, k + 1) = NumLess(f, k) + f[k].count
<1>1. PICK n \in Nat : n = Len(f) /\ \A i \in 1..n : f[i].count \in Nat
  BY TableIs
<1>2. NumLess(f, 1) = 0
  <2>1. PICK xs : xs = [i \in 1..0 |-> f[i].count]
    OBVIOUS
  <2>2. xs \in [1..0 -> Int]
    BY <2>1
  <2>3. PICK p : Sums(p, xs, 0) /\ Total(xs) = p[0]
    BY <2>2, 0 \in Nat, TotalSums
  <2>4. NumLess(f, 1) = Total(xs)
    <3>1. 1 - 1 = 0
      OBVIOUS
    <3> QED
      BY <2>1, <3>1 DEF NumLess
  <2> QED
    BY <2>3, <2>4 DEF Sums
<1>3. ASSUME NEW k \in 1..n PROVE NumLess(f, k) \in Nat /\ NumLess(f, k + 1) = NumLess(f, k) + f[k].count
  <2>1. PICK j \in Nat : j = k - 1 /\ j + 1 = k /\ k + 1 - 1 = k /\ \A i \in 1..(j + 1) : i \in 1..n
    <3>1. k - 1 \in Nat /\ (k - 1) + 1 = k /\ k + 1 - 1 = k /\ \A i \in 1..((k - 1) + 1) : i \in 1..n
      OBVIOUS
    <3> QED
      BY <3>1
  <2>2. PICK xs : xs = [i \in 1..(j + 1) |-> f[i].count]
    OBVIOUS
  <2>3. PICK ys : ys = [i \in 1..j |-> f[i].count]
    OBVIOUS
  <2>4. \A i \in 1..j : i \in 1..(j + 1)
    OBVIOUS
  <2>5. xs \in [1..(j + 1) -> Int] /\ ys \in [1..j -> Int] /\ \A i \in 1..j : ys[i] = xs[i]
    BY ONLY <1>1, <2>1, <2>2, <2>3, <2>4
  <2>6. Total(xs) = Total(ys) + xs[j + 1]
    BY ONLY <2>5, j \in Nat, TotalNext
  <2>7. NumLess(f, k + 1) = Total(xs) /\ NumLess(f, k) = Total(ys)
    BY ONLY <2>1, <2>2, <2>3 DEF NumLess
  <2>8. xs[j + 1] = f[k].count
    <3>1. j + 1 \in 1..(j + 1)
      OBVIOUS
    <3> QED
      BY ONLY <2>1, <2>2, <3>1
  <2>9. NumLess(f, k) \in Nat
    <3>1. k \in 1..(Len(f) + 1) /\ k <= k
      BY <1>1
    <3> QED
      BY <3>1, NumLessGrows
  <2> QED
    BY <2>6, <2>7, <2>8, <2>9
<1> QED
  BY <1>1, <1>2, <1>3

(* The difference of two scores is shared out by how many are below.         *)
LEMMA SharedOut ==
  ASSUME NEW d \in Nat \ {0}, NEW x \in Nat, NEW c \in Nat \ {0}, x < c
  PROVE  (d * x) \div c \in Nat /\ (d * x) \div c < d
<1>1. PICK q \in Int : q = (d * x) \div c
  <2>1. d * x \in Int
    OBVIOUS
  <2> QED
    BY <2>1
<1>2. PICK e \in Nat : e = d * x
  OBVIOUS
<1>3. c * q <= e /\ e < c * (q + 1)
  BY <1>1, <1>2
<1>4. e < c * d
  <2>1. \A u \in Nat, v \in Nat, w \in Nat \ {0} : u < v => w * u < w * v
    OBVIOUS
  <2>2. d * x < d * c /\ d * c = c * d
    BY <2>1
  <2> QED
    BY <1>2, <2>2
<1>5. q < d
  <2> SUFFICES ASSUME d <= q PROVE FALSE
    BY <1>1
  <2>1. c * d <= c * q
    <3>1. \A u \in Nat, v \in Int, w \in Nat : u <= v => w * u <= w * v
      OBVIOUS
    <3> QED
      BY ONLY <3>1, d \in Nat \ {0}, q \in Int, c \in Nat \ {0}, d <= q
  <2>2. c * d \in Int /\ c * q \in Int
    OBVIOUS
  <2> QED
    BY ONLY <1>3, <1>4, <2>1, <2>2, e \in Nat
<1>6. q >= 0
  <2> SUFFICES ASSUME q + 1 <= 0 PROVE FALSE
    BY <1>1
  <2>1. c * (q + 1) <= 0
    <3>1. \A v \in Int, w \in Nat : v <= 0 => w * v <= 0
      OBVIOUS
    <3>2. q + 1 \in Int
      OBVIOUS
    <3> QED
      BY ONLY <3>1, <3>2, c \in Nat \ {0}, q + 1 <= 0
  <2>2. c * (q + 1) \in Int
    OBVIOUS
  <2> QED
    BY ONLY <1>3, <2>1, <2>2, e \in Nat
<1> QED
  BY <1>1, <1>5, <1>6

(* The interval of a table that a number of scores reaches into, and the     *)
(* score that stands for it there.                                          *)
Between(f, w, k) ==
  k \in 2..(Len(f) - 1) /\ NumLess(f, k - 1) * 100 <= w /\ w < NumLess(f, k) * 100
At(f, w, k) ==
  f[k - 1].score + ((f[k].score - f[k - 1].score) * (w - NumLess(f, k - 1) * 100)) \div (f[k - 1].count * 100)

(* What interpolatequantile returns. *)
Settles(f, w, v) ==
  \/ v = f[Len(f)].score /\ (Len(f) < 3 \/ NumLess(f, Len(f) - 1) * 100 <= w)
  \/ \E k \in 2..(Len(f) - 1) : Between(f, w, k) /\ v = At(f, w, k)

(* Some interval is reached before the last two scores, or none is. *)
LEMMA SomeBetween ==
  ASSUME NEW f \in Tables, NEW w \in Nat, Len(f) >= 3, w < NumLess(f, Len(f) - 1) * 100
  PROVE  \E k \in 2..(Len(f) - 1) : Between(f, w, k)
<1>1. PICK n \in Nat : n = Len(f)
  BY TableIs
<1>2. PICK T : T = {k \in 2..(n - 1) : w < NumLess(f, k) * 100}
  OBVIOUS
<1>3. n - 1 \in T /\ T \in SUBSET Nat
  BY <1>1, <1>2
<1>4. PICK k \in T : \A j \in T : k <= j
  BY <1>3, LeastNumber
<1>5. k \in 2..(n - 1) /\ w < NumLess(f, k) * 100
  BY <1>2
<1>6. NumLess(f, k - 1) * 100 <= w
  <2>1. CASE k = 2
    <3>1. NumLess(f, k - 1) = 0
      <4>1. k - 1 = 1
        BY <2>1
      <4> QED
        BY ONLY <4>1, f \in Tables, NumLessTurns
    <3> QED
      BY <3>1
  <2>2. CASE k # 2
    <3>1. k - 1 \in 2..(n - 1) /\ ~(k <= k - 1) /\ k - 1 \in 1..n
      BY <1>5, <2>2
    <3>2. k - 1 \notin T
      BY <1>4, <3>1
    <3>3. NumLess(f, k - 1) \in Nat
      BY <1>1, <3>1, NumLessTurns
    <3> QED
      BY <1>2, <3>1, <3>2, <3>3
  <2> QED
    BY <2>1, <2>2
<1> QED
  BY <1>1, <1>5, <1>6 DEF Between

(* The score between two of the table. *)
LEMMA AtBounds ==
  ASSUME NEW f \in Tables, NEW n, Weighed(f, n), NEW w \in Nat, NEW k \in 2..(Len(f) - 1), Between(f, w, k)
  PROVE  At(f, w, k) \in Int /\ f[k - 1].score <= At(f, w, k) /\ At(f, w, k) < f[k].score
<1>1. PICK l \in Nat : l = Len(f)
  BY TableIs
<1>2. k \in 1..l /\ k - 1 \in 1..l /\ k - 1 < k /\ (k - 1) + 1 = k
  BY <1>1
<1>3. PICK x, y \in Int : x = f[k - 1].score /\ y = f[k].score /\ x < y
  BY <1>1, <1>2, TableIs
<1>4. PICK c \in Nat \ {0} : c = f[k - 1].count
  <2>1. f[k - 1].count \in Nat
    BY <1>1, <1>2, TableIs
  <2>2. f[k - 1].count # 0
    BY <1>1, <1>2 DEF Weighed
  <2> QED
    BY <2>1, <2>2
<1>5. PICK a, b \in Nat : a = NumLess(f, k - 1) /\ b = NumLess(f, k) /\ b = a + c
  <2>1. NumLess(f, k - 1) \in Nat /\ NumLess(f, (k - 1) + 1) = NumLess(f, k - 1) + c
    BY <1>1, <1>2, <1>4, NumLessTurns
  <2> QED
    BY <1>2, <2>1
<1>6. a * 100 <= w /\ w < b * 100
  BY <1>5 DEF Between
<1>7. PICK u \in Nat : u = w - a * 100
  BY <1>6
<1>8. PICK e \in Nat \ {0} : e = c * 100 /\ u < e
  <2>1. b = a + c /\ w < b * 100 /\ u = w - a * 100
    BY <1>5, <1>6, <1>7
  <2>2. b * 100 = a * 100 + c * 100
    BY ONLY <2>1, a \in Nat, b \in Nat, c \in Nat \ {0}
  <2>3. PICK p, q, r \in Nat : p = a * 100 /\ q = b * 100 /\ r = c * 100
    OBVIOUS
  <2>4. r # 0
    BY ONLY <2>3, c \in Nat \ {0}
  <2>5. u < r
    BY ONLY <2>1, <2>2, <2>3, w \in Nat, u \in Nat, p \in Nat, q \in Nat, r \in Nat
  <2> QED
    BY <2>3, <2>4, <2>5
<1>9. PICK d \in Nat \ {0} : d = y - x
  BY <1>3
<1>10. PICK r \in Nat : r = (d * u) \div e /\ r < d
  BY ONLY <1>8, d \in Nat \ {0}, u \in Nat, e \in Nat \ {0}, SharedOut
<1>11. At(f, w, k) = x + r
  BY ONLY <1>3, <1>4, <1>5, <1>7, <1>8, <1>9, <1>10 DEF At
<1>12. x + r \in Int /\ x <= x + r /\ x + r < y
  BY ONLY <1>9, <1>10, x \in Int, y \in Int, r \in Nat, d \in Nat \ {0}
<1> QED
  BY ONLY <1>3, <1>11, <1>12

(* interpolatequantile: within the table. *)
LEMMA InterpolateSettles ==
  ASSUME NEW m, NumberedGroup(m), m.freqs # <<>>, NEW q \in Nat, NEW w \in Nat, w = q * m.valid
  PROVE  Settles(m.freqs, w, InterpolateQuantile(m, q))
<1>1. PICK f \in Tables, n \in Nat : f = m.freqs /\ n = m.valid
  BY DEF NumberedGroup
<1>2. PICK in : in = {k \in 2..(Len(f) - 1) : NumLess(f, k - 1) * 100 <= q * n /\ q * n < NumLess(f, k) * 100}
  OBVIOUS
<1>3. \A k : k \in in <=> Between(f, w, k)
  BY <1>1, <1>2 DEF Between
<1>4. PICK v : v = InterpolateQuantile(m, q)
  OBVIOUS
<1>5. v = IF in = {} THEN Last(f).score
          ELSE f[Min(in) - 1].score +
                 ((f[Min(in)].score - f[Min(in) - 1].score) * (q * n - NumLess(f, Min(in) - 1) * 100)) \div (f[Min(in) - 1].count * 100)
  BY <1>1, <1>2, <1>4 DEF InterpolateQuantile
<1>6. CASE in = {}
  <2>1. v = f[Len(f)].score
    BY <1>5, <1>6 DEF Last
  <2>2. Len(f) < 3 \/ NumLess(f, Len(f) - 1) * 100 <= w
    <3> SUFFICES ASSUME Len(f) >= 3, ~(NumLess(f, Len(f) - 1) * 100 <= w) PROVE FALSE
      BY TableIs
    <3>1. NumLess(f, Len(f) - 1) \in Nat
      <4>1. Len(f) - 1 \in 1..Len(f)
        BY TableIs
      <4> QED
        BY <4>1, NumLessTurns
    <3>2. w < NumLess(f, Len(f) - 1) * 100
      BY <3>1
    <3> QED
      BY <1>3, <1>6, <3>2, SomeBetween
  <2> QED
    BY <1>1, <1>4, <2>1, <2>2 DEF Settles
<1>7. CASE in # {}
  <2>1. in \in SUBSET Nat
    BY <1>2
  <2>2. PICK k : k = Min(in) /\ k \in in
    BY <1>7, <2>1, MinIn
  <2>3. v = At(f, w, k)
    BY <1>1, <1>5, <1>7, <2>2 DEF At
  <2>4. k \in 2..(Len(f) - 1)
    BY <1>2, <2>2
  <2> QED
    BY <1>1, <1>3, <1>4, <2>2, <2>3, <2>4 DEF Settles
<1> QED
  BY <1>6, <1>7

(* What is between two scores, or the last, is one of them or more. *)
LEMMA SettlesBounds ==
  ASSUME NEW f \in Tables, NEW n, Weighed(f, n), NEW w \in Nat, NEW v, Settles(f, w, v), f # <<>>
  PROVE  v \in Int /\ v <= f[Len(f)].score /\ Len(f) \in Nat \ {0}
<1>1. PICK l \in Nat \ {0} : l = Len(f)
  <2>1. f \in Seq(AFreq)
    BY TableIs
  <2>2. Len(f) \in Nat \ {0}
    BY ONLY <2>1, f # <<>>
  <2> QED
    BY <2>2
<1>2. l \in 1..l /\ f[l].score \in Int
  <2>1. l \in 1..l
    OBVIOUS
  <2> QED
    BY <1>1, <2>1, TableIs
<1>3. CASE v = f[l].score
  BY <1>1, <1>2, <1>3
<1>4. CASE \E k \in 2..(l - 1) : Between(f, w, k) /\ v = At(f, w, k)
  <2>1. PICK k \in 2..(l - 1) : Between(f, w, k) /\ v = At(f, w, k)
    BY <1>4
  <2>2. v \in Int /\ v < f[k].score
    BY <1>1, <2>1, AtBounds
  <2>3. k \in 1..l /\ k < l
    BY <2>1
  <2>4. f[k].score < f[l].score /\ f[k].score \in Int
    BY <1>1, <1>2, <2>3, TableIs
  <2> QED
    BY <1>1, <1>2, <2>2, <2>4
<1> QED
  BY <1>1, <1>3, <1>4 DEF Settles

(* More scores reach a score that is no smaller, in one interval. *)
LEMMA AtGrows ==
  ASSUME NEW f \in Tables, NEW n, Weighed(f, n), NEW w \in Nat, NEW z \in Nat, w <= z,
         NEW k \in 2..(Len(f) - 1), Between(f, w, k), Between(f, z, k)
  PROVE  At(f, w, k) <= At(f, z, k)
<1>1. PICK l \in Nat : l = Len(f)
  BY TableIs
<1>2. k \in 1..l /\ k - 1 \in 1..l /\ k - 1 < k
  BY <1>1
<1>3. PICK x, y \in Int : x = f[k - 1].score /\ y = f[k].score /\ x < y
  BY <1>1, <1>2, TableIs
<1>4. PICK e \in Nat \ {0} : e = f[k - 1].count * 100
  <2>1. PICK c \in Nat : c = f[k - 1].count
    BY <1>1, <1>2, TableIs
  <2>2. c # 0
    BY <1>1, <1>2, <2>1 DEF Weighed
  <2> QED
    BY <2>1, <2>2
<1>5. PICK a \in Nat : a = NumLess(f, k - 1)
  BY <1>1, <1>2, NumLessTurns
<1>6. PICK u, v \in Int : u = w - a * 100 /\ v = z - a * 100 /\ u <= v
  OBVIOUS
<1>7. PICK d \in Nat : d = y - x
  BY <1>3
<1>8. u * d \in Int /\ v * d \in Int /\ d * u = u * d /\ d * v = v * d /\ u * d <= v * d
  BY ONLY <1>6, d \in Nat, e \in Nat \ {0}, u \in Int, v \in Int, TimesDiv
<1>9. PICK s, t \in Int : s = (d * u) \div e /\ t = (d * v) \div e /\ s <= t
  <2>1. PICK g, h \in Int : g = d * u /\ h = d * v /\ g <= h
    BY ONLY <1>8
  <2>2. g \div e \in Int /\ h \div e \in Int /\ g \div e <= h \div e
    BY ONLY <2>1, d \in Nat, e \in Nat \ {0}, g \in Int, h \in Int, TimesDiv
  <2> QED
    BY ONLY <2>1, <2>2
<1>10. At(f, w, k) = x + s /\ At(f, z, k) = x + t
  BY ONLY <1>3, <1>4, <1>5, <1>6, <1>7, <1>9 DEF At
<1>11. x + s <= x + t
  BY <1>9
<1> QED
  BY ONLY <1>10, <1>11

(* A greater percentage has a greater summary. *)
LEMMA SettlesGrow ==
  ASSUME NEW f \in Tables, NEW n, Weighed(f, n), NEW w \in Nat, NEW z \in Nat, w <= z, f # <<>>,
         NEW u, Settles(f, w, u), NEW v, Settles(f, z, v)
  PROVE  u <= v
<1>1. PICK l \in Nat \ {0} : l = Len(f)
  BY SettlesBounds
<1>2. u \in Int /\ v \in Int /\ u <= f[l].score /\ v <= f[l].score
  BY <1>1, SettlesBounds
<1>3. CASE v = f[l].score
  BY <1>2, <1>3
<1>4. CASE v # f[l].score
  <2>1. PICK k \in 2..(l - 1) : Between(f, z, k) /\ v = At(f, z, k)
    BY <1>1, <1>4 DEF Settles
  <2>2. \A i, j \in 1..l : i <= j => NumLess(f, i) \in Nat /\ NumLess(f, j) \in Nat /\ NumLess(f, i) <= NumLess(f, j)
    <3>1. \A i \in 1..l : i \in 1..(Len(f) + 1)
      BY <1>1
    <3> QED
      BY <3>1, NumLessGrows
  <2>3. k \in 1..l /\ k - 1 \in 1..l /\ l - 1 \in 1..l /\ k <= l - 1 /\ ~(l < 3)
    BY <2>1
  <2>4. z < NumLess(f, k) * 100 /\ NumLess(f, k - 1) * 100 <= z
    BY <2>1 DEF Between
  <2>5. ~(NumLess(f, l - 1) * 100 <= w)
    <3>1. PICK a, b \in Nat : a = NumLess(f, k) /\ b = NumLess(f, l - 1) /\ a <= b
      BY <2>2, <2>3
    <3> QED
      BY <2>4, <3>1
  <2>6. PICK j \in 2..(l - 1) : Between(f, w, j) /\ u = At(f, w, j)
    BY <1>1, <2>3, <2>5 DEF Settles
  <2>7. j \in 1..l /\ j - 1 \in 1..l
    BY <2>6
  <2>8. j <= k
    <3> SUFFICES ASSUME ~(j <= k) PROVE FALSE
      OBVIOUS
    <3>1. k <= j - 1
      OBVIOUS
    <3>2. PICK a, b \in Nat : a = NumLess(f, k) /\ b = NumLess(f, j - 1) /\ a <= b
      BY <2>2, <2>3, <2>7, <3>1
    <3>3. b * 100 <= w
      BY <2>6, <3>2 DEF Between
    <3> QED
      BY <2>4, <3>2, <3>3
  <2>9. CASE j = k
    BY <1>1, <2>1, <2>6, <2>9, AtGrows
  <2>10. CASE j # k
    <3>1. j < k /\ j <= k - 1
      BY <2>8, <2>10
    <3>2. PICK x, y \in Int : x = f[j].score /\ y = f[k - 1].score
      BY <1>1, <2>3, <2>7, TableIs
    <3>3. x <= y
      <4>1. CASE j = k - 1
        BY <3>2, <4>1
      <4>2. CASE j # k - 1
        <5>1. j < k - 1
          BY <3>1, <4>2
        <5>2. x < y
          BY <1>1, <2>3, <2>7, <3>2, <5>1, TableIs
        <5> QED
          BY <5>2
      <4> QED
        BY <4>1, <4>2
    <3>4. u < x
      BY <1>1, <2>6, <3>2, AtBounds
    <3>5. y <= v
      BY <1>1, <2>1, <3>2, AtBounds
    <3> QED
      BY <1>2, <3>2, <3>3, <3>4, <3>5
  <2> QED
    BY <2>9, <2>10
<1> QED
  BY <1>3, <1>4

(* The entries a score is at or above. *)
ReachedBy(f, v) == {k \in DOMAIN f : f[k].score <= v}

(* What a summary reaches. *)
LEMMA SettlesReach ==
  ASSUME NEW f \in Tables, NEW n \in Nat, Weighed(f, n), NEW w \in Nat, w <= n * 100, f # <<>>,
         NEW v, Settles(f, w, v), NEW R, R = ReachedBy(f, v)
  PROVE  /\ R # {} /\ NumLess(f, Max(R) + 1) * 100 >= w
         /\ v = f[Len(f)].score \/ NumLess(f, Max(R)) * 100 <= w
<1>1. PICK l \in Nat \ {0} : l = Len(f) /\ DOMAIN f = 1..l
  BY SettlesBounds, TableIs
<1>2. v \in Int /\ l \in 1..l /\ \A k \in 1..l : f[k].score \in Int
  BY <1>1, SettlesBounds, TableIs
<1>0. \A k : k \in R <=> k \in 1..l /\ f[k].score <= v
  BY <1>1 DEF ReachedBy
<1>3. R \in SUBSET Nat
  BY <1>0
<1>4. CASE v = f[l].score
  <2>1. \A k \in 1..l : k = l \/ k < l
    OBVIOUS
  <2>2. l \in R /\ \A k \in R : k <= l
    BY <1>0, <1>2, <1>4
  <2>3. Max(R) = l
    BY <1>3, <2>2, MaxIs
  <2>4. NumLess(f, Max(R) + 1) = n
    BY <1>1, <2>3 DEF Weighed
  <2> QED
    BY <1>1, <1>4, <2>2, <2>4
<1>5. CASE v # f[l].score
  <2>1. PICK k \in 2..(l - 1) : Between(f, w, k) /\ v = At(f, w, k)
    BY <1>1, <1>5 DEF Settles
  <2>2. f[k - 1].score <= v /\ v < f[k].score
    BY <1>1, <2>1, AtBounds
  <2>3. k \in 1..l /\ k - 1 \in 1..l /\ k - 1 \in R
    BY <1>0, <2>1, <2>2
  <2>4. \A j \in R : j <= k - 1
    <3> SUFFICES ASSUME NEW j \in R, ~(j <= k - 1) PROVE FALSE
      OBVIOUS
    <3>1. j \in 1..l /\ f[j].score <= v
      BY <1>0
    <3>2. j = k \/ k < j
      BY <3>1
    <3>3. PICK x, y \in Int : x = f[j].score /\ y = f[k].score
      BY <1>2, <2>3, <3>1
    <3>4. y <= x
      <4>1. CASE j = k
        BY <3>3, <4>1
      <4>2. CASE k < j
        <5>1. y < x
          BY <1>1, <2>3, <3>1, <3>3, <4>2, TableIs
        <5> QED
          BY <5>1
      <4> QED
        BY <3>2, <4>1, <4>2
    <3> QED
      BY <1>2, <2>2, <3>1, <3>3, <3>4
  <2>5. Max(R) = k - 1 /\ Max(R) + 1 = k
    <3>1. Max(R) = k - 1
      BY <1>3, <2>3, <2>4, MaxIs
    <3> QED
      BY <3>1
  <2>6. NumLess(f, k - 1) * 100 <= w /\ w < NumLess(f, k) * 100
    BY <2>1 DEF Between
  <2>7. PICK a \in Nat : a = NumLess(f, k)
    BY <1>1, <2>3, NumLessTurns
  <2> QED
    BY <2>3, <2>5, <2>6, <2>7
<1> QED
  BY <1>4, <1>5

(* interpolatequantile: the summaries of a group. *)
LEMMA GroupSummarized ==
  ASSUME NEW m, NumberedGroup(m), NEW sums, sums = [q \in DOMAIN quantiles |-> InterpolateQuantile(m, quantiles[q])]
  PROVE  Summarized(m, sums)
<1> SUFFICES ASSUME m.freqs # <<>> PROVE Summarized(m, sums)
  BY DEF Summarized
<1>1. PICK f \in Tables, n \in Nat : f = m.freqs /\ n = m.valid /\ Weighed(f, n)
  BY DEF NumberedGroup
<1>2. DOMAIN quantiles = 1..5 /\ \A q \in 1..5 : quantiles[q] \in 0..100
  BY DEF quantiles
<1>3. \A q \in 1..5 : q > 1 => q - 1 \in 1..5 /\ quantiles[q - 1] <= quantiles[q]
  BY DEF quantiles
<1>4. PICK ws : ws = [q \in 1..5 |-> quantiles[q] * n]
  OBVIOUS
<1>5. ASSUME NEW q \in 1..5 PROVE ws[q] \in Nat /\ ws[q] = quantiles[q] * n
  <2>1. PICK x \in Nat : x = quantiles[q]
    BY <1>2
  <2>2. x * n \in Nat
    BY ONLY x \in Nat, n \in Nat
  <2>3. ws[q] = quantiles[q] * n
    BY ONLY <1>4, q \in 1..5
  <2> QED
    BY ONLY <2>1, <2>2, <2>3
<1>6. ASSUME NEW q \in 1..5 PROVE Settles(f, ws[q], sums[q])
  <2>1. PICK x \in Nat : x = quantiles[q]
    BY <1>2
  <2>2. PICK w \in Nat : w = ws[q]
    BY <1>5
  <2>3. w = x * m.valid
    BY <1>1, <1>5, <2>1, <2>2
  <2>4. Settles(m.freqs, w, InterpolateQuantile(m, x))
    BY <2>3, InterpolateSettles
  <2>5. sums[q] = InterpolateQuantile(m, x)
    BY <1>2, <2>1
  <2> QED
    BY <1>1, <2>2, <2>4, <2>5
<1>7. ASSUME NEW q \in 1..5, NEW R, R = {k \in DOMAIN f : f[k].score <= sums[q]}
      PROVE  /\ q > 1 => sums[q - 1] <= sums[q]
             /\ R # {} /\ sums[q] <= Last(f).score
             /\ NumLess(f, Max(R) + 1) * 100 >= quantiles[q] * n
             /\ sums[q] = Last(f).score \/ NumLess(f, Max(R)) * 100 <= quantiles[q] * n
  <2>1. PICK x, w, v : x \in 0..100 /\ w \in Nat /\ x = quantiles[q] /\ w = x * n /\ v = sums[q] /\ Settles(f, w, v)
    BY <1>2, <1>5, <1>6
  <2>2. Last(f) = f[Len(f)]
    BY DEF Last
  <2>3. v <= f[Len(f)].score
    BY <1>1, <2>1, SettlesBounds
  <2>4. /\ R # {} /\ NumLess(f, Max(R) + 1) * 100 >= w
        /\ v = f[Len(f)].score \/ NumLess(f, Max(R)) * 100 <= w
    <3>1. R = ReachedBy(f, v)
      BY <1>7, <2>1 DEF ReachedBy
    <3>2. Weighed(f, n) /\ f # <<>>
      BY <1>1
    <3>3. w <= n * 100
      <4>1. \A a \in 0..100 : a * n <= n * 100
        OBVIOUS
      <4> QED
        BY ONLY <2>1, <4>1, x \in 0..100
    <3> QED
      BY ONLY <2>1, <3>1, <3>2, <3>3, f \in Tables, n \in Nat, w \in Nat, SettlesReach
  <2>5. ASSUME q > 1 PROVE sums[q - 1] <= sums[q]
    <3>1. PICK y \in 0..100, z \in Nat : y = quantiles[q - 1] /\ z = y * n /\ Settles(f, z, sums[q - 1]) /\ y <= x
      BY <1>2, <1>3, <1>5, <1>6, <2>1, <2>5
    <3>2. z <= w
      <4>1. \A a, b \in Nat, c \in Nat : a <= b => a * c <= b * c
        OBVIOUS
      <4>2. x \in Nat /\ y \in Nat
        BY ONLY <2>1, y \in 0..100
      <4> QED
        BY ONLY <2>1, <3>1, <4>1, <4>2, n \in Nat
    <3> QED
      BY <1>1, <2>1, <3>1, <3>2, SettlesGrow
  <2> QED
    BY <2>1, <2>2, <2>3, <2>4, <2>5
<1> QED
  BY <1>1, <1>2, <1>7 DEF Summarized

----------------------------------------------------------------------------
(* The bins of the histograms *)

(* A part of a whole is in one of 50 bins. *)
LEMMA BinOf ==
  ASSUME NEW d \in Nat \ {0}, NEW x \in 0..d
  PROVE  (49 * x) \div d \in 0..49
<1>1. PICK y, z \in Nat : y = 49 * x /\ z = 49 * d /\ y <= z /\ 0 <= y
  OBVIOUS
<1>2. y \div d \in Int /\ z \div d \in Int /\ y \div d <= z \div d
  BY ONLY <1>1, d \in Nat \ {0}, 0 \in Nat, y \in Nat, z \in Nat, TimesDiv
<1>3. 0 \div d \in Int /\ 0 \div d <= y \div d
  BY ONLY <1>1, d \in Nat \ {0}, 0 \in Nat, y \in Nat, TimesDiv
<1>4. z \div d = 49
  <2>1. PICK r \in Int : r = z \div d
    BY <1>2
  <2>2. d * r <= z /\ z < d * (r + 1)
    BY <2>1
  <2>3. ~(r + 1 <= 49)
    <3> SUFFICES ASSUME r + 1 <= 49 PROVE FALSE
      OBVIOUS
    <3>1. \A a, b \in Int : a <= b => d * a <= d * b
      OBVIOUS
    <3>2. d * (r + 1) <= d * 49 /\ d * 49 = 49 * d
      BY <3>1
    <3>3. d * (r + 1) \in Int
      OBVIOUS
    <3> QED
      BY <1>1, <2>2, <3>2, <3>3
  <2>4. ~(50 <= r)
    <3> SUFFICES ASSUME 50 <= r PROVE FALSE
      OBVIOUS
    <3>1. \A a, b \in Int : a <= b => d * a <= d * b
      OBVIOUS
    <3>2. d * 50 <= d * r /\ d * 50 = 49 * d + d
      BY <3>1
    <3>3. d * r \in Int
      OBVIOUS
    <3> QED
      BY <1>1, <2>2, <3>2, <3>3
  <2> QED
    BY <2>1, <2>3, <2>4
<1>5. 0 \div d = 0
  OBVIOUS
<1> QED
  BY <1>1, <1>2, <1>3, <1>4, <1>5

(* reporthistos: every composite score of the class has a bin. *)
LEMMA CompositeBins ==
  ASSUME Listed(roster), Range(roster) \subseteq Students, composite \in [Students -> Int], NEW st \in Range(roster)
  PROVE  CompositeBin(st) \in 0..49
<1>1. PICK n \in Nat : n = Len(roster) /\ DOMAIN roster = 1..n /\ \A k \in 1..n : roster[k] \in Students
  BY DEF Listed, Range
<1>2. PICK f : f = [k \in 1..(n + 1) |-> IF k = n + 1 THEN 0 ELSE composite[roster[k]]]
  OBVIOUS
<1>3. \A k \in 1..(n + 1) : k = n + 1 \/ k \in 1..n
  OBVIOUS
<1>4. f \in [1..(n + 1) -> Int]
  BY <1>1, <1>2, <1>3
<1>5. PICK all : all = {0} \cup {composite[s] : s \in Range(roster)}
  OBVIOUS
<1>6. all = {f[k] : k \in 1..(n + 1)}
  <2>1. n + 1 \in 1..(n + 1) /\ f[n + 1] = 0
    BY <1>2
  <2>2. \A k \in 1..n : k \in 1..(n + 1) /\ f[k] = composite[roster[k]]
    BY <1>2
  <2>3. Range(roster) = {roster[k] : k \in 1..n}
    BY <1>1 DEF Range
  <2>4. \A x : x \in all <=> x = 0 \/ \E k \in 1..n : x = composite[roster[k]]
    BY ONLY <1>5, <2>3
  <2>5. \A x : x \in {f[k] : k \in 1..(n + 1)} <=> x = 0 \/ \E k \in 1..n : x = composite[roster[k]]
    BY ONLY <1>3, <2>1, <2>2
  <2> QED
    BY ONLY <2>4, <2>5
<1>7. /\ Max(all) \in Int /\ Min(all) \in Int
      /\ \A x \in all : x \in Int /\ Min(all) <= x /\ x <= Max(all)
  <2>1. n + 1 \in Nat /\ n + 1 # 0
    OBVIOUS
  <2> QED
    BY <1>4, <1>6, <2>1, ListBounds
<1>8. PICK a, b \in Int : a = Min(all) /\ b = Max(all)
  BY <1>7
<1>9. PICK x \in Int : x = composite[st] /\ a <= x /\ x <= b
  <2>1. composite[st] \in all
    BY <1>5
  <2> QED
    BY <1>7, <1>8, <2>1
<1>10. PICK d \in Nat \ {0} : d = IF b = a THEN Unit ELSE b - a
  BY <1>9 DEF Unit
<1>11. x - a \in 0..d
  BY <1>9, <1>10
<1>12. CompositeBin(st) = (49 * (x - a)) \div d
  BY <1>5, <1>8, <1>9, <1>10 DEF CompositeBin
<1> QED
  BY <1>11, <1>12, BinOf

(* reporthistos: every score that is not below 0 has a bin. *)
LEMMA ScoreBins ==
  ASSUME NEW a, NEW score \in Nat, course.assignments[a].max \in Int, stats[a].class.max \in Int
  PROVE  ScoreBin(a, score) \in 0..49
<1>1. PICK x, m \in Int : x = course.assignments[a].max /\ m = stats[a].class.max
  OBVIOUS
<1>2. PICK max \in Int : max = (IF x # 0 THEN x ELSE IF m = 0 THEN Unit ELSE m) /\ max # 0
  BY DEF Unit
<1>3. ScoreBin(a, score) = IF score > max THEN 49
                           ELSE IF max > 0 THEN Truncated(49 * score, max) ELSE Truncated(-49 * score, -max)
  BY <1>1, <1>2 DEF ScoreBin
<1>4. CASE score > max
  BY <1>3, <1>4
<1>5. CASE ~(score > max)
  <2>1. max > 0 /\ max \in Nat \ {0} /\ score \in 0..max
    BY <1>2, <1>5
  <2>2. ~(49 * score < 0)
    OBVIOUS
  <2>3. ScoreBin(a, score) = (49 * score) \div max
    BY <1>3, <1>5, <2>1, <2>2 DEF Truncated
  <2> QED
    BY <2>1, <2>3, BinOf
<1> QED
  BY <1>4, <1>5

----------------------------------------------------------------------------
(* What the reports say *)

(* The groups an assignment has, one for the class and one for each section. *)
AllGroups(st, n) ==
  /\ NumberedGroup(st.class) /\ DOMAIN st.sections = 1..n /\ st.sections = [s \in 1..n |-> st.sections[s]]
  /\ \A s \in 1..n : NumberedGroup(st.sections[s])

(* The groups are there from the time scores are normalized; nothing is      *)
(* reported before the lists are sorted.                                    *)
ShowInv ==
  /\ phase = "composites" \/ phase \in SortPhases => \A a \in Assignments : AllGroups(stats[a], Len(course.sections))
  /\ phase \notin {"free", "exit", "crash"} => out.report = <<>>
  /\ ReportsInRange

(* What normal replaces leaves a group of numbers. *)
LEMMA EnoughIs ==
  ASSUME NEW m, NumberedGroup(m), NEW e, e = [m EXCEPT !.stddev = AtLeastTiny(@)]
  PROVE  NumberedGroup(e)
<1>1. PICK d \in Int : d = AtLeastTiny(m.stddev)
  BY DEF NumberedGroup, AtLeastTiny, Tiny
<1>2. e = [m EXCEPT !.stddev = d]
  BY ONLY <1>1, e = [m EXCEPT !.stddev = AtLeastTiny(@)]
<1>3. m = [freqs |-> m.freqs, valid |-> m.valid, max |-> m.max, mean |-> m.mean, stddev |-> m.stddev]
  BY DEF NumberedGroup
<1>4. e = [freqs |-> m.freqs, valid |-> m.valid, max |-> m.max, mean |-> m.mean, stddev |-> d]
  BY ONLY <1>2, <1>3
<1>5. e.freqs = m.freqs /\ e.valid = m.valid /\ e.max = m.max /\ e.mean = m.mean /\ e.stddev = d
  BY ONLY <1>4
<1>6. e = [freqs |-> e.freqs, valid |-> e.valid, max |-> e.max, mean |-> e.mean, stddev |-> e.stddev]
  BY ONLY <1>4, <1>5
<1> QED
  BY <1>1, <1>5, <1>6 DEF NumberedGroup

(* normal.c leaves each assignment its groups. *)
LEMMA NormalizeGroups ==
  ASSUME RunInv, NumInv, Normalize
  PROVE  \A a \in Assignments' : AllGroups(stats'[a], Len(course'.sections))
<1>1. phase = "normalize" /\ stats = StatsOf /\ NumbersOK(course) /\ CourseOK(course)
  BY DEF Normalize, NumInv, RunInv, BookInv
<1>2. course'.sections = course.sections /\ Assignments' = Assignments
  BY <1>1, NormalizeAsgts DEF Assignments
<1>3. PICK n \in Nat : n = Len(course.sections) /\ Sections = 1..n
  BY <1>1, CourseFields DEF Sections
<1>4. ASSUME NEW a \in Assignments PROVE AllGroups(stats'[a], n)
  <2>1. NumberedGroup(stats[a].class) /\ \A s \in 1..n : NumberedGroup(stats[a].sections[s])
    BY <1>1, <1>3, TablesThere DEF ListTable
  <2> DEFINE Used(g) == course.assignments[a].policy = "LINEAR" /\ course.assignments[a].group = g
             Enough(m) == IF m.valid > 0 THEN [m EXCEPT !.stddev = AtLeastTiny(@)] ELSE m
  <2>2. ASSUME NEW m, NumberedGroup(m) PROVE NumberedGroup(Enough(m))
    BY <2>2, EnoughIs
  <2>3. PICK c : c = (IF Used("BYCLASS") THEN Enough(stats[a].class) ELSE stats[a].class)
    OBVIOUS
  <2>4. PICK ss : ss = [s \in Sections |-> IF Used("BYSECTION") THEN Enough(stats[a].sections[s]) ELSE stats[a].sections[s]]
    OBVIOUS
  <2>5. stats'[a] = [class |-> c, sections |-> ss]
    BY <2>3, <2>4 DEF Normalize
  <2>6. NumberedGroup(c)
    BY <2>1, <2>2, <2>3
  <2>7. DOMAIN ss = 1..n /\ \A s \in 1..n : NumberedGroup(ss[s])
    BY <1>3, <2>1, <2>2, <2>4
  <2>8. ss = [s \in 1..n |-> ss[s]]
    BY <1>3, <2>4
  <2>9. stats'[a].class = c /\ stats'[a].sections = ss
    BY <2>5
  <2> QED
    BY <2>6, <2>7, <2>8, <2>9 DEF AllGroups
<1> QED
  BY <1>2, <1>3, <1>4

(* What the reports say of an assignment is said of groups of numbers. *)
LEMMA GroupsAre ==
  ASSUME NEW a, NEW n \in Nat, n = Len(course.sections), AllGroups(stats[a], n), NEW g \in DOMAIN Groups(a)
  PROVE  NumberedGroup(Groups(a)[g])
<1>1. PICK c, ss : c = stats[a].class /\ ss = stats[a].sections
  OBVIOUS
<1>2. NumberedGroup(c) /\ ss = [s \in 1..n |-> ss[s]] /\ \A s \in 1..n : NumberedGroup(ss[s])
  BY <1>1 DEF AllGroups
<1>3. PICK G : G = {c} \cup {ss[s] : s \in 1..n}
  OBVIOUS
<1>4. \A m \in G : NumberedGroup(m)
  BY <1>2, <1>3
<1>5. ss \in Seq(G)
  <2>1. ss \in [1..n -> G]
    BY <1>2, <1>3
  <2> QED
    BY <2>1
<1>6. PICK rest : rest = IF Len(course.sections) = 1 THEN <<>> ELSE ss
  OBVIOUS
<1>7. Groups(a) = <<c>> \o rest
  BY <1>1, <1>6 DEF Groups
<1>8. <<c>> \in Seq(G)
  BY <1>3
<1>9. rest \in Seq(G)
  <2>1. <<>> \in Seq(G)
    OBVIOUS
  <2> QED
    BY <1>5, <1>6, <2>1
<1>10. Groups(a) \in Seq(G)
  BY <1>7, <1>8, <1>9
<1> QED
  BY <1>4, <1>10

(* report.c: what is reported is in range. *)
LEMMA ReportRange ==
  ASSUME RunInv, NumInv, ShowInv, Report
  PROVE  ReportsInRange'
<1>1. /\ phase \in SortPhases /\ phase = "sortby" /\ CourseOK(course) /\ NumbersOK(course) /\ Listed(roster)
      /\ composite \in [Students -> Int] /\ UNCHANGED <<course, stats, roster>>
  BY DEF Report, SortPhases, RunInv, BookInv, NumInv, readerVars
<1>2. PICK n \in Nat : n = Len(course.sections)
  BY <1>1, CourseFields
<1>3. \A a \in Assignments : AllGroups(stats[a], n)
  BY <1>1, <1>2 DEF ShowInv
<1>4. PICK histos, sums : histos = reporthistos /\ sums = reportquantilesummaries
  OBVIOUS
<1>5. PICK r : r = [
       moments |-> reportmoments, composites |-> reportcomposites, freqs |-> reportfreqs,
       quantiles |-> reportquantiles, summaries |-> sums, histos |-> histos,
       scores |-> reportscores, tabs |-> reporttabs]
  OBVIOUS
<1>6. r.histos = histos /\ r.summaries = sums
  BY ONLY <1>5
<1>7. \A x \in Range(out'.report) : x = r
  <2>1. out' = [Nothing EXCEPT !.report = <<r>>]
    BY <1>4, <1>5 DEF Report
  <2>2. out' = [lines |-> <<>>, report |-> <<r>>]
    BY <2>1 DEF Nothing
  <2>3. out'.report = <<r>>
    BY ONLY <2>2
  <2>4. PICK f : f = <<r>>
    OBVIOUS
  <2>5. \A k \in DOMAIN f : f[k] = r
    BY ONLY <2>4
  <2> QED
    BY <2>3, <2>4, <2>5 DEF Range
<1>8. Range(histos.composites) \subseteq 0..49
  <2>1. histos.composites = [k \in DOMAIN roster |-> CompositeBin(roster[k])]
    BY <1>4 DEF reporthistos
  <2>2. Range(roster) \subseteq Students
    BY <1>1 DEF RunInv, ClassInv, Unread
  <2>3. \A st \in Range(roster) : CompositeBin(st) \in 0..49
    BY <1>1, <2>2, CompositeBins
  <2> QED
    BY <2>1, <2>3 DEF Range
<1>9. ASSUME NEW a \in Assignments, ~\E f \in Range(stats[a].class.freqs) : f.score < 0,
             NEW k \in DOMAIN histos.scores[a]
      PROVE  histos.scores[a][k].bin \in 0..49
  <2>1. PICK fr : fr = stats[a].class.freqs
    OBVIOUS
  <2>2. histos.scores[a] = [i \in DOMAIN fr |-> [bin |-> ScoreBin(a, fr[i].score), count |-> fr[i].count]]
    BY <1>4, <2>1 DEF reporthistos
  <2>3. NumberedGroup(stats[a].class)
    BY <1>3 DEF AllGroups
  <2>4. fr \in Seq(AFreq) /\ stats[a].class.max \in Int
    BY <2>1, <2>3 DEF NumberedGroup, Tables
  <2>5. k \in DOMAIN fr
    BY <1>9, <2>2
  <2>6. fr[k] \in AFreq /\ fr[k] \in Range(fr)
    BY <2>4, <2>5 DEF Range
  <2>7. fr[k].score \in Int
    BY <2>6 DEF AFreq
  <2>8. fr[k].score \in Nat
    BY <1>9, <2>1, <2>6, <2>7
  <2>9. course.assignments[a].max \in Int
    BY <1>1 DEF NumbersOK, AsgtOK, Assignments
  <2>10. ScoreBin(a, fr[k].score) \in 0..49
    BY <2>4, <2>8, <2>9, ScoreBins
  <2>11. histos.scores[a][k] = [bin |-> ScoreBin(a, fr[k].score), count |-> fr[k].count]
    BY <2>2, <2>5
  <2> QED
    BY <2>10, <2>11
<1>10. ASSUME NEW a \in Assignments, NEW g \in DOMAIN Groups(a)
       PROVE  Summarized(Groups(a)[g], sums[a][g])
  <2>1. NumberedGroup(Groups(a)[g])
    BY <1>2, <1>3, GroupsAre
  <2>2. PICK m : m = Groups(a)[g]
    OBVIOUS
  <2>3. sums[a][g] = [q \in DOMAIN quantiles |-> InterpolateQuantile(m, quantiles[q])]
    BY <1>4, <2>2 DEF reportquantilesummaries, EachGroup
  <2> QED
    BY <2>1, <2>2, <2>3, GroupSummarized
<1>11. Assignments' = Assignments /\ \A a : Groups(a)' = Groups(a)
  BY <1>1 DEF Assignments, Groups
<1> QED
  BY <1>1, <1>6, <1>7, <1>8, <1>9, <1>10, <1>11 DEF ReportsInRange

(* What was reported stays in range of what it was reported of. *)
LEMMA ShowStays ==
  ASSUME ShowInv, UNCHANGED <<course, stats, out>>,
         phase' = phase \/ (phase = "free" /\ phase' \in {"exit", "crash"}) \/ (phase = "composites" /\ phase' = "sort")
  PROVE  ShowInv'
<1>1. Assignments' = Assignments /\ \A a : Groups(a)' = Groups(a)
  BY DEF Assignments, Groups
<1>2. ReportsInRange'
  BY <1>1 DEF ShowInv, ReportsInRange
<1> QED
  BY <1>1, <1>2 DEF ShowInv, SortPhases

(* Every step keeps what the reports say in range. *)
LEMMA ShowStep ==
  ASSUME RunInv, NumInv, ShowInv, [Next]_vars
  PROVE  ShowInv'
<1>1. BookInv /\ CourseOK(course)
  BY DEF RunInv, BookInv
<1>2. ASSUME out'.report = <<>> PROVE ReportsInRange'
  <2>1. PICK f : f = <<>>
    OBVIOUS
  <2>2. Range(f) = {}
    BY <2>1 DEF Range
  <2>3. Range(out'.report) = {}
    BY <1>2, <2>1, <2>2
  <2> QED
    BY <2>3 DEF ReportsInRange
<1>3. CASE UNCHANGED vars \/ FreeCourse \/ Composites
  <2>1. /\ UNCHANGED <<course, stats, out>>
        /\ phase' = phase \/ (phase = "free" /\ phase' \in {"exit", "crash"}) \/ (phase = "composites" /\ phase' = "sort")
    BY <1>3 DEF vars, readerVars, bookVars, FreeCourse, Composites
  <2> QED
    BY <2>1, ShowStays
<1>4. CASE Options \/ Reading \/ GiveUp \/ Statistics \/ RunAgain
  <2>1. phase' \in {"options", "usage", "reading", "failed", "normalize"} /\ out'.report = <<>>
    BY <1>4 DEF Options, Reading, GiveUp, Statistics, RunAgain, bookVars, Nothing, ShowInv
  <2> QED
    BY <1>2, <2>1 DEF ShowInv, SortPhases
<1>5. CASE Normalize
  <2>1. phase' = "composites" /\ out'.report = <<>>
    BY <1>5 DEF Normalize, ShowInv
  <2> QED
    BY <1>2, <1>5, <2>1, NormalizeGroups DEF ShowInv
<1>6. CASE SortRoster \/ SortTable \/ Relink \/ CheckForDups \/ Collate \/ Report
  <2>1. stats' = stats /\ phase \in SortPhases /\ phase \notin {"free", "exit", "crash"} /\ phase' \in SortPhases
    BY <1>1, <1>6 DEF SortRoster, SortTable, Relink, CheckForDups, Collate, Report, SortPhases, BookInv, SortingOK
  <2>2. course'.assignments = course.assignments /\ Len(course'.sections) = Len(course.sections)
    BY <1>1, <1>6, AsgtsStay, KeysStay
  <2>3. \A a \in Assignments' : AllGroups(stats'[a], Len(course'.sections))
    BY <2>1, <2>2 DEF ShowInv, Assignments
  <2>4. ~Report => out'.report = <<>> /\ phase' # "exit"
    BY <1>6, <2>1 DEF SortRoster, SortTable, Relink, CheckForDups, Collate, Nothing, ShowInv
  <2>5. Report => phase' = "free" /\ ReportsInRange'
    BY ReportRange DEF Report
  <2> QED
    BY <1>2, <2>1, <2>3, <2>4, <2>5 DEF ShowInv
<1> QED
  BY <1>3, <1>4, <1>5, <1>6 DEF Next

(* In every report of every run, a summary rises with its percentage and is  *)
(* between the scores it must be between, and every student, and every      *)
(* score unless one is below 0, has a bin of its histogram (report.c).      *)
THEOREM ReportsStayInRange == Spec => []ReportsInRange
<1>1. Init => RunInv /\ NumInv /\ ShowInv
  <2>1. Init => ShowInv
    <3> SUFFICES ASSUME Init PROVE ShowInv
      OBVIOUS
    <3>1. out.report = <<>> /\ phase = "options"
      BY DEF Init, Nothing
    <3>2. PICK f : f = <<>>
      OBVIOUS
    <3>3. Range(f) = {}
      BY <3>2 DEF Range
    <3> QED
      BY <3>1, <3>2, <3>3 DEF ShowInv, SortPhases, ReportsInRange
  <2> QED
    BY <2>1, RunInit, NumInit
<1>2. RunInv /\ NumInv /\ ShowInv /\ [Next]_vars => RunInv' /\ NumInv' /\ ShowInv'
  BY RunStep, NumStep, ShowStep
<1>3. ShowInv => ReportsInRange
  BY DEF ShowInv
<1> QED
  BY <1>1, <1>2, <1>3, PTL DEF Spec

----------------------------------------------------------------------------
(* What lines say *)

(* The first sequences of several, joined. *)
Joins(p, seqs, n, S) ==
  /\ p[0] = <<>> /\ (\A k \in 0..n : p[k] \in Seq(S)) /\ \A k \in 1..n : p[k] = p[k - 1] \o seqs[k]
  /\ Concat(seqs) = p[n] /\ \A j \in 0..n : Concat([k \in 1..j |-> seqs[k]]) = p[j]

(* Concat joins the first of several sequences, too. *)
LEMMA ConcatTo ==
  ASSUME NEW S, NEW n \in Nat, NEW seqs \in [1..n -> Seq(S)]
  PROVE  \E p : Joins(p, seqs, n, S)
<1>1. PICK p : Joined(p, seqs, n, S) /\ Concat(seqs) = p[n]
  BY ConcatJoins
<1>a. p[0] = <<>> /\ (\A k \in 0..n : p[k] \in Seq(S)) /\ \A k \in 1..n : p[k] = p[k - 1] \o seqs[k]
  BY <1>1 DEF Joined
<1>2. ASSUME NEW j \in 0..n PROVE Concat([k \in 1..j |-> seqs[k]]) = p[j]
  <2>1. PICK sub : sub = [k \in 1..j |-> seqs[k]]
    OBVIOUS
  <2>2. sub \in [1..j -> Seq(S)] /\ j \in Nat
    BY <2>1
  <2>3. PICK r : Joined(r, sub, j, S) /\ Concat(sub) = r[j]
    BY <2>2, ConcatJoins
  <2>4. PICK D : D = {i \in 0..j : r[i] = p[i]}
    OBVIOUS
  <2>5. 0 \in D
    BY <1>1, <2>3, <2>4 DEF Joined
  <2>6. ASSUME NEW i \in 0..(j - 1), i \in D PROVE i + 1 \in D
    <3>1. i + 1 \in 1..j /\ i + 1 \in 1..n /\ i + 1 - 1 = i /\ i + 1 \in 0..j
      OBVIOUS
    <3>2. r[i + 1] = r[i + 1 - 1] \o sub[i + 1] /\ p[i + 1] = p[i + 1 - 1] \o seqs[i + 1]
      <4>1. \A k \in 1..j : r[k] = r[k - 1] \o sub[k]
        BY <2>3 DEF Joined
      <4>2. PICK e : e = i + 1
        OBVIOUS
      <4>3. r[e] = r[e - 1] \o sub[e] /\ p[e] = p[e - 1] \o seqs[e]
        BY ONLY <1>a, <3>1, <4>1, <4>2
      <4> QED
        BY ONLY <4>2, <4>3
    <3>3. sub[i + 1] = seqs[i + 1]
      BY <2>1, <3>1
    <3>4. r[i] = p[i]
      BY <2>4, <2>6
    <3> QED
      BY ONLY <2>4, <3>1, <3>2, <3>3, <3>4
  <2>7. j \in D
    <3>1. j \in Nat
      OBVIOUS
    <3>2. \A i \in 0..j : i \in D
      BY ONLY <2>5, <2>6, <3>1, UpTo
    <3> QED
      BY ONLY <3>1, <3>2
  <2> QED
    BY ONLY <2>1, <2>3, <2>4, <2>7
<1> QED
  BY <1>1, <1>2, <1>a DEF Joins

(* One after the other; one row after the other. *)
ARow(s, n, S) == s \in [1..n -> Seq(S)]
Joint(c, a, b) == c = a \o b
InARow(all, s, n, t, m) == all = [k \in 1..(n + m) |-> IF k <= n THEN s[k] ELSE t[k - n]]

(* Two rows of sequences, joined. *)
LEMMA ConcatOfTwo ==
  ASSUME NEW S, NEW n \in Nat, NEW m \in Nat, NEW seqs, ARow(seqs, n, S), NEW more, ARow(more, m, S),
         NEW all, InARow(all, seqs, n, more, m)
  PROVE  Joint(Concat(all), Concat(seqs), Concat(more))
<1> USE DEF InARow, ARow, Joint
<1>1. \A k \in 1..(n + m) : IF k <= n THEN k \in 1..n ELSE k - n \in 1..m
  OBVIOUS
<1>2. PICK t \in Nat : t = n + m
  OBVIOUS
<1>a. all \in [1..t -> Seq(S)]
  BY <1>1, <1>2
<1>b. PICK p : Joins(p, all, t, S)
  BY ONLY <1>a, t \in Nat, ConcatTo
<1>3. Joins(p, all, n + m, S)
  BY ONLY <1>2, <1>b
<1>c. PICK q : Joins(q, more, m, S)
  BY ConcatTo
<1>4. q[0] = <<>> /\ (\A k \in 0..m : q[k] \in Seq(S)) /\ (\A k \in 1..m : q[k] = q[k - 1] \o more[k]) /\ Concat(more) = q[m]
  BY <1>c DEF Joins
<1>d. /\ Concat(all) = p[n + m] /\ \A j \in 0..(n + m) : Concat([k \in 1..j |-> all[k]]) = p[j]
      /\ (\A k \in 0..(n + m) : p[k] \in Seq(S)) /\ \A k \in 1..(n + m) : p[k] = p[k - 1] \o all[k]
  BY <1>3 DEF Joins
<1>5. p[n] = Concat(seqs)
  <2>1. n \in 0..(n + m)
    OBVIOUS
  <2>2. PICK sub : sub = [k \in 1..n |-> all[k]]
    OBVIOUS
  <2>3. \A k \in 1..n : all[k] = seqs[k]
    OBVIOUS
  <2>4. sub = seqs
    BY <2>2, <2>3
  <2> QED
    BY ONLY <1>d, <2>1, <2>2, <2>4
<1>6. p[n] \in Seq(S)
  <2>1. n \in 0..(n + m)
    OBVIOUS
  <2> QED
    BY ONLY <1>d, <2>1
<1>7. PICK D : D = {i \in 0..m : p[n + i] = p[n] \o q[i]}
  OBVIOUS
<1>8. 0 \in D
  <2>1. q[0] = <<>> /\ n + 0 = n /\ 0 \in 0..m
    BY <1>4
  <2>2. p[n] \o <<>> = p[n]
    BY <1>6
  <2> QED
    BY ONLY <1>7, <2>1, <2>2
<1>9. ASSUME NEW i \in 0..(m - 1), i \in D PROVE i + 1 \in D
  <2>1. i + 1 \in 1..m /\ n + i + 1 \in 1..(n + m) /\ n + i + 1 - 1 = n + i /\ i + 1 - 1 = i /\ i + 1 \in 0..m
        /\ ~(n + i + 1 <= n) /\ n + i + 1 - n = i + 1 /\ n + (i + 1) = n + i + 1 /\ i \in 0..m
    OBVIOUS
  <2>2. p[n + i + 1] = p[n + i + 1 - 1] \o all[n + i + 1] /\ q[i + 1] = q[i + 1 - 1] \o more[i + 1]
    <3>1. PICK e, d : e = i + 1 /\ d = n + i + 1
      OBVIOUS
    <3>2. e \in 1..m /\ d \in 1..(n + m)
      BY ONLY <2>1, <3>1
    <3>3. p[d] = p[d - 1] \o all[d] /\ q[e] = q[e - 1] \o more[e]
      BY ONLY <1>d, <1>4, <3>2
    <3> QED
      BY ONLY <3>1, <3>3
  <2>3. all[n + i + 1] = more[i + 1]
    BY <2>1
  <2>4. p[n + i] = p[n] \o q[i]
    BY <1>7, <1>9
  <2>5. q[i] \in Seq(S) /\ more[i + 1] \in Seq(S)
    <3>1. \A k \in 1..m : more[k] \in Seq(S)
      OBVIOUS
    <3> QED
      BY ONLY <1>4, <2>1, <3>1
  <2>6. (p[n] \o q[i]) \o more[i + 1] = p[n] \o (q[i] \o more[i + 1])
    <3>1. PICK x, y, z \in Seq(S) : x = p[n] /\ y = q[i] /\ z = more[i + 1]
      BY ONLY <1>6, <2>5
    <3>2. (x \o y) \o z = x \o (y \o z)
      BY ONLY x \in Seq(S), y \in Seq(S), z \in Seq(S), ConcatAssociative
    <3> QED
      BY ONLY <3>1, <3>2
  <2> QED
    BY ONLY <1>7, <2>1, <2>2, <2>3, <2>4, <2>6
<1>10. m \in D
  <2>1. \A i \in 0..m : i \in D
    BY ONLY <1>8, <1>9, m \in Nat, UpTo
  <2> QED
    BY ONLY <2>1, m \in Nat
<1> QED
  BY ONLY <1>4, <1>5, <1>7, <1>10, <1>d

(* What each of these lines says is of Y. *)
Spells(what, X, Y) == \A l \in X : Says(what, l) \in Seq(Y)

(* What lines say is what each of them says, in their order. *)
LEMMA SaidIs ==
  ASSUME NEW what, NEW X, NEW Y, Spells(what, X, Y), NEW lines \in Seq(X)
  PROVE  Said(what, lines) \in Seq(Y)
<1>1. PICK n \in Nat : n = Len(lines) /\ lines \in [1..n -> X]
  OBVIOUS
<1>2. PICK s : s = [k \in DOMAIN lines |-> Says(what, lines[k])]
  OBVIOUS
<1>3. s \in [1..n -> Seq(Y)]
  BY <1>1, <1>2 DEF Spells
<1>4. PICK p : Joins(p, s, n, Y)
  BY <1>3, ConcatTo
<1>5. n \in 0..n
  OBVIOUS
<1>6. Concat(s) \in Seq(Y)
  BY <1>4, <1>5 DEF Joins
<1> QED
  BY <1>2, <1>6 DEF Said

(* No lines say nothing, and one says what it says. *)
LEMMA SaidFew ==
  ASSUME NEW what, NEW Y
  PROVE  Said(what, <<>>) = <<>> /\ \A l : Says(what, l) \in Seq(Y) => Said(what, <<l>>) = Says(what, l)
<1>1. Said(what, <<>>) = <<>>
  <2>1. PICK s : s = [k \in DOMAIN <<>> |-> Says(what, <<>>[k])]
    OBVIOUS
  <2>2. s \in [1..0 -> Seq(Y)]
    BY <2>1
  <2>3. PICK p : Joined(p, s, 0, Y) /\ Concat(s) = p[0]
    BY <2>2, 0 \in Nat, ConcatJoins
  <2> QED
    BY <2>1, <2>3 DEF Said, Joined
<1>2. ASSUME NEW l, Says(what, l) \in Seq(Y) PROVE Said(what, <<l>>) = Says(what, l)
  <2>1. PICK x \in Seq(Y) : x = Says(what, l)
    BY <1>2
  <2>2. PICK f : f = <<l>>
    OBVIOUS
  <2>3. PICK s : s = [k \in DOMAIN f |-> Says(what, f[k])]
    OBVIOUS
  <2>4. s = [k \in 1..1 |-> x]
    <3>1. DOMAIN f = 1..1 /\ \A k \in 1..1 : f[k] = l
      BY ONLY <2>2
    <3> QED
      BY ONLY <2>1, <2>3, <3>1
  <2>5. s \in [1..1 -> Seq(Y)]
    BY <2>4
  <2>6. PICK p : Joined(p, s, 1, Y) /\ Concat(s) = p[1]
    BY <2>5, ConcatJoins
  <2>7. p[1] = p[0] \o s[1] /\ p[0] = <<>> /\ s[1] = x
    <3>1. p[0] = <<>> /\ \A k \in 1..1 : p[k] = p[k - 1] \o s[k]
      BY <2>6 DEF Joined
    <3>2. 1 \in 1..1 /\ 1 - 1 = 0
      OBVIOUS
    <3> QED
      BY ONLY <2>4, <3>1, <3>2
  <2>8. <<>> \o x = x
    BY ONLY x \in Seq(Y)
  <2> QED
    BY <2>1, <2>2, <2>3, <2>6, <2>7, <2>8 DEF Said
<1> QED
  BY <1>1, <1>2

(* Lines after lines say one thing after the other. *)
LEMMA SaidJoins ==
  ASSUME NEW what, NEW X, NEW Y, Spells(what, X, Y), NEW a \in Seq(X), NEW b \in Seq(X), NEW c, Joint(c, a, b)
  PROVE  Joint(Said(what, c), Said(what, a), Said(what, b))
<1>1. PICK n, m \in Nat : n = Len(a) /\ m = Len(b) /\ a \in [1..n -> X] /\ b \in [1..m -> X]
  OBVIOUS
<1>2. c = a \o b
  BY DEF Joint
<1>3. c = [k \in 1..(n + m) |-> IF k <= n THEN a[k] ELSE b[k - n]]
  <2>1. c \in Seq(X) /\ Len(c) = n + m
    BY <1>1, <1>2, ConcatProperties
  <2>2. \A k \in 1..(n + m) : c[k] = IF k <= n THEN a[k] ELSE b[k - n]
    <3>1. \A k \in 1..(Len(a) + Len(b)) : (a \o b)[k] = IF k <= Len(a) THEN a[k] ELSE b[k - Len(a)]
      BY ONLY a \in Seq(X), b \in Seq(X), ConcatProperties
    <3> QED
      BY ONLY <1>1, <1>2, <3>1
  <2>3. c = [k \in 1..(n + m) |-> c[k]]
    BY ONLY <2>1
  <2> QED
    BY ONLY <2>2, <2>3
<1>4. PICK s, t, u : /\ s = [k \in DOMAIN a |-> Says(what, a[k])] /\ t = [k \in DOMAIN b |-> Says(what, b[k])]
                     /\ u = [k \in DOMAIN c |-> Says(what, c[k])]
  OBVIOUS
<1>5. s \in [1..n -> Seq(Y)] /\ t \in [1..m -> Seq(Y)]
  BY <1>1, <1>4 DEF Spells
<1>6. InARow(u, s, n, t, m)
  <2>1. \A k \in 1..(n + m) : IF k <= n THEN k \in 1..n ELSE k - n \in 1..m
    OBVIOUS
  <2>2. DOMAIN c = 1..(n + m)
    BY ONLY <1>3
  <2>3. DOMAIN a = 1..n /\ DOMAIN b = 1..m
    BY ONLY <1>1
  <2>4. ASSUME NEW k \in 1..(n + m) PROVE u[k] = IF k <= n THEN s[k] ELSE t[k - n]
    <3>1. u[k] = Says(what, c[k]) /\ c[k] = IF k <= n THEN a[k] ELSE b[k - n]
      BY ONLY <1>3, <1>4, <2>2, k \in 1..(n + m)
    <3>2. k <= n => s[k] = Says(what, a[k])
      BY <1>4, <2>1, <2>3
    <3>3. ~(k <= n) => t[k - n] = Says(what, b[k - n])
      BY <1>4, <2>1, <2>3
    <3> QED
      BY <3>1, <3>2, <3>3
  <2> QED
    BY ONLY <1>4, <2>2, <2>4 DEF InARow
<1>7. Concat(u) = Concat(s) \o Concat(t)
  <2>1. ARow(s, n, Y)
    BY ONLY <1>5 DEF ARow
  <2>2. ARow(t, m, Y)
    BY ONLY <1>5 DEF ARow
  <2> QED
    <3>1. Joint(Concat(u), Concat(s), Concat(t))
      BY ONLY <1>6, <2>1, <2>2, n \in Nat, m \in Nat, ConcatOfTwo
    <3> QED
      BY ONLY <3>1 DEF Joint
<1> QED
  BY <1>4, <1>7 DEF Said, Joint

(* The lines of files are of X. *)
FilesOf(g, X) == \A f \in DOMAIN g : g[f] \in Seq(X)

(* A line, or what it includes, is lines. *)
LEMMA PieceIs ==
  ASSUME NEW X, NEW g, FilesOf(g, X), NEW l \in X
  PROVE  Piece(g, l) \in Seq(X)
<1>1. <<l>> \in Seq(X)
  OBVIOUS
<1> QED
  BY <1>1 DEF Piece, FilesOf

(* One sequence, joined. *)
LEMMA ConcatOne ==
  ASSUME NEW S, NEW x \in Seq(S)
  PROVE  Concat([k \in 1..1 |-> x]) = x
<1>1. PICK s : s = [k \in 1..1 |-> x]
  OBVIOUS
<1>2. s \in [1..1 -> Seq(S)] /\ s[1] = x
  BY <1>1
<1>3. PICK p : Joined(p, s, 1, S) /\ Concat(s) = p[1]
  BY <1>2, ConcatJoins
<1>4. p[1] = p[0] \o s[1] /\ p[0] = <<>>
  <2>1. p[0] = <<>> /\ \A k \in 1..1 : p[k] = p[k - 1] \o s[k]
    BY <1>3 DEF Joined
  <2>2. 1 \in 1..1 /\ 1 - 1 = 0
    OBVIOUS
  <2> QED
    BY ONLY <2>1, <2>2
<1>5. <<>> \o x = x
  BY ONLY x \in Seq(S)
<1> QED
  BY ONLY <1>1, <1>2, <1>3, <1>4, <1>5

(* None joined. *)
LEMMA ConcatNone == Concat(<<>>) = <<>>
<1>1. PICK s : s = [k \in 1..0 |-> <<>>]
  OBVIOUS
<1>2. s \in [1..0 -> Seq({})] /\ 0 \in Nat
  BY <1>1
<1>3. PICK p : Joined(p, s, 0, {}) /\ Concat(s) = p[0]
  BY <1>2, ConcatJoins
<1>4. s = <<>>
  BY <1>1
<1> QED
  BY <1>3, <1>4 DEF Joined

(* The lines of a file from the j-th on, with those of the files that they   *)
(* include.                                                                 *)
RestOf(g, file, j) == Concat([k \in 1..(Len(file) - j + 1) |-> Piece(g, file[j + k - 1])])

(* After the last there are none. *)
LEMMA RestEnds ==
  ASSUME NEW X, NEW g, NEW file \in Seq(X), NEW j \in Nat, j > Len(file)
  PROVE  RestOf(g, file, j) = <<>>
<1>1. PICK n \in Nat : n = Len(file)
  OBVIOUS
<1>2. 1..(Len(file) - j + 1) = {}
  BY <1>1
<1>3. [k \in 1..(Len(file) - j + 1) |-> Piece(g, file[j + k - 1])] = <<>>
  BY <1>2
<1> QED
  BY <1>3, ConcatNone DEF RestOf

(* The rest is lines; it is what the line stands for and the rest after it.  *)
LEMMA RestTurns ==
  ASSUME NEW X, NEW g, FilesOf(g, X), NEW file \in Seq(X), NEW j \in Nat \ {0}
  PROVE  /\ RestOf(g, file, j) \in Seq(X)
         /\ j <= Len(file) => Joint(RestOf(g, file, j), Piece(g, file[j]), RestOf(g, file, j + 1))
<1>1. PICK n \in Nat : n = Len(file) /\ file \in [1..n -> X]
  OBVIOUS
<1>2. CASE j > n
  <2>1. RestOf(g, file, j) = <<>> /\ ~(j <= Len(file))
    BY <1>1, <1>2, RestEnds
  <2> QED
    BY <2>1
<1>3. CASE j <= n
  <2>1. PICK m \in Nat : m = n - j /\ m + 1 = n - j + 1 /\ m = n - (j + 1) + 1 /\ m + 1 = 1 + m
    BY <1>3
  <2>2. PICK a, b, all : /\ a = [k \in 1..1 |-> Piece(g, file[j])] /\ b = [k \in 1..m |-> Piece(g, file[(j + 1) + k - 1])]
                         /\ all = [k \in 1..(1 + m) |-> Piece(g, file[j + k - 1])]
    OBVIOUS
  <2>3. \A i \in 1..n : Piece(g, file[i]) \in Seq(X)
    <3>1. \A k \in 1..n : file[k] \in X
      BY <1>1
    <3> QED
      BY <3>1, PieceIs
  <2>4. ARow(a, 1, X)
    BY <1>3, <2>2, <2>3 DEF ARow
  <2>5. ARow(b, m, X)
    <3>1. \A k \in 1..m : (j + 1) + k - 1 \in 1..n
      BY ONLY <1>3, <2>1, n \in Nat, m \in Nat, j \in Nat \ {0}
    <3>2. \A k \in 1..m : b[k] \in Seq(X)
      BY ONLY <2>2, <2>3, <3>1
    <3>3. b = [k \in 1..m |-> b[k]]
      BY ONLY <2>2
    <3> QED
      BY ONLY <3>2, <3>3 DEF ARow
  <2>6. InARow(all, a, 1, b, m)
    <3>1. ASSUME NEW k \in 1..(1 + m) PROVE all[k] = IF k <= 1 THEN a[k] ELSE b[k - 1]
      <4>1. CASE k <= 1
        <5>1. k = 1 /\ 1 \in 1..1 /\ j + 1 - 1 = j
          BY <4>1
        <5>2. all[1] = Piece(g, file[j + 1 - 1]) /\ a[1] = Piece(g, file[j])
          BY ONLY <2>2, <5>1, k \in 1..(1 + m)
        <5> QED
          BY ONLY <4>1, <5>1, <5>2
      <4>2. CASE ~(k <= 1)
        <5>1. k - 1 \in 1..m /\ (j + 1) + (k - 1) - 1 = j + k - 1
          BY <4>2
        <5>2. PICK e : e = k - 1
          OBVIOUS
        <5>3. b[e] = Piece(g, file[(j + 1) + e - 1])
          BY ONLY <2>2, <5>1, <5>2
        <5>4. all[k] = Piece(g, file[j + k - 1])
          BY ONLY <2>2, k \in 1..(1 + m)
        <5> QED
          BY ONLY <4>2, <5>1, <5>2, <5>3, <5>4
      <4> QED
        BY <4>1, <4>2
    <3>2. DOMAIN all = 1..(1 + m) /\ all = [k \in 1..(1 + m) |-> all[k]]
      BY ONLY <2>2
    <3> QED
      BY ONLY <3>1, <3>2 DEF InARow
  <2>7. Joint(Concat(all), Concat(a), Concat(b))
    BY ONLY <2>4, <2>5, <2>6, 1 \in Nat, m \in Nat, ConcatOfTwo
  <2>8. PICK x \in Seq(X) : x = Piece(g, file[j])
    BY <1>3, <2>3
  <2>9. Concat(a) = x
    BY <2>2, <2>8, ConcatOne
  <2>10. Concat(b) = RestOf(g, file, j + 1)
    BY ONLY <1>1, <2>1, <2>2 DEF RestOf
  <2>11. Concat(all) = RestOf(g, file, j)
    BY ONLY <1>1, <2>1, <2>2 DEF RestOf
  <2>12. Concat(b) \in Seq(X)
    <3>1. PICK p : Joins(p, b, m, X)
      BY <2>5, ConcatTo DEF ARow
    <3> QED
      BY <3>1 DEF Joins
  <2>13. x \o Concat(b) \in Seq(X)
    BY ONLY x \in Seq(X), <2>12, ConcatProperties
  <2> QED
    BY ONLY <2>7, <2>8, <2>9, <2>10, <2>11, <2>13 DEF Joint
<1> QED
  BY <1>1, <1>2, <1>3

(* The rest from the first line on is all of them. *)
LEMMA RestIsAll ==
  ASSUME NEW X, NEW g, NEW file \in Seq(X)
  PROVE  RestOf(g, file, 1) = Concat([k \in DOMAIN file |-> Piece(g, file[k])])
<1>1. PICK n \in Nat : n = Len(file) /\ DOMAIN file = 1..n
  OBVIOUS
<1>2. n - 1 + 1 = n
  OBVIOUS
<1>3. \A k \in 1..n : 1 + k - 1 = k
  OBVIOUS
<1>4. PICK s, t : s = [k \in 1..n |-> Piece(g, file[1 + k - 1])] /\ t = [k \in 1..n |-> Piece(g, file[k])]
  OBVIOUS
<1>5. s = t
  BY ONLY <1>3, <1>4
<1> QED
  BY ONLY <1>1, <1>2, <1>4, <1>5 DEF RestOf

(* The lines of each file with those of the files it includes in their       *)
(* place, where the files included are in g.                                *)
LevelOf(files, g) == [f \in DOMAIN files |-> Concat([k \in DOMAIN files[f] |-> Piece(g, files[f][k])])]
Below(h, n)       == IF n = 0 THEN <<>> ELSE h[n - 1]
Levels(h, files, N) == h = [n \in 0..N |-> LevelOf(files, Below(h, n))]
HasLevels(files, N) == \E h : Levels(h, files, N)

(* There are levels of any number. *)
LEMMA LevelsBegin ==
  ASSUME NEW files, NEW N \in Nat
  PROVE  HasLevels(files, N)
<1>1. PICK S : S = {d \in 0..N : HasLevels(files, d)}
  OBVIOUS
<1>2. 0 \in S
  <2>1. PICK h : h = [n \in 0..0 |-> LevelOf(files, <<>>)]
    OBVIOUS
  <2>2. \A n \in 0..0 : Below(h, n) = <<>>
    BY DEF Below
  <2>3. Levels(h, files, 0)
    BY ONLY <2>1, <2>2 DEF Levels
  <2> QED
    BY ONLY <1>1, <2>3, N \in Nat DEF HasLevels
<1>3. ASSUME NEW d \in 0..(N - 1), d \in S PROVE d + 1 \in S
  <2>1. PICK h : Levels(h, files, d)
    BY <1>1, <1>3 DEF HasLevels
  <2>2. PICK last : last = LevelOf(files, h[d])
    OBVIOUS
  <2>3. PICK g : g = [n \in 0..(d + 1) |-> IF n = d + 1 THEN last ELSE h[n]]
    OBVIOUS
  <2>4. ASSUME NEW n \in 0..(d + 1) PROVE g[n] = LevelOf(files, Below(g, n))
    <3>1. CASE n = d + 1
      <4>1. n # 0 /\ n - 1 = d /\ d \in 0..(d + 1) /\ d # d + 1
        BY <3>1
      <4>2. g[n] = last /\ g[d] = h[d]
        BY ONLY <2>3, <3>1, <4>1, n \in 0..(d + 1)
      <4>3. Below(g, n) = h[d]
        BY ONLY <4>1, <4>2 DEF Below
      <4> QED
        BY ONLY <2>2, <4>2, <4>3
    <3>2. CASE n # d + 1
      <4>1. n \in 0..d /\ (n # 0 => n - 1 \in 0..(d + 1) /\ n - 1 # d + 1)
        BY <3>2
      <4>2. g[n] = h[n] /\ (n # 0 => g[n - 1] = h[n - 1])
        BY ONLY <2>3, <3>2, <4>1, n \in 0..(d + 1)
      <4>3. Below(g, n) = Below(h, n)
        BY ONLY <4>2 DEF Below
      <4>4. h[n] = LevelOf(files, Below(h, n))
        BY ONLY <2>1, <4>1 DEF Levels
      <4> QED
        BY ONLY <4>2, <4>3, <4>4
    <3> QED
      BY <3>1, <3>2
  <2>5. Levels(g, files, d + 1)
    BY ONLY <2>3, <2>4 DEF Levels
  <2>6. d + 1 \in 0..N
    OBVIOUS
  <2> QED
    BY ONLY <1>1, <2>5, <2>6 DEF HasLevels
<1>4. \A d \in 0..N : d \in S
  BY ONLY <1>2, <1>3, N \in Nat, UpTo
<1> QED
  BY ONLY <1>1, <1>4, N \in Nat

(* The lines of the main file with all that is included are of the last      *)
(* level.                                                                   *)
LEMMA FlatIs ==
  \E h : Levels(h, input.files, MaxOpen) /\ Flat = h[MaxOpen][Main]
<1>1. PICK files : files = input.files
  OBVIOUS
<1> DEFINE Held == CHOOSE b : b = [n \in 0..MaxOpen |-> LevelOf(files, Below(b, n))]
<1>2. Flat = Held[MaxOpen][Main]
  BY <1>1 DEF Flat, LevelOf, Below
<1>3. Held = [n \in 0..MaxOpen |-> LevelOf(files, Below(Held, n))]
  <2>1. HasLevels(files, MaxOpen)
    BY LevelsBegin, ReaderAssumption DEF ReaderAssumption
  <2>2. \E b : b = [n \in 0..MaxOpen |-> LevelOf(files, Below(b, n))]
    BY ONLY <2>1 DEF HasLevels, Levels
  <2> QED
    BY <2>2
<1> HIDE DEF Held
<1>4. Levels(Held, files, MaxOpen)
  BY ONLY <1>3 DEF Levels
<1> QED
  BY <1>1, <1>2, <1>4

(* Each level has lines of X, where the files have. *)
LEMMA LevelsAre ==
  ASSUME NEW X, NEW files, FilesOf(files, X), NEW N \in Nat, NEW h, Levels(h, files, N)
  PROVE  \A n \in 0..N : DOMAIN h[n] = DOMAIN files /\ FilesOf(h[n], X)
<1>1. ASSUME NEW g, FilesOf(g, X) PROVE DOMAIN LevelOf(files, g) = DOMAIN files /\ FilesOf(LevelOf(files, g), X)
  <2>1. ASSUME NEW f \in DOMAIN files PROVE Concat([k \in DOMAIN files[f] |-> Piece(g, files[f][k])]) \in Seq(X)
    <3>1. PICK file : file = files[f]
      OBVIOUS
    <3>2. file \in Seq(X)
      BY <3>1 DEF FilesOf
    <3>3. PICK m \in Nat : m = Len(file) /\ DOMAIN file = 1..m /\ \A k \in 1..m : file[k] \in X
      BY <3>2
    <3>4. PICK ps : ps = [k \in 1..m |-> Piece(g, file[k])]
      OBVIOUS
    <3>5. ps \in [1..m -> Seq(X)]
      <4>1. \A k \in 1..m : Piece(g, file[k]) \in Seq(X)
        BY <1>1, <3>3, PieceIs
      <4> QED
        BY ONLY <3>4, <4>1
    <3>6. PICK p : Joins(p, ps, m, X)
      BY <3>5, ConcatTo
    <3>7. Concat(ps) \in Seq(X)
      BY <3>6 DEF Joins
    <3>8. ps = [k \in DOMAIN files[f] |-> Piece(g, files[f][k])]
      BY ONLY <3>1, <3>3, <3>4
    <3> QED
      BY ONLY <3>7, <3>8
  <2> QED
    BY <2>1 DEF LevelOf, FilesOf
<1>2. PICK D : D = {n \in 0..N : DOMAIN h[n] = DOMAIN files /\ FilesOf(h[n], X)}
  OBVIOUS
<1>3. \A n \in 0..N : h[n] = LevelOf(files, Below(h, n))
  BY DEF Levels
<1>4. 0 \in D
  <2>1. FilesOf(<<>>, X)
    BY DEF FilesOf
  <2>2. 0 \in 0..N /\ Below(h, 0) = <<>>
    BY DEF Below
  <2>3. h[0] = LevelOf(files, <<>>)
    BY ONLY <1>3, <2>2
  <2> QED
    BY <1>1, <1>2, <2>1, <2>2, <2>3
<1>5. ASSUME NEW n \in 0..(N - 1), n \in D PROVE n + 1 \in D
  <2>1. PICK e : e = n + 1
    OBVIOUS
  <2>2. e \in 0..N /\ e # 0 /\ e - 1 = n
    BY <2>1
  <2>3. h[e] = LevelOf(files, h[n])
    BY ONLY <1>3, <2>2 DEF Below
  <2>4. FilesOf(h[n], X)
    BY <1>2, <1>5
  <2>5. e \in D
    BY <1>1, <1>2, <2>2, <2>3, <2>4
  <2> QED
    BY ONLY <2>1, <2>5
<1>6. \A n \in 0..N : n \in D
  BY ONLY <1>4, <1>5, N \in Nat, UpTo
<1> QED
  BY <1>2, <1>6

----------------------------------------------------------------------------
(* What is left to read *)

(* What is left of the k-th open file, and then of the ones before it.       *)
IsText(r, h, files, st, k, below) == Joint(r, RestOf(h[MaxOpen - k], files[st[k].file], st[k].line), below)

(* What is left to read, from each of the first n open files on. *)
Texts(t, h, files, st, n, X) ==
  /\ t[0] = <<>> /\ \A k \in 0..n : t[k] \in Seq(X)
  /\ \A k \in 1..n : IsText(t[k], h, files, st, k, t[k - 1])

(* So much has been read of the main file and what it includes. *)
Passed(past, h, files, st, X) ==
  /\ Len(st) <= MaxOpen /\ past \in Seq(X)
  /\ \E t : Texts(t, h, files, st, Len(st), X) /\ Joint(h[MaxOpen][Main], past, t[Len(st)])

(* What is left from the next file on, too. *)
LEMMA OneMoreText ==
  ASSUME NEW X, NEW h, NEW files, NEW st, NEW n \in Nat, NEW t, Texts(t, h, files, st, n, X),
         NEW r \in Seq(X), IsText(r, h, files, st, n + 1, t[n])
  PROVE  \E u : Texts(u, h, files, st, n + 1, X) /\ u[n + 1] = r
<1>0. /\ t[0] = <<>> /\ \A k \in 0..n : t[k] \in Seq(X)
      /\ \A k \in 1..n : IsText(t[k], h, files, st, k, t[k - 1])
  BY DEF Texts
<1>1. PICK m \in Nat : m = n + 1
  OBVIOUS
<1>2. PICK u : u = [k \in 0..m |-> IF k = m THEN r ELSE t[k]]
  OBVIOUS
<1>3. \A k \in 0..m : k = m \/ k \in 0..n
  BY ONLY <1>1, n \in Nat, m \in Nat
<1>4. \A k \in 0..n : k \in 0..m /\ k # m
  BY ONLY <1>1, n \in Nat, m \in Nat
<1>5. \A k \in 0..n : u[k] = t[k]
  BY ONLY <1>2, <1>4
<1>6. u[m] = r
  BY ONLY <1>2, m \in Nat
<1>7. u[0] = <<>> /\ u[n] = t[n]
  BY ONLY <1>0, <1>5, n \in Nat
<1>8. \A k \in 0..m : u[k] \in Seq(X)
  BY <1>0, <1>3, <1>5, <1>6
<1>9. ASSUME NEW k \in 1..m PROVE IsText(u[k], h, files, st, k, u[k - 1])
  <2>1. CASE k = m
    <3>1. k - 1 = n /\ k = n + 1
      BY <1>1, <2>1
    <3>2. u[k] = r /\ u[k - 1] = t[n]
      BY <1>6, <1>7, <2>1, <3>1
    <3> QED
      BY <3>1, <3>2
  <2>2. CASE k # m
    <3>1. k \in 1..n /\ k \in 0..n /\ k - 1 \in 0..n
      BY <1>1, <2>2
    <3>2. PICK e : e = k - 1
      OBVIOUS
    <3>3. u[k] = t[k] /\ u[e] = t[e]
      BY ONLY <1>5, <3>1, <3>2
    <3>4. IsText(t[k], h, files, st, k, t[k - 1])
      BY <1>0, <3>1
    <3> QED
      BY ONLY <3>2, <3>3, <3>4
  <2> QED
    BY <2>1, <2>2
<1>10. Texts(u, h, files, st, m, X)
  BY ONLY <1>7, <1>8, <1>9 DEF Texts
<1> QED
  BY ONLY <1>1, <1>6, <1>10

(* The files and what is included are of X. *)
Leveled(h, files, X) == FilesOf(files, X) /\ Levels(h, files, MaxOpen)

(* What levels there are, and what they have of a file. *)
LEMMA LevelIs ==
  ASSUME NEW X, NEW h, NEW files, Leveled(h, files, X), NEW k \in 1..MaxOpen
  PROVE  /\ FilesOf(h[MaxOpen - k], X) /\ DOMAIN h[MaxOpen - k] = DOMAIN files
         /\ \A f \in DOMAIN files : RestOf(h[MaxOpen - k], files[f], 1) = h[MaxOpen - k + 1][f]
<1>0. MaxOpen \in Nat \ {0}
  BY ReaderAssumption DEF ReaderAssumption
<1>1. PICK a, b : a = MaxOpen - k /\ b = MaxOpen - k + 1
  OBVIOUS
<1>2. a \in 0..MaxOpen /\ b \in 0..MaxOpen /\ b # 0 /\ b - 1 = a
  BY <1>0, <1>1
<1>3. FilesOf(h[a], X) /\ DOMAIN h[a] = DOMAIN files
  <2>1. FilesOf(files, X) /\ Levels(h, files, MaxOpen) /\ MaxOpen \in Nat
    BY <1>0 DEF Leveled
  <2> QED
    BY <1>2, <2>1, LevelsAre
<1>4. h[b] = LevelOf(files, h[a])
  <2>1. h[b] = LevelOf(files, Below(h, b))
    BY <1>2 DEF Leveled, Levels
  <2> QED
    BY <1>2, <2>1 DEF Below
<1>5. ASSUME NEW f \in DOMAIN files PROVE RestOf(h[a], files[f], 1) = h[b][f]
  <2>1. files[f] \in Seq(X)
    BY DEF Leveled, FilesOf
  <2>2. h[b][f] = Concat([k1 \in DOMAIN files[f] |-> Piece(h[a], files[f][k1])])
    BY <1>4 DEF LevelOf
  <2>3. PICK file \in Seq(X) : file = files[f]
    BY <2>1
  <2>4. RestOf(h[a], file, 1) = Concat([k1 \in DOMAIN file |-> Piece(h[a], file[k1])])
    BY RestIsAll
  <2> QED
    BY ONLY <2>2, <2>3, <2>4
<1> QED
  BY <1>1, <1>3, <1>5

(* At first all is left. *)
LEMMA NothingPassed ==
  ASSUME NEW X, NEW h, NEW files, Leveled(h, files, X), Main \in DOMAIN files
  PROVE  Passed(<<>>, h, files, AtStart, X)
<1>0. MaxOpen \in Nat \ {0} /\ 1 \in 1..MaxOpen /\ MaxOpen - 1 + 1 = MaxOpen
  BY ReaderAssumption DEF ReaderAssumption
<1>1. PICK st : st = AtStart
  OBVIOUS
<1>2. Len(st) = 1 /\ st[1].file = Main /\ st[1].line = 1
  BY <1>1 DEF AtStart
<1>3. RestOf(h[MaxOpen - 1], files[Main], 1) = h[MaxOpen][Main] /\ FilesOf(h[MaxOpen - 1], X)
  BY <1>0, LevelIs
<1>4. PICK r : r = RestOf(h[MaxOpen - 1], files[Main], 1)
  OBVIOUS
<1>5. r \in Seq(X)
  <2>1. files[Main] \in Seq(X)
    BY DEF Leveled, FilesOf
  <2>2. PICK g, file : g = h[MaxOpen - 1] /\ file = files[Main]
    OBVIOUS
  <2>3. FilesOf(g, X) /\ file \in Seq(X) /\ 1 \in Nat \ {0}
    BY <1>3, <2>1, <2>2
  <2>4. RestOf(g, file, 1) \in Seq(X)
    BY ONLY <2>3, RestTurns
  <2> QED
    BY <1>4, <2>2, <2>4
<1>6. PICK t : t = [k \in 0..0 |-> <<>>]
  OBVIOUS
<1>7. t[0] = <<>> /\ <<>> \in Seq(X)
  BY <1>6
<1>8. r \o <<>> = r /\ <<>> \o r = r
  BY ONLY <1>5
<1>9. IsText(r, h, files, st, 1, t[0])
  BY ONLY <1>2, <1>4, <1>7, <1>8 DEF Joint, IsText
<1>10. Texts(t, h, files, st, 0, X)
  <2>1. \A k \in 0..0 : t[k] \in Seq(X)
    BY ONLY <1>6, <1>7
  <2>2. \A k \in 1..0 : FALSE
    OBVIOUS
  <2> QED
    BY ONLY <1>7, <2>1, <2>2 DEF Texts
<1>11. \E u : Texts(u, h, files, st, 1, X) /\ u[1] = r
  <2>1. 0 + 1 = 1 /\ 0 \in Nat
    OBVIOUS
  <2>2. \E u : Texts(u, h, files, st, 0 + 1, X) /\ u[0 + 1] = r
    BY ONLY <1>5, <1>9, <1>10, <2>1, OneMoreText
  <2> QED
    BY ONLY <2>1, <2>2
<1>12. Joint(h[MaxOpen][Main], <<>>, r)
  BY ONLY <1>0, <1>3, <1>4, <1>8 DEF Joint
<1>13. Len(st) <= MaxOpen
  BY <1>0, <1>2
<1> QED
  BY <1>1, <1>2, <1>7, <1>11, <1>12, <1>13 DEF Passed

(* The same files open, the same is left. *)
LEMMA TextsSame ==
  ASSUME NEW X, NEW h, NEW files, NEW st, NEW su, NEW n \in Nat, NEW t, Texts(t, h, files, st, n, X),
         \A k \in 1..n : su[k] = st[k]
  PROVE  Texts(t, h, files, su, n, X)
BY DEF Texts, IsText

(* The lines passed, those left of the file that is read, and those below.   *)
Left(past, whole, g, file, j, below, X) ==
  /\ past \in Seq(X) /\ below \in Seq(X)
  /\ \E r \in Seq(X) : Joint(whole, past, r) /\ Joint(r, RestOf(g, file, j), below)

(* What is left is first what is left of the file opened last. *)
LEMMA LastIsLeft ==
  ASSUME NEW X, NEW h, NEW files, NEW st, NEW past, NEW n \in Nat, NEW m, Len(st) = n, Passed(past, h, files, st, X),
         m \in Nat, n = m + 1
  PROVE  \E t : /\ Texts(t, h, files, st, m, X)
                /\ Left(past, h[MaxOpen][Main], h[MaxOpen - n], files[st[n].file], st[n].line, t[m], X)
<1>1. PICK t : Texts(t, h, files, st, n, X) /\ Joint(h[MaxOpen][Main], past, t[n])
  BY DEF Passed
<1>2. past \in Seq(X)
  BY DEF Passed
<1>3. /\ t[0] = <<>> /\ \A k \in 0..n : t[k] \in Seq(X)
      /\ \A k \in 1..n : IsText(t[k], h, files, st, k, t[k - 1])
  BY <1>1 DEF Texts
<1>4. n \in 0..n /\ m \in 0..n /\ n \in 1..n /\ n - 1 = m /\ (\A k \in 0..m : k \in 0..n) /\ \A k \in 1..m : k \in 1..n
  OBVIOUS
<1>5. t[n] \in Seq(X) /\ t[m] \in Seq(X) /\ IsText(t[n], h, files, st, n, t[m])
  BY ONLY <1>3, <1>4
<1>6. Texts(t, h, files, st, m, X)
  BY ONLY <1>3, <1>4 DEF Texts
<1>7. Left(past, h[MaxOpen][Main], h[MaxOpen - n], files[st[n].file], st[n].line, t[m], X)
  BY ONLY <1>1, <1>2, <1>5 DEF Left, IsText
<1> QED
  BY <1>6, <1>7

(* And the other way round. *)
LEMMA LeftIsLast ==
  ASSUME NEW X, NEW h, NEW files, NEW st, NEW past, NEW n \in Nat, NEW m \in Nat, Len(st) = n, n = m + 1, n <= MaxOpen,
         NEW t, Texts(t, h, files, st, m, X),
         Left(past, h[MaxOpen][Main], h[MaxOpen - n], files[st[n].file], st[n].line, t[m], X)
  PROVE  Passed(past, h, files, st, X)
<1>1. PICK r \in Seq(X) : Joint(h[MaxOpen][Main], past, r) /\ Joint(r, RestOf(h[MaxOpen - n], files[st[n].file], st[n].line), t[m])
  BY DEF Left
<1>2. IsText(r, h, files, st, m + 1, t[m])
  BY ONLY <1>1, n = m + 1 DEF IsText
<1>3. \E u : Texts(u, h, files, st, m + 1, X) /\ u[m + 1] = r
  BY ONLY <1>2, r \in Seq(X), m \in Nat, Texts(t, h, files, st, m, X), OneMoreText
<1>4. PICK u : Texts(u, h, files, st, n, X) /\ u[n] = r
  BY <1>3
<1>5. past \in Seq(X)
  BY DEF Left
<1> QED
  BY <1>1, <1>4, <1>5 DEF Passed

(* Three sequences, joined in either way. *)
LEMMA Regroup ==
  ASSUME NEW S, NEW a \in Seq(S), NEW b \in Seq(S), NEW c \in Seq(S), NEW ab, NEW bc, Joint(ab, a, b), Joint(bc, b, c)
  PROVE  \A w : Joint(w, ab, c) <=> Joint(w, a, bc)
<1>1. (a \o b) \o c = a \o (b \o c)
  BY ConcatAssociative
<1>2. ab = a \o b /\ bc = b \o c
  BY DEF Joint
<1> QED
  BY ONLY <1>1, <1>2 DEF Joint

(* They are a sequence. *)
LEMMA JointIs ==
  ASSUME NEW S, NEW a \in Seq(S), NEW b \in Seq(S), NEW c, Joint(c, a, b)
  PROVE  c \in Seq(S)
BY ConcatProperties DEF Joint

(* The line is read, and stands for itself. *)
LEMMA LeftReads ==
  ASSUME NEW X, NEW g, FilesOf(g, X), NEW file \in Seq(X), NEW j \in Nat \ {0}, j <= Len(file),
         NEW past, NEW whole, NEW below, Left(past, whole, g, file, j, below, X), NEW l \in X, l = file[j], Piece(g, l) = <<l>>
  PROVE  Left(past \o <<l>>, whole, g, file, j + 1, below, X)
<1>1. PICK r \in Seq(X) : Joint(whole, past, r) /\ Joint(r, RestOf(g, file, j), below)
  BY DEF Left
<1>2. RestOf(g, file, j) \in Seq(X) /\ Joint(RestOf(g, file, j), Piece(g, file[j]), RestOf(g, file, j + 1))
  BY RestTurns
<1>3. RestOf(g, file, j + 1) \in Seq(X)
  <2>1. PICK e \in Nat \ {0} : e = j + 1
    OBVIOUS
  <2>2. RestOf(g, file, e) \in Seq(X)
    BY RestTurns
  <2> QED
    BY ONLY <2>1, <2>2
<1>4. PICK a, b, c, d \in Seq(X) : a = past /\ b = <<l>> /\ c = RestOf(g, file, j + 1) /\ d = below
  <2>1. <<l>> \in Seq(X)
    BY ONLY l \in X
  <2>2. past \in Seq(X) /\ below \in Seq(X)
    BY DEF Left
  <2> QED
    BY ONLY <1>3, <2>1, <2>2
<1>5. PICK s \in Seq(X) : s = RestOf(g, file, j)
  BY <1>2
<1>6. Joint(whole, a, r) /\ Joint(r, s, d) /\ Joint(s, b, c)
  BY ONLY <1>1, <1>2, <1>4, <1>5, Piece(g, l) = <<l>>, l = file[j]
<1>7. PICK e : Joint(e, c, d)
  BY DEF Joint
<1>8. e \in Seq(X)
  BY ONLY <1>7, c \in Seq(X), d \in Seq(X), JointIs
<1>9. Joint(r, b, e)
  BY ONLY <1>6, <1>7, b \in Seq(X), c \in Seq(X), d \in Seq(X), Regroup
<1>10. PICK f : Joint(f, a, b)
  BY DEF Joint
<1>11. f \in Seq(X)
  BY ONLY <1>10, a \in Seq(X), b \in Seq(X), JointIs
<1>12. Joint(whole, f, e)
  BY ONLY <1>6, <1>9, <1>10, <1>8, a \in Seq(X), b \in Seq(X), Regroup
<1>13. Joint(e, RestOf(g, file, j + 1), below) /\ f = past \o <<l>> /\ below \in Seq(X)
  BY ONLY <1>4, <1>7, <1>10 DEF Joint
<1> QED
  BY ONLY <1>8, <1>11, <1>12, <1>13 DEF Left

(* The line is read, and stands for a file, which is left. *)
LEMMA LeftIncludes ==
  ASSUME NEW X, NEW g, FilesOf(g, X), NEW file \in Seq(X), NEW j \in Nat \ {0}, j <= Len(file),
         NEW past, NEW whole, NEW below, Left(past, whole, g, file, j, below, X),
         NEW g2, NEW file2, Piece(g, file[j]) = RestOf(g2, file2, 1), Piece(g, file[j]) \in Seq(X)
  PROVE  \E b \in Seq(X) : Joint(b, RestOf(g, file, j + 1), below) /\ Left(past, whole, g2, file2, 1, b, X)
<1>1. PICK r \in Seq(X) : Joint(whole, past, r) /\ Joint(r, RestOf(g, file, j), below)
  BY DEF Left
<1>2. Joint(RestOf(g, file, j), Piece(g, file[j]), RestOf(g, file, j + 1))
  BY RestTurns
<1>3. RestOf(g, file, j + 1) \in Seq(X)
  <2>1. PICK e \in Nat \ {0} : e = j + 1
    OBVIOUS
  <2>2. RestOf(g, file, e) \in Seq(X)
    BY RestTurns
  <2> QED
    BY ONLY <2>1, <2>2
<1>4. past \in Seq(X) /\ below \in Seq(X)
  BY DEF Left
<1>5. PICK a, c, d \in Seq(X) : a = Piece(g, file[j]) /\ c = RestOf(g, file, j + 1) /\ d = below
  BY <1>3, <1>4
<1>6. PICK s \in Seq(X) : s = RestOf(g, file, j)
  BY RestTurns
<1>7. Joint(r, s, d) /\ Joint(s, a, c)
  BY ONLY <1>1, <1>2, <1>5, <1>6
<1>8. PICK b : Joint(b, c, d)
  BY DEF Joint
<1>9. b \in Seq(X)
  BY ONLY <1>8, c \in Seq(X), d \in Seq(X), JointIs
<1>10. Joint(r, a, b)
  BY ONLY <1>7, <1>8, a \in Seq(X), c \in Seq(X), d \in Seq(X), Regroup
<1>11. Joint(r, RestOf(g2, file2, 1), b)
  BY ONLY <1>5, <1>10, Piece(g, file[j]) = RestOf(g2, file2, 1)
<1>12. Left(past, whole, g2, file2, 1, b, X)
  BY ONLY <1>1, <1>4, <1>11, <1>9, r \in Seq(X) DEF Left
<1> QED
  BY ONLY <1>5, <1>8, <1>9, <1>12

(* At the end of the file, what is below is left. *)
LEMMA LeftEnds ==
  ASSUME NEW X, NEW g, NEW file \in Seq(X), NEW j \in Nat, j > Len(file),
         NEW past, NEW whole, NEW below, Left(past, whole, g, file, j, below, X)
  PROVE  Joint(whole, past, below)
<1>1. PICK r \in Seq(X) : Joint(whole, past, r) /\ Joint(r, RestOf(g, file, j), below)
  BY DEF Left
<1>2. RestOf(g, file, j) = <<>>
  BY RestEnds
<1>3. PICK b \in Seq(X) : b = below
  BY DEF Left
<1>4. <<>> \o b = b
  BY ONLY b \in Seq(X)
<1> QED
  BY ONLY <1>1, <1>2, <1>3, <1>4 DEF Joint

(* A line that is left and stands for itself is among all. *)
LEMMA LeftShows ==
  ASSUME NEW X, NEW g, FilesOf(g, X), NEW file \in Seq(X), NEW j \in Nat \ {0}, j <= Len(file),
         NEW past, NEW whole, NEW below, Left(past, whole, g, file, j, below, X), NEW l \in X, l = file[j], Piece(g, l) = <<l>>
  PROVE  l \in Range(whole)
<1>1. Left(past \o <<l>>, whole, g, file, j + 1, below, X)
  BY LeftReads
<1>2. PICK r \in Seq(X) : Joint(whole, past \o <<l>>, r)
  BY <1>1 DEF Left
<1>3. PICK a \in Seq(X) : a = past
  BY DEF Left
<1>4. PICK n \in Nat : n = Len(a) + 1 /\ n # 0
  BY ONLY a \in Seq(X)
<1>5. PICK w : w = a \o <<l>>
  OBVIOUS
<1>6. w \in Seq(X) /\ Len(w) = n /\ w[n] = l
  <2>1. <<l>> \in Seq(X) /\ Len(<<l>>) = 1 /\ <<l>>[1] = l
    BY ONLY l \in X
  <2>2. PICK b \in Seq(X) : b = <<l>> /\ Len(b) = 1 /\ b[1] = l
    BY <2>1
  <2>3. /\ a \o b \in Seq(X) /\ Len(a \o b) = Len(a) + Len(b)
        /\ \A i \in 1..(Len(a) + Len(b)) : (a \o b)[i] = IF i <= Len(a) THEN a[i] ELSE b[i - Len(a)]
    BY ONLY a \in Seq(X), b \in Seq(X), ConcatProperties
  <2>4. n \in 1..(Len(a) + Len(b)) /\ ~(n <= Len(a)) /\ n - Len(a) = 1 /\ n = Len(a) + Len(b)
    BY ONLY <1>4, <2>2, a \in Seq(X)
  <2>5. (a \o b)[n] = l
    BY ONLY <2>2, <2>3, <2>4
  <2> QED
    BY ONLY <1>5, <2>2, <2>3, <2>4, <2>5
<1>7. /\ w \o r \in Seq(X) /\ Len(w \o r) = Len(w) + Len(r)
      /\ \A i \in 1..(Len(w) + Len(r)) : (w \o r)[i] = IF i <= Len(w) THEN w[i] ELSE r[i - Len(w)]
  BY ONLY <1>6, r \in Seq(X), ConcatProperties
<1>8. n \in 1..(Len(w) + Len(r)) /\ n <= Len(w)
  BY ONLY <1>4, <1>6, n \in Nat, r \in Seq(X)
<1>9. whole = w \o r
  BY ONLY <1>2, <1>3, <1>5 DEF Joint
<1>10. whole[n] = l
  BY ONLY <1>6, <1>7, <1>8, <1>9
<1>11. n \in DOMAIN whole
  BY ONLY <1>7, <1>8, <1>9
<1> QED
  BY <1>10, <1>11 DEF Range

(* The open files when a line is read, a file is opened, and one is left. *)
Moves(st, su, n) ==
  /\ n # 0 /\ Len(su) = n /\ su[n].file = st[n].file /\ su[n].line = st[n].line + 1
  /\ \A k \in 1..(n - 1) : su[k] = st[k]
  /\ \A o : Len(Append(su, o)) = n + 1 /\ Append(su, o)[n + 1] = o /\ \A k \in 1..n : Append(su, o)[k] = su[k]
  /\ n > 1 => Len(Front(st)) = n - 1 /\ \A k \in 1..(n - 1) : Front(st)[k] = st[k]

(* They move so. *)
LEMMA OpenedMoves ==
  ASSUME NEW st, NEW files, Opened(st, files), NEW n \in Nat, n = Len(st), NEW su, su = [st EXCEPT ![n].line = @ + 1]
  PROVE  Opened(su, files) /\ Moves(st, su, n)
<1>1. Opened(su, files)
  BY OpenedSteps
<1>2. PICK X : X = Range(st) \cup Range(su)
  OBVIOUS
<1>3. st \in Seq(X) /\ su \in Seq(X) /\ st # <<>>
  <2>1. st \in Seq(Range(st)) /\ su \in Seq(Range(su)) /\ st # <<>>
    BY <1>1 DEF Opened
  <2>2. PICK A, B : A = Range(st) /\ B = Range(su)
    OBVIOUS
  <2>3. A \subseteq X /\ B \subseteq X
    BY <1>2, <2>2
  <2>4. st \in Seq(X) /\ su \in Seq(X)
    BY ONLY <2>1, <2>2, <2>3, SeqGrows
  <2> QED
    BY <2>1, <2>4
<1>4. n # 0
  BY ONLY <1>3, n = Len(st)
<1>5. DOMAIN st = 1..n /\ DOMAIN su = 1..n /\ Len(su) = n
  <2>1. DOMAIN st = 1..n
    BY ONLY <1>3, n = Len(st), LenProperties
  <2>2. DOMAIN su = 1..n
    BY ONLY <2>1, su = [st EXCEPT ![n].line = @ + 1]
  <2>3. Len(su) \in Nat /\ DOMAIN su = 1..Len(su)
    BY ONLY <1>3, LenProperties
  <2>4. Len(su) = n
    BY ONLY <2>2, <2>3, n \in Nat
  <2> QED
    BY <2>1, <2>2, <2>4
<1>6. \A k \in 1..(n - 1) : su[k] = st[k]
  <2>1. \A k \in 1..(n - 1) : k \in 1..n /\ k # n
    OBVIOUS
  <2> QED
    BY ONLY <1>5, <2>1, su = [st EXCEPT ![n].line = @ + 1]
<1>7. su[n].file = st[n].file /\ su[n].line = st[n].line + 1
  <2>1. PICK o, p : o = st[n] /\ p = [o EXCEPT !.line = @ + 1]
    OBVIOUS
  <2>2. n \in 1..n
    BY <1>4
  <2>3. su[n] = p
    BY ONLY <1>5, <2>1, <2>2, su = [st EXCEPT ![n].line = @ + 1]
  <2>4. o = [file |-> o.file, line |-> o.line]
    BY <2>1, <2>2 DEF Opened, AnOpen
  <2>5. p.file = o.file /\ p.line = o.line + 1
    BY ONLY <2>1, <2>4
  <2> QED
    BY ONLY <2>1, <2>3, <2>5
<1>8. ASSUME NEW o PROVE Len(Append(su, o)) = n + 1 /\ Append(su, o)[n + 1] = o /\ \A k \in 1..n : Append(su, o)[k] = su[k]
  <2>1. PICK Y : Y = X \cup {o}
    OBVIOUS
  <2>2. su \in Seq(Y) /\ o \in Y
    BY <1>3, <2>1, SeqGrows
  <2> QED
    BY ONLY <1>5, <2>2, AppendProperties
<1>9. ASSUME n > 1 PROVE Len(Front(st)) = n - 1 /\ \A k \in 1..(n - 1) : Front(st)[k] = st[k]
  <2>1. Front(st) = SubSeq(st, 1, n - 1)
    BY n = Len(st) DEF Front
  <2>2. PICK m \in Nat : m = n - 1 /\ m # 0
    BY <1>9
  <2>3. PICK f : f = SubSeq(st, 1, m)
    OBVIOUS
  <2>4. f = [k \in 1..m |-> st[k]]
    BY ONLY <1>3, <1>9, <2>2, <2>3, n = Len(st), n \in Nat, m \in Nat
  <2>5. \A k \in 1..m : k \in 1..n
    BY <2>2
  <2>6. f \in [1..m -> X]
    <3>1. \A k \in 1..n : st[k] \in X
      BY <1>3, <1>5
    <3> QED
      BY ONLY <2>4, <2>5, <3>1
  <2>7. Len(f) = m
    BY ONLY <2>6, m \in Nat
  <2> QED
    BY ONLY <2>1, <2>2, <2>3, <2>4, <2>7
<1> QED
  BY <1>1, <1>4, <1>5, <1>6, <1>7, <1>8, <1>9 DEF Moves

(* The reader is at the j-th line of a file, that is opened as the n-th. *)
Reads(st, files, n, file, j, X) ==
  /\ n \in 1..MaxOpen /\ n = Len(st) /\ file = files[st[n].file] /\ j = st[n].line
  /\ file \in Seq(X) /\ j \in Nat \ {0} /\ st[n].file \in DOMAIN files

(* Where the reader is. *)
LEMMA ReaderAt ==
  ASSUME NEW X, NEW h, NEW files, Leveled(h, files, X), NEW st, Opened(st, files), NEW past, Passed(past, h, files, st, X)
  PROVE  \E n, file, j : Reads(st, files, n, file, j, X)
<1>1. PICK n : n = Len(st)
  OBVIOUS
<1>2. n \in Nat /\ n # 0
  BY <1>1 DEF Opened
<1>3. AnOpen(st[n], files)
  BY <1>1, OpenedSteps
<1>4. n \in 1..MaxOpen
  <2>1. MaxOpen \in Nat /\ n <= MaxOpen
    BY <1>1, ReaderAssumption DEF ReaderAssumption, Passed
  <2> QED
    BY <1>2, <2>1
<1>5. PICK file, j : file = files[st[n].file] /\ j = st[n].line
  OBVIOUS
<1>6. file \in Seq(X) /\ j \in Nat \ {0} /\ st[n].file \in DOMAIN files
  BY <1>3, <1>5 DEF AnOpen, Leveled, FilesOf
<1>7. Reads(st, files, n, file, j, X)
  BY ONLY <1>1, <1>4, <1>5, <1>6 DEF Reads
<1> QED
  BY <1>7

(* A line that includes no file is passed when it is read, and is among all. *)
LEMMA LinePassed ==
  ASSUME NEW X, NEW h, NEW files, Leveled(h, files, X), NEW st, Opened(st, files), NEW past, Passed(past, h, files, st, X),
         NEW n, NEW file, NEW j, Reads(st, files, n, file, j, X), j <= Len(file), NEW l, l = file[j], l.kw # "FILE",
         NEW su, su = [st EXCEPT ![n].line = @ + 1]
  PROVE  Passed(past \o <<l>>, h, files, su, X) /\ l \in X /\ l \in Range(h[MaxOpen][Main])
<1>0. /\ n \in 1..MaxOpen /\ n \in Nat /\ n = Len(st) /\ file = files[st[n].file] /\ j = st[n].line
      /\ file \in Seq(X) /\ j \in Nat \ {0} /\ MaxOpen \in Nat
  BY ReaderAssumption DEF Reads, ReaderAssumption
<1>1. PICK m \in Nat : n = m + 1 /\ m = n - 1
  BY <1>0
<1>2. PICK g : g = h[MaxOpen - n]
  OBVIOUS
<1>3. FilesOf(g, X)
  BY <1>0, <1>2, LevelIs
<1>4. PICK t : Texts(t, h, files, st, m, X) /\ Left(past, h[MaxOpen][Main], g, file, j, t[m], X)
  BY <1>0, <1>1, <1>2, LastIsLeft
<1>5. /\ Len(su) = n /\ su[n].file = st[n].file /\ su[n].line = j + 1 /\ \A k \in 1..m : su[k] = st[k]
  <2>1. Moves(st, su, n)
    BY <1>0, OpenedMoves
  <2> QED
    BY ONLY <1>0, <1>1, <2>1 DEF Moves
<1>6. l \in X
  <2>1. j \in DOMAIN file
    <3>1. Len(file) \in Nat /\ DOMAIN file = 1..Len(file)
      BY ONLY <1>0, LenProperties
    <3> QED
      BY ONLY <1>0, <3>1, j <= Len(file)
  <2> QED
    BY <1>0, <2>1
<1>7. Piece(g, l) = <<l>>
  BY DEF Piece
<1>8. PICK whole, below : whole = h[MaxOpen][Main] /\ below = t[m]
  OBVIOUS
<1>9. Left(past, whole, g, file, j, below, X)
  BY <1>4, <1>8
<1>10. Left(past \o <<l>>, whole, g, file, j + 1, below, X) /\ l \in Range(whole)
  BY ONLY <1>0, <1>3, <1>6, <1>7, <1>9, j <= Len(file), l = file[j], LeftReads, LeftShows
<1>11. Texts(t, h, files, su, m, X)
  BY <1>4, <1>5, TextsSame
<1>12. Left(past \o <<l>>, h[MaxOpen][Main], h[MaxOpen - n], files[su[n].file], su[n].line, t[m], X)
  BY ONLY <1>0, <1>2, <1>5, <1>8, <1>10
<1>13. n <= MaxOpen
  BY <1>0
<1>14. Passed(past \o <<l>>, h, files, su, X)
  BY ONLY <1>0, <1>1, <1>5, <1>11, <1>12, <1>13, LeftIsLast
<1> QED
  BY <1>6, <1>8, <1>10, <1>14

(* A line that includes a file: that is what is left then. *)
LEMMA FilePassed ==
  ASSUME NEW X, NEW h, NEW files, Leveled(h, files, X), NEW st, Opened(st, files), NEW past, Passed(past, h, files, st, X),
         NEW n, NEW file, NEW j, Reads(st, files, n, file, j, X), j <= Len(file), NEW l, l = file[j], l.kw = "FILE",
         l.file \in DOMAIN files, n < MaxOpen, NEW su, su = [st EXCEPT ![n].line = @ + 1],
         NEW o, o = [file |-> l.file, line |-> 1]
  PROVE  Passed(past, h, files, Append(su, o), X)
<1>0. /\ n \in 1..MaxOpen /\ n \in Nat /\ n = Len(st) /\ file = files[st[n].file] /\ j = st[n].line
      /\ file \in Seq(X) /\ j \in Nat \ {0} /\ MaxOpen \in Nat
  BY ReaderAssumption DEF Reads, ReaderAssumption
<1>1. PICK m, e \in Nat : n = m + 1 /\ m = n - 1 /\ e = n + 1
  <2>1. n - 1 \in Nat /\ n + 1 \in Nat /\ n = (n - 1) + 1
    BY <1>0
  <2> QED
    BY ONLY <2>1
<1>2. PICK g, g2 : g = h[MaxOpen - n] /\ g2 = h[MaxOpen - e]
  OBVIOUS
<1>3. FilesOf(g, X) /\ DOMAIN g = DOMAIN files
  BY <1>0, <1>2, LevelIs
<1>4. PICK t : Texts(t, h, files, st, m, X) /\ Left(past, h[MaxOpen][Main], g, file, j, t[m], X)
  BY <1>0, <1>1, <1>2, LastIsLeft
<1>5. PICK sv : sv = Append(su, o)
  OBVIOUS
<1>6. /\ Len(sv) = e /\ sv[e] = o /\ (\A k \in 1..m : sv[k] = st[k]) /\ sv[n].file = st[n].file /\ sv[n].line = j + 1
  <2>0. Moves(st, su, n)
    BY <1>0, OpenedMoves
  <2>1. /\ n # 0 /\ su[n].file = st[n].file /\ su[n].line = j + 1 /\ \A k \in 1..m : su[k] = st[k]
    BY ONLY <1>0, <1>1, <2>0 DEF Moves
  <2>2. Len(sv) = n + 1 /\ sv[n + 1] = o /\ \A k \in 1..n : sv[k] = su[k]
    BY ONLY <1>5, <2>0 DEF Moves
  <2>a. n \in Nat
    BY ONLY <1>0
  <2>3. n \in 1..n /\ \A k \in 1..m : k \in 1..n
    BY ONLY <1>1, <2>0, <2>a, m \in Nat DEF Moves
  <2> QED
    BY ONLY <1>1, <2>1, <2>2, <2>3
<1>7. PICK file2 : file2 = files[l.file]
  OBVIOUS
<1>8. RestOf(g2, file2, 1) = g[l.file]
  <2>1. e \in 1..MaxOpen /\ MaxOpen - e + 1 = MaxOpen - n
    BY ONLY <1>0, <1>1, n < MaxOpen
  <2>2. \A f \in DOMAIN files : RestOf(h[MaxOpen - e], files[f], 1) = h[MaxOpen - e + 1][f]
    BY <2>1, LevelIs
  <2> QED
    BY ONLY <1>2, <1>7, <2>1, <2>2, l.file \in DOMAIN files
<1>9. Piece(g, l) = g[l.file] /\ g[l.file] \in Seq(X)
  BY <1>3 DEF Piece, FilesOf
<1>10. PICK whole, below : whole = h[MaxOpen][Main] /\ below = t[m]
  OBVIOUS
<1>11. Left(past, whole, g, file, j, below, X)
  BY <1>4, <1>10
<1>12. Piece(g, file[j]) = RestOf(g2, file2, 1) /\ Piece(g, file[j]) \in Seq(X)
  BY <1>8, <1>9
<1>13. PICK b \in Seq(X) : Joint(b, RestOf(g, file, j + 1), below) /\ Left(past, whole, g2, file2, 1, b, X)
  BY ONLY <1>0, <1>3, <1>11, <1>12, j <= Len(file), LeftIncludes
<1>14. Texts(t, h, files, sv, m, X)
  BY <1>4, <1>6, TextsSame
<1>15. IsText(b, h, files, sv, n, t[m])
  BY ONLY <1>0, <1>2, <1>6, <1>10, <1>13 DEF IsText
<1>16. PICK u : Texts(u, h, files, sv, n, X) /\ u[n] = b
  <2>1. IsText(b, h, files, sv, m + 1, t[m])
    BY ONLY <1>1, <1>15
  <2>2. \E u : Texts(u, h, files, sv, m + 1, X) /\ u[m + 1] = b
    BY ONLY <1>14, <2>1, b \in Seq(X), m \in Nat, OneMoreText
  <2> QED
    BY ONLY <1>1, <2>2
<1>17. Left(past, h[MaxOpen][Main], h[MaxOpen - e], files[sv[e].file], sv[e].line, u[n], X)
  <2>1. sv[e].file = l.file /\ sv[e].line = 1
    BY <1>6
  <2> QED
    BY ONLY <1>2, <1>7, <1>10, <1>13, <1>16, <2>1
<1>a. n \in Nat /\ MaxOpen \in Nat
  BY ONLY <1>0
<1>18. e <= MaxOpen
  BY ONLY <1>a, <1>1, n < MaxOpen, e \in Nat
<1>19. Passed(past, h, files, sv, X)
  BY ONLY <1>0, <1>1, <1>6, <1>16, <1>17, <1>18, e \in Nat, LeftIsLast
<1> QED
  BY <1>5, <1>19

(* At its end an included file is left, and the main file is all passed. *)
LEMMA EndPassed ==
  ASSUME NEW X, NEW h, NEW files, Leveled(h, files, X), NEW st, Opened(st, files), NEW past, Passed(past, h, files, st, X),
         NEW n, NEW file, NEW j, Reads(st, files, n, file, j, X), j > Len(file)
  PROVE  /\ n > 1 => Passed(past, h, files, Front(st), X)
         /\ n = 1 => past = h[MaxOpen][Main] /\ past \in Seq(X)
<1>0. /\ n \in 1..MaxOpen /\ n \in Nat /\ n = Len(st) /\ file = files[st[n].file] /\ j = st[n].line
      /\ file \in Seq(X) /\ j \in Nat \ {0} /\ MaxOpen \in Nat
  BY ReaderAssumption DEF Reads, ReaderAssumption
<1>1. PICK m \in Nat : n = m + 1 /\ m = n - 1
  BY <1>0
<1>2. PICK g : g = h[MaxOpen - n]
  OBVIOUS
<1>3. PICK t : Texts(t, h, files, st, m, X) /\ Left(past, h[MaxOpen][Main], g, file, j, t[m], X)
  BY <1>0, <1>1, <1>2, LastIsLeft
<1>4. PICK whole, below : whole = h[MaxOpen][Main] /\ below = t[m]
  OBVIOUS
<1>5. Joint(whole, past, below)
  <2>1. Left(past, whole, g, file, j, below, X)
    BY <1>3, <1>4
  <2>2. j \in Nat
    BY <1>0
  <2> QED
    BY ONLY <1>0, <2>1, <2>2, j > Len(file), LeftEnds
<1>6. past \in Seq(X)
  BY DEF Passed
<1>7. ASSUME n > 1 PROVE Passed(past, h, files, Front(st), X)
  <2>1. PICK su : su = Front(st)
    OBVIOUS
  <2>2. Len(su) = m /\ \A k \in 1..m : su[k] = st[k]
    <3>1. PICK sx : sx = [st EXCEPT ![n].line = @ + 1]
      OBVIOUS
    <3>2. Moves(st, sx, n)
      BY <1>0, <3>1, OpenedMoves
    <3> QED
      BY ONLY <1>1, <1>7, <2>1, <3>2 DEF Moves
  <2>3. Texts(t, h, files, su, m, X)
    BY <1>3, <2>2, TextsSame
  <2>4. m <= MaxOpen
    BY <1>0, <1>1
  <2>5. Passed(past, h, files, su, X)
    BY ONLY <1>4, <1>5, <1>6, <2>2, <2>3, <2>4 DEF Passed
  <2> QED
    BY <2>1, <2>5
<1>8. ASSUME n = 1 PROVE past = whole
  <2>1. m = 0
    BY <1>1, <1>8
  <2>2. below = <<>>
    BY <1>3, <1>4, <2>1 DEF Texts
  <2>3. past \o <<>> = past
    BY ONLY <1>6
  <2> QED
    BY ONLY <1>5, <2>2, <2>3 DEF Joint
<1> QED
  BY <1>4, <1>6, <1>7, <1>8

----------------------------------------------------------------------------
(* What a course keeps *)

(* What a course has of its assignments, its sections, and its students.     *)
NamesOf(list)    == [k \in DOMAIN list |-> list[k].name]
ScoreOf(c, sc)   == [asgt |-> c.assignments[sc.asgt].name, grade |-> sc.grade]
ScoresOf(c, st)  == [k \in DOMAIN st.scores |-> ScoreOf(c, st.scores[k])]
PersonOf(c, st)  == <<[id |-> st.id, name |-> st.name]>> \o ScoresOf(c, st)
PersonsOf(c)     == [k \in DOMAIN c.students |-> PersonOf(c, c.students[k])]
KeptOf(c, what)  == CASE what = "ASSIGNMENT" -> NamesOf(c.assignments)
                      [] what = "SECTION"    -> NamesOf(c.sections)
                      [] what = "STUDENT"    -> Concat(PersonsOf(c))

(* That is what is kept; of each kind. *)
LEMMA KeptIs ==
  /\ \A what : Kept(what) = KeptOf(course, what) /\ Kept(what)' = KeptOf(course', what)
  /\ \A c : /\ KeptOf(c, "ASSIGNMENT") = NamesOf(c.assignments) /\ KeptOf(c, "SECTION") = NamesOf(c.sections)
            /\ KeptOf(c, "STUDENT") = Concat(PersonsOf(c))
<1>1. ASSUME NEW what PROVE Kept(what) = KeptOf(course, what)
  BY DEF Kept, KeptOf, NamesOf, PersonsOf, PersonOf, ScoresOf, ScoreOf
<1>2. ASSUME NEW what PROVE Kept(what)' = KeptOf(course', what)
  BY DEF Kept, KeptOf, NamesOf, PersonsOf, PersonOf, ScoresOf, ScoreOf
<1>3. ASSUME NEW c
      PROVE  /\ KeptOf(c, "ASSIGNMENT") = NamesOf(c.assignments) /\ KeptOf(c, "SECTION") = NamesOf(c.sections)
             /\ KeptOf(c, "STUDENT") = Concat(PersonsOf(c))
  BY DEF KeptOf
<1> QED
  BY <1>1, <1>2, <1>3

(* A sequence, and nothing after it. *)
LEMMA JointNone ==
  ASSUME NEW S, NEW s \in Seq(S)
  PROVE  Joint(s, s, <<>>) /\ Joint(s, <<>>, s)
<1>1. s \o <<>> = s /\ <<>> \o s = s
  BY ONLY s \in Seq(S)
<1> QED
  BY <1>1 DEF Joint

(* A row of sequences has something that all of them are of. *)
LEMMA RowOf ==
  ASSUME NEW n \in Nat, NEW row, row = [k \in 1..n |-> row[k]], \A k \in 1..n : Listed(row[k]), NEW x, Listed(x)
  PROVE  \E Z : ARow(row, n, Z) /\ x \in Seq(Z)
<1>1. PICK Z : Z = Range(x) \cup UNION {Range(row[k]) : k \in 1..n}
  OBVIOUS
<1>2. ASSUME NEW k \in 1..n PROVE row[k] \in Seq(Z)
  <2>1. PICK r, A : r = row[k] /\ A = Range(row[k])
    OBVIOUS
  <2>2. A \subseteq Z
    BY <1>1, <2>1
  <2>3. r \in Seq(A)
    BY <2>1 DEF Listed
  <2>4. r \in Seq(Z)
    BY ONLY <2>2, <2>3, SeqGrows
  <2> QED
    BY <2>1, <2>4
<1>3. x \in Seq(Z)
  <2>1. PICK A : A = Range(x)
    OBVIOUS
  <2>2. A \subseteq Z /\ x \in Seq(A)
    BY <1>1, <2>1 DEF Listed
  <2> QED
    BY ONLY <2>2, SeqGrows
<1>4. ARow(row, n, Z)
  BY ONLY <1>2, row = [k \in 1..n |-> row[k]] DEF ARow
<1> QED
  BY <1>3, <1>4

(* A row with one more. *)
LEMMA RowGrows ==
  ASSUME NEW n \in Nat, NEW row, NEW Z, ARow(row, n, Z), NEW x \in Seq(Z), NEW more, DOMAIN more = 1..(n + 1),
         more = [k \in 1..(n + 1) |-> more[k]], \A k \in 1..n : more[k] = row[k], more[n + 1] = x
  PROVE  Joint(Concat(more), Concat(row), x)
<1>1. PICK one : one = [k \in 1..1 |-> x]
  OBVIOUS
<1>2. ARow(one, 1, Z)
  BY ONLY <1>1, x \in Seq(Z) DEF ARow
<1>3. InARow(more, row, n, one, 1)
  <2>1. ASSUME NEW k \in 1..(n + 1) PROVE more[k] = IF k <= n THEN row[k] ELSE one[k - n]
    <3>1. CASE k <= n
      BY <3>1
    <3>2. CASE ~(k <= n)
      <4>1. k = n + 1 /\ k - n = 1 /\ 1 \in 1..1
        BY <3>2
      <4>2. one[1] = x
        BY ONLY <1>1, <4>1
      <4> QED
        BY ONLY <3>2, <4>1, <4>2, more[n + 1] = x
    <3> QED
      BY <3>1, <3>2
  <2> QED
    BY ONLY <2>1, more = [k \in 1..(n + 1) |-> more[k]] DEF InARow
<1>4. Joint(Concat(more), Concat(row), Concat(one))
  BY ONLY <1>2, <1>3, ARow(row, n, Z), n \in Nat, 1 \in Nat, ConcatOfTwo
<1>5. Concat(one) = x
  BY ONLY <1>1, x \in Seq(Z), ConcatOne
<1> QED
  BY ONLY <1>4, <1>5

(* A row whose last sequence goes on. *)
LEMMA LastGrows ==
  ASSUME NEW n \in Nat, NEW row, NEW Z, ARow(row, n + 1, Z), NEW x \in Seq(Z), NEW more,
         more = [k \in 1..(n + 1) |-> more[k]], \A k \in 1..n : more[k] = row[k], Joint(more[n + 1], row[n + 1], x)
  PROVE  Joint(Concat(more), Concat(row), x)
<1>1. PICK first, one, two : /\ first = [k \in 1..n |-> row[k]] /\ one = [k \in 1..1 |-> row[n + 1]]
                             /\ two = [k \in 1..1 |-> more[n + 1]]
  OBVIOUS
<1>2. \A k \in 1..(n + 1) : row[k] \in Seq(Z)
  BY DEF ARow
<1>3. ARow(first, n, Z)
  <2>1. \A k \in 1..n : k \in 1..(n + 1)
    OBVIOUS
  <2> QED
    BY ONLY <1>1, <1>2, <2>1 DEF ARow
<1>4. PICK a, b \in Seq(Z) : a = row[n + 1] /\ b = more[n + 1]
  <2>1. n + 1 \in 1..(n + 1)
    OBVIOUS
  <2>2. PICK a \in Seq(Z) : a = row[n + 1]
    BY ONLY <1>2, <2>1
  <2>3. more[n + 1] \in Seq(Z)
    BY <2>2, JointIs
  <2> QED
    BY <2>2, <2>3
<1>5. ARow(one, 1, Z) /\ ARow(two, 1, Z)
  BY ONLY <1>1, <1>4, a \in Seq(Z), b \in Seq(Z) DEF ARow
<1>6. InARow(row, first, n, one, 1)
  <2>1. row = [k \in 1..(n + 1) |-> row[k]]
    BY DEF ARow
  <2>2. ASSUME NEW k \in 1..(n + 1) PROVE row[k] = IF k <= n THEN first[k] ELSE one[k - n]
    <3>1. CASE k <= n
      <4>1. k \in 1..n
        BY <3>1
      <4> QED
        BY ONLY <1>1, <3>1, <4>1
    <3>2. CASE ~(k <= n)
      <4>1. k = n + 1 /\ k - n = 1 /\ 1 \in 1..1
        BY <3>2
      <4>2. one[1] = row[n + 1]
        BY ONLY <1>1, <4>1
      <4> QED
        BY ONLY <3>2, <4>1, <4>2
    <3> QED
      BY <3>1, <3>2
  <2> QED
    BY ONLY <2>1, <2>2 DEF InARow
<1>7. InARow(more, first, n, two, 1)
  <2>2. ASSUME NEW k \in 1..(n + 1) PROVE more[k] = IF k <= n THEN first[k] ELSE two[k - n]
    <3>1. CASE k <= n
      <4>1. k \in 1..n
        BY <3>1
      <4>2. more[k] = row[k] /\ first[k] = row[k]
        BY <1>1, <4>1
      <4> QED
        BY ONLY <3>1, <4>2
    <3>2. CASE ~(k <= n)
      <4>1. k = n + 1 /\ k - n = 1 /\ 1 \in 1..1
        BY <3>2
      <4>2. two[1] = more[n + 1]
        BY ONLY <1>1, <4>1
      <4> QED
        BY ONLY <3>2, <4>1, <4>2
    <3> QED
      BY <3>1, <3>2
  <2> QED
    BY ONLY <2>2, more = [k \in 1..(n + 1) |-> more[k]] DEF InARow
<1>8. Joint(Concat(row), Concat(first), Concat(one)) /\ Joint(Concat(more), Concat(first), Concat(two))
  BY ONLY <1>3, <1>5, <1>6, <1>7, n \in Nat, 1 \in Nat, ConcatOfTwo
<1>9. Concat(one) = a /\ Concat(two) = b
  BY ONLY <1>1, <1>4, a \in Seq(Z), b \in Seq(Z), ConcatOne
<1>10. PICK p \in Seq(Z) : p = Concat(first)
  <2>1. PICK q : Joins(q, first, n, Z)
    BY <1>3, ConcatTo DEF ARow
  <2>2. Concat(first) \in Seq(Z)
    BY <2>1 DEF Joins
  <2> QED
    BY <2>2
<1>11. PICK r, m : r = Concat(row) /\ m = Concat(more)
  OBVIOUS
<1>12. Joint(r, p, a) /\ Joint(m, p, b) /\ Joint(b, a, x)
  BY ONLY <1>4, <1>8, <1>9, <1>10, <1>11, Joint(more[n + 1], row[n + 1], x)
<1>13. Joint(m, r, x)
  BY ONLY <1>12, p \in Seq(Z), a \in Seq(Z), x \in Seq(Z), Regroup
<1> QED
  BY <1>11, <1>13

(* A sequence with one more. *)
LEMMA JointOne ==
  ASSUME NEW S, NEW a \in Seq(S), NEW n \in Nat, n = Len(a), NEW y, NEW b, b = [k \in 1..(n + 1) |-> b[k]],
         \A k \in 1..n : b[k] = a[k], b[n + 1] = y
  PROVE  Joint(b, a, <<y>>) /\ Listed(b)
<1>1. PICK Y : Y = S \cup {y}
  OBVIOUS
<1>2. a \in Seq(Y) /\ y \in Y
  BY <1>1, SeqGrows
<1>3. PICK c : c = Append(a, y)
  OBVIOUS
<1>4. c \in Seq(Y) /\ Len(c) = n + 1 /\ c[n + 1] = y /\ \A k \in 1..n : c[k] = a[k]
  BY ONLY <1>2, <1>3, n = Len(a), AppendProperties
<1>5. c = [k \in 1..(n + 1) |-> c[k]]
  BY ONLY <1>4
<1>6. \A k \in 1..(n + 1) : k = n + 1 \/ k \in 1..n
  BY ONLY n \in Nat
<1>7. \A k \in 1..(n + 1) : b[k] = c[k]
  BY <1>4, <1>6
<1>8. b = c
  BY ONLY <1>5, <1>7, b = [k \in 1..(n + 1) |-> b[k]]
<1>9. c = a \o <<y>>
  BY ONLY <1>2, <1>3, AppendIsConcat
<1> QED
  BY <1>4, <1>8, <1>9, SeqIsListed DEF Joint

(* The names of one more. *)
LEMMA NamesGrow ==
  ASSUME NEW list, Listed(list), NEW x
  PROVE  Joint(NamesOf(Append(list, x)), NamesOf(list), <<x.name>>)
<1>1. PICK n, t : n = Len(list) /\ t = Append(list, x)
  OBVIOUS
<1>2. n \in Nat /\ DOMAIN list = 1..n
  BY <1>1 DEF Listed
<1>3. t[n + 1] = x /\ DOMAIN t = 1..(n + 1) /\ \A k \in 1..n : t[k] = list[k]
  BY <1>1, ListedMore
<1>4. PICK a, b : a = NamesOf(list) /\ b = NamesOf(t)
  OBVIOUS
<1>5. a = [k \in 1..n |-> list[k].name] /\ b = [k \in 1..(n + 1) |-> t[k].name]
  BY <1>2, <1>3, <1>4 DEF NamesOf
<1>6. PICK S : S = {list[k].name : k \in 1..n}
  OBVIOUS
<1>7. a \in [1..n -> S]
  BY ONLY <1>5, <1>6
<1>8. a \in Seq(S) /\ Len(a) = n
  BY ONLY <1>2, <1>7
<1>9. b = [k \in 1..(n + 1) |-> b[k]] /\ b[n + 1] = x.name
  <2>1. n + 1 \in 1..(n + 1)
    BY <1>2
  <2> QED
    BY ONLY <1>3, <1>5, <2>1
<1>10. \A k \in 1..n : b[k] = a[k]
  <2>1. \A k \in 1..n : k \in 1..(n + 1)
    BY <1>2
  <2> QED
    BY ONLY <1>3, <1>5, <2>1
<1>11. Joint(b, a, <<x.name>>)
  BY <1>2, <1>8, <1>9, <1>10, JointOne
<1> QED
  BY <1>1, <1>4, <1>11

(* What the course keeps grows by what the line says. *)
Keeps(c, d, l) == \A what \in Told : Joint(KeptOf(d, what), KeptOf(c, what), Says(what, l))
Spoken(c) == \A what \in Told : Listed(KeptOf(c, what))

(* What the lines of each kind say. *)
LEMMA SaysWhat ==
  ASSUME NEW l
  PROVE  /\ Says("ASSIGNMENT", l) = IF l.kw = "ASSIGNMENT" THEN <<l.name>> ELSE <<>>
         /\ Says("SECTION", l) = IF l.kw = "SECTION" THEN <<l.name>> ELSE <<>>
         /\ l.kw = "STUDENT" => Says("STUDENT", l) = <<[id |-> l.id, name |-> l.name]>>
         /\ l.kw = "SCORE" => Says("STUDENT", l) = <<[asgt |-> l.asgt, grade |-> l.grade]>>
         /\ l.kw \notin {"STUDENT", "SCORE"} => Says("STUDENT", l) = <<>>
BY DEF Says

(* So it grows where each part does. *)
LEMMA KeepsAll ==
  ASSUME NEW c, NEW d, NEW l,
         Joint(NamesOf(d.assignments), NamesOf(c.assignments), Says("ASSIGNMENT", l)),
         Joint(NamesOf(d.sections), NamesOf(c.sections), Says("SECTION", l)),
         Joint(Concat(PersonsOf(d)), Concat(PersonsOf(c)), Says("STUDENT", l))
  PROVE  Keeps(c, d, l)
<1>1. \A x : /\ KeptOf(x, "ASSIGNMENT") = NamesOf(x.assignments) /\ KeptOf(x, "SECTION") = NamesOf(x.sections)
             /\ KeptOf(x, "STUDENT") = Concat(PersonsOf(x))
  BY KeptIs
<1> QED
  BY <1>1 DEF Keeps, Told

(* What of it stays. *)
LEMMA KeepsSame ==
  ASSUME NEW c, Spoken(c)
  PROVE  /\ Joint(NamesOf(c.assignments), NamesOf(c.assignments), <<>>)
         /\ Joint(NamesOf(c.sections), NamesOf(c.sections), <<>>)
         /\ Joint(Concat(PersonsOf(c)), Concat(PersonsOf(c)), <<>>)
<1>1. /\ KeptOf(c, "ASSIGNMENT") = NamesOf(c.assignments) /\ KeptOf(c, "SECTION") = NamesOf(c.sections)
      /\ KeptOf(c, "STUDENT") = Concat(PersonsOf(c))
  BY KeptIs
<1>2. Listed(NamesOf(c.assignments)) /\ Listed(NamesOf(c.sections)) /\ Listed(Concat(PersonsOf(c)))
  BY <1>1 DEF Spoken, Told
<1>3. ASSUME NEW s, Listed(s) PROVE Joint(s, s, <<>>)
  <2>1. PICK A : s \in Seq(A)
    BY <1>3 DEF Listed
  <2> QED
    BY <2>1, JointNone
<1> QED
  BY <1>2, <1>3

(* What is said of a student names the assignments. *)
LEMMA PersonsSame ==
  ASSUME NEW c, NEW d, NumbersOK(c), d.students = c.students,
         \A a \in DOMAIN c.assignments : d.assignments[a].name = c.assignments[a].name
  PROVE  PersonsOf(d) = PersonsOf(c)
<1>1. ASSUME NEW k \in DOMAIN c.students PROVE PersonOf(d, c.students[k]) = PersonOf(c, c.students[k])
  <2>1. PICK st : st = c.students[k]
    OBVIOUS
  <2>2. StudentOK(st, DOMAIN c.assignments)
    BY <2>1 DEF NumbersOK
  <2>3. ASSUME NEW i \in DOMAIN st.scores PROVE ScoreOf(d, st.scores[i]) = ScoreOf(c, st.scores[i])
    <3>1. st.scores[i].asgt \in DOMAIN c.assignments
      BY <2>2 DEF StudentOK, ScoreOK
    <3> QED
      BY <3>1 DEF ScoreOf
  <2>4. ScoresOf(d, st) = ScoresOf(c, st)
    BY ONLY <2>3 DEF ScoresOf
  <2> QED
    BY ONLY <2>1, <2>4 DEF PersonOf
<1> QED
  BY ONLY <1>1, d.students = c.students DEF PersonsOf

(* The scores of a student, and what is said of him. *)
LEMMA PersonListed ==
  ASSUME NEW c, NEW st, Listed(st.scores)
  PROVE  Listed(ScoresOf(c, st)) /\ Len(ScoresOf(c, st)) = Len(st.scores) /\ Listed(PersonOf(c, st))
         /\ Joint(PersonOf(c, st), <<[id |-> st.id, name |-> st.name]>>, ScoresOf(c, st))
<1>1. PICK n : n = Len(st.scores)
  OBVIOUS
<1>2. n \in Nat /\ DOMAIN st.scores = 1..n
  <2>1. PICK q : q = st.scores
    OBVIOUS
  <2>2. q \in Seq(Range(q)) /\ n = Len(q)
    BY <1>1, <2>1 DEF Listed
  <2>3. n \in Nat /\ DOMAIN q = 1..n
    BY ONLY <2>2, LenProperties
  <2> QED
    BY <2>1, <2>3
<1>3. PICK s : s = ScoresOf(c, st)
  OBVIOUS
<1>4. s = [k \in 1..n |-> ScoreOf(c, st.scores[k])]
  BY <1>2, <1>3 DEF ScoresOf
<1>5. PICK h : h = [id |-> st.id, name |-> st.name]
  OBVIOUS
<1>6. PICK S : S = {ScoreOf(c, st.scores[k]) : k \in 1..n} \cup {h}
  OBVIOUS
<1>7. s \in [1..n -> S]
  BY ONLY <1>4, <1>6
<1>8. s \in Seq(S) /\ Len(s) = n
  BY ONLY <1>2, <1>7
<1>9. PICK f \in Seq(S) : f = <<h>>
  <2>1. h \in S
    BY ONLY <1>6
  <2>2. <<h>> \in Seq(S)
    BY ONLY <2>1
  <2> QED
    BY <2>2
<1>10. PICK p : p = PersonOf(c, st)
  OBVIOUS
<1>11. Joint(p, f, s)
  BY <1>3, <1>5, <1>9, <1>10 DEF PersonOf, Joint
<1>12. p \in Seq(S)
  BY ONLY <1>8, <1>11, f \in Seq(S), JointIs
<1>13. Listed(s) /\ Listed(p)
  BY ONLY <1>8, <1>12, SeqIsListed
<1> QED
  BY ONLY <1>1, <1>3, <1>5, <1>8, <1>9, <1>10, <1>11, <1>13

(* A line that no course keeps. *)
LEMMA NothingKept ==
  ASSUME NEW c, NEW d, Spoken(c), NumbersOK(c), d.students = c.students,
         DOMAIN d.assignments = DOMAIN c.assignments, \A a \in DOMAIN c.assignments : d.assignments[a].name = c.assignments[a].name,
         DOMAIN d.sections = DOMAIN c.sections, \A s \in DOMAIN c.sections : d.sections[s].name = c.sections[s].name,
         NEW l, l.kw \notin {"ASSIGNMENT", "SECTION", "STUDENT", "SCORE"}
  PROVE  Keeps(c, d, l)
<1>1. NamesOf(d.assignments) = NamesOf(c.assignments) /\ NamesOf(d.sections) = NamesOf(c.sections)
  BY DEF NamesOf
<1>2. PersonsOf(d) = PersonsOf(c)
  BY PersonsSame
<1>3. Says("ASSIGNMENT", l) = <<>> /\ Says("SECTION", l) = <<>> /\ Says("STUDENT", l) = <<>>
  BY SaysWhat
<1>4. /\ Joint(NamesOf(c.assignments), NamesOf(c.assignments), <<>>)
      /\ Joint(NamesOf(c.sections), NamesOf(c.sections), <<>>)
      /\ Joint(Concat(PersonsOf(c)), Concat(PersonsOf(c)), <<>>)
  BY KeepsSame
<1> QED
  BY ONLY <1>1, <1>2, <1>3, <1>4, KeepsAll

(* An assignment is kept. *)
LEMMA AssignmentKept ==
  ASSUME NEW c, NEW d, Spoken(c), NumbersOK(c), Listed(c.assignments), d.students = c.students, d.sections = c.sections,
         NEW a, d.assignments = Append(c.assignments, a), NEW l, l.kw = "ASSIGNMENT", a.name = l.name
  PROVE  Keeps(c, d, l)
<1>1. Joint(NamesOf(d.assignments), NamesOf(c.assignments), <<l.name>>)
  BY NamesGrow
<1>2. PersonsOf(d) = PersonsOf(c)
  <2>1. \A i \in DOMAIN c.assignments : d.assignments[i].name = c.assignments[i].name
    <3>1. PICK as, n : as = c.assignments /\ n = Len(as)
      OBVIOUS
    <3>2. n \in Nat /\ DOMAIN as = 1..n
      BY <3>1 DEF Listed
    <3>3. \A i \in 1..n : Append(as, a)[i] = as[i]
      BY <3>1, ListedMore
    <3> QED
      BY ONLY <3>1, <3>2, <3>3, d.assignments = Append(c.assignments, a)
  <2> QED
    BY <2>1, PersonsSame
<1>3. Says("ASSIGNMENT", l) = <<l.name>> /\ Says("SECTION", l) = <<>> /\ Says("STUDENT", l) = <<>>
  BY SaysWhat
<1>4. /\ Joint(NamesOf(c.sections), NamesOf(c.sections), <<>>)
      /\ Joint(Concat(PersonsOf(c)), Concat(PersonsOf(c)), <<>>)
  BY KeepsSame
<1> QED
  BY ONLY <1>1, <1>2, <1>3, <1>4, d.sections = c.sections, KeepsAll

(* A section is kept. *)
LEMMA SectionKept ==
  ASSUME NEW c, NEW d, Spoken(c), NumbersOK(c), Listed(c.sections), d.students = c.students, d.assignments = c.assignments,
         NEW s, d.sections = Append(c.sections, s), NEW l, l.kw = "SECTION", s.name = l.name
  PROVE  Keeps(c, d, l)
<1>1. Joint(NamesOf(d.sections), NamesOf(c.sections), <<l.name>>)
  BY NamesGrow
<1>2. PersonsOf(d) = PersonsOf(c)
  BY PersonsSame
<1>3. Says("ASSIGNMENT", l) = <<>> /\ Says("SECTION", l) = <<l.name>> /\ Says("STUDENT", l) = <<>>
  BY SaysWhat
<1>4. /\ Joint(NamesOf(c.assignments), NamesOf(c.assignments), <<>>)
      /\ Joint(Concat(PersonsOf(c)), Concat(PersonsOf(c)), <<>>)
  BY KeepsSame
<1> QED
  BY ONLY <1>1, <1>2, <1>3, <1>4, d.assignments = c.assignments, KeepsAll

(* What is said of the students, each of them. *)
LEMMA PersonsRow ==
  ASSUME NEW c, NumbersOK(c), Listed(c.students), NEW x, Listed(x)
  PROVE  \E Z : ARow(PersonsOf(c), Len(c.students), Z) /\ x \in Seq(Z)
<1>1. PICK n : n = Len(c.students)
  OBVIOUS
<1>2. n \in Nat /\ DOMAIN c.students = 1..n
  <2>1. PICK q : q = c.students
    OBVIOUS
  <2>2. q \in Seq(Range(q)) /\ n = Len(q)
    BY <1>1, <2>1 DEF Listed
  <2>3. n \in Nat /\ DOMAIN q = 1..n
    BY ONLY <2>2, LenProperties
  <2> QED
    BY <2>1, <2>3
<1>3. PICK row : row = PersonsOf(c)
  OBVIOUS
<1>4. row = [k \in 1..n |-> PersonOf(c, c.students[k])]
  BY <1>2, <1>3 DEF PersonsOf
<1>5. \A k \in 1..n : Listed(row[k])
  <2>1. \A k \in 1..n : Listed(c.students[k].scores)
    BY <1>2 DEF NumbersOK, StudentOK
  <2>2. \A k \in 1..n : Listed(PersonOf(c, c.students[k]))
    BY <2>1, PersonListed
  <2> QED
    BY ONLY <1>4, <2>2
<1>6. row = [k \in 1..n |-> row[k]]
  BY ONLY <1>4
<1>7. \E Z : ARow(row, n, Z) /\ x \in Seq(Z)
  BY ONLY <1>2, <1>5, <1>6, Listed(x), RowOf
<1> QED
  BY <1>1, <1>3, <1>7

(* A student is kept. *)
LEMMA StudentKept ==
  ASSUME NEW c, NEW d, Spoken(c), NumbersOK(c), Listed(c.students), d.assignments = c.assignments,
         DOMAIN d.sections = DOMAIN c.sections, \A s \in DOMAIN c.sections : d.sections[s].name = c.sections[s].name,
         NEW st, d.students = Append(c.students, st), st.scores = <<>>,
         NEW l, l.kw = "STUDENT", st.id = l.id, st.name = l.name
  PROVE  Keeps(c, d, l)
<1>1. NamesOf(d.sections) = NamesOf(c.sections)
  BY DEF NamesOf
<1>2. PICK sts, n, us : sts = c.students /\ n = Len(sts) /\ us = d.students
  OBVIOUS
<1>3. n \in Nat /\ DOMAIN sts = 1..n
  BY <1>2 DEF Listed
<1>4. us[n + 1] = st /\ DOMAIN us = 1..(n + 1) /\ \A k \in 1..n : us[k] = sts[k]
  BY <1>2, ListedMore
<1>5. PICK h, x : h = [id |-> l.id, name |-> l.name] /\ x = <<h>>
  OBVIOUS
<1>6. PersonOf(d, st) = x /\ Listed(x)
  <2>1. Listed(st.scores)
    <3>1. <<>> \in Seq({})
      OBVIOUS
    <3>2. Listed(<<>>)
      BY <3>1, SeqIsListed
    <3> QED
      BY <3>2
  <2>2. Joint(PersonOf(d, st), <<[id |-> st.id, name |-> st.name]>>, ScoresOf(d, st)) /\ Listed(PersonOf(d, st))
    BY <2>1, PersonListed
  <2>3. ScoresOf(d, st) = <<>>
    <3>1. DOMAIN st.scores = {}
      BY st.scores = <<>>
    <3> QED
      BY ONLY <3>1 DEF ScoresOf
  <2>4. <<[id |-> st.id, name |-> st.name]>> = x
    BY ONLY <1>5, st.id = l.id, st.name = l.name
  <2>5. x \in Seq({h})
    BY ONLY <1>5
  <2>6. x \o <<>> = x
    BY ONLY <2>5
  <2>7. PersonOf(d, st) = x
    BY ONLY <2>2, <2>3, <2>4, <2>6 DEF Joint
  <2> QED
    BY <2>2, <2>7
<1>7. PICK Z : ARow(PersonsOf(c), n, Z) /\ x \in Seq(Z)
  BY <1>2, <1>6, PersonsRow
<1>8. PICK row, more : row = PersonsOf(c) /\ more = PersonsOf(d)
  OBVIOUS
<1>9. row = [k \in 1..n |-> PersonOf(c, sts[k])] /\ more = [k \in 1..(n + 1) |-> PersonOf(d, us[k])]
  BY <1>2, <1>3, <1>4, <1>8 DEF PersonsOf
<1>10. \A k \in 1..n : PersonOf(d, us[k]) = PersonOf(c, sts[k])
  <2>1. ASSUME NEW k \in 1..n PROVE PersonOf(d, sts[k]) = PersonOf(c, sts[k])
    BY ONLY d.assignments = c.assignments DEF PersonOf, ScoresOf, ScoreOf
  <2> QED
    BY ONLY <1>4, <2>1
<1>11. /\ DOMAIN more = 1..(n + 1) /\ more = [k \in 1..(n + 1) |-> more[k]] /\ more[n + 1] = x
       /\ \A k \in 1..n : more[k] = row[k]
  <2>1. n + 1 \in 1..(n + 1) /\ \A k \in 1..n : k \in 1..(n + 1)
    BY <1>3
  <2>2. more[n + 1] = x
    BY ONLY <1>4, <1>6, <1>9, <2>1
  <2>3. \A k \in 1..n : more[k] = row[k]
    BY ONLY <1>9, <1>10, <2>1
  <2>4. DOMAIN more = 1..(n + 1) /\ more = [k \in 1..(n + 1) |-> more[k]]
    BY ONLY <1>9
  <2> QED
    BY <2>2, <2>3, <2>4
<1>12. Joint(Concat(more), Concat(row), x)
  BY ONLY <1>3, <1>7, <1>8, <1>11, RowGrows
<1>13. Says("ASSIGNMENT", l) = <<>> /\ Says("SECTION", l) = <<>> /\ Says("STUDENT", l) = x
  BY <1>5, SaysWhat
<1>14. /\ Joint(NamesOf(c.assignments), NamesOf(c.assignments), <<>>)
       /\ Joint(NamesOf(c.sections), NamesOf(c.sections), <<>>)
  BY KeepsSame
<1>15. Joint(Concat(PersonsOf(d)), Concat(PersonsOf(c)), Says("STUDENT", l))
  BY ONLY <1>8, <1>12, <1>13
<1> QED
  BY ONLY <1>1, <1>13, <1>14, <1>15, d.assignments = c.assignments, KeepsAll

(* A score is kept, of the student read last. *)
LEMMA ScoreKept ==
  ASSUME NEW c, NEW d, Spoken(c), NumbersOK(c), Listed(c.students), d.assignments = c.assignments, d.sections = c.sections,
         NEW m \in Nat, Len(c.students) = m + 1, DOMAIN d.students = 1..(m + 1), \A k \in 1..m : d.students[k] = c.students[k],
         NEW o, o = c.students[m + 1], NEW p, p = d.students[m + 1], p.id = o.id, p.name = o.name,
         NEW sc, p.scores = Append(o.scores, sc), NEW l, l.kw = "SCORE", ScoreOf(c, sc) = [asgt |-> l.asgt, grade |-> l.grade]
  PROVE  Keeps(c, d, l)
<1>1. PICK n \in Nat : n = m + 1
  OBVIOUS
<1>2. PICK sts, us : sts = c.students /\ us = d.students
  OBVIOUS
<1>3. DOMAIN sts = 1..n /\ DOMAIN us = 1..n /\ Len(sts) = n
  <2>1. sts \in Seq(Range(sts)) /\ Len(sts) = n
    BY <1>1, <1>2 DEF Listed
  <2>2. DOMAIN sts = 1..n
    BY ONLY <2>1, LenProperties
  <2> QED
    BY <1>1, <1>2, <2>1, <2>2
<1>4. PICK y, x : y = [asgt |-> l.asgt, grade |-> l.grade] /\ x = <<y>>
  OBVIOUS
<1>5. Listed(o.scores)
  <2>1. n \in 1..n
    BY <1>1
  <2>2. StudentOK(o, DOMAIN c.assignments)
    BY <1>1, <1>2, <1>3, <2>1 DEF NumbersOK
  <2> QED
    BY <2>2 DEF StudentOK
<1>6. \A v : PersonOf(d, v) = PersonOf(c, v) /\ ScoresOf(d, v) = ScoresOf(c, v)
  BY ONLY d.assignments = c.assignments DEF PersonOf, ScoresOf, ScoreOf
<1>7. PICK old, new, q, i : old = o.scores /\ new = p.scores /\ q = ScoresOf(c, o) /\ i = Len(old)
  OBVIOUS
<1>8. i \in Nat /\ DOMAIN old = 1..i /\ new[i + 1] = sc /\ DOMAIN new = 1..(i + 1) /\ (\A k \in 1..i : new[k] = old[k]) /\ Listed(new)
  <2>1. Listed(old) /\ new = Append(old, sc)
    BY <1>5, <1>7
  <2>2. i \in Nat /\ DOMAIN old = 1..i
    BY ONLY <1>7, <2>1, LenProperties DEF Listed
  <2> QED
    BY <1>7, <2>1, <2>2, ListedMore
<1>9. PICK r : r = ScoresOf(c, p)
  OBVIOUS
<1>10. Joint(r, q, x)
  <2>1. q = [k \in 1..i |-> ScoreOf(c, old[k])] /\ r = [k \in 1..(i + 1) |-> ScoreOf(c, new[k])]
    BY ONLY <1>7, <1>8, <1>9 DEF ScoresOf
  <2>2. i + 1 \in 1..(i + 1) /\ \A k \in 1..i : k \in 1..(i + 1)
    BY <1>8
  <2>3. r[i + 1] = y
    BY ONLY <1>4, <1>8, <2>1, <2>2, ScoreOf(c, sc) = [asgt |-> l.asgt, grade |-> l.grade]
  <2>4. \A k \in 1..i : r[k] = q[k]
    BY ONLY <1>8, <2>1, <2>2
  <2>5. r = [k \in 1..(i + 1) |-> r[k]]
    BY ONLY <2>1
  <2>6. PICK A : q \in Seq(A)
    BY <1>5, <1>7, PersonListed DEF Listed
  <2>7. Len(q) = i
    BY <1>5, <1>7, PersonListed
  <2>8. Joint(r, q, <<y>>)
    BY ONLY <1>8, <2>3, <2>4, <2>5, <2>6, <2>7, JointOne
  <2> QED
    BY ONLY <1>4, <2>8
<1>11. PICK h, f : h = [id |-> o.id, name |-> o.name] /\ f = <<h>>
  OBVIOUS
<1>12. PICK po, pp : po = PersonOf(c, o) /\ pp = PersonOf(c, p)
  OBVIOUS
<1>13. Joint(po, f, q) /\ Joint(pp, f, r)
  BY <1>7, <1>9, <1>11, <1>12 DEF PersonOf, Joint
<1>14. Joint(pp, po, x)
  <2>1. PICK A : A = Range(q) \cup {h, y}
    OBVIOUS
  <2>2. q \in Seq(A)
    <3>1. PICK B : B = Range(q)
      OBVIOUS
    <3>2. q \in Seq(B) /\ B \subseteq A
      BY <1>5, <1>7, <2>1, <3>1, PersonListed DEF Listed
    <3> QED
      BY ONLY <3>2, SeqGrows
  <2>3. h \in A /\ y \in A
    BY <2>1
  <2>4. f \in Seq(A) /\ x \in Seq(A)
    BY ONLY <1>4, <1>11, <2>3
  <2> QED
    BY ONLY <1>10, <1>13, <2>2, <2>4, Regroup
<1>15. PICK Z : ARow(PersonsOf(c), n, Z) /\ x \in Seq(Z)
  <2>1. x \in Seq({y})
    BY ONLY <1>4
  <2>2. Listed(x)
    BY <2>1, SeqIsListed
  <2> QED
    BY <1>2, <1>3, <2>2, PersonsRow
<1>16. PICK row, more : row = PersonsOf(c) /\ more = PersonsOf(d)
  OBVIOUS
<1>17. row = [k \in 1..n |-> PersonOf(c, sts[k])] /\ more = [k \in 1..n |-> PersonOf(c, us[k])]
  <2>1. row = [k \in 1..n |-> PersonOf(c, sts[k])] /\ more = [k \in 1..n |-> PersonOf(d, us[k])]
    BY ONLY <1>2, <1>3, <1>16 DEF PersonsOf
  <2> QED
    BY ONLY <1>6, <2>1
<1>18. /\ more = [k \in 1..(m + 1) |-> more[k]] /\ row[m + 1] = po /\ more[m + 1] = pp
       /\ \A k \in 1..m : more[k] = row[k]
  <2>1. n \in 1..n /\ \A k \in 1..m : k \in 1..n
    BY <1>1
  <2>2. row[n] = po /\ more[n] = pp
    BY ONLY <1>1, <1>2, <1>12, <1>17, <2>1, o = c.students[m + 1], p = d.students[m + 1]
  <2>3. \A k \in 1..m : us[k] = sts[k]
    BY <1>2
  <2>4. \A k \in 1..m : more[k] = row[k]
    BY ONLY <1>17, <2>1, <2>3
  <2>5. more = [k \in 1..n |-> more[k]]
    BY ONLY <1>17
  <2> QED
    BY ONLY <1>1, <2>2, <2>4, <2>5
<1>19. Joint(more[m + 1], row[m + 1], x)
  BY ONLY <1>14, <1>18
<1>20. ARow(row, m + 1, Z)
  BY ONLY <1>1, <1>15, <1>16
<1>21. Joint(Concat(more), Concat(row), x)
  BY ONLY <1>15, <1>18, <1>19, <1>20, m \in Nat, LastGrows
<1>22. Says("ASSIGNMENT", l) = <<>> /\ Says("SECTION", l) = <<>> /\ Says("STUDENT", l) = x
  BY <1>4, SaysWhat
<1>23. /\ Joint(NamesOf(c.assignments), NamesOf(c.assignments), <<>>)
       /\ Joint(NamesOf(c.sections), NamesOf(c.sections), <<>>)
  BY KeepsSame
<1>24. Joint(Concat(PersonsOf(d)), Concat(PersonsOf(c)), Says("STUDENT", l))
  BY ONLY <1>16, <1>21, <1>22
<1> QED
  BY ONLY <1>22, <1>23, <1>24, d.assignments = c.assignments, d.sections = c.sections, KeepsAll

----------------------------------------------------------------------------
(* What is read is kept *)

LinesOf(files) == UNION {Range(files[f]) : f \in DOMAIN files}

(* So much of all lines has been passed, and the course keeps what they say. *)
Tracking(h, past, flat, files, st, c) ==
  /\ Leveled(h, files, LinesOf(files)) /\ flat = h[MaxOpen][Main] /\ Passed(past, h, files, st, LinesOf(files))
  /\ \A what \in Told : Said(what, past) = KeptOf(c, what)
Tracks(flat, files, st, c) == \E h, past : Tracking(h, past, flat, files, st, c)

HasBlank(flat) == \E l \in Range(flat) : l.kw = ""

(* The lines of files. *)
LEMMA LinesOfFiles ==
  ASSUME NEW files, \A f \in DOMAIN files : Lines(files[f])
  PROVE  FilesOf(files, LinesOf(files))
<1>1. ASSUME NEW f \in DOMAIN files PROVE files[f] \in Seq(LinesOf(files))
  <2>1. PICK file, A : file = files[f] /\ A = Range(files[f])
    OBVIOUS
  <2>2. file \in Seq(A)
    BY <2>1 DEF Lines
  <2>3. PICK X : X = LinesOf(files)
    OBVIOUS
  <2>4. A \subseteq X
    BY <2>1, <2>3 DEF LinesOf
  <2>5. file \in Seq(X)
    BY ONLY <2>2, <2>4, SeqGrows
  <2> QED
    BY <2>1, <2>3, <2>5
<1> QED
  BY <1>1 DEF FilesOf

(* What lines say is of something. *)
LEMMA SpellsAll ==
  ASSUME NEW X
  PROVE  \E Y : \A what \in Told : Spells(what, X, Y)
<1>1. PICK Y : Y = {l.name : l \in X} \cup {[id |-> l.id, name |-> l.name] : l \in X} \cup {[asgt |-> l.asgt, grade |-> l.grade] : l \in X}
  OBVIOUS
<1>2. ASSUME NEW what \in Told, NEW l \in X PROVE Says(what, l) \in Seq(Y)
  <2>1. l.name \in Y /\ [id |-> l.id, name |-> l.name] \in Y /\ [asgt |-> l.asgt, grade |-> l.grade] \in Y
    BY <1>1
  <2>2. \A y \in Y : <<y>> \in Seq(Y)
    OBVIOUS
  <2>3. <<>> \in Seq(Y)
    OBVIOUS
  <2>4. PICK a, b, c \in Y : a = l.name /\ b = [id |-> l.id, name |-> l.name] /\ c = [asgt |-> l.asgt, grade |-> l.grade]
    BY <2>1
  <2>5. Says(what, l) = <<a>> \/ Says(what, l) = <<b>> \/ Says(what, l) = <<c>> \/ Says(what, l) = <<>>
    <3>1. /\ Says("ASSIGNMENT", l) = IF l.kw = "ASSIGNMENT" THEN <<l.name>> ELSE <<>>
          /\ Says("SECTION", l) = IF l.kw = "SECTION" THEN <<l.name>> ELSE <<>>
          /\ l.kw = "STUDENT" => Says("STUDENT", l) = <<[id |-> l.id, name |-> l.name]>>
          /\ l.kw = "SCORE" => Says("STUDENT", l) = <<[asgt |-> l.asgt, grade |-> l.grade]>>
          /\ l.kw \notin {"STUDENT", "SCORE"} => Says("STUDENT", l) = <<>>
      BY SaysWhat
    <3>2. what = "ASSIGNMENT" \/ what = "SECTION" \/ what = "STUDENT"
      BY DEF Told
    <3> QED
      BY ONLY <2>4, <3>1, <3>2
  <2> QED
    BY ONLY <2>2, <2>3, <2>4, <2>5
<1>3. \A what \in Told : Spells(what, X, Y)
  BY <1>2 DEF Spells
<1> QED
  BY <1>3

(* What the course keeps is sequences. *)
LEMMA TracksSpoken ==
  ASSUME NEW h, NEW past, NEW flat, NEW files, NEW st, NEW c, Tracking(h, past, flat, files, st, c)
  PROVE  Spoken(c)
<1>1. PICK X : X = LinesOf(files)
  OBVIOUS
<1>2. past \in Seq(X)
  BY <1>1 DEF Tracking, Passed
<1>3. PICK Y : \A what \in Told : Spells(what, X, Y)
  BY SpellsAll
<1>4. ASSUME NEW what \in Told PROVE Listed(KeptOf(c, what))
  <2>1. Said(what, past) \in Seq(Y)
    BY <1>2, <1>3, SaidIs
  <2>2. Said(what, past) = KeptOf(c, what)
    BY DEF Tracking
  <2>3. KeptOf(c, what) \in Seq(Y)
    BY <2>1, <2>2
  <2> QED
    BY <2>3, SeqIsListed
<1> QED
  BY <1>4 DEF Spoken

(* What is said grows with a line. *)
LEMMA SaidMore ==
  ASSUME NEW X, NEW past \in Seq(X), NEW l \in X, NEW c, NEW d, \A what \in Told : Said(what, past) = KeptOf(c, what), Keeps(c, d, l)
  PROVE  \A what \in Told : Said(what, past \o <<l>>) = KeptOf(d, what)
<1>1. PICK Y : \A what \in Told : Spells(what, X, Y)
  BY SpellsAll
<1>2. PICK b \in Seq(X) : b = <<l>>
  <2>1. <<l>> \in Seq(X)
    BY ONLY l \in X
  <2> QED
    BY <2>1
<1>3. PICK w : w = past \o <<l>>
  OBVIOUS
<1>4. Joint(w, past, b)
  BY ONLY <1>2, <1>3 DEF Joint
<1>5. ASSUME NEW what \in Told PROVE Said(what, w) = KeptOf(d, what)
  <2>1. Spells(what, X, Y)
    BY <1>1
  <2>2. Joint(Said(what, w), Said(what, past), Said(what, b))
    BY ONLY <1>4, <2>1, past \in Seq(X), b \in Seq(X), SaidJoins
  <2>3. Says(what, l) \in Seq(Y)
    BY <2>1 DEF Spells
  <2>4. Said(what, b) = Says(what, l)
    BY <1>2, <2>3, SaidFew
  <2>5. Joint(KeptOf(d, what), KeptOf(c, what), Says(what, l))
    BY DEF Keeps
  <2>6. Said(what, past) = KeptOf(c, what)
    OBVIOUS
  <2> QED
    BY ONLY <2>2, <2>4, <2>5, <2>6 DEF Joint
<1> QED
  BY <1>3, <1>5

(* At first nothing is said or kept. *)
LEMMA TracksBegin ==
  ASSUME NEW files, \A f \in DOMAIN files : Lines(files[f]), Main \in DOMAIN files, NEW h, Levels(h, files, MaxOpen)
  PROVE  Tracks(h[MaxOpen][Main], files, AtStart, NoCourse)
<1>1. PICK X : X = LinesOf(files)
  OBVIOUS
<1>2. Leveled(h, files, X)
  BY <1>1, LinesOfFiles DEF Leveled
<1>3. Passed(<<>>, h, files, AtStart, X)
  BY <1>2, NothingPassed
<1>4. ASSUME NEW what \in Told PROVE Said(what, <<>>) = KeptOf(NoCourse, what)
  <2>1. Said(what, <<>>) = <<>>
    BY SaidFew
  <2>2. NoCourse.assignments = <<>> /\ NoCourse.sections = <<>> /\ NoCourse.students = <<>> /\ DOMAIN <<>> = {}
    BY DEF NoCourse
  <2>3. NamesOf(<<>>) = <<>>
    BY DEF NamesOf
  <2>4. PersonsOf(NoCourse) = <<>>
    BY ONLY <2>2 DEF PersonsOf
  <2>5. /\ KeptOf(NoCourse, "ASSIGNMENT") = <<>> /\ KeptOf(NoCourse, "SECTION") = <<>> /\ KeptOf(NoCourse, "STUDENT") = <<>>
    BY <2>2, <2>3, <2>4, KeptIs, ConcatNone
  <2> QED
    BY <2>1, <2>5 DEF Told
<1> QED
  BY <1>1, <1>2, <1>3, <1>4 DEF Tracks, Tracking

(* The line the last file opened is at. *)
AtLine(st, files, n, file, j) == n = Len(st) /\ file = files[st[n].file] /\ j = st[n].line
Shows(flat, l)                == l \in Range(flat)
LineKept(flat, files, c, d, l, su) == Shows(flat, l) /\ Spoken(c) /\ (Keeps(c, d, l) => Tracks(flat, files, su, d))
AllKept(flat, c)              == \A what \in Told : Said(what, flat) = KeptOf(c, what)

(* A line is read that includes no file; the course keeps what it says. *)
LEMMA LineTracked ==
  ASSUME NEW flat, NEW files, NEW st, Opened(st, files), NEW c, Tracks(flat, files, st, c),
         NEW n, NEW file, NEW j, AtLine(st, files, n, file, j), ~(j > Len(file)),
         NEW l, l = file[j], l.kw # "FILE", NEW d, NEW su, su = [st EXCEPT ![n].line = @ + 1]
  PROVE  LineKept(flat, files, c, d, l, su)
<1>1. PICK h, past : Tracking(h, past, flat, files, st, c)
  BY DEF Tracks
<1>2. PICK X : X = LinesOf(files)
  OBVIOUS
<1>3. Leveled(h, files, X) /\ Passed(past, h, files, st, X)
  BY <1>1, <1>2 DEF Tracking
<1>4. Reads(st, files, n, file, j, X)
  <2>1. PICK n1, file1, j1 : Reads(st, files, n1, file1, j1, X)
    BY <1>3, ReaderAt
  <2>2. n1 = n /\ file1 = file /\ j1 = j
    BY <2>1 DEF Reads, AtLine
  <2> QED
    BY <2>1, <2>2
<1>5. j <= Len(file)
  <2>1. j \in Nat /\ file \in Seq(X)
    BY <1>4 DEF Reads
  <2>2. Len(file) \in Nat
    BY ONLY <2>1, LenProperties
  <2> QED
    BY ONLY <2>1, <2>2, ~(j > Len(file))
<1>6. Passed(past \o <<l>>, h, files, su, X) /\ l \in X /\ l \in Range(h[MaxOpen][Main])
  <2>1. Opened(st, files) /\ l = file[j] /\ l.kw # "FILE" /\ su = [st EXCEPT ![n].line = @ + 1]
    OBVIOUS
  <2> QED
    BY ONLY <1>3, <1>4, <1>5, <2>1, LinePassed
<1>7. past \in Seq(X) /\ \A what \in Told : Said(what, past) = KeptOf(c, what)
  BY <1>1, <1>3 DEF Tracking, Passed
<1>8. ASSUME Keeps(c, d, l) PROVE Tracks(flat, files, su, d)
  <2>1. \A what \in Told : Said(what, past \o <<l>>) = KeptOf(d, what)
    BY <1>6, <1>7, <1>8, SaidMore
  <2>2. flat = h[MaxOpen][Main]
    BY <1>1 DEF Tracking
  <2> QED
    BY ONLY <1>2, <1>3, <1>6, <2>1, <2>2 DEF Tracks, Tracking
<1>9. Shows(flat, l)
  BY <1>1, <1>6 DEF Tracking, Shows
<1> QED
  BY <1>1, <1>8, <1>9, TracksSpoken DEF LineKept

(* A file is included. *)
LEMMA FileTracked ==
  ASSUME NEW flat, NEW files, NEW st, Opened(st, files), NEW c, Tracks(flat, files, st, c),
         NEW n, NEW file, NEW j, AtLine(st, files, n, file, j), ~(j > Len(file)),
         NEW l, l = file[j], l.kw = "FILE", l.file \in DOMAIN files, n < MaxOpen,
         NEW su, su = [st EXCEPT ![n].line = @ + 1], NEW o, o = [file |-> l.file, line |-> 1]
  PROVE  Tracks(flat, files, Append(su, o), c)
<1>1. PICK h, past : Tracking(h, past, flat, files, st, c)
  BY DEF Tracks
<1>2. PICK X : X = LinesOf(files)
  OBVIOUS
<1>3. Leveled(h, files, X) /\ Passed(past, h, files, st, X)
  BY <1>1, <1>2 DEF Tracking
<1>4. Reads(st, files, n, file, j, X)
  <2>1. PICK n1, file1, j1 : Reads(st, files, n1, file1, j1, X)
    BY <1>3, ReaderAt
  <2>2. n1 = n /\ file1 = file /\ j1 = j
    BY <2>1 DEF Reads, AtLine
  <2> QED
    BY <2>1, <2>2
<1>5. j <= Len(file)
  <2>1. j \in Nat /\ file \in Seq(X)
    BY <1>4 DEF Reads
  <2>2. Len(file) \in Nat
    BY ONLY <2>1, LenProperties
  <2> QED
    BY ONLY <2>1, <2>2, ~(j > Len(file))
<1>6. Passed(past, h, files, Append(su, o), X)
  BY <1>3, <1>4, <1>5, FilePassed
<1> QED
  BY <1>1, <1>2, <1>3, <1>6 DEF Tracks, Tracking

(* At the end of a file. *)
LEMMA EndTracked ==
  ASSUME NEW flat, NEW files, NEW st, Opened(st, files), NEW c, Tracks(flat, files, st, c),
         NEW n, NEW file, NEW j, AtLine(st, files, n, file, j), j > Len(file)
  PROVE  (n > 1 => Tracks(flat, files, Front(st), c)) /\ (n = 1 => AllKept(flat, c))
<1>1. PICK h, past : Tracking(h, past, flat, files, st, c)
  BY DEF Tracks
<1>2. PICK X : X = LinesOf(files)
  OBVIOUS
<1>3. Leveled(h, files, X) /\ Passed(past, h, files, st, X)
  BY <1>1, <1>2 DEF Tracking
<1>5. Reads(st, files, n, file, j, X)
  <2>1. PICK n1, file1, j1 : Reads(st, files, n1, file1, j1, X)
    BY <1>3, ReaderAt
  <2>2. n1 = n /\ file1 = file /\ j1 = j
    BY <2>1 DEF Reads, AtLine
  <2> QED
    BY <2>1, <2>2
<1>6. /\ n > 1 => Passed(past, h, files, Front(st), X)
      /\ n = 1 => past = h[MaxOpen][Main]
  BY <1>3, <1>5, EndPassed
<1>7. n > 1 => Tracks(flat, files, Front(st), c)
  BY <1>1, <1>2, <1>3, <1>6 DEF Tracks, Tracking
<1>8. n = 1 => AllKept(flat, c)
  BY <1>1, <1>6 DEF Tracking, AllKept
<1> QED
  BY <1>7, <1>8

----------------------------------------------------------------------------
(* What is known while the lines are read *)

(* Reading has failed, a line of blanks is in the way, or the course keeps   *)
(* what the lines passed say: all lines, when it is done.                   *)
TextAt(w, e, flat, files, st, c) ==
  \/ w = "fatal" \/ (e /\ w # "course") \/ HasBlank(flat)
  \/ (w = "done" /\ AllKept(flat, c))
  \/ (w # "done" /\ Tracks(flat, files, st, c))

TextInv ==
  phase \in {"options", "reading"} =>
    /\ TextAt(parse.where, parse.errors, Flat, input.files, stack, course)
    /\ parse.where = "score" => course.students # <<>>

(* The line the reader is at, and what reading it would do. *)
LEMMA TextSteps ==
  ASSUME RunInv, NumInv, Tracks(Flat, input.files, stack, course)
  PROVE  /\ Token # "" /\ Token # "FILE" =>
              Spoken(course) /\ \A d : Keeps(course, d, Line) => Tracks(Flat, input.files, Next1, d)
         /\ Token = "" /\ ~AtEnd => HasBlank(Flat)
         /\ Token = "FILE" /\ Line.file \in DOMAIN input.files /\ Len(stack) < MaxOpen =>
              Tracks(Flat, input.files, Append(Next1, [file |-> Line.file, line |-> 1]), course)
         /\ AtEnd /\ Len(stack) > 1 => Tracks(Flat, input.files, Front(stack), course)
         /\ AtEnd /\ Len(stack) = 1 => AllKept(Flat, course)
<1>1. PICK flat, files, st, c : flat = Flat /\ files = input.files /\ st = stack /\ c = course
  OBVIOUS
<1>2. Opened(st, files) /\ Tracks(flat, files, st, c)
  BY <1>1 DEF NumInv
<1>3. PICK n, file, j : n = Len(st) /\ file = files[st[n].file] /\ j = st[n].line
  OBVIOUS
<1>4. AtLine(st, files, n, file, j)
  BY <1>3 DEF AtLine
<1>5. PICK l : l = file[j]
  OBVIOUS
<1>6. PICK su : su = [st EXCEPT ![n].line = @ + 1]
  OBVIOUS
<1>7. /\ (AtEnd <=> j > Len(file)) /\ Line = l /\ Next1 = su
      /\ Token = (IF AtEnd THEN "" ELSE l.kw)
  BY <1>1, <1>3, <1>5, <1>6 DEF AtEnd, Line, Next1, Token, Top
<1>8. ASSUME ~AtEnd, l.kw # "FILE", NEW d
      PROVE  LineKept(flat, files, c, d, l, su)
  <2>1. ~(j > Len(file)) /\ l.kw # "FILE"
    BY <1>7, <1>8
  <2> QED
    BY ONLY <1>2, <1>4, <1>5, <1>6, <2>1, LineTracked
<1>9. ASSUME Token # "", Token # "FILE"
      PROVE  Spoken(course) /\ \A d : Keeps(course, d, Line) => Tracks(Flat, input.files, Next1, d)
  <2>1. ~AtEnd /\ l.kw # "FILE"
    BY <1>7, <1>9
  <2> QED
    BY <1>1, <1>7, <1>8, <2>1 DEF LineKept
<1>10. ASSUME Token = "", ~AtEnd PROVE HasBlank(Flat)
  <2>1. l.kw = ""
    BY <1>7, <1>10
  <2>2. l \in Range(flat)
    BY <1>8, <1>10, <2>1 DEF LineKept, Shows
  <2> QED
    BY <1>1, <2>1, <2>2 DEF HasBlank
<1>11. ASSUME Token = "FILE", Line.file \in DOMAIN input.files, Len(stack) < MaxOpen
       PROVE  Tracks(Flat, input.files, Append(Next1, [file |-> Line.file, line |-> 1]), course)
  <2>1. ~(j > Len(file)) /\ l.kw = "FILE" /\ l.file \in DOMAIN files /\ n < MaxOpen
    BY <1>1, <1>3, <1>7, <1>11
  <2>2. PICK o : o = [file |-> l.file, line |-> 1]
    OBVIOUS
  <2>3. Tracks(flat, files, Append(su, o), c)
    BY ONLY <1>2, <1>4, <1>5, <1>6, <2>1, <2>2, FileTracked
  <2> QED
    BY <1>1, <1>7, <2>2, <2>3
<1>12. ASSUME AtEnd
       PROVE  (n > 1 => Tracks(flat, files, Front(st), c)) /\ (n = 1 => AllKept(flat, c))
  <2>1. j > Len(file)
    BY <1>7, <1>12
  <2> QED
    BY ONLY <1>2, <1>4, <2>1, EndTracked
<1> QED
  BY <1>1, <1>3, <1>9, <1>10, <1>11, <1>12

TextThen ==
  /\ TextAt(parse'.where, parse'.errors, Flat, input.files, stack', course')
  /\ parse'.where = "score" => course'.students # <<>>

(* The next function is called. *)
LEMMA LeaveTold ==
  ASSUME RunInv, NEW w, Leave(w), w \notin {"done", "score", "course"}, parse.where # "done", w = "fatal" \/ parse.where \notin {"course", "fatal"},
         TextAt(parse.where, parse.errors, Flat, input.files, stack, course)
  PROVE  TextThen
<1>1. parse = [where |-> parse.where, errors |-> parse.errors]
  BY DEF RunInv, ReadInv
<1>2. parse' = [parse EXCEPT !.where = w]
  BY DEF Leave
<1>3. parse'.where = w /\ parse'.errors = parse.errors
  BY ONLY <1>1, <1>2
<1>4. stack' = stack /\ course' = course
  BY DEF Leave
<1>5. PICK flat, e, v : flat = Flat /\ e = parse.errors /\ v = parse.where
  OBVIOUS
<1>6. TextAt(w, e, flat, input.files, stack, course)
  <2>1. w = "fatal" \/ v \notin {"course", "fatal"}
    BY <1>5
  <2>2. PICK b, k, t : b = HasBlank(flat) /\ k = AllKept(flat, course) /\ t = Tracks(flat, input.files, stack, course)
    OBVIOUS
  <2>3. v = "fatal" \/ (e /\ v # "course") \/ b \/ (v = "done" /\ k) \/ (v # "done" /\ t)
    BY <1>5, <2>2 DEF TextAt
  <2>4. w = "fatal" \/ (e /\ w # "course") \/ b \/ (w = "done" /\ k) \/ (w # "done" /\ t)
    BY ONLY <1>5, <2>1, <2>3, w \notin {"done", "score", "course"}, w = "fatal" \/ parse.where \notin {"course", "fatal"}, parse.where # "done"
  <2> QED
    BY <2>2, <2>4 DEF TextAt
<1> QED
  BY <1>3, <1>4, <1>5, <1>6 DEF TextThen

(* A line is taken, which is kept unless it is bad. *)
LEMMA TakeTold ==
  ASSUME RunInv, NumInv, NEW w, Take(w), w \notin {"done", "course"}, parse.where \notin {"done", "course", "fatal"},
         TextAt(parse.where, parse.errors, Flat, input.files, stack, course), Token \notin {"", "FILE"},
         Spoken(course) /\ ~Line.bad => Keeps(course, course', Line), w = "score" => course'.students # <<>>
  PROVE  TextThen
<1>1. PICK e, b : e = (parse.errors \/ Line.bad) /\ b = parse.errors
  OBVIOUS
<1>2. parse' = [where |-> w, errors |-> e] /\ stack' = Next1
  BY <1>1 DEF Take
<1>3. parse'.where = w /\ parse'.errors = e
  BY ONLY <1>2
<1>4. TextAt(w, e, Flat, input.files, stack', course')
  <2>1. CASE e \/ HasBlank(Flat)
    BY <2>1 DEF TextAt
  <2>2. CASE ~e /\ ~HasBlank(Flat)
    <3>1. ~parse.errors /\ ~Line.bad
      BY <1>1, <2>2
    <3>2. Tracks(Flat, input.files, stack, course)
      BY <2>2, <3>1 DEF TextAt
    <3>3. Tracks(Flat, input.files, Next1, course')
      BY <3>1, <3>2, TextSteps
    <3> QED
      BY <1>2, <3>3 DEF TextAt
  <2> QED
    BY <2>1, <2>2
<1> QED
  BY <1>3, <1>4 DEF TextThen

(* The first line, and a professor. *)
LEMMA HeadTold ==
  ASSUME RunInv, NumInv, TextAt(parse.where, parse.errors, Flat, input.files, stack, course), ReadCourse \/ ReadProfessor
  PROVE  TextThen
<1>0. course = [professor |-> course.professor, assignments |-> course.assignments, sections |-> course.sections,
                students |-> course.students] /\ NumbersOK(course)
  BY CourseFields DEF RunInv, BookInv, NumInv
<1>1. CASE ReadCourse /\ AtEnd
  BY <1>1, LeaveTold DEF ReadCourse, Fatal
<1>2. CASE ReadCourse /\ ~AtEnd
  <2>1. PICK e : e = (Token # "COURSE")
    OBVIOUS
  <2>2. parse' = [where |-> "professor", errors |-> e] /\ stack' = Next1 /\ course' = course /\ parse.where = "course"
    BY <1>2, <2>1 DEF ReadCourse
  <2>3. parse'.where = "professor" /\ parse'.errors = e
    BY ONLY <2>2
  <2>4. CASE e \/ HasBlank(Flat)
    BY <2>3, <2>4 DEF TextThen, TextAt
  <2>5. CASE ~e /\ ~HasBlank(Flat)
    <3>1. Token = "COURSE" /\ Line.kw = "COURSE"
      BY <2>1, <2>5, LineReads DEF NumInv
    <3>2. Tracks(Flat, input.files, stack, course)
      BY <2>2, <2>5 DEF TextAt
    <3>3. Spoken(course) => Keeps(course, course, Line)
      BY <1>0, <3>1, NothingKept
    <3>4. Tracks(Flat, input.files, Next1, course)
      BY <3>1, <3>2, <3>3, TextSteps
    <3> QED
      BY <2>2, <2>3, <3>4 DEF TextThen, TextAt
  <2> QED
    BY <2>4, <2>5
<1>3. CASE ReadProfessor /\ Token # "PROFESSOR"
  BY <1>3, LeaveTold DEF ReadProfessor
<1>4. CASE ReadProfessor /\ Token = "PROFESSOR"
  <2>1. Take("assignment") /\ course' = [course EXCEPT !.professor = TRUE] /\ parse.where = "professor"
    BY <1>4 DEF ReadProfessor
  <2>2. course'.assignments = course.assignments /\ course'.sections = course.sections /\ course'.students = course.students
    BY ONLY <1>0, <2>1
  <2>3. Line.kw = "PROFESSOR"
    BY <1>4, LineReads DEF NumInv
  <2>4. Spoken(course) => Keeps(course, course', Line)
    BY <1>0, <2>2, <2>3, NothingKept
  <2> QED
    BY <1>4, <2>1, <2>4, TakeTold
<1> QED
  BY <1>1, <1>2, <1>3, <1>4

----------------------------------------------------------------------------
(* An option does not rename an assignment. *)
LEMMA OptionName ==
  ASSUME NEW a, AsgtOK(a), NEW l, l.kw \in {"WEIGHT", "NORMALIZE", "MAXIMUM"}
  PROVE  WithOption(a, l).name = a.name
<1>1. a = [name |-> a.name, atype |-> a.atype, weight |-> a.weight, policy |-> a.policy, group |-> a.group,
           max |-> a.max, mean |-> a.mean, stddev |-> a.stddev, scale |-> a.scale]
  BY DEF AsgtOK
<1>2. CASE l.kw = "WEIGHT"
  <2>1. PICK w : w = IF l.bad THEN Unset ELSE l.number
    OBVIOUS
  <2>2. PICK b : b = [a EXCEPT !.weight = w]
    OBVIOUS
  <2>3. b.name = a.name
    BY ONLY <1>1, <2>2
  <2>4. WithOption(a, l) = b
    BY <1>2, <2>1, <2>2 DEF WithOption
  <2> QED
    BY <2>3, <2>4
<1>3. CASE l.kw = "MAXIMUM"
  <2>1. PICK w : w = l.number
    OBVIOUS
  <2>2. PICK b : b = [a EXCEPT !.max = w]
    OBVIOUS
  <2>3. b.name = a.name
    BY ONLY <1>1, <2>2
  <2>4. WithOption(a, l) = a \/ WithOption(a, l) = b
    BY <1>3, <2>1, <2>2 DEF WithOption
  <2> QED
    BY <2>3, <2>4
<1>4. CASE l.kw = "NORMALIZE"
  <2>1. PICK b : b = [a EXCEPT !.policy = l.policy, !.group = l.group]
    OBVIOUS
  <2>2. PICK p, g, m, d, s : p = l.policy /\ g = l.group /\ m = l.mean /\ d = l.stddev /\ s = l.scale
    OBVIOUS
  <2>3. b = [name |-> a.name, atype |-> a.atype, weight |-> a.weight, policy |-> p, group |-> g,
             max |-> a.max, mean |-> a.mean, stddev |-> a.stddev, scale |-> a.scale]
    BY ONLY <1>1, <2>1, <2>2
  <2>4. PICK e : e = [b EXCEPT !.policy = "LINEAR", !.mean = 0, !.stddev = Unit]
    OBVIOUS
  <2>5. PICK f : f = [b EXCEPT !.policy = "LINEAR", !.mean = m, !.stddev = d]
    OBVIOUS
  <2>6. PICK h : h = [b EXCEPT !.scale = s]
    OBVIOUS
  <2>7. PICK o : o = [a EXCEPT !.policy = "RAW", !.group = "BYCLASS"]
    OBVIOUS
  <2>8. b.name = a.name /\ e.name = a.name /\ f.name = a.name /\ h.name = a.name /\ o.name = a.name
    BY ONLY <1>1, <2>3, <2>4, <2>5, <2>6, <2>7
  <2>9. WithOption(a, l) \in {b, e, f, h, o}
    BY <1>4, <2>1, <2>2, <2>4, <2>5, <2>6, <2>7 DEF WithOption
  <2> QED
    BY <2>8, <2>9
<1> QED
  BY <1>2, <1>3, <1>4

(* An assignment, and what its options say. *)
LEMMA AssignmentTold ==
  ASSUME RunInv, NumInv, TextAt(parse.where, parse.errors, Flat, input.files, stack, course), ReadAssignment \/ ReadOption
  PROVE  TextThen
<1>0. /\ course = [professor |-> course.professor, assignments |-> course.assignments, sections |-> course.sections,
                   students |-> course.students]
      /\ NumbersOK(course)
  BY CourseFields DEF RunInv, BookInv, NumInv
<1>1. PICK as : as = course.assignments
  OBVIOUS
<1>2. Listed(as) /\ \A a \in DOMAIN as : AsgtOK(as[a])
  <2>1. Listed(as)
    BY <1>1, SeqIsListed DEF RunInv, ReadInv, AssignmentsListed
  <2> QED
    BY <1>0, <1>1, <2>1 DEF NumbersOK
<1>3. CASE ReadAssignment /\ Token # "ASSIGNMENT"
  BY <1>3, LeaveTold DEF ReadAssignment
<1>4. CASE ReadOption /\ Token \notin {"WEIGHT", "NORMALIZE", "MAXIMUM"}
  BY <1>4, LeaveTold DEF ReadOption
<1>5. CASE ReadAssignment /\ Token = "ASSIGNMENT"
  <2>1. Take("option") /\ parse.where = "assignment"
    BY <1>5 DEF ReadAssignment
  <2>2. PICK old \in Leftover :
          course' = [course EXCEPT !.assignments = Append(@,
              [name |-> Line.name, atype |-> Line.atype, weight |-> Unset, policy |-> "RAW",
                group |-> "BYCLASS", max |-> 0, mean |-> old, stddev |-> old, scale |-> old])]
    BY <1>5 DEF ReadAssignment
  <2>3. PICK l : l = Line /\ l.kw = "ASSIGNMENT"
    BY <1>5, LineReads DEF NumInv
  <2>4. PICK x, y : x = l.name /\ y = l.atype
    OBVIOUS
  <2>5. PICK a : a = [name |-> x, atype |-> y, weight |-> Unset, policy |-> "RAW",
                      group |-> "BYCLASS", max |-> 0, mean |-> old, stddev |-> old, scale |-> old]
    OBVIOUS
  <2>6. a.name = l.name
    BY ONLY <2>4, <2>5
  <2>7. PICK v : v = Append(as, a)
    OBVIOUS
  <2>8. course' = [course EXCEPT !.assignments = v]
    BY ONLY <1>1, <2>2, <2>3, <2>4, <2>5, <2>7
  <2>9. course'.assignments = v /\ course'.sections = course.sections /\ course'.students = course.students
    BY ONLY <1>0, <2>8
  <2>10. Spoken(course) => Keeps(course, course', l)
    BY <1>0, <1>1, <1>2, <2>3, <2>6, <2>7, <2>9, AssignmentKept
  <2> QED
    BY <1>5, <2>1, <2>3, <2>10, TakeTold
<1>6. CASE ReadOption /\ Token \in {"WEIGHT", "NORMALIZE", "MAXIMUM"}
  <2>1. Take("option") /\ parse.where = "option"
    BY <1>6 DEF ReadOption
  <2>2. PICK l : l = Line /\ l.kw \in {"WEIGHT", "NORMALIZE", "MAXIMUM"}
    BY <1>6, LineReads DEF NumInv
  <2>3. PICK x : x = WithOption(as[Len(as)], l)
    OBVIOUS
  <2>4. PICK v : v = [as EXCEPT ![Len(as)] = x]
    OBVIOUS
  <2>5. course' = [course EXCEPT !.assignments = v]
    BY <1>1, <1>6, <2>2, <2>3, <2>4 DEF ReadOption
  <2>6. course'.assignments = v /\ course'.sections = course.sections /\ course'.students = course.students
    BY ONLY <1>0, <2>5
  <2>7. DOMAIN v = DOMAIN as
    BY ONLY <2>4
  <2>8. ASSUME NEW a \in DOMAIN as PROVE v[a].name = as[a].name
    <3>1. CASE a = Len(as)
      <4>1. v[a] = x
        BY ONLY <2>4, <3>1, a \in DOMAIN as
      <4>2. PICK o : o = as[a]
        OBVIOUS
      <4>3. AsgtOK(o) /\ x = WithOption(o, l)
        BY <1>2, <2>3, <3>1, <4>2
      <4>4. l.kw \in {"WEIGHT", "NORMALIZE", "MAXIMUM"}
        BY <2>2
      <4>5. WithOption(o, l).name = o.name
        BY ONLY <4>3, <4>4, OptionName
      <4> QED
        BY <4>1, <4>2, <4>3, <4>5
    <3>2. CASE a # Len(as)
      <4>1. v[a] = as[a]
        BY ONLY <2>4, <3>2, a \in DOMAIN as
      <4> QED
        BY <4>1
    <3> QED
      BY <3>1, <3>2
  <2>9. Spoken(course) => Keeps(course, course', l)
    BY <1>0, <1>1, <2>2, <2>6, <2>7, <2>8, NothingKept
  <2> QED
    BY <1>6, <2>1, <2>2, <2>9, TakeTold
<1> QED
  BY <1>3, <1>4, <1>5, <1>6

(* The end of what is read. *)
LEMMA EofTold ==
  ASSUME RunInv, NumInv, TextAt(parse.where, parse.errors, Flat, input.files, stack, course), ExpectEof
  PROVE  TextThen
<1>1. PICK e : e = (parse.errors \/ ~(Rest \subseteq {""}) \/ Len(stack) > 1)
  OBVIOUS
<1>2. parse.where = "eof" /\ parse' = [where |-> "done", errors |-> e] /\ course' = course
  BY <1>1 DEF ExpectEof
<1>3. parse'.where = "done" /\ parse'.errors = e
  BY ONLY <1>2
<1>4. CASE e \/ HasBlank(Flat)
  BY <1>3, <1>4 DEF TextThen, TextAt
<1>5. CASE ~e /\ ~HasBlank(Flat)
  <2>1. ~parse.errors /\ Rest \subseteq {""} /\ ~(Len(stack) > 1)
    BY <1>1, <1>5
  <2>2. Len(stack) = 1
    <3>1. PICK X : stack \in Seq(X) /\ stack # <<>>
      BY DEF NumInv, Opened
    <3>2. Len(stack) = 1 \/ Len(stack) > 1
      BY ONLY <3>1
    <3> QED
      BY <2>1, <3>2
  <2>3. Tracks(Flat, input.files, stack, course)
    BY <1>2, <1>5, <2>1 DEF TextAt
  <2>4. AtEnd
    <3>1. SUFFICES ASSUME ~AtEnd PROVE FALSE
      OBVIOUS
    <3>2. PICK file, j : file = input.files[Top.file] /\ j = Top.line
      OBVIOUS
    <3>3. AnOpen(Top, input.files)
      BY OpenedSteps DEF Top, NumInv
    <3>4. j \in Nat /\ file \in Seq(Range(file))
      BY <3>2, <3>3 DEF AnOpen, NumInv, AnInput, Lines
    <3>5. Len(file) \in Nat
      BY ONLY <3>4, LenProperties
    <3>6. ~(j > Len(file))
      BY <3>1, <3>2 DEF AtEnd
    <3>7. j \in j..Len(file)
      BY ONLY <3>4, <3>5, <3>6
    <3>8. file[j].kw \in Rest
      BY <3>2, <3>7 DEF Rest
    <3>9. Token = ""
      BY <2>1, <3>1, <3>2, <3>8 DEF Token
    <3> QED
      BY <1>5, <2>3, <3>1, <3>9, TextSteps
  <2>5. AllKept(Flat, course)
    BY <2>2, <2>3, <2>4, TextSteps
  <2> QED
    BY <1>2, <1>3, <2>5 DEF TextThen, TextAt
<1> QED
  BY <1>4, <1>5

----------------------------------------------------------------------------
(* A section, an assistant, or an included file. *)
LEMMA SectionTold ==
  ASSUME RunInv, NumInv, TextAt(parse.where, parse.errors, Flat, input.files, stack, course), ReadSection \/ ReadAssistant
  PROVE  TextThen
<1>0. /\ course = [professor |-> course.professor, assignments |-> course.assignments, sections |-> course.sections,
                   students |-> course.students]
      /\ NumbersOK(course)
  BY CourseFields DEF RunInv, BookInv, NumInv
<1>1. PICK ss : ss = course.sections
  OBVIOUS
<1>2. Listed(ss)
  <2>1. PICK T : course.sections \in Seq(T)
    BY CourseFields DEF RunInv, BookInv
  <2> QED
    BY <1>1, <2>1, SeqIsListed
<1>3. CASE ReadAssistant /\ Token # "ASSISTANT"
  BY <1>3, LeaveTold DEF ReadAssistant
<1>4. CASE ReadSection /\ Token \notin {"", "FILE", "SECTION"}
  <2>1. Leave("eof") /\ parse.where = "section"
    BY <1>4 DEF ReadSection
  <2> QED
    BY <2>1, LeaveTold
<1>5. CASE ReadAssistant /\ Token = "ASSISTANT"
  <2>1. Take("student") /\ parse.where = "assistant" /\ course' = [course EXCEPT !.sections[Section].assistant = TRUE]
    BY <1>5 DEF ReadAssistant
  <2>2. PICK l : l = Line /\ l.kw = "ASSISTANT"
    BY <1>5, LineReads DEF NumInv
  <2>3. PICK n, v : n = Section /\ v = [ss EXCEPT ![n].assistant = TRUE]
    OBVIOUS
  <2>4. course' = [course EXCEPT !.sections = v]
    BY ONLY <1>1, <2>1, <2>3
  <2>5. course'.sections = v /\ course'.assignments = course.assignments /\ course'.students = course.students
    BY ONLY <1>0, <2>4
  <2>6. DOMAIN v = DOMAIN ss
    BY ONLY <2>3
  <2>7. ASSUME NEW s \in DOMAIN ss PROVE v[s].name = ss[s].name
    <3>1. PICK o, p : o = ss[s] /\ p = [o EXCEPT !.assistant = TRUE]
      OBVIOUS
    <3>2. v[s] = o \/ v[s] = p
      BY ONLY <2>3, <3>1, s \in DOMAIN ss
    <3>3. p.name = o.name
      <4>1. PICK X : Shape(course, X)
        BY DEF RunInv, BookInv, CourseOK
      <4>2. o \in ASection(X)
        BY <1>1, <3>1, <4>1, ShapeParts
      <4> QED
        BY ONLY <3>1, <4>2 DEF ASection
    <3> QED
      BY <3>1, <3>2, <3>3
  <2>8. Spoken(course) => Keeps(course, course', l)
    BY <1>0, <1>1, <2>2, <2>5, <2>6, <2>7, NothingKept
  <2> QED
    BY <1>5, <2>1, <2>2, <2>8, TakeTold
<1>6. CASE ReadSection /\ Token = "SECTION"
  <2>1. /\ Take("assistant") /\ parse.where = "section"
        /\ course' = [course EXCEPT !.sections = Append(@, [name |-> Line.name, assistant |-> FALSE, roster |-> <<>>])]
    BY <1>6 DEF ReadSection
  <2>2. PICK l : l = Line /\ l.kw = "SECTION"
    BY <1>6, LineReads DEF NumInv
  <2>3. PICK x : x = l.name
    OBVIOUS
  <2>4. PICK s : s = [name |-> x, assistant |-> FALSE, roster |-> <<>>]
    OBVIOUS
  <2>5. s.name = l.name
    BY ONLY <2>3, <2>4
  <2>6. PICK v : v = Append(ss, s)
    OBVIOUS
  <2>7. course' = [course EXCEPT !.sections = v]
    BY ONLY <1>1, <2>1, <2>2, <2>3, <2>4, <2>6
  <2>8. course'.sections = v /\ course'.assignments = course.assignments /\ course'.students = course.students
    BY ONLY <1>0, <2>7
  <2>9. Spoken(course) => Keeps(course, course', l)
    BY <1>0, <1>1, <1>2, <2>2, <2>5, <2>6, <2>8, SectionKept
  <2> QED
    BY <1>6, <2>1, <2>2, <2>9, TakeTold
<1>7. CASE ReadSection /\ Token = ""
  <2>1. Len(stack) = 1 \/ Len(stack) > 1
    <3>1. PICK X : stack \in Seq(X) /\ stack # <<>>
      BY DEF NumInv, Opened
    <3> QED
      BY ONLY <3>1
  <2>2. /\ parse.where = "section"
        /\ Leave("eof") \/ (Len(stack) > 1 /\ stack' = Front(stack) /\ parse' = parse /\ course' = course)
    BY <1>7, <2>1 DEF ReadSection, PreviousFile
  <2>3. CASE Leave("eof")
    BY <2>2, <2>3, LeaveTold
  <2>4. CASE ~Leave("eof")
    <3>1. Len(stack) > 1 /\ stack' = Front(stack) /\ parse' = parse /\ course' = course /\ parse.where = "section"
      BY <2>2, <2>4
    <3>2. CASE parse.errors \/ HasBlank(Flat)
      BY <3>1, <3>2 DEF TextThen, TextAt
    <3>3. CASE ~parse.errors /\ ~HasBlank(Flat)
      <4>1. Tracks(Flat, input.files, stack, course)
        BY <3>1, <3>3 DEF TextAt
      <4>2. AtEnd
        BY <1>7, <3>3, <4>1, TextSteps
      <4>3. Tracks(Flat, input.files, Front(stack), course)
        BY <3>1, <4>1, <4>2, TextSteps
      <4> QED
        BY <3>1, <4>3 DEF TextThen, TextAt
    <3> QED
      BY <3>2, <3>3
  <2> QED
    BY <2>3, <2>4
<1>8. CASE ReadSection /\ Token = "FILE"
  <2>1. IncludeFile /\ parse.where = "section"
    BY <1>8 DEF ReadSection
  <2>2. CASE Line.file \in DOMAIN input.files /\ Len(stack) < MaxOpen
    <3>1. /\ stack' = Append(Next1, [file |-> Line.file, line |-> 1]) /\ course' = course
          /\ parse' = [parse EXCEPT !.errors = @ \/ Line.bad]
      BY <2>1, <2>2 DEF IncludeFile
    <3>2. PICK w, e : w = parse.where /\ e = (parse.errors \/ Line.bad)
      OBVIOUS
    <3>3. parse = [where |-> parse.where, errors |-> parse.errors]
      BY DEF RunInv, ReadInv
    <3>4. parse'.where = w /\ parse'.errors = e
      BY ONLY <3>1, <3>2, <3>3
    <3>5. CASE e \/ HasBlank(Flat)
      BY <2>1, <3>2, <3>4, <3>5 DEF TextThen, TextAt
    <3>6. CASE ~e /\ ~HasBlank(Flat)
      <4>1. ~parse.errors
        BY <3>2, <3>6
      <4>2. Tracks(Flat, input.files, stack, course)
        BY <2>1, <3>6, <4>1 DEF TextAt
      <4>3. Tracks(Flat, input.files, stack', course')
        BY <1>8, <2>2, <3>1, <4>2, TextSteps
      <4> QED
        BY <2>1, <3>2, <3>4, <4>3 DEF TextThen, TextAt
    <3> QED
      BY <3>5, <3>6
  <2>3. CASE ~(Line.file \in DOMAIN input.files /\ Len(stack) < MaxOpen)
    <3>1. Leave("fatal")
      BY <2>1, <2>3 DEF IncludeFile, Fatal
    <3> QED
      BY <2>1, <3>1, LeaveTold
  <2> QED
    BY <2>2, <2>3
<1> QED
  BY <1>3, <1>4, <1>5, <1>6, <1>7, <1>8

----------------------------------------------------------------------------
(* A student. *)
LEMMA StudentTold ==
  ASSUME RunInv, NumInv, TextAt(parse.where, parse.errors, Flat, input.files, stack, course), ReadStudent
  PROVE  TextThen
<1>0. /\ course = [professor |-> course.professor, assignments |-> course.assignments, sections |-> course.sections,
                   students |-> course.students]
      /\ NumbersOK(course)
  BY CourseFields DEF RunInv, BookInv, NumInv
<1>1. PICK ss, sts : ss = course.sections /\ sts = course.students
  OBVIOUS
<1>2. Listed(sts)
  <2>1. PICK T : course.students \in Seq(T)
    BY CourseFields DEF RunInv, BookInv
  <2> QED
    BY <1>1, <2>1, SeqIsListed
<1>3. CASE Token # "STUDENT"
  BY <1>3, LeaveTold DEF ReadStudent
<1>4. CASE Token = "STUDENT"
  <2>1. /\ Take("score") /\ parse.where = "student"
        /\ course' = [course EXCEPT
               !.students = Append(@, [id |-> Line.id, name |-> Line.name, section |-> Section, scores |-> <<>>]),
               !.sections[Section].roster = Append(@, Student + 1)]
    BY <1>4 DEF ReadStudent
  <2>2. PICK l : l = Line /\ l.kw = "STUDENT"
    BY <1>4, LineReads DEF NumInv
  <2>3. PICK i, m, t, e : i = l.id /\ m = l.name /\ t = Section /\ e = Student + 1
    OBVIOUS
  <2>4. PICK x : x = [id |-> i, name |-> m, section |-> t, scores |-> <<>>]
    OBVIOUS
  <2>5. x.id = l.id /\ x.name = l.name /\ x.scores = <<>>
    BY ONLY <2>3, <2>4
  <2>6. PICK u : u = Append(sts, x)
    OBVIOUS
  <2>7. PICK v : v = [ss EXCEPT ![t].roster = Append(@, e)]
    OBVIOUS
  <2>8. course' = [course EXCEPT !.students = u, !.sections = v]
    <3>1. course' = [course EXCEPT !.students = Append(@, x), !.sections[t].roster = Append(@, e)]
      BY ONLY <2>1, <2>2, <2>3, <2>4
    <3> QED
      BY ONLY <1>0, <1>1, <2>6, <2>7, <3>1
  <2>9. course'.sections = v /\ course'.assignments = course.assignments /\ course'.students = u
    BY ONLY <1>0, <2>8
  <2>10. DOMAIN v = DOMAIN ss
    BY ONLY <2>7
  <2>11. ASSUME NEW s \in DOMAIN ss PROVE v[s].name = ss[s].name
    <3>1. PICK o, r, p : o = ss[s] /\ r = Append(o.roster, e) /\ p = [o EXCEPT !.roster = r]
      OBVIOUS
    <3>2. v[s] = o \/ v[s] = p
      BY ONLY <2>7, <3>1, s \in DOMAIN ss
    <3>3. p.name = o.name
      <4>1. PICK X : Shape(course, X)
        BY DEF RunInv, BookInv, CourseOK
      <4>2. o \in ASection(X)
        BY <1>1, <3>1, <4>1, ShapeParts
      <4> QED
        BY ONLY <3>1, <4>2 DEF ASection
    <3> QED
      BY <3>1, <3>2, <3>3
  <2>12. Spoken(course) => Keeps(course, course', l)
    <3>1. ASSUME Spoken(course) PROVE Keeps(course, course', l)
      <4>1. PICK c, d : c = course /\ d = course'
        OBVIOUS
      <4>2. /\ Spoken(c) /\ NumbersOK(c) /\ Listed(c.students) /\ d.assignments = c.assignments
            /\ DOMAIN d.sections = DOMAIN c.sections
            /\ d.students = Append(c.students, x)
        BY <1>0, <1>1, <1>2, <2>6, <2>9, <2>10, <3>1, <4>1
      <4>3. \A s \in DOMAIN c.sections : d.sections[s].name = c.sections[s].name
        BY <1>1, <2>9, <2>11, <4>1
      <4>4. Keeps(c, d, l)
        BY ONLY <2>2, <2>5, <4>2, <4>3, StudentKept
      <4> QED
        BY <4>1, <4>4
    <3> QED
      BY <3>1
  <2>13. course'.students # <<>>
    <3>1. Len(u) = Len(sts) + 1 /\ Len(sts) \in Nat /\ Len(<<>>) = 0
      BY <1>2, <2>6, ListedMore, LenProperties DEF Listed
    <3>2. u # <<>>
      BY ONLY <3>1
    <3> QED
      BY <2>9, <3>2
  <2> QED
    BY <1>4, <2>1, <2>2, <2>12, <2>13, TakeTold
<1> QED
  BY <1>3, <1>4

(* A score. *)
LEMMA ScoreTold ==
  ASSUME RunInv, NumInv, TextAt(parse.where, parse.errors, Flat, input.files, stack, course), course.students # <<>>, ReadScore
  PROVE  TextThen
<1>0. /\ course = [professor |-> course.professor, assignments |-> course.assignments, sections |-> course.sections,
                   students |-> course.students]
      /\ NumbersOK(course)
  BY CourseFields DEF RunInv, BookInv, NumInv
<1>1. PICK as, sts : as = course.assignments /\ sts = course.students
  OBVIOUS
<1>2. Listed(sts) /\ Listed(as)
  <2>1. PICK T : course.students \in Seq(T)
    BY CourseFields DEF RunInv, BookInv
  <2> QED
    BY <1>1, <2>1, SeqIsListed DEF RunInv, ReadInv, AssignmentsListed
<1>3. PICK named : named = {k \in DOMAIN as : as[k].name = Line.asgt}
  OBVIOUS
<1>4. CASE Token # "SCORE"
  BY <1>4, LeaveTold DEF ReadScore
<1>5. CASE Token = "SCORE" /\ named = {}
  <2>1. Leave("fatal") /\ parse.where = "score"
    BY <1>1, <1>3, <1>5 DEF ReadScore, Fatal
  <2> QED
    BY <2>1, LeaveTold
<1>6. CASE Token = "SCORE" /\ named # {}
  <2>1. PICK sc : /\ sc = [asgt |-> Min(named), how |-> Line.how, note |-> Line.note,
                           grade |-> IF Line.bad THEN 0 ELSE Line.grade]
                  /\ course' = [course EXCEPT !.students[Student].scores = Append(@, sc)]
                  /\ Take("score") /\ parse.where = "score"
    BY <1>1, <1>3, <1>6 DEF ReadScore
  <2>2. PICK l : l = Line /\ l.kw = "SCORE"
    BY <1>6, LineReads DEF NumInv
  <2>3. as[sc.asgt].name = l.asgt
    <3>1. DOMAIN as = 1..Len(as) /\ Len(as) \in Nat
      BY <1>2, SeqIsListed DEF Listed
    <3>2. \A k \in 1..Len(as) : k \in Nat
      BY <3>1
    <3>3. named \in SUBSET Nat
      BY ONLY <1>3, <3>1, <3>2
    <3>4. Min(named) \in named
      BY <1>6, <3>3, MinIn
    <3>5. sc.asgt = Min(named)
      BY ONLY <2>1
    <3> QED
      BY <1>3, <2>2, <3>4, <3>5
  <2>4. ~Line.bad => sc.grade = l.grade
    <3>1. PICK b, a, h, o, g : b = Line.bad /\ a = Min(named) /\ h = Line.how /\ o = Line.note /\ g = Line.grade
      OBVIOUS
    <3>2. sc.grade = IF b THEN 0 ELSE g
      BY ONLY <2>1, <3>1
    <3> QED
      BY <2>2, <3>1, <3>2
  <2>5. PICK m \in Nat : Len(sts) = m + 1 /\ DOMAIN sts = 1..(m + 1)
    <3>1. Len(sts) \in Nat /\ DOMAIN sts = 1..Len(sts) /\ sts \in Seq(Range(sts))
      BY <1>2, LenProperties DEF Listed
    <3>2. Len(sts) # 0
      <4>1. sts # <<>>
        BY <1>1
      <4> QED
        BY ONLY <3>1, <4>1
    <3>3. PICK m : m = Len(sts) - 1
      OBVIOUS
    <3>4. m \in Nat /\ Len(sts) = m + 1
      BY ONLY <3>1, <3>2, <3>3
    <3> QED
      BY ONLY <3>1, <3>4
  <2>6. PICK n, u : n = m + 1 /\ u = [sts EXCEPT ![n].scores = Append(@, sc)]
    OBVIOUS
  <2>7. Student = n
    BY <1>1, <2>5, <2>6 DEF Student
  <2>8. course' = [course EXCEPT !.students = u]
    BY ONLY <1>1, <2>1, <2>6, <2>7
  <2>9. course'.sections = course.sections /\ course'.assignments = course.assignments /\ course'.students = u
    BY ONLY <1>0, <2>8
  <2>10. PICK o, s, p : o = sts[n] /\ s = Append(o.scores, sc) /\ p = [o EXCEPT !.scores = s]
    OBVIOUS
  <2>11. n \in 1..(m + 1) /\ \A k \in 1..m : k \in 1..(m + 1) /\ k # n
    BY ONLY <2>6, m \in Nat
  <2>12. DOMAIN u = 1..(m + 1) /\ u[n] = p /\ \A k \in 1..m : u[k] = sts[k]
    BY ONLY <2>5, <2>6, <2>10, <2>11
  <2>13. p.id = o.id /\ p.name = o.name /\ p.scores = s
    <3>1. PICK X : Shape(course, X)
      BY DEF RunInv, BookInv, CourseOK
    <3>2. n \in DOMAIN sts
      BY <2>5, <2>11
    <3>3. o \in AStudent(X)
      BY <1>1, <2>10, <3>1, <3>2, ShapeParts
    <3> QED
      BY ONLY <2>10, <3>3 DEF AStudent
  <2>14. ASSUME Spoken(course), ~Line.bad PROVE Keeps(course, course', l)
    <3>1. PICK c, d : c = course /\ d = course'
      OBVIOUS
    <3>2. ScoreOf(c, sc) = [asgt |-> l.asgt, grade |-> l.grade]
      BY <1>1, <2>3, <2>4, <2>14, <3>1 DEF ScoreOf
    <3>3. /\ Spoken(c) /\ NumbersOK(c) /\ Listed(c.students) /\ d.assignments = c.assignments /\ d.sections = c.sections
          /\ Len(c.students) = m + 1 /\ DOMAIN d.students = 1..(m + 1)
      BY <1>0, <1>1, <1>2, <2>5, <2>9, <2>12, <2>14, <3>1
    <3>4. /\ o = c.students[m + 1] /\ p = d.students[m + 1] /\ p.scores = Append(o.scores, sc)
          /\ \A k \in 1..m : d.students[k] = c.students[k]
      <4>1. c.students = sts /\ d.students = u /\ n = m + 1
        BY <1>1, <2>6, <2>9, <3>1
      <4>2. o = sts[n] /\ p = u[n] /\ s = Append(o.scores, sc) /\ p.scores = s
        BY <2>10, <2>12, <2>13
      <4>3. \A k \in 1..m : u[k] = sts[k]
        BY <2>12
      <4> QED
        BY ONLY <4>1, <4>2, <4>3
    <3>5. p.id = o.id /\ p.name = o.name
      BY <2>13
    <3>6. l.kw = "SCORE"
      BY <2>2
    <3>7. Keeps(c, d, l)
      BY ONLY <3>2, <3>3, <3>4, <3>5, <3>6, m \in Nat, ScoreKept
    <3> QED
      BY <3>1, <3>7
  <2>15. course'.students # <<>>
    <3>1. DOMAIN u # {} /\ DOMAIN <<>> = {}
      BY ONLY <2>11, <2>12
    <3> QED
      BY <2>9, <3>1
  <2> QED
    BY <1>6, <2>1, <2>2, <2>14, <2>15, TakeTold
<1> QED
  BY <1>4, <1>5, <1>6

----------------------------------------------------------------------------
(* All is read *)

(* Where the files stay, so do their lines. *)
LEMMA FlatStays ==
  ASSUME input' = input
  PROVE  Flat' = Flat
BY DEF Flat

(* One step of the reader. *)
LEMMA ReadTold ==
  ASSUME RunInv, NumInv, TextInv, phase = "reading", Read
  PROVE  TextThen
<1>1. TextAt(parse.where, parse.errors, Flat, input.files, stack, course) /\ (parse.where = "score" => course.students # <<>>)
  BY DEF TextInv
<1>2. CASE ReadCourse \/ ReadProfessor
  BY <1>1, <1>2, HeadTold
<1>3. CASE ReadAssignment \/ ReadOption
  BY <1>1, <1>3, AssignmentTold
<1>4. CASE ReadSection \/ ReadAssistant
  BY <1>1, <1>4, SectionTold
<1>5. CASE ReadStudent
  BY <1>1, <1>5, StudentTold
<1>6. CASE ReadScore
  <2>1. parse.where = "score"
    BY <1>6 DEF ReadScore
  <2> QED
    BY <1>1, <1>6, <2>1, ScoreTold
<1>7. CASE ExpectEof
  BY <1>1, <1>7, EofTold
<1> QED
  BY <1>2, <1>3, <1>4, <1>5, <1>6, <1>7 DEF Read

TextBegun == AnInput(input) /\ stack = AtStart /\ parse = Begun /\ course = NoCourse

(* Nothing is read at the start of a run. *)
LEMMA TextBegins == TextBegun => TextInv
<1> SUFFICES ASSUME TextBegun PROVE TextInv
  OBVIOUS
<1>1. PICK h : Levels(h, input.files, MaxOpen) /\ Flat = h[MaxOpen][Main]
  BY FlatIs
<1>2. (\A f \in DOMAIN input.files : Lines(input.files[f])) /\ Main \in DOMAIN input.files
  BY DEF AnInput, TextBegun
<1>3. Tracks(h[MaxOpen][Main], input.files, AtStart, NoCourse)
  BY <1>1, <1>2, TracksBegin
<1>4. Tracks(Flat, input.files, stack, course)
  BY <1>1, <1>3 DEF TextBegun
<1>5. parse.where = "course"
  BY DEF Begun, TextBegun
<1> QED
  BY <1>4, <1>5 DEF TextInv, TextAt

(* So it is in the first state. *)
LEMMA TextInit == Init => TextInv
<1>1. Init => AnInput(input)
  BY NumInit DEF NumInv
<1> QED
  BY <1>1, TextBegins DEF Init, TextBegun

(* Every step keeps what is known of the lines. *)
LEMMA TextStep ==
  ASSUME RunInv, NumInv, NumInv', TextInv, [Next]_vars
  PROVE  TextInv'
<1>1. CASE UNCHANGED <<input, stack, parse, course>> /\ (phase' \in {"options", "reading"} => phase \in {"options", "reading"})
  <2>1. Flat' = Flat
    BY <1>1, FlatStays
  <2> QED
    BY <1>1, <2>1 DEF TextInv
<1>2. CASE UNCHANGED vars \/ Options \/ GiveUp
  BY <1>1, <1>2 DEF vars, readerVars, bookVars, Options, GiveUp
<1>3. CASE Reading
  <2>1. phase = "reading" /\ Read
    BY <1>3 DEF Reading
  <2>2. input' = input
    BY <2>1, ReadOpens DEF NumInv
  <2>3. Flat' = Flat
    BY <2>2, FlatStays
  <2>4. TextThen
    BY <2>1, ReadTold
  <2> QED
    BY <2>2, <2>3, <2>4 DEF TextThen, TextInv
<1>4. CASE Statistics \/ Normalize \/ Composites \/ CheckForDups \/ Collate \/ Report \/ FreeCourse
  <2>1. phase' \notin {"options", "reading"}
    BY <1>4 DEF Statistics, Normalize, Composites, CheckForDups, Collate, Report, FreeCourse
  <2> QED
    BY <2>1 DEF TextInv
<1>5. CASE SortRoster \/ SortTable \/ Relink
  <2>1. phase' = phase /\ phase \in {"sort", "sortby"}
    BY <1>5 DEF SortRoster, SortTable, Relink, RunInv, BookInv, SortingOK
  <2> QED
    BY <2>1 DEF TextInv
<1>6. CASE RunAgain
  <2>1. TextBegun'
    BY <1>6 DEF RunAgain, NumInv, TextBegun
  <2> QED
    BY <2>1, TextBegins, PTL
<1> QED
  BY <1>2, <1>3, <1>4, <1>5, <1>6 DEF Next

(* In every state of every run, when the reader is done without an error the *)
(* course has every assignment, section, student and score of all the files, *)
(* in the order of their lines, unless there is a line of blanks (read.c).   *)
THEOREM AllIsRead == Spec => []ReadsAll
<1>1. Init => RunInv /\ NumInv /\ TextInv
  BY RunInit, NumInit, TextInit
<1>2. RunInv /\ NumInv /\ TextInv /\ [Next]_vars => RunInv' /\ NumInv' /\ TextInv'
  BY RunStep, NumStep, TextStep
<1>3. TextInv => ReadsAll
  <2> SUFFICES ASSUME TextInv, phase = "reading", parse.where = "done", ~parse.errors
               PROVE  (\E l \in Range(Flat) : l.kw = "") \/ \A what \in Told : Said(what, Flat) = Kept(what)
    BY DEF ReadsAll
  <2>1. TextAt(parse.where, parse.errors, Flat, input.files, stack, course)
    BY DEF TextInv
  <2>2. HasBlank(Flat) \/ AllKept(Flat, course)
    BY <2>1 DEF TextAt
  <2>3. CASE HasBlank(Flat)
    BY <2>3 DEF HasBlank
  <2>4. CASE AllKept(Flat, course)
    BY <2>4, KeptIs DEF AllKept
  <2> QED
    BY <2>2, <2>3, <2>4
<1> QED
  BY <1>1, <1>2, <1>3, PTL DEF Spec
==============================================================================
