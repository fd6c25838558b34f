------------------------------ MODULE SfmmProofs ------------------------------
(***************************************************************************)
(* Proofs about the allocator of Sfmm, for any size of a page, any number  *)
(* of pages, any requests and any contents.                                *)
(***************************************************************************)
EXTENDS Sfmm, FiniteSetTheorems, NaturalsInduction, WellFoundedInduction, TLAPS

(* The blocks of A lie side by side from the prologue to the epilogue e. *)
Tiles(m, A, e) ==
  /\ First \in A /\ A \subseteq First..(e - 1)
  /\ \A b \in A : /\ m[b].sz % 2 = 0 /\ m[b].sz >= 4
                  /\ b + m[b].sz \in A \cup {e}
                  /\ \A c \in A : b < c => b + m[b].sz <= c

(* The blocks of L are marked as allocated, those of B as free, in front and *)
(* behind; and a block is not told that the one before it is free if it is   *)
(* not.                                                                     *)
Marked(m, L, B) ==
  /\ \A b \in L : m[b].al = 1 /\ m[b].rq < m[b].sz
  /\ \A b \in B : m[b].al = 0 /\ m[b + m[b].sz - 1].sz = m[b].sz
  /\ \A b \in L \cup B : m[b].pal = 0 => \E p \in B : p + m[p].sz = b

Blocks(m, L, B, e) ==
  /\ m \in [Addr -> Info] /\ e \in Addr /\ L \cap B = {}
  /\ Tiles(m, L \cup B, e) /\ Marked(m, L, B)

(* Two free blocks side by side: the second takes the first for allocated.   *)
Apart(m, F) == \A b \in F : b + m[b].sz \in F => m[b + m[b].sz].pal = 1

(* The list of size s: its sentinel and the blocks of F of that size. *)
ListOf(m, F, s) == {b \in F : m[b].sz = s} \cup {-s}

(* The lists hold the blocks of F, each in the list of its size: what comes  *)
(* next in a list comes from it, and neither way there is a circle of blocks *)
(* without the sentinel.                                                    *)
Linked(m, n, p, l, F) ==
  /\ n \in [Pointer -> Pointer] /\ p \in [Pointer -> Pointer] /\ l \subseteq 1..End
  /\ \A b \in F : m[b].sz \in l
  /\ \A s \in l : \A x \in ListOf(m, F, s) :
       n[x] \in ListOf(m, F, s) /\ p[x] \in ListOf(m, F, s) /\ p[n[x]] = x /\ n[p[x]] = x
  /\ \A S \in SUBSET F : S # {} => (\E b \in S : n[b] \notin S) /\ (\E b \in S : p[b] \notin S)

----------------------------------------------------------------------------
(* Numbers *)

(* A set of numbers that is not empty has a least member. *)
LEMMA LeastNumber ==
  ASSUME NEW T \in SUBSET Nat, T # {}
  PROVE  \E x \in T : \A y \in T : x <= y
<1> DEFINE Less == OpToRel(<, Nat)
<1>1. PICK x \in T : \A y \in T : ~(<<y, x>> \in Less)
  BY NatLessThanWellFounded, WFMin
<1>2. ASSUME NEW y \in T PROVE x <= y
  <2>1. ~(<<y, x>> \in Less)
    BY <1>1
  <2>2. x \in Nat /\ y \in Nat
    OBVIOUS
  <2>3. y < x => <<y, x>> \in Less
    BY <2>2 DEF OpToRel
  <2>4. ~(y < x)
    BY <2>1, <2>3
  <2> QED
    BY <2>2, <2>4
<1> QED
  BY <1>2

(* The size of the heap, and where its last word is. *)
LEMMA HeapSize ==
  /\ W \in Nat /\ W % 2 = 0 /\ W > 10 /\ Pages \in Nat /\ End \in Nat /\ End >= 11
  /\ \A g \in 1..Pages : W * g - 1 \in Addr /\ W * g - 1 >= W - 1
  /\ \A g \in 1..(Pages - 1) : W * (g + 1) - 1 = (W * g - 1) + W
<1>1. W \in Nat /\ W % 2 = 0 /\ W > 10 /\ Pages \in Nat \ {0}
  BY SfmmAssumption
<1>2. \A g \in 1..Pages : \E k \in Nat : Pages = g + k
  <2> TAKE g \in 1..Pages
  <2>1. Pages - g \in Nat /\ Pages = g + (Pages - g)
    BY <1>1
  <2> QED
    BY <2>1
<1>3. \A g \in 1..Pages : W * g \in Nat /\ W <= W * g /\ W * g <= End
  <2> TAKE g \in 1..Pages
  <2>1. PICK k \in Nat : Pages = g + k
    BY <1>2
  <2>2. W * Pages = W * g + W * k
    BY <1>1, <2>1
  <2>3. W * k \in Nat /\ W * g \in Nat
    BY <1>1
  <2>4. g - 1 \in Nat /\ W * g = W + W * (g - 1)
    BY <1>1
  <2>5. W * (g - 1) \in Nat
    BY <1>1, <2>4
  <2> QED
    BY <1>1, <2>2, <2>3, <2>4, <2>5 DEF End
<1>4. End \in Nat /\ End >= 11
  BY <1>1, <1>3 DEF End
<1>5. \A g \in 1..Pages : W * g - 1 \in Addr /\ W * g - 1 >= W - 1
  <2> TAKE g \in 1..Pages
  <2> DEFINE x == W * g
  <2>1. x \in Nat /\ W <= x /\ x <= End
    BY <1>3
  <2> HIDE DEF x
  <2>2. x - 1 \in Addr /\ x - 1 >= W - 1
    BY <1>1, <1>4, <2>1 DEF Addr
  <2> QED
    BY <2>2 DEF x
<1>6. \A g \in 1..(Pages - 1) : W * (g + 1) - 1 = (W * g - 1) + W
  <2> TAKE g \in 1..(Pages - 1)
  <2>1. W * (g + 1) = W * g + W /\ W * g \in Nat
    BY <1>1
  <2> QED
    BY <1>1, <2>1
<1> QED
  BY <1>1, <1>4, <1>5, <1>6

----------------------------------------------------------------------------
(* Blocks *)

(* Blocks do not overlap, and lie between the prologue and the epilogue.     *)
LEMMA Spans ==
  ASSUME NEW m \in [Addr -> Info], NEW A, NEW e \in Addr, Tiles(m, A, e)
  PROVE  /\ \A b \in A : /\ b \in Addr /\ b >= First /\ m[b] \in Info /\ m[b].sz \in Nat /\ m[b].sz >= 4
                         /\ b + m[b].sz <= e
         /\ \A b, c \in A : b < c => b + m[b].sz <= c
         /\ \A b \in A, c \in A \cup {e} : b < c => b + m[b].sz <= c
<1>1. e \in Nat /\ e < End /\ End \in Nat
  BY HeapSize DEF Addr
<1>2. ASSUME NEW b \in A
      PROVE  /\ b \in Addr /\ b >= First /\ m[b] \in Info /\ m[b].sz \in Nat /\ m[b].sz >= 4
             /\ b + m[b].sz <= e
  <2>1. b \in First..(e - 1)
    BY DEF Tiles
  <2>2. b \in Addr
    BY <1>1, <2>1 DEF Addr, First
  <2>3. m[b] \in Info /\ m[b].sz \in Nat
    BY <1>1, <2>2 DEF Info
  <2>4. b + m[b].sz \in A \cup {e} /\ m[b].sz >= 4
    BY DEF Tiles
  <2>5. b + m[b].sz <= e
    <3>1. CASE b + m[b].sz = e
      BY <1>1, <3>1
    <3>2. CASE b + m[b].sz \in A
      <4>1. b + m[b].sz \in First..(e - 1)
        BY <3>2 DEF Tiles
      <4> QED
        BY <1>1, <4>1
    <3> QED
      BY <2>4, <3>1, <3>2
  <2> QED
    BY <1>1, <2>1, <2>2, <2>3, <2>4, <2>5
<1>3. \A b, c \in A : b < c => b + m[b].sz <= c
  BY DEF Tiles
<1> QED
  BY <1>2, <1>3

(* Every block but the first, and the epilogue, has one before it. *)
LEMMA Previous ==
  ASSUME NEW m \in [Addr -> Info], NEW A, NEW e \in Addr, Tiles(m, A, e),
         NEW x \in A \cup {e}, x # First
  PROVE  \E b \in A : b + m[b].sz = x
<1> PICK T : T = {x - c : c \in {y \in A : y < x}}
  OBVIOUS
<1>1. e \in Nat /\ First \in A /\ First < e /\ \A b \in A : b \in Nat /\ b >= First /\ b < e
  BY HeapSize DEF Addr, Tiles, First
<1>2. x \in Nat /\ First < x
  BY <1>1 DEF First
<1>3. T \in SUBSET Nat /\ T # {}
  BY <1>1, <1>2
<1>4. PICK t \in T : \A u \in T : t <= u
  BY <1>3, LeastNumber
<1>5. PICK b \in A : b < x /\ t = x - b
  OBVIOUS
<1>6. b + m[b].sz <= x /\ b + m[b].sz \in A \cup {e} /\ m[b].sz \in Nat /\ m[b].sz >= 4
  <2>1. /\ \A c \in A : m[c].sz \in Nat /\ m[c].sz >= 4
        /\ \A c \in A, d \in A \cup {e} : c < d => c + m[c].sz <= d
    BY ONLY Zenon, m \in [Addr -> Info], e \in Addr, Tiles(m, A, e), Spans
  <2>2. \A c \in A : c + m[c].sz \in A \cup {e}
    BY DEF Tiles
  <2> QED
    BY ONLY Zenon, <1>5, <2>1, <2>2, x \in A \cup {e}
<1>7. CASE b + m[b].sz < x
  <2>1. b + m[b].sz \in A
    BY <1>1, <1>2, <1>6, <1>7
  <2>2. x - (b + m[b].sz) \in T
    BY <1>7, <2>1
  <2>3. t <= x - (b + m[b].sz)
    BY <1>4, <2>2
  <2>4. PICK z \in Nat : z = m[b].sz
    BY <1>6
  <2>5. z >= 4 /\ b \in Nat /\ x - b <= x - (b + z)
    BY <1>1, <1>5, <1>6, <2>3, <2>4
  <2>6. FALSE
    BY <1>2, <2>5
  <2> QED
    BY <2>6
<1> QED
  BY <1>1, <1>2, <1>6, <1>7

----------------------------------------------------------------------------
(* Lists *)

(* Sentinels are no addresses, and each has one size. *)
LEMMA Names ==
  /\ Addr \subseteq Pointer /\ Null \in Pointer /\ Null \notin Addr
  /\ \A s \in 1..End : -s \in Pointer /\ -s \notin Addr /\ -s # Null
  /\ \A s, t \in 1..End : -s = -t => s = t
  /\ Zero \in Info /\ Zero.al = 0 /\ Zero.sz = 0
<1>1. End \in Nat /\ End >= 11
  BY HeapSize
<1> QED
  BY <1>1 DEF Addr, Pointer, Null, Zero, Word, Info, Bit

(* What is linked in both directions goes on if only sizes of other blocks   *)
(* change.                                                                   *)
LEMMA LinkedSame ==
  ASSUME NEW m, NEW m2, NEW n, NEW p, NEW l, NEW F, Linked(m, n, p, l, F),
         \A b \in F : m2[b].sz = m[b].sz
  PROVE  Linked(m2, n, p, l, F)
<1>1. \A s \in l : ListOf(m2, F, s) = ListOf(m, F, s)
  BY DEF ListOf
<1> QED
  BY <1>1 DEF Linked

(* A set of members of a list with the sentinel that next pointers do not    *)
(* leave has all members of the list.                                        *)
LEMMA WholeList ==
  ASSUME NEW m, NEW n, NEW p, NEW l, NEW F \in SUBSET Addr, Linked(m, n, p, l, F),
         NEW s \in l, NEW T, -s \in T, \A x \in T : n[x] \in T
  PROVE  ListOf(m, F, s) \subseteq T
<1> PICK S : S = ListOf(m, F, s) \ T
  OBVIOUS
<1>1. S \subseteq F
  BY DEF ListOf
<1>2. ASSUME NEW b \in S, p[b] \notin S PROVE FALSE
  <2>1. p[b] \in ListOf(m, F, s) /\ n[p[b]] = b
    BY DEF Linked
  <2>2. p[b] \in T
    BY <1>2, <2>1
  <2> QED
    BY <2>1, <2>2
<1>3. S = {}
  BY <1>1, <1>2 DEF Linked
<1> QED
  BY <1>3

(* A list of which all is taken out. *)
LEMMA Cleared ==
  ASSUME NEW m, NEW n, NEW p, NEW l, NEW F \in SUBSET Addr, Linked(m, n, p, l, F),
         NEW s \in l, NEW n2 \in [Pointer -> Pointer], NEW p2 \in [Pointer -> Pointer],
         n2[-s] = -s, p2[-s] = -s,
         \A x \in Pointer : x # -s => n2[x] = n[x] /\ p2[x] = p[x]
  PROVE  Linked(m, n2, p2, l, {b \in F : m[b].sz # s})
<1> PICK G : G = {b \in F : m[b].sz # s}
  OBVIOUS
<1>1. l \subseteq 1..End
  BY DEF Linked
<1>2. ListOf(m, G, s) = {-s}
  BY DEF ListOf
<1>3. \A t \in l \ {s} : ListOf(m, G, t) = ListOf(m, F, t) /\ -s \notin ListOf(m, F, t)
                         /\ ListOf(m, F, t) \subseteq Pointer
  BY <1>1, Names DEF ListOf
<1>4. \A t \in l : \A x \in ListOf(m, G, t) :
        n2[x] \in ListOf(m, G, t) /\ p2[x] \in ListOf(m, G, t) /\ p2[n2[x]] = x /\ n2[p2[x]] = x
  <2> TAKE t \in l
  <2>1. CASE t = s
    BY <1>2, <2>1
  <2>2. CASE t # s
    <3> TAKE x \in ListOf(m, G, t)
    <3>1. x \in ListOf(m, F, t) /\ x \in Pointer /\ x # -s
      BY <1>3, <2>2
    <3>2. n[x] \in ListOf(m, F, t) /\ p[x] \in ListOf(m, F, t) /\ p[n[x]] = x /\ n[p[x]] = x
      BY <3>1 DEF Linked
    <3>3. n[x] \in Pointer /\ n[x] # -s /\ p[x] \in Pointer /\ p[x] # -s
      BY <1>3, <2>2, <3>2
    <3> QED
      BY <1>3, <2>2, <3>1, <3>2, <3>3
  <2> QED
    BY <2>1, <2>2
<1>5. \A S \in SUBSET G : S # {} => (\E b \in S : n2[b] \notin S) /\ (\E b \in S : p2[b] \notin S)
  <2>1. \A b \in G : n2[b] = n[b] /\ p2[b] = p[b]
    BY <1>1, Names
  <2> TAKE S \in SUBSET G
  <2>2. S \subseteq F
    OBVIOUS
  <2>3. S # {} => (\E b \in S : n[b] \notin S) /\ (\E b \in S : p[b] \notin S)
    BY <2>2 DEF Linked
  <2> QED
    BY <2>1, <2>3
<1>6. \A b \in G : m[b].sz \in l
  BY DEF Linked
<1> QED
  BY <1>1, <1>4, <1>5, <1>6 DEF Linked

(* A block that is put in front of the list of its size, which is new if     *)
(* there was none.                                                           *)
LEMMA Inserted ==
  ASSUME NEW m, NEW n, NEW p, NEW l, NEW F \in SUBSET Addr, Linked(m, n, p, l, F),
         NEW b \in Addr, b \notin F, NEW s \in 1..End, m[b].sz = s,
         NEW first, first = IF s \in l THEN n[-s] ELSE -s,
         NEW n2 \in [Pointer -> Pointer], NEW p2 \in [Pointer -> Pointer],
         \A x \in Pointer : n2[x] = IF x = -s THEN b ELSE IF x = b THEN first ELSE n[x],
         \A x \in Pointer : p2[x] = IF x = first THEN b
                                    ELSE IF x = -s THEN (IF s \in l THEN p[-s] ELSE -s)
                                    ELSE IF x = b THEN -s ELSE p[x]
  PROVE  Linked(m, n2, p2, l \cup {s}, F \cup {b})
<1> PICK G : G = F \cup {b}
  OBVIOUS
<1> PICK old : old = ListOf(m, F, s)
  OBVIOUS
<1>1. l \subseteq 1..End /\ b \in Pointer /\ -s \in Pointer /\ b # -s /\ F \subseteq Pointer /\ -s \notin F
  BY Names DEF Linked
<1>2. ListOf(m, G, s) = old \cup {b} /\ b \notin old /\ -s \in old /\ old \subseteq Pointer
  BY <1>1 DEF ListOf
<1>3. \A t \in l \ {s} : /\ ListOf(m, G, t) = ListOf(m, F, t) /\ -s \notin ListOf(m, F, t)
                         /\ b \notin ListOf(m, F, t)
                         /\ ListOf(m, F, t) \subseteq Pointer /\ ListOf(m, F, t) \cap old = {}
  BY <1>1, Names DEF ListOf
<1> DEFINE Good(x) ==
      n2[x] \in old \cup {b} /\ p2[x] \in old \cup {b} /\ p2[n2[x]] = x /\ n2[p2[x]] = x
<1>4. ASSUME s \in l PROVE \A x \in old \cup {b} : Good(x)
  <2>1. first \in old /\ p[first] = -s /\ first = n[-s]
    BY <1>2, <1>4 DEF Linked
  <2>2. \A x \in old : n[x] \in old /\ p[x] \in old /\ p[n[x]] = x /\ n[p[x]] = x
    BY <1>4 DEF Linked
  <2>3. ASSUME NEW x \in old \cup {b}
        PROVE  Good(x)
    <3>1. CASE x = b
      BY <1>1, <1>2, <2>1, <3>1
    <3>2. CASE x = -s
      <4>1. n2[x] = b /\ p2[b] = -s
        BY <1>1, <1>2, <2>1, <3>2
      <4>2. CASE first = -s
        BY <1>1, <1>2, <2>1, <3>2, <4>1, <4>2
      <4>3. CASE first # -s
        <5>1. p2[x] = p[-s] /\ p[-s] \in old /\ n[p[-s]] = -s
          BY <1>1, <1>2, <1>4, <2>2, <3>2, <4>3
        <5>2. p[-s] # -s /\ p[-s] \in Pointer /\ p[-s] # b
          BY <1>2, <2>1, <4>3, <5>1
        <5> QED
          BY <3>2, <4>1, <5>1, <5>2
      <4> QED
        BY <4>2, <4>3
    <3>3. CASE x \in old /\ x # -s
      <4>1. x # b /\ x \in Pointer
        BY <1>2, <3>3
      <4>2. n2[x] = n[x] /\ n[x] \in old /\ p[n[x]] = x
        BY <2>2, <3>3, <4>1
      <4>3. n[x] # first /\ n[x] # b /\ n[x] \in Pointer
        BY <1>2, <2>1, <3>3, <4>2
      <4>4. p2[n2[x]] = x
        <5>1. p2[n[x]] = IF n[x] = -s THEN p[-s] ELSE p[n[x]]
          BY <1>4, <4>3
        <5> QED
          BY <4>2, <5>1
      <4>5. CASE x = first
        <5>1. p2[x] = b /\ n2[b] = first
          BY <1>1, <4>1, <4>5
        <5> QED
          BY <4>2, <4>4, <4>5, <5>1
      <4>6. CASE x # first
        <5>1. p2[x] = p[x] /\ p[x] \in old /\ n[p[x]] = x
          BY <2>2, <3>3, <4>1, <4>6
        <5>2. p[x] # -s /\ p[x] # b /\ p[x] \in Pointer
          BY <1>2, <2>1, <4>6, <5>1
        <5> QED
          BY <4>2, <4>4, <5>1, <5>2
      <4> QED
        BY <4>5, <4>6
    <3> QED
      BY <3>1, <3>2, <3>3
  <2> QED
    BY <2>3
<1>5. ASSUME s \notin l PROVE \A x \in old \cup {b} : Good(x)
  <2>1. old = {-s} /\ first = -s
    BY <1>5 DEF ListOf, Linked
  <2>2. n2[b] = -s /\ p2[b] = -s /\ n2[-s] = b /\ p2[-s] = b
    BY <1>1, <1>5, <2>1
  <2> QED
    BY <2>1, <2>2
<1> PICK L2 : L2 = old \cup {b}
  OBVIOUS
<1>6. \A x \in L2 : n2[x] \in L2 /\ p2[x] \in L2 /\ p2[n2[x]] = x /\ n2[p2[x]] = x
  BY <1>4, <1>5
<1>7. \A t \in l \ {s} : \A x \in ListOf(m, F, t) :
        /\ n2[x] \in ListOf(m, F, t) /\ p2[x] \in ListOf(m, F, t)
        /\ p2[n2[x]] = x /\ n2[p2[x]] = x
  <2> TAKE t \in l \ {s}
  <2> TAKE x \in ListOf(m, F, t)
  <2>1. /\ n[x] \in ListOf(m, F, t) /\ p[x] \in ListOf(m, F, t)
        /\ p[n[x]] = x /\ n[p[x]] = x
    BY DEF Linked
  <2>2. first \in old
    BY <1>2 DEF Linked
  <2>3. \A y \in ListOf(m, F, t) : n2[y] = n[y] /\ p2[y] = p[y]
    BY <1>3, <2>2
  <2> QED
    BY <2>1, <2>3
<1>8. \A t \in l \cup {s} : \A x \in ListOf(m, G, t) :
        n2[x] \in ListOf(m, G, t) /\ p2[x] \in ListOf(m, G, t) /\ p2[n2[x]] = x /\ n2[p2[x]] = x
  BY Zenon, <1>2, <1>3, <1>6, <1>7
<1>9. \A S \in SUBSET G : S # {} => (\E c \in S : n2[c] \notin S) /\ (\E c \in S : p2[c] \notin S)
  <2> TAKE S \in SUBSET G
  <2>1. CASE b \in S
    <3>1. p2[b] = -s \/ first = b
      BY <1>1
    <3>2. first \in old
      BY <1>2 DEF Linked
    <3>3. -s \notin S
      BY <1>1
    <3>4. p2[b] = -s
      BY <1>2, <3>1, <3>2
    <3>5. \E c \in S : n2[c] \notin S
      <4>1. CASE S = {b}
        <5>1. n2[b] = first
          BY <1>1
        <5> QED
          BY <1>2, <3>2, <4>1, <5>1
      <4>2. CASE S # {b}
        <5>1. S \ {b} \in SUBSET F /\ S \ {b} # {}
          BY <2>1, <4>2
        <5>2. PICK c \in S \ {b} : n[c] \notin S \ {b}
          BY <5>1 DEF Linked
        <5>3. c \in Pointer /\ c # b /\ c # -s /\ c \in F
          BY <1>1, <3>3, <5>1
        <5>4. n2[c] = n[c]
          BY <5>3
        <5>5. n[c] # b
          <6>1. m[c].sz \in l /\ c \in ListOf(m, F, m[c].sz)
            BY <5>3 DEF Linked, ListOf
          <6>2. n[c] \in ListOf(m, F, m[c].sz)
            BY <6>1 DEF Linked
          <6>3. b \notin ListOf(m, F, m[c].sz)
            BY ZenonT(60), <1>1, <6>1, Names DEF ListOf
          <6> QED
            BY <6>2, <6>3
        <5> QED
          BY <5>2, <5>4, <5>5
      <4> QED
        BY <4>1, <4>2
    <3> QED
      BY <2>1, <3>3, <3>4, <3>5
  <2>2. CASE b \notin S /\ S # {}
    <3>1. S \in SUBSET F
      BY <2>2
    <3>2. PICK c \in S : n[c] \notin S
      BY <2>2, <3>1 DEF Linked
    <3>3. PICK d \in S : p[d] \notin S
      BY <2>2, <3>1 DEF Linked
    <3>4. c \in Pointer /\ c # b /\ c # -s /\ d \in Pointer /\ d # b /\ d # -s
      BY <1>1, <2>2, <3>1
    <3>5. n2[c] = n[c] /\ (p2[d] = p[d] \/ p2[d] = b)
      BY <3>4
    <3> QED
      BY <2>2, <3>2, <3>3, <3>5
  <2> QED
    BY <2>1, <2>2
<1>10. \A c \in G : m[c].sz \in l \cup {s}
  BY DEF Linked
<1>11. n2 \in [Pointer -> Pointer] /\ p2 \in [Pointer -> Pointer] /\ l \cup {s} \subseteq 1..End
  BY <1>1 DEF Linked
<1>12. Linked(m, n2, p2, l \cup {s}, G)
  BY ONLY Zenon, <1>8, <1>9, <1>10, <1>11 DEF Linked
<1> QED
  BY Zenon, <1>12

(* A block that is taken out of its list. *)
LEMMA Removed ==
  ASSUME NEW m, NEW n, NEW p, NEW l, NEW F \in SUBSET Addr, Linked(m, n, p, l, F),
         NEW b \in F, NEW n2 \in [Pointer -> Pointer], NEW p2 \in [Pointer -> Pointer],
         \A x \in Pointer : n2[x] = IF x = b THEN Null ELSE IF x = p[b] THEN n[b] ELSE n[x],
         \A x \in Pointer : p2[x] = IF x = b THEN Null ELSE IF x = n[b] THEN p[b] ELSE p[x]
  PROVE  Linked(m, n2, p2, l, F \ {b})
<1> PICK G : G = F \ {b}
  OBVIOUS
<1> PICK s : s = m[b].sz
  OBVIOUS
<1> PICK old : old = ListOf(m, F, s)
  OBVIOUS
<1>1. l \subseteq 1..End /\ F \subseteq Pointer /\ s \in l /\ -s \in Pointer /\ -s \notin F
  BY Names DEF Linked
<1>2. ListOf(m, G, s) = old \ {b} /\ b \in old /\ -s \in old /\ old \subseteq Pointer /\ b # -s
  BY <1>1 DEF ListOf
<1>3. \A t \in l \ {s} : /\ ListOf(m, G, t) = ListOf(m, F, t) /\ b \notin ListOf(m, F, t)
                         /\ ListOf(m, F, t) \subseteq Pointer /\ ListOf(m, F, t) \cap old = {}
  <2> TAKE t \in l \ {s}
  <2>1. t \in 1..End /\ -t \in Pointer /\ -t \notin Addr /\ -s # -t /\ -s \notin Addr
    BY <1>1, Names
  <2>2. b # -t /\ ListOf(m, F, t) \subseteq Pointer
    BY <1>1, <2>1 DEF ListOf
  <2>3. ListOf(m, G, t) = ListOf(m, F, t) /\ b \notin ListOf(m, F, t)
    BY <2>2 DEF ListOf
  <2>4. \A x \in old : x \notin ListOf(m, F, t)
    BY <2>1 DEF ListOf
  <2> QED
    BY <2>2, <2>3, <2>4
<1>4. \A x \in old : n[x] \in old /\ p[x] \in old /\ p[n[x]] = x /\ n[p[x]] = x
  BY <1>1 DEF Linked
<1>5. n[b] # b /\ p[b] # b
  <2>1. {b} \in SUBSET F /\ {b} # {}
    OBVIOUS
  <2>2. (\E c \in {b} : n[c] \notin {b}) /\ (\E c \in {b} : p[c] \notin {b})
    BY <2>1 DEF Linked
  <2> QED
    BY <2>2
<1>6. \A x \in old \ {b} : /\ n2[x] \in old \ {b} /\ p2[x] \in old \ {b}
                           /\ p2[n2[x]] = x /\ n2[p2[x]] = x
  <2> TAKE x \in old \ {b}
  <2>1. /\ x \in Pointer /\ n[x] \in old /\ p[x] \in old /\ p[n[x]] = x /\ n[p[x]] = x
        /\ n[b] \in old /\ p[b] \in old /\ p[n[b]] = b /\ n[p[b]] = b
    BY <1>2, <1>4
  <2>2. n2[x] = (IF x = p[b] THEN n[b] ELSE n[x]) /\ p2[x] = (IF x = n[b] THEN p[b] ELSE p[x])
    BY <2>1
  <2>3. n2[x] \in old \ {b} /\ p2[n2[x]] = x
    <3>1. CASE x = p[b]
      <4>1. p2[n[b]] = p[b]
        BY <1>2, <1>5, <2>1
      <4> QED
        BY <1>5, <2>1, <2>2, <3>1, <4>1
    <3>2. CASE x # p[b]
      <4>1. n[x] # b /\ n[x] # n[b] /\ n[x] \in Pointer
        BY <1>2, <2>1, <3>2
      <4> QED
        BY <2>1, <2>2, <3>2, <4>1
    <3> QED
      BY <3>1, <3>2
  <2>4. p2[x] \in old \ {b} /\ n2[p2[x]] = x
    <3>1. CASE x = n[b]
      <4>1. n2[p[b]] = n[b]
        BY <1>2, <1>5, <2>1
      <4> QED
        BY <1>5, <2>1, <2>2, <3>1, <4>1
    <3>2. CASE x # n[b]
      <4>1. p[x] # b /\ p[x] # p[b] /\ p[x] \in Pointer
        BY <1>2, <2>1, <3>2
      <4> QED
        BY <2>1, <2>2, <3>2, <4>1
    <3> QED
      BY <3>1, <3>2
  <2> QED
    BY <2>3, <2>4
<1>7. \A t \in l \ {s} : \A x \in ListOf(m, F, t) :
        /\ n2[x] \in ListOf(m, F, t) /\ p2[x] \in ListOf(m, F, t)
        /\ p2[n2[x]] = x /\ n2[p2[x]] = x
  <2> TAKE t \in l \ {s}
  <2> TAKE x \in ListOf(m, F, t)
  <2>1. /\ n[x] \in ListOf(m, F, t) /\ p[x] \in ListOf(m, F, t)
        /\ p[n[x]] = x /\ n[p[x]] = x
    BY DEF Linked
  <2>2. n[b] \in old /\ p[b] \in old
    BY <1>2, <1>4
  <2>3. \A y \in ListOf(m, F, t) : n2[y] = n[y] /\ p2[y] = p[y]
    BY <1>3, <2>2
  <2> QED
    BY <2>1, <2>3
<1>8. \A t \in l : \A x \in ListOf(m, G, t) :
        n2[x] \in ListOf(m, G, t) /\ p2[x] \in ListOf(m, G, t) /\ p2[n2[x]] = x /\ n2[p2[x]] = x
  BY ZenonT(60), <1>2, <1>3, <1>6, <1>7
<1>9. ASSUME NEW S \in SUBSET G, S # {}
      PROVE  (\E c \in S : n2[c] \notin S) /\ (\E c \in S : p2[c] \notin S)
  <2>1. S \in SUBSET F /\ b \notin S /\ S \cup {b} \in SUBSET F /\ S \subseteq Pointer
    BY <1>1
  <2>2. \A c \in S : /\ n2[c] = IF c = p[b] THEN n[b] ELSE n[c]
                     /\ p2[c] = IF c = n[b] THEN p[b] ELSE p[c]
    BY <2>1
  <2>3. p[n[b]] = b /\ n[p[b]] = b
    BY <1>2, <1>4
  <2>4. PICK c \in S \cup {b} : n[c] \notin S \cup {b}
    BY <2>1 DEF Linked
  <2>5. PICK d \in S \cup {b} : p[d] \notin S \cup {b}
    BY <2>1 DEF Linked
  <2>6. PICK c1 \in S : n[c1] \notin S
    BY <1>9, <2>1 DEF Linked
  <2>7. PICK d1 \in S : p[d1] \notin S
    BY <1>9, <2>1 DEF Linked
  <2>8. \E x \in S : n2[x] \notin S
    <3>1. CASE p[b] \notin S
      BY <2>2, <2>6, <3>1
    <3>2. CASE p[b] \in S /\ c = b
      BY <2>2, <2>4, <3>2
    <3>3. CASE p[b] \in S /\ c # b
      <4>1. c \in S /\ c # p[b]
        BY <2>3, <2>4, <3>3
      <4> QED
        BY <2>2, <2>4, <4>1
    <3> QED
      BY <3>1, <3>2, <3>3
  <2>9. \E x \in S : p2[x] \notin S
    <3>1. CASE n[b] \notin S
      BY <2>2, <2>7, <3>1
    <3>2. CASE n[b] \in S /\ d = b
      BY <2>2, <2>5, <3>2
    <3>3. CASE n[b] \in S /\ d # b
      <4>1. d \in S /\ d # n[b]
        BY <2>3, <2>5, <3>3
      <4> QED
        BY <2>2, <2>5, <4>1
    <3> QED
      BY <3>1, <3>2, <3>3
  <2> QED
    BY <2>8, <2>9
<1>10. \A c \in G : m[c].sz \in l
  BY DEF Linked
<1> QED
  BY <1>1, <1>8, <1>9, <1>10 DEF Linked

----------------------------------------------------------------------------
(* The fields of a heap after the operations *)

(* What a heap is. *)
Damages == {"none", "unlink", "abort", "extend", "realloc"}
HeapType == [mem : [Addr -> Info], nxt : [Pointer -> Pointer], prv : [Pointer -> Pointer],
             lists : SUBSET (1..End), pages : 0..Pages, damage : Damages]

(* Nothing is changed but pointers, words and sizes that have a list. *)
Rest(h, g) == g \in HeapType /\ g.pages = h.pages /\ g.damage = h.damage

(* A pointer, a word or the sizes are changed. *)
SetNext(h, x, v) == [h EXCEPT !.nxt[x] = v]
SetPrev(h, x, v) == [h EXCEPT !.prv[x] = v]
SetWord(h, a, w) == [h EXCEPT !.mem[a] = w]
SetLists(h, l)   == [h EXCEPT !.lists = l]

(* Nothing else is. *)
PutNext(h, g, x, v) ==
  Rest(h, g) /\ g.lists = h.lists /\ g.mem = h.mem /\ g.prv = h.prv /\ g.nxt = [h.nxt EXCEPT ![x] = v]
PutPrev(h, g, x, v) ==
  Rest(h, g) /\ g.lists = h.lists /\ g.mem = h.mem /\ g.nxt = h.nxt /\ g.prv = [h.prv EXCEPT ![x] = v]
PutWord(h, g, a, w) ==
  Rest(h, g) /\ g.lists = h.lists /\ g.nxt = h.nxt /\ g.prv = h.prv /\ g.mem = [h.mem EXCEPT ![a] = w]
PutLists(h, g, l) ==
  Rest(h, g) /\ g.lists = l /\ g.mem = h.mem /\ g.nxt = h.nxt /\ g.prv = h.prv

(* These do what they are called. *)
LEMMA Put ==
  ASSUME NEW h \in HeapType
  PROVE  /\ \A x, v \in Pointer : PutNext(h, SetNext(h, x, v), x, v)
         /\ \A x, v \in Pointer : PutPrev(h, SetPrev(h, x, v), x, v)
         /\ \A a \in Addr, w \in Info : PutWord(h, SetWord(h, a, w), a, w)
         /\ \A l \in SUBSET (1..End) : PutLists(h, SetLists(h, l), l)
<1>1. ASSUME NEW x \in Pointer, NEW v \in Pointer, NEW g, g = [h EXCEPT !.nxt[x] = v]
      PROVE  PutNext(h, g, x, v)
  BY <1>1 DEF PutNext, Rest, HeapType
<1>2. ASSUME NEW x \in Pointer, NEW v \in Pointer, NEW g, g = [h EXCEPT !.prv[x] = v]
      PROVE  PutPrev(h, g, x, v)
  BY <1>2 DEF PutPrev, Rest, HeapType
<1>3. ASSUME NEW a \in Addr, NEW w \in Info, NEW g, g = [h EXCEPT !.mem[a] = w]
      PROVE  PutWord(h, g, a, w)
  BY <1>3 DEF PutWord, Rest, HeapType
<1>4. ASSUME NEW l \in SUBSET (1..End), NEW g, g = [h EXCEPT !.lists = l]
      PROVE  PutLists(h, g, l)
  BY <1>4 DEF PutLists, Rest, HeapType
<1> QED
  BY <1>1, <1>2, <1>3, <1>4 DEF SetNext, SetPrev, SetWord, SetLists

(* insert_block *)
LEMMA InsertFields ==
  ASSUME NEW h \in HeapType, NEW b \in Addr, b + 1 \in Addr, b + 2 \in Addr,
         NEW s \in 1..End, h.mem[b].sz = s,
         NEW first, first = IF s \in h.lists THEN h.nxt[-s] ELSE -s,
         NEW g, g = InsertBlock(h, b)
  PROVE  /\ g \in HeapType
         /\ \A a \in Addr : g.mem[a] = IF a \in {b + 1, b + 2} THEN Zero ELSE h.mem[a]
         /\ \A x \in Pointer : g.nxt[x] = IF x = -s THEN b ELSE IF x = b THEN first ELSE h.nxt[x]
         /\ \A x \in Pointer : g.prv[x] = IF x = first THEN b
              ELSE IF x = -s THEN (IF s \in h.lists THEN h.prv[-s] ELSE -s)
              ELSE IF x = b THEN -s ELSE h.prv[x]
         /\ g.lists = h.lists \cup {s} /\ g.pages = h.pages /\ g.damage = h.damage
<1>0. b \in Pointer /\ -s \in Pointer /\ b # -s /\ Zero \in Info
  BY Names
<1>s. PICK t \in Pointer : t = -s
  BY <1>0
<1>1. PICK m \in [Addr -> Info], n \in [Pointer -> Pointer], p \in [Pointer -> Pointer] :
        m = h.mem /\ n = h.nxt /\ p = h.prv
  BY DEF HeapType
<1>2. first \in Pointer
  BY ONLY <1>1, <1>s, first = IF s \in h.lists THEN h.nxt[-s] ELSE -s
<1>v. PICK v \in Pointer : v = IF s \in h.lists THEN h.prv[-s] ELSE -s
  BY ONLY <1>1, <1>s
<1>c. PICK c, d : c = b + 1 /\ d = b + 2 /\ c \in Addr /\ d \in Addr
  OBVIOUS
<1>k1. PICK k1 : k1 = SetNext(h, b, first)
  BY Zenon
<1>k2. PICK k2 : k2 = SetPrev(k1, b, t)
  BY Zenon
<1>k3. PICK k3 : k3 = SetNext(k2, t, b)
  BY Zenon
<1>k4. PICK k4 : k4 = SetPrev(k3, t, v)
  BY Zenon
<1>k5. PICK k5 : k5 = SetPrev(k4, first, b)
  BY Zenon
<1>k6. PICK k6 : k6 = SetLists(k5, k5.lists \cup {s})
  BY Zenon
<1>k7. PICK k7 : k7 = SetWord(k6, c, Zero)
  BY Zenon
<1>k8. PICK k8 : k8 = SetWord(k7, d, Zero)
  BY Zenon
<1>3. g = k8
  <2>1. k4 = [h EXCEPT !.nxt[b] = first, !.prv[b] = -s, !.nxt[-s] = b,
                       !.prv[-s] = IF s \in h.lists THEN h.prv[-s] ELSE -s]
    BY ZenonT(60), <1>k1, <1>k2, <1>k3, <1>k4, <1>s, <1>v DEF SetNext, SetPrev
  <2>2. g = [k4 EXCEPT !.prv[first] = b, !.lists = @ \cup {s}, !.mem[b + 1] = Zero, !.mem[b + 2] = Zero]
    BY Zenon, <2>1 DEF InsertBlock
  <2>3. g = [[[k5 EXCEPT !.lists = @ \cup {s}] EXCEPT !.mem[b + 1] = Zero] EXCEPT !.mem[b + 2] = Zero]
    BY <2>2, <1>k5 DEF SetPrev
  <2>4. k6 = [k5 EXCEPT !.lists = @ \cup {s}]
    BY Zenon, <1>k6 DEF SetLists
  <2> QED
    BY Zenon, <2>3, <2>4, <1>k7, <1>k8, <1>c DEF SetWord
<1>4. PutNext(h, k1, b, first)
  BY ONLY <1>0, <1>2, <1>k1, h \in HeapType, Put
<1>5. k1 \in HeapType /\ PutPrev(k1, k2, b, t)
  <2>1. k1 \in HeapType
    BY ONLY <1>4 DEF PutNext, Rest
  <2> QED
    BY ONLY <1>0, <1>k2, t \in Pointer, <2>1, Put
<1>6. k2 \in HeapType /\ PutNext(k2, k3, t, b)
  <2>1. k2 \in HeapType
    BY ONLY <1>5 DEF PutPrev, Rest
  <2> QED
    BY ONLY <1>0, <1>k3, t \in Pointer, <2>1, Put
<1>7. k3 \in HeapType /\ PutPrev(k3, k4, t, v)
  <2>1. k3 \in HeapType
    BY ONLY <1>6 DEF PutNext, Rest
  <2> QED
    BY ONLY <1>k4, t \in Pointer, v \in Pointer, <2>1, Put
<1>8. k4 \in HeapType /\ PutPrev(k4, k5, first, b)
  <2>1. k4 \in HeapType
    BY ONLY <1>7 DEF PutPrev, Rest
  <2> QED
    BY ONLY <1>0, <1>2, <1>k5, <2>1, Put
<1>9. k5 \in HeapType /\ PutLists(k5, k6, k5.lists \cup {s})
  <2>1. k5 \in HeapType
    BY ONLY <1>8 DEF PutPrev, Rest
  <2>2. k5.lists \cup {s} \in SUBSET (1..End)
    BY ONLY <2>1, s \in 1..End DEF HeapType
  <2> QED
    BY ONLY <1>k6, <2>1, <2>2, Put
<1>10. k6 \in HeapType /\ PutWord(k6, k7, c, Zero)
  <2>1. k6 \in HeapType
    BY ONLY <1>9 DEF PutLists, Rest
  <2> QED
    BY ONLY <1>0, <1>c, <1>k7, <2>1, Put
<1>11. k7 \in HeapType /\ PutWord(k7, k8, d, Zero)
  <2>1. k7 \in HeapType
    BY ONLY <1>10 DEF PutWord, Rest
  <2> QED
    BY ONLY <1>0, <1>c, <1>k8, <2>1, Put
<1>12. g \in HeapType /\ g.lists = h.lists \cup {s} /\ g.pages = h.pages /\ g.damage = h.damage
  BY ONLY <1>3, <1>4, <1>5, <1>6, <1>7, <1>8, <1>9, <1>10, <1>11 DEF PutNext, PutPrev, PutLists, PutWord, Rest
<1>13. /\ g.mem = [[m EXCEPT ![c] = Zero] EXCEPT ![d] = Zero]
       /\ g.nxt = [[n EXCEPT ![b] = first] EXCEPT ![t] = b]
       /\ g.prv = [[[p EXCEPT ![b] = t] EXCEPT ![t] = v] EXCEPT ![first] = b]
  BY ONLY <1>1, <1>3, <1>4, <1>5, <1>6, <1>7, <1>8, <1>9, <1>10, <1>11 DEF PutNext, PutPrev, PutLists, PutWord
<1>14. \A a \in Addr : g.mem[a] = IF a \in {b + 1, b + 2} THEN Zero ELSE h.mem[a]
  BY ONLY <1>1, <1>c, <1>13
<1>15. \A x \in Pointer : g.nxt[x] = IF x = -s THEN b ELSE IF x = b THEN first ELSE h.nxt[x]
  BY ONLY <1>0, <1>1, <1>s, <1>13
<1>16. \A x \in Pointer : g.prv[x] = IF x = first THEN b
              ELSE IF x = -s THEN (IF s \in h.lists THEN h.prv[-s] ELSE -s)
              ELSE IF x = b THEN -s ELSE h.prv[x]
  BY ONLY <1>0, <1>1, <1>s, <1>v, <1>13
<1> QED
  BY ONLY <1>12, <1>14, <1>15, <1>16

(* The least of the listed sizes that are s or more is s if s is listed. *)
LEMMA LeastListed ==
  ASSUME NEW T \in SUBSET Nat, NEW s \in T
  PROVE  Min({t \in T : t >= s}) = s
<1>0. PICK U : U = {t \in T : t >= s}
  OBVIOUS
<1>1. s \in U /\ \A y \in U : s <= y /\ y \in Nat /\ s \in Nat
  BY <1>0
<1>2. Min(U) \in U /\ \A y \in U : Min(U) <= y
  BY <1>1 DEF Min
<1>3. PICK x : x = Min(U)
  OBVIOUS
<1>4. x \in Nat /\ s \in Nat /\ s <= x /\ x <= s
  BY <1>1, <1>2, <1>3
<1>5. x = s
  BY <1>4
<1> QED
  BY <1>0, <1>3, <1>5

(* delete_freeblock_from_freelist *)
LEMMA DeleteFields ==
  ASSUME NEW h \in HeapType, NEW b \in Pointer, NEW s \in h.lists, NEW g, g = DeleteFreeblock(h, b, s)
  PROVE  /\ g \in HeapType /\ g.mem = h.mem
         /\ \A x \in Pointer : g.nxt[x] = IF x = -s THEN h.nxt[b] ELSE h.nxt[x]
         /\ \A x \in Pointer : g.prv[x] = IF x = -s /\ h.nxt[b] = -s THEN -s ELSE h.prv[x]
         /\ g.lists = h.lists /\ g.pages = h.pages /\ g.damage = h.damage
<1>1. h.mem \in [Addr -> Info] /\ h.nxt \in [Pointer -> Pointer] /\ h.prv \in [Pointer -> Pointer]
      /\ h.lists \in SUBSET (1..End)
  BY DEF HeapType
<1>2. s \in 1..End /\ -s \in Pointer /\ h.nxt[b] \in Pointer
  BY <1>1, Names
<1>3. SearchFreelist(h, s) = s
  <2>1. End \in Nat /\ h.lists \in SUBSET Nat
    BY <1>1, HeapSize
  <2> QED
    BY <2>1, LeastListed DEF SearchFreelist
<1>4. g = [h EXCEPT !.nxt[-s] = h.nxt[b], !.prv[-s] = IF h.nxt[b] = -s THEN -s ELSE @]
  BY <1>3 DEF DeleteFreeblock
<1>5. /\ g.nxt = [h.nxt EXCEPT ![-s] = h.nxt[b]]
      /\ g.prv = [h.prv EXCEPT ![-s] = IF h.nxt[b] = -s THEN -s ELSE h.prv[-s]]
      /\ g.mem = h.mem /\ g.lists = h.lists /\ g.pages = h.pages /\ g.damage = h.damage
  BY <1>4 DEF HeapType
<1>6. g.nxt \in [Pointer -> Pointer] /\ g.prv \in [Pointer -> Pointer]
  BY <1>1, <1>2, <1>5
<1>7. g \in HeapType
  BY <1>4, <1>5, <1>6 DEF HeapType
<1>8. \A x \in Pointer : g.nxt[x] = IF x = -s THEN h.nxt[b] ELSE h.nxt[x]
  BY <1>1, <1>2, <1>5
<1>9. \A x \in Pointer : g.prv[x] = IF x = -s /\ h.nxt[b] = -s THEN -s ELSE h.prv[x]
  BY <1>1, <1>2, <1>5
<1> QED
  BY <1>5, <1>7, <1>8, <1>9

(* A word with another bit. *)
LEMMA WordBit ==
  ASSUME NEW w \in Info, NEW bit \in Bit, NEW v, v = [w EXCEPT !.pal = bit]
  PROVE  v \in Info /\ v.al = w.al /\ v.pal = bit /\ v.sz = w.sz /\ v.rq = w.rq
  BY DEF Info

(* The bit in a header, and in the word where its footer would be. *)
LEMMA SetPrevFields ==
  ASSUME NEW h \in HeapType, NEW y \in Addr, NEW bit \in Bit,
         y # Epilogue(h) => Foot(h, y) \in Addr,
         NEW g, g = SetPrevAllocated(h, y, bit)
  PROVE  /\ g \in HeapType /\ g.nxt = h.nxt /\ g.prv = h.prv
         /\ g.lists = h.lists /\ g.pages = h.pages /\ g.damage = h.damage
         /\ \A a \in Addr : g.mem[a] = IF y # Epilogue(h) /\ a \in {y, Foot(h, y)}
                                       THEN [h.mem[a] EXCEPT !.pal = bit] ELSE h.mem[a]
<1>1. CASE y = Epilogue(h)
  BY <1>1 DEF SetPrevAllocated
<1>2. CASE y # Epilogue(h)
  <2> PICK f \in Addr : f = Foot(h, y)
    BY <1>2
  <2>1. g = [h EXCEPT !.mem[y].pal = bit, !.mem[f].pal = bit]
    BY <1>2 DEF SetPrevAllocated
  <2>2. h.mem \in [Addr -> Info]
    BY DEF HeapType
  <2>3. /\ g.mem = [[h.mem EXCEPT ![y].pal = bit] EXCEPT ![f].pal = bit]
        /\ g.nxt = h.nxt /\ g.prv = h.prv
        /\ g.lists = h.lists /\ g.pages = h.pages /\ g.damage = h.damage
    BY <2>1 DEF HeapType
  <2> PICK m1 : m1 = [h.mem EXCEPT ![y].pal = bit]
    OBVIOUS
  <2>4. m1 \in [Addr -> Info] /\ \A a \in Addr : m1[a] = IF a = y THEN [h.mem[a] EXCEPT !.pal = bit] ELSE h.mem[a]
    BY <2>2, WordBit
  <2>5. g.mem = [m1 EXCEPT ![f].pal = bit]
    BY <2>3
  <2>6. g.mem \in [Addr -> Info]
    BY <2>4, <2>5, WordBit
  <2>7. \A a \in Addr : g.mem[a] = IF a = f THEN [m1[a] EXCEPT !.pal = bit] ELSE m1[a]
    BY <2>4, <2>5
  <2>8. \A a \in Addr : [[h.mem[a] EXCEPT !.pal = bit] EXCEPT !.pal = bit] = [h.mem[a] EXCEPT !.pal = bit]
    BY <2>2 DEF Info
  <2>9. \A a \in Addr : g.mem[a] = IF a \in {y, f} THEN [h.mem[a] EXCEPT !.pal = bit] ELSE h.mem[a]
    BY ZenonT(60), <2>4, <2>7, <2>8
  <2>10. g \in HeapType
    BY <2>1, <2>3, <2>6 DEF HeapType
  <2> QED
    BY <1>2, <2>3, <2>9, <2>10
<1> QED
  BY <1>1, <1>2

(* A header and a footer for a free block. *)
LEMMA MakeFreeFields ==
  ASSUME NEW h \in HeapType, NEW b \in Addr, NEW s \in 0..End, NEW pal \in Bit,
         s >= 4, b + s - 1 \in Addr, NEW g, g = MakeFree(h, b, s, pal)
  PROVE  /\ g \in HeapType /\ g.nxt = h.nxt /\ g.prv = h.prv
         /\ g.lists = h.lists /\ g.pages = h.pages /\ g.damage = h.damage
         /\ g.mem[b] = Word(0, pal, s, 0) /\ g.mem[b + s - 1] = Word(0, pal, s, 0)
         /\ \A a \in Addr : a \notin b..(b + s - 1) => g.mem[a] = h.mem[a]
<1>1. h.mem \in [Addr -> Info] /\ Zero \in Info /\ Word(0, pal, s, 0) \in Info
  BY Names, HeapSize DEF HeapType, Word, Info, Bit
<1>2. /\ g.mem = [[[h.mem EXCEPT ![b] = Word(0, pal, s, 0)] EXCEPT ![b + 1] = Zero]
                   EXCEPT ![b + s - 1] = Word(0, pal, s, 0)]
      /\ g.nxt = h.nxt /\ g.prv = h.prv
      /\ g.lists = h.lists /\ g.pages = h.pages /\ g.damage = h.damage
  BY DEF MakeFree, HeapType
<1> PICK w \in Info : w = Word(0, pal, s, 0)
  BY <1>1
<1>3. b \in Nat /\ s \in Nat /\ b # b + 1 /\ b # b + s - 1 /\ b + 1 # b + s - 1 /\ b + 1 \in b..(b + s - 1)
      /\ b \in b..(b + s - 1) /\ b + s - 1 \in b..(b + s - 1)
  BY HeapSize DEF Addr
<1> PICK f \in Addr : f = b + s - 1
  OBVIOUS
<1>4. g.mem = [[[h.mem EXCEPT ![b] = w] EXCEPT ![b + 1] = Zero] EXCEPT ![f] = w]
  BY <1>2
<1>5. g.mem \in [Addr -> Info]
  BY <1>1, <1>4
<1>6. g.mem[b] = w /\ g.mem[f] = w
  BY <1>1, <1>3, <1>4
<1>7. \A a \in Addr : a # b /\ a # b + 1 /\ a # f => g.mem[a] = h.mem[a]
  BY <1>1, <1>4
<1>8. \A a \in Addr : a \notin b..(b + s - 1) => g.mem[a] = h.mem[a]
  BY <1>3, <1>7
<1>9. g \in HeapType
  BY <1>2, <1>5 DEF MakeFree, HeapType
<1> QED
  BY <1>2, <1>6, <1>8, <1>9

(* allocate_block *)
LEMMA AllocateFields ==
  ASSUME NEW h \in HeapType, NEW b \in Addr, b + 1 \in Addr, b + 2 \in Addr, NEW rq \in 0..End,
         NEW y \in Addr, y = b + h.mem[b].sz, y > b + 2, h.prv[b] # b, h.nxt[b] # b,
         NEW f, f = y + h.mem[y].sz - 1, y # Epilogue(h) => f \in Addr /\ f >= y,
         NEW g, g = AllocateBlock(h, b, rq)
  PROVE  /\ g \in HeapType /\ g.lists = h.lists /\ g.pages = h.pages /\ g.damage = h.damage
         /\ \A x \in Pointer : g.nxt[x] = IF x = b THEN Null ELSE IF x = h.prv[b] THEN h.nxt[b] ELSE h.nxt[x]
         /\ \A x \in Pointer : g.prv[x] = IF x = b THEN Null ELSE IF x = h.nxt[b] THEN h.prv[b] ELSE h.prv[x]
         /\ g.mem[b].al = 1 /\ g.mem[b].pal = h.mem[b].pal /\ g.mem[b].sz = h.mem[b].sz /\ g.mem[b].rq = rq
         /\ \A a \in Addr \ {b, b + 1, b + 2} :
              g.mem[a] = IF y # Epilogue(h) /\ a \in {y, f} THEN [h.mem[a] EXCEPT !.pal = 1] ELSE h.mem[a]
<1>p. PICK p : p = h.prv[b]
  OBVIOUS
<1>n. PICK n : n = h.nxt[b]
  OBVIOUS
<1>a. PICK h1 : h1 = [h EXCEPT !.nxt[p] = n, !.prv[n] = p]
  OBVIOUS
<1>b. PICK h2 : h2 = [h1 EXCEPT !.mem[b].al = 1, !.mem[b].rq = rq, !.nxt[b] = Null, !.prv[b] = Null,
                       !.mem[b + 1] = Zero, !.mem[b + 2] = Zero]
  BY ZenonT(60)
<1>1. g = SetPrevAllocated(h2, y, 1)
  BY <1>p, <1>n, <1>a, <1>b DEF AllocateBlock
<1>2. h.mem \in [Addr -> Info] /\ h.nxt \in [Pointer -> Pointer] /\ h.prv \in [Pointer -> Pointer]
      /\ h.lists \in SUBSET (1..End) /\ h.pages \in 0..Pages /\ h.damage \in Damages
  BY DEF HeapType
<1>3. b \in Pointer /\ Null \in Pointer /\ Zero \in Info /\ p \in Pointer /\ n \in Pointer
  BY <1>2, <1>p, <1>n, Names
<1>4. /\ h1.mem = h.mem /\ h1.nxt = [h.nxt EXCEPT ![p] = n] /\ h1.prv = [h.prv EXCEPT ![n] = p]
      /\ h1.lists = h.lists /\ h1.pages = h.pages /\ h1.damage = h.damage
  BY <1>a DEF HeapType
<1>5. h1.nxt \in [Pointer -> Pointer] /\ h1.prv \in [Pointer -> Pointer]
  BY <1>2, <1>3, <1>4
<1>6. h1 \in HeapType
  BY <1>2, <1>4, <1>5, <1>a DEF HeapType
<1>w. PICK w \in Info : w = [[h.mem[b] EXCEPT !.al = 1] EXCEPT !.rq = rq]
  BY ZenonT(60), <1>2 DEF Info, Bit
<1>7. w.al = 1 /\ w.pal = h.mem[b].pal /\ w.sz = h.mem[b].sz /\ w.rq = rq
  BY <1>2, <1>w DEF Info
<1>8. /\ h2.nxt = [h1.nxt EXCEPT ![b] = Null] /\ h2.prv = [h1.prv EXCEPT ![b] = Null]
      /\ h2.lists = h1.lists /\ h2.pages = h1.pages /\ h2.damage = h1.damage
  BY <1>6, <1>b DEF HeapType
<1>9. h2.mem = [[[[h1.mem EXCEPT ![b].al = 1] EXCEPT ![b].rq = rq] EXCEPT ![b + 1] = Zero] EXCEPT ![b + 2] = Zero]
  BY <1>6, <1>b DEF HeapType
<1>10. [[h1.mem EXCEPT ![b].al = 1] EXCEPT ![b].rq = rq] = [h.mem EXCEPT ![b] = w]
  <2>1. [h.mem EXCEPT ![b].al = 1] = [h.mem EXCEPT ![b] = [h.mem[b] EXCEPT !.al = 1]]
    OBVIOUS
  <2>2. [[h.mem EXCEPT ![b] = [h.mem[b] EXCEPT !.al = 1]] EXCEPT ![b].rq = rq] = [h.mem EXCEPT ![b] = w]
    BY <1>2, <1>w
  <2> QED
    BY <1>4, <2>1, <2>2
<1>11. h2.mem = [[[h.mem EXCEPT ![b] = w] EXCEPT ![b + 1] = Zero] EXCEPT ![b + 2] = Zero]
  BY <1>9, <1>10
<1>12. b # b + 1 /\ b # b + 2 /\ y \notin {b, b + 1, b + 2}
  BY HeapSize DEF Addr
<1>13. /\ h2.mem \in [Addr -> Info] /\ h2.mem[b] = w
       /\ \A a \in Addr \ {b, b + 1, b + 2} : h2.mem[a] = h.mem[a]
  BY <1>2, <1>3, <1>11, <1>12
<1>14. h2.nxt \in [Pointer -> Pointer] /\ h2.prv \in [Pointer -> Pointer]
  BY SMTT(60), <1>3, <1>5, <1>8
<1>15. h2 \in HeapType
  BY <1>b, <1>6, <1>8, <1>13, <1>14 DEF HeapType
<1>16. /\ Epilogue(h2) = Epilogue(h) /\ Foot(h2, y) = f
  BY <1>4, <1>8, <1>12, <1>13 DEF Epilogue, Foot
<1>17. /\ g \in HeapType /\ g.nxt = h2.nxt /\ g.prv = h2.prv
       /\ g.lists = h2.lists /\ g.pages = h2.pages /\ g.damage = h2.damage
       /\ \A a \in Addr : g.mem[a] = IF y # Epilogue(h2) /\ a \in {y, Foot(h2, y)}
                                     THEN [h2.mem[a] EXCEPT !.pal = 1] ELSE h2.mem[a]
  <2>1. 1 \in Bit /\ (y # Epilogue(h2) => Foot(h2, y) \in Addr)
    BY <1>16 DEF Bit
  <2> PICK k \in Bit : k = 1
    BY DEF Bit
  <2>2. g = SetPrevAllocated(h2, y, k)
    BY <1>1
  <2> HIDE DEF HeapType
  <2>3. /\ g \in HeapType /\ g.nxt = h2.nxt /\ g.prv = h2.prv
        /\ g.lists = h2.lists /\ g.pages = h2.pages /\ g.damage = h2.damage
        /\ \A a \in Addr : g.mem[a] = IF y # Epilogue(h2) /\ a \in {y, Foot(h2, y)}
                                      THEN [h2.mem[a] EXCEPT !.pal = k] ELSE h2.mem[a]
    BY <1>15, <2>1, <2>2, SetPrevFields
  <2> QED
    BY <2>3
<1>18. \A x \in Pointer : g.nxt[x] = IF x = b THEN Null ELSE IF x = p THEN n ELSE h.nxt[x]
  BY <1>2, <1>3, <1>4, <1>5, <1>8, <1>17
<1>19. \A x \in Pointer : g.prv[x] = IF x = b THEN Null ELSE IF x = n THEN p ELSE h.prv[x]
  BY <1>2, <1>3, <1>4, <1>5, <1>8, <1>17
<1>20. g.mem[b] = w
  <2>1. y # Epilogue(h) => b \notin {y, f}
    BY <1>12, HeapSize DEF Addr
  <2> QED
    BY <1>13, <1>16, <1>17, <2>1
<1>21. \A a \in Addr \ {b, b + 1, b + 2} :
              g.mem[a] = IF y # Epilogue(h) /\ a \in {y, f} THEN [h.mem[a] EXCEPT !.pal = 1] ELSE h.mem[a]
  BY <1>13, <1>16, <1>17
<1>22. g.lists = h.lists /\ g.pages = h.pages /\ g.damage = h.damage
  BY <1>4, <1>8, <1>17
<1> QED
  BY <1>p, <1>n, <1>7, <1>17, <1>18, <1>19, <1>20, <1>21, <1>22

----------------------------------------------------------------------------
(* What happens to blocks *)

(* Numbers and places of blocks. *)
LEMMA BlockFacts ==
  ASSUME NEW m, NEW L, NEW B, NEW e, Blocks(m, L, B, e)
  PROVE  /\ e \in Nat /\ e < End /\ End \in Nat /\ m \in [Addr -> Info]
         /\ \A b \in L \cup B :
              /\ b \in Nat /\ b \in Addr /\ b >= 5 /\ b < e /\ m[b] \in Info
              /\ m[b].sz \in Nat /\ m[b].sz >= 4 /\ m[b].sz % 2 = 0 /\ m[b].sz \in 1..End
              /\ b + m[b].sz <= e /\ b + m[b].sz \in L \cup B \cup {e}
              /\ m[b].pal \in {0, 1}
              /\ \A c \in L \cup B \cup {e} : b < c => b + m[b].sz <= c
<1>1. e \in Nat /\ e < End /\ End \in Nat /\ m \in [Addr -> Info] /\ e \in Addr /\ Tiles(m, L \cup B, e)
  BY HeapSize DEF Addr, Blocks
<1>2. ASSUME NEW b \in L \cup B
      PROVE  /\ b \in Nat /\ b \in Addr /\ b >= 5 /\ b < e /\ m[b] \in Info
             /\ m[b].sz \in Nat /\ m[b].sz >= 4 /\ m[b].sz % 2 = 0 /\ m[b].sz \in 1..End
             /\ b + m[b].sz <= e /\ b + m[b].sz \in L \cup B \cup {e}
             /\ m[b].pal \in {0, 1}
             /\ \A c \in L \cup B \cup {e} : b < c => b + m[b].sz <= c
  <2>1. /\ b \in Addr /\ b >= First /\ m[b] \in Info /\ m[b].sz \in Nat /\ m[b].sz >= 4
        /\ b + m[b].sz <= e
        /\ \A c \in L \cup B \cup {e} : b < c => b + m[b].sz <= c
    BY <1>1, Spans
  <2>2. b \in Nat /\ b >= 5 /\ b < e /\ m[b].pal \in {0, 1} /\ m[b].sz \in 1..End
    BY SMTT(60), <1>1, <2>1 DEF Addr, First, Info, Bit
  <2>3. m[b].sz % 2 = 0 /\ b + m[b].sz \in L \cup B \cup {e}
    BY <1>1 DEF Tiles
  <2> QED
    BY <2>1, <2>2, <2>3
<1> QED
  BY <1>1, <1>2

(* Two blocks do not end at the same place. *)
LEMMA OneBefore ==
  ASSUME NEW m, NEW L, NEW B, NEW e, Blocks(m, L, B, e),
         NEW b \in L \cup B, NEW c \in L \cup B, b + m[b].sz = c + m[c].sz
  PROVE  b = c
<1>1. b \in Nat /\ m[b].sz \in Nat /\ m[b].sz >= 4 /\ (b < c => b + m[b].sz <= c)
  BY BlockFacts
<1>2. c \in Nat /\ m[c].sz \in Nat /\ m[c].sz >= 4 /\ (c < b => c + m[c].sz <= b)
  BY BlockFacts
<1>3. PICK s \in Nat : s = m[b].sz
  BY <1>1
<1>4. PICK t \in Nat : t = m[c].sz
  BY <1>2
<1>5. s >= 4 /\ t >= 4 /\ (b < c => b + s <= c) /\ (c < b => c + t <= b) /\ b + s = c + t
  BY <1>1, <1>2, <1>3, <1>4
<1> QED
  BY <1>1, <1>2, <1>5

(* A free block takes all up to y, where nothing is allocated between. *)
LEMMA Merged ==
  ASSUME NEW m, NEW L, NEW B, NEW e, Blocks(m, L, B, e),
         NEW x \in B, NEW y \in L \cup B \cup {e}, x < y, \A c \in L : ~(x < c /\ c < y),
         NEW m2 \in [Addr -> Info], \A a \in Addr : a \notin x..(y - 1) => m2[a] = m[a],
         m2[x].al = 0, m2[x].pal = m[x].pal, m2[x].sz = y - x, m2[y - 1].sz = y - x, (y - x) % 2 = 0,
         NEW B2, B2 = {c \in B : ~(x < c /\ c < y)}
  PROVE  /\ Blocks(m2, L, B2, e)
         /\ (\A c \in B : (c < x \/ y <= c) /\ c + m[c].sz \in B => m[c + m[c].sz].pal = 1)
            /\ (y \in B => m[y].pal = 1) => Apart(m2, B2)
<1> PICK A : A = L \cup B
  OBVIOUS
<1> PICK A2 : A2 = L \cup B2
  OBVIOUS
<1>1. e \in Nat /\ e < End /\ m \in [Addr -> Info] /\ y \in Nat /\ x \in Nat /\ x + m[x].sz <= y
      /\ First <= x /\ y <= e /\ First = 5 /\ End \in Nat
  <2>1. e \in Nat /\ e < End /\ m \in [Addr -> Info] /\ End \in Nat
    BY BlockFacts
  <2>2. y \in Nat /\ y <= e
    BY <2>1, BlockFacts
  <2>3. x \in Nat /\ x + m[x].sz <= y /\ x >= 5
    BY BlockFacts
  <2> QED
    BY <2>1, <2>2, <2>3 DEF First
<1>2. \A b \in A : /\ b \in Nat /\ b \in Addr /\ b >= 5 /\ b < e /\ m[b].sz \in Nat /\ m[b].sz >= 4
                   /\ m[b].sz % 2 = 0 /\ b + m[b].sz <= e /\ b + m[b].sz \in A \cup {e}
                   /\ \A c \in A \cup {e} : b < c => b + m[b].sz <= c
  BY BlockFacts
<1>3. x \in A /\ y \in A \cup {e} /\ y - x >= 4
  BY <1>1, <1>2
<1>4. A2 \subseteq A /\ x \in A2 /\ (\A c \in A2 : c <= x \/ y <= c) /\ \A c \in A : c <= x \/ y <= c => c \in A2
  BY <1>1, <1>2
<1>5. \A c \in A2 \ {x} : m2[c] = m[c] /\ (c < x \/ y <= c)
  BY <1>1, <1>2, <1>4
<1>6. x + m2[x].sz = y /\ y \in A2 \cup {e}
  BY <1>1, <1>3, <1>4
<1>7. Tiles(m2, A2, e)
  <2>1. First \in A2
    <3>1. First \in A
      BY DEF Blocks, Tiles
    <3> QED
      BY <1>1, <1>4, <3>1
  <2>2. A2 \subseteq First..(e - 1)
    BY <1>4 DEF Blocks, Tiles
  <2>3. ASSUME NEW b \in A2
        PROVE  /\ m2[b].sz % 2 = 0 /\ m2[b].sz >= 4 /\ b + m2[b].sz \in A2 \cup {e}
               /\ \A c \in A2 : b < c => b + m2[b].sz <= c
    <3>1. CASE b = x
      BY <1>1, <1>3, <1>4, <1>6, <3>1
    <3>2. CASE b # x
      <4>1. m2[b] = m[b] /\ b \in A /\ (b < x \/ y <= b)
        BY <1>4, <1>5, <3>2
      <4>2. b + m[b].sz <= x \/ y <= b + m[b].sz
        BY <1>1, <1>2, <1>3, <4>1
      <4>3. b + m[b].sz \in A2 \cup {e}
        BY <1>2, <1>4, <4>1, <4>2
      <4> QED
        BY <1>2, <1>4, <4>1, <4>3
    <3> QED
      BY <3>1, <3>2
  <2> QED
    BY <2>1, <2>2, <2>3 DEF Tiles
<1>8. Marked(m2, L, B2)
  <2>1. \A b \in L : m2[b].al = 1 /\ m2[b].rq < m2[b].sz
    <3>1. x \notin L
      BY DEF Blocks
    <3> QED
      BY <1>5, <3>1 DEF Blocks, Marked
  <2>2. \A b \in B2 : m2[b].al = 0 /\ m2[b + m2[b].sz - 1].sz = m2[b].sz
    <3> TAKE b \in B2
    <3>1. CASE b = x
      <4>1. x + m2[x].sz - 1 = y - 1 /\ m2[x].sz = y - x
        BY <1>1
      <4>2. m2[x + m2[x].sz - 1] = m2[y - 1]
        BY <4>1
      <4> QED
        BY <3>1, <4>1, <4>2
    <3>2. CASE b # x
      <4>1. m2[b] = m[b] /\ b \in A /\ (b < x \/ y <= b) /\ b \in B
        BY <1>4, <1>5, <3>2
      <4>2. b + m[b].sz <= x \/ y <= b
        BY <1>1, <1>2, <1>3, <4>1
      <4>3. b + m[b].sz - 1 \in Addr /\ b + m[b].sz - 1 \notin x..(y - 1)
        <5>1. PICK s \in Nat : s = m[b].sz
          BY <1>2, <4>1
        <5>2. b \in Nat /\ s >= 4 /\ b + s <= e /\ (b + s <= x \/ y <= b)
          BY <1>2, <4>1, <4>2, <5>1
        <5>3. b + s - 1 \in Addr /\ b + s - 1 \notin x..(y - 1)
          BY <1>1, <5>2 DEF Addr
        <5> QED
          BY <5>1, <5>3
      <4>4. m[b].al = 0 /\ m[b + m[b].sz - 1].sz = m[b].sz
        BY <4>1 DEF Blocks, Marked
      <4> QED
        BY <4>1, <4>3, <4>4
    <3> QED
      BY <3>1, <3>2
  <2>3. \A b \in A2 : m2[b].pal = 0 => \E p \in B2 : p + m2[p].sz = b
    <3> SUFFICES ASSUME NEW b \in A2, m2[b].pal = 0 PROVE \E p \in B2 : p + m2[p].sz = b
      OBVIOUS
    <3>1. m[b].pal = 0 /\ b \in A
      BY <1>4, <1>5
    <3>2. PICK p \in B : p + m[p].sz = b
      BY <3>1 DEF Blocks, Marked
    <3>3. p \in A
      OBVIOUS
    <3>4. CASE x <= p /\ p < y
      <4>1. b <= y /\ b > x
        BY <1>1, <1>2, <1>3, <3>2, <3>3, <3>4
      <4>2. b = y
        BY <1>1, <1>2, <1>4, <3>1, <4>1
      <4> QED
        BY <1>1, <1>6, <4>2
    <3>5. CASE ~(x <= p /\ p < y)
      <4>1. p \in B2 /\ p # x
        BY <1>1, <1>2, <3>3, <3>5
      <4> QED
        BY <1>5, <3>2, <4>1
    <3> QED
      BY <3>4, <3>5
  <2> QED
    BY <2>1, <2>2, <2>3 DEF Marked
<1>9. Blocks(m2, L, B2, e)
  BY <1>7, <1>8 DEF Blocks
<1>10. ASSUME \A c \in B : (c < x \/ y <= c) /\ c + m[c].sz \in B => m[c + m[c].sz].pal = 1,
              y \in B => m[y].pal = 1,
              NEW b \in B2, b + m2[b].sz \in B2
       PROVE  m2[b + m2[b].sz].pal = 1
  <2>1. CASE b = x
    <3>1. b + m2[b].sz = y /\ y \in B /\ y \in A2 /\ y # x
      BY <1>1, <1>6, <1>10, <2>1
    <3> QED
      BY <1>5, <1>10, <3>1
  <2>2. CASE b # x
    <3>1. m2[b] = m[b] /\ b \in B /\ (b < x \/ y <= b)
      BY <1>5, <2>2
    <3> PICK t : t = b + m[b].sz
      OBVIOUS
    <3>2. t \in B2 /\ t \in B /\ m[t].pal = 1
      BY <1>10, <3>1
    <3>3. m2[t].pal = m[t].pal
      BY <1>5, <3>2
    <3> QED
      BY <3>1, <3>2, <3>3
  <2> QED
    BY <2>1, <2>2
<1> QED
  BY <1>9, <1>10 DEF Apart

(* A free block is allocated, and the one after it is told. *)
LEMMA Taken ==
  ASSUME NEW m, NEW L, NEW B, NEW e, Blocks(m, L, B, e),
         NEW b \in B, NEW y, y = b + m[b].sz,
         NEW m2 \in [Addr -> Info],
         m2[b].al = 1, m2[b].sz = m[b].sz, m2[b].pal = m[b].pal, m2[b].rq < m[b].sz,
         \A a \in Addr : a \notin b..(y - 1) =>
           /\ m2[a].al = m[a].al /\ m2[a].sz = m[a].sz /\ m2[a].rq = m[a].rq
           /\ m2[a].pal = 0 => m[a].pal = 0,
         y # e => m2[y].pal = 1
  PROVE  /\ Blocks(m2, L \cup {b}, B \ {b}, e)
         /\ Apart(m, B) => Apart(m2, B \ {b})
<1> PICK A : A = L \cup B
  OBVIOUS
<1>1. e \in Nat /\ e < End /\ m \in [Addr -> Info] /\ End \in Nat
  BY BlockFacts
<1>2. \A c \in A : /\ c \in Nat /\ c \in Addr /\ c >= 5 /\ c < e /\ m[c].sz \in Nat /\ m[c].sz >= 4
                   /\ m[c].sz % 2 = 0 /\ c + m[c].sz <= e /\ c + m[c].sz \in A \cup {e}
                   /\ \A d \in A \cup {e} : c < d => c + m[c].sz <= d
  BY BlockFacts
<1>3. b \in A /\ y \in A \cup {e} /\ y \in Nat /\ L \cap B = {}
  BY <1>1, <1>2 DEF Blocks
<1>4. \A c \in A \ {b} : /\ m2[c].al = m[c].al /\ m2[c].sz = m[c].sz /\ m2[c].rq = m[c].rq
                         /\ m2[c].pal = 0 => m[c].pal = 0
  <2> TAKE c \in A \ {b}
  <2>1. c \notin b..(y - 1)
    <3>1. c \in Nat /\ b \in Nat /\ (c < b \/ y <= c)
      BY <1>2, <1>3
    <3> QED
      BY <1>3, <3>1
  <2> QED
    BY <1>2, <2>1
<1>5. \A c \in A : m2[c].sz = m[c].sz
  BY <1>4
<1>6. (L \cup {b}) \cup (B \ {b}) = A /\ (L \cup {b}) \cap (B \ {b}) = {}
  BY <1>3
<1>7. Tiles(m2, A, e)
  BY <1>5 DEF Blocks, Tiles
<1>8. Marked(m2, L \cup {b}, B \ {b})
  <2>1. \A c \in L \cup {b} : m2[c].al = 1 /\ m2[c].rq < m2[c].sz
    <3>1. \A c \in L : c \in A \ {b}
      BY <1>3
    <3>2. \A c \in L : m[c].al = 1 /\ m[c].rq < m[c].sz
      BY DEF Blocks, Marked
    <3> QED
      BY <1>4, <3>1, <3>2
  <2>2. \A c \in B \ {b} : m2[c].al = 0 /\ m2[c + m2[c].sz - 1].sz = m2[c].sz
    <3> TAKE c \in B \ {b}
    <3>1. c \in A \ {b} /\ m[c].al = 0 /\ m[c + m[c].sz - 1].sz = m[c].sz
      BY DEF Blocks, Marked
    <3>2. c + m[c].sz - 1 \in Addr /\ c + m[c].sz - 1 \notin b..(y - 1)
      <4>1. PICK s \in Nat : s = m[c].sz
        BY <1>2, <3>1
      <4>2. c \in Nat /\ b \in Nat /\ s >= 4 /\ c + s <= e /\ (c + s <= b \/ y <= c)
        BY <1>2, <1>3, <3>1, <4>1
      <4>3. c + s - 1 \in Addr /\ c + s - 1 \notin b..(y - 1)
        BY <1>1, <1>3, <4>2 DEF Addr
      <4> QED
        BY <4>1, <4>3
    <3> QED
      BY <1>4, <3>1, <3>2
  <2>3. \A c \in A : m2[c].pal = 0 => \E p \in B \ {b} : p + m2[p].sz = c
    <3> SUFFICES ASSUME NEW c \in A, m2[c].pal = 0 PROVE \E p \in B \ {b} : p + m2[p].sz = c
      OBVIOUS
    <3>1. m[c].pal = 0 /\ c # y
      <4>1. c # e
        BY <1>1, <1>2
      <4> QED
        BY <1>4, <4>1
    <3>2. PICK p \in B : p + m[p].sz = c
      BY <3>1 DEF Blocks, Marked
    <3> QED
      BY <1>5, <3>1, <3>2
  <2> QED
    BY <1>6, <2>1, <2>2, <2>3 DEF Marked
<1>9. Blocks(m2, L \cup {b}, B \ {b}, e)
  BY <1>6, <1>7, <1>8 DEF Blocks
<1>10. ASSUME Apart(m, B), NEW c \in B \ {b}, c + m2[c].sz \in B \ {b}
       PROVE  m2[c + m2[c].sz].pal = 1
  <2> PICK t : t = c + m[c].sz
    OBVIOUS
  <2>1. t = c + m2[c].sz /\ t \in B \ {b} /\ m[t].pal = 1
    BY <1>5, <1>10 DEF Apart
  <2>2. t \in Addr /\ m2[t] \in Info /\ m2[t].pal # 0
    BY <1>2, <1>4, <2>1
  <2> QED
    BY <2>1, <2>2 DEF Info, Bit
<1> QED
  BY <1>9, <1>10 DEF Apart

(* Of the block b, what is before z is kept, and a free one made of the rest. *)
Cut(m, m2, b, z, y) ==
  /\ y = b + m[b].sz /\ z \in Nat /\ z - b >= 4 /\ y - z >= 4 /\ (z - b) % 2 = 0 /\ (y - z) % 2 = 0
  /\ m2 \in [Addr -> Info]
  /\ m2[b].al = 1 /\ m2[b].sz = z - b /\ m2[b].pal = m[b].pal /\ m2[b].rq < z - b
  /\ m2[z].al = 0 /\ m2[z].pal = 1 /\ m2[z].sz = y - z /\ m2[y - 1].sz = y - z
  /\ \A a \in Addr : a \notin b..(y - 1) => m2[a] = m[a]

(* An allocated block is cut. *)
LEMMA Shrunk ==
  ASSUME NEW m, NEW L, NEW B, NEW e, Blocks(m, L, B, e), NEW b \in L, NEW z, NEW y, NEW m2, Cut(m, m2, b, z, y)
  PROVE  /\ Blocks(m2, L, B \cup {z}, e) /\ z \notin L \cup B /\ z \in Addr
         /\ Apart(m, B) => Apart(m2, B)
<1> USE DEF Cut
<1> PICK A : A = L \cup B
  OBVIOUS
<1> PICK A2 : A2 = L \cup (B \cup {z})
  OBVIOUS
<1>1. e \in Nat /\ e < End /\ m \in [Addr -> Info] /\ End \in Nat
  BY BlockFacts
<1>2. \A c \in A : /\ c \in Nat /\ c \in Addr /\ c >= 5 /\ c < e /\ m[c].sz \in Nat /\ m[c].sz >= 4
                   /\ m[c].sz % 2 = 0 /\ c + m[c].sz <= e /\ c + m[c].sz \in A \cup {e}
                   /\ \A d \in A \cup {e} : c < d => c + m[c].sz <= d
  BY BlockFacts
<1>3. b \in A /\ y \in A \cup {e} /\ y \in Nat /\ L \cap B = {} /\ y <= e /\ b \in Nat
      /\ b + 4 <= z /\ z + 4 <= y /\ b >= 5 /\ b \notin B
  BY <1>1, <1>2 DEF Blocks
<1>4. \A c \in A \ {b} : /\ m2[c] = m[c] /\ (c < b \/ y <= c) /\ (c + m[c].sz <= b \/ y <= c)
  <2> TAKE c \in A \ {b}
  <2>1. c \in Nat /\ b \in Nat /\ (c < b \/ y <= c) /\ (c < b => c + m[c].sz <= b)
    BY <1>2, <1>3
  <2>2. c \notin b..(y - 1)
    BY <1>3, <2>1
  <2> QED
    BY <1>2, <2>1, <2>2
<1>5. z \notin A /\ z \in Addr /\ z \in 5..(e - 1)
  <2>1. \A c \in A : c # z
    <3> TAKE c \in A
    <3>1. c \in Nat /\ (c = b \/ c < b \/ y <= c)
      BY <1>2, <1>4
    <3> QED
      BY <1>3, <3>1
  <2> QED
    BY <1>1, <1>3, <2>1 DEF Addr
<1>6. A2 = A \cup {z} /\ L \cap (B \cup {z}) = {} /\ y \in A2 \cup {e}
  BY <1>3, <1>5
<1>7. Tiles(m2, A2, e)
  <2>1. First \in A2 /\ A2 \subseteq First..(e - 1)
    BY <1>5, <1>6 DEF Blocks, Tiles, First
  <2>2. ASSUME NEW c \in A2
        PROVE  /\ m2[c].sz % 2 = 0 /\ m2[c].sz >= 4 /\ c + m2[c].sz \in A2 \cup {e}
               /\ \A d \in A2 : c < d => c + m2[c].sz <= d
    <3>1. CASE c = b
      <4>1. b + m2[b].sz = z
        BY <1>3
      <4>2. \A d \in A2 : b < d => z <= d
        BY <1>2, <1>3, <1>4, <1>6
      <4> QED
        BY <1>3, <1>6, <3>1, <4>1, <4>2
    <3>2. CASE c = z
      <4>1. z + m2[z].sz = y
        BY <1>3
      <4>2. \A d \in A2 : z < d => y <= d
        BY <1>2, <1>3, <1>4, <1>6
      <4> QED
        BY <1>3, <1>6, <3>2, <4>1, <4>2
    <3>3. CASE c # b /\ c # z
      <4>1. c \in A \ {b} /\ m2[c] = m[c] /\ (c + m[c].sz <= b \/ y <= c)
        BY <1>4, <1>6, <3>3
      <4>2. c < z => c + m[c].sz <= z
        BY <1>2, <1>3, <4>1
      <4> QED
        BY <1>2, <1>6, <4>1, <4>2
    <3> QED
      BY <3>1, <3>2, <3>3
  <2> QED
    BY <2>1, <2>2 DEF Tiles
<1>8. Marked(m2, L, B \cup {z})
  <2>1. \A c \in L : m2[c].al = 1 /\ m2[c].rq < m2[c].sz
    BY <1>4 DEF Blocks, Marked
  <2>2. \A c \in B \cup {z} : m2[c].al = 0 /\ m2[c + m2[c].sz - 1].sz = m2[c].sz
    <3> TAKE c \in B \cup {z}
    <3>1. CASE c = z
      <4>1. z + m2[z].sz - 1 = y - 1
        BY <1>3
      <4>2. m2[z + m2[z].sz - 1] = m2[y - 1]
        BY <4>1
      <4> QED
        BY <3>1, <4>1, <4>2
    <3>2. CASE c # z
      <4>1. c \in A \ {b} /\ c \in B /\ m2[c] = m[c] /\ (c + m[c].sz <= b \/ y <= c)
        BY <1>3, <1>4, <3>2
      <4>2. m[c].al = 0 /\ m[c + m[c].sz - 1].sz = m[c].sz
        BY <4>1 DEF Blocks, Marked
      <4>3. c + m[c].sz - 1 \in Addr /\ c + m[c].sz - 1 \notin b..(y - 1)
        <5>1. PICK s \in Nat : s = m[c].sz
          BY <1>2, <4>1
        <5>2. c \in Nat /\ s >= 4 /\ c + s <= e /\ (c + s <= b \/ y <= c)
          BY <1>2, <4>1, <5>1
        <5>3. c + s - 1 \in Addr /\ c + s - 1 \notin b..(y - 1)
          BY <1>1, <1>3, <5>2 DEF Addr
        <5> QED
          BY <5>1, <5>3
      <4> QED
        BY <4>1, <4>2, <4>3
    <3> QED
      BY <3>1, <3>2
  <2>3. \A c \in A2 : m2[c].pal = 0 => \E p \in B \cup {z} : p + m2[p].sz = c
    <3> SUFFICES ASSUME NEW c \in A2, m2[c].pal = 0 PROVE \E p \in B \cup {z} : p + m2[p].sz = c
      OBVIOUS
    <3>1. c # z
      OBVIOUS
    <3>2. c \in A /\ m[c].pal = 0
      BY <1>4, <1>6, <3>1
    <3>3. PICK p \in B : p + m[p].sz = c
      BY <3>2 DEF Blocks, Marked
    <3>4. p \in A \ {b}
      BY <1>3
    <3> QED
      BY <1>4, <3>3, <3>4
  <2> QED
    BY <2>1, <2>2, <2>3 DEF Marked
<1>9. Blocks(m2, L, B \cup {z}, e)
  BY <1>6, <1>7, <1>8 DEF Blocks
<1>10. Apart(m, B) => Apart(m2, B)
  <2>1. \A c \in B : m2[c] = m[c]
    BY <1>3, <1>4
  <2> QED
    BY <2>1 DEF Apart
<1> QED
  BY <1>5, <1>9, <1>10

(* The block b is marked as free, and the one after it is told. *)
Unmarked(m, m2, b, y, f, e) ==
  /\ y = b + m[b].sz /\ f = y + m[y].sz - 1 /\ m2 \in [Addr -> Info]
  /\ m2[b].al = 0 /\ m2[b].sz = m[b].sz /\ m2[b].pal = m[b].pal /\ m2[y - 1].sz = m[b].sz
  /\ \A a \in Addr : a \notin b..(y - 1) =>
       /\ m2[a].al = m[a].al /\ m2[a].sz = m[a].sz /\ m2[a].rq = m[a].rq
       /\ (y = e \/ a \notin {y, f} => m2[a].pal = m[a].pal)

(* An allocated block becomes free. *)
LEMMA Released ==
  ASSUME NEW m, NEW L, NEW B, NEW e, Blocks(m, L, B, e), NEW b \in L, NEW y, NEW f, NEW m2, Unmarked(m, m2, b, y, f, e)
  PROVE  /\ Blocks(m2, L \ {b}, B \cup {b}, e)
         /\ Apart(m, B) => Apart(m2, B)
<1> USE DEF Unmarked
<1> PICK A : A = L \cup B
  OBVIOUS
<1>1. e \in Nat /\ e < End /\ m \in [Addr -> Info] /\ End \in Nat
  BY BlockFacts
<1>2. \A c \in A : /\ c \in Nat /\ c \in Addr /\ c >= 5 /\ c < e /\ m[c].sz \in Nat /\ m[c].sz >= 4
                   /\ m[c].sz % 2 = 0 /\ c + m[c].sz <= e /\ c + m[c].sz \in A \cup {e}
                   /\ \A d \in A \cup {e} : c < d => c + m[c].sz <= d
  BY BlockFacts
<1>3. b \in A /\ y \in A \cup {e} /\ y \in Nat /\ L \cap B = {} /\ b \notin B /\ b \in Nat /\ b < y
  BY <1>1, <1>2 DEF Blocks
<1>4. ASSUME NEW c \in A \ {b}
      PROVE  /\ m2[c].al = m[c].al /\ m2[c].sz = m[c].sz /\ m2[c].rq = m[c].rq
             /\ (c # y => m2[c].pal = m[c].pal) /\ (c < b \/ y <= c) /\ c \in Addr
  <2>1. c \in Nat /\ b \in Nat /\ (c < b \/ y <= c) /\ c \in Addr
    BY <1>2, <1>3
  <2>2. c \notin b..(y - 1)
    BY SMTT(60), <1>3, <2>1
  <2>3. c # y /\ y # e => c # f
    <3> SUFFICES ASSUME c # y, y # e, c = f PROVE FALSE
      OBVIOUS
    <3>1. y \in A
      BY <1>3
    <3>2. PICK s \in Nat : s = m[y].sz
      BY SMTT(60), <1>2, <3>1
    <3>3. s >= 4 /\ f = y + s - 1 /\ (y < c => y + s <= c) /\ (c < y => c < b)
      BY <1>2, <1>3, <2>1, <3>1, <3>2
    <3> QED
      BY <1>3, <2>1, <3>3
  <2> QED
    BY <2>1, <2>2, <2>3
<1>5. \A c \in A : m2[c].sz = m[c].sz
  BY <1>4
<1>6. (L \ {b}) \cup (B \cup {b}) = A /\ (L \ {b}) \cap (B \cup {b}) = {}
  BY <1>3
<1>7. Tiles(m2, A, e)
  BY <1>5 DEF Blocks, Tiles
<1>8. Marked(m2, L \ {b}, B \cup {b})
  <2>1. \A c \in L \ {b} : m2[c].al = 1 /\ m2[c].rq < m2[c].sz
    <3>1. \A c \in L : m[c].al = 1 /\ m[c].rq < m[c].sz
      BY DEF Blocks, Marked
    <3> QED
      BY <1>4, <3>1
  <2>2. \A c \in B \cup {b} : m2[c].al = 0 /\ m2[c + m2[c].sz - 1].sz = m2[c].sz
    <3> TAKE c \in B \cup {b}
    <3>1. CASE c = b
      <4>0. PICK s \in Nat : s = m2[b].sz
        BY <1>2, <1>3
      <4>1. b + m2[b].sz - 1 = y - 1
        BY <1>3, <4>0
      <4>2. m2[b + m2[b].sz - 1] = m2[y - 1]
        BY <4>1
      <4> QED
        BY <3>1, <4>1, <4>2
    <3>2. CASE c # b
      <4>1. c \in A \ {b} /\ m[c].al = 0 /\ m[c + m[c].sz - 1].sz = m[c].sz
        BY <3>2 DEF Blocks, Marked
      <4>2. c + m[c].sz - 1 \in Addr /\ c + m[c].sz - 1 \notin b..(y - 1)
        <5>1. PICK s \in Nat : s = m[c].sz
          BY <1>2, <4>1
        <5>2. c \in Nat /\ s >= 4 /\ c + s <= e /\ (c + s <= b \/ y <= c)
          BY <1>2, <1>3, <1>4, <4>1, <5>1
        <5>3. c + s - 1 \in Addr /\ c + s - 1 \notin b..(y - 1)
          BY <1>1, <1>3, <5>2 DEF Addr
        <5> QED
          BY <5>1, <5>3
      <4>3. m2[c + m[c].sz - 1].sz = m[c + m[c].sz - 1].sz
        BY <4>2
      <4> QED
        BY <1>4, <4>1, <4>3
    <3> QED
      BY <3>1, <3>2
  <2>3. \A c \in A : m2[c].pal = 0 => \E p \in B \cup {b} : p + m2[p].sz = c
    <3> SUFFICES ASSUME NEW c \in A, m2[c].pal = 0 PROVE \E p \in B \cup {b} : p + m2[p].sz = c
      OBVIOUS
    <3>1. CASE c = y
      BY <1>5, <1>3, <3>1
    <3>2. CASE c # y
      <4>1. m[c].pal = 0
        BY <1>4, <3>2
      <4>2. PICK p \in B : p + m[p].sz = c
        BY <4>1 DEF Blocks, Marked
      <4> QED
        BY <1>5, <4>2
    <3> QED
      BY <3>1, <3>2
  <2> QED
    BY <1>6, <2>1, <2>2, <2>3 DEF Marked
<1>9. Blocks(m2, L \ {b}, B \cup {b}, e)
  BY <1>6, <1>7, <1>8 DEF Blocks
<1>10. ASSUME Apart(m, B), NEW c \in B, c + m2[c].sz \in B
       PROVE  m2[c + m2[c].sz].pal = 1
  <2> PICK t : t = c + m[c].sz
    OBVIOUS
  <2>1. t = c + m2[c].sz /\ t \in B /\ m[t].pal = 1
    BY <1>5, <1>10 DEF Apart
  <2>2. t # y
    BY <1>3, OneBefore
  <2>3. t \in A \ {b}
    BY <1>3, <2>1
  <2> QED
    BY <1>4, <2>1, <2>2, <2>3
<1> QED
  BY <1>9, <1>10 DEF Apart

(* Words within allocated blocks are written. *)
LEMMA Written ==
  ASSUME NEW m, NEW L, NEW B, NEW e, Blocks(m, L, B, e),
         NEW m2 \in [Addr -> Info],
         \A a \in Addr : m2[a] = m[a] \/ \E c \in L : c < a /\ a < c + m[c].sz
  PROVE  /\ Blocks(m2, L, B, e) /\ \A c \in L \cup B : m2[c] = m[c]
         /\ Apart(m, B) => Apart(m2, B)
<1> PICK A : A = L \cup B
  OBVIOUS
<1>1. e \in Nat /\ e < End /\ m \in [Addr -> Info] /\ End \in Nat
  BY BlockFacts
<1>2. \A c \in A : /\ c \in Nat /\ c \in Addr /\ c >= 5 /\ c < e /\ m[c].sz \in Nat /\ m[c].sz >= 4
                   /\ m[c].sz % 2 = 0 /\ c + m[c].sz <= e /\ c + m[c].sz \in A \cup {e}
                   /\ \A d \in A \cup {e} : c < d => c + m[c].sz <= d
  BY BlockFacts
<1>3. \A c \in A : m2[c] = m[c]
  <2> TAKE c \in A
  <2>1. ASSUME NEW d \in L, d < c, c < d + m[d].sz PROVE FALSE
    <3>1. d \in A /\ d + m[d].sz <= c /\ c \in Nat /\ d \in Nat /\ m[d].sz \in Nat
      BY <1>2, <2>1
    <3> QED
      BY <2>1, <3>1
  <2> QED
    BY <1>2, <2>1
<1>4. \A c \in B : m2[c + m[c].sz - 1] = m[c + m[c].sz - 1]
  <2> TAKE c \in B
  <2>1. PICK s \in Nat : s = m[c].sz
    BY <1>2
  <2>2. c \in A /\ c \in Nat /\ s >= 4 /\ c + s <= e
    BY <1>2, <2>1
  <2>3. c + s - 1 \in Addr
    BY <1>1, <2>2 DEF Addr
  <2>4. ASSUME NEW d \in L, d < c + s - 1, c + s - 1 < d + m[d].sz PROVE FALSE
    <3>1. PICK t \in Nat : t = m[d].sz
      BY <1>2
    <3>2. d \in A /\ d \in Nat /\ d # c /\ (d < c => d + t <= c) /\ (c < d => c + s <= d)
      BY <1>2, <2>1, <2>2, <3>1 DEF Blocks
    <3> QED
      BY <2>2, <2>4, <3>1, <3>2
  <2> QED
    BY <2>1, <2>3, <2>4
<1>5. Tiles(m2, A, e)
  BY <1>3 DEF Blocks, Tiles
<1>6. Marked(m2, L, B)
  BY <1>3, <1>4 DEF Blocks, Marked
<1>7. Apart(m, B) => Apart(m2, B)
  BY <1>3 DEF Apart
<1> QED
  BY <1>3, <1>5, <1>6, <1>7 DEF Blocks

(* From e on there is a free block of a page. *)
Longer(m, m2, B, e) ==
  /\ e + W \in Addr /\ m2 \in [Addr -> Info]
  /\ m2[e].al = 0 /\ m2[e].sz = W /\ m2[e + W - 1].sz = W
  /\ m2[e].pal = 0 => \E p \in B : p + m[p].sz = e
  /\ \A a \in Addr : a < e => m2[a] = m[a]

(* The epilogue becomes a free block, and another one follows it. *)
LEMMA Extended ==
  ASSUME NEW m, NEW L, NEW B, NEW e, Blocks(m, L, B, e), NEW m2, Longer(m, m2, B, e)
  PROVE  /\ Blocks(m2, L, B \cup {e}, e + W) /\ e \notin L \cup B
         /\ Apart(m, B) => Apart(m2, B)
<1> USE DEF Longer
<1> PICK A : A = L \cup B
  OBVIOUS
<1> PICK A2 : A2 = L \cup (B \cup {e})
  OBVIOUS
<1>1. e \in Nat /\ e < End /\ m \in [Addr -> Info] /\ End \in Nat /\ W \in Nat /\ W > 10 /\ W % 2 = 0
  BY BlockFacts, HeapSize
<1>2. \A c \in A : /\ c \in Nat /\ c \in Addr /\ c >= 5 /\ c < e /\ m[c].sz \in Nat /\ m[c].sz >= 4
                   /\ m[c].sz % 2 = 0 /\ c + m[c].sz <= e /\ c + m[c].sz \in A \cup {e}
                   /\ \A d \in A \cup {e} : c < d => c + m[c].sz <= d
  BY BlockFacts
<1>3. e \notin A /\ A2 = A \cup {e} /\ L \cap (B \cup {e}) = {} /\ e >= 5 /\ e \in Addr
  <2>1. First \in A
    BY DEF Blocks, Tiles
  <2>2. e \notin A /\ e >= 5
    BY <1>1, <1>2, <2>1 DEF First
  <2>3. e \in Addr /\ L \cap B = {} /\ A2 = A \cup {e}
    BY DEF Blocks
  <2> QED
    BY <2>2, <2>3
<1>4. \A c \in A : m2[c] = m[c]
  BY <1>2
<1>5. Tiles(m2, A2, e + W)
  <2>1. First \in A2 /\ A2 \subseteq First..((e + W) - 1)
    <3>1. First \in A /\ A \subseteq First..(e - 1)
      BY DEF Blocks, Tiles
    <3>2. First..(e - 1) \subseteq First..((e + W) - 1) /\ e \in First..((e + W) - 1)
      BY <1>1, <1>3 DEF First
    <3> QED
      BY <1>3, <3>1, <3>2
  <2>2. ASSUME NEW c \in A2
        PROVE  /\ m2[c].sz % 2 = 0 /\ m2[c].sz >= 4 /\ c + m2[c].sz \in A2 \cup {e + W}
               /\ \A d \in A2 : c < d => c + m2[c].sz <= d
    <3>1. CASE c = e
      <4>1. \A d \in A2 : ~(e < d)
        BY <1>1, <1>2, <1>3
      <4> QED
        BY <1>1, <3>1, <4>1
    <3>2. CASE c # e
      <4>1. c \in A /\ m2[c] = m[c]
        BY <1>3, <1>4, <3>2
      <4> QED
        BY <1>2, <1>3, <4>1
    <3> QED
      BY <3>1, <3>2
  <2> QED
    BY <2>1, <2>2 DEF Tiles
<1>6. Marked(m2, L, B \cup {e})
  <2>1. \A c \in L : m2[c].al = 1 /\ m2[c].rq < m2[c].sz
    BY <1>4 DEF Blocks, Marked
  <2>2. \A c \in B \cup {e} : m2[c].al = 0 /\ m2[c + m2[c].sz - 1].sz = m2[c].sz
    <3> TAKE c \in B \cup {e}
    <3>1. CASE c = e
      BY <3>1
    <3>2. CASE c # e
      <4>1. c \in A /\ m2[c] = m[c] /\ m[c].al = 0 /\ m[c + m[c].sz - 1].sz = m[c].sz
        BY <1>4, <3>2 DEF Blocks, Marked
      <4>2. c + m[c].sz - 1 \in Addr /\ c + m[c].sz - 1 < e
        <5>1. PICK s \in Nat : s = m[c].sz
          BY <1>2, <4>1
        <5>2. c \in Nat /\ s >= 4 /\ c + s <= e
          BY <1>2, <4>1, <5>1
        <5>3. c + s - 1 \in Addr /\ c + s - 1 < e
          BY <1>1, <5>2 DEF Addr
        <5> QED
          BY <5>1, <5>3
      <4> QED
        BY <4>1, <4>2
    <3> QED
      BY <3>1, <3>2
  <2>3. \A c \in A2 : m2[c].pal = 0 => \E p \in B \cup {e} : p + m2[p].sz = c
    <3> SUFFICES ASSUME NEW c \in A2, m2[c].pal = 0 PROVE \E p \in B \cup {e} : p + m2[p].sz = c
      OBVIOUS
    <3>1. \E p \in B : p + m[p].sz = c
      BY <1>3, <1>4 DEF Blocks, Marked
    <3> QED
      BY <1>4, <3>1
  <2> QED
    BY <2>1, <2>2, <2>3 DEF Marked
<1>7. Blocks(m2, L, B \cup {e}, e + W)
  BY <1>3, <1>5, <1>6 DEF Blocks
<1>8. Apart(m, B) => Apart(m2, B)
  BY <1>4 DEF Apart
<1> QED
  BY <1>3, <1>7, <1>8

----------------------------------------------------------------------------
(* Coalescing *)

(* The heap h is in order, when the client holds the blocks L and those of F *)
(* are free.                                                                 *)
Sound(h, L, F) ==
  /\ h \in HeapType /\ h.pages \in 1..Pages
  /\ Blocks(h.mem, L, F, Epilogue(h)) /\ Apart(h.mem, F)
  /\ Linked(h.mem, h.nxt, h.prv, h.lists, F)

(* Nothing is changed in the blocks of L but bits that tell of the one before. *)
Keeps(m, m2, L) ==
  \A b \in L : \A a \in b..(b + m[b].sz - 1) :
    m2[a].al = m[a].al /\ m2[a].sz = m[a].sz /\ m2[a].rq = m[a].rq

(* What ListIs says of one block and of two. *)
LEMMA ListIsFacts ==
  ASSUME NEW h, NEW s
  PROVE  /\ \A b : ListIs(h, s, <<b>>) => h.nxt[-s] = b /\ h.nxt[b] = -s
         /\ \A b, c : ListIs(h, s, <<b, c>>) => h.nxt[-s] = b /\ h.nxt[b] = c /\ h.nxt[c] = -s
<1>1. ASSUME NEW b, ListIs(h, s, <<b>>) PROVE h.nxt[-s] = b /\ h.nxt[b] = -s
  <2>1. Len(<<b>>) = 1 /\ <<b>>[1] = b
    OBVIOUS
  <2> QED
    BY <1>1, <2>1 DEF ListIs
<1>2. ASSUME NEW b, NEW c, ListIs(h, s, <<b, c>>)
      PROVE  h.nxt[-s] = b /\ h.nxt[b] = c /\ h.nxt[c] = -s
  <2>1. Len(<<b, c>>) = 2 /\ <<b, c>>[1] = b /\ <<b, c>>[2] = c
    OBVIOUS
  <2>2. 1 \in 1..(2 - 1) /\ 1 + 1 = 2
    OBVIOUS
  <2>3. \A k \in 1..(2 - 1) : h.nxt[<<b, c>>[k]] = <<b, c>>[k + 1]
    BY <1>2, <2>1 DEF ListIs
  <2>4. h.nxt[<<b, c>>[1]] = <<b, c>>[2]
    BY <2>2, <2>3
  <2> QED
    BY <1>2, <2>1, <2>4 DEF ListIs
<1> QED
  BY <1>1, <1>2

(* A heap that is not damaged is as before. *)
LEMMA Intact ==
  ASSUME NEW h \in HeapType, NEW ok, NEW g, g = Damaged(h, ok, "unlink"), g.damage = "none"
  PROVE  ok /\ g = h
<1>1. g = [h EXCEPT !.damage = IF ok THEN h.damage ELSE "unlink"]
  BY DEF Damaged
<1>2. g.damage = IF ok THEN h.damage ELSE "unlink"
  BY <1>1 DEF HeapType
<1>3. ok
  BY <1>2
<1>4. g = [h EXCEPT !.damage = h.damage]
  BY <1>1, <1>3
<1> QED
  BY <1>3, <1>4 DEF HeapType

(* Two words are written. *)
LEMMA TwoWords ==
  ASSUME NEW m \in [Addr -> Info], NEW x \in Addr, NEW f \in Addr, x # f, NEW w \in Info, NEW u \in Info,
         NEW m2, m2 = [[m EXCEPT ![x] = w] EXCEPT ![f] = u]
  PROVE  /\ m2 \in [Addr -> Info] /\ m2[x] = w /\ m2[f] = u
         /\ \A a \in Addr : a # x /\ a # f => m2[a] = m[a]
  OBVIOUS

(* Header and footer of joined blocks. *)
JoinWords(h, x, f, new, v) == [h EXCEPT !.mem[x].sz = new, !.mem[f].sz = new, !.mem[f].pal = v]

(* They are all that joining writes but pointers and zeros. *)
OnlyJoined(h, x, f, new, g) ==
  /\ g \in HeapType /\ g.nxt = h.nxt /\ g.prv = h.prv
  /\ g.lists = h.lists /\ g.pages = h.pages /\ g.damage = h.damage
  /\ g.mem[x].sz = new /\ g.mem[x].al = h.mem[x].al /\ g.mem[x].pal = h.mem[x].pal
  /\ g.mem[f].sz = new
  /\ \A a \in Addr : a # x /\ a # f => g.mem[a] = h.mem[a]

(* This is so for any block and footer. *)
LEMMA JoinFields ==
  ASSUME NEW h \in HeapType, NEW x \in Addr, NEW f \in Addr, x # f, NEW new \in 0..End, NEW v \in Bit,
         NEW g, g = JoinWords(h, x, f, new, v)
  PROVE  OnlyJoined(h, x, f, new, g)
<1>1. h.mem \in [Addr -> Info]
  BY DEF HeapType
<1>2. /\ g.mem = [[[h.mem EXCEPT ![x].sz = new] EXCEPT ![f].sz = new] EXCEPT ![f].pal = v]
      /\ g.nxt = h.nxt /\ g.prv = h.prv
      /\ g.lists = h.lists /\ g.pages = h.pages /\ g.damage = h.damage
  BY DEF HeapType, JoinWords
<1>3. PICK w \in Info : w = [h.mem[x] EXCEPT !.sz = new]
  BY <1>1 DEF Info
<1>4. PICK u \in Info : u = [[h.mem[f] EXCEPT !.sz = new] EXCEPT !.pal = v]
  BY <1>1 DEF Info
<1>5. w.sz = new /\ w.al = h.mem[x].al /\ w.pal = h.mem[x].pal /\ u.sz = new
  BY <1>1, <1>3, <1>4 DEF Info
<1>6. [h.mem EXCEPT ![x].sz = new] = [h.mem EXCEPT ![x] = w]
  BY <1>3
<1>7. [[[h.mem EXCEPT ![x] = w] EXCEPT ![f].sz = new] EXCEPT ![f].pal = v] = [[h.mem EXCEPT ![x] = w] EXCEPT ![f] = u]
  BY <1>1, <1>4
<1>8. g.mem = [[h.mem EXCEPT ![x] = w] EXCEPT ![f] = u]
  BY <1>2, <1>6, <1>7
<1>9. g.mem \in [Addr -> Info] /\ g.mem[x] = w /\ g.mem[f] = u
      /\ \A a \in Addr : a # x /\ a # f => g.mem[a] = h.mem[a]
  <2>1. PICK m : m = h.mem
    OBVIOUS
  <2>2. PICK m2 : m2 = g.mem
    OBVIOUS
  <2>3. m \in [Addr -> Info] /\ m2 = [[m EXCEPT ![x] = w] EXCEPT ![f] = u]
    BY <1>1, <1>8, <2>1, <2>2
  <2>4. /\ m2 \in [Addr -> Info] /\ m2[x] = w /\ m2[f] = u
        /\ \A a \in Addr : a # x /\ a # f => m2[a] = m[a]
    BY <2>3, TwoWords
  <2> QED
    BY <2>1, <2>2, <2>4
<1>10. g \in HeapType
  BY <1>2, <1>9 DEF HeapType, JoinWords
<1> QED
  BY <1>2, <1>5, <1>9, <1>10 DEF OnlyJoined

(* What Joined yields. *)
Reinserted(h, h2, g, L, F) ==
  /\ Sound(g, L, F) /\ Keeps(h.mem, g.mem, L)
  /\ g.pages = h.pages /\ g.damage = h2.damage /\ g \in HeapType

(* In the heap h2, which has no list of b, x takes all up to y, b included:  *)
(* nothing allocated is between, and no free block beside it is told that it *)
(* is free.                                                                  *)
Joining(h, h2, L, F, b, x, y, G) ==
  /\ h \in HeapType /\ h.pages \in 1..Pages /\ b \notin F
  /\ Blocks(h.mem, L, F \cup {b}, Epilogue(h)) /\ Apart(h.mem, F)
  /\ x \in F \cup {b} /\ y \in L \cup (F \cup {b}) \cup {Epilogue(h)} /\ x <= b /\ b < y /\ (y - x) % 2 = 0
  /\ \A c \in L : ~(x < c /\ c < y)
  /\ x = b => \A c \in F : c + h.mem[c].sz = b => h.mem[b].pal = 1
  /\ y \in F \cup {b} => h.mem[y].pal = 1
  /\ G = {c \in F : ~(x <= c /\ c < y)}
  /\ h2 \in HeapType /\ h2.pages = h.pages
  /\ \A a \in Addr : a \notin x..(y - 1) => h2.mem[a] = h.mem[a]
  /\ h2.mem[x].al = 0 /\ h2.mem[x].pal = h.mem[x].pal /\ h2.mem[x].sz = y - x /\ h2.mem[y - 1].sz = y - x
  /\ Linked(h.mem, h2.nxt, h2.prv, h2.lists, G)

(* Then it is inserted. *)
LEMMA Joined ==
  ASSUME NEW h, NEW h2, NEW L, NEW F, NEW b, NEW x, NEW y, NEW G, Joining(h, h2, L, F, b, x, y, G),
         NEW g, g = InsertBlock(h2, x)
  PROVE  Reinserted(h, h2, g, L, G \cup {x})
<1>m. PICK m : m = h.mem
  OBVIOUS
<1>e. PICK e : e = Epilogue(h)
  OBVIOUS
<1>B. PICK B : B = F \cup {b}
  OBVIOUS
<1>a. /\ h \in HeapType /\ h.pages \in 1..Pages /\ b \notin F /\ b \in B
      /\ Blocks(m, L, B, e) /\ Apart(m, F)
      /\ x \in B /\ y \in L \cup B \cup {e} /\ x <= b /\ b < y /\ (y - x) % 2 = 0
      /\ \A c \in L : ~(x < c /\ c < y)
  BY <1>m, <1>e, <1>B DEF Joining
<1>b. /\ x = b => \A c \in F : c + m[c].sz = b => m[b].pal = 1
      /\ y \in B => m[y].pal = 1
      /\ G = {c \in F : ~(x <= c /\ c < y)}
      /\ h2 \in HeapType /\ h2.pages = h.pages
      /\ \A a \in Addr : a \notin x..(y - 1) => h2.mem[a] = m[a]
      /\ h2.mem[x].al = 0 /\ h2.mem[x].pal = m[x].pal /\ h2.mem[x].sz = y - x /\ h2.mem[y - 1].sz = y - x
      /\ Linked(m, h2.nxt, h2.prv, h2.lists, G)
  BY <1>m, <1>B DEF Joining
<1> USE <1>a, <1>b, <1>B
<1> PICK s : s = y - x
  OBVIOUS
<1>1. /\ e \in Nat /\ e < End /\ End \in Nat /\ m \in [Addr -> Info]
      /\ \A c \in L \cup B :
           /\ c \in Nat /\ c \in Addr /\ m[c].sz \in Nat /\ m[c].sz >= 4 /\ c + m[c].sz <= e /\ c < e
           /\ \A d \in L \cup B \cup {e} : c < d => c + m[c].sz <= d
  BY BlockFacts
<1>2. b \in Nat /\ x \in Nat /\ y \in Nat /\ y <= e /\ x + 4 <= y /\ x \in Addr
  BY <1>1
<1>3. s \in 1..End /\ x + 1 \in Addr /\ x + 2 \in Addr /\ y - 1 \in Addr /\ x + 1 \in x..(y - 1)
      /\ x + 2 \in x..(y - 1) /\ y - 1 # x + 1 /\ y - 1 # x + 2 /\ x # x + 1 /\ x # x + 2
  <2>1. x \in Nat /\ y \in Nat /\ y < End /\ End \in Nat /\ x + 4 <= y
    BY <1>1, <1>2
  <2>2. s \in Nat /\ s >= 1 /\ s <= End
    BY <2>1
  <2>3. x + 1 \in 0..(End - 1) /\ x + 2 \in 0..(End - 1) /\ y - 1 \in 0..(End - 1)
    BY <2>1
  <2> QED
    BY <2>1, <2>2, <2>3 DEF Addr
<1>4. PICK first : first = IF s \in h2.lists THEN h2.nxt[-s] ELSE -s
  OBVIOUS
<1>5. /\ g \in HeapType
      /\ \A a \in Addr : g.mem[a] = IF a \in {x + 1, x + 2} THEN Zero ELSE h2.mem[a]
      /\ \A z \in Pointer : g.nxt[z] = IF z = -s THEN x ELSE IF z = x THEN first ELSE h2.nxt[z]
      /\ \A z \in Pointer : g.prv[z] = IF z = first THEN x
           ELSE IF z = -s THEN (IF s \in h2.lists THEN h2.prv[-s] ELSE -s)
           ELSE IF z = x THEN -s ELSE h2.prv[z]
      /\ g.lists = h2.lists \cup {s} /\ g.pages = h2.pages /\ g.damage = h2.damage
  BY <1>2, <1>3, <1>4, InsertFields
<1>6. g.mem \in [Addr -> Info] /\ g.nxt \in [Pointer -> Pointer] /\ g.prv \in [Pointer -> Pointer]
  BY <1>5 DEF HeapType
<1>7. /\ \A a \in Addr : a \notin x..(y - 1) => g.mem[a] = m[a]
      /\ g.mem[x].al = 0 /\ g.mem[x].pal = m[x].pal /\ g.mem[x].sz = y - x /\ g.mem[y - 1].sz = y - x
  BY <1>2, <1>3, <1>5
<1>8. PICK B2 : B2 = {c \in B : ~(x < c /\ c < y)}
  OBVIOUS
<1>9. B2 = G \cup {x}
  <2>1. ASSUME NEW c \in B2 PROVE c \in G \cup {x}
    <3>1. c \in B /\ c \in Nat /\ ~(x < c /\ c < y)
      BY <1>1, <1>8
    <3>2. c = b => c = x
      BY <1>2, <3>1
    <3>3. c # x => ~(x <= c /\ c < y)
      BY <1>2, <3>1
    <3> QED
      BY <3>1, <3>2, <3>3
  <2>2. ASSUME NEW c \in G \cup {x} PROVE c \in B2
    <3>1. c \in B /\ c \in Nat
      BY <1>1
    <3>2. ~(x < c /\ c < y)
      BY <1>2, <3>1
    <3> QED
      BY <1>8, <3>1, <3>2
  <2> QED
    BY <2>1, <2>2
<1>10. \A c \in B : (c < x \/ y <= c) /\ c + m[c].sz \in B => m[c + m[c].sz].pal = 1
  <2> SUFFICES ASSUME NEW c \in B, c < x \/ y <= c, NEW t \in B, t = c + m[c].sz PROVE m[t].pal = 1
    OBVIOUS
  <2>1. c \in F
    BY <1>1, <1>2
  <2>2. CASE t \in F
    BY <2>1, <2>2 DEF Apart
  <2>3. CASE t = b
    <3>1. c < b /\ c < x
      BY <1>1, <1>2, <2>3
    <3>2. t <= x
      BY <1>1, <3>1
    <3>3. x = b
      BY <1>1, <1>2, <2>3, <3>2
    <3> QED
      BY <2>1, <2>3, <3>3
  <2> QED
    BY <2>2, <2>3
<1>11. Blocks(g.mem, L, B2, e) /\ Apart(g.mem, B2)
  <2>1. x < y /\ Blocks(m, L, B, e)
    BY <1>2
  <2>2. /\ Blocks(g.mem, L, B2, e)
        /\ (\A c \in B : (c < x \/ y <= c) /\ c + m[c].sz \in B => m[c + m[c].sz].pal = 1)
           /\ (y \in B => m[y].pal = 1) => Apart(g.mem, B2)
    BY <1>6, <1>7, <1>8, <2>1, Merged
  <2> QED
    BY <1>10, <2>2
<1>12. Linked(g.mem, g.nxt, g.prv, g.lists, G \cup {x})
  <2>1. G \in SUBSET Addr /\ x \notin G
    <3>1. F \subseteq Addr
      BY <1>1
    <3>2. x <= x /\ x < y
      BY <1>2
    <3> QED
      BY <3>1, <3>2
  <2>2. \A c \in G : g.mem[c].sz = m[c].sz
    <3> TAKE c \in G
    <3>1. c \in Nat /\ c \in Addr /\ c \notin x..(y - 1)
      BY <1>1, <1>2
    <3> QED
      BY <1>7, <3>1
  <2>3. Linked(g.mem, h2.nxt, h2.prv, h2.lists, G)
    BY <2>2, LinkedSame
  <2>4. Linked(g.mem, g.nxt, g.prv, h2.lists \cup {s}, G \cup {x})
    <3>1. PICK n2, p2, n, p, l : n2 = g.nxt /\ p2 = g.prv /\ n = h2.nxt /\ p = h2.prv /\ l = h2.lists
      OBVIOUS
    <3>2. PICK mm : mm = g.mem
      OBVIOUS
    <3>3. Linked(mm, n, p, l, G) /\ mm[x].sz = s /\ s \in 1..End /\ x \in Addr
          /\ n2 \in [Pointer -> Pointer] /\ p2 \in [Pointer -> Pointer]
          /\ first = IF s \in l THEN n[-s] ELSE -s
      BY <1>2, <1>3, <1>4, <1>6, <1>7, <2>3, <3>1, <3>2
    <3>4. /\ \A z \in Pointer : n2[z] = IF z = -s THEN x ELSE IF z = x THEN first ELSE n[z]
          /\ \A z \in Pointer : p2[z] = IF z = first THEN x
                ELSE IF z = -s THEN (IF s \in l THEN p[-s] ELSE -s)
                ELSE IF z = x THEN -s ELSE p[z]
      BY <1>5, <3>1
    <3>5. Linked(mm, n2, p2, l \cup {s}, G \cup {x})
      BY ONLY <2>1, <3>3, <3>4, Inserted
    <3> QED
      BY <3>1, <3>2, <3>5
  <2> QED
    BY <1>5, <2>4
<1>13. Sound(g, L, G \cup {x})
  <2>1. Epilogue(g) = e /\ g.pages \in 1..Pages
    BY <1>5, <1>e DEF Epilogue
  <2> QED
    BY <1>5, <1>9, <1>11, <1>12, <2>1 DEF Sound
<1>14. Keeps(m, g.mem, L)
  <2> SUFFICES ASSUME NEW c \in L, NEW a \in c..(c + m[c].sz - 1) PROVE g.mem[a] = m[a]
    BY DEF Keeps
  <2>1. PICK t \in Nat : t = m[c].sz
    BY <1>1
  <2>2. c \in Nat /\ c # x /\ c + t <= e /\ (c < x => c + t <= x) /\ (x < c => y <= c)
    BY <1>1, <1>2, <2>1 DEF Blocks
  <2>3. a \in c..(c + t - 1)
    BY <2>1
  <2>4. a \in Nat /\ a < End /\ (a < x \/ y <= a)
    BY <1>1, <1>2, <2>2, <2>3
  <2>5. a \in Addr /\ a \notin x..(y - 1)
    BY ONLY <1>1, <1>2, <2>4, Names DEF Addr
  <2> QED
    BY <1>7, <2>5
<1> QED
  BY <1>5, <1>13, <1>14, <1>m DEF Reinserted

(* The lists without the one block of its size. *)
LEMMA OneCleared ==
  ASSUME NEW h1 \in HeapType, NEW m, NEW F \in SUBSET Addr, Linked(m, h1.nxt, h1.prv, h1.lists, F),
         NEW b \in F, NEW s, s = m[b].sz, h1.nxt[-s] = b, h1.nxt[b] = -s,
         NEW h2, h2 = DeleteFreeblock(h1, b, s)
  PROVE  /\ h2 \in HeapType /\ h2.mem = h1.mem /\ h2.pages = h1.pages /\ h2.damage = h1.damage
         /\ h2.lists = h1.lists /\ \A x \in Pointer : x # -s => h2.nxt[x] = h1.nxt[x]
         /\ Linked(m, h2.nxt, h2.prv, h2.lists, F \ {b})
<1>1. s \in h1.lists /\ b \in Pointer /\ h1.nxt \in [Pointer -> Pointer] /\ h1.prv \in [Pointer -> Pointer]
      /\ s \in 1..End /\ -s \in Pointer
  <2>1. s \in h1.lists /\ h1.lists \subseteq 1..End
    BY DEF Linked
  <2>2. b \in Pointer /\ -s \in Pointer
    BY <2>1, Names
  <2> QED
    BY <2>1, <2>2 DEF Linked
<1>2. /\ h2 \in HeapType /\ h2.mem = h1.mem
      /\ \A x \in Pointer : h2.nxt[x] = IF x = -s THEN h1.nxt[b] ELSE h1.nxt[x]
      /\ \A x \in Pointer : h2.prv[x] = IF x = -s /\ h1.nxt[b] = -s THEN -s ELSE h1.prv[x]
      /\ h2.lists = h1.lists /\ h2.pages = h1.pages /\ h2.damage = h1.damage
  BY ONLY <1>1, h2 = DeleteFreeblock(h1, b, s), h1 \in HeapType, DeleteFields
<1>3. h2.nxt \in [Pointer -> Pointer] /\ h2.prv \in [Pointer -> Pointer]
      /\ h2.nxt[-s] = -s /\ h2.prv[-s] = -s
      /\ \A x \in Pointer : x # -s => h2.nxt[x] = h1.nxt[x] /\ h2.prv[x] = h1.prv[x]
  <2>1. h2.nxt \in [Pointer -> Pointer] /\ h2.prv \in [Pointer -> Pointer]
    BY <1>2 DEF HeapType
  <2> QED
    BY <1>1, <1>2, <2>1
<1>4. PICK n, p, l : n = h1.nxt /\ p = h1.prv /\ l = h1.lists
  OBVIOUS
<1>5. PICK n2, p2 : n2 = h2.nxt /\ p2 = h2.prv
  OBVIOUS
<1>6. /\ Linked(m, n, p, l, F) /\ s \in l /\ F \in SUBSET Addr
      /\ n2 \in [Pointer -> Pointer] /\ p2 \in [Pointer -> Pointer] /\ n2[-s] = -s /\ p2[-s] = -s
      /\ \A x \in Pointer : x # -s => n2[x] = n[x] /\ p2[x] = p[x]
  BY <1>1, <1>3, <1>4, <1>5
<1>7. Linked(m, n2, p2, l, {c \in F : m[c].sz # s})
  BY ONLY <1>6, Cleared
<1>8. {c \in F : m[c].sz # s} = F \ {b}
  <2>1. PICK T : T = {-s, b}
    OBVIOUS
  <2>2. -s \in T /\ \A x \in T : n[x] \in T
    BY <1>4, <2>1
  <2>3. ListOf(m, F, s) \subseteq T
    BY ONLY <1>6, <2>2, WholeList
  <2>4. \A c \in F : m[c].sz = s => c = b
    <3> SUFFICES ASSUME NEW c \in F, m[c].sz = s PROVE c = b
      OBVIOUS
    <3>1. c \in T /\ c \in Addr /\ -s \notin Addr
      BY <1>1, <2>3, Names DEF ListOf
    <3> QED
      BY <2>1, <3>1
  <2> QED
    BY <2>4
<1>9. Linked(m, h2.nxt, h2.prv, h2.lists, F \ {b})
  <2>1. h2.lists = h1.lists
    BY <1>2
  <2> QED
    BY <1>4, <1>5, <1>7, <1>8, <2>1
<1> QED
  BY <1>2, <1>3, <1>9

(* The lists without the two blocks of their size. *)
LEMMA TwoCleared ==
  ASSUME NEW h1 \in HeapType, NEW m, NEW F \in SUBSET Addr, Linked(m, h1.nxt, h1.prv, h1.lists, F),
         NEW b \in F, NEW c \in F, NEW s, s = m[b].sz, s = m[c].sz,
         h1.nxt[-s] = b, h1.nxt[b] = c, h1.nxt[c] = -s,
         NEW h2, h2 = DeleteFreeblock(h1, b, s), NEW h3, h3 = DeleteFreeblock(h2, c, s)
  PROVE  /\ h3 \in HeapType /\ h3.mem = h1.mem /\ h3.pages = h1.pages /\ h3.damage = h1.damage
         /\ Linked(m, h3.nxt, h3.prv, h3.lists, F \ {b, c})
<1>1. /\ s \in h1.lists /\ b \in Pointer /\ c \in Pointer /\ c \in Addr
      /\ h1.nxt \in [Pointer -> Pointer] /\ h1.prv \in [Pointer -> Pointer]
      /\ s \in 1..End /\ -s \in Pointer /\ -s \notin Addr
  <2>1. s \in h1.lists /\ h1.lists \subseteq 1..End
    BY DEF Linked
  <2>2. b \in Pointer /\ c \in Pointer /\ -s \in Pointer /\ -s \notin Addr
    BY <2>1, Names
  <2> QED
    BY <2>1, <2>2 DEF Linked
<1>2. /\ h2 \in HeapType /\ h2.mem = h1.mem
      /\ \A x \in Pointer : h2.nxt[x] = IF x = -s THEN h1.nxt[b] ELSE h1.nxt[x]
      /\ \A x \in Pointer : h2.prv[x] = IF x = -s /\ h1.nxt[b] = -s THEN -s ELSE h1.prv[x]
      /\ h2.lists = h1.lists /\ h2.pages = h1.pages /\ h2.damage = h1.damage
  BY ONLY SMTT(60), <1>1, h2 = DeleteFreeblock(h1, b, s), h1 \in HeapType, DeleteFields
<1>3. /\ h3 \in HeapType /\ h3.mem = h2.mem
      /\ \A x \in Pointer : h3.nxt[x] = IF x = -s THEN h2.nxt[c] ELSE h2.nxt[x]
      /\ \A x \in Pointer : h3.prv[x] = IF x = -s /\ h2.nxt[c] = -s THEN -s ELSE h2.prv[x]
      /\ h3.lists = h2.lists /\ h3.pages = h2.pages /\ h3.damage = h2.damage
  <2>1. s \in h2.lists
    BY SMTT(60), <1>1, <1>2
  <2> QED
    BY ONLY SMTT(60), <1>1, <1>2, <2>1, h3 = DeleteFreeblock(h2, c, s), DeleteFields
<1>4. h3.nxt \in [Pointer -> Pointer] /\ h3.prv \in [Pointer -> Pointer]
      /\ h3.nxt[-s] = -s /\ h3.prv[-s] = -s
      /\ \A x \in Pointer : x # -s => h3.nxt[x] = h1.nxt[x] /\ h3.prv[x] = h1.prv[x]
  <2>1. h3.nxt \in [Pointer -> Pointer] /\ h3.prv \in [Pointer -> Pointer]
    BY <1>3 DEF HeapType
  <2>2. c # -s /\ h2.nxt[c] = -s
    BY <1>1, <1>2
  <2> QED
    BY SMTT(60), <1>1, <1>2, <1>3, <2>1, <2>2
<1>5. PICK n, p, l : n = h1.nxt /\ p = h1.prv /\ l = h1.lists
  OBVIOUS
<1>6. PICK n2, p2 : n2 = h3.nxt /\ p2 = h3.prv
  OBVIOUS
<1>7. /\ Linked(m, n, p, l, F) /\ s \in l /\ F \in SUBSET Addr
      /\ n2 \in [Pointer -> Pointer] /\ p2 \in [Pointer -> Pointer] /\ n2[-s] = -s /\ p2[-s] = -s
      /\ \A x \in Pointer : x # -s => n2[x] = n[x] /\ p2[x] = p[x]
  BY <1>1, <1>4, <1>5, <1>6
<1>8. Linked(m, n2, p2, l, {d \in F : m[d].sz # s})
  BY ONLY <1>7, Cleared
<1>9. {d \in F : m[d].sz # s} = F \ {b, c}
  <2>1. PICK T : T = {-s, b, c}
    OBVIOUS
  <2>2. -s \in T /\ \A x \in T : n[x] \in T
    BY <1>5, <2>1
  <2>3. ListOf(m, F, s) \subseteq T
    BY ONLY <1>7, <2>2, WholeList
  <2>4. \A d \in F : m[d].sz = s => d = b \/ d = c
    <3> SUFFICES ASSUME NEW d \in F, m[d].sz = s PROVE d = b \/ d = c
      OBVIOUS
    <3>1. d \in T /\ d \in Addr /\ -s \notin Addr
      BY <1>1, <2>3 DEF ListOf
    <3> QED
      BY <2>1, <3>1
  <2> QED
    BY <2>4
<1>10. Linked(m, h3.nxt, h3.prv, h3.lists, F \ {b, c})
  <2>1. h3.lists = h1.lists
    BY <1>2, <1>3
  <2> QED
    BY <1>5, <1>6, <1>8, <1>9, <2>1
<1> QED
  BY <1>2, <1>3, <1>10

(* What coalesce_blocks finds before a block that is told so. *)
LEMMA Above ==
  ASSUME NEW m, NEW L, NEW F, NEW b, NEW e, Blocks(m, L, F \cup {b}, e), m[b].pal # 1
  PROVE  /\ b - m[b - 1].sz \in F
         /\ (b - m[b - 1].sz) + m[b - m[b - 1].sz].sz = b
<1>1. m[b].pal = 0
  BY BlockFacts
<1>2. PICK p \in F \cup {b} : p + m[p].sz = b
  BY <1>1 DEF Blocks, Marked
<1>3. p \in Nat /\ b \in Nat /\ m[p].sz \in Nat /\ m[p].sz >= 4 /\ m[p + m[p].sz - 1].sz = m[p].sz
  <2>1. p \in Nat /\ b \in Nat /\ m[p].sz \in Nat /\ m[p].sz >= 4
    BY BlockFacts
  <2>2. m[p + m[p].sz - 1].sz = m[p].sz
    BY DEF Blocks, Marked
  <2> QED
    BY <2>1, <2>2
<1>4. PICK s \in Nat : s = m[p].sz
  BY <1>3
<1>5. p + s = b /\ p # b /\ p + s - 1 = b - 1 /\ b - s = p
  BY <1>2, <1>3, <1>4
<1>6. m[b - 1].sz = s
  BY <1>3, <1>4, <1>5
<1> QED
  BY <1>2, <1>4, <1>5, <1>6

(* The heap h is in order but for the block b, which is free and in no list. *)
Loose(h, L, F, b) ==
  /\ h \in HeapType /\ h.pages \in 1..Pages
  /\ Blocks(h.mem, L, F \cup {b}, Epilogue(h)) /\ b \notin F /\ Apart(h.mem, F)
  /\ Linked(h.mem, h.nxt, h.prv, h.lists, F)

(* The blocks are in order again, those the client holds are kept, and x is  *)
(* free.                                                                     *)
Settled(h, g, L, x) ==
  /\ g \in HeapType /\ g.pages = h.pages /\ g.damage = h.damage /\ Keeps(h.mem, g.mem, L)
  /\ \E F2 \in SUBSET Addr : Sound(g, L, F2) /\ x \in F2

(* What is inserted is a heap. *)
LEMMA InsertType ==
  ASSUME NEW h \in HeapType, NEW b \in Addr, b + 1 \in Addr, b + 2 \in Addr, h.mem[b].sz \in 1..End
  PROVE  InsertBlock(h, b) \in HeapType
<1>1. PICK s \in 1..End : h.mem[b].sz = s
  OBVIOUS
<1>2. PICK first : first = IF s \in h.lists THEN h.nxt[-s] ELSE -s
  OBVIOUS
<1>3. PICK g : g = InsertBlock(h, b)
  OBVIOUS
<1>4. g \in HeapType
  BY <1>1, <1>2, <1>3, InsertFields
<1> QED
  BY <1>3, <1>4

(* Three words of a block are in memory. *)
LEMMA InBlock ==
  ASSUME NEW x \in Nat, NEW y \in Nat, x + 4 <= y, y < End
  PROVE  x \in Addr /\ x + 1 \in Addr /\ x + 2 \in Addr /\ y - 1 \in Addr /\ x # y - 1 /\ y - x \in 0..End
         /\ y - x \in 1..End
<1>1. End \in Nat
  BY HeapSize
<1> QED
  BY <1>1 DEF Addr

(* coalesce_blocks joins the block with the one before it. *)
LEMMA JoinedUp ==
  ASSUME NEW h, NEW L, NEW F, NEW b, Loose(h, L, F, b), h.mem[b].pal # 1,
         NEW y, y = b + h.mem[b].sz, y = Epilogue(h) \/ h.mem[y].al = 1,
         NEW c, c = JoinUp(h, b), c.h.damage = "none"
  PROVE  Settled(h, c.h, L, c.b)
<1>0. PICK m : m = h.mem
  OBVIOUS
<1>e. PICK e : e = Epilogue(h)
  OBVIOUS
<1>B. PICK B : B = F \cup {b}
  OBVIOUS
<1>1. /\ h \in HeapType /\ h.pages \in 1..Pages /\ Blocks(m, L, B, e) /\ b \notin F /\ Apart(m, F)
      /\ Linked(m, h.nxt, h.prv, h.lists, F)
  BY <1>0, <1>e, <1>B DEF Loose
<1>2. /\ e \in Nat /\ e < End /\ End \in Nat /\ m \in [Addr -> Info]
      /\ \A d \in L \cup B :
           /\ d \in Nat /\ d \in Addr /\ m[d].sz \in Nat /\ m[d].sz >= 4 /\ m[d].sz % 2 = 0 /\ d + m[d].sz <= e
           /\ d + m[d].sz \in L \cup B \cup {e} /\ d < e
           /\ \A k \in L \cup B \cup {e} : d < k => d + m[d].sz <= k
  BY <1>1, BlockFacts
<1>p. PICK p : p = b - m[b - 1].sz
  OBVIOUS
<1>3. p \in F /\ p + m[p].sz = b
  <2>1. Blocks(m, L, F \cup {b}, e) /\ m[b].pal # 1
    BY <1>0, <1>1, <1>B
  <2>2. b - m[b - 1].sz \in F /\ (b - m[b - 1].sz) + m[b - m[b - 1].sz].sz = b
    BY ONLY <2>1, Above
  <2> QED
    BY <1>p, <2>2
<1>s. PICK ps \in Nat : ps = m[p].sz
  BY <1>2, <1>3, <1>B
<1>t. PICK bs \in Nat : bs = m[b].sz
  BY <1>2, <1>B
<1>4. /\ p \in Nat /\ b \in Nat /\ y \in Nat /\ p + ps = b /\ y = b + bs /\ ps >= 4 /\ bs >= 4 /\ y <= e
      /\ ps % 2 = 0 /\ bs % 2 = 0 /\ p \in B /\ b \in B /\ y \in L \cup B \cup {e}
  BY <1>0, <1>2, <1>3, <1>s, <1>t, <1>B
<1>5. p + 4 <= y /\ y < End /\ y - p = ps + bs /\ (y - p) % 2 = 0 /\ b + bs - 1 = y - 1
  <2>1. e \in Nat /\ e < End /\ End \in Nat /\ ps \in Nat /\ bs \in Nat
    BY <1>2
  <2>2. p + 4 <= y /\ y < End /\ y - p = ps + bs /\ b + bs - 1 = y - 1
    BY ONLY <1>4, <2>1
  <2>3. (ps + bs) % 2 = 0
    BY ONLY <1>4, <2>1
  <2> QED
    BY <2>2, <2>3
<1>f. PICK f : f = y - 1
  OBVIOUS
<1>6. p \in Addr /\ p + 1 \in Addr /\ p + 2 \in Addr /\ f \in Addr /\ p # f /\ ps + bs \in 0..End /\ ps + bs \in 1..End
  BY <1>4, <1>5, <1>f, InBlock
<1>h. PICK h1 : h1 = JoinWords(h, p, f, ps + bs, m[p].pal)
  OBVIOUS
<1>7. /\ h1 \in HeapType /\ h1.nxt = h.nxt /\ h1.prv = h.prv
      /\ h1.lists = h.lists /\ h1.pages = h.pages /\ h1.damage = h.damage
      /\ h1.mem[p].sz = ps + bs /\ h1.mem[p].al = h.mem[p].al /\ h1.mem[p].pal = h.mem[p].pal
      /\ h1.mem[f].sz = ps + bs
      /\ \A a \in Addr : a # p /\ a # f => h1.mem[a] = h.mem[a]
  <2>1. PICK v \in Bit : v = m[p].pal
    BY <1>2, <1>6 DEF Info
  <2>2. PICK new \in 0..End : new = ps + bs
    BY <1>6
  <2>3. h1 = JoinWords(h, p, f, new, v)
    BY <1>h, <2>1, <2>2
  <2>4. OnlyJoined(h, p, f, new, h1)
    BY ONLY <1>1, <1>6, <2>3, new \in 0..End, v \in Bit, JoinFields
  <2> QED
    BY <2>2, <2>4 DEF OnlyJoined
<1>j. PICK h2 : h2 = DeleteFreeblock(h1, p, ps)
  OBVIOUS
<1>g. PICK g : g = InsertBlock(h2, p)
  OBVIOUS
<1>8. c.h = Damaged(g, ListIs(h, ps, <<p>>), "unlink") /\ c.b = p
  <2>1. c = [h |-> Damaged(InsertBlock(DeleteFreeblock(
                     JoinWords(h, p, Foot(h, b), m[p].sz + m[b].sz, m[p].pal), p, m[p].sz), p),
                     ListIs(h, m[p].sz, <<p>>), "unlink"), b |-> p]
    BY Zenon, <1>0, <1>p DEF JoinUp, JoinWords
  <2>2. Foot(h, b) = f
    BY <1>0, <1>5, <1>f, <1>t DEF Foot
  <2> QED
    BY <1>0, <1>s, <1>t, <1>h, <1>j, <1>g, <2>1, <2>2
<1>9. ps \in h1.lists /\ p \in Pointer
  BY <1>1, <1>3, <1>6, <1>7, <1>s, Names DEF Linked
<1>10. h2 \in HeapType /\ h2.mem = h1.mem /\ h2.pages = h1.pages /\ h2.damage = h1.damage
  BY ONLY <1>7, <1>9, <1>j, DeleteFields
<1>11. g \in HeapType
  <2>1. h2.mem[p].sz \in 1..End
    BY <1>6, <1>7, <1>10
  <2> QED
    BY <1>6, <1>10, <1>g, <2>1, InsertType
<1>12. ListIs(h, ps, <<p>>) /\ c.h = g
  BY <1>8, <1>11, Intact
<1>13. h1.nxt[-ps] = p /\ h1.nxt[p] = -ps
  BY <1>7, <1>12, ListIsFacts
<1>14. /\ h2.pages = h1.pages /\ h2.damage = h1.damage
       /\ Linked(m, h2.nxt, h2.prv, h2.lists, F \ {p})
  <2>1. F \in SUBSET Addr /\ Linked(m, h1.nxt, h1.prv, h1.lists, F)
    BY <1>1, <1>2, <1>7, <1>B
  <2>2. p \in F /\ h1 \in HeapType
    BY <1>3, <1>7
  <2>3. Linked(m, h2.nxt, h2.prv, h2.lists, F \ {p})
    BY ONLY <1>13, <1>j, <1>s, <2>1, <2>2, OneCleared
  <2> QED
    BY <1>10, <2>3
<1>G. PICK G : G = {d \in F : ~(p <= d /\ d < y)}
  OBVIOUS
<1>15. G = F \ {p} /\ \A d \in L : ~(p < d /\ d < y)
  <2>1. \A d \in L \cup B : d \in Nat /\ (d <= p \/ b <= d) /\ (d <= b \/ y <= d)
    BY <1>2, <1>3, <1>4, <1>s, <1>t
  <2>2. b \notin L
    BY <1>1, <1>4 DEF Blocks
  <2>3. \A d \in F : d # p => ~(p <= d /\ d < y)
    <3> SUFFICES ASSUME NEW d \in F, d # p PROVE ~(p <= d /\ d < y)
      OBVIOUS
    <3>1. d \in Nat /\ d # b /\ (d <= p \/ b <= d) /\ (d <= b \/ y <= d)
      BY <1>1, <1>B, <2>1
    <3> QED
      BY <1>4, <3>1
  <2>4. p <= p /\ p < y
    BY <1>4
  <2>5. ASSUME NEW d \in L PROVE ~(p < d /\ d < y)
    <3>1. d \in Nat /\ d # b /\ (d <= p \/ b <= d) /\ (d <= b \/ y <= d)
      BY <2>1, <2>2
    <3> QED
      BY <1>4, <3>1
  <2> QED
    BY <1>G, <2>3, <2>4, <2>5
<1>16. y \notin B
  <2>1. \A d \in B : d # e /\ m[d].al = 0
    BY <1>1, <1>2 DEF Blocks, Marked
  <2> QED
    BY <1>0, <1>e, <2>1
<1>17. /\ \A a \in Addr : a \notin p..(y - 1) => h2.mem[a] = m[a]
       /\ h2.mem[p].al = 0 /\ h2.mem[p].pal = m[p].pal /\ h2.mem[p].sz = y - p /\ h2.mem[y - 1].sz = y - p
  <2>1. p \in p..(y - 1) /\ f \in p..(y - 1)
    BY <1>4, <1>f
  <2>2. m[p].al = 0
    BY <1>1, <1>4 DEF Blocks, Marked
  <2> QED
    BY <1>0, <1>5, <1>7, <1>10, <1>f, <2>1, <2>2
<1>18. Reinserted(h, h2, g, L, G \cup {p})
  <2>1. p <= b /\ b < y /\ p # b
    BY <1>4
  <2>2. h2.pages = h.pages /\ Linked(m, h2.nxt, h2.prv, h2.lists, G)
    BY <1>7, <1>14, <1>15
  <2>3. Joining(h, h2, L, F, b, p, y, G)
    BY <1>0, <1>1, <1>4, <1>5, <1>10, <1>15, <1>16, <1>17, <1>e, <1>B, <1>G, <2>1, <2>2 DEF Joining
  <2> QED
    BY <1>g, <2>3, Joined
<1>19. G \cup {p} \in SUBSET Addr
  BY <1>2, <1>6, <1>B, <1>G
<1> QED
  BY <1>0, <1>7, <1>8, <1>11, <1>12, <1>14, <1>18, <1>19 DEF Settled, Reinserted


(* coalesce_blocks joins the block with the one behind it. *)
LEMMA JoinedDown ==
  ASSUME NEW h, NEW L, NEW F, NEW b, Loose(h, L, F, b), b = First \/ h.mem[b].pal = 1,
         NEW n, n = b + h.mem[b].sz, n # Epilogue(h), h.mem[n].al # 1,
         NEW c, c = JoinDown(h, b), c.h.damage = "none"
  PROVE  Settled(h, c.h, L, c.b)
<1>0. PICK m : m = h.mem
  OBVIOUS
<1>e. PICK e : e = Epilogue(h)
  OBVIOUS
<1>B. PICK B : B = F \cup {b}
  OBVIOUS
<1>1. /\ h \in HeapType /\ h.pages \in 1..Pages /\ Blocks(m, L, B, e) /\ b \notin F /\ Apart(m, F)
      /\ Linked(m, h.nxt, h.prv, h.lists, F)
  BY <1>0, <1>e, <1>B DEF Loose
<1>2. /\ e \in Nat /\ e < End /\ End \in Nat /\ m \in [Addr -> Info]
      /\ \A d \in L \cup B :
           /\ d \in Nat /\ d \in Addr /\ m[d].sz \in Nat /\ m[d].sz >= 4 /\ m[d].sz % 2 = 0 /\ d + m[d].sz <= e
           /\ d + m[d].sz \in L \cup B \cup {e} /\ d < e /\ d >= 5
           /\ \A k \in L \cup B \cup {e} : d < k => d + m[d].sz <= k
  BY <1>1, BlockFacts
<1>t. PICK bs \in Nat : bs = m[b].sz
  BY <1>2, <1>B
<1>3. n \in F /\ b \in B /\ b \in Nat /\ bs >= 4 /\ bs % 2 = 0 /\ n = b + bs
  <2>1. b \in B /\ b \in Nat /\ bs >= 4 /\ bs % 2 = 0 /\ n = b + bs
    BY <1>0, <1>2, <1>B, <1>t
  <2>2. n \in L \cup B \cup {e} /\ n # e /\ m[n].al # 1 /\ n # b
    BY <1>0, <1>2, <1>e, <1>t, <2>1
  <2>3. n \notin L
    BY <1>1, <2>2 DEF Blocks, Marked
  <2> QED
    BY <1>B, <2>1, <2>2, <2>3
<1>s. PICK ns \in Nat : ns = m[n].sz
  BY <1>2, <1>3, <1>B
<1>y. PICK y : y = n + ns
  BY ZenonT(60)
<1>4. /\ n \in Nat /\ y \in Nat /\ n \in B /\ ns >= 4 /\ ns % 2 = 0 /\ y <= e
      /\ y \in L \cup B \cup {e} /\ m[y - 1].sz = ns
  <2>1. n \in B
    BY <1>3, <1>B
  <2>2. m[n + m[n].sz - 1].sz = m[n].sz
    BY <1>1, <2>1 DEF Blocks, Marked
  <2>5. n \in Nat /\ ns \in Nat
    BY <1>2, <2>1
  <2>4. n + m[n].sz - 1 = y - 1
    BY ONLY <1>s, <1>y, <2>5
  <2>3. m[y - 1].sz = ns
    BY ONLY Zenon, <1>s, <2>2, <2>4
  <2> QED
    BY <1>2, <1>s, <1>y, <2>1, <2>3
<1>5. b + 4 <= y /\ y < End /\ y - b = bs + ns /\ (y - b) % 2 = 0 /\ n + ns - 1 = y - 1
  <2>1. b + 4 <= y /\ y < End /\ y - b = bs + ns /\ n + ns - 1 = y - 1
    BY <1>2, <1>3, <1>4, <1>y
  <2>2. (bs + ns) % 2 = 0
    BY <1>3, <1>4
  <2> QED
    BY <2>1, <2>2
<1>f. PICK f : f = y - 1
  OBVIOUS
<1>6. b \in Addr /\ b + 1 \in Addr /\ b + 2 \in Addr /\ f \in Addr /\ b # f /\ bs + ns \in 0..End /\ bs + ns \in 1..End
  BY <1>3, <1>4, <1>5, <1>f, InBlock
<1>h. PICK h1 : h1 = JoinWords(h, b, f, bs + ns, m[b].pal)
  OBVIOUS
<1>7. /\ h1 \in HeapType /\ h1.nxt = h.nxt /\ h1.prv = h.prv
      /\ h1.lists = h.lists /\ h1.pages = h.pages /\ h1.damage = h.damage
      /\ h1.mem[b].sz = bs + ns /\ h1.mem[b].al = h.mem[b].al /\ h1.mem[b].pal = h.mem[b].pal
      /\ h1.mem[f].sz = bs + ns
      /\ \A a \in Addr : a # b /\ a # f => h1.mem[a] = h.mem[a]
  <2>1. PICK v \in Bit : v = m[b].pal
    BY <1>2, <1>6 DEF Info
  <2>2. PICK new \in 0..End : new = bs + ns
    BY <1>6
  <2>3. h1 = JoinWords(h, b, f, new, v)
    BY <1>h, <2>1, <2>2
  <2>4. OnlyJoined(h, b, f, new, h1)
    BY ONLY <1>1, <1>6, <2>3, new \in 0..End, v \in Bit, JoinFields
  <2> QED
    BY <2>2, <2>4 DEF OnlyJoined
<1>j. PICK h2 : h2 = DeleteFreeblock(h1, n, ns)
  OBVIOUS
<1>g. PICK g : g = InsertBlock(h2, b)
  OBVIOUS
<1>8. c.h = Damaged(g, ListIs(h, ns, <<n>>), "unlink") /\ c.b = b
  <2>1. c = [h |-> Damaged(InsertBlock(DeleteFreeblock(
                     JoinWords(h, b, Foot(h, n), m[b].sz + m[n].sz, m[b].pal), n, m[Foot(h, n)].sz), b),
                     ListIs(h, m[n].sz, <<n>>), "unlink"), b |-> b]
    BY <1>0 DEF JoinDown, JoinWords
  <2>2. Foot(h, n) = f /\ m[f].sz = ns
    BY ZenonT(60), <1>0, <1>4, <1>5, <1>f, <1>s DEF Foot
  <2>3. c = [h |-> Damaged(InsertBlock(DeleteFreeblock(h1, n, ns), b), ListIs(h, ns, <<n>>), "unlink"), b |-> b]
    BY <1>s, <1>t, <1>h, <2>1, <2>2
  <2> QED
    BY ONLY <1>j, <1>g, <2>3
<1>9. ns \in h1.lists /\ n \in Pointer
  BY <1>1, <1>2, <1>3, <1>4, <1>7, <1>s, Names DEF Linked
<1>10. h2 \in HeapType /\ h2.mem = h1.mem /\ h2.pages = h1.pages /\ h2.damage = h1.damage
  BY ONLY <1>7, <1>9, <1>j, DeleteFields
<1>11. g \in HeapType
  <2>1. h2.mem[b].sz \in 1..End
    BY <1>6, <1>7, <1>10
  <2> QED
    BY <1>6, <1>10, <1>g, <2>1, InsertType
<1>12. ListIs(h, ns, <<n>>) /\ c.h = g
  BY <1>8, <1>11, Intact
<1>13. h1.nxt[-ns] = n /\ h1.nxt[n] = -ns
  BY <1>7, <1>12, ListIsFacts
<1>14. /\ h2.pages = h1.pages /\ h2.damage = h1.damage
       /\ Linked(m, h2.nxt, h2.prv, h2.lists, F \ {n})
  <2>1. F \in SUBSET Addr /\ Linked(m, h1.nxt, h1.prv, h1.lists, F)
    BY <1>1, <1>2, <1>7, <1>B
  <2>2. n \in F /\ h1 \in HeapType
    BY <1>3, <1>7
  <2>3. Linked(m, h2.nxt, h2.prv, h2.lists, F \ {n})
    BY ONLY <1>13, <1>j, <1>s, <2>1, <2>2, OneCleared
  <2> QED
    BY <1>10, <2>3
<1>G. PICK G : G = {d \in F : ~(b <= d /\ d < y)}
  OBVIOUS
<1>15. G = F \ {n} /\ \A d \in L : ~(b < d /\ d < y)
  <2>1. \A d \in L \cup B : d \in Nat /\ (d <= b \/ n <= d) /\ (d <= n \/ y <= d)
    BY <1>2, <1>3, <1>4, <1>s, <1>t, <1>y
  <2>2. n \notin L
    BY <1>1, <1>4 DEF Blocks
  <2>3. \A d \in F : d # n => ~(b <= d /\ d < y)
    <3> SUFFICES ASSUME NEW d \in F, d # n PROVE ~(b <= d /\ d < y)
      OBVIOUS
    <3>1. d \in Nat /\ d # b /\ (d <= b \/ n <= d) /\ (d <= n \/ y <= d)
      BY <1>1, <1>B, <2>1
    <3> QED
      BY <1>3, <1>4, <3>1
  <2>4. b <= n /\ n < y
    BY <1>3, <1>4, <1>y
  <2>5. ASSUME NEW d \in L PROVE ~(b < d /\ d < y)
    <3>1. d \in Nat /\ d # n /\ (d <= b \/ n <= d) /\ (d <= n \/ y <= d)
      BY <2>1, <2>2
    <3> QED
      BY <1>3, <1>4, <3>1
  <2> QED
    BY <1>G, <2>3, <2>4, <2>5
<1>16. y \in B => m[y].pal = 1
  <2>1. y \in B => y \in F
    BY <1>3, <1>4, <1>5, <1>B
  <2>2. n + m[n].sz = y
    BY <1>s, <1>y
  <2> QED
    BY <1>1, <1>3, <2>1, <2>2 DEF Apart
<1>20. \A d \in F : d + m[d].sz = b => m[b].pal = 1
  <2> SUFFICES ASSUME NEW d \in F, d + m[d].sz = b, b = First PROVE FALSE
    BY <1>0
  <2>1. d \in Nat /\ d >= 5 /\ m[d].sz \in Nat /\ m[d].sz >= 4
    BY <1>2, <1>B
  <2> QED
    BY <2>1 DEF First
<1>17. /\ \A a \in Addr : a \notin b..(y - 1) => h2.mem[a] = m[a]
       /\ h2.mem[b].al = 0 /\ h2.mem[b].pal = m[b].pal /\ h2.mem[b].sz = y - b /\ h2.mem[y - 1].sz = y - b
  <2>1. b \in b..(y - 1) /\ f \in b..(y - 1)
    BY <1>3, <1>4, <1>5, <1>f
  <2>2. m[b].al = 0
    BY <1>1, <1>3 DEF Blocks, Marked
  <2> QED
    BY <1>0, <1>5, <1>7, <1>10, <1>f, <2>1, <2>2
<1>18. Reinserted(h, h2, g, L, G \cup {b})
  <2>1. b <= b /\ b < y
    BY <1>3, <1>4, <1>5
  <2>2. h2.pages = h.pages /\ Linked(m, h2.nxt, h2.prv, h2.lists, G)
    BY <1>7, <1>14, <1>15
  <2>3. Joining(h, h2, L, F, b, b, y, G)
    BY <1>0, <1>1, <1>3, <1>4, <1>5, <1>10, <1>15, <1>16, <1>17, <1>20, <1>e, <1>B, <1>G, <2>1, <2>2 DEF Joining
  <2> QED
    BY <1>g, <2>3, Joined
<1>19. G \cup {b} \in SUBSET Addr
  BY <1>2, <1>6, <1>B, <1>G
<1> QED
  BY <1>0, <1>7, <1>8, <1>11, <1>12, <1>14, <1>18, <1>19 DEF Settled, Reinserted


(* coalesce_blocks joins the block with those on both sides. *)
LEMMA JoinedBoth ==
  ASSUME NEW h, NEW L, NEW F, NEW b, Loose(h, L, F, b), h.mem[b].pal # 1,
         NEW n, n = b + h.mem[b].sz, n # Epilogue(h), h.mem[n].al # 1,
         NEW c, c = JoinBoth(h, b), c.h.damage = "none"
  PROVE  Settled(h, c.h, L, c.b)
<1>0. PICK m : m = h.mem
  OBVIOUS
<1>e. PICK e : e = Epilogue(h)
  OBVIOUS
<1>B. PICK B : B = F \cup {b}
  OBVIOUS
<1>1. /\ h \in HeapType /\ h.pages \in 1..Pages /\ Blocks(m, L, B, e) /\ b \notin F /\ Apart(m, F)
      /\ Linked(m, h.nxt, h.prv, h.lists, F)
  BY <1>0, <1>e, <1>B DEF Loose
<1>2. /\ e \in Nat /\ e < End /\ End \in Nat /\ m \in [Addr -> Info]
      /\ \A d \in L \cup B :
           /\ d \in Nat /\ d \in Addr /\ m[d].sz \in Nat /\ m[d].sz >= 4 /\ m[d].sz % 2 = 0 /\ d + m[d].sz <= e
           /\ d + m[d].sz \in L \cup B \cup {e} /\ d < e /\ d >= 5
           /\ \A k \in L \cup B \cup {e} : d < k => d + m[d].sz <= k
  BY <1>1, BlockFacts
<1>p. PICK p : p = b - m[b - 1].sz
  OBVIOUS
<1>3. p \in F /\ p + m[p].sz = b
  <2>1. Blocks(m, L, F \cup {b}, e) /\ m[b].pal # 1
    BY <1>0, <1>1, <1>B
  <2>2. b - m[b - 1].sz \in F /\ (b - m[b - 1].sz) + m[b - m[b - 1].sz].sz = b
    BY ONLY <2>1, Above
  <2> QED
    BY <1>p, <2>2
<1>r. PICK ps \in Nat : ps = m[p].sz
  BY <1>2, <1>3, <1>B
<1>t. PICK bs \in Nat : bs = m[b].sz
  BY <1>2, <1>B
<1>4. /\ p \in Nat /\ b \in Nat /\ p + ps = b /\ n = b + bs /\ ps >= 4 /\ bs >= 4
      /\ ps % 2 = 0 /\ bs % 2 = 0 /\ p \in B /\ b \in B
  BY <1>0, <1>2, <1>3, <1>r, <1>t, <1>B
<1>5. n \in F /\ n \in B /\ n # p
  <2>2. n \in L \cup B \cup {e} /\ n # e /\ m[n].al # 1 /\ n # b
    BY <1>0, <1>2, <1>e, <1>t, <1>4
  <2>3. n \notin L
    BY <1>1, <2>2 DEF Blocks, Marked
  <2> QED
    BY <1>4, <1>B, <2>2, <2>3
<1>s. PICK ns \in Nat : ns = m[n].sz
  BY <1>2, <1>5, <1>B
<1>y. PICK y : y = n + ns
  BY ZenonT(60)
<1>6. /\ n \in Nat /\ y \in Nat /\ ns >= 4 /\ ns % 2 = 0 /\ y <= e
      /\ y \in L \cup B \cup {e} /\ m[y - 1].sz = ns
  <2>2. m[n + m[n].sz - 1].sz = m[n].sz
    BY <1>1, <1>5 DEF Blocks, Marked
  <2>1. n \in Nat
    BY SMTT(60), <1>2, <1>5
  <2>3. m[y - 1].sz = ns
    BY <1>s, <1>y, <2>1, <2>2
  <2> QED
    BY <1>2, <1>5, <1>s, <1>y, <2>3
<1>N. PICK new : new = ps + bs + ns
  OBVIOUS
<1>7. p + 4 <= y /\ y < End /\ y - p = new /\ (y - p) % 2 = 0 /\ n + ns - 1 = y - 1
  <2>1. p + 4 <= y /\ y < End /\ y - p = new /\ n + ns - 1 = y - 1
    BY SMTT(60), <1>2, <1>4, <1>6, <1>y, <1>N
  <2>2. (ps + bs + ns) % 2 = 0
    BY <1>4, <1>6
  <2> QED
    BY <1>N, <2>1, <2>2
<1>f. PICK f : f = y - 1
  OBVIOUS
<1>8. p \in Addr /\ p + 1 \in Addr /\ p + 2 \in Addr /\ f \in Addr /\ p # f /\ new \in 0..End /\ new \in 1..End
  BY <1>4, <1>6, <1>7, <1>f, InBlock
<1>h. PICK h1 : h1 = JoinWords(h, p, f, new, m[p].pal)
  OBVIOUS
<1>9. /\ h1 \in HeapType /\ h1.nxt = h.nxt /\ h1.prv = h.prv
      /\ h1.lists = h.lists /\ h1.pages = h.pages /\ h1.damage = h.damage
      /\ h1.mem[p].sz = new /\ h1.mem[p].al = h.mem[p].al /\ h1.mem[p].pal = h.mem[p].pal
      /\ h1.mem[f].sz = new
      /\ \A a \in Addr : a # p /\ a # f => h1.mem[a] = h.mem[a]
  <2>1. PICK v \in Bit : v = m[p].pal
    BY <1>2, <1>8 DEF Info
  <2>3. h1 = JoinWords(h, p, f, new, v)
    BY <1>h, <2>1
  <2>4. OnlyJoined(h, p, f, new, h1)
    BY ONLY <1>1, <1>8, <2>3, v \in Bit, JoinFields
  <2> QED
    BY <2>4 DEF OnlyJoined
<1>j. PICK h2 : h2 = DeleteFreeblock(h1, p, ps)
  OBVIOUS
<1>k. PICK h3 : h3 = DeleteFreeblock(h2, n, ns)
  OBVIOUS
<1>g. PICK g : g = InsertBlock(h3, p)
  OBVIOUS
<1>o. PICK ok : ok = IF ps = ns THEN ListIs(h, ps, <<p, n>>) ELSE ListIs(h, ps, <<p>>) /\ ListIs(h, ns, <<n>>)
  OBVIOUS
<1>10. c.h = Damaged(g, ok, "unlink") /\ c.b = p
  <2>1. Foot(h, n) = f /\ m[f].sz = ns
    BY Zenon, <1>0, <1>6, <1>7, <1>f, <1>s DEF Foot
  <2>2. c = [h |-> Damaged(InsertBlock(DeleteFreeblock(DeleteFreeblock(
                     JoinWords(h, p, Foot(h, n), m[p].sz + m[b].sz + m[Foot(h, n)].sz, m[p].pal),
                       p, m[p].sz), n, m[Foot(h, n)].sz), p),
                     IF m[p].sz = m[Foot(h, n)].sz THEN ListIs(h, m[p].sz, <<p, n>>)
                     ELSE ListIs(h, m[p].sz, <<p>>) /\ ListIs(h, m[Foot(h, n)].sz, <<n>>), "unlink"), b |-> p]
    BY Zenon, <1>0, <1>p DEF JoinBoth, JoinWords
  <2>3. c = [h |-> Damaged(InsertBlock(DeleteFreeblock(DeleteFreeblock(h1, p, ps), n, ns), p),
                     IF ps = ns THEN ListIs(h, ps, <<p, n>>)
                     ELSE ListIs(h, ps, <<p>>) /\ ListIs(h, ns, <<n>>), "unlink"), b |-> p]
    BY <1>r, <1>t, <1>h, <1>N, <2>1, <2>2
  <2> QED
    BY <1>j, <1>k, <1>g, <1>o, <2>3
<1>11. ps \in h1.lists /\ ns \in h1.lists /\ p \in Pointer /\ n \in Pointer
  BY <1>1, <1>2, <1>3, <1>4, <1>5, <1>9, <1>r, <1>s, Names DEF Linked
<1>12. h2 \in HeapType /\ h2.mem = h1.mem /\ h2.pages = h1.pages /\ h2.damage = h1.damage /\ h2.lists = h1.lists
  BY ONLY <1>9, <1>11, <1>j, DeleteFields
<1>13. h3 \in HeapType /\ h3.mem = h1.mem /\ h3.pages = h1.pages /\ h3.damage = h1.damage
  BY ONLY <1>11, <1>12, <1>k, DeleteFields
<1>14. g \in HeapType
  <2>1. h3.mem[p].sz \in 1..End
    BY <1>8, <1>9, <1>13
  <2> QED
    BY <1>8, <1>13, <1>g, <2>1, InsertType
<1>15. ok /\ c.h = g
  BY <1>10, <1>14, Intact
<1>16. Linked(m, h3.nxt, h3.prv, h3.lists, F \ {p, n})
  <2>1. F \in SUBSET Addr /\ Linked(m, h1.nxt, h1.prv, h1.lists, F)
    BY <1>1, <1>2, <1>9, <1>B
  <2>2. p \in F /\ n \in F /\ h1 \in HeapType
    BY <1>3, <1>5, <1>9
  <2>3. CASE ps = ns
    <3>1. h1.nxt[-ps] = p /\ h1.nxt[p] = n /\ h1.nxt[n] = -ps
      <4>1. ListIs(h, ps, <<p, n>>)
        BY <1>15, <1>o, <2>3
      <4>2. h.nxt[-ps] = p /\ h.nxt[p] = n /\ h.nxt[n] = -ps
        BY <4>1, ListIsFacts
      <4> QED
        BY <1>9, <4>2
    <3>2. h3 = DeleteFreeblock(h2, n, ps) /\ ps = m[n].sz
      BY <1>k, <1>s, <2>3
    <3> QED
      BY ONLY <1>j, <1>r, <2>1, <2>2, <3>1, <3>2, TwoCleared
  <2>4. CASE ps # ns
    <3>1. h1.nxt[-ps] = p /\ h1.nxt[p] = -ps /\ h1.nxt[-ns] = n /\ h1.nxt[n] = -ns
      <4>1. ListIs(h, ps, <<p>>) /\ ListIs(h, ns, <<n>>)
        BY <1>15, <1>o, <2>4
      <4>2. h.nxt[-ps] = p /\ h.nxt[p] = -ps /\ h.nxt[-ns] = n /\ h.nxt[n] = -ns
        BY <4>1, ListIsFacts
      <4> QED
        BY <1>9, <4>2
    <3>2. Linked(m, h2.nxt, h2.prv, h2.lists, F \ {p})
      BY ONLY <1>j, <1>r, <2>1, <2>2, <3>1, OneCleared
    <3>3. \A x \in Pointer : x # -ps => h2.nxt[x] = h1.nxt[x]
      <4>1. \A x \in Pointer : h2.nxt[x] = IF x = -ps THEN h1.nxt[p] ELSE h1.nxt[x]
        BY ONLY <1>9, <1>11, <1>j, DeleteFields
      <4> QED
        BY <4>1
    <3>4. -ns # -ps /\ -ns \in Pointer /\ n # -ps
      <4>1. ps \in 1..End /\ ns \in 1..End
        BY <1>9, <1>11 DEF HeapType
      <4>2. n \in Nat /\ ps >= 4
        BY <1>4, <1>6
      <4> QED
        BY <1>r, <1>s, <2>4, <4>1, <4>2, Names
    <3>5. h2.nxt[-ns] = n /\ h2.nxt[n] = -ns
      BY <1>11, <3>1, <3>3, <3>4
    <3>6. PICK F1 : F1 = F \ {p}
      OBVIOUS
    <3>7. F1 \in SUBSET Addr /\ n \in F1 /\ Linked(m, h2.nxt, h2.prv, h2.lists, F1)
      BY <1>5, <2>1, <3>2, <3>6
    <3>8. Linked(m, h3.nxt, h3.prv, h3.lists, F1 \ {n})
      BY ONLY <1>12, <1>k, <1>s, <3>5, <3>7, OneCleared
    <3>9. F1 \ {n} = F \ {p, n}
      BY <3>6
    <3> QED
      BY <3>8, <3>9
  <2> QED
    BY <2>3, <2>4
<1>G. PICK G : G = {d \in F : ~(p <= d /\ d < y)}
  OBVIOUS
<1>17. G = F \ {p, n} /\ \A d \in L : ~(p < d /\ d < y)
  <2>1. \A d \in L \cup B : d \in Nat /\ (d <= p \/ b <= d) /\ (d <= b \/ n <= d) /\ (d <= n \/ y <= d)
    BY <1>2, <1>4, <1>5, <1>6, <1>r, <1>s, <1>t, <1>y
  <2>2. n \notin L /\ b \notin L
    BY <1>1, <1>4, <1>5 DEF Blocks
  <2>3. \A d \in F : d # p /\ d # n => ~(p <= d /\ d < y)
    <3> SUFFICES ASSUME NEW d \in F, d # p, d # n PROVE ~(p <= d /\ d < y)
      OBVIOUS
    <3>1. d \in Nat /\ d # b /\ (d <= p \/ b <= d) /\ (d <= b \/ n <= d) /\ (d <= n \/ y <= d)
      BY <1>1, <1>B, <2>1
    <3> QED
      BY <1>4, <1>6, <3>1
  <2>4. p <= p /\ p < y /\ p <= n /\ n < y
    BY <1>4, <1>6, <1>y
  <2>5. ASSUME NEW d \in L PROVE ~(p < d /\ d < y)
    <3>1. d \in Nat /\ d # n /\ d # b /\ (d <= p \/ b <= d) /\ (d <= b \/ n <= d) /\ (d <= n \/ y <= d)
      BY <2>1, <2>2
    <3> QED
      BY <1>4, <1>6, <3>1
  <2> QED
    BY <1>G, <2>3, <2>4, <2>5
<1>18. y \in B => m[y].pal = 1
  <2>1. y \in B => y \in F
    BY <1>4, <1>6, <1>y, <1>B
  <2>2. n + m[n].sz = y
    BY <1>s, <1>y
  <2> QED
    BY <1>1, <1>5, <2>1, <2>2 DEF Apart
<1>19. /\ \A a \in Addr : a \notin p..(y - 1) => h3.mem[a] = m[a]
       /\ h3.mem[p].al = 0 /\ h3.mem[p].pal = m[p].pal /\ h3.mem[p].sz = y - p /\ h3.mem[y - 1].sz = y - p
  <2>1. p \in p..(y - 1) /\ f \in p..(y - 1)
    BY <1>4, <1>6, <1>7, <1>f
  <2>2. m[p].al = 0
    BY <1>1, <1>4 DEF Blocks, Marked
  <2> QED
    BY <1>0, <1>7, <1>9, <1>13, <1>f, <2>1, <2>2
<1>20. Reinserted(h, h3, g, L, G \cup {p})
  <2>1. p <= b /\ b < y /\ p # b
    BY <1>4, <1>6, <1>y
  <2>2. h3.pages = h.pages /\ Linked(m, h3.nxt, h3.prv, h3.lists, G)
    BY <1>9, <1>13, <1>16, <1>17
  <2>3. Joining(h, h3, L, F, b, p, y, G)
    BY <1>0, <1>1, <1>4, <1>6, <1>7, <1>13, <1>17, <1>18, <1>19, <1>e, <1>B, <1>G, <2>1, <2>2 DEF Joining
  <2> QED
    BY <1>g, <2>3, Joined
<1>21. G \cup {p} \in SUBSET Addr
  BY <1>2, <1>8, <1>B, <1>G
<1> QED
  BY <1>0, <1>9, <1>10, <1>13, <1>14, <1>15, <1>20, <1>21 DEF Settled, Reinserted

(* coalesce_blocks puts the blocks in order again. *)
LEMMA Coalesced ==
  ASSUME NEW h, NEW L, NEW F, NEW b, Loose(h, L, F, b), NEW c, c = Coalesce(h, b), c.h.damage = "none"
  PROVE  Settled(h, c.h, L, c.b)
<1>y. PICK y : y = b + h.mem[b].sz
  OBVIOUS
<1>a. PICK above \in BOOLEAN : above = (b # First /\ h.mem[b].pal # 1)
  OBVIOUS
<1>w. PICK below \in BOOLEAN : below = (y # Epilogue(h) /\ h.mem[y].al # 1)
  BY Zenon
<1>1. c = CASE above /\ ~below  -> JoinUp(h, b)
            [] ~above /\ below  -> JoinDown(h, b)
            [] above /\ below   -> JoinBoth(h, b)
            [] ~above /\ ~below -> [h |-> InsertBlock(h, b), b |-> b]
  BY Zenon, <1>y, <1>a, <1>w DEF Coalesce
<1>2. CASE above /\ ~below
  BY <1>1, <1>2, <1>a, <1>w, <1>y, JoinedUp
<1>3. CASE ~above /\ below
  BY <1>1, <1>3, <1>a, <1>w, <1>y, JoinedDown
<1>4. CASE above /\ below
  BY <1>1, <1>4, <1>a, <1>w, <1>y, JoinedBoth
<1>5. CASE ~above /\ ~below
  <2>0. PICK m : m = h.mem
    OBVIOUS
  <2>e. PICK e : e = Epilogue(h)
    OBVIOUS
  <2>B. PICK B : B = F \cup {b}
    OBVIOUS
  <2>g. PICK g : g = InsertBlock(h, b)
    OBVIOUS
  <2>1. c.h = g /\ c.b = b
    BY <1>1, <1>5, <2>g
  <2>2. /\ h \in HeapType /\ h.pages \in 1..Pages /\ Blocks(m, L, B, e) /\ b \notin F /\ Apart(m, F)
        /\ Linked(m, h.nxt, h.prv, h.lists, F)
    BY <2>0, <2>e, <2>B DEF Loose
  <2>3. /\ e \in Nat /\ e < End /\ End \in Nat /\ m \in [Addr -> Info]
        /\ \A d \in L \cup B :
             /\ d \in Nat /\ d \in Addr /\ m[d].sz \in Nat /\ m[d].sz >= 4 /\ m[d].sz % 2 = 0 /\ d + m[d].sz <= e
             /\ d + m[d].sz \in L \cup B \cup {e} /\ d < e /\ d >= 5
             /\ \A k \in L \cup B \cup {e} : d < k => d + m[d].sz <= k
    BY <2>2, BlockFacts
  <2>4. PICK bs \in Nat : bs = m[b].sz
    BY <2>3, <2>B
  <2>5. /\ b \in B /\ b \in Nat /\ y \in Nat /\ y = b + bs /\ bs >= 4 /\ bs % 2 = 0 /\ y - b = bs /\ y <= e
        /\ b < y /\ b <= b /\ y \in L \cup B \cup {e}
    BY <1>y, <2>0, <2>3, <2>4, <2>B
  <2>6. \A d \in L \cup B : d # b => ~(b <= d /\ d < y)
    BY <2>3, <2>4, <2>5
  <2>7. {d \in F : ~(b <= d /\ d < y)} = F /\ \A d \in L : ~(b < d /\ d < y)
    <3>1. \A d \in F : ~(b <= d /\ d < y)
      BY <2>2, <2>6, <2>B
    <3>2. b \notin L
      BY <2>2, <2>5 DEF Blocks
    <3> QED
      BY <2>3, <2>5, <2>6, <3>1, <3>2
  <2>8. m[b].al = 0 /\ m[y - 1].sz = bs
    <3>1. m[b].al = 0 /\ m[b + m[b].sz - 1].sz = m[b].sz
      BY <2>2, <2>5 DEF Blocks, Marked
    <3>2. b + m[b].sz - 1 = y - 1
      BY <2>4, <2>5
    <3> QED
      BY <2>4, <3>1, <3>2
  <2>9. y \notin B
    <3>1. \A d \in B : d # e /\ m[d].al = 0
      BY <2>2, <2>3 DEF Blocks, Marked
    <3>2. y = e \/ m[y].al = 1
      BY <1>5, <1>w, <2>0, <2>e
    <3> QED
      BY <3>1, <3>2
  <2>10. \A d \in F : d + m[d].sz = b => m[b].pal = 1
    <3> SUFFICES ASSUME NEW d \in F, d + m[d].sz = b, b = First PROVE FALSE
      BY <1>5, <1>a, <2>0
    <3>1. d \in Nat /\ d >= 5 /\ m[d].sz \in Nat /\ m[d].sz >= 4
      BY <2>3, <2>B
    <3> QED
      BY <3>1 DEF First
  <2>11. Joining(h, h, L, F, b, b, y, F)
    BY <2>0, <2>e, <2>B, <2>2, <2>4, <2>5, <2>7, <2>8, <2>9, <2>10 DEF Joining
  <2>12. Reinserted(h, h, g, L, F \cup {b})
    BY <2>g, <2>11, Joined
  <2>13. F \cup {b} \in SUBSET Addr
    BY <2>3, <2>B
  <2> QED
    BY <2>1, <2>12, <2>13 DEF Settled, Reinserted
<1> QED
  BY <1>2, <1>3, <1>4, <1>5


----------------------------------------------------------------------------
(* Allocating *)

(* The words of one block are not those of another. *)
LEMMA Elsewhere ==
  ASSUME NEW m, NEW L, NEW B, NEW e, Blocks(m, L, B, e),
         NEW b \in L \cup B, NEW d \in L \cup B, b # d, NEW a \in d..(d + m[d].sz - 1)
  PROVE  a \in Addr /\ a \notin b..(b + m[b].sz - 1)
<1>1. /\ e \in Nat /\ e < End /\ End \in Nat /\ b \in Nat /\ d \in Nat /\ m[b].sz \in Nat /\ m[d].sz \in Nat
      /\ d + m[d].sz <= e /\ (b < d => b + m[b].sz <= d) /\ (d < b => d + m[d].sz <= b)
  BY BlockFacts
<1>2. PICK bs \in Nat, ds \in Nat : bs = m[b].sz /\ ds = m[d].sz
  BY <1>1
<1>3. a \in d..(d + ds - 1)
  BY <1>2
<1>4. a \in Addr /\ a \notin b..(b + bs - 1)
  BY <1>1, <1>2, <1>3 DEF Addr
<1> QED
  BY <1>2, <1>4

(* Only words of the block b differ, but for its size and its bit. *)
Inside(h, h1, b) ==
  /\ h1 \in HeapType /\ h1.nxt = h.nxt /\ h1.prv = h.prv
  /\ h1.lists = h.lists /\ h1.pages = h.pages /\ h1.damage = h.damage
  /\ h1.mem[b].sz = h.mem[b].sz /\ h1.mem[b].pal = h.mem[b].pal
  /\ \A a \in Addr : a \notin b..(b + h.mem[b].sz - 1) => h1.mem[a] = h.mem[a]

(* The block b is the client's, with a request of rq. *)
Handed(h, h1, g, L, F, b, rq) ==
  /\ Sound(g, L \cup {b}, F \ {b}) /\ g.pages = h.pages /\ g.damage = h.damage /\ Keeps(h.mem, g.mem, L)
  /\ g.mem[b].rq = rq /\ g.mem[b].sz = h.mem[b].sz /\ g.mem[b].al = 1
  /\ \A a \in (b + 3)..(b + h.mem[b].sz - 1) : g.mem[a] = h1.mem[a]

(* allocate_block makes a free block the client's. *)
LEMMA Allocated ==
  ASSUME NEW h, NEW L, NEW F, Sound(h, L, F), NEW b \in F, NEW rq \in 0..End, rq < h.mem[b].sz,
         NEW h1, Inside(h, h1, b), NEW g, g = AllocateBlock(h1, b, rq)
  PROVE  Handed(h, h1, g, L, F, b, rq)
<1>0. PICK m : m = h.mem
  OBVIOUS
<1>e. PICK e : e = Epilogue(h)
  OBVIOUS
<1>1. /\ h \in HeapType /\ h.pages \in 1..Pages /\ Blocks(m, L, F, e) /\ Apart(m, F)
      /\ Linked(m, h.nxt, h.prv, h.lists, F)
  BY <1>0, <1>e DEF Sound
<1>2. /\ e \in Nat /\ e < End /\ End \in Nat /\ m \in [Addr -> Info] /\ e \in Addr
      /\ \A d \in L \cup F :
           /\ d \in Nat /\ d \in Addr /\ m[d].sz \in Nat /\ m[d].sz >= 4 /\ m[d].sz % 2 = 0 /\ d + m[d].sz <= e
           /\ d + m[d].sz \in L \cup F \cup {e} /\ d < e /\ d >= 5
           /\ \A k \in L \cup F \cup {e} : d < k => d + m[d].sz <= k
  <2>1. e \in Addr
    BY <1>1 DEF Blocks
  <2> QED
    BY <1>1, <2>1, BlockFacts
<1>t. PICK bs \in Nat : bs = m[b].sz
  BY <1>2
<1>y. PICK y : y = b + bs
  OBVIOUS
<1>3. /\ b \in Nat /\ y \in Nat /\ bs >= 4 /\ y <= e /\ y \in L \cup F \cup {e} /\ y < End
      /\ b + m[b].sz = y /\ b + m[b].sz - 1 = y - 1 /\ y > b + 2 /\ e \in Nat /\ e < End /\ End \in Nat
  BY <1>2, <1>t, <1>y
<1>4. b \in Addr /\ b + 1 \in Addr /\ b + 2 \in Addr /\ y \in Addr
  BY <1>3 DEF Addr
<1>5. /\ h1 \in HeapType /\ h1.nxt = h.nxt /\ h1.prv = h.prv
      /\ h1.lists = h.lists /\ h1.pages = h.pages /\ h1.damage = h.damage
      /\ h1.mem[b].sz = bs /\ h1.mem[b].pal = m[b].pal
      /\ (\A a \in Addr : a \notin b..(y - 1) => h1.mem[a] = m[a])
      /\ Epilogue(h1) = e
  BY <1>0, <1>3, <1>t, <1>e DEF Inside, Epilogue
<1>6. h1.mem[y] = m[y] /\ y \notin b..(y - 1) /\ b \in b..(y - 1)
  <2>1. y \notin b..(y - 1) /\ b \in b..(y - 1)
    BY <1>3
  <2> QED
    BY <1>4, <1>5, <2>1
<1>f. PICK f : f = y + h1.mem[y].sz - 1
  OBVIOUS
<1>7. y # e => f \in Addr /\ f >= y /\ f \notin b..(y - 1)
  <2> SUFFICES ASSUME y # e PROVE f \in Addr /\ f >= y /\ f \notin b..(y - 1)
    OBVIOUS
  <2>1. PICK ys \in Nat : ys = m[y].sz
    BY <1>2, <1>3
  <2>2. ys >= 4 /\ y + ys <= e /\ f = y + ys - 1
    BY <1>2, <1>3, <1>6, <1>f, <2>1
  <2> QED
    BY <1>3, <2>2 DEF Addr
<1>8. h1.prv[b] # b /\ h1.nxt[b] # b
  <2>1. PICK S \in SUBSET F : S = {b}
    OBVIOUS
  <2>2. (\E d \in S : h.nxt[d] \notin S) /\ (\E d \in S : h.prv[d] \notin S)
    BY <1>1, <2>1 DEF Linked
  <2> QED
    BY <1>5, <2>1, <2>2
<1>9. /\ g \in HeapType /\ g.lists = h1.lists /\ g.pages = h1.pages /\ g.damage = h1.damage
      /\ \A x \in Pointer : g.nxt[x] = IF x = b THEN Null ELSE IF x = h1.prv[b] THEN h1.nxt[b] ELSE h1.nxt[x]
      /\ \A x \in Pointer : g.prv[x] = IF x = b THEN Null ELSE IF x = h1.nxt[b] THEN h1.prv[b] ELSE h1.prv[x]
      /\ g.mem[b].al = 1 /\ g.mem[b].pal = h1.mem[b].pal /\ g.mem[b].sz = h1.mem[b].sz /\ g.mem[b].rq = rq
      /\ \A a \in Addr \ {b, b + 1, b + 2} :
           g.mem[a] = IF y # Epilogue(h1) /\ a \in {y, f} THEN [h1.mem[a] EXCEPT !.pal = 1] ELSE h1.mem[a]
  <2>1. y = b + h1.mem[b].sz /\ (y # Epilogue(h1) => f \in Addr /\ f >= y)
    BY <1>5, <1>7, <1>y
  <2> QED
    BY ONLY SMTT(60), <1>3, <1>4, <1>5, <1>8, <1>f, <2>1, rq \in 0..End, g = AllocateBlock(h1, b, rq), AllocateFields
<1>m. PICK m2 : m2 = g.mem
  OBVIOUS
<1>10. m2 \in [Addr -> Info]
  BY <1>9, <1>m DEF HeapType
<1>11. ASSUME NEW a \in Addr, a \notin b..(y - 1)
       PROVE  /\ m2[a].al = m[a].al /\ m2[a].sz = m[a].sz /\ m2[a].rq = m[a].rq
              /\ m2[a].pal = 0 => m[a].pal = 0
  <2>1. a \notin {b, b + 1, b + 2}
    <3>1. b \in b..(y - 1) /\ b + 1 \in b..(y - 1) /\ b + 2 \in b..(y - 1)
      BY <1>3
    <3> QED
      BY <1>11, <3>1
  <2>2. m2[a] = m[a] \/ m2[a] = [m[a] EXCEPT !.pal = 1]
    BY <1>5, <1>9, <1>m, <1>11, <2>1
  <2>3. m[a] \in Info
    BY <1>2
  <2>4. PICK v : v = [m[a] EXCEPT !.pal = 1]
    OBVIOUS
  <2>5. v.al = m[a].al /\ v.pal = 1 /\ v.sz = m[a].sz /\ v.rq = m[a].rq
    BY <2>3, <2>4, WordBit DEF Bit
  <2> QED
    <3>1. CASE m2[a] = m[a]
      BY <3>1
    <3>2. CASE m2[a] = v
      BY <2>5, <3>2
    <3> QED
      BY <2>2, <2>4, <3>1, <3>2
<1>12. y # e => m2[y].pal = 1
  <2>1. y \notin {b, b + 1, b + 2}
    BY <1>3
  <2>2. y # e => m2[y] = [m[y] EXCEPT !.pal = 1]
    BY <1>4, <1>5, <1>6, <1>9, <1>m, <2>1
  <2>3. m[y] \in Info
    BY <1>2, <1>4
  <2>4. PICK v : v = [m[y] EXCEPT !.pal = 1]
    OBVIOUS
  <2>5. v.pal = 1
    BY <2>3, <2>4, WordBit DEF Bit
  <2> QED
    BY <2>2, <2>4, <2>5
<1>13. Blocks(m2, L \cup {b}, F \ {b}, e) /\ Apart(m2, F \ {b})
  <2>1. m2[b].al = 1 /\ m2[b].sz = m[b].sz /\ m2[b].pal = m[b].pal /\ m2[b].rq < m[b].sz
    BY <1>0, <1>5, <1>9, <1>t, <1>m
  <2>2. y = b + m[b].sz
    BY <1>3
  <2> QED
    BY ONLY <1>1, <1>10, <1>11, <1>12, <2>1, <2>2, b \in F, Taken
<1>14. ASSUME NEW d \in L \cup F, d # b PROVE \A a \in d..(d + m[d].sz - 1) : a \in Addr /\ a \notin b..(y - 1)
  <2> TAKE a \in d..(d + m[d].sz - 1)
  <2>1. b \in L \cup F
    OBVIOUS
  <2>2. a \in Addr /\ a \notin b..(b + m[b].sz - 1)
    BY ONLY <1>1, <1>14, <2>1, a \in d..(d + m[d].sz - 1), Elsewhere
  <2> QED
    BY <1>3, <2>2
<1>15. Linked(m2, g.nxt, g.prv, g.lists, F \ {b})
  <2>1. PICK n, p, l, n2, p2 : n = h.nxt /\ p = h.prv /\ l = h.lists /\ n2 = g.nxt /\ p2 = g.prv
    OBVIOUS
  <2>2. F \in SUBSET Addr /\ n2 \in [Pointer -> Pointer] /\ p2 \in [Pointer -> Pointer]
    BY <1>2, <1>9, <2>1 DEF HeapType
  <2>3. /\ \A x \in Pointer : n2[x] = IF x = b THEN Null ELSE IF x = p[b] THEN n[b] ELSE n[x]
        /\ \A x \in Pointer : p2[x] = IF x = b THEN Null ELSE IF x = n[b] THEN p[b] ELSE p[x]
    BY <1>5, <1>9, <2>1
  <2>4. Linked(m, n, p, l, F)
    BY <1>1, <2>1
  <2>5. Linked(m, n2, p2, l, F \ {b})
    BY ONLY <2>2, <2>3, <2>4, b \in F, Removed
  <2>6. \A d \in F \ {b} : m2[d].sz = m[d].sz
    <3> TAKE d \in F \ {b}
    <3>1. d \in d..(d + m[d].sz - 1)
      BY <1>2
    <3>2. d \in Addr /\ d \notin b..(y - 1)
      BY <1>14, <3>1
    <3> QED
      BY <1>11, <3>2
  <2>7. PICK F2 : F2 = F \ {b}
    OBVIOUS
  <2>8. Linked(m2, n2, p2, l, F2)
    BY ONLY <2>5, <2>6, <2>7, LinkedSame
  <2>9. g.lists = l
    BY <1>5, <1>9, <2>1
  <2> QED
    BY <2>1, <2>7, <2>8, <2>9
<1>16. Sound(g, L \cup {b}, F \ {b})
  <2>1. g.pages = h.pages /\ Epilogue(g) = e
    BY <1>5, <1>9, <1>e DEF Epilogue
  <2> QED
    BY <1>1, <1>9, <1>13, <1>15, <1>m, <2>1 DEF Sound
<1>17. Keeps(m, m2, L)
  <2> SUFFICES ASSUME NEW d \in L, NEW a \in d..(d + m[d].sz - 1)
               PROVE  m2[a].al = m[a].al /\ m2[a].sz = m[a].sz /\ m2[a].rq = m[a].rq
    BY DEF Keeps
  <2>1. d # b
    BY <1>1 DEF Blocks
  <2>2. a \in Addr /\ a \notin b..(y - 1)
    BY <1>14, <2>1
  <2> QED
    BY <1>11, <2>2
<1>18. ASSUME NEW a \in (b + 3)..(y - 1) PROVE g.mem[a] = h1.mem[a]
  <2>1. a \in Addr /\ a \notin {b, b + 1, b + 2} /\ a # y
    BY <1>3 DEF Addr
  <2>2. y # e => a # f
    BY <1>3, <1>7
  <2> QED
    BY <1>5, <1>9, <2>1, <2>2
<1>19. g.pages = h.pages /\ g.damage = h.damage /\ g.mem[b].rq = rq /\ g.mem[b].sz = h.mem[b].sz /\ g.mem[b].al = 1
  BY <1>0, <1>5, <1>9, <1>t
<1>20. \A a \in (b + 3)..(b + h.mem[b].sz - 1) : g.mem[a] = h1.mem[a]
  BY <1>0, <1>3, <1>18
<1> QED
  BY <1>0, <1>m, <1>16, <1>17, <1>19, <1>20 DEF Handed


(* What is kept twice is kept. *)
LEMMA KeptTwice ==
  ASSUME NEW m, NEW L, NEW B, NEW e, Blocks(m, L, B, e), NEW L1 \in SUBSET L,
         NEW m1, NEW m2, Keeps(m, m1, L1), Keeps(m1, m2, L1)
  PROVE  Keeps(m, m2, L1)
<1> SUFFICES ASSUME NEW b \in L1, NEW a \in b..(b + m[b].sz - 1)
             PROVE  m2[a].al = m[a].al /\ m2[a].sz = m[a].sz /\ m2[a].rq = m[a].rq
  BY DEF Keeps
<1>1. b \in b..(b + m[b].sz - 1)
  <2>1. b \in Nat /\ m[b].sz \in Nat /\ m[b].sz >= 4
    BY BlockFacts
  <2> QED
    BY <2>1
<1>2. m1[b].sz = m[b].sz
  BY <1>1 DEF Keeps
<1>3. a \in b..(b + m1[b].sz - 1)
  BY <1>2
<1> QED
  BY <1>3 DEF Keeps

(* The size of a block is rounded up, header included. *)
LEMMA BlockSize ==
  ASSUME NEW rq \in Nat
  PROVE  /\ TotalBlockSz(rq) \in Nat /\ TotalBlockSz(rq) >= 4 /\ TotalBlockSz(rq) % 2 = 0
         /\ rq < TotalBlockSz(rq) /\ TotalBlockSz(rq) <= rq + 4
<1>1. CASE rq + 1 < 4
  BY <1>1 DEF TotalBlockSz
<1>2. CASE ~(rq + 1 < 4)
  <2>1. PICK r \in {0, 1} : r = (rq + 1) % 2
    OBVIOUS
  <2>2. TotalBlockSz(rq) = rq + 1 + r
    BY <1>2, <2>1 DEF TotalBlockSz
  <2>3. (rq + 1 + r) % 2 = 0
    BY <2>1
  <2> QED
    BY <1>2, <2>2, <2>3
<1> QED
  BY <1>1, <1>2

(* The block b is the client's, and large enough for its request. *)
Granted(h, g, L, b, rq) ==
  /\ g.pages = h.pages /\ g.damage = h.damage /\ Keeps(h.mem, g.mem, L)
  /\ g.mem[b].rq = rq /\ \E F2 \in SUBSET Addr : Sound(g, L \cup {b}, F2)

(* In the heap h2 the block b has size bs, and its rest is a free block in no *)
(* list.                                                                     *)
Pieces(h, h2, b, bs, z, y) ==
  /\ bs \in Nat /\ bs >= 4 /\ bs % 2 = 0 /\ z = b + bs /\ y = b + h.mem[b].sz /\ y - z >= 4
  /\ h2 \in HeapType /\ h2.nxt = h.nxt /\ h2.prv = h.prv /\ h2.lists = h.lists
  /\ h2.pages = h.pages /\ h2.damage = h.damage
  /\ h2.mem[b].al = 1 /\ h2.mem[b].sz = bs /\ h2.mem[b].pal = h.mem[b].pal /\ h2.mem[b].rq < bs
  /\ h2.mem[z].al = 0 /\ h2.mem[z].pal = 1 /\ h2.mem[z].sz = y - z /\ h2.mem[y - 1].sz = y - z
  /\ \A a \in Addr : a \notin b..(y - 1) => h2.mem[a] = h.mem[a]

(* The blocks are in order again, b with the size bs. *)
Shortened(h, h2, g, L, b, bs) ==
  /\ g.pages = h.pages /\ g.damage = h.damage /\ Keeps(h2.mem, g.mem, L)
  /\ Keeps(h.mem, g.mem, L \ {b}) /\ g.mem[b].rq = h2.mem[b].rq /\ g.mem[b].sz = bs
  /\ \E F2 \in SUBSET Addr : Sound(g, L, F2)

(* The rest of an allocated block is made free. *)
LEMMA SplitOff ==
  ASSUME NEW h, NEW L, NEW F, Sound(h, L, F), NEW b \in L, NEW bs, NEW z, NEW y, NEW h2, Pieces(h, h2, b, bs, z, y),
         NEW g, g = Coalesce(h2, z).h, g.damage = "none"
  PROVE  Shortened(h, h2, g, L, b, bs)
<1> USE DEF Pieces, Shortened
<1>0. PICK m, m2 : m = h.mem /\ m2 = h2.mem
  OBVIOUS
<1>e. PICK e : e = Epilogue(h)
  OBVIOUS
<1>1. /\ h \in HeapType /\ h.pages \in 1..Pages /\ Blocks(m, L, F, e) /\ Apart(m, F)
      /\ Linked(m, h.nxt, h.prv, h.lists, F)
  BY <1>0, <1>e DEF Sound
<1>2. /\ e \in Nat /\ e < End /\ End \in Nat /\ m \in [Addr -> Info]
      /\ \A d \in L \cup F :
           /\ d \in Nat /\ d \in Addr /\ m[d].sz \in Nat /\ m[d].sz >= 4 /\ m[d].sz % 2 = 0 /\ d + m[d].sz <= e
           /\ d + m[d].sz \in L \cup F \cup {e} /\ d < e /\ d >= 5
  BY <1>1, BlockFacts
<1>t. PICK ws \in Nat : ws = m[b].sz
  BY <1>2
<1>3. b \in Nat /\ z \in Nat /\ y \in Nat /\ y = b + ws /\ ws % 2 = 0 /\ z = b + bs
  BY <1>0, <1>2, <1>t
<1>4. z - b = bs /\ z - b >= 4 /\ (z - b) % 2 = 0 /\ (y - z) % 2 = 0 /\ y = b + m[b].sz
  <2>1. y - z = ws - bs
    BY <1>3
  <2>2. (ws - bs) % 2 = 0
    BY <1>3
  <2> QED
    BY <1>3, <1>t, <2>1, <2>2
<1>5. /\ m2 \in [Addr -> Info] /\ m2[b].al = 1 /\ m2[b].sz = z - b /\ m2[b].pal = m[b].pal /\ m2[b].rq < z - b
      /\ m2[z].al = 0 /\ m2[z].pal = 1 /\ m2[z].sz = y - z /\ m2[y - 1].sz = y - z
      /\ \A a \in Addr : a \notin b..(y - 1) => m2[a] = m[a]
  BY <1>0, <1>4 DEF HeapType
<1>c. Cut(m, m2, b, z, y)
  BY <1>3, <1>4, <1>5 DEF Cut
<1>6. /\ Blocks(m2, L, F \cup {z}, e) /\ z \notin L \cup F /\ z \in Addr
      /\ Apart(m2, F)
  <2>1. Blocks(m2, L, F \cup {z}, e)
    BY ONLY <1>1, <1>c, b \in L, Shrunk
  <2>2. z \notin L \cup F /\ z \in Addr
    BY ONLY ZenonT(60), <1>1, <1>c, b \in L, Shrunk
  <2>3. Apart(m, F) => Apart(m2, F)
    BY ONLY <1>1, <1>c, b \in L, Shrunk
  <2> QED
    BY <1>1, <2>1, <2>2, <2>3
<1>7. ASSUME NEW d \in L \cup F, d # b, NEW a \in d..(d + m[d].sz - 1)
      PROVE  a \in Addr /\ m2[a] = m[a]
  <2>1. b \in L \cup F
    OBVIOUS
  <2>2. a \in Addr /\ a \notin b..(b + m[b].sz - 1)
    BY ONLY <1>1, <1>7, <2>1, a \in d..(d + m[d].sz - 1), Elsewhere
  <2>3. b + m[b].sz - 1 = y - 1
    BY <1>3, <1>t
  <2> QED
    BY <1>5, <2>2, <2>3
<1>8. Linked(m2, h.nxt, h.prv, h.lists, F)
  <2>1. \A d \in F : m2[d].sz = m[d].sz
    <3> TAKE d \in F
    <3>1. d \in d..(d + m[d].sz - 1)
      BY <1>2
    <3>2. d # b
      BY <1>1 DEF Blocks
    <3> QED
      BY <1>7, <3>1, <3>2
  <2>2. PICK n, p, l : n = h.nxt /\ p = h.prv /\ l = h.lists
    OBVIOUS
  <2>3. Linked(m, n, p, l, F)
    BY <1>1, <2>2
  <2>4. Linked(m2, n, p, l, F)
    BY ONLY <2>1, <2>3, LinkedSame
  <2> QED
    BY <2>2, <2>4
<1>9. Loose(h2, L, F, z)
  <2>1. Epilogue(h2) = e /\ z \notin F
    BY <1>6, <1>e DEF Epilogue
  <2> QED
    BY <1>0, <1>1, <1>6, <1>8, <2>1 DEF Loose
<1>10. PICK x : x = Coalesce(h2, z).b
  OBVIOUS
<1>11. Settled(h2, g, L, x)
  BY <1>9, <1>10, Coalesced
<1>12. g.pages = h.pages /\ g.damage = h.damage /\ Keeps(m2, g.mem, L) /\ \E F2 \in SUBSET Addr : Sound(g, L, F2)
  BY <1>0, <1>11 DEF Settled
<1>13. g.mem[b].rq = m2[b].rq /\ g.mem[b].sz = bs
  <2>1. b \in b..(b + m2[b].sz - 1)
    BY <1>3, <1>4, <1>5
  <2> QED
    BY <1>4, <1>5, <1>12, <2>1 DEF Keeps
<1>14. Keeps(m, g.mem, L \ {b})
  <2> SUFFICES ASSUME NEW d \in L \ {b}, NEW a \in d..(d + m[d].sz - 1)
               PROVE  g.mem[a].al = m[a].al /\ g.mem[a].sz = m[a].sz /\ g.mem[a].rq = m[a].rq
    BY DEF Keeps
  <2>1. m2[a] = m[a]
    BY <1>7
  <2>2. d \in d..(d + m[d].sz - 1)
    BY <1>2
  <2>3. m2[d] = m[d]
    BY <1>7, <2>2
  <2>4. a \in d..(d + m2[d].sz - 1)
    BY <2>3
  <2> QED
    BY <1>12, <2>1, <2>4 DEF Keeps
<1> QED
  BY <1>0, <1>12, <1>13, <1>14


(* process_request makes a free block, or the front of it, the client's. *)
LEMMA Requested ==
  ASSUME NEW h, NEW L, NEW F, Sound(h, L, F), NEW b \in F, NEW rq \in 0..End, TotalBlockSz(rq) <= h.mem[b].sz,
         NEW g, g = ProcessRequest(h, b, rq), g.damage = "none"
  PROVE  Granted(h, g, L, b, rq)
<1>0. PICK m : m = h.mem
  OBVIOUS
<1>e. PICK e : e = Epilogue(h)
  OBVIOUS
<1>1. /\ h \in HeapType /\ h.pages \in 1..Pages /\ Blocks(m, L, F, e) /\ Apart(m, F)
      /\ Linked(m, h.nxt, h.prv, h.lists, F)
  BY <1>0, <1>e DEF Sound
<1>2. /\ e \in Nat /\ e < End /\ End \in Nat /\ m \in [Addr -> Info]
      /\ \A d \in L \cup F :
           /\ d \in Nat /\ d \in Addr /\ m[d].sz \in Nat /\ m[d].sz >= 4 /\ m[d].sz % 2 = 0 /\ d + m[d].sz <= e
           /\ d < e /\ d >= 5
  BY <1>1, BlockFacts
<1>t. PICK ws \in Nat : ws = m[b].sz
  BY <1>2
<1>s. PICK bs \in Nat : bs = TotalBlockSz(rq)
  <2>1. rq \in Nat
    BY <1>2
  <2> QED
    BY <2>1, BlockSize
<1>3. /\ b \in Nat /\ b \in Addr /\ b + ws <= e /\ ws % 2 = 0 /\ bs >= 4 /\ bs % 2 = 0 /\ rq < bs /\ bs <= ws
      /\ rq \in Nat
  <2>1. rq \in Nat
    BY <1>2
  <2>2. bs >= 4 /\ bs % 2 = 0 /\ rq < bs
    BY <1>s, <2>1, BlockSize
  <2> QED
    BY <1>0, <1>2, <1>s, <1>t, <2>1, <2>2
<1>4. g = IF ws - bs < 4 THEN AllocateBlock(h, b, rq) ELSE SplitBlock(h, b, rq, bs)
  BY <1>0, <1>s, <1>t DEF ProcessRequest
<1>5. rq < h.mem[b].sz
  BY <1>0, <1>3, <1>t
<1>6. F \ {b} \in SUBSET Addr
  BY <1>2
<1>7. CASE ws - bs < 4
  <2>1. Inside(h, h, b)
    BY <1>1 DEF Inside
  <2>2. g = AllocateBlock(h, b, rq)
    BY <1>4, <1>7
  <2>3. Handed(h, h, g, L, F, b, rq)
    BY <1>5, <2>1, <2>2, Allocated
  <2> QED
    BY <1>6, <2>3 DEF Handed, Granted
<1>8. CASE ~(ws - bs < 4)
  <2>z. PICK z : z = b + bs
    OBVIOUS
  <2>y. PICK y : y = b + ws
    OBVIOUS
  <2>r. PICK rest : rest = ws - bs
    OBVIOUS
  <2>f. PICK hf : hf = MakeFree(h, z, rest, 1)
    OBVIOUS
  <2>1. /\ z \in Nat /\ y \in Nat /\ rest \in Nat /\ y = z + rest /\ rest >= 4 /\ z + 4 <= y /\ y < End
        /\ z >= b + 4 /\ y - z = rest
    BY <1>2, <1>3, <1>8, <2>z, <2>y, <2>r
  <2>2. z \in Addr /\ rest \in 0..End /\ z + rest - 1 \in Addr /\ y - 1 \in Addr /\ z + rest - 1 = y - 1
    BY <2>1, <1>2 DEF Addr
  <2>3. /\ hf \in HeapType /\ hf.nxt = h.nxt /\ hf.prv = h.prv
        /\ hf.lists = h.lists /\ hf.pages = h.pages /\ hf.damage = h.damage
        /\ hf.mem[z] = Word(0, 1, rest, 0) /\ hf.mem[z + rest - 1] = Word(0, 1, rest, 0)
        /\ \A a \in Addr : a \notin z..(z + rest - 1) => hf.mem[a] = h.mem[a]
    <3>1. 1 \in Bit
      BY DEF Bit
    <3> QED
      BY ONLY <1>1, <2>1, <2>2, <2>f, <3>1, MakeFreeFields
  <2>4. Inside(h, hf, b)
    <3>1. b \notin z..(z + rest - 1)
      BY <1>3, <2>1
    <3>2. ASSUME NEW a \in Addr, a \notin b..(b + h.mem[b].sz - 1) PROVE a \notin z..(z + rest - 1)
      <4>1. a \in Nat /\ a \notin b..(b + ws - 1)
        BY <1>0, <1>2, <1>t, <3>2 DEF Addr
      <4> QED
        BY <1>3, <2>1, <2>y, <4>1
    <3> QED
      BY <1>3, <2>3, <3>1, <3>2 DEF Inside
  <2>h. PICK h1 : h1 = AllocateBlock(hf, b, rq)
    OBVIOUS
  <2>5. Handed(h, hf, h1, L, F, b, rq)
    BY <1>5, <2>4, <2>h, Allocated
  <2>6. /\ Sound(h1, L \cup {b}, F \ {b}) /\ h1.pages = h.pages /\ h1.damage = h.damage /\ Keeps(m, h1.mem, L)
        /\ h1.mem[b].rq = rq /\ h1.mem[b].sz = ws /\ h1.mem[b].al = 1
        /\ h1.mem[z] = Word(0, 1, rest, 0) /\ h1.mem[y - 1] = Word(0, 1, rest, 0)
    <3>1. z \in (b + 3)..(b + ws - 1) /\ y - 1 \in (b + 3)..(b + ws - 1)
      BY <1>3, <2>1, <2>y
    <3>2. \A a \in (b + 3)..(b + ws - 1) : h1.mem[a] = hf.mem[a]
      BY <1>0, <1>t, <2>5 DEF Handed
    <3>3. h1.mem[z] = Word(0, 1, rest, 0) /\ h1.mem[y - 1] = Word(0, 1, rest, 0)
      BY <2>2, <2>3, <3>1, <3>2
    <3> QED
      BY <1>0, <1>t, <2>5, <3>3 DEF Handed
  <2>k. PICK h2 : h2 = [h1 EXCEPT !.mem[b].sz = bs]
    OBVIOUS
  <2>c. g = Coalesce(h2, z).h
    BY <1>0, <1>4, <1>8, <1>t, <2>h, <2>f, <2>k, <2>r, <2>z DEF SplitBlock
  <2>7. /\ h2 \in HeapType /\ h2.nxt = h1.nxt /\ h2.prv = h1.prv /\ h2.lists = h1.lists
        /\ h2.pages = h1.pages /\ h2.damage = h1.damage
        /\ h2.mem[b].al = 1 /\ h2.mem[b].sz = bs /\ h2.mem[b].pal = h1.mem[b].pal /\ h2.mem[b].rq = rq
        /\ \A a \in Addr : a # b => h2.mem[a] = h1.mem[a]
    <3>1. h1 \in HeapType
      BY <2>6 DEF Sound
    <3>2. PICK w : w = [h1.mem[b] EXCEPT !.sz = bs]
      OBVIOUS
    <3>3. h1.mem \in [Addr -> Info] /\ h1.mem[b] \in Info /\ bs \in 0..End
      BY <1>2, <1>3, <3>1 DEF HeapType
    <3>4. w \in Info /\ w.al = h1.mem[b].al /\ w.sz = bs /\ w.pal = h1.mem[b].pal /\ w.rq = h1.mem[b].rq
      BY <3>2, <3>3 DEF Info
    <3>5. h2 = [h1 EXCEPT !.mem = [h1.mem EXCEPT ![b] = w]]
      BY <2>k, <3>2
    <3>6. PICK mm : mm = [h1.mem EXCEPT ![b] = w]
      OBVIOUS
    <3>7. mm \in [Addr -> Info] /\ mm[b] = w /\ \A a \in Addr : a # b => mm[a] = h1.mem[a]
      BY <1>3, <3>3, <3>4, <3>6
    <3>8. h2 = [h1 EXCEPT !.mem = mm]
      BY <3>5, <3>6
    <3>9. /\ h2 \in HeapType /\ h2.mem = mm /\ h2.nxt = h1.nxt /\ h2.prv = h1.prv /\ h2.lists = h1.lists
          /\ h2.pages = h1.pages /\ h2.damage = h1.damage
      BY ONLY <3>1, <3>7, <3>8 DEF HeapType
    <3> QED
      BY <2>6, <3>4, <3>7, <3>9
  <2>8. z # b /\ y - 1 # b
    BY <1>3, <2>1
  <2>9. /\ h2.mem[z].al = 0 /\ h2.mem[z].pal = 1 /\ h2.mem[z].sz = y - z /\ h2.mem[y - 1].sz = y - z
        /\ \A a \in Addr : a \notin b..(y - 1) => h2.mem[a] = h1.mem[a]
    <3>1. h2.mem[z] = Word(0, 1, rest, 0) /\ h2.mem[y - 1] = Word(0, 1, rest, 0)
      BY <2>2, <2>6, <2>7, <2>8
    <3>2. b \in b..(y - 1)
      BY <1>3, <2>1
    <3> QED
      BY <2>1, <2>7, <3>1, <3>2 DEF Word
  <2>10. /\ g.pages = h1.pages /\ g.damage = h1.damage
         /\ Keeps(h1.mem, g.mem, (L \cup {b}) \ {b}) /\ g.mem[b].rq = h2.mem[b].rq
         /\ \E F2 \in SUBSET Addr : Sound(g, L \cup {b}, F2)
    <3>1. PICK L1, F1 : L1 = L \cup {b} /\ F1 = F \ {b}
      OBVIOUS
    <3>2. Sound(h1, L1, F1) /\ b \in L1 /\ y = b + h1.mem[b].sz /\ y - z >= 4 /\ h2.mem[b].rq < bs
      BY <1>3, <2>1, <2>6, <2>7, <2>y, <3>1
    <3>3. Pieces(h1, h2, b, bs, z, y)
      BY <1>3, <2>z, <2>7, <2>9, <3>2 DEF Pieces
    <3>4. Shortened(h1, h2, g, L1, b, bs)
      BY ONLY <2>c, <3>2, <3>3, g.damage = "none", SplitOff
    <3> QED
      BY <3>1, <3>4 DEF Shortened
  <2>11. Keeps(m, g.mem, L)
    <3>1. (L \cup {b}) \ {b} = L
      BY <1>1 DEF Blocks
    <3>2. Keeps(m, h1.mem, L) /\ Keeps(h1.mem, g.mem, L)
      BY <2>6, <2>10, <3>1
    <3>3. L \in SUBSET L
      OBVIOUS
    <3> QED
      BY <1>1, <3>2, <3>3, KeptTwice
  <2> QED
    BY <1>0, <2>6, <2>7, <2>10, <2>11 DEF Granted
<1> QED
  BY <1>7, <1>8


----------------------------------------------------------------------------
(* Freeing *)

(* The block b is the client's no more. *)
TakenBack(h, g, L, b) ==
  /\ g.pages = h.pages /\ g.damage = h.damage /\ Keeps(h.mem, g.mem, L \ {b})
  /\ \E F2 \in SUBSET Addr : Sound(g, L \ {b}, F2)

(* The header and the footer that sf_free writes. *)
FreeWords(h, b, f) ==
  [h EXCEPT !.mem[b].al = 0, !.mem[b].rq = 0, !.mem[f].pal = h.mem[b].pal, !.mem[f].sz = h.mem[b].sz]

(* They are all it writes before it tells the block behind. *)
OnlyFreed(h, h1, b, f) ==
  /\ h1 \in HeapType /\ h1.nxt = h.nxt /\ h1.prv = h.prv
  /\ h1.lists = h.lists /\ h1.pages = h.pages /\ h1.damage = h.damage
  /\ h1.mem[b].al = 0 /\ h1.mem[b].sz = h.mem[b].sz /\ h1.mem[b].pal = h.mem[b].pal
  /\ h1.mem[f].sz = h.mem[b].sz
  /\ \A a \in Addr : a # b /\ a # f => h1.mem[a] = h.mem[a]

(* This is so for any block and footer. *)
LEMMA FreeFields ==
  ASSUME NEW h \in HeapType, NEW b \in Addr, NEW f \in Addr, b # f, NEW h1, h1 = FreeWords(h, b, f)
  PROVE  OnlyFreed(h, h1, b, f)
<1>m. PICK m \in [Addr -> Info] : m = h.mem
  BY DEF HeapType
<1>w. PICK w : w = [m[b] EXCEPT !.al = 0, !.rq = 0]
  OBVIOUS
<1>u. PICK u : u = [m[f] EXCEPT !.pal = m[b].pal, !.sz = m[b].sz]
  OBVIOUS
<1>1. m[b] \in Info /\ m[f] \in Info /\ 0 \in 0..End
  BY HeapSize
<1>2. w \in Info /\ w.al = 0 /\ w.sz = m[b].sz /\ w.pal = m[b].pal
  BY <1>1, <1>w DEF Info, Bit
<1>3. u \in Info /\ u.sz = m[b].sz
  BY <1>1, <1>u DEF Info
<1>4. PICK m2 : m2 = [[m EXCEPT ![b] = w] EXCEPT ![f] = u]
  OBVIOUS
<1>5. m2 \in [Addr -> Info] /\ m2[b] = w /\ m2[f] = u /\ \A a \in Addr : a # b /\ a # f => m2[a] = m[a]
  BY ONLY <1>2, <1>3, <1>4, m \in [Addr -> Info], b \in Addr, f \in Addr, b # f, TwoWords
<1>6. h1 = [h EXCEPT !.mem = m2]
  BY ZenonT(60), <1>m, <1>w, <1>u, <1>4 DEF FreeWords, HeapType
<1>7. /\ h1 \in HeapType /\ h1.mem = m2 /\ h1.nxt = h.nxt /\ h1.prv = h.prv /\ h1.lists = h.lists
      /\ h1.pages = h.pages /\ h1.damage = h.damage
  BY ONLY <1>5, <1>6, h \in HeapType DEF HeapType
<1> QED
  BY <1>2, <1>3, <1>5, <1>7, <1>m DEF OnlyFreed

(* sf_free, if it accepts the pointer. *)
LEMMA Freed ==
  ASSUME NEW h, NEW L, NEW F, Sound(h, L, F), NEW b \in L, NEW g, g = SfFree(h, b), g.damage = "none"
  PROVE  TakenBack(h, g, L, b)
<1>0. PICK m : m = h.mem
  OBVIOUS
<1>e. PICK e : e = Epilogue(h)
  OBVIOUS
<1>1. /\ h \in HeapType /\ h.pages \in 1..Pages /\ Blocks(m, L, F, e) /\ Apart(m, F)
      /\ Linked(m, h.nxt, h.prv, h.lists, F)
  BY <1>0, <1>e DEF Sound
<1>2. /\ e \in Nat /\ e < End /\ End \in Nat /\ m \in [Addr -> Info] /\ e \in Addr
      /\ \A d \in L \cup F :
           /\ d \in Nat /\ d \in Addr /\ m[d].sz \in Nat /\ m[d].sz >= 4 /\ m[d].sz % 2 = 0 /\ d + m[d].sz <= e
           /\ d + m[d].sz \in L \cup F \cup {e} /\ d < e /\ d >= 5
  <2>1. e \in Addr
    BY <1>1 DEF Blocks
  <2> QED
    BY <1>1, <2>1, BlockFacts
<1>t. PICK bs \in Nat : bs = m[b].sz
  BY <1>2
<1>y. PICK y : y = b + bs
  OBVIOUS
<1>3. /\ b \in Nat /\ y \in Nat /\ bs >= 4 /\ y <= e /\ y \in L \cup F \cup {e} /\ y < End
      /\ b + m[b].sz = y /\ b + m[b].sz - 1 = y - 1 /\ b + 4 <= y /\ y = b + m[b].sz
  BY <1>2, <1>t, <1>y
<1>4. b \in Addr /\ y \in Addr /\ y - 1 \in Addr /\ b # y - 1 /\ y - 1 # y /\ b # y
  <2>1. b \in Addr /\ y - 1 \in Addr /\ b # y - 1
    BY ONLY <1>3, InBlock
  <2>2. y \in Addr
    BY ONLY <1>3, HeapSize DEF Addr
  <2> QED
    BY ONLY <1>3, <2>1, <2>2
<1>w. PICK k : k = y - 1
  OBVIOUS
<1>h. PICK h1 : h1 = FreeWords(h, b, k)
  OBVIOUS
<1>k. PICK h2 : h2 = SetPrevAllocated(h1, y, 0)
  OBVIOUS
<1>5. g = Coalesce(h2, b).h
  <2>1. g = FreeBlock(h, b)
    <3>1. g # [h EXCEPT !.damage = "abort"]
      BY <1>1 DEF HeapType
    <3> QED
      BY <3>1 DEF SfFree
  <2>2. Foot(h, b) = k
    BY <1>0, <1>3, <1>w DEF Foot
  <2>3. b + h.mem[b].sz = y
    BY <1>0, <1>3
  <2>4. g = Coalesce(SetPrevAllocated(FreeWords(h, b, Foot(h, b)), b + h.mem[b].sz, 0), b).h
    BY <2>1 DEF FreeBlock, FreeWords
  <2> QED
    BY <1>h, <1>k, <2>2, <2>3, <2>4
<1>6. /\ h1 \in HeapType /\ h1.nxt = h.nxt /\ h1.prv = h.prv
      /\ h1.lists = h.lists /\ h1.pages = h.pages /\ h1.damage = h.damage
      /\ h1.mem[b].al = 0 /\ h1.mem[b].sz = bs /\ h1.mem[b].pal = m[b].pal /\ h1.mem[k].sz = bs
      /\ \A a \in Addr : a # b /\ a # k => h1.mem[a] = m[a]
  <2>1. OnlyFreed(h, h1, b, k)
    BY <1>1, <1>4, <1>w, <1>h, FreeFields
  <2> QED
    BY <1>0, <1>t, <2>1 DEF OnlyFreed
<1>7. h1.mem[y] = m[y] /\ Epilogue(h1) = e
  BY <1>4, <1>6, <1>w, <1>e DEF Epilogue
<1>f. PICK f : f = y + m[y].sz - 1
  OBVIOUS
<1>8. y # e => f \in Addr /\ f > y /\ f # b /\ f # k
  <2> SUFFICES ASSUME y # e PROVE f \in Addr /\ f > y /\ f # b /\ f # k
    OBVIOUS
  <2>1. PICK ys \in Nat : ys = m[y].sz
    BY <1>2, <1>3
  <2>2. ys >= 4 /\ y + ys <= e /\ f = y + ys - 1 /\ e \in Nat /\ e < End /\ End \in Nat
    BY <1>2, <1>3, <1>f, <2>1
  <2> QED
    BY <1>3, <1>w, <2>2 DEF Addr
<1>9. Foot(h1, y) = f
  BY <1>7, <1>f DEF Foot
<1>10. /\ h2 \in HeapType /\ h2.nxt = h1.nxt /\ h2.prv = h1.prv
       /\ h2.lists = h1.lists /\ h2.pages = h1.pages /\ h2.damage = h1.damage
       /\ \A a \in Addr : h2.mem[a] = IF y # Epilogue(h1) /\ a \in {y, Foot(h1, y)}
                                      THEN [h1.mem[a] EXCEPT !.pal = 0] ELSE h1.mem[a]
  <2>1. y # Epilogue(h1) => Foot(h1, y) \in Addr
    BY <1>7, <1>8, <1>9
  <2>2. PICK bit \in Bit : bit = 0
    BY DEF Bit
  <2>3. h2 = SetPrevAllocated(h1, y, bit)
    BY <1>k, <2>2
  <2>4. /\ h2 \in HeapType /\ h2.nxt = h1.nxt /\ h2.prv = h1.prv
        /\ h2.lists = h1.lists /\ h2.pages = h1.pages /\ h2.damage = h1.damage
        /\ \A a \in Addr : h2.mem[a] = IF y # Epilogue(h1) /\ a \in {y, Foot(h1, y)}
                                       THEN [h1.mem[a] EXCEPT !.pal = bit] ELSE h1.mem[a]
    BY ONLY <1>4, <1>6, <2>1, <2>3, bit \in Bit, SetPrevFields
  <2> QED
    BY <2>2, <2>4
<1>m. PICK m2 : m2 = h2.mem
  OBVIOUS
<1>11. m2 \in [Addr -> Info]
  BY <1>10, <1>m DEF HeapType
<1>12. \A a \in Addr : m2[a] = IF y # e /\ a \in {y, f} THEN [h1.mem[a] EXCEPT !.pal = 0] ELSE h1.mem[a]
  BY <1>7, <1>9, <1>10, <1>m
<1>13. m2[b] = h1.mem[b] /\ m2[k] = h1.mem[k] /\ k \in Addr
  <2>1. b # y /\ k # y /\ k \in Addr
    BY <1>4, <1>w
  <2> QED
    BY <1>4, <1>8, <1>12, <2>1
<1>14. ASSUME NEW a \in Addr, a \notin b..(y - 1)
       PROVE  /\ m2[a].al = m[a].al /\ m2[a].sz = m[a].sz /\ m2[a].rq = m[a].rq
              /\ (y = e \/ a \notin {y, f} => m2[a].pal = m[a].pal)
  <2>1. h1.mem[a] = m[a] /\ m[a] \in Info
    <3>1. b \in b..(y - 1) /\ k \in b..(y - 1)
      BY <1>3, <1>w
    <3>2. a # b /\ a # k
      BY <1>14, <3>1
    <3> QED
      BY <1>2, <1>6, <3>2
  <2>2. PICK v : v = [m[a] EXCEPT !.pal = 0]
    OBVIOUS
  <2>3. v.al = m[a].al /\ v.sz = m[a].sz /\ v.rq = m[a].rq
    BY <2>1, <2>2, WordBit DEF Bit
  <2>4. CASE y # e /\ a \in {y, f}
    BY <1>12, <2>1, <2>2, <2>3, <2>4
  <2>5. CASE ~(y # e /\ a \in {y, f})
    BY <1>12, <2>1, <2>5
  <2> QED
    BY <2>4, <2>5
<1>u. Unmarked(m, m2, b, y, f, e)
  BY <1>3, <1>6, <1>11, <1>13, <1>14, <1>f, <1>t, <1>w DEF Unmarked
<1>15. Blocks(m2, L \ {b}, F \cup {b}, e)
  BY ONLY <1>1, <1>u, b \in L, Released
<1>16. Apart(m2, F)
  <2>1. Apart(m, F) => Apart(m2, F)
    BY ONLY <1>1, <1>u, b \in L, Released
  <2> QED
    BY <1>1, <2>1
<1>17. ASSUME NEW d \in L \cup F, d # b, NEW a \in d..(d + m[d].sz - 1)
       PROVE  /\ a \in Addr /\ m2[a].al = m[a].al /\ m2[a].sz = m[a].sz /\ m2[a].rq = m[a].rq
  <2>1. b \in L \cup F
    OBVIOUS
  <2>2. a \in Addr /\ a \notin b..(b + m[b].sz - 1)
    BY ONLY <1>1, <1>17, <2>1, a \in d..(d + m[d].sz - 1), Elsewhere
  <2> QED
    BY <1>3, <1>14, <2>2
<1>18. b \notin F
  BY <1>1 DEF Blocks
<1>19. Linked(m2, h.nxt, h.prv, h.lists, F)
  <2>1. \A d \in F : m2[d].sz = m[d].sz
    <3> TAKE d \in F
    <3>1. d \in d..(d + m[d].sz - 1)
      BY <1>2
    <3> QED
      BY <1>17, <1>18, <3>1
  <2>2. PICK n, p, l : n = h.nxt /\ p = h.prv /\ l = h.lists
    OBVIOUS
  <2>3. Linked(m, n, p, l, F)
    BY <1>1, <2>2
  <2>4. Linked(m2, n, p, l, F)
    BY ONLY <2>1, <2>3, LinkedSame
  <2> QED
    BY <2>2, <2>4
<1>20. h2.nxt = h.nxt /\ h2.prv = h.prv /\ h2.lists = h.lists /\ h2.pages = h.pages /\ h2.damage = h.damage
  BY <1>6, <1>10
<1>21. Loose(h2, L \ {b}, F, b)
  <2>1. Epilogue(h2) = e
    BY <1>20, <1>e DEF Epilogue
  <2> QED
    BY <1>1, <1>10, <1>15, <1>16, <1>18, <1>19, <1>20, <1>m, <2>1 DEF Loose
<1>22. PICK x : x = Coalesce(h2, b).b
  OBVIOUS
<1>23. Settled(h2, g, L \ {b}, x)
  BY <1>5, <1>21, <1>22, Coalesced
<1>24. Keeps(m, m2, L \ {b})
  <2> SUFFICES ASSUME NEW d \in L \ {b}, NEW a \in d..(d + m[d].sz - 1)
               PROVE  m2[a].al = m[a].al /\ m2[a].sz = m[a].sz /\ m2[a].rq = m[a].rq
    BY DEF Keeps
  <2> QED
    BY <1>17
<1>25. Keeps(m, g.mem, L \ {b})
  <2>1. Keeps(m2, g.mem, L \ {b})
    BY <1>23, <1>m DEF Settled
  <2>2. L \ {b} \in SUBSET L
    OBVIOUS
  <2> QED
    BY <1>1, <1>24, <2>1, <2>2, KeptTwice
<1> QED
  BY <1>0, <1>20, <1>23, <1>25 DEF Settled, TakenBack


----------------------------------------------------------------------------
(* Setting up, extending, writing *)

(* The first block takes all of the first page but the prologue. *)
LEMMA SetUp ==
  ASSUME NEW g, g = InitialSetup(NoMem)
  PROVE  g.damage = "none" /\ \E F2 \in SUBSET Addr : Sound(g, {}, F2)
<1>w. W \in Nat /\ W % 2 = 0 /\ W > 10 /\ Pages \in Nat \ {0} /\ End \in Nat /\ W - 1 \in Addr /\ W <= End /\ 1 \in 1..Pages
  <2>1. W \in Nat /\ W % 2 = 0 /\ W > 10 /\ Pages \in Nat \ {0} /\ End \in Nat /\ 1 \in 1..Pages
    BY HeapSize, SfmmAssumption
  <2>2. W * 1 - 1 \in Addr
    BY <2>1, HeapSize
  <2>3. W - 1 \in Addr
    BY <2>1, <2>2
  <2>4. W <= End
    BY <2>1, <2>3 DEF Addr
  <2> QED
    BY <2>1, <2>3, <2>4
<1>n. PICK w \in 0..End : w = W - 6
  BY <1>w
<1>1. w >= 6 /\ w % 2 = 0 /\ 5 + w = W - 1 /\ 5 + w - 1 = W - 2
  <2>1. W # 11
    BY <1>w
  <2>2. (W - 6) % 2 = 0
    BY <1>w
  <2> QED
    BY <1>n, <1>w, <2>1, <2>2
<1>2. 1 \in Addr /\ 4 \in Addr /\ 5 \in Addr /\ 6 \in Addr /\ 7 \in Addr /\ 5 + w - 1 \in Addr
  BY <1>1, <1>w DEF Addr
<1>z. PICK z \in [Addr -> Info] : z = NoMem.mem
  BY Names DEF NoMem
<1>a. PICK m1 : m1 = [[[z EXCEPT ![1].al = 1] EXCEPT ![4].al = 1] EXCEPT ![W - 1].al = 1]
  OBVIOUS
<1>3. m1 \in [Addr -> Info]
  <2>1. PICK za : za = [z EXCEPT ![1].al = 1]
    OBVIOUS
  <2>2. \A v \in Info : [v EXCEPT !.al = 1] \in Info
    BY DEF Info, Bit
  <2>3. za = [z EXCEPT ![1] = [z[1] EXCEPT !.al = 1]]
    BY <2>1
  <2>4. za \in [Addr -> Info]
    BY <1>2, <2>2, <2>3
  <2>5. PICK zb : zb = [za EXCEPT ![4] = [za[4] EXCEPT !.al = 1]]
    OBVIOUS
  <2>6. zb \in [Addr -> Info]
    BY <1>2, <2>2, <2>4, <2>5
  <2>7. m1 = [zb EXCEPT ![W - 1] = [zb[W - 1] EXCEPT !.al = 1]]
    BY <1>a, <2>1, <2>5
  <2> QED
    BY <1>w, <2>2, <2>6, <2>7
<1>0. PICK h0 : h0 = NoMem /\ h0 \in HeapType /\ h0.mem = z /\ h0.lists = {} /\ h0.damage = "none"
  <2>1. PICK n0 \in [Pointer -> Pointer] : n0 = [p \in Pointer |-> Null]
    BY Names
  <2>2. NoMem = [mem |-> z, nxt |-> n0, prv |-> n0, lists |-> {}, pages |-> 0, damage |-> "none"]
    BY <1>z, <2>1 DEF NoMem
  <2>3. 0 \in 0..Pages
    BY <1>w
  <2>4. {} \in SUBSET (1..End)
    OBVIOUS
  <2>5. "none" \in Damages
    BY DEF Damages
  <2> QED
    BY <2>2, <2>3, <2>4, <2>5 DEF HeapType
<1>h. PICK h1 : h1 = [h0 EXCEPT !.pages = 1, !.mem = m1]
  OBVIOUS
<1>4. /\ h1 \in HeapType /\ h1.mem = m1 /\ h1.lists = {} /\ h1.pages = 1 /\ h1.damage = "none"
  <2>1. 1 \in 0..Pages
    BY <1>w
  <2> QED
    BY <1>0, <1>3, <1>h, <2>1 DEF HeapType
<1>k. PICK h2 : h2 = MakeFree(h1, 5, w, 1)
  OBVIOUS
<1>5. g = InsertBlock(h2, 5)
  <2>1. g = InsertBlock(MakeFree([NoMem EXCEPT !.pages = 1, !.mem[1].al = 1, !.mem[First - 1].al = 1,
                                               !.mem[W - 1].al = 1], First, W - 6, 1), First)
    BY DEF InitialSetup
  <2>2. First = 5 /\ First - 1 = 4
    BY DEF First
  <2>3. [NoMem EXCEPT !.pages = 1, !.mem[1].al = 1, !.mem[4].al = 1, !.mem[W - 1].al = 1] = h1
    <3>1. PICK k1 : k1 = [h0 EXCEPT !.pages = 1]
      OBVIOUS
    <3>2. PICK k2 : k2 = [k1 EXCEPT !.mem[1].al = 1]
      OBVIOUS
    <3>3. PICK k3 : k3 = [k2 EXCEPT !.mem[4].al = 1]
      OBVIOUS
    <3>4. PICK k4 : k4 = [k3 EXCEPT !.mem[W - 1].al = 1]
      OBVIOUS
    <3>5. [NoMem EXCEPT !.pages = 1, !.mem[1].al = 1, !.mem[4].al = 1, !.mem[W - 1].al = 1] = k4
      BY <1>0, <3>1, <3>2, <3>3, <3>4
    <3>6. k1 \in HeapType /\ k1.mem = z /\ [k1 EXCEPT !.mem = m1] = h1
      BY <1>0, <1>h, <1>w, <3>1 DEF HeapType
    <3>7. PICK za : za = [z EXCEPT ![1].al = 1]
      OBVIOUS
    <3>8. PICK zb : zb = [za EXCEPT ![4].al = 1]
      OBVIOUS
    <3>9. k2 = [k1 EXCEPT !.mem = za]
      BY <3>2, <3>6, <3>7
    <3>10. k2.mem = za
      BY <3>6, <3>9 DEF HeapType
    <3>11. k3 = [k1 EXCEPT !.mem = zb]
      BY <3>3, <3>6, <3>8, <3>9, <3>10 DEF HeapType
    <3>12. k3.mem = zb
      BY <3>6, <3>11 DEF HeapType
    <3>13. k4 = [k3 EXCEPT !.mem = m1]
      BY <1>a, <3>4, <3>7, <3>8, <3>12
    <3>14. k4 = [k1 EXCEPT !.mem = m1]
      BY <3>6, <3>11, <3>13 DEF HeapType
    <3> QED
      BY <3>5, <3>6, <3>14
  <2> QED
    BY <1>n, <1>k, <2>1, <2>2, <2>3
<1>6. /\ h2 \in HeapType /\ h2.nxt = h1.nxt /\ h2.prv = h1.prv
      /\ h2.lists = h1.lists /\ h2.pages = h1.pages /\ h2.damage = h1.damage
      /\ h2.mem[5] = Word(0, 1, w, 0) /\ h2.mem[5 + w - 1] = Word(0, 1, w, 0)
  <2>1. 1 \in Bit /\ w >= 4
    BY <1>1 DEF Bit
  <2> QED
    BY ONLY <1>2, <1>4, <1>k, <2>1, w \in 0..End, MakeFreeFields
<1>m. PICK m : m = h2.mem
  OBVIOUS
<1>e. PICK e : e = Epilogue(h2)
  OBVIOUS
<1>7. e = W - 1 /\ e \in Addr /\ e \in Nat /\ e = 5 + w
  BY <1>1, <1>4, <1>6, <1>w, <1>e DEF Epilogue
<1>8. m[5].al = 0 /\ m[5].pal = 1 /\ m[5].sz = w /\ m[5 + w - 1].sz = w /\ m \in [Addr -> Info]
  BY <1>6, <1>m DEF Word, HeapType
<1>9. Tiles(m, {5}, e)
  <2>1. 5 \in First..(e - 1)
    BY <1>1, <1>7 DEF First
  <2> QED
    BY <1>1, <1>7, <1>8, <2>1 DEF Tiles, First
<1>10. Blocks(m, {}, {5}, e)
  <2>1. {} \cup {5} = {5} /\ {} \cap {5} = {}
    OBVIOUS
  <2>2. Marked(m, {}, {5})
    BY <1>8 DEF Marked
  <2> QED
    BY <1>7, <1>8, <1>9, <2>1, <2>2 DEF Blocks
<1>11. Linked(m, h2.nxt, h2.prv, h2.lists, {})
  BY <1>4, <1>6 DEF Linked, HeapType
<1>12. Loose(h2, {}, {}, 5)
  <2>1. {} \cup {5} = {5}
    OBVIOUS
  <2> QED
    BY <1>4, <1>6, <1>10, <1>11, <1>m, <1>e, <1>w, <2>1 DEF Loose, Apart
<1>13. g.damage = h2.damage
  <2>1. 5 + 1 \in Addr /\ 5 + 2 \in Addr /\ w \in 1..End
    BY <1>1, <1>2, <1>w
  <2>2. PICK first : first = IF w \in h2.lists THEN h2.nxt[-w] ELSE -w
    OBVIOUS
  <2>3. h2.mem[5].sz = w
    BY <1>8, <1>m
  <2> QED
    BY ONLY <1>2, <1>5, <1>6, <2>1, <2>2, <2>3, InsertFields
<1>14. Coalesce(h2, 5) = [h |-> g, b |-> 5]
  <2>1. 5 = First /\ 5 + h2.mem[5].sz = Epilogue(h2)
    BY <1>7, <1>8, <1>m, <1>e DEF First
  <2> QED
    BY <1>5, <2>1 DEF Coalesce
<1>15. PICK c : c = Coalesce(h2, 5)
  OBVIOUS
<1>16. c.h = g /\ c.h.damage = "none"
  BY <1>4, <1>6, <1>13, <1>14, <1>15
<1>17. Settled(h2, c.h, {}, c.b)
  BY ZenonT(60), <1>12, <1>15, <1>16, Coalesced
<1> QED
  BY <1>16, <1>17 DEF Settled

(* The page that Extend adds. *)
NewPage(h, e, before) ==
  [MakeFree(h, e, W, before) EXCEPT !.pages = @ + 1, !.mem[e + W] = Word(1, 0, 0, 0)]

(* It becomes part of a free block, if the block before the epilogue is free *)
(* where it is read to be.                                                   *)
LEMMA PageAdded ==
  ASSUME NEW h, NEW L, NEW F \in SUBSET Addr, Sound(h, L, F), h.pages < Pages, NEW e, e = Epilogue(h),
         NEW before, before = h.mem[e - 1].al,
         before = 0 => \A b \in L : b + h.mem[b].sz # e,
         NEW c, c = Coalesce(NewPage(h, e, before), e), c.h.damage = "none"
  PROVE  /\ c.h.damage = h.damage /\ Keeps(h.mem, c.h.mem, L)
         /\ \E F2 \in SUBSET Addr : Sound(c.h, L, F2) /\ c.b \in F2
<1>0. PICK m : m = h.mem
  OBVIOUS
<1>1. /\ h \in HeapType /\ h.pages \in 1..Pages /\ Blocks(m, L, F, e) /\ Apart(m, F)
      /\ Linked(m, h.nxt, h.prv, h.lists, F)
  BY <1>0 DEF Sound
<1>2. /\ e \in Nat /\ e < End /\ End \in Nat /\ m \in [Addr -> Info] /\ e \in Addr /\ Tiles(m, L \cup F, e)
      /\ \A d \in L \cup F :
           /\ d \in Nat /\ d \in Addr /\ m[d].sz \in Nat /\ m[d].sz >= 4 /\ d + m[d].sz <= e
           /\ d < e /\ d >= 5
  <2>1. e \in Addr /\ Tiles(m, L \cup F, e)
    BY <1>1 DEF Blocks
  <2> QED
    BY <1>1, <2>1, BlockFacts
<1>w. W \in Nat /\ W > 10 /\ Pages \in Nat
  BY HeapSize
<1>g. PICK q \in Nat : q = h.pages
  BY <1>1
<1>3. q \in 1..(Pages - 1) /\ q + 1 \in 1..Pages /\ e = W * q - 1 /\ W * (q + 1) - 1 = e + W /\ e + W \in Addr
  <2>1. q \in 1..(Pages - 1) /\ q + 1 \in 1..Pages
    BY <1>1, <1>w, <1>g
  <2>2. e = W * q - 1
    BY <1>g DEF Epilogue
  <2>3. W * (q + 1) - 1 = (W * q - 1) + W /\ W * (q + 1) - 1 \in Addr
    BY <2>1, HeapSize
  <2> QED
    BY <2>1, <2>2, <2>3
<1>4. e + W < End /\ e >= 5 /\ e - 1 \in Addr /\ e + W - 1 \in Addr /\ W \in 0..End /\ W >= 4
  <2>1. e + W < End
    BY <1>2, <1>3 DEF Addr
  <2>2. First \in L \cup F
    BY <1>2 DEF Tiles
  <2>3. e >= 5
    BY <1>2, <2>2 DEF First
  <2> QED
    BY <1>2, <1>w, <2>1, <2>3 DEF Addr
<1>5. before \in Bit
  BY <1>0, <1>2, <1>4 DEF Info
<1>f. PICK hf : hf = MakeFree(h, e, W, before)
  OBVIOUS
<1>6. /\ hf \in HeapType /\ hf.nxt = h.nxt /\ hf.prv = h.prv
      /\ hf.lists = h.lists /\ hf.pages = h.pages /\ hf.damage = h.damage
      /\ hf.mem[e] = Word(0, before, W, 0) /\ hf.mem[e + W - 1] = Word(0, before, W, 0)
      /\ \A a \in Addr : a \notin e..(e + W - 1) => hf.mem[a] = h.mem[a]
  <2>1. h \in HeapType /\ e \in Addr /\ W \in 0..End /\ W >= 4 /\ e + W - 1 \in Addr
    BY <1>1, <1>2, <1>4
  <2> QED
    BY ONLY <2>1, <1>5, <1>f, MakeFreeFields
<1>n. PICK hn : hn = NewPage(h, e, before)
  OBVIOUS
<1>v. PICK v : v = Word(1, 0, 0, 0)
  OBVIOUS
<1>m. PICK m2 : m2 = [hf.mem EXCEPT ![e + W] = v]
  OBVIOUS
<1>7. m2 \in [Addr -> Info] /\ \A a \in Addr : a # e + W => m2[a] = hf.mem[a]
  <2>1. v \in Info
    BY <1>2, <1>v DEF Word, Info, Bit
  <2>2. hf.mem \in [Addr -> Info]
    BY <1>6 DEF HeapType
  <2> QED
    BY <1>3, <1>m, <2>1, <2>2
<1>8. /\ hn \in HeapType /\ hn.nxt = h.nxt /\ hn.prv = h.prv /\ hn.mem = m2
      /\ hn.lists = h.lists /\ hn.pages = q + 1 /\ hn.damage = h.damage
  <2>1. hn = [hf EXCEPT !.pages = q + 1, !.mem = m2]
    BY Zenon, <1>6, <1>g, <1>f, <1>n, <1>v, <1>m DEF NewPage, HeapType
  <2>2. q + 1 \in 0..Pages
    BY <1>3, <1>w
  <2>3. /\ hn \in HeapType /\ hn.nxt = hf.nxt /\ hn.prv = hf.prv /\ hn.mem = m2
        /\ hn.lists = hf.lists /\ hn.pages = q + 1 /\ hn.damage = hf.damage
    BY ONLY <1>6, <1>7, <2>1, <2>2 DEF HeapType
  <2> QED
    BY <1>6, <2>3
<1>9. /\ m2[e].al = 0 /\ m2[e].sz = W /\ m2[e + W - 1].sz = W /\ m2[e].pal = before
      /\ \A a \in Addr : a < e => m2[a] = m[a]
  <2>1. e # e + W /\ e + W - 1 # e + W
    BY <1>2, <1>w
  <2>2. m2[e] = Word(0, before, W, 0) /\ m2[e + W - 1] = Word(0, before, W, 0)
    BY <1>2, <1>4, <1>6, <1>7, <2>1
  <2>3. ASSUME NEW a \in Addr, a < e PROVE m2[a] = m[a]
    <3>1. a \in Nat /\ a # e + W /\ a \notin e..(e + W - 1)
      BY <1>2, <1>w, <2>3 DEF Addr
    <3> QED
      BY <1>0, <1>6, <1>7, <3>1
  <2> QED
    BY <2>2, <2>3 DEF Word
<1>10. m2[e].pal = 0 => \E p \in F : p + m[p].sz = e
  <2> SUFFICES ASSUME before = 0 PROVE \E p \in F : p + m[p].sz = e
    BY <1>9
  <2>1. PICK A : A = L \cup F
    OBVIOUS
  <2>2. m \in [Addr -> Info] /\ e \in Addr /\ Tiles(m, A, e) /\ e \in A \cup {e} /\ e # First
    <3>1. First \in A /\ \A d \in A : d < e /\ d \in Nat
      BY <1>2, <2>1 DEF Tiles
    <3>2. e # First
      BY <1>2, <3>1
    <3> QED
      BY <1>2, <2>1, <3>2
  <2>3. PICK b \in A : b + m[b].sz = e
    BY ONLY <2>2, Previous
  <2> QED
    BY <1>0, <2>1, <2>3
<1>11. Blocks(m2, L, F \cup {e}, e + W) /\ e \notin L \cup F /\ Apart(m2, F)
  <2>1. Longer(m, m2, F, e)
    BY <1>3, <1>7, <1>9, <1>10 DEF Longer
  <2>2. Blocks(m2, L, F \cup {e}, e + W) /\ e \notin L \cup F
    BY ONLY <1>1, <2>1, Extended
  <2>3. Apart(m, F) => Apart(m2, F)
    BY ONLY <1>1, <2>1, Extended
  <2> QED
    BY <1>1, <2>2, <2>3
<1>12. Linked(m2, h.nxt, h.prv, h.lists, F)
  <2>1. \A d \in F : m2[d].sz = m[d].sz
    BY <1>2, <1>9
  <2>2. PICK n, p, l : n = h.nxt /\ p = h.prv /\ l = h.lists
    OBVIOUS
  <2>3. Linked(m, n, p, l, F)
    BY <1>1, <2>2
  <2>4. Linked(m2, n, p, l, F)
    BY ONLY <2>1, <2>3, LinkedSame
  <2> QED
    BY <2>2, <2>4
<1>13. Loose(hn, L, F, e)
  <2>1. Epilogue(hn) = e + W
    BY <1>3, <1>8 DEF Epilogue
  <2> QED
    BY <1>3, <1>8, <1>11, <1>12, <2>1 DEF Loose
<1>14. Settled(hn, c.h, L, c.b)
  BY <1>13, <1>n, Coalesced
<1>15. Keeps(m, m2, L)
  <2> SUFFICES ASSUME NEW d \in L, NEW a \in d..(d + m[d].sz - 1)
               PROVE  m2[a].al = m[a].al /\ m2[a].sz = m[a].sz /\ m2[a].rq = m[a].rq
    BY DEF Keeps
  <2>1. PICK ds \in Nat : ds = m[d].sz
    BY <1>2
  <2>2. d \in Nat /\ d + ds <= e /\ a \in d..(d + ds - 1)
    BY <1>2, <2>1
  <2>3. a \in Addr /\ a < e
    BY <1>2, <2>2 DEF Addr
  <2> QED
    BY <1>9, <2>3
<1>16. Keeps(m, c.h.mem, L)
  <2>1. Keeps(m2, c.h.mem, L) /\ L \in SUBSET L
    BY <1>8, <1>14 DEF Settled
  <2> QED
    BY <1>1, <1>15, <2>1, KeptTwice
<1> QED
  BY <1>0, <1>8, <1>14, <1>16 DEF Settled

(* Words that the client or sf_realloc writes within the client's blocks.    *)
LEMMA Overwritten ==
  ASSUME NEW h, NEW L, NEW F, Sound(h, L, F), NEW m2 \in [Addr -> Info],
         \A a \in Addr : m2[a] = h.mem[a] \/ \E c \in L : c < a /\ a < c + h.mem[c].sz,
         NEW g, g = [h EXCEPT !.mem = m2]
  PROVE  Sound(g, L, F) /\ g.mem = m2 /\ \A c \in L : m2[c] = h.mem[c]
<1>0. PICK m : m = h.mem
  OBVIOUS
<1>e. PICK e : e = Epilogue(h)
  OBVIOUS
<1>1. /\ h \in HeapType /\ h.pages \in 1..Pages /\ Blocks(m, L, F, e) /\ Apart(m, F)
      /\ Linked(m, h.nxt, h.prv, h.lists, F)
  BY <1>0, <1>e DEF Sound
<1>2. /\ g \in HeapType /\ g.mem = m2 /\ g.nxt = h.nxt /\ g.prv = h.prv /\ g.lists = h.lists
      /\ g.pages = h.pages /\ g.damage = h.damage
  BY <1>1 DEF HeapType
<1>3. \A a \in Addr : m2[a] = m[a] \/ \E c \in L : c < a /\ a < c + m[c].sz
  BY <1>0
<1>4. Blocks(m2, L, F, e)
  BY ONLY <1>1, <1>3, m2 \in [Addr -> Info], Written
<1>5. \A c \in L \cup F : m2[c] = m[c]
  BY ONLY <1>1, <1>3, m2 \in [Addr -> Info], Written
<1>6. Apart(m, F) => Apart(m2, F)
  BY ONLY <1>1, <1>3, m2 \in [Addr -> Info], Written
<1>7. Linked(m2, h.nxt, h.prv, h.lists, F)
  <2>1. \A d \in F : m2[d].sz = m[d].sz
    BY <1>5
  <2>2. PICK n, p, l : n = h.nxt /\ p = h.prv /\ l = h.lists
    OBVIOUS
  <2>3. Linked(m, n, p, l, F)
    BY <1>1, <2>2
  <2>4. Linked(m2, n, p, l, F)
    BY ONLY <2>1, <2>3, LinkedSame
  <2> QED
    BY <2>2, <2>4
<1>8. Epilogue(g) = e
  BY <1>2, <1>e DEF Epilogue
<1> QED
  BY <1>0, <1>1, <1>2, <1>4, <1>5, <1>6, <1>7, <1>8 DEF Sound


----------------------------------------------------------------------------
(* What the client has written *)

(* The client's block b with what it knows of it, r: the request, and how    *)
(* many words it has written.  One bit of each is not the client's.          *)
LiveAt(m, b, r) ==
  /\ r.rq = m[b].rq /\ r.n \in 0..r.rq /\ r.data \in Info
  /\ \A k \in 1..r.n : m[b + k].al = r.data.al /\ m[b + k].sz = r.data.sz /\ m[b + k].rq = r.data.rq

GoodLive(m, l) == \A b \in DOMAIN l : LiveAt(m, b, l[b])

(* What sf_malloc works on; sf_realloc has found the old block too small.    *)
GoodWant(m, w, l) ==
  /\ w.rq \in 0..End
  /\ w.old # Null => w.old \in DOMAIN l /\ m[w.old].sz < w.rq

(* The heap, the request and the client's blocks fit together. *)
Good(h, w, l) ==
  \E F \in SUBSET Addr : Sound(h, DOMAIN l, F) /\ GoodWant(h.mem, w, l) /\ GoodLive(h.mem, l)

(* What the client knows of a block stays true with the words of the block.  *)
LEMMA LiveAtKept ==
  ASSUME NEW m, NEW L, NEW B, NEW e, Blocks(m, L, B, e), NEW b \in L, NEW r, LiveAt(m, b, r),
         NEW m2, \A a \in b..(b + m[b].sz - 1) : m2[a].al = m[a].al /\ m2[a].sz = m[a].sz /\ m2[a].rq = m[a].rq
  PROVE  LiveAt(m2, b, r)
<1>1. PICK s \in Nat : s = m[b].sz
  BY BlockFacts
<1>2. b \in Nat /\ s >= 4 /\ m[b] \in Info
  BY <1>1, BlockFacts
<1>3. PICK q \in Nat : q = m[b].rq
  <2>1. End \in Nat
    BY HeapSize
  <2> QED
    BY <1>2, <2>1 DEF Info
<1>4. q < s
  BY <1>1, <1>3 DEF Blocks, Marked
<1>5. b \in b..(b + s - 1)
  BY <1>2
<1>6. r.rq = m2[b].rq
  BY <1>1, <1>5 DEF LiveAt
<1>7. ASSUME NEW k \in 1..r.n
      PROVE  m2[b + k].al = r.data.al /\ m2[b + k].sz = r.data.sz /\ m2[b + k].rq = r.data.rq
  <2>1. r.n \in 0..q
    BY <1>3 DEF LiveAt
  <2>2. b + k \in b..(b + s - 1)
    BY <1>2, <1>4, <2>1
  <2> QED
    BY <1>1, <2>2 DEF LiveAt
<1> QED
  BY <1>6, <1>7 DEF LiveAt

(* So it is for all blocks that it still has. *)
LEMMA LiveKept ==
  ASSUME NEW m, NEW l, NEW B, NEW e, Blocks(m, DOMAIN l, B, e), GoodLive(m, l),
         NEW m2, NEW l2, DOMAIN l2 \subseteq DOMAIN l, \A c \in DOMAIN l2 : l2[c] = l[c],
         Keeps(m, m2, DOMAIN l2)
  PROVE  GoodLive(m2, l2)
<1> SUFFICES ASSUME NEW b \in DOMAIN l2 PROVE LiveAt(m2, b, l2[b])
  BY DEF GoodLive
<1>1. b \in DOMAIN l /\ LiveAt(m, b, l2[b])
  BY DEF GoodLive
<1>2. \A a \in b..(b + m[b].sz - 1) : m2[a].al = m[a].al /\ m2[a].sz = m[a].sz /\ m2[a].rq = m[a].rq
  BY DEF Keeps
<1> QED
  BY <1>1, <1>2, LiveAtKept

(* What sf_realloc copies from the old block to the new one. *)
Copied(h, b, old, rq) ==
  [h EXCEPT !.mem = [a \in Addr |-> IF a \in (b + 1)..(b + rq) THEN h.mem[a - b + old] ELSE h.mem[a]]]

(* The heap is in order, and b has the client's words with its own request.  *)
Copies(h, g, L, F, b, r) ==
  /\ Sound(g, L, F)
  /\ \A c \in L \ {b} : \A a \in c..(c + h.mem[c].sz - 1) : g.mem[a] = h.mem[a]
  /\ LiveAt(g.mem, b, [rq |-> h.mem[b].rq, n |-> r.n, data |-> r.data])
  /\ g.damage = h.damage

(* The old block is copied to one that is large enough. *)
LEMMA CopyFields ==
  ASSUME NEW h, NEW L, NEW F, Sound(h, L, F), NEW b \in L, NEW old \in L, b # old,
         NEW r, LiveAt(h.mem, old, r), h.mem[old].sz < h.mem[b].rq,
         NEW g, g = Copied(h, b, old, r.rq)
  PROVE  Copies(h, g, L, F, b, r)
<1>0. PICK m : m = h.mem
  OBVIOUS
<1>e. PICK e : e = Epilogue(h)
  OBVIOUS
<1>1. h \in HeapType /\ Blocks(m, L, F, e)
  BY <1>0, <1>e DEF Sound
<1>2. /\ e \in Nat /\ e < End /\ End \in Nat /\ m \in [Addr -> Info]
      /\ \A d \in L \cup F :
           /\ d \in Nat /\ d \in Addr /\ m[d].sz \in Nat /\ m[d].sz >= 4 /\ d + m[d].sz <= e /\ m[d] \in Info
  BY <1>1, BlockFacts
<1>o. PICK os \in Nat, bs \in Nat : os = m[old].sz /\ bs = m[b].sz
  BY <1>2
<1>q. PICK oq \in Nat, bq \in Nat : oq = m[old].rq /\ bq = m[b].rq
  BY <1>2 DEF Info
<1>3. /\ b \in Nat /\ old \in Nat /\ b + bs <= e /\ old + os <= e /\ oq < os /\ bq < bs /\ os < bq /\ r.rq = oq
      /\ r.n \in 0..oq
  <2>1. b \in Nat /\ old \in Nat /\ b + bs <= e /\ old + os <= e
    BY <1>2, <1>o
  <2>2. oq < os /\ bq < bs
    BY <1>1, <1>o, <1>q DEF Blocks, Marked
  <2>3. os < bq /\ r.rq = oq /\ r.n \in 0..oq
    BY <1>0, <1>o, <1>q DEF LiveAt
  <2> QED
    BY <2>1, <2>2, <2>3
<1>m. PICK m2 : m2 = [a \in Addr |-> IF a \in (b + 1)..(b + oq) THEN m[a - b + old] ELSE m[a]]
  OBVIOUS
<1>4. m2 \in [Addr -> Info]
  <2> SUFFICES ASSUME NEW a \in Addr PROVE m2[a] \in Info
    BY <1>m
  <2>1. CASE a \in (b + 1)..(b + oq)
    <3>1. a - b + old \in Addr
      BY <1>2, <1>3, <2>1 DEF Addr
    <3> QED
      BY <1>2, <1>m, <2>1, <3>1
  <2>2. CASE ~(a \in (b + 1)..(b + oq))
    BY <1>2, <1>m, <2>2
  <2> QED
    BY <2>1, <2>2
<1>5. g = [h EXCEPT !.mem = m2]
  BY <1>0, <1>3, <1>m DEF Copied
<1>6. \A a \in Addr : m2[a] = h.mem[a] \/ \E c \in L : c < a /\ a < c + h.mem[c].sz
  <2> SUFFICES ASSUME NEW a \in Addr, a \in (b + 1)..(b + oq) PROVE b < a /\ a < b + bs
    BY <1>0, <1>m, <1>o
  <2> QED
    BY <1>3
<1>7. Sound(g, L, F) /\ g.mem = m2 /\ \A c \in L : m2[c] = h.mem[c]
  BY ONLY <1>4, <1>5, <1>6, Sound(h, L, F), Overwritten
<1>8. ASSUME NEW c \in L \ {b}, NEW a \in c..(c + m[c].sz - 1) PROVE m2[a] = m[a]
  <2>1. b \in L \cup F /\ c \in L \cup F /\ b # c
    OBVIOUS
  <2>2. a \in Addr /\ a \notin b..(b + m[b].sz - 1)
    BY ONLY <1>1, <2>1, a \in c..(c + m[c].sz - 1), Elsewhere
  <2>3. a \notin b..(b + bs - 1) /\ a \in Nat
    BY <1>2, <1>o, <2>2 DEF Addr
  <2>4. a \notin (b + 1)..(b + oq)
    BY <1>3, <2>3
  <2> QED
    BY <1>m, <2>2, <2>4
<1>9. LiveAt(m2, b, [rq |-> bq, n |-> r.n, data |-> r.data])
  <2>1. m2[b] = m[b]
    BY <1>0, <1>7
  <2>2. r.n \in 0..bq /\ r.data \in Info
    BY <1>3 DEF LiveAt
  <2>3. ASSUME NEW k \in 1..r.n
        PROVE  m2[b + k].al = r.data.al /\ m2[b + k].sz = r.data.sz /\ m2[b + k].rq = r.data.rq
    <3>1. b + k \in Addr /\ b + k \in (b + 1)..(b + oq) /\ (b + k) - b + old = old + k
      BY SMTT(60), <1>2, <1>3 DEF Addr
    <3>2. m2[b + k] = m[(b + k) - b + old]
      BY <1>m, <3>1
    <3>3. m2[b + k] = m[old + k]
      BY <3>1, <3>2
    <3> QED
      BY <1>0, <3>3 DEF LiveAt
  <2> QED
    BY <1>q, <2>1, <2>2, <2>3 DEF LiveAt
<1>10. g.pages = h.pages /\ g.damage = h.damage
  BY <1>1, <1>5 DEF HeapType
<1> QED
  BY <1>0, <1>7, <1>8, <1>9, <1>10, <1>q DEF Copies


(* What Return makes of the heap and of the blocks the client holds. *)
ReturnsTo(h, w, l, b, g, l2) ==
  IF w.old = Null
  THEN g = h /\ l2 = Hold(l, b, w.rq, 0, Zero)
  ELSE /\ g = SfFree(Copied(h, b, w.old, l[w.old].rq), w.old)
       /\ l2 = Hold([c \in DOMAIN l \ {w.old} |-> l[c]], b, w.rq, l[w.old].n, l[w.old].data)

(* The blocks l2 are those of l, and b with r. *)
Holding(l, b, r, l2) ==
  /\ DOMAIN l2 = DOMAIN l \cup {b} /\ l2[b] = r
  /\ \A c \in DOMAIN l : c # b => l2[c] = l[c]

(* This is what Hold does. *)
LEMMA Held ==
  ASSUME NEW l, NEW b, NEW rq, NEW n, NEW data, NEW l2, l2 = Hold(l, b, rq, n, data)
  PROVE  Holding(l, b, [rq |-> rq, n |-> n, data |-> data], l2)
<1>1. PICK D : D = DOMAIN l \cup {b}
  OBVIOUS
<1>2. PICK v : v = [rq |-> rq, n |-> n, data |-> data]
  OBVIOUS
<1>3. l2 = [c \in D |-> IF c = b THEN v ELSE l[c]]
  BY <1>1, <1>2 DEF Hold
<1>4. DOMAIN l2 = D /\ \A c \in D : l2[c] = IF c = b THEN v ELSE l[c]
  BY <1>3
<1> QED
  BY <1>1, <1>2, <1>4 DEF Holding

(* The client has the block that was found, with what it had written. *)
LEMMA Returned ==
  ASSUME NEW h0, NEW w, NEW l, NEW F, Sound(h0, DOMAIN l, F), GoodWant(h0.mem, w, l), GoodLive(h0.mem, l),
         NEW b, b \notin DOMAIN l, NEW h, Granted(h0, h, DOMAIN l, b, w.rq),
         NEW g, NEW l2, ReturnsTo(h, w, l, b, g, l2), g.damage = "none"
  PROVE  Good(g, Idle, l2)
<1>L. PICK L : L = DOMAIN l
  OBVIOUS
<1>K. PICK K : K = L \cup {b}
  OBVIOUS
<1>0. PICK m0, m : m0 = h0.mem /\ m = h.mem
  OBVIOUS
<1>e. PICK e : e = Epilogue(h0)
  OBVIOUS
<1>1. Blocks(m0, L, F, e) /\ b \notin L
  BY <1>0, <1>e, <1>L DEF Sound
<1>2. PICK F2 \in SUBSET Addr : Sound(h, K, F2)
  BY <1>L, <1>K DEF Granted
<1>3. Keeps(m0, m, L) /\ m[b].rq = w.rq
  BY <1>0, <1>L DEF Granted
<1>4. Blocks(m, K, F2, Epilogue(h))
  BY <1>0, <1>2 DEF Sound
<1>5. \A c \in L : LiveAt(m, c, l[c])
  <2> SUFFICES ASSUME NEW c \in L PROVE LiveAt(m, c, l[c])
    OBVIOUS
  <2>1. LiveAt(m0, c, l[c])
    BY <1>0, <1>L DEF GoodLive
  <2>2. \A a \in c..(c + m0[c].sz - 1) : m[a].al = m0[a].al /\ m[a].sz = m0[a].sz /\ m[a].rq = m0[a].rq
    BY <1>3 DEF Keeps
  <2> QED
    BY <1>1, <2>1, <2>2, LiveAtKept
<1>6. \A x, y : GoodWant(x, Idle, y)
  <2>1. 0 \in 0..End
    BY HeapSize
  <2> QED
    BY <2>1 DEF GoodWant, Idle
<1>w. w.rq \in 0..End
  BY DEF GoodWant
<1>7. CASE w.old = Null
  <2>1. g = h /\ l2 = Hold(l, b, w.rq, 0, Zero)
    BY <1>7 DEF ReturnsTo
  <2>2. /\ DOMAIN l2 = DOMAIN l \cup {b} /\ l2[b] = [rq |-> w.rq, n |-> 0, data |-> Zero]
        /\ \A c \in DOMAIN l : c # b => l2[c] = l[c]
    <3>1. Holding(l, b, [rq |-> w.rq, n |-> 0, data |-> Zero], l2)
      BY ONLY <2>1, Held
    <3> QED
      BY <3>1 DEF Holding
  <2>3. DOMAIN l2 = K
    BY <1>L, <1>K, <2>2
  <2>4. LiveAt(m, b, l2[b])
    <3>1. PICK r : r = l2[b]
      OBVIOUS
    <3>2. r.rq = w.rq /\ r.n = 0 /\ r.data = Zero
      BY <2>2, <3>1
    <3>3. 0 \in 0..w.rq /\ 1..0 = {}
      BY <1>w, HeapSize
    <3>4. Zero \in Info
      BY Names
    <3> QED
      BY <1>3, <3>1, <3>2, <3>3, <3>4 DEF LiveAt
  <2>5. GoodLive(m, l2)
    BY <1>5, <1>1, <1>L, <1>K, <2>2, <2>3, <2>4 DEF GoodLive
  <2> QED
    BY <1>0, <1>2, <1>6, <2>1, <2>3, <2>5 DEF Good
<1>8. CASE w.old # Null
  <2>o. PICK old : old = w.old
    OBVIOUS
  <2>r. PICK r : r = l[old]
    OBVIOUS
  <2>l. PICK l1 : l1 = [c \in L \ {old} |-> l[c]]
    OBVIOUS
  <2>c. PICK hc : hc = Copied(h, b, old, r.rq)
    OBVIOUS
  <2>1. g = SfFree(hc, old) /\ l2 = Hold(l1, b, w.rq, r.n, r.data)
    BY <1>8, <1>L, <2>o, <2>r, <2>l, <2>c DEF ReturnsTo
  <2>2. old \in L /\ m0[old].sz < w.rq /\ old # b
    BY <1>0, <1>1, <1>8, <1>L, <2>o DEF GoodWant
  <2>3. m[old].sz = m0[old].sz
    <3>1. PICK s \in Nat : s = m0[old].sz
      BY <1>1, <2>2, BlockFacts
    <3>2. old \in Nat /\ s >= 4
      BY <1>1, <2>2, <3>1, BlockFacts
    <3>3. old \in old..(old + m0[old].sz - 1)
      BY <3>1, <3>2
    <3> QED
      BY <1>3, <2>2, <3>3 DEF Keeps
  <2>4. LiveAt(m, old, r)
    BY <1>5, <2>2, <2>r
  <2>5. b \in K /\ old \in K /\ b # old /\ LiveAt(h.mem, old, r) /\ h.mem[old].sz < h.mem[b].rq
    BY <1>0, <1>3, <1>K, <2>2, <2>3, <2>4
  <2>6. Copies(h, hc, K, F2, b, r)
    BY ONLY <1>2, <2>5, <2>c, CopyFields
  <2>7. /\ Sound(hc, K, F2)
        /\ \A c \in K \ {b} : \A a \in c..(c + h.mem[c].sz - 1) : hc.mem[a] = h.mem[a]
    BY <2>6 DEF Copies
  <2>8. LiveAt(hc.mem, b, [rq |-> h.mem[b].rq, n |-> r.n, data |-> r.data])
    BY <2>6 DEF Copies
  <2>9. TakenBack(hc, g, K, old)
    BY <2>1, <2>5, <2>7, Freed
  <2>10. Blocks(hc.mem, K, F2, Epilogue(hc))
    BY <2>7 DEF Sound
  <2>11. Keeps(hc.mem, g.mem, K \ {old}) /\ \E F3 \in SUBSET Addr : Sound(g, K \ {old}, F3)
    BY <2>9 DEF TakenBack
  <2>12. DOMAIN l1 = L \ {old} /\ \A c \in L \ {old} : l1[c] = l[c]
    BY <2>l
  <2>13. /\ DOMAIN l2 = DOMAIN l1 \cup {b} /\ l2[b] = [rq |-> w.rq, n |-> r.n, data |-> r.data]
         /\ \A c \in DOMAIN l1 : c # b => l2[c] = l1[c]
    <3>1. Holding(l1, b, [rq |-> w.rq, n |-> r.n, data |-> r.data], l2)
      BY ONLY <2>1, Held
    <3> QED
      BY <3>1 DEF Holding
  <2>14. DOMAIN l2 = K \ {old}
    BY <1>K, <2>2, <2>12, <2>13
  <2>15. LiveAt(hc.mem, b, l2[b])
    BY <1>0, <1>3, <2>8, <2>13
  <2>16. \A c \in K \ {old} : LiveAt(hc.mem, c, l2[c])
    <3> SUFFICES ASSUME NEW c \in K \ {old}, c # b PROVE LiveAt(hc.mem, c, l2[c])
      BY <2>15
    <3>1. c \in L /\ c \in K /\ l2[c] = l[c]
      BY <1>K, <2>12, <2>13
    <3>2. LiveAt(m, c, l2[c])
      BY <1>5, <3>1
    <3>3. \A a \in c..(c + m[c].sz - 1) :
            hc.mem[a].al = m[a].al /\ hc.mem[a].sz = m[a].sz /\ hc.mem[a].rq = m[a].rq
      BY <1>0, <2>7, <3>1
    <3> QED
      BY ONLY <1>4, <3>1, <3>2, <3>3, LiveAtKept
  <2>17. GoodLive(g.mem, l2)
    <3> SUFFICES ASSUME NEW c \in K \ {old} PROVE LiveAt(g.mem, c, l2[c])
      BY <2>14 DEF GoodLive
    <3>1. c \in K /\ LiveAt(hc.mem, c, l2[c])
      BY <2>16
    <3>2. \A a \in c..(c + hc.mem[c].sz - 1) :
            g.mem[a].al = hc.mem[a].al /\ g.mem[a].sz = hc.mem[a].sz /\ g.mem[a].rq = hc.mem[a].rq
      BY <2>11 DEF Keeps
    <3> QED
      BY ONLY <2>10, <3>1, <3>2, LiveAtKept
  <2> QED
    BY <1>6, <2>11, <2>14, <2>17 DEF Good
<1> QED
  BY <1>7, <1>8

(* The heap of sf_realloc with what is no larger than the block. *)
Resized(h, b, rs) ==
  LET bs   == TotalBlockSz(rs)
      rest == h.mem[b].sz - bs
      h1   == [MakeFree(h, b + bs, rest, 1) EXCEPT !.mem[b].sz = bs, !.mem[b].rq = rs]
  IN  CASE rest < 0           -> [h EXCEPT !.damage = "realloc"]
        [] rest \in 0..3      -> [h EXCEPT !.mem[b].rq = rs]
        [] OTHER              -> Coalesce(h1, b + bs).h

(* The block b has the request rs and the words of it that it had. *)
Fitted(h, g, L, b, rs) ==
  /\ g.damage = h.damage /\ Keeps(h.mem, g.mem, L \ {b}) /\ g.mem[b].rq = rs
  /\ \A k \in 1..rs : /\ g.mem[b + k].al = h.mem[b + k].al /\ g.mem[b + k].sz = h.mem[b + k].sz
                      /\ g.mem[b + k].rq = h.mem[b + k].rq
  /\ \E F2 \in SUBSET Addr : Sound(g, L, F2)

(* A header is written that says the same but for the request. *)
LEMMA SameMarks ==
  ASSUME NEW m, NEW L, NEW B, NEW e, Blocks(m, L, B, e), NEW m2 \in [Addr -> Info],
         \A a \in Addr : m2[a].al = m[a].al /\ m2[a].sz = m[a].sz /\ m2[a].pal = m[a].pal,
         \A b \in L : m2[b].rq < m[b].sz
  PROVE  Blocks(m2, L, B, e) /\ (Apart(m, B) => Apart(m2, B))
<1>1. /\ e \in Nat /\ e < End /\ End \in Nat
      /\ \A b \in L \cup B : /\ b \in Addr /\ b \in Nat /\ m[b].sz \in Nat /\ m[b].sz >= 4 /\ b + m[b].sz <= e
                             /\ b + m[b].sz \in L \cup B \cup {e}
  BY BlockFacts
<1>2. \A b \in L \cup B : m2[b].al = m[b].al /\ m2[b].sz = m[b].sz /\ m2[b].pal = m[b].pal
  BY <1>1
<1>3. Tiles(m2, L \cup B, e)
  BY <1>2 DEF Blocks, Tiles
<1>4. ASSUME NEW b \in B PROVE m2[b].al = 0 /\ m2[b + m2[b].sz - 1].sz = m2[b].sz
  <2>1. PICK s \in Nat : s = m[b].sz
    BY <1>1
  <2>2. b + s - 1 \in Addr
    BY <1>1, <2>1 DEF Addr
  <2>3. m[b].al = 0 /\ m[b + s - 1].sz = s
    BY <2>1 DEF Blocks, Marked
  <2>4. m2[b].al = 0 /\ m2[b].sz = s
    BY <1>2, <2>1, <2>3
  <2> QED
    BY <2>2, <2>3, <2>4
<1>5. Marked(m2, L, B)
  <2>1. \A b \in L : m2[b].al = 1 /\ m2[b].rq < m2[b].sz
    BY <1>2 DEF Blocks, Marked
  <2>2. \A b \in L \cup B : m2[b].pal = 0 => \E p \in B : p + m2[p].sz = b
    BY <1>2 DEF Blocks, Marked
  <2> QED
    BY <1>4, <2>1, <2>2 DEF Marked
<1>6. Apart(m, B) => Apart(m2, B)
  BY <1>2 DEF Apart
<1> QED
  BY <1>3, <1>5, <1>6 DEF Blocks


(* The header of a block gets another size and request. *)
HeaderAt(h, b, s, rq) == [h EXCEPT !.mem[b].sz = s, !.mem[b].rq = rq]

(* Nothing else is changed. *)
OnlyHeader(h, g, b, s, rq) ==
  /\ g \in HeapType /\ g.nxt = h.nxt /\ g.prv = h.prv
  /\ g.lists = h.lists /\ g.pages = h.pages /\ g.damage = h.damage
  /\ g.mem[b] = [h.mem[b] EXCEPT !.sz = s, !.rq = rq]
  /\ \A a \in Addr : a # b => g.mem[a] = h.mem[a]

(* This is so for any block. *)
LEMMA HeaderWritten ==
  ASSUME NEW h \in HeapType, NEW b \in Addr, NEW s \in 0..End, NEW rq \in 0..End,
         NEW g, g = HeaderAt(h, b, s, rq)
  PROVE  OnlyHeader(h, g, b, s, rq)
<1>m. PICK m \in [Addr -> Info] : m = h.mem
  BY DEF HeapType
<1>w. PICK w : w = [m[b] EXCEPT !.sz = s, !.rq = rq]
  OBVIOUS
<1>1. w \in Info
  BY <1>w DEF Info
<1>2. PICK m2 : m2 = [m EXCEPT ![b] = w]
  OBVIOUS
<1>3. m2 \in [Addr -> Info] /\ m2[b] = w /\ \A a \in Addr : a # b => m2[a] = m[a]
  BY <1>1, <1>2
<1>4. g = [h EXCEPT !.mem = m2]
  BY <1>m, <1>w, <1>2 DEF HeaderAt, HeapType
<1>5. /\ g \in HeapType /\ g.mem = m2 /\ g.nxt = h.nxt /\ g.prv = h.prv /\ g.lists = h.lists
      /\ g.pages = h.pages /\ g.damage = h.damage
  BY ONLY <1>3, <1>4, h \in HeapType DEF HeapType
<1> QED
  BY <1>3, <1>5, <1>m, <1>w DEF OnlyHeader

(* sf_realloc leaves b with the request rs, if it does not ask for more than *)
(* there is.                                                                 *)
LEMMA ResizedFits ==
  ASSUME NEW h, NEW L, NEW F \in SUBSET Addr, Sound(h, L, F), h.damage = "none", NEW b \in L, NEW rs \in 1..End,
         NEW g, g = Resized(h, b, rs), g.damage = "none"
  PROVE  Fitted(h, g, L, b, rs)
<1>0. PICK m : m = h.mem
  OBVIOUS
<1>e. PICK e : e = Epilogue(h)
  OBVIOUS
<1>1. /\ h \in HeapType /\ h.pages \in 1..Pages /\ Blocks(m, L, F, e) /\ Apart(m, F)
      /\ Linked(m, h.nxt, h.prv, h.lists, F)
  BY <1>0, <1>e DEF Sound
<1>2. /\ e \in Nat /\ e < End /\ End \in Nat /\ m \in [Addr -> Info]
      /\ \A d \in L \cup F :
           /\ d \in Nat /\ d \in Addr /\ m[d].sz \in Nat /\ m[d].sz >= 4 /\ m[d].sz % 2 = 0 /\ d + m[d].sz <= e
  BY <1>1, BlockFacts
<1>t. PICK ws \in Nat : ws = m[b].sz
  BY <1>2
<1>s. PICK bs \in Nat : bs = TotalBlockSz(rs)
  <2>1. rs \in Nat
    BY <1>2
  <2> QED
    BY <2>1, BlockSize
<1>3. /\ b \in Nat /\ b \in Addr /\ b + ws <= e /\ ws % 2 = 0 /\ bs >= 4 /\ bs % 2 = 0 /\ rs < bs /\ rs \in Nat
  <2>1. rs \in Nat
    BY <1>2
  <2>2. bs >= 4 /\ bs % 2 = 0 /\ rs < bs
    BY <1>s, <2>1, BlockSize
  <2> QED
    BY <1>2, <1>s, <1>t, <2>1, <2>2
<1>r. PICK rest : rest = ws - bs
  OBVIOUS
<1>z. PICK z : z = b + bs
  OBVIOUS
<1>f. PICK hf : hf = MakeFree(h, z, rest, 1)
  OBVIOUS
<1>h. PICK h2 : h2 = [hf EXCEPT !.mem[b].sz = bs, !.mem[b].rq = rs]
  BY Zenon
<1>4. g = CASE rest < 0           -> [h EXCEPT !.damage = "realloc"]
            [] rest \in 0..3      -> [h EXCEPT !.mem[b].rq = rs]
            [] OTHER              -> Coalesce(h2, z).h
  BY Zenon, <1>0, <1>s, <1>t, <1>r, <1>z, <1>f, <1>h DEF Resized
<1>5. CASE rest < 0
  <2>1. g = [h EXCEPT !.damage = "realloc"]
    BY <1>4, <1>5
  <2>2. g.damage = "realloc"
    BY <1>1, <2>1 DEF HeapType
  <2> QED
    BY <2>2
<1>6. CASE rest \in 0..3
  <2>1. ~(rest < 0) /\ bs <= ws
    BY <1>3, <1>6, <1>r
  <2>2. g = [h EXCEPT !.mem[b].rq = rs]
    BY <1>4, <1>6, <2>1
  <2>3. PICK m2 : m2 = g.mem
    OBVIOUS
  <2>4. /\ g \in HeapType /\ g.nxt = h.nxt /\ g.prv = h.prv
        /\ g.lists = h.lists /\ g.pages = h.pages /\ g.damage = h.damage
        /\ m2 \in [Addr -> Info] /\ m2[b] = [m[b] EXCEPT !.rq = rs]
        /\ \A a \in Addr : a # b => m2[a] = m[a]
    <3>1. PICK v : v = [m[b] EXCEPT !.rq = rs]
      OBVIOUS
    <3>2. v \in Info
      BY <1>2, <1>3, <3>1 DEF Info
    <3>3. PICK mm : mm = [m EXCEPT ![b] = v]
      OBVIOUS
    <3>4. mm \in [Addr -> Info] /\ mm[b] = v /\ \A a \in Addr : a # b => mm[a] = m[a]
      BY <1>2, <1>3, <3>2, <3>3
    <3>5. g = [h EXCEPT !.mem = mm]
      BY <1>0, <2>2, <3>1, <3>3
    <3>6. /\ g \in HeapType /\ g.mem = mm /\ g.nxt = h.nxt /\ g.prv = h.prv /\ g.lists = h.lists
          /\ g.pages = h.pages /\ g.damage = h.damage
      BY ONLY <1>1, <3>4, <3>5 DEF HeapType
    <3> QED
      BY <2>3, <3>1, <3>4, <3>6
  <2>5. m2[b].al = m[b].al /\ m2[b].sz = m[b].sz /\ m2[b].pal = m[b].pal /\ m2[b].rq = rs
    <3>1. m[b] \in Info
      BY <1>2, <1>3
    <3> QED
      BY <2>4, <3>1 DEF Info
  <2>6. \A a \in Addr : m2[a].al = m[a].al /\ m2[a].sz = m[a].sz /\ m2[a].pal = m[a].pal
    BY <2>4, <2>5
  <2>7. \A d \in L : m2[d].rq < m[d].sz
    <3> SUFFICES ASSUME NEW d \in L PROVE m2[d].rq < m[d].sz
      OBVIOUS
    <3>1. CASE d = b
      BY <1>3, <1>t, <2>1, <2>5, <3>1
    <3>2. CASE d # b
      <4>1. m2[d] = m[d]
        BY <1>2, <2>4, <3>2
      <4> QED
        BY <1>1, <4>1 DEF Blocks, Marked
    <3> QED
      BY <3>1, <3>2
  <2>8. Blocks(m2, L, F, e)
    BY ONLY <1>1, <2>4, <2>6, <2>7, SameMarks
  <2>9. Apart(m, F) => Apart(m2, F)
    BY ONLY <1>1, <2>4, <2>6, <2>7, SameMarks
  <2>10. Linked(m2, g.nxt, g.prv, g.lists, F)
    <3>1. \A d \in F : m2[d].sz = m[d].sz
      BY <1>2, <2>6
    <3>2. PICK n, p, l : n = g.nxt /\ p = g.prv /\ l = g.lists
      OBVIOUS
    <3>3. Linked(m, n, p, l, F)
      BY <1>1, <2>4, <3>2
    <3>4. Linked(m2, n, p, l, F)
      BY ONLY <3>1, <3>3, LinkedSame
    <3> QED
      BY <3>2, <3>4
  <2>11. Sound(g, L, F)
    <3>1. Epilogue(g) = e
      BY <2>4, <1>e DEF Epilogue
    <3> QED
      BY <1>1, <2>3, <2>4, <2>8, <2>9, <2>10, <3>1 DEF Sound
  <2>12. Keeps(m, m2, L \ {b})
    <3> SUFFICES ASSUME NEW d \in L \ {b}, NEW a \in d..(d + m[d].sz - 1)
                 PROVE  m2[a].al = m[a].al /\ m2[a].sz = m[a].sz /\ m2[a].rq = m[a].rq
      BY DEF Keeps
    <3>1. b \in L \cup F /\ d \in L \cup F /\ b # d
      OBVIOUS
    <3>2. a \in Addr /\ a \notin b..(b + m[b].sz - 1)
      BY ONLY <1>1, <3>1, a \in d..(d + m[d].sz - 1), Elsewhere
    <3>3. b \in b..(b + m[b].sz - 1)
      BY <1>2
    <3>4. a # b
      BY <3>2, <3>3
    <3> QED
      BY <2>4, <3>2, <3>4
  <2>13. ASSUME NEW k \in 1..rs PROVE m2[b + k] = m[b + k]
    <3>1. b + k \in Addr /\ b + k # b
      BY <1>2, <1>3, <2>1 DEF Addr
    <3> QED
      BY <2>4, <3>1
  <2> QED
    BY <1>0, <2>3, <2>4, <2>5, <2>11, <2>12, <2>13 DEF Fitted
<1>7. CASE ~(rest < 0) /\ ~(rest \in 0..3)
  <2>y. PICK y : y = b + ws
    OBVIOUS
  <2>g. g = Coalesce(h2, z).h
    BY <1>4, <1>7
  <2>1. /\ z \in Nat /\ y \in Nat /\ rest \in Nat /\ y = z + rest /\ rest >= 4 /\ z + 4 <= y /\ y < End
        /\ z >= b + 4 /\ y - z = rest /\ bs <= ws
    BY <1>2, <1>3, <1>7, <1>z, <2>y, <1>r
  <2>2. /\ z \in Addr /\ rest \in 0..End /\ z + rest - 1 \in Addr /\ y - 1 \in Addr /\ z + rest - 1 = y - 1
        /\ bs \in 0..End /\ rs \in 0..End
    BY <1>2, <1>3, <2>1, <2>y DEF Addr
  <2>3. /\ hf \in HeapType /\ hf.nxt = h.nxt /\ hf.prv = h.prv
        /\ hf.lists = h.lists /\ hf.pages = h.pages /\ hf.damage = h.damage
        /\ hf.mem[z] = Word(0, 1, rest, 0) /\ hf.mem[z + rest - 1] = Word(0, 1, rest, 0)
        /\ \A a \in Addr : a \notin z..(z + rest - 1) => hf.mem[a] = h.mem[a]
    <3>1. 1 \in Bit
      BY DEF Bit
    <3> QED
      BY ONLY <1>1, <2>1, <2>2, <1>f, <3>1, MakeFreeFields
  <2>4. /\ h2 \in HeapType /\ h2.nxt = hf.nxt /\ h2.prv = hf.prv
        /\ h2.lists = hf.lists /\ h2.pages = hf.pages /\ h2.damage = hf.damage
        /\ h2.mem[b] = [hf.mem[b] EXCEPT !.sz = bs, !.rq = rs]
        /\ \A a \in Addr : a # b => h2.mem[a] = hf.mem[a]
    <3>1. h2 = HeaderAt(hf, b, bs, rs)
      BY <1>h DEF HeaderAt
    <3>2. OnlyHeader(hf, h2, b, bs, rs)
      BY ONLY <1>3, <2>2, <2>3, <3>1, HeaderWritten
    <3> QED
      BY <3>2 DEF OnlyHeader
  <2>5. hf.mem[b] = m[b] /\ z # b /\ y - 1 # b
    <3>1. b \notin z..(z + rest - 1) /\ z # b /\ y - 1 # b
      BY <1>3, <2>1
    <3> QED
      BY <1>0, <1>3, <2>3, <3>1
  <2>6. h2.mem[b].al = 1 /\ h2.mem[b].sz = bs /\ h2.mem[b].pal = m[b].pal /\ h2.mem[b].rq = rs
    <3>1. m[b] \in Info /\ m[b].al = 1
      BY <1>1, <1>2, <1>3 DEF Blocks, Marked
    <3> QED
      BY <2>4, <2>5, <3>1 DEF Info
  <2>7. h2.mem[z] = Word(0, 1, rest, 0) /\ h2.mem[y - 1] = Word(0, 1, rest, 0)
    BY <2>2, <2>3, <2>4, <2>5
  <2>8. \A a \in Addr : a # b /\ a \notin z..(y - 1) => h2.mem[a] = m[a]
    BY <1>0, <2>2, <2>3, <2>4
  <2>9. Pieces(h, h2, b, bs, z, y)
    <3>1. \A a \in Addr : a \notin b..(y - 1) => h2.mem[a] = m[a]
      <4> SUFFICES ASSUME NEW a \in Addr, a \notin b..(y - 1) PROVE a # b /\ a \notin z..(y - 1)
        BY <2>8
      <4>1. b \in b..(y - 1)
        BY <1>3, <2>1
      <4>2. z..(y - 1) \subseteq b..(y - 1)
        BY <1>3, <2>1
      <4> QED
        BY <4>1, <4>2
    <3>2. y = b + h.mem[b].sz /\ y - z >= 4 /\ z = b + bs
      BY <1>0, <1>t, <1>z, <2>1, <2>y
    <3>3. h2.mem[z].al = 0 /\ h2.mem[z].pal = 1 /\ h2.mem[z].sz = y - z /\ h2.mem[y - 1].sz = y - z
      BY <2>1, <2>7 DEF Word
    <3> QED
      BY <1>0, <1>3, <2>3, <2>4, <2>6, <3>1, <3>2, <3>3 DEF Pieces
  <2>10. Shortened(h, h2, g, L, b, bs)
    BY ONLY <2>g, <2>9, Sound(h, L, F), b \in L, g.damage = "none", SplitOff
  <2>11. ASSUME NEW k \in 1..rs
         PROVE  /\ g.mem[b + k].al = m[b + k].al /\ g.mem[b + k].sz = m[b + k].sz
                /\ g.mem[b + k].rq = m[b + k].rq
    <3>1. b + k \in Addr /\ b + k # b /\ b + k \notin z..(y - 1)
      BY <1>2, <1>3, <1>z, <2>1 DEF Addr
    <3>2. h2.mem[b + k] = m[b + k]
      BY <2>8, <3>1
    <3>3. b + k \in b..(b + h2.mem[b].sz - 1)
      <4>1. b + k \in b..(b + bs - 1)
        BY <1>3
      <4> QED
        BY <2>6, <4>1
    <3> QED
      BY <2>10, <3>2, <3>3 DEF Shortened, Keeps
  <2> QED
    BY <1>0, <2>6, <2>10, <2>11 DEF Shortened, Fitted
<1> QED
  BY <1>5, <1>6, <1>7


----------------------------------------------------------------------------
(* A damaged heap stays damaged *)

(* What has happened to the heap is one of D. *)
Tells(D, h) == "damage" \in DOMAIN h /\ h.damage \in D

(* It remains so under the operations on words and lists, whatever they do,  *)
(* as long as D has what they may add.                                       *)
LEMMA PartsTell ==
  ASSUME NEW D, {"unlink", "abort"} \subseteq D, NEW h, Tells(D, h)
  PROVE  /\ \A b, s, pal : Tells(D, MakeFree(h, b, s, pal))
         /\ \A b : Tells(D, InsertBlock(h, b))
         /\ \A b, s : Tells(D, DeleteFreeblock(h, b, s))
         /\ \A b, bit : Tells(D, SetPrevAllocated(h, b, bit))
         /\ \A b, f : Tells(D, FreeWords(h, b, f))
         /\ \A x, f, new, v : Tells(D, JoinWords(h, x, f, new, v))
         /\ \A ok : Tells(D, Damaged(h, ok, "unlink"))
         /\ \A b, old, rq : Tells(D, Copied(h, b, old, rq))
<1>1. ASSUME NEW b, NEW s, NEW pal PROVE Tells(D, MakeFree(h, b, s, pal))
  BY ZenonT(60) DEF Tells, MakeFree
<1>2. ASSUME NEW b PROVE Tells(D, InsertBlock(h, b))
  BY Zenon DEF Tells, InsertBlock
<1>3. ASSUME NEW b, NEW s PROVE Tells(D, DeleteFreeblock(h, b, s))
  BY DEF Tells, DeleteFreeblock
<1>4. ASSUME NEW b, NEW bit PROVE Tells(D, SetPrevAllocated(h, b, bit))
  BY DEF Tells, SetPrevAllocated
<1>5. ASSUME NEW b, NEW f PROVE Tells(D, FreeWords(h, b, f))
  BY DEF Tells, FreeWords
<1>6. ASSUME NEW x, NEW f, NEW new, NEW v PROVE Tells(D, JoinWords(h, x, f, new, v))
  BY DEF Tells, JoinWords
<1>7. ASSUME NEW ok PROVE Tells(D, Damaged(h, ok, "unlink"))
  BY DEF Tells, Damaged
<1>8. ASSUME NEW b, NEW old, NEW rq PROVE Tells(D, Copied(h, b, old, rq))
  BY DEF Tells, Copied
<1> QED
  BY <1>1, <1>2, <1>3, <1>4, <1>5, <1>6, <1>7, <1>8

(* So it does under coalesce_blocks. *)
LEMMA CoalesceTells ==
  ASSUME NEW D, {"unlink", "abort"} \subseteq D, NEW h, Tells(D, h), NEW b
  PROVE  Tells(D, Coalesce(h, b).h)
<1>1. Tells(D, JoinUp(h, b).h)
  <2> DEFINE p   == b - h.mem[b - 1].sz
             new == h.mem[p].sz + h.mem[b].sz
             h1  == JoinWords(h, p, Foot(h, b), new, h.mem[p].pal)
  <2>1. JoinUp(h, b).h = Damaged(InsertBlock(DeleteFreeblock(h1, p, h.mem[p].sz), p),
                                 ListIs(h, h.mem[p].sz, <<p>>), "unlink")
    BY DEF JoinUp, JoinWords
  <2>2. Tells(D, h1)
    BY PartsTell
  <2> HIDE DEF h1
  <2>3. Tells(D, DeleteFreeblock(h1, p, h.mem[p].sz))
    BY <2>2, PartsTell
  <2>4. Tells(D, InsertBlock(DeleteFreeblock(h1, p, h.mem[p].sz), p))
    BY <2>3, PartsTell
  <2> QED
    BY <2>1, <2>4, PartsTell
<1>2. Tells(D, JoinDown(h, b).h)
  <2> DEFINE n   == b + h.mem[b].sz
             new == h.mem[b].sz + h.mem[n].sz
             h1  == JoinWords(h, b, Foot(h, n), new, h.mem[b].pal)
             s   == h.mem[Foot(h, n)].sz
  <2>1. JoinDown(h, b).h = Damaged(InsertBlock(DeleteFreeblock(h1, n, s), b),
                                   ListIs(h, h.mem[n].sz, <<n>>), "unlink")
    BY DEF JoinDown, JoinWords
  <2>2. Tells(D, h1)
    BY PartsTell
  <2> HIDE DEF h1
  <2>3. Tells(D, DeleteFreeblock(h1, n, s))
    BY <2>2, PartsTell
  <2>4. Tells(D, InsertBlock(DeleteFreeblock(h1, n, s), b))
    BY Zenon, <2>3, PartsTell
  <2> QED
    BY <2>1, <2>4, PartsTell
<1>3. Tells(D, JoinBoth(h, b).h)
  <2> DEFINE p   == b - h.mem[b - 1].sz
             n   == b + h.mem[b].sz
             ps  == h.mem[p].sz
             ns  == h.mem[Foot(h, n)].sz
             h1  == JoinWords(h, p, Foot(h, n), ps + h.mem[b].sz + ns, h.mem[p].pal)
             ok  == IF ps = ns THEN ListIs(h, ps, <<p, n>>)
                               ELSE ListIs(h, ps, <<p>>) /\ ListIs(h, ns, <<n>>)
  <2>1. JoinBoth(h, b).h = Damaged(InsertBlock(DeleteFreeblock(DeleteFreeblock(h1, p, ps), n, ns), p), ok, "unlink")
    BY DEF JoinBoth, JoinWords
  <2>2. Tells(D, h1)
    BY PartsTell
  <2> HIDE DEF h1
  <2>3. Tells(D, DeleteFreeblock(h1, p, ps))
    BY <2>2, PartsTell
  <2>4. Tells(D, DeleteFreeblock(DeleteFreeblock(h1, p, ps), n, ns))
    BY <2>3, PartsTell
  <2>5. Tells(D, InsertBlock(DeleteFreeblock(DeleteFreeblock(h1, p, ps), n, ns), p))
    BY <2>4, PartsTell
  <2> QED
    BY Zenon, <2>1, <2>5, PartsTell
<1>4. Tells(D, InsertBlock(h, b))
  BY PartsTell
<1>a. PICK above \in BOOLEAN : above = (b # First /\ h.mem[b].pal # 1)
  OBVIOUS
<1>w. PICK below \in BOOLEAN : below = (b + h.mem[b].sz # Epilogue(h) /\ h.mem[b + h.mem[b].sz].al # 1)
  BY Zenon
<1>5. Coalesce(h, b) = CASE above /\ ~below  -> JoinUp(h, b)
                         [] ~above /\ below  -> JoinDown(h, b)
                         [] above /\ below   -> JoinBoth(h, b)
                         [] ~above /\ ~below -> [h |-> InsertBlock(h, b), b |-> b]
  BY Zenon, <1>a, <1>w DEF Coalesce
<1> QED
  BY <1>1, <1>2, <1>3, <1>4, <1>5

(* And under process_request and sf_free. *)
LEMMA ServingTells ==
  ASSUME NEW D, {"unlink", "abort"} \subseteq D, NEW h, Tells(D, h)
  PROVE  /\ \A b, rq : Tells(D, ProcessRequest(h, b, rq))
         /\ \A b : Tells(D, SfFree(h, b))
<1>1. ASSUME NEW b, NEW rq, NEW x, Tells(D, x) PROVE Tells(D, AllocateBlock(x, b, rq))
  <2> DEFINE h1 == [x EXCEPT !.nxt[x.prv[b]] = x.nxt[b], !.prv[x.nxt[b]] = x.prv[b]]
             h2 == [h1 EXCEPT !.mem[b].al = 1, !.mem[b].rq = rq, !.nxt[b] = Null, !.prv[b] = Null,
                              !.mem[b + 1] = Zero, !.mem[b + 2] = Zero]
  <2>1. AllocateBlock(x, b, rq) = SetPrevAllocated(h2, b + x.mem[b].sz, 1)
    BY DEF AllocateBlock
  <2>2. Tells(D, h1)
    BY <1>1 DEF Tells
  <2> HIDE DEF h1
  <2>3. Tells(D, h2)
    BY <2>2 DEF Tells
  <2> HIDE DEF h2
  <2> QED
    BY <2>1, <2>3, PartsTell
<1>2. ASSUME NEW b, NEW rq, NEW bs PROVE Tells(D, SplitBlock(h, b, rq, bs))
  <2> DEFINE h0 == MakeFree(h, b + bs, h.mem[b].sz - bs, 1)
             h1 == AllocateBlock(h0, b, rq)
             h2 == [h1 EXCEPT !.mem[b].sz = bs]
  <2>1. SplitBlock(h, b, rq, bs) = Coalesce(h2, b + bs).h
    BY DEF SplitBlock
  <2>2. Tells(D, h0)
    BY PartsTell
  <2>3. Tells(D, h1)
    BY <1>1, <2>2
  <2> HIDE DEF h1
  <2>4. Tells(D, h2)
    BY <2>3 DEF Tells
  <2> HIDE DEF h2
  <2> QED
    BY <2>1, <2>4, CoalesceTells
<1>3. ASSUME NEW b, NEW rq PROVE Tells(D, ProcessRequest(h, b, rq))
  BY <1>1, <1>2 DEF ProcessRequest
<1>4. ASSUME NEW b PROVE Tells(D, SfFree(h, b))
  <2>1. Tells(D, FreeBlock(h, b))
    <3> DEFINE h1 == FreeWords(h, b, Foot(h, b))
               h2 == SetPrevAllocated(h1, b + h.mem[b].sz, 0)
    <3>1. FreeBlock(h, b) = Coalesce(h2, b).h
      BY DEF FreeBlock, FreeWords
    <3>2. Tells(D, h1)
      BY PartsTell
    <3> HIDE DEF h1
    <3>3. Tells(D, h2)
      BY <3>2, PartsTell
    <3> HIDE DEF h2
    <3> QED
      BY <3>1, <3>3, CoalesceTells
  <2>2. Tells(D, [h EXCEPT !.damage = "abort"])
    BY DEF Tells
  <2> QED
    BY <2>1, <2>2 DEF SfFree
<1> QED
  BY <1>3, <1>4


(* search_freeblock finds a free block that is large enough. *)
LEMMA FitsFree ==
  ASSUME NEW h, NEW L, NEW F, Sound(h, L, F), NEW bs \in Nat, Fitting(h, bs) # {}
  PROVE  SearchFreeblock(h, bs) \in F /\ bs <= h.mem[SearchFreeblock(h, bs)].sz
<1>1. h \in HeapType /\ Linked(h.mem, h.nxt, h.prv, h.lists, F)
  BY DEF Sound
<1>2. PICK T \in SUBSET Nat : T = Fitting(h, bs)
  <2>1. h.lists \subseteq 1..End /\ End \in Nat
    BY <1>1, HeapSize DEF HeapType
  <2>2. h.lists \subseteq Nat
    BY <2>1
  <2>3. Fitting(h, bs) \in SUBSET Nat
    BY <2>2 DEF Fitting
  <2> QED
    BY <2>3
<1>3. PICK s : s = Min(T)
  OBVIOUS
<1>4. s \in T
  <2>1. \E x \in T : \A y \in T : x <= y
    BY <1>2, LeastNumber
  <2> QED
    BY <1>3, <2>1 DEF Min
<1>5. s \in h.lists /\ s >= bs /\ h.nxt[-s] # -s
  BY <1>2, <1>4 DEF Fitting
<1>6. PICK b : b = h.nxt[-s]
  OBVIOUS
<1>7. b \in ListOf(h.mem, F, s)
  <2>1. -s \in ListOf(h.mem, F, s)
    BY DEF ListOf
  <2> QED
    BY <1>1, <1>5, <1>6, <2>1 DEF Linked
<1>8. b \in F /\ h.mem[b].sz = s
  BY <1>5, <1>6, <1>7 DEF ListOf
<1>9. SearchFreeblock(h, bs) = b
  BY <1>2, <1>3, <1>6 DEF SearchFreeblock
<1>10. s \in Nat
  BY <1>4
<1> QED
  BY <1>5, <1>8, <1>9, <1>10

(* The damage that process_request and what follows it finds is not undone.  *)
LEMMA Undone ==
  ASSUME NEW h, Tells(Damages, h), NEW rq, NEW b, NEW w, NEW l, NEW g, NEW l2,
         ReturnsTo(ProcessRequest(h, b, rq), w, l, b, g, l2), g.damage = "none"
  PROVE  h.damage = "none" /\ ProcessRequest(h, b, rq).damage = "none"
<1>d. PICK D : D = Damages \ {"none"}
  OBVIOUS
<1>0. {"unlink", "abort"} \subseteq Damages /\ {"unlink", "abort"} \subseteq D
  BY <1>d DEF Damages
<1>p. PICK h1 : h1 = ProcessRequest(h, b, rq)
  OBVIOUS
<1>1. Tells(Damages, h1)
  BY <1>0, <1>p, ServingTells
<1>2. ASSUME Tells(D, h1) PROVE FALSE
  <2>1. CASE w.old = Null
    <3>1. g = h1
      BY <1>p, <2>1 DEF ReturnsTo
    <3> QED
      BY <1>2, <1>d, <3>1 DEF Tells
  <2>2. CASE w.old # Null
    <3>1. g = SfFree(Copied(h1, b, w.old, l[w.old].rq), w.old)
      BY <1>p, <2>2 DEF ReturnsTo
    <3>2. Tells(D, Copied(h1, b, w.old, l[w.old].rq))
      BY <1>0, <1>2, PartsTell
    <3>3. Tells(D, g)
      BY <1>0, <3>1, <3>2, ServingTells
    <3> QED
      BY <1>d, <3>3 DEF Tells
  <2> QED
    BY <2>1, <2>2
<1>3. h1.damage = "none"
  BY <1>1, <1>2, <1>d DEF Tells
<1>4. ASSUME Tells(D, h) PROVE FALSE
  BY <1>0, <1>2, <1>4, <1>p, ServingTells
<1>5. h.damage = "none"
  BY <1>4, <1>d DEF Tells
<1> QED
  BY <1>3, <1>5, <1>p

(* A request is served from a free block that is large enough. *)
LEMMA Served ==
  ASSUME NEW h, NEW w, NEW l, NEW F, Sound(h, DOMAIN l, F), GoodWant(h.mem, w, l), GoodLive(h.mem, l),
         NEW b \in F, TotalBlockSz(w.rq) <= h.mem[b].sz,
         NEW g, NEW l2, ReturnsTo(ProcessRequest(h, b, w.rq), w, l, b, g, l2), g.damage = "none"
  PROVE  Good(g, Idle, l2)
<1>1. Tells(Damages, h)
  BY DEF Sound, HeapType, Tells
<1>p. PICK h1 : h1 = ProcessRequest(h, b, w.rq)
  OBVIOUS
<1>2. h1.damage = "none"
  BY <1>1, <1>p, Undone
<1>3. w.rq \in 0..End
  BY DEF GoodWant
<1>4. PICK L : L = DOMAIN l
  OBVIOUS
<1>5. Granted(h, h1, L, b, w.rq)
  <2>1. PICK rq \in 0..End : rq = w.rq
    BY <1>3
  <2>2. Sound(h, L, F) /\ TotalBlockSz(rq) <= h.mem[b].sz /\ h1 = ProcessRequest(h, b, rq)
    BY <1>4, <1>p, <2>1
  <2>3. Granted(h, h1, L, b, rq)
    BY ONLY <1>2, <2>2, b \in F, rq \in 0..End, Requested
  <2> QED
    BY <2>1, <2>3
<1>6. b \notin DOMAIN l
  BY DEF Sound, Blocks
<1>7. ReturnsTo(h1, w, l, b, g, l2)
  BY <1>p
<1> QED
  BY <1>4, <1>5, <1>6, <1>7, Returned
----------------------------------------------------------------------------
(* What the operations do for the client *)

(* A request that asks for nothing is in order, and one that has found its   *)
(* old block too small finds it so as long as its size is kept.              *)
LEMMA WantKept ==
  /\ \A m, l : GoodWant(m, Idle, l)
  /\ \A m, m2, w, l : GoodWant(m, w, l) /\ (\A b \in DOMAIN l : m2[b].sz = m[b].sz) => GoodWant(m2, w, l)
<1>1. End \in Nat
  BY HeapSize
<1>2. ASSUME NEW m, NEW l PROVE GoodWant(m, Idle, l)
  BY <1>1 DEF GoodWant, Idle
<1>3. ASSUME NEW m, NEW m2, NEW w, NEW l, GoodWant(m, w, l), \A b \in DOMAIN l : m2[b].sz = m[b].sz
      PROVE  GoodWant(m2, w, l)
  BY <1>3 DEF GoodWant
<1> QED
  BY <1>2, <1>3

(* A page is added, and the client's blocks and its request are in order. *)
Grows(h, b, w, l) ==
  \E F \in SUBSET Addr : Sound(h, DOMAIN l, F) /\ b \in F /\ GoodWant(h.mem, w, l) /\ GoodLive(h.mem, l)

(* Whether the block before the epilogue e is free is read from no word of   *)
(* the client's.                                                             *)
ReadRight(h, l, e, before) ==
  e = Epilogue(h) /\ before = h.mem[e - 1].al /\ (before = 0 => \A b \in DOMAIN l : b + h.mem[b].sz # e)

(* So it is when a page is added, unless that bit is misread. *)
LEMMA Grown ==
  ASSUME NEW h, NEW w, NEW l, NEW F \in SUBSET Addr, Sound(h, DOMAIN l, F), GoodWant(h.mem, w, l),
         GoodLive(h.mem, l), h.pages < Pages, NEW e, NEW before, ReadRight(h, l, e, before),
         NEW c, c = Coalesce(NewPage(h, e, before), e), c.h.damage = "none"
  PROVE  Grows(c.h, c.b, w, l)
<1>b. e = Epilogue(h) /\ before = h.mem[e - 1].al /\ (before = 0 => \A b \in DOMAIN l : b + h.mem[b].sz # e)
  BY DEF ReadRight
<1>L. PICK L : L = DOMAIN l
  OBVIOUS
<1>0. Sound(h, L, F) /\ (before = 0 => \A b \in L : b + h.mem[b].sz # e)
  BY <1>L, <1>b
<1>1. Keeps(h.mem, c.h.mem, L) /\ \E F2 \in SUBSET Addr : Sound(c.h, L, F2) /\ c.b \in F2
  BY ONLY <1>0, <1>b, F \in SUBSET Addr, h.pages < Pages,
          c = Coalesce(NewPage(h, e, before), e), c.h.damage = "none", PageAdded
<1>2. PICK m, m2 : m = h.mem /\ m2 = c.h.mem
  BY Zenon
<1>3. Blocks(m, L, F, e) /\ Keeps(m, m2, L)
  BY Zenon, <1>0, <1>1, <1>2, <1>b DEF Sound
<1>4. ASSUME NEW b \in L PROVE m2[b].sz = m[b].sz
  <2>1. b \in Nat /\ m[b].sz \in Nat /\ m[b].sz >= 4
    BY <1>3, BlockFacts
  <2>2. b \in b..(b + m[b].sz - 1)
    BY <2>1
  <2> QED
    BY <1>3, <2>2 DEF Keeps
<1>5. GoodWant(m2, w, l)
  BY <1>2, <1>4, <1>L, WantKept
<1>6. GoodLive(m2, l)
  BY <1>2, <1>3, <1>L, LiveKept
<1> QED
  BY <1>1, <1>2, <1>5, <1>6, <1>L DEF Grows

(* The words of the block that the client writes. *)
Filled(h, b, rq, data) ==
  [h EXCEPT !.mem = [a \in Addr |-> IF a \in (b + 1)..(b + rq) THEN data ELSE h.mem[a]]]

(* It knows of them what it has written. *)
LEMMA Wrote ==
  ASSUME NEW h, NEW l, NEW F \in SUBSET Addr, Sound(h, DOMAIN l, F), GoodLive(h.mem, l),
         NEW b \in DOMAIN l, NEW data \in Info, NEW g, g = Filled(h, b, l[b].rq, data),
         NEW l2, l2 = Hold(l, b, l[b].rq, l[b].rq, data)
  PROVE  Good(g, Idle, l2)
<1>L. PICK L : L = DOMAIN l
  OBVIOUS
<1>e. PICK e : e = Epilogue(h)
  OBVIOUS
<1>0. PICK m : m = h.mem
  OBVIOUS
<1>1. h \in HeapType /\ Blocks(m, L, F, e) /\ b \in L /\ LiveAt(m, b, l[b]) /\ Sound(h, L, F)
  BY <1>0, <1>e, <1>L DEF Sound, GoodLive
<1>2. /\ e \in Nat /\ e < End /\ End \in Nat /\ m \in [Addr -> Info]
      /\ \A d \in L \cup F :
           /\ d \in Nat /\ d \in Addr /\ m[d].sz \in Nat /\ m[d].sz >= 4 /\ d + m[d].sz <= e /\ m[d] \in Info
  BY <1>1, BlockFacts
<1>s. PICK s \in Nat, rq \in Nat : s = m[b].sz /\ rq = m[b].rq
  BY <1>1, <1>2 DEF Info
<1>3. b \in Nat /\ b + s <= e /\ rq < s /\ l[b].rq = rq
  <2>1. rq < s
    BY <1>1, <1>s DEF Blocks, Marked
  <2> QED
    BY <1>1, <1>2, <1>s, <2>1 DEF LiveAt
<1>m. PICK m2 : m2 = [a \in Addr |-> IF a \in (b + 1)..(b + rq) THEN data ELSE m[a]]
  OBVIOUS
<1>4. m2 \in [Addr -> Info]
  BY <1>2, <1>m
<1>5. g = [h EXCEPT !.mem = m2]
  BY <1>0, <1>3, <1>m DEF Filled
<1>6. \A a \in Addr : m2[a] = h.mem[a] \/ \E c \in L : c < a /\ a < c + h.mem[c].sz
  <2> SUFFICES ASSUME NEW a \in Addr, a \in (b + 1)..(b + rq) PROVE b < a /\ a < b + s
    BY <1>0, <1>1, <1>m, <1>s
  <2> QED
    BY <1>3
<1>7. Sound(g, L, F) /\ g.mem = m2 /\ \A c \in L : m2[c] = h.mem[c]
  BY ONLY <1>1, <1>4, <1>5, <1>6, Overwritten
<1>8. Holding(l, b, [rq |-> rq, n |-> rq, data |-> data], l2)
  BY <1>3, Held
<1>9. ASSUME NEW c \in L, c # b PROVE LiveAt(m2, c, l2[c])
  <2>1. c \in L \cup F /\ b \in L \cup F /\ b # c
    BY <1>1, <1>9
  <2>2. \A a \in c..(c + m[c].sz - 1) : m2[a] = m[a]
    <3> SUFFICES ASSUME NEW a \in c..(c + m[c].sz - 1) PROVE m2[a] = m[a]
      OBVIOUS
    <3>1. a \in Addr /\ a \notin b..(b + m[b].sz - 1)
      BY ONLY <1>1, <2>1, a \in c..(c + m[c].sz - 1), Elsewhere
    <3>2. a \notin b..(b + s - 1) /\ a \in Nat
      BY <1>2, <1>s, <3>1 DEF Addr
    <3>3. a \notin (b + 1)..(b + rq)
      BY <1>3, <3>2
    <3> QED
      BY <1>m, <3>1, <3>3
  <2>3. l2[c] = l[c]
    BY <1>8, <1>9, <1>L DEF Holding
  <2>4. LiveAt(m, c, l[c])
    BY <1>0, <1>L DEF GoodLive
  <2> QED
    BY <1>1, <2>2, <2>3, <2>4, LiveAtKept
<1>10. LiveAt(m2, b, l2[b])
  <2>1. PICK r : r = [rq |-> rq, n |-> rq, data |-> data]
    OBVIOUS
  <2>2. l2[b] = r /\ m2[b].rq = rq
    BY <1>0, <1>1, <1>7, <1>8, <1>s, <2>1 DEF Holding
  <2>3. rq \in 0..rq
    OBVIOUS
  <2>4. ASSUME NEW k \in 1..rq PROVE m2[b + k] = data
    <3>1. b + k \in Addr /\ b + k \in (b + 1)..(b + rq)
      BY <1>2, <1>3 DEF Addr
    <3> QED
      BY <1>m, <3>1
  <2> QED
    BY <2>1, <2>2, <2>3, <2>4 DEF LiveAt
<1>11. DOMAIN l2 = L
  BY <1>1, <1>8, <1>L DEF Holding
<1>12. GoodLive(m2, l2)
  BY <1>9, <1>10, <1>11 DEF GoodLive
<1> QED
  BY <1>7, <1>11, <1>12, WantKept DEF Good

(* It gives a block back. *)
LEMMA GivenBack ==
  ASSUME NEW h, NEW l, NEW F \in SUBSET Addr, Sound(h, DOMAIN l, F), GoodLive(h.mem, l),
         NEW b \in DOMAIN l, NEW g, g = SfFree(h, b), g.damage = "none",
         NEW l2, l2 = [c \in DOMAIN l \ {b} |-> l[c]]
  PROVE  Good(g, Idle, l2)
<1>L. PICK L : L = DOMAIN l
  OBVIOUS
<1>1. Sound(h, L, F) /\ b \in L
  BY <1>L
<1>2. TakenBack(h, g, L, b)
  BY ONLY <1>1, g = SfFree(h, b), g.damage = "none", Freed
<1>3. DOMAIN l2 = L \ {b} /\ \A c \in DOMAIN l2 : l2[c] = l[c]
  BY <1>L
<1>4. PICK m, m2, e : m = h.mem /\ m2 = g.mem /\ e = Epilogue(h)
  OBVIOUS
<1>5. Blocks(m, DOMAIN l, F, e) /\ GoodLive(m, l) /\ DOMAIN l2 \subseteq DOMAIN l /\ Keeps(m, m2, DOMAIN l2)
  BY <1>1, <1>2, <1>3, <1>4, <1>L DEF Sound, TakenBack
<1>6. GoodLive(m2, l2)
  BY ONLY <1>3, <1>5, LiveKept
<1>7. GoodWant(m2, Idle, l2)
  BY WantKept
<1>8. \E F2 \in SUBSET Addr : Sound(g, DOMAIN l2, F2)
  BY <1>2, <1>3 DEF TakenBack
<1> QED
  BY <1>4, <1>6, <1>7, <1>8 DEF Good

(* A block that it holds has another request, and the words of it that were. *)
LEMMA Refitted ==
  ASSUME NEW h, NEW l, NEW F \in SUBSET Addr, Sound(h, DOMAIN l, F), h.damage = "none", GoodLive(h.mem, l),
         NEW b \in DOMAIN l, NEW rs \in 1..End, NEW g, g = Resized(h, b, rs), g.damage = "none",
         NEW l2, l2 = Hold(l, b, rs, IF l[b].n < rs THEN l[b].n ELSE rs, l[b].data)
  PROVE  Good(g, Idle, l2)
<1>L. PICK L : L = DOMAIN l
  OBVIOUS
<1>4. PICK m, m2, e : m = h.mem /\ m2 = g.mem /\ e = Epilogue(h)
  OBVIOUS
<1>1. Sound(h, L, F) /\ b \in L /\ LiveAt(m, b, l[b]) /\ Blocks(m, L, F, e)
  BY <1>4, <1>L DEF GoodLive, Sound
<1>2. Fitted(h, g, L, b, rs)
  BY ONLY <1>1, F \in SUBSET Addr, h.damage = "none", rs \in 1..End, g = Resized(h, b, rs), g.damage = "none",
          ResizedFits
<1>n. PICK n : n = IF l[b].n < rs THEN l[b].n ELSE rs
  OBVIOUS
<1>r. PICK r : r = [rq |-> rs, n |-> n, data |-> l[b].data]
  OBVIOUS
<1>3. DOMAIN l2 = L \cup {b} /\ l2[b] = r /\ \A c \in L : c # b => l2[c] = l[c]
  <2>1. PICK data : data = l[b].data
    OBVIOUS
  <2>2. l2 = Hold(l, b, rs, n, data)
    BY <1>n, <2>1
  <2>3. Holding(l, b, [rq |-> rs, n |-> n, data |-> data], l2)
    BY ONLY <2>2, Held
  <2>4. r = [rq |-> rs, n |-> n, data |-> data]
    BY <1>r, <2>1
  <2> QED
    BY <1>L, <2>3, <2>4 DEF Holding
<1>q. PICK ln \in Nat : ln = l[b].n
  <2>1. m[b] \in Info /\ End \in Nat
    BY <1>1, BlockFacts, HeapSize
  <2>2. m[b].rq \in Nat
    BY <2>1 DEF Info
  <2> QED
    BY <1>1, <2>2 DEF LiveAt
<1>5. n \in 0..rs /\ n <= ln /\ n \in Nat
  BY <1>n, <1>q, HeapSize
<1>6. LiveAt(m2, b, r)
  <2>1. r.rq = rs /\ r.n = n /\ r.data = l[b].data /\ m2[b].rq = rs
    BY <1>2, <1>4, <1>r DEF Fitted
  <2>2. ASSUME NEW k \in 1..n
        PROVE  m2[b + k].al = r.data.al /\ m2[b + k].sz = r.data.sz /\ m2[b + k].rq = r.data.rq
    <3>1. k \in 1..rs /\ k \in 1..l[b].n
      BY <1>5, <1>q
    <3>2. m2[b + k].al = m[b + k].al /\ m2[b + k].sz = m[b + k].sz /\ m2[b + k].rq = m[b + k].rq
      BY <1>2, <1>4, <3>1 DEF Fitted
    <3> QED
      BY <1>1, <2>1, <3>1, <3>2 DEF LiveAt
  <2> QED
    BY <1>1, <1>5, <2>1, <2>2 DEF LiveAt
<1>7. ASSUME NEW c \in L, c # b PROVE LiveAt(m2, c, l2[c])
  <2>1. l2[c] = l[c] /\ LiveAt(m, c, l[c])
    BY <1>3, <1>4, <1>7, <1>L DEF GoodLive
  <2>2. \A a \in c..(c + m[c].sz - 1) : m2[a].al = m[a].al /\ m2[a].sz = m[a].sz /\ m2[a].rq = m[a].rq
    BY <1>2, <1>4, <1>7 DEF Fitted, Keeps
  <2> QED
    BY <1>1, <2>1, <2>2, LiveAtKept
<1>8. DOMAIN l2 = L
  BY <1>1, <1>3
<1>9. GoodLive(m2, l2)
  BY <1>3, <1>6, <1>7, <1>8 DEF GoodLive
<1>10. \E F2 \in SUBSET Addr : Sound(g, DOMAIN l2, F2)
  BY <1>2, <1>8 DEF Fitted
<1> QED
  BY <1>4, <1>9, <1>10, WantKept DEF Good

----------------------------------------------------------------------------
(* The inductive invariant: as long as nothing is damaged, either sf_malloc  *)
(* has not been called yet, or heap, request and client's blocks fit.       *)
HeapInv ==
  heap.damage = "none" => \/ heap = NoMem /\ want = Idle /\ live = <<>>
                          \/ Good(heap, want, live)

(* An operation of the client or a step of sf_malloc keeps it. *)
LEMMA HeapStep ==
  ASSUME HeapInv, Next
  PROVE  HeapInv'
<1> SUFFICES ASSUME heap'.damage = "none"
             PROVE  \/ heap' = NoMem /\ want' = Idle /\ live' = <<>>
                    \/ Good(heap', want', live')
  BY DEF HeapInv, Idle, NoMem
<1>0. End \in Nat /\ Requests \subseteq 1..End /\ Requests \subseteq 0..End /\ Contents \subseteq Info
  <2>1. End \in Nat
    BY HeapSize
  <2> QED
    BY <2>1, SfmmAssumption
<1>none. heap = NoMem /\ live = <<>> => heap.pages = 0 /\ DOMAIN live = {}
  BY DEF NoMem
<1>1. ASSUME NEW rq \in Requests, Malloc(rq) PROVE Good(heap', want', live')
  <2>0. want' = [rq |-> rq, old |-> Null] /\ want'.rq \in 0..End /\ want'.old = Null /\ live' = live
    BY <1>0, <1>1 DEF Malloc
  <2>w. \A m : GoodWant(m, want', live')
    BY <2>0 DEF GoodWant
  <2>1. CASE heap = NoMem /\ want = Idle /\ live = <<>>
    <3>1. heap' = InitialSetup(NoMem) /\ DOMAIN live' = {}
      BY <1>1, <1>none, <2>0, <2>1 DEF Malloc
    <3>2. PICK g : g = heap'
      OBVIOUS
    <3>3. \E F2 \in SUBSET Addr : Sound(g, {}, F2)
      BY <3>1, <3>2, SetUp
    <3> QED
      BY <2>w, <3>1, <3>2, <3>3 DEF Good, GoodLive
  <2>2. CASE Good(heap, want, live)
    <3>1. PICK F \in SUBSET Addr : Sound(heap, DOMAIN live, F) /\ GoodLive(heap.mem, live)
      BY <2>2 DEF Good
    <3>2. heap.pages # 0
      BY <3>1 DEF Sound
    <3>3. heap' = heap
      BY <1>1, <3>2 DEF Malloc
    <3> QED
      BY <2>0, <2>w, <3>1, <3>3 DEF Good
  <2> QED
    BY <1>1, <2>1, <2>2 DEF HeapInv, Malloc, Ready
<1>2. ASSUME Found PROVE Good(heap', want', live')
  <2>1. Good(heap, want, live) /\ Fitting(heap, Asked) # {} /\ want' = Idle
    BY <1>2 DEF Found, Searching, HeapInv, Return
  <2>2. PICK F \in SUBSET Addr : Sound(heap, DOMAIN live, F) /\ GoodWant(heap.mem, want, live) /\ GoodLive(heap.mem, live)
    BY <2>1 DEF Good
  <2>3. PICK bs \in Nat : bs = TotalBlockSz(want.rq)
    <3>1. want.rq \in Nat
      BY <1>0, <2>2 DEF GoodWant
    <3> QED
      BY <3>1, BlockSize
  <2>4. PICK b : b = SearchFreeblock(heap, bs)
    OBVIOUS
  <2>5. b \in F /\ bs <= heap.mem[b].sz
    BY <2>1, <2>2, <2>3, <2>4, FitsFree DEF Asked
  <2>6. Return(ProcessRequest(heap, b, want.rq), b)
    BY <1>2, <2>3, <2>4 DEF Found, Asked
  <2>7. PICK g, l2 : g = heap' /\ l2 = live'
    OBVIOUS
  <2>8. ReturnsTo(ProcessRequest(heap, b, want.rq), want, live, b, g, l2)
    BY <2>6, <2>7 DEF Return, ReturnsTo, Copied, Forget
  <2>9. Good(g, Idle, l2)
    BY <2>2, <2>3, <2>5, <2>7, <2>8, Served
  <2> QED
    BY <2>1, <2>7, <2>9
<1>3. ASSUME Extend PROVE Good(heap', want', live')
  <2>1. Good(heap, want, live) /\ heap.pages < Pages /\ heap.damage = "none"
    BY Zenon, <1>3 DEF Extend, Searching, HeapInv
  <2>2. PICK F \in SUBSET Addr : Sound(heap, DOMAIN live, F) /\ GoodWant(heap.mem, want, live) /\ GoodLive(heap.mem, live)
    BY <2>1 DEF Good
  <2>e. PICK e, before : e = Epilogue(heap) /\ before = heap.mem[e - 1].al
    OBVIOUS
  <2>c. PICK c : c = Coalesce(NewPage(heap, e, before), e)
    OBVIOUS
  <2>x. PICK misread \in BOOLEAN : misread = (before = 0 /\ \E b \in DOMAIN live : b + heap.mem[b].sz = e)
    BY Zenon
  <2>3. IF misread
        THEN heap' = [heap EXCEPT !.damage = "extend"] /\ UNCHANGED <<want, live>>
        ELSE IF c.h.mem[c.b].sz >= Asked
        THEN Return(ProcessRequest(c.h, c.b, want.rq), c.b)
        ELSE heap' = c.h /\ UNCHANGED <<want, live>>
    BY Zenon, <1>3, <2>e, <2>c, <2>x DEF Extend, NewPage
  <2>4. ~misread
    <3>1. ASSUME misread PROVE FALSE
      <4>1. heap' = [heap EXCEPT !.damage = "extend"]
        BY <2>3, <3>1
      <4>2. heap'.damage = "extend"
        BY <2>2, <4>1 DEF Sound, HeapType
      <4> QED
        BY <4>2
    <3> QED
      BY <3>1
  <2>5. before = 0 => \A b \in DOMAIN live : b + heap.mem[b].sz # e
    BY <2>4, <2>x
  <2>6. Tells(Damages, c.h)
    <3>1. Tells(Damages, NewPage(heap, e, before))
      <4>1. Tells(Damages, heap)
        BY <2>2 DEF Sound, HeapType, Tells
      <4> QED
        BY <4>1 DEF Tells, NewPage, MakeFree
    <3> QED
      BY <2>c, <3>1, CoalesceTells DEF Damages
  <2>7. ASSUME c.h.damage = "none"
        PROVE  Grows(c.h, c.b, want, live)
    <3>1. PICK h, w, l : h = heap /\ w = want /\ l = live
      OBVIOUS
    <3>2. Sound(h, DOMAIN l, F) /\ GoodWant(h.mem, w, l) /\ GoodLive(h.mem, l) /\ h.pages < Pages
      BY <2>1, <2>2, <3>1
    <3>3. ReadRight(h, l, e, before) /\ c = Coalesce(NewPage(h, e, before), e)
      BY <2>5, <2>c, <2>e, <3>1 DEF ReadRight
    <3>4. Grows(c.h, c.b, w, l)
      BY ONLY <2>7, <3>2, <3>3, F \in SUBSET Addr, Grown
    <3> QED
      BY <3>1, <3>4
  <2>8. CASE c.h.mem[c.b].sz >= Asked
    <3>1. Return(ProcessRequest(c.h, c.b, want.rq), c.b)
      BY <2>3, <2>4, <2>8
    <3>2. PICK g, l2 : g = heap' /\ l2 = live'
      OBVIOUS
    <3>3. ReturnsTo(ProcessRequest(c.h, c.b, want.rq), want, live, c.b, g, l2) /\ want' = Idle
      BY <3>1, <3>2 DEF Return, ReturnsTo, Copied, Forget
    <3>4. c.h.damage = "none"
      BY <2>6, <3>2, <3>3, Undone
    <3>5. PICK F2 \in SUBSET Addr : /\ Sound(c.h, DOMAIN live, F2) /\ c.b \in F2
                                    /\ GoodWant(c.h.mem, want, live) /\ GoodLive(c.h.mem, live)
      BY <2>7, <3>4 DEF Grows
    <3>6. TotalBlockSz(want.rq) <= c.h.mem[c.b].sz
      <4>1. want.rq \in Nat
        BY <1>0, <2>2 DEF GoodWant
      <4>2. TotalBlockSz(want.rq) \in Nat
        BY <4>1, BlockSize
      <4>3. c.h.mem[c.b].sz \in Nat
        BY <3>5, BlockFacts DEF Sound
      <4> QED
        BY <2>8, <4>2, <4>3 DEF Asked
    <3>7. Good(g, Idle, l2)
      BY <3>2, <3>3, <3>5, <3>6, Served
    <3> QED
      BY <3>2, <3>3, <3>7
  <2>9. CASE ~(c.h.mem[c.b].sz >= Asked)
    <3>1. heap' = c.h /\ want' = want /\ live' = live
      BY <2>3, <2>4, <2>9
    <3>2. \E F2 \in SUBSET Addr : /\ Sound(c.h, DOMAIN live, F2)
                                  /\ GoodWant(c.h.mem, want, live) /\ GoodLive(c.h.mem, live)
      BY <2>7, <3>1 DEF Grows
    <3>3. Good(c.h, want, live)
      BY <3>2 DEF Good
    <3> QED
      BY <3>1, <3>3
  <2> QED
    BY Zenon, <2>8, <2>9
<1>4. ASSUME Fail PROVE Good(heap', want', live')
  <2>1. Good(heap, want, live) /\ heap' = heap /\ want' = Idle /\ live' = live
    BY <1>4 DEF Fail, Searching, HeapInv
  <2>2. Good(heap, Idle, live)
    BY <2>1, WantKept DEF Good
  <2> QED
    BY <2>1, <2>2
<1>5. ASSUME NEW b \in DOMAIN live, NEW data \in Contents, Write(b, data) PROVE Good(heap', want', live')
  <2>1. Good(heap, want, live) /\ want' = Idle
    BY <1>5, <1>none DEF Write, Ready, HeapInv
  <2>2. PICK F \in SUBSET Addr : Sound(heap, DOMAIN live, F) /\ GoodLive(heap.mem, live)
    BY <2>1 DEF Good
  <2>3. PICK g, l2 : g = heap' /\ l2 = live'
    OBVIOUS
  <2>4. g = Filled(heap, b, live[b].rq, data) /\ l2 = Hold(live, b, live[b].rq, live[b].rq, data)
    BY <1>5, <2>3 DEF Write, Filled
  <2>5. data \in Info
    BY <1>0
  <2>6. Good(g, Idle, l2)
    BY ONLY <2>2, <2>4, <2>5, F \in SUBSET Addr, b \in DOMAIN live, Wrote
  <2> QED
    BY <2>1, <2>3, <2>6
<1>6. ASSUME NEW b \in DOMAIN live, Free(b) PROVE Good(heap', want', live')
  <2>1. Good(heap, want, live) /\ want' = Idle
    BY <1>6, <1>none DEF Free, Ready, HeapInv
  <2>2. PICK F \in SUBSET Addr : Sound(heap, DOMAIN live, F) /\ GoodLive(heap.mem, live)
    BY <2>1 DEF Good
  <2>3. PICK g, l2 : g = heap' /\ l2 = live'
    OBVIOUS
  <2>4. g = SfFree(heap, b) /\ g.damage = "none" /\ l2 = [c \in DOMAIN live \ {b} |-> live[c]]
    BY <1>6, <2>3 DEF Free, Forget
  <2>5. Good(g, Idle, l2)
    BY ONLY <2>2, <2>4, F \in SUBSET Addr, b \in DOMAIN live, GivenBack
  <2> QED
    BY <2>1, <2>3, <2>5
<1>7. ASSUME NEW b \in DOMAIN live, NEW rs \in Requests, ReallocLarger(b, rs) PROVE Good(heap', want', live')
  <2>1. Good(heap, want, live) /\ heap' = heap /\ live' = live /\ want' = [rq |-> rs, old |-> b]
    BY <1>7, <1>none DEF ReallocLarger, Ready, HeapInv
  <2>2. PICK F \in SUBSET Addr : Sound(heap, DOMAIN live, F) /\ GoodLive(heap.mem, live)
    BY <2>1 DEF Good
  <2>3. rs > heap.mem[b].sz /\ heap.mem[b].sz \in Nat /\ rs \in Nat
    <3>1. heap.mem[b].sz \in Nat
      BY <2>2, BlockFacts DEF Sound
    <3> QED
      BY <1>0, <1>7, <3>1 DEF ReallocLarger
  <2>4. GoodWant(heap.mem, want', live)
    BY <1>0, <2>1, <2>3 DEF GoodWant
  <2> QED
    BY <2>1, <2>2, <2>4 DEF Good
<1>8. ASSUME NEW b \in DOMAIN live, NEW rs \in Requests, ReallocSmaller(b, rs) PROVE Good(heap', want', live')
  <2>1. Good(heap, want, live) /\ heap.damage = "none" /\ want' = Idle
    BY Zenon, <1>8, <1>none DEF ReallocSmaller, Ready, HeapInv
  <2>2. PICK F \in SUBSET Addr : Sound(heap, DOMAIN live, F) /\ GoodLive(heap.mem, live)
    BY <2>1 DEF Good
  <2>3. PICK g, l2 : g = heap' /\ l2 = live'
    BY Zenon
  <2>4. g = Resized(heap, b, rs) /\ l2 = Hold(live, b, rs, IF live[b].n < rs THEN live[b].n ELSE rs, live[b].data)
    BY Zenon, <1>8, <2>3 DEF ReallocSmaller, Resized
  <2>5. rs \in 1..End /\ g.damage = "none"
    BY <1>0, <2>3
  <2>6. Good(g, Idle, l2)
    BY ONLY <2>1, <2>2, <2>4, <2>5, F \in SUBSET Addr, b \in DOMAIN live, Refitted
  <2> QED
    BY Zenon, <2>1, <2>3, <2>6
<1> QED
  BY <1>1, <1>2, <1>3, <1>4, <1>5, <1>6, <1>7, <1>8 DEF Next

(* As long as no operation has damaged it, the heap is in order: its blocks  *)
(* lie side by side and are marked as what they are, the free ones are in    *)
(* the list of their size, and the client finds what it has written.         *)
THEOREM HeapStaysSound == Spec => []HeapInv
<1>1. Init => HeapInv
  BY DEF Init, HeapInv
<1>2. HeapInv /\ [Next]_vars => HeapInv'
  <2>1. CASE UNCHANGED vars
    BY <2>1 DEF vars, HeapInv, Good, Sound, GoodWant, GoodLive, LiveAt, Epilogue, Idle
  <2> QED
    BY <2>1, HeapStep
<1> QED
  BY <1>1, <1>2, PTL DEF Spec

(* What the client has written lasts: through every split, join, extension   *)
(* and sf_realloc, all of each word but one bit, for any contents.           *)
THEOREM WrittenContentsLast == Spec => []ContentsLast
<1>1. HeapInv => ContentsLast
  <2> SUFFICES ASSUME HeapInv, Undamaged, NEW b \in DOMAIN live, NEW k \in 1..live[b].n
               PROVE  [heap.mem[b + k] EXCEPT !.pal = live[b].data.pal] = live[b].data
    BY DEF ContentsLast
  <2>1. Good(heap, want, live)
    BY DEF HeapInv, Undamaged, NoMem
  <2>2. PICK F \in SUBSET Addr : Sound(heap, DOMAIN live, F) /\ LiveAt(heap.mem, b, live[b])
    BY <2>1 DEF Good, GoodLive
  <2>3. PICK m, e, r : m = heap.mem /\ e = Epilogue(heap) /\ r = live[b]
    OBVIOUS
  <2>4. /\ e \in Nat /\ e < End /\ End \in Nat /\ m \in [Addr -> Info] /\ b \in Nat
        /\ m[b].sz \in Nat /\ b + m[b].sz <= e /\ m[b] \in Info
    BY <2>2, <2>3, BlockFacts DEF Sound
  <2>5. PICK s \in Nat, rq \in Nat : s = m[b].sz /\ rq = m[b].rq
    BY <2>4 DEF Info
  <2>6. rq < s /\ r.n \in 0..rq /\ r.data \in Info
    <3>1. rq < s
      BY <2>2, <2>3, <2>5 DEF Sound, Blocks, Marked
    <3> QED
      BY <2>2, <2>3, <2>5, <3>1 DEF LiveAt
  <2>7. b + k \in Addr
    <3>1. PICK n \in Nat : n = r.n /\ n <= rq
      BY <2>6
    <3>2. k \in 1..n /\ b + s <= e
      BY <2>3, <2>4, <2>5, <3>1
    <3> QED
      BY <2>4, <2>6, <3>1, <3>2 DEF Addr
  <2>8. PICK v, d : v = m[b + k] /\ d = r.data
    OBVIOUS
  <2>9. v \in Info /\ d \in Info /\ v.al = d.al /\ v.sz = d.sz /\ v.rq = d.rq
    BY <2>2, <2>3, <2>4, <2>6, <2>7, <2>8 DEF LiveAt
  <2>10. [v EXCEPT !.pal = d.pal] = d
    BY <2>9 DEF Info
  <2> QED
    BY <2>3, <2>8, <2>10
<1> QED
  BY <1>1, HeapStaysSound, PTL

(* sf_free and sf_realloc take every block that the client holds for one,    *)
(* unless the footer of the free block before it, of which sf_free writes    *)
(* size and prev_allocated only, still has the allocated bit of old data.    *)
THEOREM OnlyFormerContentsRefuse == Spec => []RefusedByFormerContents
<1>1. HeapInv => RefusedByFormerContents
  <2> SUFFICES ASSUME HeapInv, Undamaged, NEW b \in DOMAIN live, ~IsAllocatedBlock(heap, b)
               PROVE  heap.mem[b].pal = 0 /\ heap.mem[b - 1].al = 1
    BY DEF RefusedByFormerContents
  <2>1. Good(heap, want, live)
    BY DEF HeapInv, Undamaged, NoMem
  <2>2. PICK F \in SUBSET Addr : Sound(heap, DOMAIN live, F) /\ LiveAt(heap.mem, b, live[b])
    BY <2>1 DEF Good, GoodLive
  <2>3. PICK m, e, L : m = heap.mem /\ e = Epilogue(heap) /\ L = DOMAIN live
    OBVIOUS
  <2>4. Blocks(m, L, F, e) /\ b \in L /\ m \in [Addr -> Info]
    BY <2>2, <2>3, BlockFacts DEF Sound
  <2>5. /\ e \in Nat /\ e < End /\ End \in Nat
        /\ \A d \in L \cup F : /\ d \in Nat /\ d \in Addr /\ d >= 5 /\ d < e /\ m[d] \in Info
                               /\ m[d].sz \in Nat /\ m[d].sz >= 4 /\ m[d].sz % 2 = 0 /\ d + m[d].sz <= e
    BY <2>4, BlockFacts
  <2>6. PICK s \in Nat, rq \in Nat : s = m[b].sz /\ rq = m[b].rq
    BY <2>4, <2>5 DEF Info
  <2>7. m[b].al = 1 /\ rq + 1 <= s
    BY <2>4, <2>6 DEF Blocks, Marked
  <2>8. b >= First /\ b <= e /\ s % 2 = 0 /\ s >= 4
    BY <2>4, <2>5, <2>6 DEF First
  <2>9. m[b].pal = 0 /\ (m[b - 1].al # 0 \/ m[b - m[b - 1].sz].al # 0)
    BY <2>3, <2>6, <2>7, <2>8 DEF IsAllocatedBlock
  <2>10. PICK p \in F : p + m[p].sz = b
    BY <2>4, <2>9 DEF Blocks, Marked
  <2>11. PICK t \in Nat : t = m[p].sz
    BY <2>5
  <2>12. m[p + t - 1].sz = t /\ m[p].al = 0
    BY <2>4, <2>11 DEF Blocks, Marked
  <2>13. p + t - 1 = b - 1 /\ b - t = p
    BY <2>5, <2>10, <2>11
  <2>14. m[b - 1].al # 0
    BY <2>9, <2>12, <2>13
  <2>15. m[b - 1].al \in {0, 1}
    <3>1. b - 1 \in Addr
      BY <2>4, <2>5 DEF Addr
    <3> QED
      BY <2>4, <3>1 DEF Info, Bit
  <2> QED
    BY <2>3, <2>9, <2>14, <2>15
<1> QED
  BY <1>1, HeapStaysSound, PTL


----------------------------------------------------------------------------
(* The lists as they are read *)

(* Of more steps than there are numbers to step on, two are on the same.     *)
LEMMA TwiceThere ==
  ASSUME NEW n \in Nat, NEW f \in [0..n -> 0..(n - 1)]
  PROVE  \E j, k \in 0..n : j < k /\ f[j] = f[k]
<1>1. IsFiniteSet(0..n) /\ Cardinality(0..n) = n + 1
  BY FS_Interval
<1>2. IsFiniteSet(0..(n - 1)) /\ Cardinality(0..(n - 1)) = n
  <2>1. IsFiniteSet(0..(n - 1)) /\ Cardinality(0..(n - 1)) = IF 0 > n - 1 THEN 0 ELSE (n - 1) - 0 + 1
    BY FS_Interval
  <2> QED
    BY <2>1
<1>3. PICK x, y \in 0..n : x # y /\ f[x] = f[y]
  <2>1. PICK S, T : S = 0..n /\ T = 0..(n - 1)
    OBVIOUS
  <2>2. IsFiniteSet(S) /\ IsFiniteSet(T) /\ Cardinality(S) > Cardinality(T) /\ f \in [S -> T]
    BY <1>1, <1>2, <2>1
  <2>3. \E x, y \in S : x # y /\ f[x] = f[y]
    BY ONLY <2>2, FS_PigeonHole
  <2> QED
    BY <2>1, <2>3
<1>4. x < y \/ y < x
  BY <1>3
<1> QED
  BY <1>3, <1>4

(* Where a reader of the next pointers n comes from x. *)
Onward(n, x) == IF x \in Addr THEN n[x] ELSE x

(* What it has come to after up to N steps from the block first.             *)
Trail(n, first, N) ==
  LET at[k \in 0..N] == IF k = 0 THEN first ELSE Onward(n, at[k - 1]) IN at

(* It begins with first, and each step leads on within V. *)
Follows(at, n, V, first, N) ==
  /\ at[0] = first /\ \A k \in 0..N : at[k] \in V
  /\ \A k \in 1..N : at[k] = Onward(n, at[k - 1])

(* The trail is there, and stays where the pointers of a set V lead.         *)
LEMMA TrailSteps ==
  ASSUME NEW n, NEW V, NEW first \in V, \A x \in V : Onward(n, x) \in V, NEW N \in Nat
  PROVE  Follows(Trail(n, first, N), n, V, first, N)
<1> DEFINE Step(b, k) == IF k = 0 THEN first ELSE Onward(n, b[k - 1])
           At == CHOOSE b : b = [k \in 0..N |-> Step(b, k)]
           Begins(d) == \E f \in [0..d -> V] : f[0] = first /\ \A k \in 1..d : f[k] = Onward(n, f[k - 1])
<1>1. Trail(n, first, N) = At
  BY DEF Trail
<1>3. \A d \in Nat : Begins(d)
  <2>1. Begins(0)
    <3>1. PICK f : f = [k \in 0..0 |-> first]
      OBVIOUS
    <3>2. f \in [0..0 -> V] /\ f[0] = first
      BY <3>1
    <3>3. \A k \in 1..0 : f[k] = Onward(n, f[k - 1])
      OBVIOUS
    <3> QED
      BY <3>2, <3>3
  <2>2. ASSUME NEW d \in Nat, Begins(d) PROVE Begins(d + 1)
    <3>1. PICK f \in [0..d -> V] : f[0] = first /\ \A k \in 1..d : f[k] = Onward(n, f[k - 1])
      BY <2>2
    <3> DEFINE g == [k \in 0..(d + 1) |-> IF k = d + 1 THEN Onward(n, f[d]) ELSE f[k]]
    <3>2. \A k \in 0..d : k \in 0..(d + 1) /\ k # d + 1 /\ f[k] \in V
      OBVIOUS
    <3>3. g \in [0..(d + 1) -> V]
      <4>1. d \in 0..d /\ Onward(n, f[d]) \in V
        BY <3>2
      <4>2. \A k \in 0..(d + 1) : k # d + 1 => k \in 0..d
        OBVIOUS
      <4> QED
        BY <3>2, <4>1, <4>2
    <3>4. g[0] = first
      BY <3>1
    <3>5. \A k \in 1..(d + 1) : g[k] = Onward(n, g[k - 1])
      <4> TAKE k \in 1..(d + 1)
      <4>1. k - 1 \in 0..d /\ g[k - 1] = f[k - 1]
        BY <3>2
      <4>2. CASE k = d + 1
        <5>1. k - 1 = d /\ g[k] = Onward(n, f[d])
          BY <4>2
        <5> QED
          BY <4>1, <5>1
      <4>3. CASE k # d + 1
        <5>1. k \in 1..d /\ g[k] = f[k]
          BY <4>3
        <5> QED
          BY <3>1, <4>1, <5>1
      <4> QED
        BY <4>2, <4>3
    <3> HIDE DEF g
    <3> QED
      BY <3>3, <3>4, <3>5
  <2> HIDE DEF Begins
  <2>3. ASSUME NEW S \in SUBSET Nat, S = {d \in Nat : ~Begins(d)}, S # {} PROVE FALSE
    <3>1. PICK d \in S : \A x \in S : d <= x
      BY <2>3, LeastNumber
    <3>2. d # 0 /\ d \in Nat /\ ~Begins(d)
      BY <2>1, <2>3
    <3>3. d - 1 \in Nat /\ d - 1 \notin S
      BY <3>1, <3>2
    <3>4. Begins(d - 1)
      BY <2>3, <3>3
    <3>5. Begins((d - 1) + 1)
      BY <2>2, <3>3, <3>4
    <3>6. (d - 1) + 1 = d
      BY <3>2
    <3> QED
      BY <3>2, <3>5, <3>6
  <2> QED
    BY <2>3
<1>4. At = [k \in 0..N |-> Step(At, k)]
  <2>1. PICK f \in [0..N -> V] : f[0] = first /\ \A k \in 1..N : f[k] = Onward(n, f[k - 1])
    BY <1>3
  <2>2. \A k \in 0..N : f[k] = Step(f, k)
    <3> TAKE k \in 0..N
    <3>1. CASE k = 0
      BY <2>1, <3>1
    <3>2. CASE k # 0
      <4>1. k \in 1..N
        BY <3>2
      <4> QED
        BY <2>1, <3>2, <4>1
    <3> QED
      BY <3>1, <3>2
  <2>3. f = [k \in 0..N |-> Step(f, k)]
    BY <2>2
  <2> QED
    BY <2>3
<1> HIDE DEF At
<1>5. /\ DOMAIN At = 0..N /\ At[0] = first
      /\ \A k \in 1..N : At[k] = Onward(n, At[k - 1])
  BY <1>4
<1>6. \A k \in 0..N : At[k] \in V
  <2> DEFINE Out == {k \in 0..N : At[k] \notin V}
  <2> SUFFICES ASSUME Out # {} PROVE FALSE
    OBVIOUS
  <2>1. Out \in SUBSET Nat
    OBVIOUS
  <2>2. PICK k \in Out : \A x \in Out : k <= x
    <3> HIDE DEF Out
    <3> QED
      BY <2>1, LeastNumber
  <2>3. k \in 0..N /\ k # 0
    BY <1>5
  <2>4. k - 1 \in 0..N /\ k - 1 \notin Out /\ k \in 1..N
    BY <2>2, <2>3
  <2>5. At[k - 1] \in V
    BY <2>4
  <2> QED
    BY <1>5, <2>4, <2>5
<1> QED
  BY <1>1, <1>5, <1>6 DEF Follows

(* The blocks are so large that no two have the same quarter of their place. *)
LEMMA Quarters ==
  ASSUME NEW m, NEW L, NEW B, NEW e, Blocks(m, L, B, e)
  PROVE  /\ \A b \in L \cup B : b \div 4 \in 0..((End \div 4) - 1)
         /\ \A b, c \in L \cup B : b \div 4 = c \div 4 => b = c
<1>1. /\ e \in Nat /\ e < End /\ End \in Nat
      /\ \A b \in L \cup B : /\ b \in Nat /\ m[b].sz \in Nat /\ m[b].sz >= 4 /\ b + m[b].sz <= e
                             /\ \A c \in L \cup B \cup {e} : b < c => b + m[b].sz <= c
  BY BlockFacts
<1>2. ASSUME NEW b \in L \cup B PROVE b \div 4 \in 0..((End \div 4) - 1)
  <2>1. b \in Nat /\ b + 4 < End
    <3>1. PICK s \in Nat : s = m[b].sz
      BY <1>1
    <3> QED
      BY <1>1, <3>1
  <2> QED
    BY <1>1, <2>1
<1>3. ASSUME NEW b \in L \cup B, NEW c \in L \cup B, b < c PROVE b \div 4 # c \div 4
  <2>1. b \in Nat /\ c \in Nat /\ b + 4 <= c
    <3>1. PICK s \in Nat : s = m[b].sz
      BY <1>1
    <3>2. b \in Nat /\ c \in Nat /\ s >= 4 /\ b + s <= c
      BY <1>1, <1>3, <3>1
    <3> QED
      BY <3>2
  <2> QED
    BY <2>1
<1>4. ASSUME NEW b \in L \cup B, NEW c \in L \cup B, b \div 4 = c \div 4 PROVE b = c
  <2>1. b \in Nat /\ c \in Nat /\ ~(b < c) /\ ~(c < b)
    BY <1>1, <1>3, <1>4
  <2> QED
    BY <2>1
<1> QED
  BY <1>2, <1>4
(* search_freeblock and the client's reader see the blocks that are there:   *)
(* from the sentinel of the list of size s, all free blocks of that size.    *)
LEMMA WalkedList ==
  ASSUME NEW L, NEW F \in SUBSET Addr, Sound(heap, L, F), NEW s \in heap.lists
  PROVE  Walk(s) = {b \in F : heap.mem[b].sz = s}
<1>0. PICK m, n, p, l, e : m = heap.mem /\ n = heap.nxt /\ p = heap.prv /\ l = heap.lists /\ e = Epilogue(heap)
  OBVIOUS
<1>1. Blocks(m, L, F, e) /\ Linked(m, n, p, l, F) /\ s \in l
  BY <1>0 DEF Sound
<1>2. End \in Nat /\ s \in 1..End
  <2>1. End \in Nat /\ l \subseteq 1..End
    BY <1>1, HeapSize DEF Linked
  <2> QED
    BY <1>1, <2>1
<1>3. PICK V : V = ListOf(m, F, s)
  OBVIOUS
<1>4. -s \notin Addr /\ -s \in V /\ (\A x \in V : n[x] \in V) /\ (\A x \in V : x # -s => x \in F /\ x \in Addr)
  <2>1. -s \notin Addr
    BY <1>2 DEF Addr
  <2>2. -s \in V /\ (\A x \in V : x # -s => x \in F /\ x \in Addr)
    BY <1>3 DEF ListOf
  <2>3. \A x \in V : n[x] \in V
    BY <1>1, <1>3 DEF Linked
  <2> QED
    BY <2>1, <2>2, <2>3
<1>5. \A x \in V : Onward(n, x) \in V
  BY <1>4 DEF Onward
<1>6. PICK at : at = Trail(n, n[-s], End)
  OBVIOUS
<1>7. /\ at[0] = n[-s] /\ \A k \in 0..End : at[k] \in V
      /\ \A k \in 1..End : at[k] = Onward(n, at[k - 1])
  <2>1. PICK first \in V : first = n[-s]
    BY <1>4
  <2>2. Follows(Trail(n, first, End), n, V, first, End)
    BY <1>2, <1>5, TrailSteps
  <2> QED
    BY <1>6, <2>1, <2>2 DEF Follows
<1>8. PICK N \in Nat : N = End \div 4 /\ N <= End
  BY <1>2
<1>9. Walk(s) = {at[k] : k \in 0..N} \ {-s}
  BY <1>0, <1>6, <1>8 DEF Walk, Trail, Onward
<1>10. \A k \in 0..N : k \in 0..End
  BY <1>2, <1>8
<1>11. \E d \in 0..N : at[d] = -s
  <2> SUFFICES ASSUME \A d \in 0..N : at[d] # -s PROVE FALSE
    OBVIOUS
  <2>1. \A i \in 0..N : at[i] \in F /\ at[i] \in Addr
    BY <1>4, <1>7, <1>10
  <2>2. PICK f : f = [i \in 0..N |-> at[i] \div 4]
    OBVIOUS
  <2>3. f \in [0..N -> 0..(N - 1)]
    BY <1>1, <1>8, <2>1, <2>2, Quarters
  <2>4. PICK j, k \in 0..N : j < k /\ f[j] = f[k]
    BY <2>3, TwiceThere
  <2>5. at[j] = at[k]
    BY <1>1, <2>1, <2>2, <2>4, Quarters
  <2>6. PICK S : S = {at[i] : i \in j..(k - 1)}
    OBVIOUS
  <2>7. /\ j \in j..(k - 1)
        /\ \A i \in j..(k - 1) : i \in 0..N /\ at[i] \in S /\ i + 1 \in 1..End
    BY <1>2, <1>8, <2>4, <2>6
  <2>8. S \in SUBSET F /\ S # {}
    BY <2>1, <2>6, <2>7
  <2>9. PICK b \in S : n[b] \notin S
    BY <1>1, <2>8 DEF Linked
  <2>10. PICK i \in j..(k - 1) : b = at[i]
    BY <2>6, <2>9
  <2>11. n[b] = at[i + 1]
    <3>1. i + 1 \in 1..End /\ (i + 1) - 1 = i /\ at[i] \in Addr
      BY <2>1, <2>4, <2>7
    <3>2. at[i + 1] = Onward(n, at[i])
      BY <1>7, <3>1
    <3> QED
      BY <2>10, <3>1, <3>2 DEF Onward
  <2>12. at[i + 1] \in S
    <3>1. CASE i + 1 = k
      BY <2>5, <2>7, <3>1
    <3>2. CASE i + 1 # k
      <4>1. i + 1 \in j..(k - 1)
        BY <2>4, <3>2
      <4> QED
        BY <2>7, <4>1
    <3> QED
      BY <3>1, <3>2
  <2> QED
    BY <2>9, <2>11, <2>12
<1>12. PICK d \in 0..N : at[d] = -s /\ \A i \in 0..N : i < d => at[i] # -s
  <2> DEFINE Ends == {i \in 0..N : at[i] = -s}
  <2>1. Ends \in SUBSET Nat /\ Ends # {}
    BY <1>11
  <2>2. PICK d \in Ends : \A i \in Ends : d <= i
    <3> HIDE DEF Ends
    <3> QED
      BY <2>1, LeastNumber
  <2>3. d \in 0..N /\ at[d] = -s
    OBVIOUS
  <2>4. ASSUME NEW i \in 0..N, i < d PROVE at[i] # -s
    <3>1. ~(d <= i)
      BY <2>3, <2>4
    <3>2. i \notin Ends
      BY <2>2, <3>1
    <3> QED
      BY <3>2
  <2> QED
    BY <2>3, <2>4
<1>13. PICK T : T = {at[i] : i \in 0..d}
  OBVIOUS
<1>14. d \in 0..d /\ \A i \in 0..d : i \in 0..N /\ (i # d => i < d /\ i + 1 \in 0..d /\ i + 1 \in 1..N)
  BY <1>8, <1>12
<1>15. -s \in T
  BY <1>12, <1>13, <1>14
<1>16. \A x \in T : n[x] \in T
  <2> SUFFICES ASSUME NEW i \in 0..d PROVE n[at[i]] \in T
    BY <1>13
  <2>1. CASE i = d
    <3>1. 0 \in 0..d
      BY <1>8, <1>12
    <3> QED
      BY <1>7, <1>12, <1>13, <2>1, <3>1
  <2>2. CASE i # d
    <3>1. i \in 0..N /\ i < d /\ i + 1 \in 0..d /\ i + 1 \in 1..End /\ (i + 1) - 1 = i
      BY <1>2, <1>8, <1>12, <1>14, <2>2
    <3>2. at[i] \in Addr
      BY <1>4, <1>7, <1>10, <1>12, <3>1
    <3>3. at[i + 1] = n[at[i]]
      BY <1>7, <3>1, <3>2 DEF Onward
    <3> QED
      BY <1>13, <3>1, <3>3
  <2> QED
    BY <2>1, <2>2
<1>17. V \subseteq T
  BY <1>1, <1>3, <1>15, <1>16, WholeList
<1>18. T \subseteq {at[k] : k \in 0..N} /\ {at[k] : k \in 0..N} \subseteq V
  BY <1>7, <1>10, <1>13, <1>14
<1>19. Walk(s) = V \ {-s}
  BY <1>9, <1>17, <1>18
<1>20. V \ {-s} = {b \in F : m[b].sz = s}
  <2>1. \A b \in F : b # -s
    BY <1>4
  <2> QED
    BY <1>3, <2>1 DEF ListOf
<1> QED
  BY <1>0, <1>19, <1>20

(* All free blocks are in the lists. *)
LEMMA AllListed ==
  ASSUME NEW L, NEW F \in SUBSET Addr, Sound(heap, L, F)
  PROVE  FreeBlocks = F
<1>1. \A s \in heap.lists : Walk(s) = {b \in F : heap.mem[b].sz = s}
  BY WalkedList
<1>2. \A b \in F : heap.mem[b].sz \in heap.lists
  BY DEF Sound, Linked
<1> QED
  BY <1>1, <1>2 DEF FreeBlocks

(* What the invariant says of a heap that is not damaged. *)
LEMMA InOrder ==
  ASSUME HeapInv, Undamaged
  PROVE  \E F \in SUBSET Addr : /\ Sound(heap, DOMAIN live, F) /\ GoodLive(heap.mem, live)
                                /\ FreeBlocks = F
<1>1. Good(heap, want, live)
  BY DEF HeapInv, Undamaged, NoMem
<1> QED
  BY <1>1, AllListed DEF Good

(* The client's blocks and the listed ones lie side by side from the         *)
(* prologue to the epilogue, through any sequence of sf_malloc, sf_free and  *)
(* sf_realloc: nothing overlaps and nothing is lost.                        *)
THEOREM NothingOverlapsOrIsLost == Spec => []BlocksTile
<1>1. HeapInv => BlocksTile
  <2> SUFFICES ASSUME HeapInv, Undamaged
               PROVE  LET free == FreeBlocks
                          all  == DOMAIN live \cup free
                      IN  /\ First \in all /\ DOMAIN live \cap free = {}
                          /\ \A b \in all : /\ After(b) \in all \cup {Epilogue(heap)}
                                            /\ \A c \in all : b < c => After(b) <= c
    BY DEF BlocksTile
  <2>1. PICK F \in SUBSET Addr : Sound(heap, DOMAIN live, F) /\ FreeBlocks = F
    BY InOrder
  <2> QED
    BY <2>1 DEF Sound, Blocks, Tiles, After
<1> QED
  BY <1>1, HeapStaysSound, PTL

(* Every block is marked as what it is and large enough for what was asked   *)
(* for; the lists are linked in both directions.                             *)
THEOREM MarksAndListsAgree == Spec => []BlocksMarked
<1>1. HeapInv => BlocksMarked
  <2> SUFFICES ASSUME HeapInv, Undamaged
               PROVE  /\ \A b \in DOMAIN live : heap.mem[b].al = 1 /\ live[b].rq < heap.mem[b].sz
                      /\ \A s \in heap.lists : \A b \in Walk(s) :
                           /\ heap.mem[b].al = 0 /\ heap.mem[b].sz = s
                           /\ heap.prv[heap.nxt[b]] = b /\ heap.nxt[heap.prv[b]] = b
    BY DEF BlocksMarked
  <2>1. PICK F \in SUBSET Addr : Sound(heap, DOMAIN live, F) /\ GoodLive(heap.mem, live)
    BY InOrder
  <2>2. ASSUME NEW b \in DOMAIN live PROVE heap.mem[b].al = 1 /\ live[b].rq < heap.mem[b].sz
    BY <2>1 DEF Sound, Blocks, Marked, GoodLive, LiveAt
  <2>3. ASSUME NEW s \in heap.lists, NEW b \in Walk(s)
        PROVE  /\ heap.mem[b].al = 0 /\ heap.mem[b].sz = s
               /\ heap.prv[heap.nxt[b]] = b /\ heap.nxt[heap.prv[b]] = b
    <3>1. b \in F /\ heap.mem[b].sz = s
      BY <2>1, WalkedList
    <3>2. heap.mem[b].al = 0
      BY <2>1, <3>1 DEF Sound, Blocks, Marked
    <3>3. b \in ListOf(heap.mem, F, s)
      BY <3>1 DEF ListOf
    <3>4. heap.prv[heap.nxt[b]] = b /\ heap.nxt[heap.prv[b]] = b
      BY <2>1, <3>3 DEF Sound, Linked
    <3> QED
      BY <3>1, <3>2, <3>4
  <2> QED
    BY <2>2, <2>3
<1> QED
  BY <1>1, HeapStaysSound, PTL

(* A block is told that the one before it is free only if it is, and then    *)
(* finds it by its footer: sf_free never joins with what is in use.          *)
THEOREM ClearBitsTellTheTruth == Spec => []ClearBitMeansFree
<1>1. HeapInv => ClearBitMeansFree
  <2> SUFFICES ASSUME HeapInv, Undamaged, NEW b \in DOMAIN live \cup FreeBlocks, heap.mem[b].pal = 0
               PROVE  \E p \in FreeBlocks : After(p) = b /\ p = b - heap.mem[b - 1].sz
    BY DEF ClearBitMeansFree
  <2>1. PICK F \in SUBSET Addr : Sound(heap, DOMAIN live, F) /\ FreeBlocks = F
    BY InOrder
  <2>2. PICK m, L, e : m = heap.mem /\ L = DOMAIN live /\ e = Epilogue(heap)
    OBVIOUS
  <2>3. Blocks(m, L, F, e) /\ b \in L \cup F /\ m[b].pal = 0
    BY <2>1, <2>2 DEF Sound
  <2>4. PICK p \in F : p + m[p].sz = b
    BY <2>3 DEF Blocks, Marked
  <2>5. PICK t \in Nat : t = m[p].sz
    BY <2>3, BlockFacts
  <2>6. p \in Nat
    BY <2>3, BlockFacts
  <2>7. m[p + t - 1].sz = t
    BY <2>3, <2>5 DEF Blocks, Marked
  <2>8. p + t = b /\ p + t - 1 = b - 1 /\ p = b - t
    BY <2>4, <2>5, <2>6
  <2>9. p = b - m[b - 1].sz
    BY <2>7, <2>8
  <2> QED
    BY <2>1, <2>2, <2>4, <2>9 DEF After
<1> QED
  BY <1>1, HeapStaysSound, PTL

(* Two free blocks are side by side only where the second takes the first    *)
(* for allocated: every other pair has been joined.                          *)
THEOREM FreeBlocksAreJoined == Spec => []FreeNeighbours
<1>1. HeapInv => FreeNeighbours
  <2> SUFFICES ASSUME HeapInv, Undamaged, NEW b \in FreeBlocks, After(b) \in FreeBlocks
               PROVE  heap.mem[After(b)].pal = 1
    BY DEF FreeNeighbours
  <2>1. PICK F \in SUBSET Addr : Sound(heap, DOMAIN live, F) /\ FreeBlocks = F
    BY InOrder
  <2> QED
    BY <2>1 DEF Sound, Apart, After
<1> QED
  BY <1>1, HeapStaysSound, PTL
=============================================================================
