---------------------------- MODULE ImprimerProofs ----------------------------
(***************************************************************************)
(* Proofs about the print spooler of Imprimer, for any number of types,    *)
(* printers, jobs and conversions: its types, its queue of jobs, and its   *)
(* search for a pipeline.                                                  *)
(***************************************************************************)
EXTENDS Imprimer, FiniteSetTheorems, NaturalsInduction, WellFoundedInduction, TLAPS

(* A search that has begun. *)
SearchType ==
  [pc : {"row", "scan", "ended"}, from : Names, to : Names, rows : Seq(Index),
   rear : -1..(MaxTypes - 1), at : Cell \cup {NoCell}, visited : SUBSET Cell,
   parent : [Cell -> -1..(MaxTypes - 1)], cut : BOOLEAN, dropped : BOOLEAN]

SearchOK ==
  \/ search = NoSearch
  \/ /\ search \in SearchType
     /\ search.pc = "row" => search.rows # <<>>
     /\ search.pc = "scan" => search.at \in Cell

(* The queue of jobs is empty, which takes the newest job out of it, or it   *)
(* leads to the newest job and from there back to the head: the next of the  *)
(* head is overwritten whenever a job is added, so the older ones are lost.  *)
QueueInv ==
  /\ queue \in [next : [0..MaxJobs -> Null..MaxJobs], prev : [0..MaxJobs -> Null..MaxJobs]]
  /\ slot = Garbage \/ (slot = jobs /\ jobs > 0)
  /\ \/ /\ queue.next[JobHead] = JobHead /\ queue.prev[JobHead] = JobHead
        /\ jobs > 0 => queue.next[jobs] = Null
     \/ /\ jobs > 0 /\ queue.next[JobHead] = jobs /\ queue.next[jobs] = JobHead
        /\ queue.prev[JobHead] \in 1..jobs

TypeInv ==
  /\ types \in 0..MaxTypes /\ conv \subseteq (0..(types - 1)) \X (0..(types - 1))
  /\ printers \in 0..MaxPrinters /\ jobs \in 0..MaxJobs
  /\ done \in {"no", "quit", "crash", "overrun"}
  /\ last \in Cell \cup {NoCell}
  /\ SearchOK
  /\ QueueInv

(* A set of indices that is not empty has a least member. *)
LEMMA LeastIndex ==
  ASSUME NEW T \in SUBSET Nat, T # {}
  PROVE  \E x \in T : \A y \in T : x <= y
<1> DEFINE Less == OpToRel(<, Nat)
<1>1. PICK x \in T : \A y \in T : ~(<<y, x>> \in Less)
  BY NatLessThanWellFounded, WFMin
<1>2. ASSUME NEW y \in T PROVE x <= y
  <2>1. ~(<<y, x>> \in Less)
    BY <1>1
  <2>2. x \in Nat /\ y \in Nat
    OBVIOUS
  <2>3. y < x => <<y, x>> \in Less
    BY <2>2 DEF OpToRel
  <2>4. ~(y < x)
    BY <2>1, <2>3
  <2> QED
    BY <2>2, <2>4
<1> QED
  BY <1>2

(* getAdjacentCell returns the first of the cells that are left. *)
LEMMA FirstAdjacent ==
  ASSUME NEW cell, Adjacent(cell) # {}
  PROVE  /\ Min(Adjacent(cell)) \in Adjacent(cell)
         /\ \A k \in Adjacent(cell) : Min(Adjacent(cell)) <= k
<1>1. Adjacent(cell) \in SUBSET Nat
  BY ImprimerAssumption DEF Adjacent, Index
<1>2. \E x \in Adjacent(cell) : \A y \in Adjacent(cell) : x <= y
  BY <1>1, LeastIndex
<1> QED
  BY <1>2 DEF Min

(* MaxTypes and what is counted up to it are numbers. *)
LEMMA IndexFacts ==
  /\ 0 \in Index /\ Index \subseteq Nat /\ Index \subseteq -1..(MaxTypes - 1) /\ -1 \in -1..(MaxTypes - 1)
  /\ \A k \in Index : <<k, 0>> \in Cell
  /\ NoCell \notin Cell
  /\ \A n \in Names : Declared(n) /\ types \in 0..MaxTypes => n \in Index
<1>1. 0 \in Index /\ Index \subseteq Nat /\ Index \subseteq -1..(MaxTypes - 1) /\ -1 \in -1..(MaxTypes - 1)
  BY ImprimerAssumption DEF Index
<1>2. \A k \in Index : <<k, 0>> \in Cell
  BY <1>1 DEF Cell
<1>3. NoCell \notin Cell
  <2>1. -1 \notin Index
    BY DEF Index
  <2> QED
    BY <2>1 DEF NoCell, Cell
<1>4. \A n \in Names : Declared(n) /\ types \in 0..MaxTypes => n \in Index
  BY ImprimerAssumption DEF Index, Names, Declared
<1> QED
  BY <1>1, <1>2, <1>3, <1>4

----------------------------------------------------------------------------
(* What the steps of a search do to its fields *)

(* enqueue adds the row at the end, or drops it. *)
LEMMA EnqueueFields ==
  ASSUME NEW s \in SearchType, NEW row \in Index
  PROVE  /\ Enqueue(s, row) \in SearchType
         /\ \A f \in {"pc", "from", "to", "at", "visited", "parent", "cut"} : Enqueue(s, row)[f] = s[f]
         /\ \/ Enqueue(s, row).dropped /\ Enqueue(s, row).rows = s.rows
            \/ /\ s.rear # MaxTypes - 1
               /\ Enqueue(s, row).dropped = s.dropped /\ Enqueue(s, row).rows = Append(s.rows, row)
<1>1. CASE s.rear = MaxTypes - 1
  BY <1>1 DEF Enqueue, SearchType
<1>2. CASE s.rear # MaxTypes - 1
  <2>1. s.rear + 1 \in -1..(MaxTypes - 1) /\ Append(s.rows, row) \in Seq(Index)
    BY <1>2, ImprimerAssumption DEF SearchType
  <2> QED
    BY <1>2, <2>1 DEF Enqueue, SearchType
<1> QED
  BY <1>1, <1>2

(* dequeue takes the first row. *)
LEMMA DequeueFields ==
  ASSUME NEW s \in SearchType, s.rows # <<>>
  PROVE  /\ Dequeue(s) \in SearchType
         /\ \A f \in {"pc", "from", "to", "at", "visited", "parent", "cut", "dropped"} : Dequeue(s)[f] = s[f]
         /\ Dequeue(s).rows = Tail(s.rows)
         /\ s.rows[1] \in Index /\ Len(Tail(s.rows)) < Len(s.rows)
<1>1. Tail(s.rows) \in Seq(Index) /\ s.rows[1] \in Index /\ Len(Tail(s.rows)) < Len(s.rows)
  BY DEF SearchType
<1>2. (IF Len(s.rows) = 1 THEN -1 ELSE s.rear) \in -1..(MaxTypes - 1)
  BY IndexFacts DEF SearchType
<1> QED
  BY <1>1, <1>2 DEF Dequeue, SearchType

(* The queue and the parents after a conversion from row to col: nothing if  *)
(* col's first cell was visited before, otherwise col is queued, or dropped. *)
Followed(s, visited, p, rows, row, col) ==
  \/ /\ <<col, 0>> \in visited
     /\ s.parent = p /\ s.rows = rows /\ s.dropped = search.dropped
  \/ /\ <<col, 0>> \notin visited
     /\ s.parent = [p EXCEPT ![<<col, 0>>] = row]
     /\ \/ s.dropped /\ s.rows = rows
        \/ s.dropped = search.dropped /\ s.rows = Append(rows, col)

(* A search follows a conversion. *)
LEMMA FollowFields ==
  ASSUME NEW s \in SearchType, NEW row \in Index, NEW col \in Index, s.dropped = search.dropped
  PROVE  /\ Follow(s, row, col) \in SearchType
         /\ \A f \in {"pc", "from", "to", "at", "visited", "cut"} : Follow(s, row, col)[f] = s[f]
         /\ Followed(Follow(s, row, col), s.visited, s.parent, s.rows, row, col)
<1>1. CASE <<col, 0>> \in s.visited
  BY <1>1 DEF Follow, Followed
<1>2. CASE <<col, 0>> \notin s.visited
  <2> DEFINE e == [s EXCEPT !.parent[<<col, 0>>] = row]
  <2>1. [s.parent EXCEPT ![<<col, 0>>] = row] \in [Cell -> -1..(MaxTypes - 1)]
    BY IndexFacts DEF SearchType
  <2>2. e \in SearchType
    BY <2>1 DEF SearchType
  <2>3. /\ \A f \in {"pc", "from", "to", "at", "visited", "cut", "rows", "dropped"} : e[f] = s[f]
        /\ e.parent = [s.parent EXCEPT ![<<col, 0>>] = row]
    BY DEF SearchType
  <2>4. Follow(s, row, col) = Enqueue(e, col)
    BY <1>2 DEF Follow
  <2> HIDE DEF e
  <2>5. /\ Enqueue(e, col) \in SearchType
        /\ \A f \in {"pc", "from", "to", "at", "visited", "parent", "cut"} : Enqueue(e, col)[f] = e[f]
        /\ \/ Enqueue(e, col).dropped /\ Enqueue(e, col).rows = e.rows
           \/ Enqueue(e, col).dropped = e.dropped /\ Enqueue(e, col).rows = Append(e.rows, col)
    BY <2>2, EnqueueFields
  <2>6. \A f \in {"pc", "from", "to", "at", "visited", "cut"} : Follow(s, row, col)[f] = s[f]
    BY <2>3, <2>4, <2>5
  <2>7. Followed(Follow(s, row, col), s.visited, s.parent, s.rows, row, col)
    BY <1>2, <2>3, <2>4, <2>5 DEF Followed
  <2> QED
    BY <2>4, <2>5, <2>6, <2>7
<1> QED
  BY <1>1, <1>2

(* The parts of a search no step of it changes. *)
SameEnds == search'.from = search.from /\ search'.to = search.to

(* The steps of bfs, field by field: a row whose first cell has no program; *)
RowSkipped(row) ==
  /\ search.pc = "row" /\ search'.pc = "scan" /\ search'.at = <<row, 0>> /\ <<row, 0>> \notin conv
  /\ search'.rows = Tail(search.rows) /\ row = search.rows[1] /\ last' = last
  /\ UNCHANGED <<search.visited, search.parent, search.cut, search.dropped>>

(* a row whose first cell was visited before, where the search is cut; *)
RowCut(row) ==
  /\ search.pc = "row" /\ search'.pc = "ended" /\ search'.cut /\ <<row, 0>> \in conv \cap search.visited
  /\ search'.rows = Tail(search.rows) /\ row = search.rows[1] /\ last' = last
  /\ UNCHANGED <<search.visited, search.parent, search.dropped>>

(* a row whose first cell is visited; *)
RowVisited(row) ==
  /\ search.pc = "row" /\ search'.pc = "scan" /\ search'.at = <<row, 0>>
  /\ <<row, 0>> \in conv \ search.visited /\ last' = <<row, 0>> /\ row = search.rows[1]
  /\ search'.visited = search.visited \cup {<<row, 0>>} /\ search'.cut = search.cut
  /\ Followed(search', search'.visited, search.parent, Tail(search.rows), row, 0)

(* the end of a row; *)
RowEnded ==
  /\ search.pc = "scan" /\ Adjacent(search.at) = {}
  /\ search'.pc = IF search.rows = <<>> THEN "ended" ELSE "row"
  /\ UNCHANGED <<last, search.at, search.rows, search.visited, search.parent, search.cut, search.dropped>>

(* a later cell of the row that was visited before; *)
CellPassed(row, col) ==
  /\ search.pc = "scan" /\ row = search.at[1] /\ search'.at = <<row, col>>
  /\ col > search.at[2] /\ \A k \in Adjacent(search.at) : col <= k
  /\ search'.pc = IF col = search.to THEN "ended" ELSE "scan"
  /\ <<row, col>> \in conv \cap search.visited
  /\ UNCHANGED <<last, search.rows, search.visited, search.parent, search.cut, search.dropped>>

(* and one that is visited. *)
CellVisited(row, col) ==
  /\ search.pc = "scan" /\ row = search.at[1] /\ search'.at = <<row, col>>
  /\ col > search.at[2] /\ \A k \in Adjacent(search.at) : col <= k
  /\ search'.pc = IF col = search.to THEN "ended" ELSE "scan"
  /\ <<row, col>> \in conv \ search.visited /\ last' = <<row, col>>
  /\ search'.visited = search.visited \cup {<<row, col>>} /\ search'.cut = search.cut
  /\ Followed(search', search'.visited,
              [search.parent EXCEPT ![<<row, col>>] = search.parent[<<row, 0>>]],
              search.rows, row, col)

(* bfs takes a row. *)
LEMMA VisitRowFields ==
  ASSUME SearchOK, VisitRow
  PROVE  /\ search \in SearchType /\ search' \in SearchType /\ SameEnds
         /\ \E row \in Index : RowSkipped(row) \/ RowCut(row) \/ RowVisited(row)
<1> DEFINE row == search.rows[1]
<1>1. search \in SearchType /\ search.pc = "row" /\ search.rows # <<>>
  BY DEF VisitRow, SearchOK, NoSearch
<1>2. /\ Dequeue(search) \in SearchType /\ row \in Index
      /\ \A f \in {"pc", "from", "to", "at", "visited", "parent", "cut", "dropped"} : Dequeue(search)[f] = search[f]
      /\ Dequeue(search).rows = Tail(search.rows)
  BY <1>1, DequeueFields
<1> PICK r \in Index : r = row
  BY <1>2
<1>3. <<r, 0>> \in Cell /\ 0 \in Index
  BY IndexFacts
<1> DEFINE d == Dequeue(search)
           s == [d EXCEPT !.pc = "scan", !.at = <<r, 0>>]
<1>4. /\ s \in SearchType /\ s.pc = "scan" /\ s.at = <<r, 0>>
      /\ \A f \in {"from", "to", "visited", "parent", "cut", "dropped", "rows"} : s[f] = d[f]
  BY <1>2, <1>3 DEF SearchType
<1>5. CASE <<r, 0>> \notin conv
  <2>1. search' = s /\ last' = last
    BY <1>5 DEF VisitRow
  <2> HIDE DEF s, d
  <2>2. search' \in SearchType /\ SameEnds
    BY <1>2, <1>4, <2>1 DEF SameEnds, d
  <2>3. RowSkipped(r)
    BY <1>1, <1>2, <1>4, <1>5, <2>1 DEF RowSkipped, d
  <2> QED
    BY <1>1, <2>2, <2>3
<1>6. CASE <<r, 0>> \in conv /\ <<r, 0>> \in search.visited
  <2> DEFINE c == [s EXCEPT !.pc = "ended", !.cut = TRUE]
  <2>1. search' = c /\ last' = last
    BY <1>6 DEF VisitRow
  <2> HIDE DEF s
  <2>2. /\ c \in SearchType /\ c.pc = "ended" /\ c.cut
        /\ \A f \in {"from", "to", "visited", "parent", "dropped", "rows"} : c[f] = s[f]
    BY <1>4 DEF SearchType
  <2> HIDE DEF c, d
  <2>3. search' \in SearchType /\ SameEnds
    BY <1>2, <1>4, <2>1, <2>2 DEF SameEnds, d
  <2>4. RowCut(r)
    BY <1>1, <1>2, <1>4, <1>6, <2>1, <2>2 DEF RowCut, d
  <2> QED
    BY <1>1, <2>3, <2>4
<1>7. CASE <<r, 0>> \in conv /\ <<r, 0>> \notin search.visited
  <2> DEFINE v == [s EXCEPT !.visited = @ \cup {<<r, 0>>}]
  <2>1. search' = Follow(v, r, 0) /\ last' = <<r, 0>>
    BY <1>7 DEF VisitRow
  <2> HIDE DEF s
  <2>2. /\ v \in SearchType /\ v.visited = s.visited \cup {<<r, 0>>}
        /\ \A f \in {"pc", "at", "from", "to", "parent", "cut", "dropped", "rows"} : v[f] = s[f]
    BY <1>3, <1>4 DEF SearchType
  <2> HIDE DEF v, d
  <2>3. v.dropped = search.dropped
    BY <1>2, <1>4, <2>2 DEF d
  <2>4. /\ Follow(v, r, 0) \in SearchType
        /\ \A f \in {"pc", "from", "to", "at", "visited", "cut"} : Follow(v, r, 0)[f] = v[f]
        /\ Followed(Follow(v, r, 0), v.visited, v.parent, v.rows, r, 0)
    BY <1>3, <2>2, <2>3, FollowFields
  <2>5. search' \in SearchType /\ SameEnds
    BY <1>2, <1>4, <2>1, <2>2, <2>4 DEF SameEnds, d
  <2>6. /\ search'.pc = "scan" /\ search'.at = <<r, 0>> /\ search'.cut = search.cut
        /\ search'.visited = search.visited \cup {<<r, 0>>}
        /\ v.visited = search'.visited /\ v.parent = search.parent /\ v.rows = Tail(search.rows)
    BY <1>2, <1>4, <2>1, <2>2, <2>4 DEF d
  <2>7. Followed(search', search'.visited, search.parent, Tail(search.rows), r, 0)
    BY <2>1, <2>4, <2>6
  <2>8. RowVisited(r)
    BY <1>1, <1>7, <2>1, <2>6, <2>7 DEF RowVisited
  <2> QED
    BY <1>1, <2>5, <2>8
<1> QED
  BY <1>5, <1>6, <1>7

(* The inner loop of bfs. *)
LEMMA VisitCellFields ==
  ASSUME SearchOK, VisitCell
  PROVE  /\ search \in SearchType /\ search' \in SearchType /\ SameEnds
         /\ RowEnded \/ \E row, col \in Index : CellPassed(row, col) \/ CellVisited(row, col)
<1>1. search \in SearchType /\ search.pc = "scan" /\ search.at \in Cell
  BY DEF VisitCell, SearchOK, NoSearch
<1>2. CASE Adjacent(search.at) = {}
  <2> DEFINE p == IF search.rows = <<>> THEN "ended" ELSE "row"
  <2>1. search' = [search EXCEPT !.pc = p] /\ last' = last
    BY <1>2 DEF VisitCell
  <2>2. p \in {"row", "scan", "ended"}
    OBVIOUS
  <2> HIDE DEF p
  <2>3. /\ search' \in SearchType /\ SameEnds /\ search'.pc = p
        /\ \A f \in {"at", "rows", "visited", "parent", "cut", "dropped"} : search'[f] = search[f]
    BY <1>1, <2>1, <2>2 DEF SearchType, SameEnds
  <2>4. RowEnded
    BY <1>1, <1>2, <2>1, <2>3 DEF RowEnded, p
  <2> QED
    BY <1>1, <2>3, <2>4
<1>3. CASE Adjacent(search.at) # {}
  <2>1. PICK row \in Index, col \in Index : row = search.at[1] /\ col = Min(Adjacent(search.at))
    BY <1>1, <1>3, FirstAdjacent DEF Cell, Adjacent
  <2>2. /\ col > search.at[2] /\ <<row, col>> \in conv /\ <<row, col>> \in Cell /\ <<row, 0>> \in Cell
        /\ \A k \in Adjacent(search.at) : col <= k
    BY <1>3, <2>1, FirstAdjacent, IndexFacts DEF Adjacent, Cell
  <2> DEFINE p == IF col = search.to THEN "ended" ELSE "scan"
             s == [search EXCEPT !.pc = p, !.at = <<row, col>>]
  <2>3. p \in {"row", "scan", "ended"}
    OBVIOUS
  <2> HIDE DEF p
  <2>4. /\ s \in SearchType /\ s.pc = p /\ s.at = <<row, col>>
        /\ \A f \in {"from", "to", "rows", "visited", "parent", "cut", "dropped"} : s[f] = search[f]
    BY <1>1, <2>2, <2>3 DEF SearchType
  <2>5. CASE <<row, col>> \in search.visited
    <3>1. search' = s /\ last' = last
      BY <1>3, <2>1, <2>5 DEF VisitCell, p
    <3> HIDE DEF s
    <3>2. search' \in SearchType /\ SameEnds
      BY <2>4, <3>1 DEF SameEnds
    <3>3. CellPassed(row, col)
      BY <1>1, <2>1, <2>2, <2>4, <2>5, <3>1 DEF CellPassed, p
    <3> QED
      BY <1>1, <3>2, <3>3
  <2>6. CASE <<row, col>> \notin search.visited
    <3> DEFINE v == [s EXCEPT !.visited = @ \cup {<<row, col>>},
                              !.parent[<<row, col>>] = s.parent[<<row, 0>>]]
    <3>1. search' = Follow(v, row, col) /\ last' = <<row, col>>
      BY <1>3, <2>1, <2>6 DEF VisitCell, p
    <3> HIDE DEF s
    <3>2. s.parent \in [Cell -> -1..(MaxTypes - 1)] /\ s.parent[<<row, 0>>] \in -1..(MaxTypes - 1)
      BY <2>2, <2>4 DEF SearchType
    <3>3. [s.parent EXCEPT ![<<row, col>>] = s.parent[<<row, 0>>]] \in [Cell -> -1..(MaxTypes - 1)]
      BY <2>2, <3>2
    <3>4. /\ v \in SearchType /\ v.visited = s.visited \cup {<<row, col>>}
          /\ v.parent = [s.parent EXCEPT ![<<row, col>>] = s.parent[<<row, 0>>]]
          /\ \A f \in {"pc", "at", "from", "to", "cut", "dropped", "rows"} : v[f] = s[f]
      BY <2>2, <2>4, <3>3 DEF SearchType
    <3> HIDE DEF v
    <3>5. v.dropped = search.dropped
      BY <2>4, <3>4
    <3>6. /\ Follow(v, row, col) \in SearchType
          /\ \A f \in {"pc", "from", "to", "at", "visited", "cut"} : Follow(v, row, col)[f] = v[f]
          /\ Followed(Follow(v, row, col), v.visited, v.parent, v.rows, row, col)
      BY <3>4, <3>5, FollowFields
    <3>7. search' \in SearchType /\ SameEnds
      BY <2>4, <3>1, <3>4, <3>6 DEF SameEnds
    <3>8. /\ search'.pc = p /\ search'.at = <<row, col>> /\ search'.cut = search.cut
          /\ search'.visited = search.visited \cup {<<row, col>>}
          /\ v.visited = search'.visited /\ v.rows = search.rows
          /\ v.parent = [search.parent EXCEPT ![<<row, col>>] = search.parent[<<row, 0>>]]
      BY <2>4, <3>1, <3>4, <3>6
    <3>9. CellVisited(row, col)
      BY <1>1, <2>1, <2>2, <2>6, <3>1, <3>6, <3>8 DEF CellVisited, p
    <3> QED
      BY <1>1, <3>7, <3>9
  <2> QED
    BY <2>5, <2>6
<1> QED
  BY <1>2, <1>3

(* find_pipeline: a search that is over at once, one that tests a single     *)
(* cell, or one that begins in a row; or the process is over.                *)
Idle(n, m)  == /\ search'.pc = "ended" /\ search'.visited = {} /\ ~Declared(n)
               /\ last' = last
Tested(n, m) == /\ search'.pc = "ended" /\ search'.visited = {<<n, 0>>} \cap conv /\ m = 0 /\ Declared(n)
                /\ last' = IF <<n, 0>> \in conv THEN <<n, 0>> ELSE last
Begun(n, m) == /\ search'.pc = "row" /\ search'.visited = {} /\ m # 0 /\ Declared(n)
               /\ search'.rows = <<n>> /\ ~search'.dropped /\ last' = last

(* The searches find_pipeline starts. *)
LEMMA FindPipelineFields ==
  ASSUME NEW n \in Names, NEW m \in Names, types \in 0..MaxTypes, FindPipeline(n, m)
  PROVE  \/ search' = NoSearch /\ UNCHANGED last
         \/ /\ search' \in SearchType /\ search'.from = n /\ search'.to = m
            /\ ~search'.cut /\ search'.parent = [c \in Cell |-> -1]
            /\ Idle(n, m) \/ Tested(n, m) \/ Begun(n, m)
<1> DEFINE s == NewSearch(n, m)
<1>1. /\ s \in SearchType /\ s.pc = "ended" /\ s.visited = {} /\ s.from = n /\ s.to = m /\ ~s.cut
      /\ s.parent = [c \in Cell |-> -1] /\ s.rows = <<>> /\ s.rear = -1 /\ ~s.dropped
  BY IndexFacts DEF NewSearch, SearchType
<1> HIDE DEF s
<1>2. CASE LookupCrashes(n)
  BY <1>2 DEF FindPipeline, LookupCrashes, Ready
<1>3. CASE ~LookupCrashes(n) /\ ~Declared(n)
  <2>1. search' = s /\ last' = last
    BY <1>3 DEF FindPipeline, s
  <2> QED
    BY <1>1, <1>3, <2>1 DEF Idle
<1>4. CASE Declared(n) /\ m = 0
  <2> DEFINE v == [s EXCEPT !.visited = {<<n, 0>>} \cap conv]
  <2>1. /\ search' = v /\ last' = IF <<n, 0>> \in conv THEN <<n, 0>> ELSE last
    BY <1>4 DEF FindPipeline, s, LookupCrashes
  <2>2. n \in Index /\ <<n, 0>> \in Cell
    BY <1>4, IndexFacts
  <2>3. /\ v \in SearchType /\ v.visited = {<<n, 0>>} \cap conv
        /\ \A f \in {"pc", "from", "to", "cut", "parent"} : v[f] = s[f]
    BY <1>1, <2>2 DEF SearchType
  <2> HIDE DEF v
  <2> QED
    BY <1>1, <1>4, <2>1, <2>3 DEF Tested
<1>5. CASE Declared(n) /\ m # 0
  <2> DEFINE e == Enqueue(s, n)
             v == [e EXCEPT !.pc = "row"]
  <2>1. search' = v /\ last' = last
    BY <1>5 DEF FindPipeline, s, LookupCrashes
  <2>2. n \in Index
    BY <1>5, IndexFacts
  <2>3. /\ e \in SearchType
        /\ \A f \in {"pc", "from", "to", "at", "visited", "parent", "cut"} : e[f] = s[f]
    BY <1>1, <2>2, EnqueueFields
  <2>4. e.rows = <<n>> /\ ~e.dropped
    <3>1. s.rear # MaxTypes - 1
      BY <1>1, ImprimerAssumption
    <3>2. e = [s EXCEPT !.rows = Append(@, n), !.rear = @ + 1]
      BY <3>1 DEF Enqueue
    <3>3. e.rows = Append(s.rows, n) /\ e.dropped = s.dropped
      BY <1>1, <3>2 DEF SearchType
    <3> QED
      BY <1>1, <3>3
  <2> HIDE DEF e
  <2>5. /\ v \in SearchType /\ v.pc = "row"
        /\ \A f \in {"from", "to", "visited", "parent", "cut", "rows", "dropped"} : v[f] = e[f]
    BY <2>3 DEF SearchType
  <2> HIDE DEF v
  <2> QED
    BY <1>1, <1>5, <2>1, <2>3, <2>4, <2>5 DEF Begun
<1> QED
  BY <1>2, <1>3, <1>4, <1>5

----------------------------------------------------------------------------
(* The types *)

(* A search keeps its types. *)
LEMMA SearchOKNext ==
  ASSUME TypeInv, [Next]_vars
  PROVE  SearchOK' /\ last' \in Cell \cup {NoCell}
<1>1. ASSUME VisitRow PROVE SearchOK' /\ last' \in Cell \cup {NoCell}
  <2>1. /\ search' \in SearchType
        /\ \E row \in Index : RowSkipped(row) \/ RowCut(row) \/ RowVisited(row)
    BY <1>1, VisitRowFields DEF TypeInv
  <2>2. PICK row \in Index : RowSkipped(row) \/ RowCut(row) \/ RowVisited(row)
    BY <2>1
  <2>3. search'.pc \in {"scan", "ended"} /\ (search'.pc = "scan" => search'.at \in Cell)
        /\ last' \in Cell \cup {NoCell}
    BY <2>2, IndexFacts DEF RowSkipped, RowCut, RowVisited, TypeInv
  <2> QED
    BY <2>1, <2>3 DEF SearchOK
<1>2. ASSUME VisitCell PROVE SearchOK' /\ last' \in Cell \cup {NoCell}
  <2>1. /\ search' \in SearchType
        /\ RowEnded \/ \E row, col \in Index : CellPassed(row, col) \/ CellVisited(row, col)
    BY <1>2, VisitCellFields DEF TypeInv
  <2>2. CASE RowEnded
    BY <2>1, <2>2 DEF RowEnded, SearchOK, TypeInv
  <2>3. ASSUME NEW row \in Index, NEW col \in Index, CellPassed(row, col) \/ CellVisited(row, col)
        PROVE  SearchOK' /\ last' \in Cell \cup {NoCell}
    <3>1. /\ search'.pc \in {"scan", "ended"} /\ search'.at = <<row, col>> /\ <<row, col>> \in Cell
          /\ last' \in {last, <<row, col>>}
      BY <2>3 DEF CellPassed, CellVisited, Cell
    <3> QED
      BY <2>1, <3>1 DEF SearchOK, TypeInv
  <2> QED
    BY <2>1, <2>2, <2>3
<1>3. ASSUME NEW n \in Names, NEW m \in Names, FindPipeline(n, m)
      PROVE  SearchOK' /\ last' \in Cell \cup {NoCell}
  <2>1. \/ search' = NoSearch /\ UNCHANGED last
        \/ /\ search' \in SearchType /\ search'.from = n /\ search'.to = m
           /\ ~search'.cut /\ search'.parent = [c \in Cell |-> -1]
           /\ Idle(n, m) \/ Tested(n, m) \/ Begun(n, m)
    BY <1>3, FindPipelineFields DEF TypeInv
  <2>2. CASE search' = NoSearch /\ UNCHANGED last
    BY <2>2 DEF SearchOK, TypeInv
  <2>3. CASE search' \in SearchType /\ (Idle(n, m) \/ Tested(n, m) \/ Begun(n, m))
    <3>1. Declared(n) => <<n, 0>> \in Cell
      BY IndexFacts DEF TypeInv
    <3>2. last' \in Cell \cup {NoCell} /\ search'.pc \in {"ended", "row"}
      BY <2>3, <3>1 DEF Idle, Tested, Begun, TypeInv
    <3>3. search'.pc = "row" => search'.rows # <<>>
      BY <2>3 DEF Idle, Tested, Begun
    <3> QED
      BY <2>3, <3>2, <3>3 DEF SearchOK
  <2> QED
    BY <2>1, <2>2, <2>3
<1>4. ASSUME FindEnds PROVE SearchOK' /\ last' \in Cell \cup {NoCell}
  BY <1>4 DEF FindEnds, SearchOK, TypeInv
<1>5. ASSUME NEW n \in Names, NEW m \in Names,
             TypeCmd \/ PrinterCmd \/ ConversionCmd(n, m) \/ PrintCmd \/ PrintOnTooMany \/ ListCmd
             \/ TakeJob \/ IdleCmd \/ UnknownCmd \/ Leave \/ UNCHANGED vars
      PROVE  search' = search /\ last' = last
  BY <1>5 DEF TypeCmd, PrinterCmd, ConversionCmd, PrintCmd, PrintOnTooMany, ListCmd, TakeJob,
     IdleCmd, UnknownCmd, Leave, vars
<1>6. ASSUME search' = search, last' = last PROVE SearchOK' /\ last' \in Cell \cup {NoCell}
  BY <1>6 DEF SearchOK, TypeInv
<1>7. 0 \in Names
  BY ImprimerAssumption DEF Names
<1> QED
  BY <1>1, <1>2, <1>3, <1>4, <1>5, <1>6, <1>7 DEF Next, Search

(* What has links, and what a link leads to. *)
JobSet  == 0..MaxJobs
LinkSet == Null..MaxJobs

(* Links of which one is changed. *)
Put(g, a, x) == [g EXCEPT ![a] = x]

(* The queue of jobs keeps its shape. *)
LEMMA QueueNext ==
  ASSUME TypeInv, [Next]_vars
  PROVE  QueueInv' /\ jobs' \in 0..MaxJobs
<1>a. /\ queue.next \in [0..MaxJobs -> Null..MaxJobs] /\ queue.prev \in [0..MaxJobs -> Null..MaxJobs]
      /\ queue = [next |-> queue.next, prev |-> queue.prev]
      /\ jobs \in 0..MaxJobs /\ MaxJobs \in Nat /\ (slot = Garbage \/ (slot = jobs /\ jobs > 0))
  BY ImprimerAssumption DEF TypeInv, QueueInv
<1> PICK g \in [JobSet -> LinkSet], p \in [JobSet -> LinkSet] : g = queue.next /\ p = queue.prev
  BY <1>a DEF JobSet, LinkSet
<1> PICK g2, p2 : g2 = queue'.next /\ p2 = queue'.prev
  OBVIOUS
<1>1. ASSUME PrintCmd PROVE QueueInv' /\ jobs' \in 0..MaxJobs
  <2> PICK n \in 1..MaxJobs : n = jobs + 1
    BY <1>1, <1>a DEF PrintCmd
  <2>0. /\ n \in JobSet /\ JobHead \in JobSet /\ n # JobHead
        /\ n \in LinkSet /\ JobHead \in LinkSet
    BY <1>a DEF JobHead, Null, JobSet, LinkSet
  <2>1. jobs' = n /\ slot' = n /\ queue' = JqEnqueue(queue, n)
    BY <1>1 DEF PrintCmd, InitializeJob
  <2>2. CASE queue.next[JobHead] = JobHead
    <3>1. queue.prev[JobHead] = JobHead
      BY <1>a, <2>2 DEF TypeInv, QueueInv, JobHead, Null
    <3>2. /\ g2 = Put(Put(g, n, JobHead), JobHead, n)
          /\ p2 = Put(Put(p, n, JobHead), JobHead, n)
          /\ queue' = [next |-> queue'.next, prev |-> queue'.prev]
      BY <2>1, <2>2, <3>1 DEF JqEnqueue, Put
    <3>3. g2 \in [JobSet -> LinkSet] /\ g2[JobHead] = n /\ g2[n] = JobHead
      BY <2>0, <3>2 DEF Put
    <3>5. p2 \in [JobSet -> LinkSet] /\ p2[JobHead] = n
      BY <2>0, <3>2 DEF Put
    <3>4. queue' \in [next : [0..MaxJobs -> Null..MaxJobs], prev : [0..MaxJobs -> Null..MaxJobs]]
      BY <3>2, <3>3, <3>5 DEF JobSet, LinkSet
    <3> QED
      BY <1>a, <2>1, <3>3, <3>4, <3>5 DEF QueueInv, JobHead, Null, Garbage
  <2>3. CASE queue.next[JobHead] # JobHead
    <3> PICK f \in 1..jobs : f = queue.prev[JobHead]
      BY <2>3 DEF TypeInv, QueueInv
    <3>a. f \in JobSet /\ f \in LinkSet
      BY <1>a DEF Null, JobSet, LinkSet
    <3>0. f \in JobSet /\ f \in LinkSet /\ Put(g, f, n) \in [JobSet -> LinkSet]
      BY <2>0, <3>a DEF Put
    <3>1. /\ g2 = Put(Put(Put(g, f, n), n, JobHead), JobHead, n)
          /\ p2 = [[p EXCEPT ![n] = f] EXCEPT ![JobHead] = @]
          /\ queue' = [next |-> queue'.next, prev |-> queue'.prev]
      BY <2>1, <2>3 DEF JqEnqueue, Put
    <3>2. g2 \in [JobSet -> LinkSet] /\ g2[JobHead] = n /\ g2[n] = JobHead
      BY <2>0, <3>0, <3>1 DEF Put
    <3>3. p2 \in [JobSet -> LinkSet] /\ p2[JobHead] = f
      BY <2>0, <3>0, <3>1
    <3>4. queue' \in [next : [0..MaxJobs -> Null..MaxJobs], prev : [0..MaxJobs -> Null..MaxJobs]]
      BY <3>1, <3>2, <3>3 DEF JobSet, LinkSet
    <3>5. f \in 1..n
      BY <1>a
    <3> QED
      BY <1>a, <2>1, <3>2, <3>3, <3>4, <3>5 DEF QueueInv, JobHead, Null, Garbage
  <2> QED
    BY <2>2, <2>3
<1>2. ASSUME TakeJob PROVE QueueInv' /\ jobs' \in 0..MaxJobs
  <2>1. /\ jobs > 0 /\ queue.next[JobHead] = jobs /\ queue.next[jobs] = JobHead
        /\ queue.prev[JobHead] \in 1..jobs
    BY <1>2 DEF TakeJob, TypeInv, QueueInv
  <2>2. queue' = JqDequeue(queue) /\ jobs' = jobs /\ slot' \in {slot, Garbage}
    BY <1>2 DEF TakeJob, StackReused
  <2>3. /\ g2 = Put(Put(g, JobHead, JobHead), jobs, Null)
        /\ p2 = Put(Put(p, JobHead, JobHead), jobs, Null)
        /\ queue' = [next |-> queue'.next, prev |-> queue'.prev]
    <3>1. CASE queue.prev[JobHead] = jobs
      BY <2>1, <2>2, <3>1 DEF JqDequeue, Put
    <3>2. CASE queue.prev[JobHead] # jobs
      BY <2>1, <2>2, <3>2 DEF JqDequeue, Put
    <3> QED
      BY <3>1, <3>2
  <2>4. /\ g2 \in [JobSet -> LinkSet] /\ p2 \in [JobSet -> LinkSet]
        /\ g2[JobHead] = JobHead /\ p2[JobHead] = JobHead /\ g2[jobs] = Null
    <3>1. /\ jobs \in JobSet /\ JobHead \in JobSet /\ jobs # JobHead
          /\ Null \in LinkSet /\ JobHead \in LinkSet
      BY <1>a, <2>1 DEF JobHead, Null, JobSet, LinkSet
    <3>2. g2 \in [JobSet -> LinkSet] /\ g2[jobs] = Null /\ g2[JobHead] = JobHead
      BY <2>3, <3>1 DEF Put
    <3>3. p2 \in [JobSet -> LinkSet] /\ p2[JobHead] = JobHead
      BY <2>3, <3>1 DEF Put
    <3> QED
      BY <3>2, <3>3
  <2>5. queue' \in [next : [0..MaxJobs -> Null..MaxJobs], prev : [0..MaxJobs -> Null..MaxJobs]]
    BY <2>3, <2>4 DEF JobSet, LinkSet
  <2> QED
    BY <1>a, <2>2, <2>4, <2>5 DEF QueueInv
<1>3. ASSUME NEW n \in Names, NEW m \in Names,
             TypeCmd \/ PrinterCmd \/ ConversionCmd(n, m) \/ FindPipeline(n, m) \/ PrintOnTooMany
             \/ ListCmd \/ IdleCmd \/ UnknownCmd \/ Leave \/ Search \/ UNCHANGED vars
      PROVE  queue' = queue /\ jobs' = jobs /\ slot' \in {slot, Garbage}
  BY <1>3 DEF TypeCmd, PrinterCmd, ConversionCmd, FindPipeline, PrintOnTooMany, ListCmd,
     IdleCmd, UnknownCmd, Leave, vars, Search, VisitRow, VisitCell, FindEnds, StackReused
<1>4. ASSUME queue' = queue, jobs' = jobs, slot' \in {slot, Garbage}
      PROVE  QueueInv' /\ jobs' \in 0..MaxJobs
  BY <1>4 DEF QueueInv, TypeInv
<1>5. 0 \in Names
  BY ImprimerAssumption DEF Names
<1> QED
  BY <1>1, <1>2, <1>3, <1>4, <1>5 DEF Next

(* Conversions stay between declared types. *)
LEMMA DeclarationsNext ==
  ASSUME TypeInv, [Next]_vars
  PROVE  /\ types' \in 0..MaxTypes /\ conv' \subseteq (0..(types' - 1)) \X (0..(types' - 1))
         /\ printers' \in 0..MaxPrinters /\ done' \in {"no", "quit", "crash", "overrun"}
<1> DEFINE Goal == /\ types' \in 0..MaxTypes /\ conv' \subseteq (0..(types' - 1)) \X (0..(types' - 1))
                   /\ printers' \in 0..MaxPrinters /\ done' \in {"no", "quit", "crash", "overrun"}
<1>a. /\ types \in 0..MaxTypes /\ MaxTypes \in Nat /\ MaxPrinters \in Nat
      /\ conv \subseteq (0..(types - 1)) \X (0..(types - 1))
      /\ printers \in 0..MaxPrinters /\ done \in {"no", "quit", "crash", "overrun"}
  BY ImprimerAssumption DEF TypeInv
<1>1. ASSUME TypeCmd PROVE Goal
  <2>1. types' = types + 1 /\ types < MaxTypes /\ UNCHANGED <<conv, printers, done>>
    BY <1>1 DEF TypeCmd, InitializeConvCells
  <2>2. types' \in 0..MaxTypes /\ 0..(types - 1) \subseteq 0..(types' - 1)
    BY <1>a, <2>1
  <2> QED
    BY <1>a, <2>1, <2>2
<1>2. ASSUME PrinterCmd PROVE Goal
  <2>1. /\ UNCHANGED <<types, conv>>
        /\ \/ printers < MaxPrinters /\ printers' = printers + 1 /\ done' = done
           \/ done' = "overrun" /\ printers' = printers
    BY <1>2 DEF PrinterCmd, InitializePrinter
  <2> QED
    BY <1>a, <2>1
<1>3. ASSUME NEW n \in Names, NEW m \in Names, ConversionCmd(n, m) PROVE Goal
  <2>1. /\ UNCHANGED <<types, printers>>
        /\ \/ done' = "crash" /\ conv' = conv
           \/ Declared(n) /\ Declared(m) /\ conv' = conv \cup {<<n, m>>} /\ done' = done
           \/ UNCHANGED <<conv, done>>
    BY <1>3 DEF ConversionCmd
  <2>2. Declared(n) /\ Declared(m) => n \in 0..(types - 1) /\ m \in 0..(types - 1)
    BY <1>a DEF Declared, Names
  <2> QED
    BY <1>a, <2>1, <2>2
<1>4. ASSUME NEW n \in Names, NEW m \in Names,
             FindPipeline(n, m) \/ PrintCmd \/ PrintOnTooMany \/ ListCmd \/ TakeJob \/ IdleCmd
             \/ UnknownCmd \/ Leave \/ Search
      PROVE  UNCHANGED <<types, conv, printers>> /\ done' \in {done, "no", "quit", "crash", "overrun"}
  <2>1. ASSUME FindPipeline(n, m) PROVE UNCHANGED <<types, conv, printers>> /\ done' \in {done, "crash"}
    BY <2>1 DEF FindPipeline, LookupCrashes
  <2> QED
    BY <1>4, <2>1 DEF PrintCmd, PrintOnTooMany, ListCmd, TakeJob, IdleCmd, UnknownCmd, Leave,
       Search, VisitRow, VisitCell, FindEnds, InitializeJob
<1>5. CASE UNCHANGED vars
  BY <1>5, <1>a DEF vars
<1>6. ASSUME UNCHANGED <<types, conv, printers>>, done' \in {done, "no", "quit", "crash", "overrun"}
      PROVE  Goal
  BY <1>6, <1>a
<1>7. 0 \in Names
  BY ImprimerAssumption DEF Names
<1> QED
  <2>1. ASSUME NEW n \in Names, NEW m \in Names, ConversionCmd(n, m) \/ FindPipeline(n, m) PROVE Goal
    BY <1>3, <1>4, <1>6, <2>1
  <2>2. ASSUME PrintCmd \/ PrintOnTooMany \/ ListCmd \/ TakeJob \/ IdleCmd \/ UnknownCmd \/ Leave \/ Search
        PROVE  Goal
    BY <1>4, <1>6, <1>7, <2>2
  <2>3. CASE Next
    <3>1. \/ TypeCmd \/ PrinterCmd
          \/ \E n, m \in Names : ConversionCmd(n, m) \/ FindPipeline(n, m)
          \/ PrintCmd \/ PrintOnTooMany \/ ListCmd \/ TakeJob \/ IdleCmd \/ UnknownCmd \/ Leave \/ Search
      BY <2>3 DEF Next
    <3>2. CASE \E n, m \in Names : ConversionCmd(n, m) \/ FindPipeline(n, m)
      BY <2>1, <3>2
    <3> QED
      BY <1>1, <1>2, <2>2, <3>1, <3>2
  <2> QED
    BY <1>5, <2>3

(* The types hold at first, ... *)
LEMMA TypeInvInit == Init => TypeInv
<1> SUFFICES ASSUME Init PROVE TypeInv
  OBVIOUS
<1>1. /\ types = 0 /\ conv = {} /\ printers = 0 /\ jobs = 0 /\ slot = Garbage
      /\ done = "no" /\ last = NoCell /\ search = NoSearch
  BY DEF Init
<1>2. queue.next = [n \in 0..MaxJobs |-> IF n = JobHead THEN JobHead ELSE Null]
      /\ queue.prev = [n \in 0..MaxJobs |-> IF n = JobHead THEN JobHead ELSE Null]
      /\ queue = [next |-> queue.next, prev |-> queue.prev]
  BY DEF Init
<1>3. \A n \in 0..MaxJobs : (IF n = JobHead THEN JobHead ELSE Null) \in Null..MaxJobs
  BY ImprimerAssumption DEF JobHead, Null
<1>4. queue.next \in [0..MaxJobs -> Null..MaxJobs] /\ queue.prev \in [0..MaxJobs -> Null..MaxJobs]
  BY <1>2, <1>3
<1>5. queue.next[JobHead] = JobHead /\ queue.prev[JobHead] = JobHead
  BY <1>2, ImprimerAssumption DEF JobHead
<1>6. QueueInv
  BY <1>1, <1>2, <1>4, <1>5 DEF QueueInv
<1> QED
  BY <1>1, <1>6, ImprimerAssumption DEF TypeInv, SearchOK

(* ... and after every step. *)
LEMMA TypeInvNext == TypeInv /\ [Next]_vars => TypeInv'
  BY SearchOKNext, QueueNext, DeclarationsNext DEF TypeInv

(* The spooler keeps its types. *)
LEMMA TypeInvariant == Spec => []TypeInv
  BY TypeInvInit, TypeInvNext, PTL DEF Spec

(* Types, conversions, printers, jobs, the links of the queue and the fields *)
(* of a search keep their types; bfs takes a row only if one is queued.      *)
THEOREM ImprimerTypeCorrect == Spec => []TypeOK
<1>1. TypeInv => TypeOK
  <2> SUFFICES ASSUME TypeInv PROVE TypeOK
    OBVIOUS
  <2>1. /\ search.pc \in {"none", "row", "scan", "ended"}
        /\ search.pc = "row" => search.rows # <<>>
    BY DEF TypeInv, SearchOK, NoSearch, SearchType
  <2>2. slot \in {Garbage} \cup 1..jobs
    BY DEF TypeInv, QueueInv, Garbage
  <2> QED
    BY <2>1, <2>2 DEF TypeInv, QueueInv, TypeOK
<1> QED
  BY TypeInvariant, <1>1, PTL

----------------------------------------------------------------------------
(* A search ends *)

(* Every step of a search gets on: it visits a cell, has a row less in its   *)
(* queue, or is further in its row.                                         *)
THEOREM SearchAdvancesAlways == Spec => SearchAdvances
<1> DEFINE Onward == search.pc # "none" /\ search'.pc # "none" =>
             \/ search.visited \subseteq search'.visited /\ search.visited # search'.visited
             \/ /\ search.visited = search'.visited
                /\ \/ Len(search'.rows) < Len(search.rows)
                   \/ search'.rows = search.rows /\ Ahead' < Ahead
<1>1. ASSUME TypeInv, VisitRow PROVE Onward
  <2>1. PICK row \in Index : RowSkipped(row) \/ RowCut(row) \/ RowVisited(row)
    BY <1>1, VisitRowFields DEF TypeInv
  <2>2. Len(Tail(search.rows)) < Len(search.rows)
    <3>1. search \in SearchType /\ search.rows # <<>>
      BY <1>1 DEF TypeInv, SearchOK, VisitRow, NoSearch
    <3> QED
      BY <3>1, DequeueFields
  <2>3. CASE RowSkipped(row) \/ RowCut(row)
    BY <2>2, <2>3 DEF RowSkipped, RowCut
  <2>4. CASE RowVisited(row)
    BY <2>4 DEF RowVisited
  <2> QED
    BY <2>1, <2>3, <2>4
<1>2. ASSUME TypeInv, VisitCell PROVE Onward
  <2>1. /\ search \in SearchType /\ search.at \in Cell /\ search.pc = "scan"
        /\ RowEnded \/ \E row, col \in Index : CellPassed(row, col) \/ CellVisited(row, col)
    BY <1>2, VisitCellFields DEF TypeInv, SearchOK, VisitCell, NoSearch
  <2>2. search.at[2] \in Index /\ Ahead = MaxTypes - search.at[2] /\ MaxTypes \in Nat
    BY <2>1, ImprimerAssumption DEF Ahead, Cell
  <2>3. Ahead > 0
    BY <2>2 DEF Index
  <2>4. CASE RowEnded
    <3>1. Ahead' = 0 /\ search'.visited = search.visited /\ search'.rows = search.rows
      BY <2>4 DEF RowEnded, Ahead
    <3> QED
      BY <2>3, <3>1
  <2>5. ASSUME NEW row \in Index, NEW col \in Index, CellPassed(row, col) PROVE Onward
    <3>1. /\ search'.visited = search.visited /\ search'.rows = search.rows
          /\ search'.at[2] = col /\ col > search.at[2] /\ search'.pc \in {"ended", "scan"}
      BY <2>5 DEF CellPassed
    <3>2. Ahead' \in {0, MaxTypes - col}
      BY <3>1 DEF Ahead
    <3>3. Ahead' < Ahead
      BY <2>2, <2>3, <3>1, <3>2 DEF Index
    <3> QED
      BY <3>1, <3>3
  <2>6. ASSUME NEW row \in Index, NEW col \in Index, CellVisited(row, col) PROVE Onward
    BY <2>6 DEF CellVisited
  <2> QED
    BY <2>1, <2>4, <2>5, <2>6
<1>3. ASSUME NEW n \in Names, NEW m \in Names,
             TypeCmd \/ PrinterCmd \/ ConversionCmd(n, m) \/ FindPipeline(n, m) \/ PrintCmd
             \/ PrintOnTooMany \/ ListCmd \/ TakeJob \/ IdleCmd \/ UnknownCmd \/ Leave
      PROVE  search.pc = "none"
  <2>1. Ready
    <3>1. FindPipeline(n, m) => Ready
      BY DEF FindPipeline
    <3> QED
      BY <1>3, <3>1 DEF TypeCmd, PrinterCmd, ConversionCmd, PrintCmd, PrintOnTooMany, ListCmd,
         TakeJob, IdleCmd, UnknownCmd, Leave
  <2> QED
    BY <2>1 DEF Ready, NoSearch
<1>4. ASSUME FindEnds PROVE search'.pc = "none"
  BY <1>4 DEF FindEnds, NoSearch
<1>5. 0 \in Names
  BY ImprimerAssumption DEF Names
<1>6. ASSUME TypeInv, Next PROVE Onward
  <2>1. CASE VisitRow \/ VisitCell \/ FindEnds
    BY <1>1, <1>2, <1>4, <1>6, <2>1
  <2>2. CASE ~(VisitRow \/ VisitCell \/ FindEnds)
    BY <1>3, <1>5, <1>6, <2>2 DEF Next, Search
  <2> QED
    BY <2>1, <2>2
<1>7. TypeInv /\ [Next]_vars => [Onward]_vars
  BY <1>6
<1> QED
  BY TypeInvariant, <1>7, PTL DEF Spec, SearchAdvances

----------------------------------------------------------------------------
(* The jobs a walk finds *)

(* The links lead from the head to the newest job and back, or nowhere.      *)
LEMMA ListedJobs ==
  ASSUME TypeInv
  PROVE  Listed = IF jobs > 0 /\ queue.next[jobs] # Null THEN {jobs} ELSE {}
<1> DEFINE Step(w, k) == IF k = 0 THEN queue.next[JobHead]
                         ELSE IF w[k - 1] \in {JobHead, Null} THEN JobHead ELSE queue.next[w[k - 1]]
           Walk == CHOOSE w : w = [k \in 0..MaxJobs |-> Step(w, k)]
<1>1. Listed = {Walk[k] : k \in 0..MaxJobs} \ {JobHead}
  BY DEF Listed
<1>a. MaxJobs \in Nat
  BY ImprimerAssumption
<1>2. \/ queue.next[JobHead] = JobHead
      \/ jobs > 0 /\ queue.next[JobHead] = jobs /\ queue.next[jobs] = JobHead
  BY DEF TypeInv, QueueInv
<1>3. \E w : w = [k \in 0..MaxJobs |-> Step(w, k)]
  <2> DEFINE w == [k \in 0..MaxJobs |-> IF k = 0 THEN queue.next[JobHead] ELSE JobHead]
  <2>1. \A k \in 0..MaxJobs : Step(w, k) = IF k = 0 THEN queue.next[JobHead] ELSE JobHead
    <3> TAKE k \in 0..MaxJobs
    <3>1. CASE k = 0
      BY <3>1
    <3>2. CASE k # 0
      <4>1. k - 1 \in 0..MaxJobs /\ w[k - 1] \in {queue.next[JobHead], JobHead}
        BY <1>a, <3>2
      <4> QED
        BY <1>2, <3>2, <4>1 DEF JobHead
    <3> QED
      BY <3>1, <3>2
  <2>2. w = [k \in 0..MaxJobs |-> Step(w, k)]
    BY <2>1
  <2> QED
    BY <2>2
<1>4. Walk = [k \in 0..MaxJobs |-> Step(Walk, k)]
  BY <1>3
<1> HIDE DEF Walk
<1>5. /\ Walk[0] = queue.next[JobHead]
      /\ \A k \in 1..MaxJobs : Walk[k] = IF Walk[k - 1] \in {JobHead, Null} THEN JobHead ELSE queue.next[Walk[k - 1]]
  BY <1>4, <1>a
<1>6. \A k \in 1..MaxJobs : Walk[k] = JobHead
  <2> DEFINE Other == {k \in 1..MaxJobs : Walk[k] # JobHead}
  <2> SUFFICES ASSUME Other # {} PROVE FALSE
    OBVIOUS
  <2>0. Other \in SUBSET Nat
    BY <1>a
  <2>1. PICK k \in Other : \A j \in Other : k <= j
    <3> HIDE DEF Other
    <3> QED
      BY <2>0, LeastIndex
  <2>2. k - 1 \notin Other /\ k \in 1..MaxJobs /\ Walk[k] # JobHead
    BY <1>a, <2>1
  <2>3. CASE k = 1
    BY <1>2, <1>5, <2>2, <2>3 DEF JobHead
  <2>4. CASE k # 1
    <3>1. Walk[k - 1] = JobHead
      BY <1>a, <2>2, <2>4
    <3> QED
      BY <1>5, <2>2, <3>1
  <2> QED
    BY <2>3, <2>4
<1>7. {Walk[k] : k \in 0..MaxJobs} \ {JobHead} = {queue.next[JobHead]} \ {JobHead}
  BY <1>5, <1>6, <1>a
<1>8. CASE queue.next[JobHead] = JobHead
  <2>1. jobs > 0 => queue.next[jobs] = Null
    BY <1>8 DEF TypeInv, QueueInv, JobHead
  <2> QED
    BY <1>1, <1>7, <1>8, <2>1
<1>9. CASE jobs > 0 /\ queue.next[JobHead] = jobs /\ queue.next[jobs] = JobHead
  BY <1>1, <1>7, <1>9 DEF JobHead, Null
<1> QED
  BY <1>2, <1>8, <1>9

(* The walk of jobs finds the newest job only, unless that one was taken,    *)
(* and never shows it the data of another job.                              *)
THEOREM NewestIsListed == Spec => []NewestListed
<1>1. TypeInv => NewestListed
  <2> SUFFICES ASSUME TypeInv PROVE NewestListed
    OBVIOUS
  <2>1. slot \in {Garbage, jobs}
    BY DEF TypeInv, QueueInv
  <2> QED
    BY <2>1, ListedJobs DEF NewestListed
<1> QED
  BY TypeInvariant, <1>1, PTL

----------------------------------------------------------------------------
(* What a search has seen *)

Running == search.pc \in {"row", "scan"}

RowsIn(rows) == {rows[i] : i \in 1..Len(rows)}

(* The rows that conversions the search has visited lead to. *)
Reached == {search.from} \cup {c[2] : c \in search.visited}

RowDone(r) == \A k \in Index : <<r, k>> \in conv => <<r, k>> \in search.visited

Scanning(r) == search.pc = "scan" /\ search.at[1] = r

(* A search visits conversions only, in rows it has reached, and notes the   *)
(* last one; of the row it scans it has visited all up to where it is.       *)
VisitedInv ==
  search # NoSearch =>
    /\ search.visited \subseteq conv /\ (search.visited # {} => last \in search.visited)
    /\ \A c \in search.visited : c[1] \in Reached
    /\ Running => /\ search.from \in Index /\ search.to # 0 /\ ~search.cut
                  /\ RowsIn(search.rows) \subseteq Reached
    /\ search.pc = "scan" =>
         /\ search.at[1] \in Reached
         /\ \A k \in Index : k <= search.at[2] /\ <<search.at[1], k>> \in conv
                               => <<search.at[1], k>> \in search.visited

(* No row is forgotten: unless one was dropped, each row the search has      *)
(* reached is done, queued, or the one it scans; and it stops at the first   *)
(* conversion to the type it looks for.                                     *)
ClosedInv ==
  search # NoSearch =>
    /\ Running => /\ \A c \in search.visited : c[2] # search.to
                  /\ search.dropped \/ \A r \in Reached : RowDone(r) \/ r \in RowsIn(search.rows) \/ Scanning(r)
    /\ search.pc = "ended" /\ search.to # 0 /\ ~search.cut /\ ~search.dropped =>
         \/ Visited /\ Found
         \/ (\A r \in Reached : RowDone(r)) /\ (\A c \in search.visited : c[2] # search.to)

(* The rows of a queue from which one is taken or to which one is added. *)
LEMMA RowsFacts ==
  ASSUME NEW s \in Seq(Index)
  PROVE  /\ s # <<>> => RowsIn(s) = {s[1]} \cup RowsIn(Tail(s))
         /\ \A x \in Index : RowsIn(Append(s, x)) = RowsIn(s) \cup {x} /\ RowsIn(<<x>>) = {x}
         /\ RowsIn(<<>>) = {}
<1>1. ASSUME s # <<>> PROVE RowsIn(s) = {s[1]} \cup RowsIn(Tail(s))
  <2>1. /\ Len(Tail(s)) = Len(s) - 1 /\ Len(s) \in Nat \ {0}
        /\ \A i \in 1..Len(Tail(s)) : Tail(s)[i] = s[i + 1]
    BY <1>1
  <2>2. ASSUME NEW i \in 1..Len(s), i # 1 PROVE i - 1 \in 1..Len(Tail(s)) /\ s[i] = Tail(s)[i - 1]
    BY <2>1, <2>2
  <2>3. \A i \in 1..Len(Tail(s)) : i + 1 \in 1..Len(s) /\ 1 \in 1..Len(s)
    BY <2>1
  <2>4. RowsIn(s) \subseteq {s[1]} \cup RowsIn(Tail(s))
    BY <2>2 DEF RowsIn
  <2>5. {s[1]} \cup RowsIn(Tail(s)) \subseteq RowsIn(s)
    BY <2>1, <2>3 DEF RowsIn
  <2> QED
    BY <2>4, <2>5
<1>2. ASSUME NEW x \in Index PROVE RowsIn(Append(s, x)) = RowsIn(s) \cup {x} /\ RowsIn(<<x>>) = {x}
  <2>1. /\ Len(Append(s, x)) = Len(s) + 1 /\ Len(s) \in Nat /\ Append(s, x)[Len(s) + 1] = x
        /\ \A i \in 1..Len(s) : Append(s, x)[i] = s[i]
    OBVIOUS
  <2>2. RowsIn(Append(s, x)) = RowsIn(s) \cup {x}
    BY <2>1 DEF RowsIn
  <2>3. RowsIn(<<x>>) = {x}
    BY DEF RowsIn
  <2> QED
    BY <2>2, <2>3
<1>3. RowsIn(<<>>) = {}
  BY DEF RowsIn
<1> QED
  BY <1>1, <1>2, <1>3

(* Once a search has begun, only its own steps change it, and none of them   *)
(* changes the conversions.                                                 *)
LEMMA SearchSteps ==
  ASSUME TypeInv, [Next]_vars, search' # NoSearch
  PROVE  /\ conv' = conv /\ types' = types /\ search' \in SearchType
         /\ \/ UNCHANGED <<search, last>>
            \/ \E n, m \in Names :
                 /\ search'.from = n /\ search'.to = m /\ ~search'.cut /\ search'.parent = [c \in Cell |-> -1]
                 /\ Idle(n, m) \/ Tested(n, m) \/ Begun(n, m)
            \/ /\ search # NoSearch /\ search \in SearchType /\ SameEnds
               /\ \/ RowEnded
                  \/ \E row \in Index : (RowSkipped(row) \/ RowCut(row) \/ RowVisited(row)) /\ search.rows # <<>>
                  \/ \E row, col \in Index : CellPassed(row, col) \/ CellVisited(row, col)
<1>a. SearchOK /\ types \in 0..MaxTypes
  BY DEF TypeInv
<1>b. search' \in SearchType
  BY SearchOKNext DEF SearchOK
<1>1. CASE VisitRow
  <2>1. /\ search \in SearchType /\ SameEnds
        /\ \E row \in Index : RowSkipped(row) \/ RowCut(row) \/ RowVisited(row)
    BY <1>a, <1>1, VisitRowFields
  <2>2. search # NoSearch /\ conv' = conv /\ types' = types /\ search.rows # <<>>
    BY <1>1, <1>a DEF VisitRow, NoSearch, SearchOK
  <2> QED
    BY <1>b, <2>1, <2>2
<1>2. CASE VisitCell
  <2>1. /\ search \in SearchType /\ SameEnds
        /\ RowEnded \/ \E row, col \in Index : CellPassed(row, col) \/ CellVisited(row, col)
    BY <1>a, <1>2, VisitCellFields
  <2>2. search # NoSearch /\ conv' = conv /\ types' = types
    BY <1>2 DEF VisitCell, NoSearch
  <2> QED
    BY <1>b, <2>1, <2>2
<1>3. ASSUME NEW n \in Names, NEW m \in Names, FindPipeline(n, m)
      PROVE  /\ conv' = conv /\ types' = types
             /\ search'.from = n /\ search'.to = m /\ ~search'.cut /\ search'.parent = [c \in Cell |-> -1]
             /\ Idle(n, m) \/ Tested(n, m) \/ Begun(n, m)
  <2>1. conv' = conv /\ types' = types
    BY <1>3 DEF FindPipeline
  <2> QED
    BY <1>a, <1>3, <2>1, FindPipelineFields
<1>4. CASE FindEnds
  BY <1>4 DEF FindEnds
<1>5. CASE UNCHANGED vars
  BY <1>b, <1>5 DEF vars
<1>6. ASSUME NEW n \in Names, NEW m \in Names,
             TypeCmd \/ PrinterCmd \/ ConversionCmd(n, m) \/ PrintCmd \/ PrintOnTooMany \/ ListCmd
             \/ TakeJob \/ IdleCmd \/ UnknownCmd \/ Leave
      PROVE  search' = NoSearch
  BY <1>6 DEF TypeCmd, PrinterCmd, ConversionCmd, PrintCmd, PrintOnTooMany, ListCmd,
     TakeJob, IdleCmd, UnknownCmd, Leave, Ready
<1>7. 0 \in Names
  BY ImprimerAssumption DEF Names
<1>8. CASE \E n, m \in Names : FindPipeline(n, m)
  BY <1>b, <1>3, <1>8
<1>9. VisitRow \/ VisitCell \/ FindEnds \/ UNCHANGED vars \/ \E n, m \in Names : FindPipeline(n, m)
  BY <1>6, <1>7 DEF Next, Search
<1> QED
  BY <1>1, <1>2, <1>4, <1>5, <1>8, <1>9


(* What is queued after a conversion to col. *)
LEMMA FollowedRows ==
  ASSUME NEW s, NEW visited, NEW p, NEW rows \in Seq(Index), NEW row, NEW col \in Index,
         Followed(s, visited, p, rows, row, col)
  PROVE  /\ RowsIn(rows) \subseteq RowsIn(s.rows) /\ RowsIn(s.rows) \subseteq RowsIn(rows) \cup {col}
         /\ ~s.dropped => ~search.dropped /\ (<<col, 0>> \in visited \/ col \in RowsIn(s.rows))
<1>1. RowsIn(Append(rows, col)) = RowsIn(rows) \cup {col}
  BY RowsFacts
<1>2. CASE s.rows = rows
  BY <1>2 DEF Followed
<1>3. CASE s.rows = Append(rows, col)
  BY <1>1, <1>3 DEF Followed
<1> QED
  BY <1>2, <1>3 DEF Followed

(* What the steps of a search visit, and what they reach by it. *)
LEMMA ReachedNext ==
  ASSUME NEW c, search'.visited = search.visited \cup {c}, search'.from = search.from
  PROVE  Reached' = Reached \cup {c[2]}
  BY DEF Reached

(* Whatever is done, a search has visited what VisitedInv says. *)
LEMMA VisitedInvNext ==
  ASSUME TypeInv, VisitedInv, [Next]_vars
  PROVE  VisitedInv'
<1> SUFFICES ASSUME search' # NoSearch PROVE VisitedInv'
  BY DEF VisitedInv
<1>a. conv' = conv /\ types' = types /\ search' \in SearchType
  BY SearchSteps
<1>b. 0 \in Index /\ Index \subseteq Nat
  BY IndexFacts
<1>1. CASE UNCHANGED <<search, last>>
  BY <1>a, <1>1 DEF VisitedInv, Reached, Running, RowsIn
<1>2. ASSUME NEW n \in Names, NEW m \in Names, search'.from = n, search'.to = m, ~search'.cut,
             Idle(n, m) \/ Tested(n, m) \/ Begun(n, m)
      PROVE  VisitedInv'
  <2>1. search'.visited \subseteq conv /\ (search'.visited # {} => last' \in search'.visited)
    BY <1>2 DEF Idle, Tested, Begun
  <2>2. \A c \in search'.visited : c[1] \in Reached'
    BY <1>2 DEF Idle, Tested, Begun, Reached
  <2>3. search'.pc # "scan" /\ (search'.pc = "row" => Begun(n, m))
    BY <1>2 DEF Idle, Tested, Begun
  <2>4. search'.pc = "row" => n \in Index /\ m # 0
    BY <2>3, IndexFacts DEF Begun, TypeInv
  <2>5. search'.pc = "row" => RowsIn(search'.rows) \subseteq Reached'
    <3> SUFFICES ASSUME Begun(n, m) PROVE RowsIn(search'.rows) \subseteq Reached'
      BY <2>3
    <3>1. n \in Index
      BY IndexFacts DEF Begun, TypeInv
    <3>2. RowsIn(search'.rows) = {n}
      <4>1. <<>> \in Seq(Index)
        OBVIOUS
      <4> QED
        BY <3>1, <4>1, RowsFacts DEF Begun
    <3> QED
      BY <1>2, <3>2 DEF Reached
  <2> QED
    BY <1>2, <1>a, <2>1, <2>2, <2>3, <2>4, <2>5 DEF VisitedInv, Running
<1>3. ASSUME RowEnded, search # NoSearch, SameEnds PROVE VisitedInv'
  BY <1>a, <1>3 DEF VisitedInv, RowEnded, SameEnds, Reached, Running, RowsIn
<1>4. ASSUME NEW row \in Index, RowSkipped(row) \/ RowCut(row) \/ RowVisited(row),
             search.rows # <<>>, search # NoSearch, search \in SearchType, SameEnds
      PROVE  VisitedInv'
  <2>1. /\ search.rows \in Seq(Index) /\ Tail(search.rows) \in Seq(Index)
        /\ row = search.rows[1] /\ search.pc = "row"
    BY <1>4 DEF SearchType, RowSkipped, RowCut, RowVisited
  <2>2. row \in Reached /\ RowsIn(Tail(search.rows)) \subseteq Reached
    <3>1. RowsIn(search.rows) = {row} \cup RowsIn(Tail(search.rows))
      BY <1>4, <2>1, RowsFacts
    <3> QED
      BY <1>4, <2>1, <3>1 DEF VisitedInv, Running
  <2>3. CASE RowSkipped(row) \/ RowCut(row)
    <3>1. /\ search'.visited = search.visited /\ Reached' = Reached /\ last' = last
          /\ search'.rows = Tail(search.rows) /\ search'.pc \in {"scan", "ended"}
      BY <1>4, <2>3 DEF RowSkipped, RowCut, SameEnds, Reached
    <3>2. search'.pc = "scan" => search'.at = <<row, 0>> /\ <<row, 0>> \notin conv /\ ~search'.cut
      BY <1>4, <2>1, <2>3 DEF RowSkipped, RowCut, VisitedInv, Running
    <3>3. search'.pc = "scan" => /\ search'.at[1] \in Reached'
                                 /\ \A k \in Index : k <= search'.at[2] => <<search'.at[1], k>> \notin conv
      <4>1. \A k \in Index : k <= 0 => k = 0
        BY <1>b
      <4> QED
        BY <2>2, <3>1, <3>2, <4>1
    <3>4. RowsIn(search'.rows) \subseteq Reached'
      BY <2>2, <3>1
    <3>5. search.from \in Index /\ search.to # 0 /\ ~search.cut
      BY <1>4, <2>1 DEF VisitedInv, Running
    <3>6. search'.pc = "scan" => ~search'.cut
      BY <3>2
    <3> QED
      BY <1>a, <1>4, <3>1, <3>3, <3>4, <3>5, <3>6 DEF VisitedInv, Running, SameEnds
  <2>4. CASE RowVisited(row)
    <3>1. /\ search'.visited = search.visited \cup {<<row, 0>>} /\ last' = <<row, 0>>
          /\ search'.pc = "scan" /\ search'.at = <<row, 0>> /\ <<row, 0>> \in conv /\ search'.cut = search.cut
      BY <2>4 DEF RowVisited
    <3>2. Reached' = Reached \cup {0}
      BY <1>4, <3>1, ReachedNext DEF SameEnds
    <3>3. RowsIn(search'.rows) \subseteq RowsIn(Tail(search.rows)) \cup {0}
      BY <1>b, <2>1, <2>4, FollowedRows DEF RowVisited
    <3>4. \A k \in Index : k <= search'.at[2] => <<search'.at[1], k>> \in search'.visited
      <4>1. \A k \in Index : k <= 0 => k = 0
        BY <1>b
      <4> QED
        BY <3>1, <4>1
    <3>5. search.from \in Index /\ search.to # 0 /\ ~search.cut
      BY <1>4, <2>1 DEF VisitedInv, Running
    <3>6. search'.visited \subseteq conv /\ \A c \in search'.visited : c[1] \in Reached'
      BY <1>4, <2>2, <3>1, <3>2 DEF VisitedInv
    <3> QED
      BY <1>a, <1>4, <2>2, <3>1, <3>2, <3>3, <3>4, <3>5, <3>6 DEF VisitedInv, Running, SameEnds
  <2> QED
    BY <1>4, <2>3, <2>4
<1>5. ASSUME NEW row \in Index, NEW col \in Index, CellPassed(row, col) \/ CellVisited(row, col),
             search # NoSearch, search \in SearchType, SameEnds
      PROVE  VisitedInv'
  <2>1. /\ search.pc = "scan" /\ row = search.at[1] /\ search'.at = <<row, col>> /\ <<row, col>> \in conv
        /\ search'.visited = search.visited \cup {<<row, col>>} /\ search'.cut = search.cut
        /\ search'.pc \in {"scan", "ended"} /\ last' \in {last, <<row, col>>}
    BY <1>5 DEF CellPassed, CellVisited
  <2>2. \A k \in Index : k <= col /\ <<row, k>> \in conv => <<row, k>> \in search'.visited
    <3> TAKE k \in Index
    <3> HAVE k <= col /\ <<row, k>> \in conv
    <3>1. search.at \in Cell /\ search.at[2] \in Index
      BY <2>1 DEF TypeInv, SearchOK, NoSearch, Cell
    <3>2. CASE k <= search.at[2]
      BY <1>5, <2>1, <3>2 DEF VisitedInv
    <3>3. CASE ~(k <= search.at[2])
      <4>a. k \in Nat /\ search.at[2] \in Nat
        BY <1>b, <3>1
      <4>b. k > search.at[2]
        BY <4>a, <3>3
      <4>0. k > search.at[2] /\ <<search.at[1], k>> \in conv
        BY <4>b, <2>1
      <4>1. k \in Adjacent(search.at)
        BY <4>0 DEF Adjacent
      <4>2. col <= k
        BY <1>5, <4>1 DEF CellPassed, CellVisited
      <4>3. k = col
        BY <1>b, <4>2
      <4> QED
        BY <2>1, <4>3
    <3> QED
      BY <3>2, <3>3
  <2>3. Reached' = Reached \cup {col}
    BY <1>5, <2>1, ReachedNext DEF SameEnds
  <2>4. RowsIn(search'.rows) \subseteq RowsIn(search.rows) \cup {col}
    <3>1. CASE CellPassed(row, col)
      BY <3>1 DEF CellPassed
    <3>2. CASE CellVisited(row, col)
      <4>1. search.rows \in Seq(Index)
        BY <1>5 DEF SearchType
      <4>2. \E p : Followed(search', search'.visited, p, search.rows, row, col)
        BY <3>2 DEF CellVisited
      <4> QED
        BY <4>1, <4>2, FollowedRows
    <3> QED
      BY <1>5, <3>1, <3>2
  <2>5. /\ search.from \in Index /\ search.to # 0 /\ ~search.cut /\ row \in Reached
        /\ RowsIn(search.rows) \subseteq Reached
    BY <1>5, <2>1 DEF VisitedInv, Running
  <2>6. last' \in search'.visited
    <3>1. CASE CellPassed(row, col)
      BY <1>5, <2>1, <3>1 DEF CellPassed, VisitedInv
    <3>2. CASE CellVisited(row, col)
      BY <2>1, <3>2 DEF CellVisited
    <3> QED
      BY <1>5, <3>1, <3>2
  <2>7. search'.visited \subseteq conv /\ \A c \in search'.visited : c[1] \in Reached'
    BY <1>5, <2>1, <2>3, <2>5 DEF VisitedInv
  <2> QED
    BY <1>a, <1>5, <2>1, <2>2, <2>3, <2>4, <2>5, <2>6, <2>7 DEF VisitedInv, Running, SameEnds
<1> QED
  BY <1>1, <1>2, <1>3, <1>4, <1>5, SearchSteps


(* A row that has ended is done. *)
LEMMA EndedRowDone ==
  ASSUME TypeInv, VisitedInv, RowEnded, search # NoSearch
  PROVE  RowDone(search.at[1])
<1>1. Index \subseteq Nat /\ search.pc = "scan"
  BY IndexFacts DEF RowEnded
<1>2. search.at \in Cell
  BY <1>1 DEF TypeInv, SearchOK, NoSearch
<1>3. search.at[2] \in Nat
  BY <1>1, <1>2 DEF Cell
<1>4. ASSUME NEW k \in Index, <<search.at[1], k>> \in conv PROVE <<search.at[1], k>> \in search.visited
  <2>1. k \in Nat /\ ~(k > search.at[2])
    <3>1. k \notin Adjacent(search.at)
      BY DEF RowEnded
    <3> QED
      BY <1>1, <1>4, <3>1 DEF Adjacent
  <2>2. k <= search.at[2]
    BY <1>3, <2>1
  <2> QED
    BY <1>1, <1>4, <2>2 DEF VisitedInv
<1> QED
  BY <1>4 DEF RowDone

(* A step of a search forgets no row. *)
LEMMA ClosedInvNext ==
  ASSUME TypeInv, VisitedInv, ClosedInv, [Next]_vars
  PROVE  ClosedInv'
<1> SUFFICES ASSUME search' # NoSearch PROVE ClosedInv'
  BY DEF ClosedInv
<1>a. conv' = conv /\ types' = types /\ search' \in SearchType
  BY SearchSteps
<1>b. 0 \in Index /\ Index \subseteq Nat
  BY IndexFacts
<1>c. ASSUME search.visited \subseteq search'.visited PROVE \A r : RowDone(r) => RowDone(r)'
  BY <1>a, <1>c DEF RowDone
<1>1. CASE UNCHANGED <<search, last>>
  BY <1>a, <1>1 DEF ClosedInv, Reached, Running, RowsIn, RowDone, Scanning, Visited, Found
<1>2. ASSUME NEW n \in Names, NEW m \in Names, search'.from = n, search'.to = m, ~search'.cut,
             Idle(n, m) \/ Tested(n, m) \/ Begun(n, m)
      PROVE  ClosedInv'
  <2>1. CASE Idle(n, m)
    <3>1. Reached' = {n} /\ search'.visited = {} /\ search'.pc = "ended"
      BY <1>2, <2>1 DEF Idle, Reached
    <3>2. RowDone(n)'
      <4>1. types \in Nat /\ n \in Nat /\ n >= types
        BY <2>1, ImprimerAssumption DEF Idle, Declared, Names, TypeInv
      <4>2. \A k : <<n, k>> \notin conv
        BY <4>1 DEF TypeInv
      <4> QED
        BY <1>a, <4>2 DEF RowDone
    <3> QED
      BY <3>1, <3>2 DEF ClosedInv, Running
  <2>2. CASE Tested(n, m)
    BY <1>2, <2>2 DEF Tested, ClosedInv, Running
  <2>3. CASE Begun(n, m)
    <3>1. Reached' = {n} /\ search'.visited = {} /\ search'.pc = "row"
      BY <1>2, <2>3 DEF Begun, Reached
    <3>2. RowsIn(search'.rows) = {n}
      <4>1. <<>> \in Seq(Index) /\ n \in Index
        BY <2>3, IndexFacts DEF Begun, TypeInv
      <4> QED
        BY <2>3, <4>1, RowsFacts DEF Begun
    <3> QED
      BY <3>1, <3>2 DEF ClosedInv, Running
  <2> QED
    BY <1>2, <2>1, <2>2, <2>3
<1>3. ASSUME RowEnded, search # NoSearch, SameEnds PROVE ClosedInv'
  <2>1. /\ search'.visited = search.visited /\ Reached' = Reached /\ search'.rows = search.rows
        /\ search'.cut = search.cut /\ search'.dropped = search.dropped /\ search.pc = "scan"
        /\ search'.pc = (IF search.rows = <<>> THEN "ended" ELSE "row") /\ search'.to = search.to
    BY <1>3 DEF RowEnded, SameEnds, Reached
  <2>2. RowDone(search.at[1])'
    BY <1>a, <1>3, <2>1, EndedRowDone DEF RowEnded, RowDone
  <2>3. \A c \in search.visited : c[2] # search.to
    BY <1>3, <2>1 DEF ClosedInv, Running
  <2>4. ~search.dropped => \A r \in Reached' : RowDone(r)' \/ r \in RowsIn(search'.rows)
    <3> HAVE ~search.dropped
    <3> TAKE r \in Reached'
    <3>1. RowDone(r) \/ r \in RowsIn(search.rows) \/ Scanning(r)
      BY <1>3, <2>1 DEF ClosedInv, Running
    <3>2. CASE Scanning(r)
      <4>1. r = search.at[1] /\ search'.at = search.at
        BY <1>3, <3>2 DEF Scanning, RowEnded
      <4> QED
        BY <2>2, <4>1 DEF RowDone
    <3> QED
      BY <1>c, <2>1, <3>1, <3>2
  <2>5. search.rows = <<>> => RowsIn(search'.rows) = {}
    <3>1. <<>> \in Seq(Index)
      OBVIOUS
    <3> QED
      BY <2>1, <3>1, RowsFacts
  <2> QED
    BY <2>1, <2>3, <2>4, <2>5 DEF ClosedInv, Running

<1>4. ASSUME NEW row \in Index, RowSkipped(row) \/ RowCut(row) \/ RowVisited(row),
             search.rows # <<>>, search # NoSearch, search \in SearchType, SameEnds
      PROVE  ClosedInv'
  <2>1. /\ search.rows \in Seq(Index) /\ Tail(search.rows) \in Seq(Index)
        /\ row = search.rows[1] /\ search.pc = "row"
    BY <1>4 DEF SearchType, RowSkipped, RowCut, RowVisited
  <2>2. RowsIn(search.rows) = {row} \cup RowsIn(Tail(search.rows))
    BY <1>4, <2>1, RowsFacts
  <2>3. /\ \A c \in search.visited : c[2] # search.to
        /\ ~search.dropped => \A r \in Reached : RowDone(r) \/ r \in RowsIn(search.rows)
    BY <1>4, <2>1 DEF ClosedInv, Running, Scanning
  <2>4. CASE RowCut(row)
    BY <2>4 DEF RowCut, ClosedInv, Running
  <2>5. CASE RowSkipped(row)
    <3>1. /\ search'.visited = search.visited /\ Reached' = Reached /\ search'.rows = Tail(search.rows)
          /\ search'.dropped = search.dropped /\ search'.pc = "scan" /\ search'.at = <<row, 0>>
          /\ search'.to = search.to
      BY <1>4, <2>5 DEF RowSkipped, SameEnds, Reached
    <3>2. Scanning(row)'
      BY <3>1 DEF Scanning
    <3> QED
      BY <1>c, <2>2, <2>3, <3>1, <3>2 DEF ClosedInv, Running
  <2>6. CASE RowVisited(row)
    <3>1. /\ search'.visited = search.visited \cup {<<row, 0>>} /\ search'.to = search.to
          /\ search'.pc = "scan" /\ search'.at = <<row, 0>>
      BY <1>4, <2>6 DEF RowVisited, SameEnds
    <3>2. Scanning(row)'
      BY <3>1 DEF Scanning
    <3>3. Reached' = Reached \cup {0}
      <4>1. search'.from = search.from /\ <<row, 0>>[2] = 0
        BY <1>4 DEF SameEnds
      <4> QED
        BY <3>1, <4>1, ReachedNext
    <3>4. /\ RowsIn(Tail(search.rows)) \subseteq RowsIn(search'.rows)
          /\ ~search'.dropped => ~search.dropped /\ (<<0, 0>> \in search'.visited \/ 0 \in RowsIn(search'.rows))
      <4>0. PICK t : t = Tail(search.rows)
        OBVIOUS
      <4>1. PICK p : Followed(search', search'.visited, p, t, row, 0)
        BY <2>6, <4>0 DEF RowVisited
      <4>2. PICK z \in Index : z = 0
        BY <1>b
      <4>3. Followed(search', search'.visited, p, t, row, z) /\ t \in Seq(Index)
        BY <2>1, <4>0, <4>1, <4>2
      <4>4. /\ RowsIn(t) \subseteq RowsIn(search'.rows)
            /\ ~search'.dropped => ~search.dropped /\ (<<z, 0>> \in search'.visited \/ z \in RowsIn(search'.rows))
        BY <4>3, FollowedRows
      <4> QED
        BY <4>0, <4>2, <4>4
    <3>5. \A c \in search'.visited : c[2] # search'.to
      BY <1>4, <2>1, <2>3, <3>1 DEF VisitedInv, Running
    <3>6. ASSUME ~search.dropped, NEW r \in Reached
          PROVE  RowDone(r)' \/ r \in RowsIn(search'.rows) \/ Scanning(r)'
      BY <1>c, <2>2, <2>3, <3>1, <3>2, <3>4, <3>6
    <3>7. ASSUME ~search'.dropped
          PROVE  RowDone(0)' \/ 0 \in RowsIn(search'.rows) \/ Scanning(0)'
      <4>1. CASE 0 \in RowsIn(search'.rows)
        BY <4>1
      <4>2. CASE <<0, 0>> = <<row, 0>>
        BY <3>2, <4>2
      <4>3. CASE <<0, 0>> \in search.visited
        <5>1. 0 \in Reached
          BY <1>4, <4>3 DEF VisitedInv
        <5> QED
          BY <3>4, <3>6, <3>7, <5>1
      <4> QED
        BY <3>1, <3>4, <3>7, <4>1, <4>2, <4>3
    <3> QED
      BY <3>1, <3>3, <3>4, <3>5, <3>6, <3>7 DEF ClosedInv, Running
  <2> QED
    BY <1>4, <2>4, <2>5, <2>6
<1>5. ASSUME NEW row \in Index, NEW col \in Index, CellPassed(row, col) \/ CellVisited(row, col),
             search # NoSearch, search \in SearchType, SameEnds
      PROVE  ClosedInv'
  <2>1. /\ search.pc = "scan" /\ row = search.at[1] /\ search'.at = <<row, col>> /\ search'.to = search.to
        /\ search'.visited = search.visited \cup {<<row, col>>} /\ search'.cut = search.cut
        /\ search'.pc = IF col = search.to THEN "ended" ELSE "scan"
    BY <1>5 DEF CellPassed, CellVisited, SameEnds
  <2>2. /\ \A c \in search.visited : c[2] # search.to
        /\ ~search.dropped => \A r \in Reached : RowDone(r) \/ r \in RowsIn(search.rows) \/ Scanning(r)
    BY <1>5, <2>1 DEF ClosedInv, Running
  <2>3. CASE col = search.to
    <3>1. CellVisited(row, col)
      BY <1>5, <2>2, <2>3 DEF CellPassed
    <3>2. last' = <<row, col>> /\ search'.visited # {}
      BY <2>1, <3>1 DEF CellVisited
    <3>3. last' # NoCell
      BY <3>2, <1>b, <1>5 DEF NoCell
    <3> QED
      BY <2>1, <2>3, <3>2, <3>3 DEF ClosedInv, Running, Visited, Found
  <2>4. CASE col # search.to
    <3>1. search'.pc = "scan" /\ \A c \in search'.visited : c[2] # search'.to
      BY <2>1, <2>2, <2>4
    <3>2. \A r : Scanning(r) => Scanning(r)'
      BY <2>1, <3>1 DEF Scanning
    <3>3. Reached' = Reached \cup {col}
      <4>1. search'.from = search.from /\ <<row, col>>[2] = col
        BY <1>5 DEF SameEnds
      <4> QED
        BY <2>1, <4>1, ReachedNext
    <3>4. CASE CellPassed(row, col)
      <4>1. Reached' = Reached /\ search'.rows = search.rows /\ search'.dropped = search.dropped
        BY <3>3, <3>4 DEF CellPassed, Reached
      <4> QED
        BY <1>c, <2>1, <2>2, <3>1, <3>2, <4>1 DEF ClosedInv, Running
    <3>5. CASE CellVisited(row, col)
      <4>1. \E p : Followed(search', search'.visited, p, search.rows, row, col)
        BY <3>5 DEF CellVisited
      <4>2. /\ RowsIn(search.rows) \subseteq RowsIn(search'.rows)
            /\ ~search'.dropped => ~search.dropped /\ (<<col, 0>> \in search'.visited \/ col \in RowsIn(search'.rows))
        <5>1. search.rows \in Seq(Index)
          BY <1>5 DEF SearchType
        <5> QED
          BY <4>1, <5>1, FollowedRows
      <4>3. ASSUME ~search.dropped, NEW r \in Reached
            PROVE  RowDone(r)' \/ r \in RowsIn(search'.rows) \/ Scanning(r)'
        BY <1>c, <2>1, <2>2, <3>2, <4>2, <4>3
      <4>4. ASSUME ~search'.dropped, <<col, 0>> \in search'.visited PROVE col \in Reached
        <5>1. col # 0
          <6>1. search.at[2] \in Nat /\ col > search.at[2]
            BY <1>b, <1>5, <2>1 DEF CellPassed, CellVisited, TypeInv, SearchOK, NoSearch, Cell
          <6> QED
            BY <1>b, <6>1
        <5>2. <<col, 0>> \in search.visited
          BY <2>1, <4>4, <5>1
        <5> QED
          BY <1>5, <5>2 DEF VisitedInv
      <4>5. ASSUME ~search'.dropped PROVE RowDone(col)' \/ col \in RowsIn(search'.rows) \/ Scanning(col)'
        BY <4>2, <4>3, <4>4, <4>5
      <4> QED
        BY <3>1, <3>3, <4>2, <4>3, <4>5 DEF ClosedInv, Running
    <3> QED
      BY <1>5, <3>4, <3>5
  <2> QED
    BY <2>3, <2>4
<1> QED
  BY <1>1, <1>2, <1>3, <1>4, <1>5, SearchSteps

(* No pipeline is missed: one that conversions make possible is found,       *)
(* unless the search was cut short, or dropped a row.                       *)
THEOREM NothingElseIsMissed == Spec => []MissedOnly
<1>1. Init => VisitedInv /\ ClosedInv
  BY DEF Init, VisitedInv, ClosedInv
<1>2. TypeInv /\ VisitedInv /\ ClosedInv /\ [Next]_vars => VisitedInv' /\ ClosedInv'
  BY VisitedInvNext, ClosedInvNext
<1>3. TypeInv /\ VisitedInv /\ ClosedInv => MissedOnly
  <2> SUFFICES ASSUME TypeInv, VisitedInv, ClosedInv, search.pc = "ended", search.from \in Index,
                      search.to \in Index \ {0, search.from}, Reachable(search.from, search.to),
                      ~search.cut, ~search.dropped, ~(Visited /\ Found)
               PROVE  FALSE
    BY DEF MissedOnly
  <2>1. search # NoSearch /\ search \in SearchType
    BY DEF NoSearch, TypeInv, SearchOK
  <2>2. (\A r \in Reached : RowDone(r)) /\ (\A c \in search.visited : c[2] # search.to)
    BY <2>1 DEF ClosedInv
  <2>3. Reached \in SUBSET Index
    BY <2>1 DEF Reached, SearchType, Cell
  <2>4. \A c \in conv : c[1] \in Reached => c[2] \in Reached
    <3> SUFFICES ASSUME NEW c \in conv, c[1] \in Reached PROVE c[2] \in Reached
      OBVIOUS
    <3>1. c = <<c[1], c[2]>> /\ c[2] \in 0..(types - 1) /\ types \in 0..MaxTypes
      BY DEF TypeInv
    <3>2. c[2] \in Index
      BY <3>1, ImprimerAssumption DEF Index
    <3>3. c \in search.visited
      BY <2>2, <3>1, <3>2 DEF RowDone
    <3> QED
      BY <3>3 DEF Reached
  <2>5. search.to \in Reached
    BY <2>3, <2>4 DEF Reachable, Reached
  <2> QED
    BY <2>2, <2>5 DEF Reached
<1> QED
  BY TypeInvariant, <1>1, <1>2, <1>3, PTL DEF Spec


----------------------------------------------------------------------------
(* Where a search has come from *)

(* A cell that was visited has as its parent the row from which a conversion *)
(* led to its own row, or none in the row the search began with; a row's     *)
(* first cell has it before the row is taken.                               *)
ParentInv ==
  search # NoSearch =>
    /\ \A c \in search.visited : IF search.parent[c] < 0 THEN c[1] = search.from
                                 ELSE <<search.parent[c], c[1]>> \in search.visited
    /\ Running =>
         /\ \A r \in Index : search.parent[<<r, 0>>] < 0 \/ <<search.parent[<<r, 0>>], r>> \in search.visited
         /\ \A r \in Reached : search.parent[<<r, 0>>] < 0 => r = search.from

(* Going back from parent to parent is no circle of cells, ... *)
CellsFounded ==
  search # NoSearch =>
    \A S \in SUBSET search.visited :
      S # {} => \E c \in S : search.parent[c] < 0 \/ <<search.parent[c], c[1]>> \notin S

(* ... and none of rows, but for a row that is its own parent. *)
RowsFounded ==
  search # NoSearch =>
    \A R \in SUBSET Index :
      R # {} => \E r \in R : \A c \in search.visited : c[1] = r => search.parent[c] \notin R \ {r}

HasVisited(r) == \E c \in search.visited : c[1] = r

(* A row with visited cells is done or being scanned: its other cells get    *)
(* the parent these have, unless it has become its own parent.              *)
ScanInv ==
  search # NoSearch =>
    /\ Running => \A r \in Index : HasVisited(r) => RowDone(r) \/ Scanning(r)
    /\ search.pc = "scan" /\ HasVisited(search.at[1]) /\ ~RowDone(search.at[1]) =>
         \E c \in search.visited : /\ c[1] = search.at[1]
                                   /\ search.parent[<<search.at[1], 0>>] \in {search.parent[c], search.at[1]}

(* A cell is visited: its parent is that of the first cell of its row, and   *)
(* its row becomes the parent of the row it leads to, unless the first cell  *)
(* of that one was visited.                                                 *)
Visits(row, col) ==
  /\ Running /\ <<row, col>> \in conv \ search.visited
  /\ search'.visited = search.visited \cup {<<row, col>>}
  /\ \A c \in search.visited : search'.parent[c] = search.parent[c]
  /\ search'.parent[<<row, col>>] = search.parent[<<row, 0>>]
  /\ \A r \in Index : r # col => search'.parent[<<r, 0>>] = search.parent[<<r, 0>>]
  /\ \/ <<col, 0>> \in search'.visited /\ search'.parent[<<col, 0>>] = search.parent[<<col, 0>>]
     \/ search'.parent[<<col, 0>>] = row

(* What following a conversion from a cell that is visited does to parents.  *)
LEMMA FollowedParents ==
  ASSUME search \in SearchType, NEW row \in Index, NEW col \in Index, <<row, col>> \notin search.visited,
         search'.visited = search.visited \cup {<<row, col>>}, NEW rows,
         Followed(search', search'.visited,
                  [search.parent EXCEPT ![<<row, col>>] = search.parent[<<row, 0>>]], rows, row, col)
  PROVE  /\ \A c \in search.visited : search'.parent[c] = search.parent[c]
         /\ search'.parent[<<row, col>>] = search.parent[<<row, 0>>]
         /\ \A r \in Index : r # col => search'.parent[<<r, 0>>] = search.parent[<<r, 0>>]
         /\ \/ <<col, 0>> \in search'.visited /\ search'.parent[<<col, 0>>] = search.parent[<<col, 0>>]
            \/ search'.parent[<<col, 0>>] = row
<1> PICK p : p = [search.parent EXCEPT ![<<row, col>>] = search.parent[<<row, 0>>]]
  OBVIOUS
<1> PICK V : V = search'.visited
  OBVIOUS
<1>1. search.parent \in [Cell -> -1..(MaxTypes - 1)] /\ search.visited \subseteq Cell
  BY DEF SearchType
<1>2. <<row, col>> \in Cell /\ <<col, 0>> \in Cell /\ \A r \in Index : <<r, 0>> \in Cell
  BY IndexFacts DEF Cell
<1>3. /\ p \in [Cell -> -1..(MaxTypes - 1)] /\ p[<<row, col>>] = search.parent[<<row, 0>>]
      /\ \A c \in Cell : c # <<row, col>> => p[c] = search.parent[c]
  BY <1>1, <1>2
<1>4. \A r \in Index : p[<<r, 0>>] = search.parent[<<r, 0>>]
  BY <1>2, <1>3
<1>5. \A c \in search.visited : p[c] = search.parent[c] /\ c \in Cell /\ c \in V
  BY <1>1, <1>3
<1>6. CASE <<col, 0>> \in V /\ search'.parent = p
  BY <1>2, <1>3, <1>4, <1>5, <1>6
<1>7. CASE <<col, 0>> \notin V /\ search'.parent = [p EXCEPT ![<<col, 0>>] = row]
  <2>1. /\ search'.parent[<<col, 0>>] = row
        /\ \A c \in Cell : c # <<col, 0>> => search'.parent[c] = p[c]
    BY <1>2, <1>3, <1>7
  <2>2. <<row, col>> # <<col, 0>>
    BY <1>7
  <2>3. \A c \in search.visited : c # <<col, 0>>
    BY <1>5, <1>7
  <2> QED
    BY <1>2, <1>3, <1>4, <1>5, <2>1, <2>2, <2>3
<1>8. \/ <<col, 0>> \in V /\ search'.parent = p
      \/ <<col, 0>> \notin V /\ search'.parent = [p EXCEPT ![<<col, 0>>] = row]
  BY DEF Followed
<1> QED
  BY <1>6, <1>7, <1>8

(* Both loops of bfs visit cells alike. *)
LEMMA VisitsNext ==
  ASSUME search \in SearchType, NEW row \in Index, NEW col \in Index,
         (RowVisited(row) /\ col = 0) \/ CellVisited(row, col)
  PROVE  Visits(row, col)
<1>1. /\ search.parent \in [Cell -> -1..(MaxTypes - 1)] /\ <<row, 0>> \in Cell
      /\ search.parent = [search.parent EXCEPT ![<<row, 0>>] = search.parent[<<row, 0>>]]
  BY IndexFacts DEF SearchType
<1>2. \E rows : Followed(search', search'.visited,
                         [search.parent EXCEPT ![<<row, col>>] = search.parent[<<row, 0>>]], rows, row, col)
  <2>1. CASE RowVisited(row) /\ col = 0
    BY <1>1, <2>1 DEF RowVisited
  <2>2. CASE CellVisited(row, col)
    BY <2>2 DEF CellVisited
  <2> QED
    BY <2>1, <2>2
<1>3. /\ Running /\ <<row, col>> \in conv \ search.visited
      /\ search'.visited = search.visited \cup {<<row, col>>}
  BY DEF RowVisited, CellVisited, Running
<1> QED
  BY <1>2, <1>3, FollowedParents DEF Visits


(* The steps of a search as they concern parents: none, ... *)
NoneVisited ==
  /\ search # NoSearch /\ search'.from = search.from /\ (Running' => Running)
  /\ search'.visited = search.visited /\ search'.parent = search.parent

(* ... the first, ... *)
FirstVisited ==
  /\ search'.visited \subseteq {<<search'.from, 0>>} /\ (Running' => search'.visited = {})
  /\ search'.parent = [c \in Cell |-> -1] /\ search'.pc # "scan"

(* ... and a visit, in a row that is taken or scanned. *)
OneVisited(row, col) ==
  /\ search # NoSearch /\ search'.from = search.from /\ row \in Reached
  /\ search.pc = "row" \/ Scanning(row)
  /\ search'.pc = "scan" => search'.at[1] = row
  /\ Visits(row, col)

(* Every step of a search is one of these. *)
LEMMA PathSteps ==
  ASSUME TypeInv, VisitedInv, [Next]_vars, search' # NoSearch
  PROVE  /\ conv' = conv /\ search' \in SearchType
         /\ \/ NoneVisited
            \/ FirstVisited
            \/ search \in SearchType /\ \E row, col \in Index : OneVisited(row, col)
<1>a. conv' = conv /\ search' \in SearchType
  BY SearchSteps
<1>b. 0 \in Index
  BY IndexFacts
<1>1. CASE UNCHANGED <<search, last>>
  BY <1>a, <1>1 DEF NoneVisited, Running
<1>2. ASSUME NEW n \in Names, NEW m \in Names, search'.from = n, search'.to = m, search'.parent = [c \in Cell |-> -1],
             Idle(n, m) \/ Tested(n, m) \/ Begun(n, m)
      PROVE  FirstVisited
  BY <1>2 DEF Idle, Tested, Begun, FirstVisited, Running
<1>3. ASSUME RowEnded, search # NoSearch, SameEnds PROVE NoneVisited
  BY <1>3 DEF RowEnded, SameEnds, NoneVisited, Running
<1>4. ASSUME NEW row \in Index, RowSkipped(row) \/ RowCut(row) \/ RowVisited(row),
             search.rows # <<>>, search # NoSearch, search \in SearchType, SameEnds
      PROVE  NoneVisited \/ OneVisited(row, 0)
  <2>1. CASE RowSkipped(row) \/ RowCut(row)
    BY <1>4, <2>1 DEF RowSkipped, RowCut, SameEnds, NoneVisited, Running
  <2>2. CASE RowVisited(row)
    <3>1. Visits(row, 0)
      BY <1>b, <1>4, <2>2, VisitsNext
    <3>2. row \in Reached
      <4>1. /\ search.rows \in Seq(Index) /\ row = search.rows[1] /\ search.pc = "row"
        BY <1>4, <2>2 DEF SearchType, RowVisited
      <4>2. row \in RowsIn(search.rows)
        BY <1>4, <4>1, RowsFacts
      <4> QED
        BY <1>4, <4>1, <4>2 DEF VisitedInv, Running
    <3> QED
      BY <1>4, <2>2, <3>1, <3>2 DEF RowVisited, OneVisited, SameEnds
  <2> QED
    BY <1>4, <2>1, <2>2
<1>5. ASSUME NEW row \in Index, NEW col \in Index, CellPassed(row, col) \/ CellVisited(row, col),
             search # NoSearch, search \in SearchType, SameEnds
      PROVE  NoneVisited \/ OneVisited(row, col)
  <2>1. CASE CellPassed(row, col)
    BY <1>5, <2>1 DEF CellPassed, SameEnds, NoneVisited, Running
  <2>2. CASE CellVisited(row, col)
    <3>1. Visits(row, col)
      BY <1>5, <2>2, VisitsNext
    <3>2. row \in Reached /\ Scanning(row)
      BY <1>5, <2>2 DEF CellVisited, VisitedInv, Scanning
    <3> QED
      BY <1>5, <2>2, <3>1, <3>2 DEF CellVisited, OneVisited, SameEnds
  <2> QED
    BY <1>5, <2>1, <2>2
<1>6. CASE \E n, m \in Names :
             /\ search'.from = n /\ search'.to = m /\ ~search'.cut /\ search'.parent = [c \in Cell |-> -1]
             /\ Idle(n, m) \/ Tested(n, m) \/ Begun(n, m)
  BY <1>a, <1>2, <1>6
<1>7. CASE /\ search # NoSearch /\ search \in SearchType /\ SameEnds
           /\ \/ RowEnded
              \/ \E row \in Index : (RowSkipped(row) \/ RowCut(row) \/ RowVisited(row)) /\ search.rows # <<>>
              \/ \E row, col \in Index : CellPassed(row, col) \/ CellVisited(row, col)
  BY <1>a, <1>b, <1>3, <1>4, <1>5, <1>7
<1> QED
  BY <1>1, <1>6, <1>7, SearchSteps

(* Parents stay what ParentInv says. *)
LEMMA ParentInvNext ==
  ASSUME TypeInv, VisitedInv, ParentInv, [Next]_vars
  PROVE  ParentInv'
<1> SUFFICES ASSUME search' # NoSearch PROVE ParentInv'
  BY DEF ParentInv
<1>b. 0 \in Index /\ Index \subseteq Nat /\ \A r \in Index : <<r, 0>> \in Cell
  BY IndexFacts
<1>1. CASE NoneVisited
  BY <1>1 DEF NoneVisited, ParentInv, Reached
<1>2. CASE FirstVisited
  <2>1. search' \in SearchType
    BY PathSteps
  <2>2. \A c \in Cell : search'.parent[c] = -1 /\ search'.parent[c] < 0
    BY <1>2 DEF FirstVisited
  <2>3. \A c \in search'.visited : c[1] = search'.from /\ c \in Cell
    BY <1>2, <2>1 DEF FirstVisited, SearchType
  <2>4. Running' => Reached' = {search'.from}
    BY <1>2 DEF FirstVisited, Reached
  <2> QED
    BY <1>b, <2>2, <2>3, <2>4 DEF ParentInv
<1>3. ASSUME NEW row \in Index, NEW col \in Index, OneVisited(row, col), search \in SearchType PROVE ParentInv'
  <2>1. /\ search # NoSearch /\ search'.from = search.from /\ row \in Reached /\ Running
        /\ search'.visited = search.visited \cup {<<row, col>>} /\ <<row, col>> \notin search.visited
        /\ \A c \in search.visited : search'.parent[c] = search.parent[c]
        /\ search'.parent[<<row, col>>] = search.parent[<<row, 0>>]
    BY <1>3 DEF OneVisited, Visits
  <2>2. /\ \A r \in Index : r # col => search'.parent[<<r, 0>>] = search.parent[<<r, 0>>]
        /\ \/ <<col, 0>> \in search'.visited /\ search'.parent[<<col, 0>>] = search.parent[<<col, 0>>]
           \/ search'.parent[<<col, 0>>] = row
    BY <1>3 DEF OneVisited, Visits
  <2>3. /\ \A r \in Index : search.parent[<<r, 0>>] < 0 \/ <<search.parent[<<r, 0>>], r>> \in search.visited
        /\ \A r \in Reached : search.parent[<<r, 0>>] < 0 => r = search.from
    BY <2>1 DEF ParentInv
  <2>4. Reached' = Reached \cup {col}
    BY <2>1 DEF Reached
  <2>5. ASSUME NEW c \in search'.visited
        PROVE  IF search'.parent[c] < 0 THEN c[1] = search'.from ELSE <<search'.parent[c], c[1]>> \in search'.visited
    <3>1. CASE c \in search.visited
      BY <2>1, <3>1 DEF ParentInv
    <3>2. CASE c = <<row, col>>
      <4>1. c[1] = row /\ search'.parent[c] = search.parent[<<row, 0>>]
        BY <2>1, <3>2
      <4> QED
        BY <2>1, <2>3, <4>1
    <3> QED
      BY <2>1, <3>1, <3>2
  <2>6. ~(row < 0) /\ <<row, col>> \in search'.visited
    BY <1>b, <2>1
  <2>7. ASSUME NEW r \in Index PROVE search'.parent[<<r, 0>>] < 0 \/ <<search'.parent[<<r, 0>>], r>> \in search'.visited
    <3>1. CASE search'.parent[<<r, 0>>] = search.parent[<<r, 0>>]
      BY <2>1, <2>3, <3>1
    <3>2. CASE r = col /\ search'.parent[<<r, 0>>] = row
      BY <2>6, <3>2
    <3> QED
      BY <2>2, <3>1, <3>2
  <2>8. ASSUME NEW r \in Reached', search'.parent[<<r, 0>>] < 0 PROVE r = search'.from
    <3>1. r \in Index
      BY <1>3, <2>4 DEF SearchType, Reached, Cell, VisitedInv, OneVisited, Visits
    <3>2. search'.parent[<<r, 0>>] = search.parent[<<r, 0>>] /\ (r = col => <<col, 0>> \in search'.visited)
      BY <2>2, <2>6, <2>8, <3>1
    <3>3. r \in Reached
      <4>1. CASE r \in Reached
        BY <4>1
      <4>2. CASE r = col
        <5>1. <<col, 0>> \in search.visited \/ <<col, 0>> = <<row, col>>
          BY <2>1, <3>2, <4>2
        <5> QED
          BY <2>1, <4>2, <5>1 DEF VisitedInv
      <4> QED
        BY <2>4, <4>1, <4>2
    <3> QED
      BY <2>1, <2>3, <2>8, <3>2, <3>3
  <2> QED
    BY <2>5, <2>7, <2>8 DEF ParentInv
<1> QED
  BY <1>1, <1>2, <1>3, PathSteps


(* A new cell is nobody's parent yet, so it closes no circle. *)
LEMMA CellsFoundedNext ==
  ASSUME TypeInv, VisitedInv, ParentInv, CellsFounded, [Next]_vars
  PROVE  CellsFounded'
<1> SUFFICES ASSUME search' # NoSearch PROVE CellsFounded'
  BY DEF CellsFounded
<1>1. CASE NoneVisited
  BY <1>1 DEF NoneVisited, CellsFounded
<1>2. CASE FirstVisited
  <2>1. \A c \in search'.visited : search'.parent[c] < 0
    <3>1. search' \in SearchType
      BY PathSteps
    <3>2. \A c \in search'.visited : c \in Cell
      BY <3>1 DEF SearchType
    <3> QED
      BY <1>2, <3>2 DEF FirstVisited
  <2> QED
    BY <2>1 DEF CellsFounded
<1>3. ASSUME NEW row \in Index, NEW col \in Index, OneVisited(row, col) PROVE CellsFounded'
  <2> PICK new : new = <<row, col>>
    OBVIOUS
  <2> PICK V : V = search.visited
    OBVIOUS
  <2>1. /\ search # NoSearch /\ new \notin V /\ search'.visited = V \cup {new}
        /\ \A c \in V : search'.parent[c] = search.parent[c]
    BY <1>3 DEF OneVisited, Visits
  <2>2. search'.parent[new] < 0 \/ <<search'.parent[new], row>> \in V
    BY <1>3 DEF OneVisited, Visits, ParentInv
  <2>3. \A c \in V : search.parent[c] < 0 \/ <<search.parent[c], c[1]>> \in V
    BY <2>1 DEF ParentInv
  <2>4. ASSUME NEW S \in SUBSET (V \cup {new}), S # {}
        PROVE  \E c \in S : search'.parent[c] < 0 \/ <<search'.parent[c], c[1]>> \notin S
    <3>1. CASE S = {new}
      BY <2>1, <2>2, <3>1
    <3>2. CASE S # {new}
      <4> PICK T : T = S \ {new}
        OBVIOUS
      <4>1. T \in SUBSET V /\ T # {}
        BY <2>4, <3>2
      <4>2. PICK c \in T : search.parent[c] < 0 \/ <<search.parent[c], c[1]>> \notin T
        BY <2>1, <4>1 DEF CellsFounded
      <4>3. c \in V /\ c \in S /\ search'.parent[c] = search.parent[c]
        BY <2>1, <4>1
      <4>4. search.parent[c] < 0 \/ <<search.parent[c], c[1]>> \notin S
        BY <2>1, <2>3, <4>2, <4>3
      <4> QED
        BY <4>3, <4>4
    <3> QED
      BY <3>1, <3>2
  <2> QED
    BY <2>1, <2>4 DEF CellsFounded
<1> QED
  BY <1>1, <1>2, <1>3, PathSteps

(* A row in which nothing was visited is nobody's parent; a row that is      *)
(* scanned gives its new cells a parent it has already, or itself.          *)
LEMMA RowsFoundedNext ==
  ASSUME TypeInv, VisitedInv, ParentInv, RowsFounded, ScanInv, [Next]_vars
  PROVE  RowsFounded'
<1> SUFFICES ASSUME search' # NoSearch PROVE RowsFounded'
  BY DEF RowsFounded
<1>1. CASE NoneVisited
  BY <1>1 DEF NoneVisited, RowsFounded
<1>2. CASE FirstVisited
  <2>1. \A c \in search'.visited : search'.parent[c] = -1
    <3>1. search' \in SearchType
      BY PathSteps
    <3>2. \A c \in search'.visited : c \in Cell
      BY <3>1 DEF SearchType
    <3> QED
      BY <1>2, <3>2 DEF FirstVisited
  <2>2. -1 \notin Index
    BY DEF Index
  <2> QED
    BY <2>1, <2>2 DEF RowsFounded
<1>3. ASSUME NEW row \in Index, NEW col \in Index, OneVisited(row, col), search \in SearchType PROVE RowsFounded'
  <2> PICK new : new = <<row, col>>
    OBVIOUS
  <2> PICK V : V = search.visited
    OBVIOUS
  <2> PICK q : q = search.parent[<<row, 0>>]
    OBVIOUS
  <2>1. /\ search # NoSearch /\ new \notin V /\ search'.visited = V \cup {new} /\ new[1] = row /\ Running
        /\ \A c \in V : search'.parent[c] = search.parent[c]
        /\ search'.parent[new] = q
    BY <1>3 DEF OneVisited, Visits
  <2>2. HasVisited(row) => \E c \in V : c[1] = row /\ q \in {search.parent[c], row}
    <3> HAVE HasVisited(row)
    <3>1. ~RowDone(row)
      BY <1>3 DEF RowDone, OneVisited, Visits
    <3>2. Scanning(row)
      BY <2>1, <3>1 DEF ScanInv
    <3> QED
      BY <2>1, <3>1, <3>2 DEF ScanInv, Scanning
  <2>3. ~HasVisited(row) => \A c \in V : c[1] # row /\ search.parent[c] # row
    <3> SUFFICES ASSUME ~HasVisited(row), NEW c \in V PROVE c[1] # row /\ search.parent[c] # row
      OBVIOUS
    <3>1. search.parent[c] < 0 \/ <<search.parent[c], c[1]>> \in V
      BY <2>1 DEF ParentInv
    <3>2. ~(row < 0)
      BY IndexFacts
    <3> QED
      BY <3>1, <3>2 DEF HasVisited
  <2>4. ASSUME NEW R \in SUBSET Index, R # {}
        PROVE  \E r \in R : \A c \in V \cup {new} : c[1] = r => search'.parent[c] \notin R \ {r}
    <3>1. CASE HasVisited(row)
      <4>1. PICK r \in R : \A c \in V : c[1] = r => search.parent[c] \notin R \ {r}
        BY <2>1, <2>4 DEF RowsFounded
      <4>2. new[1] = r => q \notin R \ {r}
        BY <2>1, <2>2, <3>1, <4>1
      <4> QED
        BY <2>1, <4>1, <4>2
    <3>2. CASE ~HasVisited(row) /\ R = {row}
      BY <2>4, <3>2
    <3>3. CASE ~HasVisited(row) /\ R # {row}
      <4> PICK T : T = R \ {row}
        OBVIOUS
      <4>1. T \in SUBSET Index /\ T # {}
        BY <2>4, <3>3
      <4>2. PICK r \in T : \A c \in V : c[1] = r => search.parent[c] \notin T \ {r}
        BY <2>1, <4>1 DEF RowsFounded
      <4>3. r \in R /\ r # row
        OBVIOUS
      <4>4. \A c \in V : c[1] = r => search.parent[c] \notin R \ {r}
        BY <2>3, <3>3, <4>2
      <4> QED
        BY <2>1, <4>3, <4>4
    <3> QED
      BY <3>1, <3>2, <3>3
  <2> QED
    BY <2>1, <2>4 DEF RowsFounded
<1> QED
  BY <1>1, <1>2, <1>3, PathSteps

(* A row is left only when it is done, and taken again only then. *)
LEMMA ScanInvNext ==
  ASSUME TypeInv, VisitedInv, ScanInv, [Next]_vars
  PROVE  ScanInv'
<1> SUFFICES ASSUME search' # NoSearch PROVE ScanInv'
  BY DEF ScanInv
<1>a. conv' = conv /\ search' \in SearchType
  BY SearchSteps
<1>b. 0 \in Index /\ \A r \in Index : <<r, 0>> \in Cell
  BY IndexFacts
<1>c. ASSUME search.visited \subseteq search'.visited PROVE \A r : RowDone(r) => RowDone(r)'
  BY <1>a, <1>c DEF RowDone
<1>1. CASE UNCHANGED <<search, last>>
  BY <1>a, <1>1 DEF ScanInv, HasVisited, RowDone, Scanning, Running
<1>2. CASE FirstVisited
  BY <1>2 DEF FirstVisited, ScanInv, HasVisited
<1>3. ASSUME RowEnded, search # NoSearch, SameEnds PROVE ScanInv'
  <2>1. RowDone(search.at[1])
    BY <1>3, EndedRowDone
  <2>2. search'.visited = search.visited /\ search.pc = "scan" /\ search'.pc # "scan"
    BY <1>3 DEF RowEnded
  <2>3. \A r \in Index : HasVisited(r) => RowDone(r) \/ Scanning(r)
    BY <1>3, <2>2 DEF ScanInv, Running
  <2>4. \A r \in Index : HasVisited(r)' => RowDone(r)'
    BY <1>c, <2>1, <2>2, <2>3 DEF HasVisited, Scanning
  <2> QED
    BY <2>2, <2>4 DEF ScanInv
<1>4. ASSUME NEW row \in Index, RowSkipped(row), search # NoSearch PROVE ScanInv'
  <2>1. search'.visited = search.visited /\ search.pc = "row" /\ search'.at[1] = row
    BY <1>4 DEF RowSkipped
  <2>2. \A r \in Index : HasVisited(r) => RowDone(r)
    BY <1>4, <2>1 DEF ScanInv, Running, Scanning
  <2>3. \A r \in Index : HasVisited(r)' => RowDone(r)'
    BY <1>c, <2>1, <2>2 DEF HasVisited
  <2> QED
    BY <2>1, <2>3 DEF ScanInv
<1>5. ASSUME NEW row \in Index, RowCut(row) PROVE ScanInv'
  BY <1>5 DEF RowCut, ScanInv, Running
<1>6. ASSUME NEW row \in Index, NEW col \in Index, CellPassed(row, col), search # NoSearch PROVE ScanInv'
  <2>1. /\ search'.visited = search.visited /\ search'.parent = search.parent /\ search.pc = "scan"
        /\ search'.at[1] = search.at[1] /\ search'.pc \in {"scan", "ended"}
    BY <1>6 DEF CellPassed
  <2> QED
    BY <1>a, <1>6, <2>1 DEF ScanInv, HasVisited, RowDone, Scanning, Running
<1>7. ASSUME NEW row \in Index, NEW col \in Index, (RowVisited(row) /\ col = 0) \/ CellVisited(row, col),
             search # NoSearch, search \in SearchType
      PROVE  ScanInv'
  <2>1. Visits(row, col)
    BY <1>7, VisitsNext
  <2>2. search'.at[1] = row /\ search'.pc \in {"scan", "ended"} /\ (search.pc = "row" \/ Scanning(row))
    BY <1>7 DEF RowVisited, CellVisited, Scanning
  <2>3. /\ search'.visited = search.visited \cup {<<row, col>>} /\ Running
        /\ search'.parent[<<row, col>>] = search.parent[<<row, 0>>]
        /\ search'.parent[<<row, 0>>] \in {search.parent[<<row, 0>>], row}
    BY <1>7, <2>1 DEF Visits
  <2>4. Running' => \A r \in Index : HasVisited(r)' => RowDone(r)' \/ Scanning(r)'
    <3> SUFFICES ASSUME Running', NEW r \in Index, HasVisited(r)' PROVE RowDone(r)' \/ Scanning(r)'
      OBVIOUS
    <3>1. CASE r = row
      BY <2>2, <3>1 DEF Running, Scanning
    <3>2. CASE r # row
      <4>1. HasVisited(r) /\ ~Scanning(r)
        BY <2>2, <2>3, <3>2 DEF HasVisited, Scanning
      <4>2. RowDone(r)
        BY <1>7, <2>3, <4>1 DEF ScanInv
      <4> QED
        BY <1>c, <2>3, <4>2
    <3> QED
      BY <3>1, <3>2
  <2>5. \E c \in search'.visited : c[1] = row /\ search'.parent[<<row, 0>>] \in {search'.parent[c], row}
    BY <2>3
  <2> QED
    BY <2>2, <2>4, <2>5 DEF ScanInv
<1>8. CASE \E n, m \in Names :
             /\ search'.from = n /\ search'.to = m /\ ~search'.cut /\ search'.parent = [c \in Cell |-> -1]
             /\ Idle(n, m) \/ Tested(n, m) \/ Begun(n, m)
  <2>1. FirstVisited
    BY <1>8 DEF Idle, Tested, Begun, FirstVisited, Running
  <2> QED
    BY <1>2, <2>1
<1>9. CASE /\ search # NoSearch /\ search \in SearchType /\ SameEnds
           /\ \/ RowEnded
              \/ \E row \in Index : (RowSkipped(row) \/ RowCut(row) \/ RowVisited(row)) /\ search.rows # <<>>
              \/ \E row, col \in Index : CellPassed(row, col) \/ CellVisited(row, col)
  BY <1>b, <1>3, <1>4, <1>5, <1>6, <1>7, <1>9
<1> QED
  BY <1>1, <1>8, <1>9, SearchSteps


----------------------------------------------------------------------------
(* The pipeline that is found *)

(* getConversionSteps writes a cell, and then the one its parent leads to.   *)
Before(c) == IF search.parent[c] < 0 THEN c ELSE <<search.parent[c], c[1]>>

(* The steps it writes are cells the search has visited. *)
LEMMA BackSteps ==
  ASSUME TypeInv, VisitedInv, ParentInv, search # NoSearch, search.visited # {},
         NEW last0 \in Nat, last0 = MaxTypes * MaxTypes
  PROVE  /\ DOMAIN PipelineBack = 0..last0 /\ PipelineBack[0] = last
         /\ \A k \in 0..last0 : PipelineBack[k] \in search.visited
         /\ \A k \in 1..last0 : PipelineBack[k] = Before(PipelineBack[k - 1])
<1> DEFINE V == search.visited
           Step(b, k) == IF k = 0 THEN last ELSE Before(b[k - 1])
           Back == CHOOSE b : b = [k \in 0..last0 |-> Step(b, k)]
           Begins(n) == \E f \in [0..n -> V] : f[0] = last /\ \A k \in 1..n : f[k] = Before(f[k - 1])
<1>1. PipelineBack = Back
  BY DEF PipelineBack, Before
<1>2. last \in V /\ \A c \in V : Before(c) \in V
  BY DEF VisitedInv, ParentInv, Before
<1>3. \A n \in Nat : Begins(n)
  <2>1. Begins(0)
    <3>1. PICK f : f = [k \in 0..0 |-> last]
      OBVIOUS
    <3>2. f \in [0..0 -> V] /\ f[0] = last
      BY <1>2, <3>1
    <3>3. \A k \in 1..0 : f[k] = Before(f[k - 1])
      OBVIOUS
    <3> QED
      BY <3>2, <3>3
  <2>2. ASSUME NEW n \in Nat, Begins(n) PROVE Begins(n + 1)
    <3>1. PICK f \in [0..n -> V] : f[0] = last /\ \A k \in 1..n : f[k] = Before(f[k - 1])
      BY <2>2
    <3> DEFINE g == [k \in 0..(n + 1) |-> IF k = n + 1 THEN Before(f[n]) ELSE f[k]]
    <3>2. \A k \in 0..n : k \in 0..(n + 1) /\ k # n + 1 /\ f[k] \in V
      OBVIOUS
    <3>3. g \in [0..(n + 1) -> V]
      <4>1. n \in 0..n /\ Before(f[n]) \in V
        BY <1>2, <3>2
      <4>2. \A k \in 0..(n + 1) : k # n + 1 => k \in 0..n
        OBVIOUS
      <4> QED
        BY <3>2, <4>1, <4>2
    <3>4. g[0] = last
      BY <3>1
    <3>5. \A k \in 1..(n + 1) : g[k] = Before(g[k - 1])
      <4> TAKE k \in 1..(n + 1)
      <4>1. k - 1 \in 0..n /\ g[k - 1] = f[k - 1]
        BY <3>2
      <4>2. CASE k = n + 1
        <5>1. k - 1 = n /\ g[k] = Before(f[n])
          BY <4>2
        <5> QED
          BY <4>1, <5>1
      <4>3. CASE k # n + 1
        <5>1. k \in 1..n /\ g[k] = f[k]
          BY <4>3
        <5> QED
          BY <3>1, <4>1, <5>1
      <4> QED
        BY <4>2, <4>3
    <3> HIDE DEF g
    <3> QED
      BY <3>3, <3>4, <3>5
  <2> HIDE DEF Begins
  <2>3. ASSUME NEW S \in SUBSET Nat, S = {n \in Nat : ~Begins(n)}, S # {} PROVE FALSE
    <3>1. PICK n \in S : \A x \in S : n <= x
      BY <2>3, LeastIndex
    <3>2. n # 0 /\ n \in Nat /\ ~Begins(n)
      BY <2>1, <2>3
    <3>3. n - 1 \in Nat /\ n - 1 \notin S
      BY <3>1, <3>2
    <3>4. Begins(n - 1)
      BY <2>3, <3>3
    <3>5. Begins((n - 1) + 1)
      BY <2>2, <3>3, <3>4
    <3>6. (n - 1) + 1 = n
      BY <3>2
    <3> QED
      BY <3>2, <3>5, <3>6
  <2> QED
    BY <2>3
<1>4. Back = [k \in 0..last0 |-> Step(Back, k)]
  <2>1. PICK f \in [0..last0 -> V] : f[0] = last /\ \A k \in 1..last0 : f[k] = Before(f[k - 1])
    BY <1>3
  <2>2. \A k \in 0..last0 : f[k] = Step(f, k)
    <3> TAKE k \in 0..last0
    <3>1. CASE k = 0
      BY <2>1, <3>1
    <3>2. CASE k # 0
      <4>1. k \in 1..last0
        BY <3>2
      <4> QED
        BY <2>1, <3>2, <4>1
    <3> QED
      BY <3>1, <3>2
  <2>3. f = [k \in 0..last0 |-> Step(f, k)]
    BY <2>2
  <2> QED
    BY <2>3
<1> HIDE DEF Back
<1>5. /\ DOMAIN Back = 0..last0 /\ Back[0] = last
      /\ \A k \in 1..last0 : Back[k] = Before(Back[k - 1])
  BY <1>4
<1>6. \A k \in 0..last0 : Back[k] \in V
  <2> DEFINE Out == {k \in 0..last0 : Back[k] \notin V}
  <2> SUFFICES ASSUME Out # {} PROVE FALSE
    OBVIOUS
  <2>1. Out \in SUBSET Nat
    OBVIOUS
  <2>2. PICK k \in Out : \A x \in Out : k <= x
    <3> HIDE DEF Out
    <3> QED
      BY <2>1, LeastIndex
  <2>3. k \in 0..last0 /\ k # 0
    BY <1>2, <1>5
  <2>4. k - 1 \in 0..last0 /\ k - 1 \notin Out /\ k \in 1..last0
    BY <2>2, <2>3
  <2>5. Back[k - 1] \in V
    BY <2>4
  <2> QED
    BY <1>2, <1>5, <2>4, <2>5
<1> QED
  BY <1>1, <1>5, <1>6


(* There are as many rows as types, and their cells are the pairs of them.   *)
LEMMA IndexCardinality ==
  /\ IsFiniteSet(Index) /\ Cardinality(Index) = MaxTypes
  /\ IsFiniteSet(Cell) /\ Cardinality(Cell) = MaxTypes * MaxTypes
<1>1. MaxTypes \in Nat \ {0}
  BY ImprimerAssumption
<1>2. IsFiniteSet(Index) /\ Cardinality(Index) = MaxTypes
  <2>1. /\ IsFiniteSet(0..(MaxTypes - 1))
        /\ Cardinality(0..(MaxTypes - 1)) = IF 0 > MaxTypes - 1 THEN 0 ELSE MaxTypes - 1 - 0 + 1
    BY <1>1, FS_Interval
  <2> QED
    BY <1>1, <2>1 DEF Index
<1> QED
  BY <1>2, FS_Product DEF Cell

(* Of more steps than there are things to step on, two are on the same.      *)
LEMMA Repeated ==
  ASSUME NEW n \in Nat, NEW T, IsFiniteSet(T), Cardinality(T) <= n, NEW f \in [0..n -> T]
  PROVE  \E j, k \in 0..n : j < k /\ f[j] = f[k]
<1>1. IsFiniteSet(0..n) /\ Cardinality(0..n) = n + 1
  BY FS_Interval
<1>2. Cardinality(T) \in Nat
  BY FS_CardinalityType
<1>3. PICK x, y \in 0..n : x # y /\ f[x] = f[y]
  BY <1>1, <1>2, FS_PigeonHole
<1>4. x < y \/ y < x
  BY <1>3
<1> QED
  BY <1>3, <1>4

(* Going back leads to a cell without a parent. *)
LEMMA BackEnds ==
  ASSUME TypeInv, VisitedInv, ParentInv, CellsFounded, search # NoSearch, search.visited # {},
         NEW last0 \in Nat, last0 = MaxTypes * MaxTypes
  PROVE  \E d \in 0..last0 : search.parent[PipelineBack[d]] < 0
<1> PICK b : b = PipelineBack
  OBVIOUS
<1>1. /\ DOMAIN b = 0..last0
      /\ \A k \in 0..last0 : b[k] \in search.visited
      /\ \A k \in 1..last0 : b[k] = Before(b[k - 1])
  BY BackSteps
<1> SUFFICES ASSUME \A d \in 0..last0 : ~(search.parent[b[d]] < 0) PROVE FALSE
  OBVIOUS
<1>2. PICK j, k \in 0..last0 : j < k /\ b[j] = b[k]
  <2>1. search \in SearchType
    BY DEF TypeInv, SearchOK
  <2>2. PICK f : f = [i \in 0..last0 |-> b[i]]
    OBVIOUS
  <2>3. f \in [0..last0 -> Cell]
    BY <1>1, <2>1, <2>2 DEF SearchType
  <2>4. \E x, y \in 0..last0 : x < y /\ f[x] = f[y]
    BY <2>3, IndexCardinality, Repeated
  <2> QED
    BY <2>2, <2>4
<1> PICK S : S = {b[i] : i \in j..(k - 1)}
  OBVIOUS
<1>3. /\ \A i \in j..(k - 1) : i \in 0..last0 /\ b[i] \in S /\ i + 1 \in 1..last0
      /\ j \in j..(k - 1)
  BY <1>2
<1>4. S \in SUBSET search.visited /\ S # {}
  BY <1>1, <1>3
<1>5. PICK c \in S : search.parent[c] < 0 \/ <<search.parent[c], c[1]>> \notin S
  BY <1>4 DEF CellsFounded
<1>6. PICK i \in j..(k - 1) : c = b[i]
  BY <1>5
<1>7. b[i + 1] = <<search.parent[c], c[1]>> /\ ~(search.parent[c] < 0)
  <2>1. i + 1 \in 1..last0 /\ (i + 1) - 1 = i /\ i \in 0..last0
    BY <1>2, <1>3
  <2>2. b[i + 1] = Before(b[i])
    BY <1>1, <2>1
  <2> QED
    BY <1>6, <2>1, <2>2 DEF Before
<1>8. b[i + 1] \in S
  <2>1. CASE i + 1 = k
    BY <1>2, <1>3, <2>1
  <2>2. CASE i + 1 # k
    <3>1. i + 1 \in j..(k - 1)
      BY <1>2, <2>2
    <3> QED
      BY <1>3, <3>1
  <2> QED
    BY <2>1, <2>2
<1> QED
  BY <1>5, <1>7, <1>8

(* The way back is shorter than the number of types, unless a conversion of  *)
(* a type to itself is on it.                                               *)
LEMMA BackIsShort ==
  ASSUME TypeInv, RowsFounded, search # NoSearch, NEW d \in Nat, NEW b,
         \A k \in 0..d : b[k] \in search.visited,
         \A k \in 1..d : b[k] = <<search.parent[b[k - 1]], b[k - 1][1]>>
  PROVE  d < MaxTypes \/ \E k \in 0..d : b[k][1] = b[k][2]
<1> SUFFICES ASSUME ~(d < MaxTypes), \A k \in 0..d : b[k][1] # b[k][2] PROVE FALSE
  OBVIOUS
<1>1. search \in SearchType /\ MaxTypes \in Nat
  BY ImprimerAssumption DEF TypeInv, SearchOK
<1>2. \A k \in 0..d : b[k][1] \in Index
  BY <1>1 DEF SearchType, Cell
<1>3. PICK j, k \in 0..d : j < k /\ b[j][1] = b[k][1]
  <2>1. PICK f : f = [i \in 0..d |-> b[i][1]]
    OBVIOUS
  <2>2. f \in [0..d -> Index]
    BY <1>2, <2>1
  <2>3. IsFiniteSet(Index) /\ Cardinality(Index) <= d
    BY <1>1, IndexCardinality
  <2>4. \E x, y \in 0..d : x < y /\ f[x] = f[y]
    BY <2>2, <2>3, Repeated
  <2> QED
    BY <2>1, <2>4
<1> PICK R : R = {b[i][1] : i \in j..(k - 1)}
  OBVIOUS
<1>4. /\ \A i \in j..(k - 1) : i \in 0..d /\ b[i][1] \in R /\ i + 1 \in 1..d
      /\ j \in j..(k - 1)
  BY <1>3
<1>5. R \in SUBSET Index /\ R # {}
  BY <1>2, <1>4
<1>6. PICK r \in R : \A c \in search.visited : c[1] = r => search.parent[c] \notin R \ {r}
  BY <1>5 DEF RowsFounded
<1>7. PICK i \in j..(k - 1) : r = b[i][1]
  BY <1>6
<1>8. b[i + 1] = <<search.parent[b[i]], r>> /\ i + 1 \in 0..d
  <2>1. i + 1 \in 1..d /\ (i + 1) - 1 = i
    BY <1>3, <1>4
  <2> QED
    BY <1>7, <2>1
<1>9. b[i + 1][1] \in R
  <2>1. CASE i + 1 = k
    BY <1>3, <1>4, <2>1
  <2>2. CASE i + 1 # k
    <3>1. i \in Int /\ j \in Int /\ k \in Int /\ j <= i /\ i <= k - 1
      OBVIOUS
    <3>2. i + 1 \in j..(k - 1)
      BY <2>2, <3>1
    <3> QED
      BY <1>4, <3>2
  <2> QED
    BY <2>1, <2>2
<1>10. b[i] \in search.visited
  BY <1>4
<1>11. search.parent[b[i]] = r
  BY <1>6, <1>7, <1>8, <1>9, <1>10
<1> QED
  BY <1>8, <1>11


(* What find_pipeline finds is a pipeline: from its end it leads back, by    *)
(* conversions, to the type it begins with, and it is short unless it       *)
(* converts a type to itself; but a search that visits nothing may return   *)
(* what an earlier one has left behind.                                     *)
THEOREM FoundIsPipeline == Spec => []PipelineSound
<1> DEFINE PathInv == ParentInv /\ CellsFounded /\ RowsFounded /\ ScanInv
<1>1. Init => VisitedInv /\ PathInv
  BY DEF Init, VisitedInv, ParentInv, CellsFounded, RowsFounded, ScanInv
<1>2. TypeInv /\ VisitedInv /\ PathInv /\ [Next]_vars => VisitedInv' /\ PathInv'
  BY VisitedInvNext, ParentInvNext, CellsFoundedNext, RowsFoundedNext, ScanInvNext
<1>3. TypeInv /\ VisitedInv /\ PathInv => PipelineSound
  <2> SUFFICES ASSUME TypeInv, VisitedInv, ParentInv, CellsFounded, RowsFounded, Visited, Found
               PROVE  PipelineSound
    BY DEF PipelineSound
  <2>1. search # NoSearch /\ search.visited # {}
    BY DEF NoSearch, Visited
  <2> PICK last0 : last0 = MaxTypes * MaxTypes
    OBVIOUS
  <2>2. last0 \in Nat
    BY ImprimerAssumption
  <2> PICK b : b = PipelineBack
    OBVIOUS
  <2>3. /\ DOMAIN b = 0..last0
        /\ \A k \in 0..last0 : b[k] \in search.visited
        /\ \A k \in 1..last0 : b[k] = Before(b[k - 1])
    BY <2>1, <2>2, BackSteps
  <2> DEFINE Ends == {d \in 0..last0 : search.parent[b[d]] < 0}
  <2>4. Ends \in SUBSET Nat /\ Ends # {}
    <3>1. \E d \in 0..last0 : search.parent[b[d]] < 0
      BY <2>1, <2>2, BackEnds
    <3> QED
      BY <3>1
  <2>5. PICK d \in Ends : \A x \in Ends : d <= x
    <3> HIDE DEF Ends
    <3> QED
      BY <2>4, LeastIndex
  <2>6. d \in 0..last0 /\ search.parent[b[d]] < 0 /\ \A k \in 0..d : k \in 0..last0
    <3>1. d \in 0..last0 /\ search.parent[b[d]] < 0
      OBVIOUS
    <3>2. \A k \in 0..d : k \in 0..last0
      BY <2>2, <3>1
    <3> QED
      BY <3>1, <3>2
  <2>7. b[d] \in search.visited /\ b[d][1] = search.from
    BY <2>1, <2>3, <2>6 DEF ParentInv
  <2>8. \A k \in 0..d : b[k] \in conv /\ b[k] \in search.visited
    BY <2>1, <2>3, <2>6 DEF VisitedInv
  <2>9. \A k \in 1..d : b[k] = <<search.parent[b[k - 1]], b[k - 1][1]>>
    <3> TAKE k \in 1..d
    <3>1. k - 1 \in 0..last0 /\ k \in 1..last0 /\ ~(d <= k - 1)
      BY <2>6
    <3>2. ~(search.parent[b[k - 1]] < 0)
      BY <2>5, <3>1
    <3> QED
      BY <2>3, <3>1, <3>2 DEF Before
  <2>10. d < MaxTypes \/ \E k \in 0..d : b[k][1] = b[k][2]
    <3>1. d \in Nat
      BY <2>6
    <3> QED
      BY <2>1, <2>8, <2>9, <3>1, BackIsShort
  <2> QED
    BY <2>3, <2>6, <2>7, <2>8, <2>10 DEF PipelineSound
<1> QED
  BY TypeInvariant, <1>1, <1>2, <1>3, PTL DEF Spec
=============================================================================
