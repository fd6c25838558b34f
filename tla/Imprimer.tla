------------------------------- MODULE Imprimer -------------------------------
(***************************************************************************)
(* The print spooler of hw4 (main.c): its commands, the queue of jobs and  *)
(* the search for a pipeline of conversions.  find_pipeline and jq_dequeue *)
(* are there for the scheduler main.c announces in a comment and does not  *)
(* have; here they may be called between any two commands.  The process is *)
(* one thread; where the code dereferences NULL, or writes past an array,  *)
(* it is over.  File types are named by the order in which they are        *)
(* declared, which loses nothing.                                          *)
(***************************************************************************)
EXTENDS Integers, Sequences, FiniteSets, FiniteSetsExt

CONSTANTS MaxTypes,       \* MAX_FILE_TYPES
          MaxPrinters,    \* MAX_PRINTERS
          MaxJobs,        \* bound: how many jobs are printed
          Conversions,    \* bound: the conversions that are declared, ...
          MaxConversions, \* ... how many of them there are at a time, ...
          WithJobs        \* ... and how many next to printers and jobs

Index == 0..(MaxTypes - 1)
Cell  == Index \X Index

ASSUME ImprimerAssumption ==
  /\ MaxTypes \in Nat \ {0} /\ MaxPrinters \in Nat \ {0} /\ MaxJobs \in Nat
  /\ Conversions \subseteq Cell /\ MaxConversions \in Nat /\ WithJobs \in Nat

VARIABLES types,    \* row_cnt and col_cnt: the types, and rows and columns, that are declared
          conv,     \* the cells of conversion_matrix that have a program
          printers, \* printer_count
          queue,    \* next_jnode and prev_jnode of job_queue_head and of the jobs
          jobs,     \* job_count
          slot,     \* whose job is where print_cmd keeps one on its stack
          done,     \* why the process ended
          last,     \* lastVisitedCell
          search    \* the running search

vars == <<types, conv, printers, queue, jobs, slot, done, last, search>>

NoCell == <<-1, -1>>
JobHead == 0
Null == -1
Garbage == -1
NoSearch == [pc |-> "none"]

Init ==
  /\ types = 0 /\ conv = {} /\ printers = 0
  /\ queue = [next |-> [n \in 0..MaxJobs |-> IF n = JobHead THEN JobHead ELSE Null],
              prev |-> [n \in 0..MaxJobs |-> IF n = JobHead THEN JobHead ELSE Null]]
  /\ jobs = 0 /\ slot = Garbage
  /\ done = "no" /\ last = NoCell /\ search = NoSearch

Ready == done = "no" /\ search = NoSearch
Room  == /\ Cardinality(conv') <= MaxConversions
         /\ printers' + jobs' > 0 => Cardinality(conv') <= WithJobs

(* A later command may use the part of the stack print_cmd has left.         *)
StackReused == slot' \in {slot, Garbage}

----------------------------------------------------------------------------
(* Declarations *)

Names == 0..MaxTypes
Declared(n) == n < types

(* find_rowname_index and find_conv_cell compare with the names of all rows  *)
(* or columns, NULL beyond the declared ones.                               *)
LookupCrashes(n) == ~Declared(n) /\ types < MaxTypes

(* A new type names the next row and the next column.                        *)
InitializeConvCells == types' = types + 1

TypeCmd ==
  /\ Ready /\ types < MaxTypes
  /\ InitializeConvCells
  /\ StackReused
  /\ UNCHANGED <<conv, printers, queue, jobs, done, last, search>>

(* Nobody asks whether there is room in printers.                            *)
InitializePrinter ==
  IF printers < MaxPrinters THEN printers' = printers + 1 /\ UNCHANGED done
                            ELSE done' = "overrun" /\ UNCHANGED printers

PrinterCmd ==
  /\ Ready /\ types > 0
  /\ InitializePrinter
  /\ StackReused
  /\ UNCHANGED <<types, conv, queue, jobs, last, search>>
  /\ Room

ConversionCmd(n, m) ==
  /\ Ready
  /\ Declared(n) /\ Declared(m) => <<n, m>> \in Conversions
  /\ CASE LookupCrashes(n) \/ LookupCrashes(m) -> done' = "crash" /\ UNCHANGED conv
       [] Declared(n) /\ Declared(m) -> conv' = conv \cup {<<n, m>>} /\ UNCHANGED done
       [] OTHER -> UNCHANGED <<conv, done>>
  /\ StackReused
  /\ UNCHANGED <<types, printers, queue, jobs, last, search>>
  /\ Room

(* quit ends the loop of main, and at the end of the input the line it       *)
(* copies is NULL.                                                           *)
Leave ==
  /\ Ready
  /\ done' \in {"quit", "crash"}
  /\ UNCHANGED <<types, conv, printers, queue, jobs, slot, last, search>>

(* A command nobody knows is called although it is NULL.                     *)
UnknownCmd ==
  /\ Ready
  /\ done' = "crash"
  /\ UNCHANGED <<types, conv, printers, queue, jobs, slot, last, search>>

(* cancel, pause, resume, disable and enable have no effect yet.             *)
IdleCmd ==
  /\ Ready
  /\ StackReused
  /\ UNCHANGED <<types, conv, printers, queue, jobs, done, last, search>>

----------------------------------------------------------------------------
(* The queue of jobs *)

(* Variant of JqEnqueue: the new job goes to the end of the list.            *)
JqEnqueueLast(q, n) ==
  LET first == q.next[JobHead] = JobHead
  IN  [next |-> [q.next EXCEPT ![n] = JobHead, ![q.prev[JobHead]] = n],
       prev |-> [q.prev EXCEPT ![n] = q.prev[JobHead], ![JobHead] = n]]

(* The head's next is the new job, whatever it was; the head's prev stays at *)
(* the first one.                                                            *)
JqEnqueue(q, n) ==
  LET first == q.next[JobHead] = JobHead
      older == IF first THEN q.next ELSE [q.next EXCEPT ![q.prev[JobHead]] = n]
  IN  [next |-> [older EXCEPT ![n] = JobHead, ![JobHead] = n],
       prev |-> [q.prev EXCEPT ![n] = q.prev[JobHead], ![JobHead] = IF first THEN n ELSE @]]

JqDequeue(q) ==
  LET n    == q.next[JobHead]
      left == IF q.prev[JobHead] = n
              THEN [next |-> [q.next EXCEPT ![JobHead] = JobHead], prev |-> [q.prev EXCEPT ![JobHead] = JobHead]]
              ELSE [next |-> [q.next EXCEPT ![JobHead] = q.next[n]],
                    prev |-> [q.prev EXCEPT ![q.next[n]] = JobHead]]
  IN  [next |-> [left.next EXCEPT ![n] = Null], prev |-> [left.prev EXCEPT ![n] = Null]]

(* The jobs a walk from the head finds.                                      *)
Listed ==
  LET at[k \in 0..MaxJobs] == IF k = 0 THEN queue.next[JobHead]
                              ELSE IF at[k - 1] \in {JobHead, Null} THEN JobHead ELSE queue.next[at[k - 1]]
  IN  {at[k] : k \in 0..MaxJobs} \ {JobHead}

(* The job is a local variable of print_cmd, and nobody copies it.           *)
InitializeJob(n) == jobs' = n /\ queue' = JqEnqueue(queue, n) /\ slot' = n

(* A job is printed on any printer, or on up to MaxPrinters - 1 it names: the *)
(* local array that holds the names needs an empty one at its end.           *)
PrintCmd ==
  /\ Ready /\ jobs < MaxJobs /\ types > 0
  /\ InitializeJob(jobs + 1)
  /\ UNCHANGED <<types, conv, printers, done, last, search>>
  /\ Room

PrintOnTooMany ==
  /\ Ready /\ types > 0 /\ printers > 0
  /\ done' = "overrun"
  /\ UNCHANGED <<types, conv, printers, queue, jobs, slot, last, search>>

(* printers_cmd and jobs_cmd free a buffer that only listing something sets. *)
ListCmd ==
  /\ Ready
  /\ done' \in IF printers = 0 \/ Listed = {} THEN {"no", "crash"} ELSE {"no"}
  /\ StackReused
  /\ UNCHANGED <<types, conv, printers, queue, jobs, last, search>>

TakeJob ==
  /\ Ready /\ queue.next[JobHead] # JobHead
  /\ queue' = JqDequeue(queue)
  /\ StackReused
  /\ UNCHANGED <<types, conv, printers, jobs, done, last, search>>

----------------------------------------------------------------------------
(* The search for a pipeline.  A row is queued as its cell in column 0.      *)

(* Variant of Adjacent: not the cell next to it.                             *)
AdjacentSkipping(cell) == {k \in Index : k > cell[2] + 1 /\ <<cell[1], k>> \in conv}

(* getAdjacentCell: the next cell of the row that has a program.             *)
Adjacent(cell) == {k \in Index : k > cell[2] /\ <<cell[1], k>> \in conv}

(* enqueue: what does not fit is dropped.                                    *)
Enqueue(s, row) ==
  IF s.rear = MaxTypes - 1 THEN [s EXCEPT !.dropped = TRUE]
                           ELSE [s EXCEPT !.rows = Append(@, row), !.rear = @ + 1]

(* dequeue: an empty queue starts again at the front of the array.           *)
Dequeue(s) == [s EXCEPT !.rows = Tail(@), !.rear = IF Len(s.rows) = 1 THEN -1 ELSE @]

(* Variant of Follow: a row is queued whether its first cell was visited or not. *)
FollowAlways(s, row, col) == Enqueue([s EXCEPT !.parent[<<col, 0>>] = row], col)

(* The row a conversion leads to is queued unless its first cell was visited. *)
Follow(s, row, col) ==
  IF <<col, 0>> \in s.visited THEN s ELSE Enqueue([s EXCEPT !.parent[<<col, 0>>] = row], col)

(* initialize_visited, initialize_parent_index, and an empty queue.          *)
NewSearch(n, m) ==
  [pc |-> "ended", from |-> n, to |-> m, rows |-> <<>>, rear |-> -1, at |-> NoCell,
   visited |-> {}, parent |-> [c \in Cell |-> -1], cut |-> FALSE, dropped |-> FALSE]

(* find_pipeline and the beginning of bfs.                                   *)
FindPipeline(n, m) ==
  /\ Ready
  /\ LET s    == NewSearch(n, m)
         root == <<n, 0>>
     IN  CASE LookupCrashes(n) -> done' = "crash" /\ UNCHANGED <<last, search>>
           [] ~LookupCrashes(n) /\ ~Declared(n) -> search' = s /\ UNCHANGED <<done, last>>
           [] Declared(n) /\ m = 0 ->
                /\ search' = [s EXCEPT !.visited = {root} \cap conv]
                /\ last' = IF root \in conv THEN root ELSE last
                /\ UNCHANGED done
           [] Declared(n) /\ m # 0 ->
                /\ search' = [Enqueue(s, n) EXCEPT !.pc = "row"]
                /\ UNCHANGED <<done, last>>
  /\ StackReused
  /\ UNCHANGED <<types, conv, printers, queue, jobs>>

(* Variant of VisitRow: the first cell is not marked as visited.             *)
VisitRowUnmarked ==
  /\ search.pc = "row"
  /\ LET row == search.rows[1]
         s   == [Dequeue(search) EXCEPT !.pc = "scan", !.at = <<row, 0>>]
     IN  IF <<row, 0>> \notin conv THEN search' = s /\ UNCHANGED last
         ELSE search' = Follow(s, row, 0) /\ last' = <<row, 0>>
  /\ UNCHANGED <<types, conv, printers, queue, jobs, slot, done>>

(* bfs takes a row, and looks at its conversion to the first type: the search *)
(* is cut short if that was done before.                                     *)
VisitRow ==
  /\ search.pc = "row"
  /\ LET row == search.rows[1]
         at  == <<row, 0>>
         s   == [Dequeue(search) EXCEPT !.pc = "scan", !.at = at]
     IN  CASE at \notin conv -> search' = s /\ UNCHANGED last
           [] at \in conv /\ at \in search.visited ->
                search' = [s EXCEPT !.pc = "ended", !.cut = TRUE] /\ UNCHANGED last
           [] at \in conv /\ at \notin search.visited ->
                search' = Follow([s EXCEPT !.visited = @ \cup {at}], row, 0) /\ last' = at
  /\ UNCHANGED <<types, conv, printers, queue, jobs, slot, done>>

(* Variant of VisitCell: the queue is not asked whether it is empty.         *)
VisitCellOnly ==
  /\ search.pc = "scan"
  /\ IF Adjacent(search.at) = {}
     THEN search' = [search EXCEPT !.pc = "row"] /\ UNCHANGED last
     ELSE LET row  == search.at[1]
              col  == Min(Adjacent(search.at))
              cell == <<row, col>>
              new  == cell \notin search.visited
              s    == [search EXCEPT !.pc = IF col = search.to THEN "ended" ELSE "scan", !.at = cell]
          IN  /\ search' = IF new THEN Follow([s EXCEPT !.visited = @ \cup {cell}], row, col) ELSE s
              /\ last' = IF new THEN cell ELSE last
  /\ UNCHANGED <<types, conv, printers, queue, jobs, slot, done>>

(* The inner loop of bfs: the next cell of the row, or the next row.         *)
VisitCell ==
  /\ search.pc = "scan"
  /\ IF Adjacent(search.at) = {}
     THEN /\ search' = [search EXCEPT !.pc = IF search.rows = <<>> THEN "ended" ELSE "row"]
          /\ UNCHANGED last
     ELSE LET row  == search.at[1]
              col  == Min(Adjacent(search.at))
              cell == <<row, col>>
              new  == cell \notin search.visited
              s    == [search EXCEPT !.pc = IF col = search.to THEN "ended" ELSE "scan", !.at = cell]
          IN  /\ search' = IF new
                           THEN Follow([s EXCEPT !.visited = @ \cup {cell},
                                                 !.parent[cell] = s.parent[<<row, 0>>]], row, col)
                           ELSE s
              /\ last' = IF new THEN cell ELSE last
  /\ UNCHANGED <<types, conv, printers, queue, jobs, slot, done>>

(* What find_pipeline returns, if lastVisitedCell is not NULL, ...           *)
Found == last # NoCell /\ last[2] = search.to

(* ... and the pipeline that getConversionSteps writes backwards from the end *)
(* of pipeline_steps: the k-th before the last.                              *)
PipelineBack ==
  LET back[k \in 0..(MaxTypes * MaxTypes)] ==
        IF k = 0 THEN last
        ELSE LET c == back[k - 1]
             IN  IF search.parent[c] < 0 THEN c ELSE <<search.parent[c], c[1]>>
  IN  back

FindEnds ==
  /\ search.pc = "ended"
  /\ done' = IF last = NoCell THEN "crash" ELSE done
  /\ search' = NoSearch
  /\ UNCHANGED <<types, conv, printers, queue, jobs, slot, last>>

Search == VisitRow \/ VisitCell \/ FindEnds

Next == \/ TypeCmd \/ PrinterCmd
        \/ \E n, m \in Names : ConversionCmd(n, m) \/ FindPipeline(n, m)
        \/ PrintCmd \/ PrintOnTooMany \/ ListCmd \/ TakeJob \/ IdleCmd
        \/ UnknownCmd \/ Leave
        \/ Search

Spec == Init /\ [][Next]_vars

----------------------------------------------------------------------------
TypeOK ==
  /\ types \in 0..MaxTypes /\ conv \subseteq (0..(types - 1)) \X (0..(types - 1))
  /\ printers \in 0..MaxPrinters /\ jobs \in 0..MaxJobs
  /\ queue \in [next : [0..MaxJobs -> Null..MaxJobs], prev : [0..MaxJobs -> Null..MaxJobs]]
  /\ slot \in {Garbage} \cup 1..jobs
  /\ done \in {"no", "quit", "crash", "overrun"}
  /\ last \in Cell \cup {NoCell}
  /\ search.pc \in {"none", "row", "scan", "ended"}
  /\ search.pc = "row" => search.rows # <<>>

(* jobs finds the newest job only, unless it was taken out, and it shows that *)
(* one's data or what has overwritten them, never those of another job.      *)
NewestListed ==
  /\ Listed = IF jobs > 0 /\ queue.next[jobs] # Null THEN {jobs} ELSE {}
  /\ \A n \in Listed : slot \in {n, Garbage}

Visited == search.pc = "ended" /\ search.visited # {}

(* What find_pipeline returns is a chain of conversions from the one type to *)
(* the other, unless its search has visited nothing and it has returned what *)
(* an earlier one left in lastVisitedCell; and it fits in pipeline_steps     *)
(* unless a step of it converts a type to itself.                            *)
PipelineSound ==
  Visited /\ Found =>
    \E d \in DOMAIN PipelineBack :
      /\ search.parent[PipelineBack[d]] < 0 /\ PipelineBack[d][1] = search.from
      /\ \A k \in 0..d : PipelineBack[k] \in conv
      /\ d < MaxTypes \/ \E k \in 0..d : PipelineBack[k][1] = PipelineBack[k][2]

(* Every set of types with from in it that conversions do not leave.         *)
Reachable(from, to) ==
  \A S \in SUBSET Index : from \in S /\ (\A c \in conv : c[1] \in S => c[2] \in S) => to \in S

(* A pipeline is missed only if it leads to the first type, or the search was *)
(* cut short or a row dropped.                                               *)
MissedOnly ==
  /\ search.pc = "ended" /\ search.from \in Index /\ search.to \in Index \ {0, search.from}
  /\ Reachable(search.from, search.to)
  => (Visited /\ Found) \/ search.cut \/ search.dropped

(* Every search ends, although it queues rows again that it has scanned: with *)
(* each step it has visited a cell, has a row less to scan, or is further in  *)
(* its row.                                                                  *)
Ahead == IF search.pc = "scan" THEN MaxTypes - search.at[2] ELSE 0
SearchAdvances ==
  [][search.pc # "none" /\ search'.pc # "none" =>
       \/ search.visited \subseteq search'.visited /\ search.visited # search'.visited
       \/ /\ search.visited = search'.visited
          /\ \/ Len(search'.rows) < Len(search.rows)
             \/ search'.rows = search.rows /\ Ahead' < Ahead]_vars
=============================================================================
