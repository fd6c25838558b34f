------------------------------ MODULE GradeBook ------------------------------
(***************************************************************************)
(* The grade program of hw2, from its options to its exit: what was read   *)
(* goes through stats.c, normal.c and sort.c to write.c or report.c, and   *)
(* deallocate.c at the end.  A collated course can be given to the program *)
(* once more.  Numbers are counted in units, of which 1 has Unit; results  *)
(* are rounded down to a unit, which keeps their order, and percentages    *)
(* are kept as fractions of 100.  Names and ids are numbers in strcmp order *)
(***************************************************************************)
EXTENDS GradeReader

VARIABLES phase,      \* where main is
          roster,     \* c->roster: students by number
          stats,      \* the statistics of each assignment
          norm,       \* the normalized score for each score of each student
          composite,  \* the composite score of each student
          sorting,    \* sortrosters: the key, the list, the table, the calls to make
          dups,       \* students checkfordups has warned of
          out,        \* what has been written: lines, or reports
          before      \* the course that was collated, when its output is read

bookVars == <<phase, roster, stats, norm, composite, sorting, dups, out, before>>
vars == <<readerVars, bookVars>>

Tiny == 1               \* 2*EPSILON
Idle == [by |-> "name", list |-> 0, tab |-> <<>>, calls |-> <<>>, busy |-> FALSE]
Nothing == [lines |-> <<>>, report |-> <<>>]

Init ==
  /\ input \in Inputs
  /\ stack = AtStart /\ parse = Begun /\ course = NoCourse
  /\ phase = "options" /\ roster = <<>> /\ stats = <<>> /\ norm = <<>> /\ composite = <<>>
  /\ sorting = Idle /\ dups = {} /\ out = Nothing /\ before = NoCourse

Assignments == DOMAIN course.assignments
Sections    == DOMAIN course.sections
Students    == DOMAIN course.students
Scores(st)  == DOMAIN course.students[st].scores

(* main counts how often it was asked for a report and for a collated course. *)
Options ==
  /\ phase = "options"
  /\ phase' = IF input.report = input.collate THEN "usage" ELSE "reading"
  /\ UNCHANGED <<readerVars, roster, stats, norm, composite, sorting, dups, out, before>>

Reading ==
  /\ phase = "reading" /\ Read
  /\ UNCHANGED bookVars

GiveUp ==
  /\ phase = "reading"
  /\ parse.where = "fatal" \/ (parse.where = "done" /\ parse.errors)
  /\ phase' = "failed"
  /\ UNCHANGED <<readerVars, roster, stats, norm, composite, sorting, dups, out, before>>

----------------------------------------------------------------------------
(* A score that is counted: scp->flag == VALID || scp->subst == USERAW.       *)
Tallied(sc) == sc.how \in {"VALID", "USERAW"}

(* Variant of CountScore: a new score always goes to the end of the list.    *)
CountScoreLast(freqs, g) ==
  IF \E k \in DOMAIN freqs : freqs[k].score = g
  THEN [k \in DOMAIN freqs |-> IF freqs[k].score = g THEN [freqs[k] EXCEPT !.count = @ + 1] ELSE freqs[k]]
  ELSE Append(freqs, [score |-> g, count |-> 1])

(* count_score, do_quantiles: the table of frequencies, by rising score.     *)
CountScore(freqs, g) ==
  LET from == {k \in DOMAIN freqs : freqs[k].score >= g}
      at   == IF from = {} THEN Len(freqs) + 1 ELSE Min(from)
  IN  IF from # {} /\ freqs[at].score = g
      THEN [freqs EXCEPT ![at].count = @ + 1]
      ELSE InsertAt(freqs, at, [score |-> g, count |-> 1])

Total(xs) == FoldLeft(LAMBDA x, y : x + y, 0, xs)

NumLess(freqs, k) == Total([i \in 1..k - 1 |-> freqs[i].count])

SquareRoot(x) == Cardinality({r \in 1..x : r * r <= x})

(* do_freqs, do_sums and do_moments over the grades of a group, in the order *)
(* of the roster; max is kept for the class only.                           *)
Moments(grades) ==
  LET n     == Len(grades)
      sum   == Total(grades)
      sumsq == Total([k \in 1..n |-> grades[k] * grades[k]])
  IN  [freqs  |-> FoldLeft(CountScore, <<>>, grades),
       valid  |-> n,
       max    |-> IF n = 0 THEN 0 ELSE Max(Range(grades)),
       mean   |-> IF n = 0 THEN 0 ELSE sum \div n,
       stddev |-> IF n < 2 THEN 0 ELSE SquareRoot((n * sumsq - sum * sum) \div (n * (n - 1)))]

GradesOf(a, sts) ==
  LET Grade(sc) == IF sc.asgt = a /\ Tallied(sc) THEN <<sc.grade>> ELSE <<>>
  IN  Concat([k \in DOMAIN sts |->
        Concat([i \in Scores(sts[k]) |-> Grade(course.students[sts[k]].scores[i])])])

(* A student is linked to the last one, and becomes the last one.            *)
Link(l, st) ==
  IF l.last = 0 THEN [head |-> st, last |-> st, cnext |-> [l.cnext EXCEPT ![st] = 0]]
  ELSE [l EXCEPT !.last = st, !.cnext = [[@ EXCEPT ![l.last] = st] EXCEPT ![st] = 0]]

(* do_links: every assignment links the students of all sections again, from *)
(* the last one linked; the head of the list is the first ever linked.       *)
LinkStudents ==
  LET visits == Concat([a \in Assignments |->
                  Concat([s \in Sections |-> course.sections[s].roster])])
      linked == FoldLeft(Link, [head |-> 0, last |-> 0, cnext |-> [st \in Students |-> 0]], visits)
      chain[k \in 1..Len(course.students) + 1] ==
        IF k = 1 THEN linked.head
        ELSE LET st == chain[k - 1] IN IF st = 0 THEN 0 ELSE linked.cnext[st]
  IN  [k \in 1..Cardinality({i \in 1..Len(course.students) + 1 : chain[i] # 0}) |-> chain[k]]

Statistics ==
  /\ phase = "reading" /\ parse.where = "done" /\ ~parse.errors
  /\ roster' = LinkStudents
  /\ stats' = [a \in Assignments |->
       [class    |-> Moments(GradesOf(a, roster')),
        sections |-> [s \in Sections |-> Moments(GradesOf(a, course.sections[s].roster))]]]
  /\ phase' = "normalize"
  /\ UNCHANGED <<readerVars, norm, composite, sorting, dups, out, before>>

----------------------------------------------------------------------------
AtLeastTiny(x) == IF x < 1 THEN Tiny ELSE x

Group(a, sec) == IF course.assignments[a].group = "BYCLASS" THEN stats[a].class ELSE stats[a].sections[sec]

Linear(s, rm, rd, nm, nd) == (nd * (s - rm)) \div rd + nm
Scale(s, max, scale)      == (s * scale) \div max

(* Variant of Quantile: what is above the score is counted.                  *)
QuantileAbove(s, g) ==
  LET from == {k \in DOMAIN g.freqs : s <= g.freqs[k].score}
  IN  IF from = {} THEN 0 ELSE ((g.valid - NumLess(g.freqs, Min(from))) * 100 * Unit) \div g.valid

Quantile(s, g) ==
  LET from == {k \in DOMAIN g.freqs : s <= g.freqs[k].score}
  IN  IF from = {} THEN 0 ELSE (NumLess(g.freqs, Min(from)) * 100 * Unit) \div (IF g.valid = 0 THEN 1 ELSE g.valid)

Normal(s, a, sec) ==
  LET asgt == course.assignments[a]
      g    == Group(a, sec)
  IN  CASE asgt.policy = "RAW"      -> s
        [] asgt.policy = "LINEAR"   -> Linear(s, g.mean, AtLeastTiny(g.stddev), asgt.mean, asgt.stddev)
        [] asgt.policy = "SCALE"    -> Scale(s, AtLeastTiny(asgt.max), asgt.scale)
        [] asgt.policy = "QUANTILE" -> Quantile(s, g)

(* studentavg: without a weight, what it returns is 0.                       *)
StudentAvg(st, atype) ==
  LET score(k)  == course.students[st].scores[k]
      weight(k) == course.assignments[score(k).asgt].weight
      like(k)   == course.assignments[score(k).asgt].atype = atype /\ Tallied(score(k))
      w   == Total([k \in Scores(st) |-> IF like(k) /\ weight(k) # Unset THEN weight(k) ELSE 0])
      sum == Total([k \in Scores(st) |->
               IF like(k) THEN Normal(score(k).grade, score(k).asgt, course.students[st].section)
                                 * (IF weight(k) = Unset THEN Unit ELSE weight(k))
               ELSE 0])
  IN  IF w = 0 THEN 0 ELSE IF w < 0 THEN (-sum) \div (-w) ELSE sum \div w

NormScore(st, sc) ==
  LET asgt == course.assignments[sc.asgt]
  IN  CASE Tallied(sc)             -> Normal(sc.grade, sc.asgt, course.students[st].section)
        [] sc.how = "USENORM"      -> sc.grade
        [] sc.how = "USELIKEAVG"   -> StudentAvg(st, asgt.atype)
        [] sc.how = "USECLASSAVG"  -> IF asgt.policy = "QUANTILE" THEN 50 * Unit ELSE asgt.mean

(* What normal finds too small to divide by it replaces: the declared        *)
(* maximum of an assignment and the deviation of a group.                   *)
Normalize ==
  /\ phase = "normalize"
  /\ norm' = [st \in Students |->
       IF st \in Range(roster) THEN [k \in Scores(st) |-> NormScore(st, course.students[st].scores[k])] ELSE <<>>]
  /\ LET Used(a, g) == course.assignments[a].policy = "LINEAR" /\ course.assignments[a].group = g
         Enough(m)  == IF m.valid > 0 THEN [m EXCEPT !.stddev = AtLeastTiny(@)] ELSE m
     IN  stats' = [a \in Assignments |->
           [class    |-> IF Used(a, "BYCLASS") THEN Enough(stats[a].class) ELSE stats[a].class,
            sections |-> [s \in Sections |->
              IF Used(a, "BYSECTION") THEN Enough(stats[a].sections[s]) ELSE stats[a].sections[s]]]]
  /\ course' = [course EXCEPT !.assignments = [a \in Assignments |->
       IF course.assignments[a].policy = "SCALE" /\ stats[a].class.valid > 0
       THEN [course.assignments[a] EXCEPT !.max = AtLeastTiny(@)] ELSE course.assignments[a]]]
  /\ phase' = "composites"
  /\ UNCHANGED <<input, stack, parse, roster, composite, sorting, dups, out, before>>

Composites ==
  /\ phase = "composites"
  /\ composite' = [st \in Students |->
       LET weight(k) == course.assignments[course.students[st].scores[k].asgt].weight
       IN  Total([k \in DOMAIN norm[st] |->
             IF weight(k) = Unset THEN norm[st][k] ELSE (norm[st][k] * weight(k)) \div Unit])]
  /\ phase' = "sort"
  /\ sorting' = Idle
  /\ UNCHANGED <<readerVars, roster, stats, norm, dups, out, before>>

----------------------------------------------------------------------------
Compare(by, s, t) ==
  CASE by = "name"  -> course.students[s].name - course.students[t].name
    [] by = "id"    -> course.students[s].id - course.students[t].id
    [] by = "score" -> composite[t] - composite[s]

Swap(tab, i, j) == [tab EXCEPT ![i] = tab[j], ![j] = tab[i]]

(* Variant of Partition: what is equal to the pivot goes to the low end.     *)
PartitionLow(by, table, low, high) ==
  LET pivot == table[(low + high) \div 2 + 1]
      p[k \in 0..high - low] ==
        IF k = 0 THEN [tab |-> table, l |-> low, h |-> high]
        ELSE LET q == p[k - 1]
             IN  IF Compare(by, q.tab[q.l + 1], pivot) > 0
                 THEN [q EXCEPT !.tab = Swap(@, q.l + 1, q.h), !.h = @ - 1]
                 ELSE [q EXCEPT !.l = @ + 1]
  IN  [tab |-> p[high - low].tab, middle |-> p[high - low].l]

(* partition, whose loop sets one entry aside at each turn; what is equal to *)
(* the pivot goes to the two ends by turns.  Entries are counted from 0.     *)
Partition(by, table, low, high) ==
  LET pivot == table[(low + high) \div 2 + 1]
      p[k \in 0..high - low] ==
        IF k = 0 THEN [tab |-> table, l |-> low, h |-> high, alt |-> 1]
        ELSE LET q == p[k - 1]
                 c == Compare(by, q.tab[q.l + 1], pivot)
                 r == [q EXCEPT !.alt = IF c = 0 THEN -@ ELSE @]
             IN  IF c > 0 \/ (c = 0 /\ q.alt > 0)
                 THEN [r EXCEPT !.tab = Swap(@, q.l + 1, q.h), !.h = @ - 1]
                 ELSE [r EXCEPT !.l = @ + 1]
  IN  [tab |-> p[high - low].tab, middle |-> p[high - low].l]

List(l) == IF l = 0 THEN roster ELSE course.sections[l].roster

(* sortroster, for c->roster and then for each section: the table is filled  *)
(* from its end.                                                            *)
SortRoster ==
  /\ phase \in {"sort", "sortby"} /\ ~sorting.busy /\ sorting.list <= Len(course.sections)
  /\ sorting' = IF List(sorting.list) = <<>> THEN [sorting EXCEPT !.list = @ + 1]
                ELSE [sorting EXCEPT !.busy = TRUE, !.tab = Reverse(List(sorting.list)),
                        !.calls = <<[low |-> 0, high |-> Len(List(sorting.list)), depth |-> 1]>>]
  /\ UNCHANGED <<readerVars, phase, roster, stats, norm, composite, dups, out, before>>

(* sorttable; the call made last is the one that runs.                       *)
SortTable ==
  /\ sorting.calls # <<>>
  /\ LET call == Last(sorting.calls)
         rest == Front(sorting.calls)
         p    == Partition(sorting.by, sorting.tab, call.low, call.high)
         Call(low, high) == [low |-> low, high |-> high, depth |-> call.depth + 1]
     IN  IF call.low = call.high THEN sorting' = [sorting EXCEPT !.calls = rest]
         ELSE sorting' = [sorting EXCEPT !.tab = p.tab,
                !.calls = IF call.low + 1 = call.high THEN rest
                          ELSE rest \o <<Call(p.middle, call.high), Call(call.low, p.middle)>>]
  /\ UNCHANGED <<readerVars, phase, roster, stats, norm, composite, dups, out, before>>

(* The students are linked again in the order of the table.                  *)
Relink ==
  /\ sorting.busy /\ sorting.calls = <<>>
  /\ IF sorting.list = 0 THEN roster' = sorting.tab /\ UNCHANGED course
     ELSE course' = [course EXCEPT !.sections[sorting.list].roster = sorting.tab] /\ UNCHANGED roster
  /\ sorting' = [sorting EXCEPT !.busy = FALSE, !.list = @ + 1, !.tab = <<>>]
  /\ UNCHANGED <<input, stack, parse, phase, stats, norm, composite, dups, out, before>>

Sorted == ~sorting.busy /\ sorting.list > Len(course.sections)

(* checkfordups, once the rosters are sorted by name.                        *)
CheckForDups ==
  /\ phase = "sort" /\ Sorted
  /\ dups' = {roster[k] : k \in {i \in 1..Len(roster) - 1 : Compare("name", roster[i], roster[i + 1]) = 0}}
  /\ IF input.collate > 0 THEN phase' = "collate" /\ UNCHANGED sorting
     ELSE phase' = "sortby" /\ sorting' = [Idle EXCEPT !.by = input.by]
  /\ UNCHANGED <<readerVars, roster, stats, norm, composite, out, before>>

----------------------------------------------------------------------------
(* write.c: the lines of a collated course, as they are when read.  LINEAR   *)
(* is no word of readnorm; a substitute score is followed by the words the   *)
(* cases write that the first falls through to.                             *)
WrittenAssignment(a) ==
  <<[kw |-> "ASSIGNMENT", bad |-> FALSE, name |-> a.name, atype |-> a.atype]>>
  \o (IF a.weight = Unset THEN <<>> ELSE <<[kw |-> "WEIGHT", bad |-> FALSE, number |-> a.weight]>>)
  \o (IF a.policy = "RAW" THEN <<>>
      ELSE <<[kw |-> "NORMALIZE", bad |-> a.policy = "LINEAR", policy |-> a.policy, group |-> a.group, scale |-> a.scale]>>)
  \o (IF a.max = 0 THEN <<>> ELSE <<[kw |-> "MAXIMUM", bad |-> FALSE, number |-> a.max]>>)

(* Variant of WrittenScore: the substitution USERAW is not written.           *)
WrittenScorePlain(sc) ==
  [kw |-> "SCORE", bad |-> FALSE, asgt |-> course.assignments[sc.asgt].name, grade |-> sc.grade,
   how |-> IF sc.how = "USERAW" THEN "VALID" ELSE sc.how, note |-> sc.note]

WrittenScore(sc) ==
  LET asgt == course.assignments[sc.asgt]
      raw  == sc.how = "USENORM" /\ asgt.policy = "RAW"
  IN  [kw |-> "SCORE", bad |-> FALSE, asgt |-> asgt.name, grade |-> sc.grade,
       how  |-> IF raw THEN "USELIKEAVG" ELSE sc.how,
       note |-> IF sc.how = "USENORM" /\ ~raw THEN <<"USELIKEAVG">> \o sc.note ELSE sc.note]

WrittenStudent(st) ==
  <<[kw |-> "STUDENT", bad |-> FALSE, id |-> st.id, name |-> st.name]>>
  \o [k \in DOMAIN st.scores |-> WrittenScore(st.scores[k])]

WrittenSection(sec) ==
  <<[kw |-> "SECTION", bad |-> FALSE, name |-> sec.name]>>
  \o (IF sec.assistant THEN <<[kw |-> "ASSISTANT", bad |-> FALSE]>> ELSE <<>>)
  \o Concat([k \in DOMAIN sec.roster |-> WrittenStudent(course.students[sec.roster[k]])])

WriteCourse ==
  <<[kw |-> "COURSE", bad |-> FALSE]>>
  \o (IF course.professor THEN <<[kw |-> "PROFESSOR", bad |-> FALSE]>> ELSE <<>>)
  \o Concat([a \in Assignments |-> WrittenAssignment(course.assignments[a])])
  \o Concat([s \in Sections |-> WrittenSection(course.sections[s])])

Collate ==
  /\ phase = "collate"
  /\ out' = [Nothing EXCEPT !.lines = WriteCourse]
  /\ phase' = "free"
  /\ UNCHANGED <<readerVars, roster, stats, norm, composite, sorting, dups, before>>

----------------------------------------------------------------------------
(* Variant of InterpolateQuantile: the position is not taken from the lower  *)
(* end of the interval.                                                     *)
InterpolateQuantileOff(m, q) ==
  LET in == {k \in 2..Len(m.freqs) - 1 :
               NumLess(m.freqs, k - 1) * 100 <= q * m.valid /\ q * m.valid < NumLess(m.freqs, k) * 100}
      k  == Min(in)
  IN  IF m.freqs = <<>> THEN 0 ELSE IF in = {} THEN Last(m.freqs).score
      ELSE m.freqs[k - 1].score +
             ((m.freqs[k].score - m.freqs[k - 1].score) * q * m.valid) \div (m.freqs[k - 1].count * 100)

(* interpolatequantile: the loop stops before the last score of the table.   *)
InterpolateQuantile(m, q) ==
  LET n     == m.valid
      freqs == m.freqs
      in    == {k \in 2..Len(freqs) - 1 :
                  NumLess(freqs, k - 1) * 100 <= q * n /\ q * n < NumLess(freqs, k) * 100}
      k     == Min(in)
  IN  IF freqs = <<>> THEN 0
      ELSE IF in = {} THEN Last(freqs).score
      ELSE freqs[k - 1].score +
             ((freqs[k].score - freqs[k - 1].score) * (q * n - NumLess(freqs, k - 1) * 100)) \div (freqs[k - 1].count * 100)

quantiles == <<10, 25, 50, 75, 90>>

(* reporthistos: an index computed by truncation; 0 is always in the range   *)
(* of the composite scores.                                                 *)
Truncated(x, y) == IF x < 0 THEN -((-x) \div y) ELSE x \div y

ScoreBin(a, score) ==
  LET m   == stats[a].class.max
      max == IF course.assignments[a].max # 0 THEN course.assignments[a].max ELSE IF m = 0 THEN Unit ELSE m
  IN  IF score > max THEN 49
      ELSE IF max > 0 THEN Truncated(49 * score, max) ELSE Truncated(-49 * score, -max)

CompositeBin(st) ==
  LET all == {0} \cup {composite[s] : s \in Range(roster)}
      diff == IF Max(all) = Min(all) THEN Unit ELSE Max(all) - Min(all)
  IN  (49 * (composite[st] - Min(all))) \div diff

(* What the reports say of an assignment: of the class, and of the sections  *)
(* when there is more than one.                                             *)
Groups(a) == <<stats[a].class>> \o (IF Len(course.sections) = 1 THEN <<>> ELSE stats[a].sections)
EachGroup(Part(_)) == [a \in Assignments |-> [g \in DOMAIN Groups(a) |-> Part(Groups(a)[g])]]

reportmoments   == EachGroup(LAMBDA m : [valid |-> m.valid, mean |-> m.mean, stddev |-> m.stddev])
reportfreqs     == EachGroup(LAMBDA m : m.freqs)
reportquantiles == EachGroup(LAMBDA m : [k \in DOMAIN m.freqs |-> (NumLess(m.freqs, k) * 100 * Unit) \div m.valid])
reportquantilesummaries ==
  EachGroup(LAMBDA m : [q \in DOMAIN quantiles |-> InterpolateQuantile(m, quantiles[q])])

reporthistos ==
  [composites |-> [k \in DOMAIN roster |-> CompositeBin(roster[k])],
   scores     |-> [a \in Assignments |-> [k \in DOMAIN stats[a].class.freqs |->
                     [bin |-> ScoreBin(a, stats[a].class.freqs[k].score), count |-> stats[a].class.freqs[k].count]]]]

Shown(sc) == IF Tallied(sc) THEN <<sc.grade>> ELSE <<>>

reportscores ==
  [k \in DOMAIN roster |-> [i \in Scores(roster[k]) |->
     LET sc == course.students[roster[k]].scores[i]
     IN  [raw |-> Shown(sc), norm |-> norm[roster[k]][i], class |-> stats[sc.asgt].class.mean,
          section |-> stats[sc.asgt].sections[course.students[roster[k]].section].mean]]]

reportcomposites == [k \in DOMAIN roster |-> composite[roster[k]]]

(* The first score a student has for an assignment stands for all.           *)
reporttabs ==
  [k \in DOMAIN roster |-> [a \in Assignments |->
     LET mine == SelectSeq(course.students[roster[k]].scores, LAMBDA sc : sc.asgt = a)
     IN  IF mine = <<>> THEN <<>> ELSE Shown(mine[1])]]

(* All the reports there are; the options choose among them.                 *)
Report ==
  /\ phase = "sortby" /\ Sorted
  /\ out' = [Nothing EXCEPT !.report = <<[
       moments |-> reportmoments, composites |-> reportcomposites, freqs |-> reportfreqs,
       quantiles |-> reportquantiles, summaries |-> reportquantilesummaries, histos |-> reporthistos,
       scores |-> reportscores, tabs |-> reporttabs]>>]
  /\ phase' = "free"
  /\ UNCHANGED <<readerVars, roster, stats, norm, composite, sorting, dups, before>>

(* free_course takes a professor for granted.                                *)
FreeCourse ==
  /\ phase = "free"
  /\ phase' = IF course.professor THEN "exit" ELSE "crash"
  /\ UNCHANGED <<readerVars, roster, stats, norm, composite, sorting, dups, out, before>>

(* The collated course is what the program is run on next.                   *)
RunAgain ==
  /\ phase = "exit" /\ before = NoCourse /\ out.lines # <<>>
  /\ before' = course
  /\ input' = [input EXCEPT !.files = [f \in {Main} |-> out.lines]]
  /\ stack' = AtStart /\ parse' = Begun /\ course' = NoCourse
  /\ phase' = "options" /\ out' = Nothing /\ roster' = <<>> /\ stats' = <<>>
  /\ norm' = <<>> /\ composite' = <<>> /\ sorting' = Idle /\ dups' = {}

Next == \/ Options \/ Reading \/ GiveUp \/ Statistics \/ Normalize \/ Composites
        \/ SortRoster \/ SortTable \/ Relink \/ CheckForDups
        \/ Collate \/ Report \/ FreeCourse \/ RunAgain

Spec == Init /\ [][Next]_vars

----------------------------------------------------------------------------
Whole(list, sts) == Range(list) = sts /\ Len(list) = Cardinality(sts)
InOrder(by, list) == \A i \in 1..Len(list) - 1 : Compare(by, list[i], list[i + 1]) <= 0
Finished == phase \in {"collate", "sortby", "free"}

(* What is read without an error is all there is, in the order of the lines: *)
(* every assignment, every section, and every student with the scores that  *)
(* follow, unless a line of blanks has ended an included file too early.     *)
ReadsAll ==
  phase = "reading" /\ parse.where = "done" /\ ~parse.errors =>
    (\E l \in Range(Flat) : l.kw = "") \/ \A what \in Told : Said(what, Flat) = Kept(what)

CallsBounded  == \A k \in DOMAIN sorting.calls : sorting.calls[k].depth < 2 * Len(sorting.tab)
SectionsWhole == \A s \in Sections : Whole(course.sections[s].roster, {st \in Students : course.students[st].section = s})
ClassWhole    == phase \in {"options", "usage", "reading", "failed"} \/ course.assignments = <<>> \/ Whole(roster, Students)
InKeyOrder    == Finished /\ Sorted => \A l \in 0..Len(course.sections) : InOrder(sorting.by, List(l))
DupsNoticed   == Finished => \A s, t \in Range(roster) : s # t /\ Compare("name", s, t) = 0 => s \in dups \/ t \in dups

(* The class roster has every student of every section once, though each     *)
(* assignment links them again (do_links); a sorted roster has the same      *)
(* students, in the order of the key, and quicksort did not go as deep as    *)
(* there are twice the students.  checkfordups, which looks at neighbours,   *)
(* so notices any two of one name.                                          *)
RostersSorted == CallsBounded /\ SectionsWhole /\ ClassWhole /\ InKeyOrder /\ DupsNoticed

(* How often a table says that a score was given.                            *)
Count(freqs, g) == Total([k \in DOMAIN freqs |-> IF freqs[k].score = g THEN freqs[k].count ELSE 0])

(* The frequency tables that quantiles and reports walk rise strictly, and   *)
(* each entry counts exactly the tallied scores that equal it; what the      *)
(* sections count is what the class counts.                                 *)
FreqsCounted ==
  phase = "normalize" => \A a \in DOMAIN stats :
    LET grades == GradesOf(a, [st \in Students |-> st])
        freqs  == stats[a].class.freqs
    IN  /\ \A i \in 1..Len(freqs) - 1 : freqs[i].score < freqs[i + 1].score
        /\ {freqs[k].score : k \in DOMAIN freqs} = Range(grades)
        /\ \A g \in Range(grades) :
             /\ Count(freqs, g) = Cardinality({i \in DOMAIN grades : grades[i] = g})
             /\ Count(freqs, g) = Total([s \in Sections |-> Count(stats[a].sections[s].freqs, g)])

(* Two scores of one assignment, the first no better than the second, that   *)
(* are normalized over the same group, by numbers that are not negative.     *)
Comparable(s, i, t, j) ==
  LET x == course.students[s].scores[i]
      y == course.students[t].scores[j]
      a == course.assignments[x.asgt]
  IN  /\ x.asgt = y.asgt /\ Tallied(x) /\ Tallied(y) /\ x.grade <= y.grade
      /\ \/ a.policy \in {"RAW", "SCALE"} \/ a.group = "BYCLASS"
         \/ course.students[s].section = course.students[t].section
      /\ (a.policy = "SCALE" => a.scale >= 0) /\ (a.policy = "LINEAR" => a.stddev >= 0)

(* A better score never gets a lower normalized score, within the group it   *)
(* is normalized over, whatever the policy, and unless the declared numbers  *)
(* are negative.                                                            *)
NormMonotone ==
  phase = "composites" =>
    \A s, t \in Range(roster) : \A i \in Scores(s), j \in Scores(t) :
      Comparable(s, i, t, j) => norm[s][i] <= norm[t][j]

(* The summaries of a group: one rises with its percentage, and is between   *)
(* two scores of the group or the highest; at least that percentage of them  *)
(* is at or below it, and no more is below the greatest score it reaches,    *)
(* unless that is the highest of all.                                       *)
Summarized(m, sums) ==
  LET Reached(q) == {k \in DOMAIN m.freqs : m.freqs[k].score <= sums[q]}
  IN  m.freqs # <<>> =>
        \A q \in DOMAIN quantiles :
          /\ q > 1 => sums[q - 1] <= sums[q]
          /\ Reached(q) # {} /\ sums[q] <= Last(m.freqs).score
          /\ NumLess(m.freqs, Max(Reached(q)) + 1) * 100 >= quantiles[q] * m.valid
          /\ sums[q] = Last(m.freqs).score \/ NumLess(m.freqs, Max(Reached(q))) * 100 <= quantiles[q] * m.valid

(* A quantile summary rises with the percentage and stays within the scores  *)
(* of its group; at least that percentage of them is at or below it, and no  *)
(* more is below the greatest score it reaches, unless that is the highest   *)
(* of all, for which summaries settle too soon.  The histograms count every  *)
(* student, and every tallied score unless a grade is below 0, in one of     *)
(* their 50 bins.                                                           *)
ReportsInRange ==
  \A r \in Range(out.report) :
    /\ Range(r.histos.composites) \subseteq 0..49
    /\ \A a \in Assignments :
         /\ \/ \E f \in Range(stats[a].class.freqs) : f.score < 0
            \/ \A k \in DOMAIN r.histos.scores[a] : r.histos.scores[a][k].bin \in 0..49
         /\ \A g \in DOMAIN Groups(a) : Summarized(Groups(a)[g], r.summaries[a][g])

(* A collated course reads back as the course it was, or is refused.  Only a *)
(* LINEAR assignment, which readnorm does not know by this name, is refused; *)
(* only a course with a USENORM score is changed without a word.             *)
Contents(c) ==
  [professor |-> c.professor,
   assignments |-> [a \in DOMAIN c.assignments |->
     LET d == c.assignments[a] IN <<d.name, d.atype, d.weight, d.policy, d.group, d.max, IF d.policy = "SCALE" THEN d.scale ELSE 0>>],
   sections |-> [s \in DOMAIN c.sections |->
     <<c.sections[s].name, c.sections[s].assistant,
       [k \in DOMAIN c.sections[s].roster |->
          LET st == c.students[c.sections[s].roster[k]] IN <<st.id, st.name, st.scores>>]>>]]
ReadsBack ==
  before # NoCourse =>
    LET linear == \E a \in Range(before.assignments) : a.policy = "LINEAR"
        usenorm == \E st \in Range(before.students) : \E sc \in Range(st.scores) : sc.how = "USENORM"
    IN  /\ phase = "failed" => linear
        /\ phase = "normalize" => usenorm \/ Contents(course) = Contents(before)
=============================================================================
