------------------------------- MODULE MCGrades -------------------------------
(* Two kinds of inputs for GradeBook: small sets of files that include each  *)
(* other, with lines of every kind in every order, and whole courses.        *)
EXTENDS GradeBook

Plain(kw) == [kw |-> kw, bad |-> FALSE]
SectionLine(n)  == [kw |-> "SECTION", bad |-> FALSE, name |-> n]
StudentLine(id, n) == [kw |-> "STUDENT", bad |-> FALSE, id |-> id, name |-> n]
ScoreLine(a, g, how) == [kw |-> "SCORE", bad |-> FALSE, asgt |-> a, grade |-> g * Unit, how |-> how, note |-> <<"late">>]
AssignmentLine(n) == [kw |-> "ASSIGNMENT", bad |-> FALSE, name |-> n, atype |-> "homework"]
FileLine(f) == [kw |-> "FILE", bad |-> FALSE, file |-> f]
NumberLine(kw, n) == [kw |-> kw, bad |-> FALSE, number |-> n * Unit]

(* The files main, f and g; the options do not matter much to the reader.    *)
Small == {SectionLine(1), StudentLine(1, 1), FileLine("f"), Plain("")}
InF   == Small \cup {ScoreLine("hw1", 1, "VALID"), ScoreLine("hw7", 1, "VALID"), Plain("PROFESSOR")}
Head1 == <<Plain("COURSE"), Plain("PROFESSOR"), AssignmentLine("hw1")>>
Heads == {Head1, <<>>, <<Plain("COURSE"), AssignmentLine("hw1"), SectionLine(1), StudentLine(1, 1)>>,
          <<Plain("PROFESSOR"), AssignmentLine("hw1"), [kw |-> "WEIGHT", bad |-> TRUE]>>}
Included ==
  {[files |-> Main :> Head1 \o b @@ "f" :> f @@ "g" :> g, report |-> 0, collate |-> 1, by |-> "name"] :
     b \in BoundedSeq(Small, 2) \cup {<<FileLine("f"), x, y>> : x, y \in Small},
     f \in BoundedSeq(InF \cup {FileLine("g")}, 2),
     g \in {<<>>, <<StudentLine(2, 2)>>, <<FileLine("f")>>}}
  \cup {[files |-> Main :> h, report |-> r, collate |-> c, by |-> "id"] : h \in Heads, r \in 0..2, c \in 0..2}

(* Courses of students 1..n, the first three in the first section.           *)
Students3(n, names, scores) ==
  Concat([k \in 1..n |->
    (IF k = 1 THEN <<SectionLine(1), Plain("ASSISTANT")>> ELSE IF k = 4 THEN <<SectionLine(2)>> ELSE <<>>)
    \o <<StudentLine(n - k, names[k])>> \o scores[k]])
Whole1(head, students) == Main :> <<Plain("COURSE"), Plain("PROFESSOR")>> \o head \o students

(* Five students with every choice of their names.                           *)
Named ==
  {[files |-> Whole1(<<AssignmentLine("hw1"), AssignmentLine("hw2")>>,
                     Students3(5, names, [k \in 1..5 |-> <<ScoreLine("hw1", k % 4, "VALID")>>])),
    report |-> 1, collate |-> 0, by |-> "score"] :
     names \in [1..5 -> 1..3]}

(* Four students with every choice of grades, policies and substitutes.      *)
Norm(policy, group) ==
  IF policy = "RAW" THEN <<>>
  ELSE <<[kw |-> "NORMALIZE", bad |-> FALSE, policy |-> policy, group |-> group,
          mean |-> 50 * Unit, stddev |-> 10 * Unit, scale |-> 100 * Unit]>>
Policies == {<<"RAW", "BYCLASS">>, <<"STDLINEAR", "BYCLASS">>, <<"GENLINEAR", "BYSECTION">>, <<"SCALE", "BYCLASS">>,
             <<"QUANTILE", "BYCLASS">>, <<"QUANTILE", "BYSECTION">>}
Grades == {g \in [1..4 -> {0, 1, 3}] : g[1] >= g[3]}
Few    == {<<3, 0, 1, 1>>, <<0, 0, 0, 0>>, <<-1, 0, 1, 3>>}
Replaced == {"USERAW", "USENORM", "USELIKEAVG", "USECLASSAVG"}
Graded ==
  {[files |-> Whole1(<<AssignmentLine("hw1")>> \o Norm(p[1], p[2])
                        \o (IF full THEN <<NumberLine("WEIGHT", 2), NumberLine("MAXIMUM", 2)>> ELSE <<>>)
                        \o (IF c[2] = "USELIKEAVG" THEN <<AssignmentLine("hw2")>> ELSE <<>>),
                     Students3(4, <<2, 1, 2, 3>>, [k \in 1..4 |->
                       <<ScoreLine("hw1", c[1][k], IF k = 2 THEN c[2] ELSE "VALID")>>
                         \o (IF c[2] = "USELIKEAVG" /\ k < 3 THEN <<ScoreLine("hw2", k, "VALID")>> ELSE <<>>)])),
    report |-> 1 - collate, collate |-> collate, by |-> "score"] :
     p \in Policies, full \in BOOLEAN, collate \in {0, 1},
     c \in (Grades \X {"VALID"}) \cup (Few \X Replaced)}

MCLeftover == {7 * Unit, -7 * Unit}
MCInputs == Included \cup Named \cup Graded
=============================================================================
