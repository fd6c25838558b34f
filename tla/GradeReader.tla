----------------------------- MODULE GradeReader -----------------------------
(***************************************************************************)
(* The reader of hw2 (read.c): a recursive descent over lines, through     *)
(* files that include files.  A line is a record of its keyword and what   *)
(* follows it; "" stands for a line of blanks, in which the reader finds   *)
(* no token, as at the end of a file (empty lines and comments it skips).  *)
(* A line is bad where a number or a name it should have is missing, or    *)
(* something follows it.  Numbers are in units, see below.                  *)
(***************************************************************************)
EXTENDS Integers, Sequences, SequencesExt, FiniteSetsExt

CONSTANTS Inputs,   \* what the program is run on: its files and its options
          MaxOpen,  \* how many files can be open
          Leftover  \* what numbers the memory of a new assignment may hold

Main == "main"

Substitutes == {"VALID", "USERAW", "USENORM", "USELIKEAVG", "USECLASSAVG"}

(* What a line says where the reader asks for a number is one; a name or an   *)
(* id has a place in the order of all of them.                              *)
Readable(l) ==
  /\ l.kw = "STUDENT" => l.id \in Int /\ l.name \in Int
  /\ l.kw = "SCORE" => l.how \in Substitutes /\ (l.bad \/ l.grade \in Int)
  /\ l.kw \in {"WEIGHT", "MAXIMUM"} => l.bad \/ l.number \in Int
  /\ l.kw = "NORMALIZE" => /\ l.policy # "SCALE" \/ l.scale \in Int
                           /\ l.policy # "GENLINEAR" \/ (l.mean \in Int /\ l.stddev \in Int)

Lines(file) == file \in Seq(Range(file)) /\ \A k \in DOMAIN file : Readable(file[k])

AnInput(i) ==
  /\ i = [files |-> i.files, report |-> i.report, collate |-> i.collate, by |-> i.by]
  /\ Main \in DOMAIN i.files /\ \A f \in DOMAIN i.files : Lines(i.files[f])
  /\ i.by \in {"name", "id", "score"}

ReaderAssumption == MaxOpen \in Nat \ {0} /\ Leftover \subseteq Int /\ \A i \in Inputs : AnInput(i)
ASSUME ReaderAssumption

VARIABLES input,    \* the files there are
          stack,    \* ifile: the open files and the next line of each
          parse,    \* the function that reads next, errors, fatal
          course    \* what has been read

readerVars == <<input, stack, parse, course>>

Unit == 12             \* what is read as 1; a unit is the smallest difference that counts
Unset == -99999        \* no weight

NoCourse == [professor |-> FALSE, assignments |-> <<>>, sections |-> <<>>, students |-> <<>>]

AtStart == <<[file |-> Main, line |-> 1]>>
Concat(seqs) == FoldLeft(\o, <<>>, seqs)
Begun   == [where |-> "course", errors |-> FALSE]

Top   == stack[Len(stack)]
AtEnd == Top.line > Len(input.files[Top.file])
Token == IF AtEnd THEN "" ELSE input.files[Top.file][Top.line].kw
Line  == input.files[Top.file][Top.line]
Next1 == [stack EXCEPT ![Len(stack)].line = @ + 1]

(* A line is read, and with errors if it is bad.                             *)
Take(where) ==
  /\ stack' = Next1
  /\ parse' = [where |-> where, errors |-> parse.errors \/ Line.bad]
  /\ UNCHANGED input

(* The next function is called without anything having been read.            *)
Leave(where) == parse' = [parse EXCEPT !.where = where] /\ UNCHANGED <<input, stack, course>>
Fatal == Leave("fatal")

----------------------------------------------------------------------------
(* readcourse: the first line is taken for the course, whatever it says.     *)
ReadCourse ==
  /\ parse.where = "course"
  /\ IF AtEnd THEN Fatal
     ELSE /\ stack' = Next1
          /\ parse' = [where |-> "professor", errors |-> Token # "COURSE"]
          /\ UNCHANGED <<input, course>>

ReadProfessor ==
  /\ parse.where = "professor"
  /\ IF Token = "PROFESSOR"
     THEN Take("assignment") /\ course' = [course EXCEPT !.professor = TRUE]
     ELSE Leave("assignment")

(* readassignments; mean, stddev and scale of a new one are what was there.  *)
ReadAssignment ==
  /\ parse.where = "assignment"
  /\ IF Token = "ASSIGNMENT"
     THEN /\ Take("option")
          /\ \E old \in Leftover :
               course' = [course EXCEPT !.assignments = Append(@,
                 [name |-> Line.name, atype |-> Line.atype, weight |-> Unset, policy |-> "RAW",
                  group |-> "BYCLASS", max |-> 0, mean |-> old, stddev |-> old, scale |-> old])]
     ELSE Leave("section")

(* readweight, readmax and readnorm                                          *)
WithOption(a, l) ==
  CASE l.kw = "WEIGHT"  -> [a EXCEPT !.weight = IF l.bad THEN Unset ELSE l.number]
    [] l.kw = "MAXIMUM" -> IF l.bad THEN a ELSE [a EXCEPT !.max = l.number]
    [] OTHER -> LET b == [a EXCEPT !.policy = l.policy, !.group = l.group]
                IN  CASE l.policy \in {"RAW", "QUANTILE"} -> b
                      [] l.policy = "STDLINEAR" -> [b EXCEPT !.policy = "LINEAR", !.mean = 0, !.stddev = Unit]
                      [] l.policy = "GENLINEAR" ->
                           [b EXCEPT !.policy = "LINEAR", !.mean = l.mean, !.stddev = l.stddev]
                      [] l.policy = "SCALE" -> [b EXCEPT !.scale = l.scale]
                      [] OTHER -> [a EXCEPT !.policy = "RAW", !.group = "BYCLASS"]

ReadOption ==
  /\ parse.where = "option"
  /\ IF Token \in {"WEIGHT", "NORMALIZE", "MAXIMUM"}
     THEN /\ Take("option")
          /\ course' = [course EXCEPT !.assignments[Len(course.assignments)] = WithOption(@, Line)]
     ELSE Leave("assignment")

----------------------------------------------------------------------------
(* Variant of PreviousFile: a line of the file that included it is skipped.  *)
PreviousFileSkipping == [Front(stack) EXCEPT ![Len(stack) - 1].line = @ + 1]

PreviousFile == Front(stack)

(* pushfile: a file is included by a line that is read before it is opened.  *)
IncludeFile ==
  IF Line.file \in DOMAIN input.files /\ Len(stack) < MaxOpen
  THEN /\ stack' = Append(Next1, [file |-> Line.file, line |-> 1])
       /\ parse' = [parse EXCEPT !.errors = @ \/ Line.bad]
       /\ UNCHANGED <<input, course>>
  ELSE Fatal

(* readsections.  Where there is no token the file that included this one    *)
(* goes on.                                                                 *)
ReadSection ==
  /\ parse.where = "section"
  /\ CASE Token = "" /\ Len(stack) = 1 -> Leave("eof")
       [] Token = "" /\ Len(stack) > 1 ->
            stack' = PreviousFile /\ UNCHANGED <<input, parse, course>>
       [] Token = "FILE" -> IncludeFile
       [] Token = "SECTION" ->
            /\ Take("assistant")
            /\ course' = [course EXCEPT !.sections = Append(@, [name |-> Line.name, assistant |-> FALSE, roster |-> <<>>])]
       [] OTHER -> Leave("eof")

Section == Len(course.sections)
Student == Len(course.students)

ReadAssistant ==
  /\ parse.where = "assistant"
  /\ IF Token = "ASSISTANT"
     THEN Take("student") /\ course' = [course EXCEPT !.sections[Section].assistant = TRUE]
     ELSE Leave("student")

(* readstudents: students are numbered as they are read.                     *)
ReadStudent ==
  /\ parse.where = "student"
  /\ IF Token = "STUDENT"
     THEN /\ Take("score")
          /\ course' = [course EXCEPT
               !.students = Append(@, [id |-> Line.id, name |-> Line.name, section |-> Section, scores |-> <<>>]),
               !.sections[Section].roster = Append(@, Student + 1)]
     ELSE Leave("section")

(* readscores and readgrade: grade is the number, how what replaces it.      *)
ReadScore ==
  /\ parse.where = "score"
  /\ IF Token # "SCORE" THEN Leave("student")
     ELSE LET named == {k \in DOMAIN course.assignments : course.assignments[k].name = Line.asgt}
          IN  IF named = {} THEN Fatal
              ELSE /\ Take("score")
                   /\ course' = [course EXCEPT !.students[Student].scores = Append(@,
                        [asgt |-> Min(named), how |-> Line.how, note |-> Line.note,
                         grade |-> IF Line.bad THEN 0 ELSE Line.grade])]

(* expecteof, after gobbleblanklines: lines of blanks may be left.            *)
Rest == {input.files[Top.file][k].kw : k \in Top.line..Len(input.files[Top.file])}
ExpectEof ==
  /\ parse.where = "eof"
  /\ parse' = [where |-> "done", errors |-> parse.errors \/ ~(Rest \subseteq {""}) \/ Len(stack) > 1]
  /\ stack' = <<stack[1]>>
  /\ UNCHANGED <<input, course>>

Read == \/ ReadCourse \/ ReadProfessor \/ ReadAssignment \/ ReadOption
        \/ ReadSection \/ ReadAssistant \/ ReadStudent \/ ReadScore \/ ExpectEof

----------------------------------------------------------------------------
(* A line, or the lines of the file it includes.                             *)
Piece(deeper, l) == IF l.kw = "FILE" /\ l.file \in DOMAIN deeper THEN deeper[l.file] ELSE <<l>>

(* The lines of a file with those of the files it includes in their place.   *)
Flat ==
  LET flat[n \in 0..MaxOpen] ==
        [f \in DOMAIN input.files |->
           Concat([k \in DOMAIN input.files[f] |->
             Piece(IF n = 0 THEN <<>> ELSE flat[n - 1], input.files[f][k])])]
  IN  flat[MaxOpen][Main]

(* What a line says of the assignments, the sections, or the students; and   *)
(* what the course has of them.                                             *)
Says(what, l) ==
  IF what \in {"ASSIGNMENT", "SECTION"} THEN IF l.kw = what THEN <<l.name>> ELSE <<>>
  ELSE CASE l.kw = "STUDENT" -> <<[id |-> l.id, name |-> l.name]>>
         [] l.kw = "SCORE"   -> <<[asgt |-> l.asgt, grade |-> l.grade]>>
         [] OTHER            -> <<>>
Said(what, lines) == Concat([k \in DOMAIN lines |-> Says(what, lines[k])])

Kept(what) ==
  LET Names(list) == [k \in DOMAIN list |-> list[k].name]
      Score(sc)   == [asgt |-> course.assignments[sc.asgt].name, grade |-> sc.grade]
      Person(st)  == <<[id |-> st.id, name |-> st.name]>> \o [k \in DOMAIN st.scores |-> Score(st.scores[k])]
  IN  CASE what = "ASSIGNMENT" -> Names(course.assignments)
        [] what = "SECTION"    -> Names(course.sections)
        [] what = "STUDENT"    -> Concat([st \in DOMAIN course.students |-> Person(course.students[st])])

Told == {"ASSIGNMENT", "SECTION", "STUDENT"}
=============================================================================
