-------------------------- MODULE GradeNumberProofs --------------------------
(***************************************************************************)
(* Proofs about the numbers of GradeBook: what the reader reads and what is *)
(* written is numbers, the tables of stats.c count what was given, normal.c *)
(* keeps the order of the scores, and so sort.c has numbers to sort.       *)
(***************************************************************************)
EXTENDS GradeBookProofs

----------------------------------------------------------------------------
(* Numbers *)

(* What a fold comes to is known when each of its turns is one of a solution *)
(* of its recursion.                                                        *)
LEMMA FoldIs ==
  ASSUME NEW n \in Nat, NEW it, NEW f, f[{}] = it[{}],
         \A k \in 1..n : f[1..(k - 1)] = it[1..(k - 1)] => f[1..k] = it[1..k]
  PROVE  f[1..n] = it[1..n]
<1>1. PICK D : D = {k \in 0..n : f[1..k] = it[1..k]}
  OBVIOUS
<1>2. 0 \in D
  <2>1. 1..0 = {} /\ 0 \in 0..n
    OBVIOUS
  <2> QED
    BY <1>1, <2>1
<1>3. ASSUME NEW k \in 0..(n - 1), k \in D PROVE k + 1 \in D
  <2>1. PICK j \in 1..n : j = k + 1 /\ j - 1 = k /\ j \in 0..n
    OBVIOUS
  <2>2. f[1..k] = it[1..k]
    BY <1>1, <1>3
  <2>3. f[1..(j - 1)] = it[1..(j - 1)]
    BY ONLY <2>1, <2>2
  <2>4. f[1..j] = it[1..j]
    BY <2>3
  <2>5. j \in D
    BY <1>1, <2>1, <2>4
  <2> QED
    BY ONLY <2>1, <2>5
<1>4. n \in D
  <2>1. \A k \in 0..n : k \in D
    BY ONLY <1>2, <1>3, n \in Nat, UpTo
  <2> QED
    BY <2>1
<1> QED
  BY <1>1, <1>4

(* The sums of the first k of n numbers. *)
Sums(p, xs, n) == p \in [0..n -> Int] /\ p[0] = 0 /\ \A k \in 1..n : p[k] = p[k - 1] + xs[k]

(* Total adds one number after the other. *)
LEMMA TotalSums ==
  ASSUME NEW n \in Nat, NEW xs \in [1..n -> Int]
  PROVE  \E p : Sums(p, xs, n) /\ Total(xs) = p[n]
<1> DEFINE I == CHOOSE it : it = [s \in SUBSET DOMAIN xs |-> IF s = {} THEN 0 ELSE it[s \ {Max(s)}] + xs[Max(s)]]
<1>1. Total(xs) = I[DOMAIN xs]
  BY DEF Total, FoldLeft, MapThenFoldSet
<1>2. PICK step : step = [x \in Int \X Int |-> x[1] + x[2]]
  OBVIOUS
<1>3. step \in [Int \X Int -> Int] /\ \A x, y \in Int : step[<<x, y>>] = x + y
  BY <1>2
<1>4. PICK it \in [SUBSET (1..n) -> Int] : Folds(it, n, 0, step, xs)
  BY ONLY <1>3, 0 \in Int, n \in Nat, xs \in [1..n -> Int], FoldExists
<1>5. it = [s \in SUBSET (1..n) |-> IF s = {} THEN 0 ELSE it[s \ {Max(s)}] + xs[Max(s)]]
  <2>1. ASSUME NEW s \in SUBSET (1..n), s # {} PROVE it[s] = it[s \ {Max(s)}] + xs[Max(s)]
    <3>1. Max(s) \in 1..n /\ s \ {Max(s)} \in SUBSET (1..n)
      BY <2>1, MaxThere
    <3>2. it[s \ {Max(s)}] \in Int /\ xs[Max(s)] \in Int
      BY <3>1
    <3>3. it[s] = step[<<it[s \ {Max(s)}], xs[Max(s)]>>]
      BY <1>4, <2>1 DEF Folds
    <3> QED
      BY <1>3, <3>2, <3>3
  <2>2. ASSUME NEW s \in SUBSET (1..n), s = {} PROVE it[s] = 0
    BY <1>4, <2>2 DEF Folds
  <2>3. it = [s \in SUBSET (1..n) |-> it[s]]
    OBVIOUS
  <2> QED
    BY <2>1, <2>2, <2>3
<1>6. I = [s \in SUBSET (1..n) |-> IF s = {} THEN 0 ELSE I[s \ {Max(s)}] + xs[Max(s)]]
  <2>1. DOMAIN xs = 1..n
    OBVIOUS
  <2> QED
    BY <1>5, <2>1
<1> HIDE DEF I
<1>7. PICK p : p = [k \in 0..n |-> it[1..k]]
  OBVIOUS
<1>8. p[0] = 0 /\ p \in [0..n -> Int]
  <2>1. 1..0 = {} /\ {} \in SUBSET (1..n) /\ 0 \in 0..n /\ \A k \in 0..n : 1..k \in SUBSET (1..n)
    OBVIOUS
  <2> QED
    BY <1>4, <1>5, <1>7, <2>1
<1>9. ASSUME NEW k \in 1..n PROVE p[k] = p[k - 1] + xs[k]
  <2>1. k \in 0..n /\ k - 1 \in 0..n
    OBVIOUS
  <2>2. PICK s \in SUBSET (1..n) : s = 1..k /\ s # {} /\ Max(s) = k /\ s \ {k} = 1..(k - 1)
    BY FirstParts
  <2>3. it[s] = it[s \ {Max(s)}] + xs[Max(s)]
    BY <1>5, <2>2
  <2> QED
    BY <1>7, <2>1, <2>2, <2>3
<1>10. I[1..n] = it[1..n]
  <2>1. I[{}] = it[{}]
    BY <1>5, <1>6
  <2>2. ASSUME NEW k \in 1..n, I[1..(k - 1)] = it[1..(k - 1)] PROVE I[1..k] = it[1..k]
    <3>1. PICK s \in SUBSET (1..n) : s = 1..k /\ s # {} /\ Max(s) = k /\ s \ {k} = 1..(k - 1)
      BY FirstParts
    <3>2. I[s] = I[s \ {Max(s)}] + xs[Max(s)] /\ it[s] = it[s \ {Max(s)}] + xs[Max(s)]
      BY <1>5, <1>6, <3>1
    <3> QED
      BY <2>2, <3>1, <3>2
  <2> QED
    BY ONLY <2>1, <2>2, n \in Nat, FoldIs
<1>11. Total(xs) = p[n]
  <2>1. DOMAIN xs = 1..n /\ n \in 0..n
    OBVIOUS
  <2> QED
    BY <1>1, <1>7, <1>10, <2>1
<1> QED
  BY <1>8, <1>9, <1>11 DEF Sums

(* The sum of numbers is one. *)
LEMMA TotalIsNumber ==
  ASSUME NEW n \in Nat, NEW xs \in [1..n -> Int]
  PROVE  Total(xs) \in Int
<1>1. PICK p : Sums(p, xs, n) /\ Total(xs) = p[n]
  BY TotalSums
<1> QED
  BY <1>1 DEF Sums

(* A sum of more, none below 0, is not less. *)
LEMMA TotalGrows ==
  ASSUME NEW m \in Nat, NEW n \in Nat, m <= n, NEW xs \in [1..n -> Nat], NEW ys \in [1..m -> Nat],
         \A k \in 1..m : ys[k] = xs[k]
  PROVE  Total(ys) \in Nat /\ Total(xs) \in Nat /\ Total(ys) <= Total(xs)
<1>1. PICK p : Sums(p, xs, n) /\ Total(xs) = p[n]
  <2>1. xs \in [1..n -> Int]
    OBVIOUS
  <2> QED
    BY <2>1, TotalSums
<1>2. PICK q : Sums(q, ys, m) /\ Total(ys) = q[m]
  <2>1. ys \in [1..m -> Int]
    OBVIOUS
  <2> QED
    BY <2>1, TotalSums
<1>3. PICK D : D = {k \in 0..n : p[k] \in Nat /\ (k <= m => q[k] = p[k]) /\ (k >= m => q[m] <= p[k])}
  OBVIOUS
<1>4. 0 \in D
  BY <1>1, <1>2, <1>3 DEF Sums
<1>5. ASSUME NEW k \in 0..(n - 1), k \in D PROVE k + 1 \in D
  <2>1. k + 1 \in 1..n /\ (k + 1) - 1 = k /\ k + 1 \in 0..n
    OBVIOUS
  <2>2. PICK a \in Nat, x \in Nat : a = p[k] /\ x = xs[k + 1] /\ p[k + 1] = a + x
    BY <1>1, <1>3, <1>5, <2>1 DEF Sums
  <2>3. CASE k + 1 <= m
    <3>1. k + 1 \in 1..m /\ k <= m
      BY <2>3
    <3>2. q[k] = a /\ q[k + 1] = q[k] + ys[k + 1] /\ ys[k + 1] = x
      BY <1>2, <1>3, <1>5, <2>1, <2>2, <3>1 DEF Sums
    <3>3. q[k + 1] = a + x /\ a + x \in Nat
      BY ONLY <3>2, a \in Nat, x \in Nat
    <3>4. k + 1 >= m => k + 1 = m
      BY <2>3
    <3>5. k + 1 >= m => q[m] <= p[k + 1]
      BY ONLY <2>2, <3>3, <3>4, a \in Nat, x \in Nat
    <3> QED
      BY <1>3, <2>1, <2>2, <3>3, <3>5
  <2>4. CASE ~(k + 1 <= m)
    <3>1. k >= m /\ q[m] <= a
      BY <1>3, <1>5, <2>2, <2>4
    <3>2. PICK b \in Int : b = q[m]
      BY <1>2 DEF Sums
    <3>3. b <= a + x /\ a + x \in Nat
      BY ONLY <3>1, <3>2, a \in Nat, x \in Nat, b \in Int
    <3> QED
      BY <1>3, <2>1, <2>2, <2>4, <3>2, <3>3
  <2> QED
    BY <2>3, <2>4
<1>6. \A k \in 0..n : k \in D
  BY ONLY <1>4, <1>5, n \in Nat, UpTo
<1>7. n \in 0..n /\ m \in 0..n /\ n >= m /\ m <= m
  OBVIOUS
<1> QED
  BY <1>1, <1>2, <1>3, <1>6, <1>7

----------------------------------------------------------------------------
(* What is read *)

(* The open files, the next line of each. *)
AnOpen(o, files) == o = [file |-> o.file, line |-> o.line] /\ o.file \in DOMAIN files /\ o.line \in Nat \ {0}
Opened(st, files) == st \in Seq(Range(st)) /\ st # <<>> /\ \A k \in 1..Len(st) : AnOpen(st[k], files)

(* A list of open files. *)
LEMMA OpenedIs ==
  ASSUME NEW files, NEW n \in Nat \ {0}, NEW f, DOMAIN f = 1..n, f = [k \in 1..n |-> f[k]], \A k \in 1..n : AnOpen(f[k], files)
  PROVE  Opened(f, files) /\ Len(f) = n
<1>1. PICK X : X = {f[k] : k \in 1..n}
  OBVIOUS
<1>2. f \in [1..n -> X]
  BY <1>1
<1>3. f \in Seq(X) /\ Len(f) = n
  BY ONLY <1>2, n \in Nat \ {0}
<1>4. f # <<>>
  BY ONLY <1>3, n \in Nat \ {0}
<1> QED
  BY <1>3, <1>4, SeqIsListed DEF Listed, Opened

(* The next line of the last file opened; a file opened then; the files      *)
(* before; the first of them.                                               *)
LEMMA OpenedSteps ==
  ASSUME NEW st, NEW files, Opened(st, files)
  PROVE  /\ Opened([st EXCEPT ![Len(st)].line = @ + 1], files)
         /\ AnOpen(st[Len(st)], files)
         /\ Len(st) > 1 => Opened(Front(st), files)
         /\ Opened(<<st[1]>>, files)
         /\ \A o : AnOpen(o, files) => Opened(Append(st, o), files)
<1>1. PICK n \in Nat \ {0} : n = Len(st) /\ st = [k \in 1..n |-> st[k]] /\ DOMAIN st = 1..n /\ \A k \in 1..n : AnOpen(st[k], files)
  BY DEF Opened
<1>2. AnOpen(st[n], files) /\ AnOpen(st[1], files)
  <2>1. n \in 1..n /\ 1 \in 1..n
    OBVIOUS
  <2> QED
    BY <1>1, <2>1
<1>3. Opened([st EXCEPT ![n].line = @ + 1], files)
  <2>1. PICK o, p : o = st[n] /\ p = [o EXCEPT !.line = @ + 1]
    OBVIOUS
  <2>2. AnOpen(p, files)
    <3>0. PICK f : f = o.file
      OBVIOUS
    <3>1. PICK l \in Nat \ {0} : o = [file |-> f, line |-> l] /\ f \in DOMAIN files
      BY <1>2, <2>1, <3>0 DEF AnOpen
    <3>2. p = [file |-> f, line |-> l + 1] /\ l + 1 \in Nat \ {0}
      BY ONLY <2>1, <3>1, l \in Nat \ {0}
    <3>3. p.file = f /\ p.line = l + 1
      BY ONLY <3>2
    <3> QED
      BY ONLY <3>1, <3>2, <3>3 DEF AnOpen
  <2>3. PICK f : f = [st EXCEPT ![n].line = @ + 1]
    OBVIOUS
  <2>4. f = [k \in 1..n |-> IF k = n THEN p ELSE st[k]]
    BY ONLY <1>1, <2>1, <2>3
  <2>5. \A k \in 1..n : AnOpen(f[k], files)
    BY <1>1, <2>2, <2>4 DEF Opened
  <2>6. DOMAIN f = 1..n /\ f = [k \in 1..n |-> f[k]]
    BY ONLY <2>4
  <2> QED
    BY <2>3, <2>5, <2>6, OpenedIs
<1>4. ASSUME n > 1 PROVE Opened(Front(st), files)
  <2>1. PICK m \in Nat \ {0} : m = n - 1
    BY <1>4
  <2>2. PICK f : f = Front(st)
    OBVIOUS
  <2>3. f = [k \in 1..m |-> st[k]]
    <3>1. Front(st) = SubSeq(st, 1, Len(st) - 1)
      BY DEF Front
    <3>2. st \in Seq(Range(st))
      BY DEF Opened
    <3>3. PICK X : X = Range(st)
      OBVIOUS
    <3>4. f = SubSeq(st, 1, m)
      BY ONLY <1>1, <2>1, <2>2, <3>1
    <3> QED
      BY ONLY <1>1, <2>1, <3>2, <3>3, <3>4, n \in Nat \ {0}, m \in Nat \ {0}
  <2>4. DOMAIN f = 1..m /\ f = [k \in 1..m |-> f[k]]
    BY ONLY <2>3
  <2>5. \A k \in 1..m : AnOpen(f[k], files)
    <3>1. \A k \in 1..m : k \in 1..n
      BY ONLY <2>1, n \in Nat \ {0}, m \in Nat \ {0}
    <3> QED
      BY <1>1, <2>3, <3>1
  <2> QED
    BY <2>2, <2>4, <2>5, OpenedIs
<1>5. Opened(<<st[1]>>, files)
  <2>1. PICK f : f = <<st[1]>>
    OBVIOUS
  <2>2. DOMAIN f = 1..1 /\ f = [k \in 1..1 |-> f[k]] /\ \A k \in 1..1 : f[k] = st[1]
    BY ONLY <2>1
  <2> QED
    <3>1. \A k \in 1..1 : AnOpen(f[k], files)
      BY ONLY <1>2, <2>2
    <3>2. 1 \in Nat \ {0}
      OBVIOUS
    <3>3. Opened(f, files)
      BY ONLY <2>2, <3>1, <3>2, OpenedIs
    <3> QED
      BY ONLY <2>1, <3>3
<1>6. ASSUME NEW o, AnOpen(o, files) PROVE Opened(Append(st, o), files)
  <2>0. PICK m \in Nat \ {0} : m = n + 1
    OBVIOUS
  <2>1. PICK f : f = Append(st, o) /\ m = n + 1
    BY <2>0
  <2>2. st \in Seq(Range(st))
    BY DEF Opened
  <2>3. f = [k \in 1..m |-> IF k = m THEN o ELSE st[k]]
    BY ONLY <1>1, <2>1, <2>2, n \in Nat \ {0}, m \in Nat \ {0}
  <2>4. DOMAIN f = 1..m /\ f = [k \in 1..m |-> f[k]]
    BY ONLY <2>3
  <2>5. \A k \in 1..m : AnOpen(f[k], files)
    <3>1. \A k \in 1..m : k = m \/ k \in 1..n
      BY ONLY <2>1, n \in Nat \ {0}, m \in Nat \ {0}
    <3> QED
      BY <1>1, <1>6, <2>3, <3>1
  <2> QED
    BY <2>1, <2>4, <2>5, OpenedIs
<1> QED
  BY <1>1, <1>2, <1>3, <1>4, <1>5, <1>6

(* A line that is read says what can be read. *)
LEMMA LineReads ==
  ASSUME AnInput(input), Opened(stack, input.files), Token # ""
  PROVE  Readable(Line) /\ Line.kw = Token
<1>1. AnOpen(Top, input.files)
  BY OpenedSteps DEF Top
<1>2. PICK f, l, file : f = Top.file /\ l = Top.line /\ file = input.files[f]
  OBVIOUS
<1>3. f \in DOMAIN input.files /\ l \in Nat \ {0}
  BY <1>1, <1>2 DEF AnOpen
<1>4. file \in Seq(Range(file)) /\ \A k \in DOMAIN file : Readable(file[k])
  BY <1>2, <1>3 DEF AnInput, Lines
<1>5. ~AtEnd
  BY DEF Token
<1>6. ~(l > Len(file))
  BY <1>2, <1>5 DEF AtEnd
<1>7. l \in DOMAIN file
  <2>1. Len(file) \in Nat /\ DOMAIN file = 1..Len(file)
    BY ONLY <1>4, LenProperties
  <2> QED
    BY ONLY <1>3, <1>6, <2>1
<1>8. Line = file[l] /\ Token = file[l].kw
  BY <1>2, <1>5 DEF Line, Token
<1> QED
  BY <1>4, <1>7, <1>8

(* The files stay as they are while they are read, and the reader is at a    *)
(* line of each, or after its last.                                         *)
LEMMA ReadOpens ==
  ASSUME Opened(stack, input.files), Read
  PROVE  input' = input /\ Opened(stack', input.files)
<1>1. /\ Opened(Next1, input.files) /\ Opened(<<stack[1]>>, input.files)
      /\ Len(stack) > 1 => Opened(Front(stack), input.files)
      /\ \A o : AnOpen(o, input.files) => Opened(Append(Next1, o), input.files)
  <2>1. Opened(Next1, input.files)
    BY OpenedSteps DEF Next1
  <2> QED
    BY <2>1, OpenedSteps
<1>2. ASSUME NEW w, Take(w) \/ Leave(w) \/ Fatal PROVE input' = input /\ Opened(stack', input.files)
  BY <1>1, <1>2 DEF Take, Leave, Fatal
<1>3. CASE ReadCourse
  BY <1>1, <1>2, <1>3 DEF ReadCourse
<1>4. CASE ReadProfessor \/ ReadAssignment \/ ReadOption \/ ReadAssistant \/ ReadStudent
  BY <1>2, <1>4 DEF ReadProfessor, ReadAssignment, ReadOption, ReadAssistant, ReadStudent
<1>5. CASE ReadScore
  BY <1>2, <1>5 DEF ReadScore
<1>6. CASE ReadSection
  <2>1. ASSUME IncludeFile PROVE input' = input /\ Opened(stack', input.files)
    <3>1. CASE Fatal
      BY <1>2, <3>1
    <3>2. CASE ~Fatal
      <4>1. /\ Line.file \in DOMAIN input.files /\ input' = input
            /\ stack' = Append(Next1, [file |-> Line.file, line |-> 1])
        BY <2>1, <3>2 DEF IncludeFile
      <4>2. PICK o : o = [file |-> Line.file, line |-> 1]
        OBVIOUS
      <4>3. AnOpen(o, input.files)
        BY <4>1, <4>2 DEF AnOpen
      <4> QED
        BY <1>1, <4>1, <4>2, <4>3
    <3> QED
      BY <3>1, <3>2
  <2>2. CASE Token = ""
    <3>1. Leave("eof") \/ (Len(stack) > 1 /\ stack' = PreviousFile /\ UNCHANGED input)
      <4>1. PICK X : stack \in Seq(X) /\ stack # <<>>
        BY DEF Opened
      <4>2. Len(stack) = 1 \/ Len(stack) > 1
        BY ONLY <4>1
      <4> QED
        BY <1>6, <2>2, <4>2 DEF ReadSection
    <3> QED
      BY <1>1, <1>2, <3>1 DEF PreviousFile
  <2>3. CASE Token = "FILE"
    BY <1>6, <2>1, <2>3 DEF ReadSection
  <2>4. CASE Token = "SECTION"
    <3>1. Take("assistant")
      BY <1>6, <2>4 DEF ReadSection
    <3> QED
      BY <1>2, <3>1
  <2>5. CASE Token \notin {"", "FILE", "SECTION"}
    <3>1. Leave("eof")
      BY <1>6, <2>5 DEF ReadSection
    <3> QED
      BY <1>2, <3>1
  <2> QED
    BY <2>2, <2>3, <2>4, <2>5
<1>7. CASE ExpectEof
  BY <1>1, <1>7 DEF ExpectEof
<1> QED
  BY <1>3, <1>4, <1>5, <1>6, <1>7 DEF Read

(* What stands for a number in a course is one, and a score is for one of    *)
(* the assignments.                                                         *)
Known == {"RAW", "LINEAR", "SCALE", "QUANTILE"}
AsgtOK(a) ==
  /\ a = [name |-> a.name, atype |-> a.atype, weight |-> a.weight, policy |-> a.policy, group |-> a.group,
          max |-> a.max, mean |-> a.mean, stddev |-> a.stddev, scale |-> a.scale]
  /\ a.weight \in Int /\ a.max \in Int /\ a.mean \in Int /\ a.stddev \in Int /\ a.scale \in Int /\ a.policy \in Known
ScoreOK(sc, asgts)   == sc.asgt \in asgts /\ sc.how \in Substitutes /\ sc.grade \in Int
StudentOK(st, asgts) ==
  /\ st.id \in Int /\ st.name \in Int /\ Listed(st.scores)
  /\ \A k \in DOMAIN st.scores : ScoreOK(st.scores[k], asgts)
NumbersOK(c) ==
  /\ \A a \in DOMAIN c.assignments : AsgtOK(c.assignments[a])
  /\ \A st \in DOMAIN c.students : StudentOK(c.students[st], DOMAIN c.assignments)

(* readweight, readmax and readnorm read numbers. *)
LEMMA OptionOK ==
  ASSUME NEW a, AsgtOK(a), NEW l, Readable(l), l.kw \in {"WEIGHT", "NORMALIZE", "MAXIMUM"}
  PROVE  AsgtOK(WithOption(a, l))
<1> DEFINE Same(b) == b = [name |-> b.name, atype |-> b.atype, weight |-> b.weight, policy |-> b.policy, group |-> b.group,
                           max |-> b.max, mean |-> b.mean, stddev |-> b.stddev, scale |-> b.scale]
<1>1. Same(a)
  BY DEF AsgtOK
<1>2. a.weight \in Int /\ a.max \in Int /\ a.mean \in Int /\ a.stddev \in Int /\ a.scale \in Int /\ a.policy \in Known
  BY DEF AsgtOK
<1>3. Unset \in Int /\ Unit \in Int
  BY DEF Unset, Unit
<1>4. ASSUME NEW w \in Int, NEW b, b = [a EXCEPT !.weight = w] PROVE AsgtOK(b)
  <2>1. b = [name |-> a.name, atype |-> a.atype, weight |-> w, policy |-> a.policy, group |-> a.group,
             max |-> a.max, mean |-> a.mean, stddev |-> a.stddev, scale |-> a.scale]
    BY ONLY <1>1, <1>4
  <2> QED
    BY ONLY <1>2, <2>1, w \in Int DEF AsgtOK
<1>5. ASSUME NEW w \in Int, NEW b, b = [a EXCEPT !.max = w] PROVE AsgtOK(b)
  <2>1. b = [name |-> a.name, atype |-> a.atype, weight |-> a.weight, policy |-> a.policy, group |-> a.group,
             max |-> w, mean |-> a.mean, stddev |-> a.stddev, scale |-> a.scale]
    BY ONLY <1>1, <1>5
  <2> QED
    BY ONLY <1>2, <2>1, w \in Int DEF AsgtOK
<1>6. ASSUME NEW p \in Known, NEW g, NEW m \in Int, NEW d \in Int, NEW s \in Int, NEW b,
             b = [name |-> a.name, atype |-> a.atype, weight |-> a.weight, policy |-> p, group |-> g,
                  max |-> a.max, mean |-> m, stddev |-> d, scale |-> s]
      PROVE  AsgtOK(b)
  BY ONLY <1>2, <1>6, p \in Known, m \in Int, d \in Int, s \in Int DEF AsgtOK
<1>7. CASE l.kw = "WEIGHT"
  <2>1. WithOption(a, l) = [a EXCEPT !.weight = IF l.bad THEN Unset ELSE l.number]
    BY <1>7 DEF WithOption
  <2>2. PICK w \in Int : w = IF l.bad THEN Unset ELSE l.number
    BY <1>3, <1>7 DEF Readable
  <2>3. WithOption(a, l) = [a EXCEPT !.weight = w]
    BY ONLY <2>1, <2>2
  <2> QED
    BY <1>4, <2>3
<1>8. CASE l.kw = "MAXIMUM"
  <2>1. CASE l.bad
    BY <1>8, <2>1 DEF WithOption
  <2>2. CASE ~l.bad
    <3>1. WithOption(a, l) = [a EXCEPT !.max = l.number] /\ l.number \in Int
      BY <1>8, <2>2 DEF WithOption, Readable
    <3> QED
      BY <1>5, <3>1
  <2> QED
    BY <2>1, <2>2
<1>9. CASE l.kw = "NORMALIZE"
  <2>1. PICK b : b = [a EXCEPT !.policy = l.policy, !.group = l.group]
    OBVIOUS
  <2>2. PICK p, g : p = l.policy /\ g = l.group
    OBVIOUS
  <2>3. b = [name |-> a.name, atype |-> a.atype, weight |-> a.weight, policy |-> p, group |-> g,
             max |-> a.max, mean |-> a.mean, stddev |-> a.stddev, scale |-> a.scale]
    BY ONLY <1>1, <2>1, <2>2
  <2>4. CASE p \in {"RAW", "QUANTILE"}
    <3>1. WithOption(a, l) = b
      BY <1>9, <2>1, <2>2, <2>4 DEF WithOption
    <3> QED
      BY <1>2, <1>6, <2>3, <2>4, <3>1 DEF Known
  <2>5. CASE p = "STDLINEAR"
    <3>1. WithOption(a, l) = [b EXCEPT !.policy = "LINEAR", !.mean = 0, !.stddev = Unit]
      BY <1>9, <2>1, <2>2, <2>5 DEF WithOption
    <3>2. WithOption(a, l) = [name |-> a.name, atype |-> a.atype, weight |-> a.weight, policy |-> "LINEAR", group |-> g,
             max |-> a.max, mean |-> 0, stddev |-> Unit, scale |-> a.scale]
      BY ONLY <2>3, <3>1
    <3> QED
      BY <1>2, <1>3, <1>6, <3>2 DEF Known
  <2>6. CASE p = "GENLINEAR"
    <3>1. WithOption(a, l) = [b EXCEPT !.policy = "LINEAR", !.mean = l.mean, !.stddev = l.stddev]
      BY <1>9, <2>1, <2>2, <2>6 DEF WithOption
    <3>2. l.mean \in Int /\ l.stddev \in Int
      BY <1>9, <2>2, <2>6 DEF Readable
    <3>3. WithOption(a, l) = [name |-> a.name, atype |-> a.atype, weight |-> a.weight, policy |-> "LINEAR", group |-> g,
             max |-> a.max, mean |-> l.mean, stddev |-> l.stddev, scale |-> a.scale]
      BY ONLY <2>3, <3>1
    <3> QED
      BY <1>2, <1>6, <3>2, <3>3 DEF Known
  <2>7. CASE p = "SCALE"
    <3>1. WithOption(a, l) = [b EXCEPT !.scale = l.scale]
      BY <1>9, <2>1, <2>2, <2>7 DEF WithOption
    <3>2. l.scale \in Int
      BY <1>9, <2>2, <2>7 DEF Readable
    <3>3. WithOption(a, l) = [name |-> a.name, atype |-> a.atype, weight |-> a.weight, policy |-> p, group |-> g,
             max |-> a.max, mean |-> a.mean, stddev |-> a.stddev, scale |-> l.scale]
      BY ONLY <2>3, <3>1
    <3> QED
      BY <1>2, <1>6, <2>7, <3>2, <3>3 DEF Known
  <2>8. CASE p \notin {"RAW", "QUANTILE", "STDLINEAR", "GENLINEAR", "SCALE"}
    <3>1. WithOption(a, l) = [a EXCEPT !.policy = "RAW", !.group = "BYCLASS"]
      BY <1>9, <2>1, <2>2, <2>8 DEF WithOption
    <3>2. WithOption(a, l) = [name |-> a.name, atype |-> a.atype, weight |-> a.weight, policy |-> "RAW", group |-> "BYCLASS",
             max |-> a.max, mean |-> a.mean, stddev |-> a.stddev, scale |-> a.scale]
      BY ONLY <1>1, <3>1
    <3> QED
      BY <1>2, <1>6, <3>2 DEF Known
  <2> QED
    BY <2>4, <2>5, <2>6, <2>7, <2>8
<1> QED
  BY <1>7, <1>8, <1>9

(* More assignments leave the students' scores as good as they were. *)
LEMMA NumbersStay ==
  ASSUME NEW c, NEW d, NumbersOK(c), d.students = c.students, DOMAIN c.assignments \subseteq DOMAIN d.assignments,
         \A a \in DOMAIN d.assignments : AsgtOK(d.assignments[a])
  PROVE  NumbersOK(d)
<1>1. ASSUME NEW st \in DOMAIN d.students PROVE StudentOK(d.students[st], DOMAIN d.assignments)
  <2>1. StudentOK(c.students[st], DOMAIN c.assignments)
    BY DEF NumbersOK
  <2> QED
    BY <2>1 DEF StudentOK, ScoreOK
<1> QED
  BY <1>1 DEF NumbersOK

(* The least of numbers. *)
LEMMA MinIn ==
  ASSUME NEW s \in SUBSET Nat, s # {}
  PROVE  Min(s) \in s /\ \A x \in s : Min(s) <= x
<1>1. PICK m \in s : \A x \in s : m <= x
  BY LeastNumber
<1>2. PICK g : g = Min(s)
  OBVIOUS
<1>3. \E x \in s : \A y \in s : x <= y
  BY <1>1
<1>4. g \in s /\ \A x \in s : g <= x
  BY <1>2, <1>3 DEF Min
<1> QED
  BY <1>2, <1>4

(* A list with one more. *)
LEMMA ListedMore ==
  ASSUME NEW s, Listed(s), NEW x
  PROVE  /\ Listed(Append(s, x)) /\ Len(Append(s, x)) = Len(s) + 1 /\ Append(s, x)[Len(s) + 1] = x
         /\ DOMAIN Append(s, x) = 1..(Len(s) + 1) /\ \A i \in 1..Len(s) : Append(s, x)[i] = s[i]
<1>1. PICK X : X = Range(s) \cup {x}
  OBVIOUS
<1>2. s \in Seq(X) /\ x \in X
  BY <1>1, SeqGrows DEF Listed
<1>3. /\ Append(s, x) \in Seq(X) /\ Len(Append(s, x)) = Len(s) + 1 /\ Append(s, x)[Len(s) + 1] = x
      /\ \A i \in 1..Len(s) : Append(s, x)[i] = s[i]
  BY ONLY <1>2, AppendProperties
<1>4. DOMAIN Append(s, x) = 1..(Len(s) + 1)
  BY ONLY <1>3, LenProperties
<1> QED
  BY <1>3, <1>4, SeqIsListed

(* What is in it is the new one, or was there. *)
LEMMA MoreIs ==
  ASSUME NEW s, Listed(s), NEW x
  PROVE  /\ Listed(Append(s, x)) /\ DOMAIN s \subseteq DOMAIN Append(s, x)
         /\ \A i \in DOMAIN Append(s, x) : Append(s, x)[i] = x \/ (i \in DOMAIN s /\ Append(s, x)[i] = s[i])
<1>1. PICK t, n : t = Append(s, x) /\ n = Len(s)
  OBVIOUS
<1>2. /\ Listed(t) /\ t[n + 1] = x /\ DOMAIN t = 1..(n + 1) /\ \A i \in 1..n : t[i] = s[i]
  BY <1>1, ListedMore
<1>3. n \in Nat /\ DOMAIN s = 1..n
  BY <1>1, LenProperties DEF Listed
<1>4. \A i \in 1..(n + 1) : i = n + 1 \/ i \in 1..n
  BY ONLY <1>3
<1>5. \A i \in 1..n : i \in 1..(n + 1)
  BY ONLY <1>3
<1>6. \A i \in DOMAIN t : t[i] = x \/ (i \in DOMAIN s /\ t[i] = s[i])
  BY ONLY <1>2, <1>3, <1>4
<1>7. DOMAIN s \subseteq DOMAIN t
  BY ONLY <1>2, <1>3, <1>5
<1> QED
  BY <1>1, <1>2, <1>6, <1>7

(* Whatever lines there are: what is read for a number is one. *)
LEMMA ReadNumbers ==
  ASSUME CourseOK(course), ReadInv, NumbersOK(course), AnInput(input), Opened(stack, input.files), Read
  PROVE  NumbersOK(course')
<1>0. course = [professor |-> course.professor, assignments |-> course.assignments, sections |-> course.sections,
                students |-> course.students]
  BY CourseFields
<1>1. PICK as : as = course.assignments
  OBVIOUS
<1>2. Listed(as) /\ \A a \in DOMAIN as : AsgtOK(as[a])
  <2>1. Listed(as)
    BY <1>1, SeqIsListed DEF ReadInv, AssignmentsListed
  <2> QED
    BY <1>1, <2>1 DEF NumbersOK
<1>3. PICK sts : sts = course.students
  OBVIOUS
<1>4. Listed(sts) /\ \A st \in DOMAIN sts : StudentOK(sts[st], DOMAIN as)
  <2>1. Listed(sts)
    BY <1>3, CourseFields, SeqIsListed
  <2> QED
    BY <1>1, <1>3, <2>1 DEF NumbersOK
<1>5. ASSUME course' = course \/ (course'.students = course.students /\ course'.assignments = course.assignments)
      PROVE  NumbersOK(course')
  BY <1>5 DEF NumbersOK
<1>6. ASSUME NEW v, course' = [course EXCEPT !.assignments = v], DOMAIN as \subseteq DOMAIN v, \A a \in DOMAIN v : AsgtOK(v[a])
      PROVE  NumbersOK(course')
  <2>1. course'.students = course.students /\ course'.assignments = v
    BY ONLY <1>0, <1>6
  <2> QED
    BY <1>1, <1>6, <2>1, NumbersStay
<1>7. ASSUME NEW w, Leave(w) \/ Fatal PROVE NumbersOK(course')
  BY <1>5, <1>7 DEF Leave, Fatal
<1>8. CASE ReadCourse
  <2>1. course' = course
    BY <1>8 DEF ReadCourse, Fatal, Leave
  <2> QED
    BY <1>5, <2>1
<1>9. CASE ReadProfessor
  <2>1. CASE Token = "PROFESSOR"
    <3>1. course' = [course EXCEPT !.professor = TRUE]
      BY <1>9, <2>1 DEF ReadProfessor
    <3>2. course'.students = course.students /\ course'.assignments = course.assignments
      BY ONLY <1>0, <3>1
    <3> QED
      BY <1>5, <3>2
  <2>2. CASE Token # "PROFESSOR"
    BY <1>7, <1>9, <2>2 DEF ReadProfessor
  <2> QED
    BY <2>1, <2>2
<1>10. CASE ReadAssignment
  <2>1. CASE Token = "ASSIGNMENT"
    <3>0. PICK old \in Leftover :
            course' = [course EXCEPT !.assignments = Append(@,
                [name |-> Line.name, atype |-> Line.atype, weight |-> Unset, policy |-> "RAW",
                  group |-> "BYCLASS", max |-> 0, mean |-> old, stddev |-> old, scale |-> old])]
      BY <1>10, <2>1 DEF ReadAssignment
    <3>1. PICK x, y : x = Line.name /\ y = Line.atype
      OBVIOUS
    <3>2. PICK a : a = [name |-> x, atype |-> y, weight |-> Unset, policy |-> "RAW",
                        group |-> "BYCLASS", max |-> 0, mean |-> old, stddev |-> old, scale |-> old]
      OBVIOUS
    <3>3. AsgtOK(a)
      <4>1. Leftover \subseteq Int
        BY ReaderAssumption DEF ReaderAssumption
      <4>2. old \in Int
        BY <3>0, <4>1
      <4>3. Unset \in Int /\ "RAW" \in Known
        BY DEF Unset, Known
      <4> QED
        BY ONLY <3>2, <4>2, <4>3 DEF AsgtOK
    <3>4. PICK v : v = Append(as, a)
      OBVIOUS
    <3>5. course' = [course EXCEPT !.assignments = v]
      BY ONLY <1>1, <3>0, <3>1, <3>2, <3>4
    <3>6. Listed(v) /\ DOMAIN as \subseteq DOMAIN v /\ \A i \in DOMAIN v : v[i] = a \/ (i \in DOMAIN as /\ v[i] = as[i])
      BY <1>2, <3>4, MoreIs
    <3>9. \A i \in DOMAIN v : AsgtOK(v[i])
      BY <1>2, <3>3, <3>6
    <3>10. DOMAIN as \subseteq DOMAIN v
      BY <3>6
    <3> QED
      BY <1>6, <3>5, <3>9, <3>10
  <2>2. CASE Token # "ASSIGNMENT"
    BY <1>7, <1>10, <2>2 DEF ReadAssignment
  <2> QED
    BY <2>1, <2>2
<1>11. CASE ReadOption
  <2>1. CASE Token \in {"WEIGHT", "NORMALIZE", "MAXIMUM"}
    <3>1. Readable(Line) /\ Line.kw \in {"WEIGHT", "NORMALIZE", "MAXIMUM"}
      BY <2>1, LineReads
    <3>2. PICK v : v = [as EXCEPT ![Len(as)] = WithOption(@, Line)]
      OBVIOUS
    <3>3. course' = [course EXCEPT !.assignments = v]
      BY <1>1, <1>11, <2>1, <3>2 DEF ReadOption
    <3>4. PICK x : x = WithOption(as[Len(as)], Line)
      OBVIOUS
    <3>5. v = [as EXCEPT ![Len(as)] = x]
      BY ONLY <3>2, <3>4
    <3>6. DOMAIN v = DOMAIN as
      BY ONLY <3>5
    <3>7. ASSUME NEW a \in DOMAIN v PROVE AsgtOK(v[a])
      <4>1. CASE a = Len(as)
        <5>1. v[a] = x
          BY ONLY <3>5, <3>6, <4>1, a \in DOMAIN v
        <5>2. AsgtOK(as[Len(as)])
          BY <1>2, <3>6, <4>1
        <5>3. AsgtOK(x)
          BY <3>1, <3>4, <5>2, OptionOK
        <5> QED
          BY <5>1, <5>3
      <4>2. CASE a # Len(as)
        <5>1. v[a] = as[a]
          BY ONLY <3>5, <3>6, <4>2, a \in DOMAIN v
        <5> QED
          BY <1>2, <3>6, <5>1
      <4> QED
        BY <4>1, <4>2
    <3> QED
      BY <1>6, <3>3, <3>6, <3>7
  <2>2. CASE Token \notin {"WEIGHT", "NORMALIZE", "MAXIMUM"}
    BY <1>7, <1>11, <2>2 DEF ReadOption
  <2> QED
    BY <2>1, <2>2
<1>12. CASE ReadSection
  <2>1. CASE Token = "SECTION"
    <3>1. PICK x : course' = [course EXCEPT !.sections = Append(@, x)]
      BY <1>12, <2>1 DEF ReadSection
    <3>2. course'.students = course.students /\ course'.assignments = course.assignments
      BY ONLY <1>0, <3>1
    <3> QED
      BY <1>5, <3>2
  <2>2. CASE Token # "SECTION"
    <3>1. course' = course
      BY <1>12, <2>2 DEF ReadSection, IncludeFile, Fatal, Leave
    <3> QED
      BY <1>5, <3>1
  <2> QED
    BY <2>1, <2>2
<1>13. CASE ReadAssistant
  <2>1. CASE Token = "ASSISTANT"
    <3>1. course' = [course EXCEPT !.sections[Section].assistant = TRUE]
      BY <1>13, <2>1 DEF ReadAssistant
    <3>2. course'.students = course.students /\ course'.assignments = course.assignments
      BY ONLY <1>0, <3>1
    <3> QED
      BY <1>5, <3>2
  <2>2. CASE Token # "ASSISTANT"
    BY <1>7, <1>13, <2>2 DEF ReadAssistant
  <2> QED
    BY <2>1, <2>2
<1>14. ASSUME NEW u, course'.assignments = as, course'.students = u, \A st \in DOMAIN u : StudentOK(u[st], DOMAIN as)
       PROVE  NumbersOK(course')
  BY <1>2, <1>14 DEF NumbersOK
<1>15. CASE ReadStudent
  <2>1. CASE Token = "STUDENT"
    <3>1. Readable(Line) /\ Line.kw = "STUDENT"
      BY <2>1, LineReads
    <3>a. PICK t : t = Section
      OBVIOUS
    <3>b. PICK i, m : i = Line.id /\ m = Line.name
      OBVIOUS
    <3>c. PICK x : x = [id |-> i, name |-> m, section |-> t, scores |-> <<>>]
      OBVIOUS
    <3>d. PICK e : e = Student + 1
      OBVIOUS
    <3>2. course' = [course EXCEPT !.students = Append(@, x), !.sections[t].roster = Append(@, e)]
      <4>1. course' = [course EXCEPT
               !.students = Append(@, [id |-> Line.id, name |-> Line.name, section |-> Section, scores |-> <<>>]),
               !.sections[Section].roster = Append(@, Student + 1)]
        BY <1>15, <2>1 DEF ReadStudent
      <4> QED
        BY ONLY <3>a, <3>b, <3>c, <3>d, <4>1
    <3>3. PICK u : u = Append(sts, x)
      OBVIOUS
    <3>4. course'.assignments = as /\ course'.students = u
      BY ONLY <1>0, <1>1, <1>3, <3>2, <3>3
    <3>5. StudentOK(x, DOMAIN as)
      <4>0. i \in Int /\ m \in Int
        BY <3>1, <3>b DEF Readable
      <4>1. x.id \in Int /\ x.name \in Int /\ x.scores = <<>>
        BY ONLY <3>c, <4>0
      <4>2. Listed(<<>>)
        <5>1. <<>> \in Seq({})
          OBVIOUS
        <5> QED
          BY <5>1, SeqIsListed
      <4>3. \A k \in DOMAIN <<>> : FALSE
        OBVIOUS
      <4> QED
        BY <4>1, <4>2, <4>3 DEF StudentOK
    <3>6. \A k \in DOMAIN u : u[k] = x \/ (k \in DOMAIN sts /\ u[k] = sts[k])
      BY <1>4, <3>3, MoreIs
    <3>9. \A k \in DOMAIN u : StudentOK(u[k], DOMAIN as)
      BY <1>4, <3>5, <3>6
    <3> QED
      BY <1>14, <3>4, <3>9
  <2>2. CASE Token # "STUDENT"
    BY <1>7, <1>15, <2>2 DEF ReadStudent
  <2> QED
    BY <2>1, <2>2
<1>16. CASE ReadScore
  <2>1. PICK named : named = {k \in DOMAIN as : as[k].name = Line.asgt}
    OBVIOUS
  <2>2. CASE Token # "SCORE" \/ named = {}
    <3>1. Leave("student") \/ Fatal
      BY <1>1, <1>16, <2>1, <2>2 DEF ReadScore
    <3> QED
      BY <1>7, <3>1
  <2>3. CASE Token = "SCORE" /\ named # {}
    <3>1. Readable(Line) /\ Line.kw = "SCORE"
      BY <2>3, LineReads
    <3>2. PICK sc : /\ sc = [asgt |-> Min(named), how |-> Line.how, note |-> Line.note,
                             grade |-> IF Line.bad THEN 0 ELSE Line.grade]
                    /\ course' = [course EXCEPT !.students[Student].scores = Append(@, sc)]
      BY <1>1, <1>16, <2>1, <2>3 DEF ReadScore
    <3>3. ScoreOK(sc, DOMAIN as)
      <4>1. DOMAIN as = 1..Len(as) /\ Len(as) \in Nat
        BY <1>2, SeqIsListed DEF Listed
      <4>a. \A k \in 1..Len(as) : k \in Nat
        BY <4>1
      <4>2. named \in SUBSET Nat
        BY ONLY <2>1, <4>1, <4>a
      <4>3. Min(named) \in named
        BY <2>3, <4>2, MinIn
      <4>4. Min(named) \in DOMAIN as
        BY <2>1, <4>3
      <4>5. sc.asgt = Min(named) /\ sc.how = Line.how /\ sc.grade = IF Line.bad THEN 0 ELSE Line.grade
        BY ONLY <3>2
      <4>6. Line.how \in Substitutes /\ (Line.bad \/ Line.grade \in Int)
        BY <3>1 DEF Readable
      <4>7. (IF Line.bad THEN 0 ELSE Line.grade) \in Int
        <5>1. CASE Line.bad
          BY <5>1
        <5>2. CASE ~Line.bad
          BY <4>6, <5>2
        <5> QED
          BY <5>1, <5>2
      <4>8. sc.asgt \in DOMAIN as
        BY ONLY <4>4, <4>5
      <4>9. sc.how \in Substitutes
        BY ONLY <4>5, <4>6
      <4>10. sc.grade \in Int
        BY ONLY <4>5, <4>7
      <4> QED
        BY <4>8, <4>9, <4>10 DEF ScoreOK
    <3>4. PICK n, u : n = Student /\ u = [sts EXCEPT ![n].scores = Append(@, sc)]
      OBVIOUS
    <3>5. course' = [course EXCEPT !.students = u]
      BY ONLY <1>3, <3>2, <3>4
    <3>6. course'.assignments = as /\ course'.students = u
      BY ONLY <1>0, <1>1, <3>5
    <3>7. DOMAIN u = DOMAIN sts
      BY ONLY <3>4
    <3>8. ASSUME NEW st \in DOMAIN u PROVE StudentOK(u[st], DOMAIN as)
      <4>1. CASE st # n
        <5>1. u[st] = sts[st]
          BY ONLY <3>4, <3>7, <4>1, st \in DOMAIN u
        <5> QED
          BY <1>4, <3>7, <5>1
      <4>2. CASE st = n
        <5>1. PICK o, p, l : o = sts[st] /\ l = Append(o.scores, sc) /\ p = [o EXCEPT !.scores = l]
          OBVIOUS
        <5>2. u[st] = p
          BY ONLY <3>4, <3>7, <4>2, <5>1, st \in DOMAIN u
        <5>3. StudentOK(o, DOMAIN as)
          BY <1>4, <3>7, <5>1
        <5>4. o = [id |-> o.id, name |-> o.name, section |-> o.section, scores |-> o.scores]
          <6>1. PICK X : Shape(course, X)
            BY DEF CourseOK
          <6>2. o \in AStudent(X)
            BY <1>3, <3>7, <5>1, <6>1, ShapeParts
          <6> QED
            BY ONLY <6>2 DEF AStudent
        <5>5. p.id = o.id /\ p.name = o.name /\ p.scores = l
          BY ONLY <5>1, <5>4
        <5>6. Listed(o.scores) /\ \A k \in DOMAIN o.scores : ScoreOK(o.scores[k], DOMAIN as)
          BY <5>3 DEF StudentOK
        <5>7. PICK q : q = o.scores
          OBVIOUS
        <5>9. Listed(l) /\ \A i \in DOMAIN l : l[i] = sc \/ (i \in DOMAIN q /\ l[i] = q[i])
          BY <5>1, <5>6, <5>7, MoreIs
        <5>11. \A i \in DOMAIN l : ScoreOK(l[i], DOMAIN as)
          BY <3>3, <5>6, <5>7, <5>9
        <5> QED
          BY <5>2, <5>3, <5>5, <5>9, <5>11 DEF StudentOK
      <4> QED
        BY <4>1, <4>2
    <3> QED
      BY <1>14, <3>6, <3>8
  <2> QED
    BY <2>2, <2>3
<1>17. CASE ExpectEof
  BY <1>5, <1>17 DEF ExpectEof
<1> QED
  BY <1>8, <1>9, <1>10, <1>11, <1>12, <1>13, <1>15, <1>16, <1>17 DEF Read

(* The lines of a file, from any lines that can be read. *)
LEMMA LinesAre ==
  ASSUME NEW S, \A l \in S : Readable(l), NEW f \in Seq(S)
  PROVE  Lines(f)
<1>1. f \in Seq(Range(f)) /\ DOMAIN f = 1..Len(f) /\ \A k \in 1..Len(f) : f[k] \in S
  BY SeqIsListed DEF Listed
<1> QED
  BY <1>1 DEF Lines

(* And what they are from. *)
LEMMA LinesFrom ==
  ASSUME NEW f, Lines(f)
  PROVE  f \in Seq(Range(f)) /\ \A l \in Range(f) : Readable(l)
BY DEF Lines, Range

(* Files one after the other. *)
LEMMA LinesJoin ==
  ASSUME NEW s, NEW t, Lines(s), Lines(t)
  PROVE  Lines(s \o t)
<1>1. PICK S : S = Range(s) \cup Range(t)
  OBVIOUS
<1>2. \A l \in S : Readable(l)
  BY <1>1, LinesFrom
<1>3. s \in Seq(S) /\ t \in Seq(S)
  <2>1. s \in Seq(Range(s)) /\ t \in Seq(Range(t))
    BY LinesFrom
  <2> QED
    BY <1>1, <2>1, SeqGrows
<1>4. s \o t \in Seq(S)
  BY <1>3
<1> QED
  BY <1>2, <1>4, LinesAre

(* No line, and one. *)
LEMMA LinesOne == Lines(<<>>) /\ \A l : Readable(l) => Lines(<<l>>)
<1>1. Lines(<<>>)
  <2>1. <<>> \in Seq({})
    OBVIOUS
  <2>2. \A l \in {} : Readable(l)
    OBVIOUS
  <2> QED
    BY ONLY <2>1, <2>2, LinesAre
<1>2. ASSUME NEW l, Readable(l) PROVE Lines(<<l>>)
  <2>1. <<l>> \in Seq({l})
    OBVIOUS
  <2> QED
    BY <1>2, <2>1, LinesAre
<1> QED
  BY <1>1, <1>2

(* Any number of files. *)
LEMMA LinesConcat ==
  ASSUME NEW n \in Nat, NEW seqs, seqs = [k \in 1..n |-> seqs[k]], \A k \in 1..n : Lines(seqs[k])
  PROVE  Lines(Concat(seqs))
<1>1. PICK S : S = UNION {Range(seqs[k]) : k \in 1..n}
  OBVIOUS
<1>2. \A k \in 1..n : seqs[k] \in Seq(S)
  <2> SUFFICES ASSUME NEW k \in 1..n PROVE seqs[k] \in Seq(S)
    OBVIOUS
  <2>1. seqs[k] \in Seq(Range(seqs[k]))
    BY LinesFrom
  <2>2. Range(seqs[k]) \subseteq S
    BY <1>1
  <2> QED
    BY <2>1, <2>2, SeqGrows
<1>3. seqs \in [1..n -> Seq(S)]
  BY <1>2
<1>4. PICK p : Joined(p, seqs, n, S) /\ Concat(seqs) = p[n]
  BY <1>3, ConcatJoins
<1>5. Concat(seqs) \in Seq(S)
  <2>1. n \in 0..n
    OBVIOUS
  <2> QED
    BY <1>4, <2>1 DEF Joined
<1>6. \A l \in S : Readable(l)
  BY <1>1, LinesFrom
<1> QED
  BY <1>5, <1>6, LinesAre

(* A line of a keyword that is followed by no number. *)
LEMMA PlainReadable ==
  ASSUME NEW l, l.kw \in {"COURSE", "PROFESSOR", "ASSIGNMENT", "SECTION", "ASSISTANT"}
  PROVE  Readable(l) /\ Lines(<<l>>)
<1>1. Readable(l)
  BY DEF Readable
<1> QED
  BY <1>1, LinesOne

(* write.c: of an assignment. *)
LEMMA AssignmentWritten ==
  ASSUME NEW a, AsgtOK(a)
  PROVE  Lines(WrittenAssignment(a))
<1>1. a.weight \in Int /\ a.max \in Int /\ a.scale \in Int /\ a.policy \in Known
  BY DEF AsgtOK
<1>2. PICK p : p = <<[kw |-> "ASSIGNMENT", bad |-> FALSE, name |-> a.name, atype |-> a.atype]>>
  OBVIOUS
<1>3. PICK w : w = IF a.weight = Unset THEN <<>> ELSE <<[kw |-> "WEIGHT", bad |-> FALSE, number |-> a.weight]>>
  OBVIOUS
<1>4. PICK o : o = IF a.policy = "RAW" THEN <<>>
      ELSE <<[kw |-> "NORMALIZE", bad |-> a.policy = "LINEAR", policy |-> a.policy, group |-> a.group, scale |-> a.scale]>>
  OBVIOUS
<1>5. PICK m : m = IF a.max = 0 THEN <<>> ELSE <<[kw |-> "MAXIMUM", bad |-> FALSE, number |-> a.max]>>
  OBVIOUS
<1>6. WrittenAssignment(a) = p \o w \o o \o m
  BY <1>2, <1>3, <1>4, <1>5 DEF WrittenAssignment
<1>7. Lines(p)
  <2>1. PICK l : l = [kw |-> "ASSIGNMENT", bad |-> FALSE, name |-> a.name, atype |-> a.atype]
    OBVIOUS
  <2>2. l.kw = "ASSIGNMENT"
    BY <2>1
  <2> QED
    BY <1>2, <2>1, <2>2, PlainReadable
<1>8. Lines(w)
  <2>1. PICK l : l = [kw |-> "WEIGHT", bad |-> FALSE, number |-> a.weight]
    OBVIOUS
  <2>2. l.kw = "WEIGHT" /\ l.number \in Int
    BY <1>1, <2>1
  <2>3. Readable(l)
    BY <2>2 DEF Readable
  <2> QED
    BY <1>3, <2>1, <2>3, LinesOne
<1>9. Lines(o)
  <2>1. PICK l : l = [kw |-> "NORMALIZE", bad |-> a.policy = "LINEAR", policy |-> a.policy, group |-> a.group, scale |-> a.scale]
    OBVIOUS
  <2>2. l.kw = "NORMALIZE" /\ l.policy \in Known /\ l.scale \in Int
    BY <1>1, <2>1
  <2>3. Readable(l)
    BY <2>2 DEF Readable, Known
  <2> QED
    BY <1>4, <2>1, <2>3, LinesOne
<1>10. Lines(m)
  <2>1. PICK l : l = [kw |-> "MAXIMUM", bad |-> FALSE, number |-> a.max]
    OBVIOUS
  <2>2. l.kw = "MAXIMUM" /\ l.number \in Int
    BY <1>1, <2>1
  <2>3. Readable(l)
    BY <2>2 DEF Readable
  <2> QED
    BY <1>5, <2>1, <2>3, LinesOne
<1> QED
  BY <1>6, <1>7, <1>8, <1>9, <1>10, LinesJoin

(* write.c: of a student. *)
LEMMA StudentWritten ==
  ASSUME NEW st, StudentOK(st, Assignments)
  PROVE  Lines(WrittenStudent(st))
<1>1. PICK n \in Nat : n = Len(st.scores) /\ DOMAIN st.scores = 1..n
  BY SeqIsListed DEF StudentOK, Listed
<1>2. PICK l : l = [kw |-> "STUDENT", bad |-> FALSE, id |-> st.id, name |-> st.name]
  OBVIOUS
<1>3. PICK f : f = [k \in 1..n |-> WrittenScore(st.scores[k])]
  OBVIOUS
<1>4. WrittenStudent(st) = <<l>> \o f
  BY <1>1, <1>2, <1>3 DEF WrittenStudent
<1>5. Lines(<<l>>)
  <2>1. l.kw = "STUDENT" /\ l.id \in Int /\ l.name \in Int
    BY <1>2 DEF StudentOK
  <2>2. Readable(l)
    BY <2>1 DEF Readable
  <2> QED
    BY <2>2, LinesOne
<1>6. ASSUME NEW k \in 1..n PROVE Readable(f[k])
  <2>1. PICK sc : sc = st.scores[k]
    OBVIOUS
  <2>2. sc.how \in Substitutes /\ sc.grade \in Int
    BY <1>1, <2>1 DEF StudentOK, ScoreOK
  <2>3. PICK l1, nt, h : /\ l1 = [kw |-> "SCORE", bad |-> FALSE, asgt |-> course.assignments[sc.asgt].name,
                                  grade |-> sc.grade, how |-> h, note |-> nt]
                         /\ WrittenScore(sc) = l1 /\ h \in {"USELIKEAVG", sc.how}
    BY DEF WrittenScore
  <2>4. l1.kw = "SCORE" /\ l1.how \in Substitutes /\ l1.grade \in Int
    BY <2>2, <2>3 DEF Substitutes
  <2>5. Readable(l1)
    BY <2>4 DEF Readable
  <2> QED
    BY <1>3, <2>1, <2>3, <2>5
<1>7. Lines(f)
  <2>1. PICK S : S = {f[k] : k \in 1..n}
    OBVIOUS
  <2>2. f \in Seq(S)
    <3>1. f \in [1..n -> S]
      BY ONLY <1>3, <2>1
    <3> QED
      BY ONLY <3>1, n \in Nat
  <2>3. \A x \in S : Readable(x)
    BY <1>6, <2>1
  <2> QED
    BY <2>2, <2>3, LinesAre
<1> QED
  BY <1>4, <1>5, <1>7, LinesJoin

(* write.c: of a section. *)
LEMMA SectionWritten ==
  ASSUME CourseOK(course), NumbersOK(course), NEW s \in Sections
  PROVE  Lines(WrittenSection(course.sections[s]))
<1>1. PICK sec : sec = course.sections[s]
  OBVIOUS
<1>2. PICK n \in Nat : n = Len(sec.roster) /\ DOMAIN sec.roster = 1..n
  <2>1. sec.roster \in Seq(Nat)
    BY <1>1, ShapeParts DEF CourseOK, Sections
  <2> QED
    BY <2>1
<1>3. \A k \in 1..n : sec.roster[k] \in DOMAIN course.students
  <2>1. Range(sec.roster) = In(course, s)
    BY <1>1 DEF CourseOK, Whole, Sections
  <2> QED
    BY <1>2, <2>1 DEF Range, In
<1>4. PICK f : f = [k \in 1..n |-> WrittenStudent(course.students[sec.roster[k]])]
  OBVIOUS
<1>5. Lines(Concat(f))
  <2>1. \A k \in 1..n : Lines(f[k])
    BY <1>3, <1>4, StudentWritten DEF NumbersOK, Assignments
  <2>2. f = [k \in 1..n |-> f[k]]
    BY ONLY <1>4
  <2> QED
    BY <2>1, <2>2, LinesConcat
<1>6. PICK p : p = <<[kw |-> "SECTION", bad |-> FALSE, name |-> sec.name]>>
  OBVIOUS
<1>7. PICK q : q = IF sec.assistant THEN <<[kw |-> "ASSISTANT", bad |-> FALSE]>> ELSE <<>>
  OBVIOUS
<1>8. WrittenSection(sec) = p \o q \o Concat(f)
  BY <1>2, <1>4, <1>6, <1>7 DEF WrittenSection
<1>9. Lines(p)
  <2>1. PICK l : l = [kw |-> "SECTION", bad |-> FALSE, name |-> sec.name]
    OBVIOUS
  <2>2. l.kw = "SECTION"
    BY <2>1
  <2> QED
    BY <1>6, <2>1, <2>2, PlainReadable
<1>10. Lines(q)
  <2>1. PICK l : l = [kw |-> "ASSISTANT", bad |-> FALSE]
    OBVIOUS
  <2>2. l.kw = "ASSISTANT"
    BY <2>1
  <2> QED
    BY <1>7, <2>1, <2>2, PlainReadable, LinesOne
<1> QED
  BY <1>1, <1>5, <1>8, <1>9, <1>10, LinesJoin

(* write.c: what is written of a course can be read. *)
LEMMA CourseWritten ==
  ASSUME CourseOK(course), NumbersOK(course), AssignmentsListed(course)
  PROVE  Lines(WriteCourse)
<1>1. PICK n \in Nat : Assignments = 1..n
  BY DEF AssignmentsListed, Assignments
<1>2. PICK m \in Nat : Sections = 1..m
  BY CourseFields DEF Sections
<1>3. PICK f : f = [a \in 1..n |-> WrittenAssignment(course.assignments[a])]
  OBVIOUS
<1>4. PICK g : g = [s \in 1..m |-> WrittenSection(course.sections[s])]
  OBVIOUS
<1>5. Lines(Concat(f))
  <2>1. \A k \in 1..n : Lines(f[k])
    BY <1>1, <1>3, AssignmentWritten DEF NumbersOK, Assignments
  <2>2. f = [k \in 1..n |-> f[k]]
    BY ONLY <1>3
  <2> QED
    BY <2>1, <2>2, LinesConcat
<1>6. Lines(Concat(g))
  <2>1. \A k \in 1..m : Lines(g[k])
    BY <1>2, <1>4, SectionWritten
  <2>2. g = [k \in 1..m |-> g[k]]
    BY ONLY <1>4
  <2> QED
    BY <2>1, <2>2, LinesConcat
<1>7. PICK p : p = <<[kw |-> "COURSE", bad |-> FALSE]>>
  OBVIOUS
<1>8. PICK q : q = IF course.professor THEN <<[kw |-> "PROFESSOR", bad |-> FALSE]>> ELSE <<>>
  OBVIOUS
<1>9. WriteCourse = p \o q \o Concat(f) \o Concat(g)
  BY <1>1, <1>2, <1>3, <1>4, <1>7, <1>8 DEF WriteCourse
<1>10. Lines(p)
  <2>1. PICK l : l = [kw |-> "COURSE", bad |-> FALSE]
    OBVIOUS
  <2>2. l.kw = "COURSE"
    BY <2>1
  <2> QED
    BY <1>7, <2>1, <2>2, PlainReadable
<1>11. Lines(q)
  <2>1. PICK l : l = [kw |-> "PROFESSOR", bad |-> FALSE]
    OBVIOUS
  <2>2. l.kw = "PROFESSOR"
    BY <2>1
  <2> QED
    BY <1>8, <2>1, <2>2, PlainReadable, LinesOne
<1> QED
  BY <1>5, <1>6, <1>9, <1>10, <1>11, LinesJoin

----------------------------------------------------------------------------
(* The table of frequencies *)

AFreq  == [score : Int, count : Nat]
Tables == {f \in Seq(AFreq) : \A i, j \in 1..Len(f) : i < j => f[i].score < f[j].score}

(* The table has a score so many times. *)
Entry(f, x, c) == \E k \in 1..Len(f) : f[k].score = x /\ f[k].count = c

(* What is inserted in a list of n things of S is at its place. *)
Inserted(r, f, n, at, e, S) ==
  /\ r \in Seq(S) /\ r \in [1..(n + 1) -> S]
  /\ \A i \in 1..(n + 1) : r[i] = IF i < at THEN f[i] ELSE IF i = at THEN e ELSE f[i - 1]

(* An entry is put in its place. *)
LEMMA InsertedAt ==
  ASSUME NEW S, NEW n \in Nat, NEW f \in [1..n -> S], NEW at \in 1..(n + 1), NEW e \in S, NEW r, r = InsertAt(f, at, e)
  PROVE  Inserted(r, f, n, at, e, S)
<1>1. f \in Seq(S) /\ Len(f) = n
  BY ONLY f \in [1..n -> S], n \in Nat
<1>2. PICK s : s = SubSeq(f, 1, at - 1)
  OBVIOUS
<1>3. PICK t : t = SubSeq(f, at, n)
  OBVIOUS
<1>4. s \in Seq(S) /\ Len(s) = at - 1 /\ \A i \in 1..(at - 1) : s[i] = f[i]
  <2>1. \A i \in 1..(at - 1) : i \in 1..n
    OBVIOUS
  <2>2. s \in Seq(S) /\ Len(s) = IF 1 <= at - 1 THEN at - 1 - 1 + 1 ELSE 0
    BY ONLY <1>1, <1>2, <2>1, f \in [1..n -> S], n \in Nat, at \in 1..(n + 1), SubSeqProperties
  <2>3. Len(s) = at - 1
    BY ONLY <2>2, n \in Nat, at \in 1..(n + 1)
  <2>4. \A i \in 1..(at - 1) : s[i] = f[1 + i - 1]
    BY ONLY <1>1, <1>2, <2>1, <2>3, n \in Nat, at \in 1..(n + 1), SubSeqProperties
  <2>5. \A i \in 1..(at - 1) : 1 + i - 1 = i
    BY ONLY n \in Nat, at \in 1..(n + 1)
  <2> QED
    BY ONLY <2>2, <2>3, <2>4, <2>5
<1>5. t \in Seq(S) /\ Len(t) = n - at + 1 /\ \A i \in 1..(n - at + 1) : t[i] = f[at + i - 1]
  <2>1. \A i \in at..n : i \in 1..n
    OBVIOUS
  <2>2. t \in Seq(S) /\ Len(t) = IF at <= n THEN n - at + 1 ELSE 0
    BY ONLY <1>1, <1>3, <2>1, f \in [1..n -> S], n \in Nat, at \in 1..(n + 1), SubSeqProperties
  <2>3. Len(t) = n - at + 1
    BY ONLY <2>2, n \in Nat, at \in 1..(n + 1)
  <2>4. \A i \in 1..(n - at + 1) : t[i] = f[at + i - 1]
    BY ONLY <1>1, <1>3, <2>1, <2>3, n \in Nat, at \in 1..(n + 1), SubSeqProperties
  <2> QED
    BY ONLY <2>2, <2>3, <2>4
<1>6. PICK u : u = s \o <<e>>
  OBVIOUS
<1>7. <<e>> \in Seq(S) /\ Len(<<e>>) = 1 /\ <<e>>[1] = e
  OBVIOUS
<1>8. u \in Seq(S) /\ Len(u) = at /\ \A i \in 1..at : u[i] = IF i < at THEN f[i] ELSE e
  <2>1. u \in Seq(S) /\ Len(u) = Len(s) + Len(<<e>>)
    BY ONLY <1>4, <1>6, <1>7, ConcatProperties
  <2>2. Len(u) = at
    BY ONLY <1>4, <1>7, <2>1, n \in Nat, at \in 1..(n + 1)
  <2>3. \A i \in 1..(Len(s) + Len(<<e>>)) : u[i] = IF i <= Len(s) THEN s[i] ELSE <<e>>[i - Len(s)]
    BY ONLY <1>4, <1>6, <1>7, ConcatProperties
  <2>4. \A i \in 1..at : /\ i \in 1..(Len(s) + Len(<<e>>)) /\ (i < at <=> i <= Len(s)) /\ (i < at => i \in 1..(at - 1))
                         /\ (~(i < at) => i - Len(s) = 1)
    BY ONLY <1>4, <1>7, n \in Nat, at \in 1..(n + 1)
  <2>5. \A i \in 1..at : u[i] = IF i < at THEN f[i] ELSE e
    BY ONLY <1>4, <1>7, <2>3, <2>4
  <2> QED
    BY ONLY <2>1, <2>2, <2>5
<1>10. r = u \o t
  BY ONLY <1>1, <1>2, <1>3, <1>6, r = InsertAt(f, at, e) DEF InsertAt
<1>11. r \in Seq(S) /\ Len(r) = n + 1
  <2>1. r \in Seq(S) /\ Len(r) = Len(u) + Len(t)
    BY ONLY <1>5, <1>8, <1>10, ConcatProperties
  <2>2. Len(r) = n + 1
    BY ONLY <1>5, <1>8, <2>1, n \in Nat, at \in 1..(n + 1)
  <2> QED
    BY <2>1, <2>2
<1>12. ASSUME NEW i \in 1..(n + 1) PROVE r[i] = IF i < at THEN f[i] ELSE IF i = at THEN e ELSE f[i - 1]
  <2>1. \A j \in 1..(Len(u) + Len(t)) : r[j] = IF j <= Len(u) THEN u[j] ELSE t[j - Len(u)]
    BY ONLY <1>5, <1>8, <1>10, ConcatProperties
  <2>2. i \in 1..(Len(u) + Len(t)) /\ (i <= at => i \in 1..at) /\ (i > at => i - at \in 1..(n - at + 1) /\ at + (i - at) - 1 = i - 1)
    BY ONLY <1>5, <1>8, n \in Nat, at \in 1..(n + 1), i \in 1..(n + 1)
  <2>3. CASE i <= at
    BY <1>8, <2>1, <2>2, <2>3
  <2>4. CASE i > at
    <3>1. ~(i <= at) /\ ~(i < at) /\ i # at
      BY <2>4
    <3>2. r[i] = t[i - at] /\ t[i - at] = f[at + (i - at) - 1]
      BY ONLY <1>5, <1>8, <2>1, <2>2, <2>4, <3>1
    <3>3. r[i] = f[i - 1]
      BY ONLY <2>2, <2>4, <3>2
    <3> QED
      BY ONLY <3>1, <3>3
  <2> QED
    BY <2>3, <2>4
<1>13. r \in [1..(n + 1) -> S]
  BY ONLY <1>11
<1> QED
  BY <1>11, <1>12, <1>13 DEF Inserted

(* Tables, by their entries. *)
LEMMA TableIs ==
  ASSUME NEW f \in Tables
  PROVE  /\ Len(f) \in Nat /\ DOMAIN f = 1..Len(f) /\ f \in [1..Len(f) -> AFreq] /\ f \in Seq(AFreq)
         /\ \A i, j \in 1..Len(f) : i < j => f[i].score < f[j].score
         /\ \A i \in 1..Len(f) : f[i].score \in Int /\ f[i].count \in Nat
<1>1. f \in Seq(AFreq) /\ \A i, j \in 1..Len(f) : i < j => f[i].score < f[j].score
  BY DEF Tables
<1>2. Len(f) \in Nat /\ DOMAIN f = 1..Len(f) /\ f \in [1..Len(f) -> AFreq]
  BY ONLY <1>1
<1>3. \A i \in 1..Len(f) : f[i].score \in Int /\ f[i].count \in Nat
  BY <1>2 DEF AFreq
<1> QED
  BY <1>1, <1>2, <1>3

(* The scores that are as high, the first of them, and one more of it.       *)
From(f, g)   == {k \in DOMAIN f : f[k].score >= g}
Place(f, g)  == IF From(f, g) = {} THEN Len(f) + 1 ELSE Min(From(f, g))
Again(f, at) == [f EXCEPT ![at].count = @ + 1]
First(f, at, g) == InsertAt(f, at, [score |-> g, count |-> 1])

(* Where a score is to go: all before are lower, all from there at least it.  *)
LEMMA ScorePlace ==
  ASSUME NEW f \in Tables, NEW g \in Int
  PROVE  /\ Place(f, g) \in 1..(Len(f) + 1) /\ (From(f, g) # {} <=> Place(f, g) # Len(f) + 1)
         /\ (From(f, g) # {} => Place(f, g) \in 1..Len(f) /\ f[Place(f, g)].score >= g)
         /\ \A k \in 1..Len(f) : k < Place(f, g) => f[k].score < g
<1>a. PICK n \in Nat : n = Len(f) /\ DOMAIN f = 1..n /\ f \in [1..n -> AFreq]
  BY TableIs
<1>b. PICK from : from = {k \in DOMAIN f : f[k].score >= g} /\ from = From(f, g)
  BY DEF From
<1>c. PICK at : at = Place(f, g) /\ at = IF from = {} THEN n + 1 ELSE Min(from)
  BY <1>a, <1>b DEF Place
<1>1. from \in SUBSET Nat /\ \A k \in from : k \in 1..n
  BY <1>a, <1>b
<1>2. \A k \in 1..n : f[k].score \in Int
  BY <1>a DEF AFreq
<1>3. CASE from = {}
  <2>1. at = n + 1
    BY <1>3, <1>c
  <2>2. \A k \in 1..n : f[k].score < g
    <3>1. \A k \in 1..n : ~(f[k].score >= g)
      BY <1>3, <1>a, <1>b
    <3> QED
      BY ONLY <1>2, <3>1, g \in Int
  <2>3. n + 1 \in 1..(n + 1)
    OBVIOUS
  <2> QED
    BY ONLY <1>a, <1>b, <1>c, <1>3, <2>1, <2>2, <2>3
<1>4. CASE from # {}
  <2>1. at \in from /\ \A x \in from : at <= x
    <3>1. Min(from) \in from /\ \A x \in from : Min(from) <= x
      BY <1>1, <1>4, MinIn
    <3> QED
      BY ONLY <1>4, <1>c, <3>1
  <2>2. at \in 1..n /\ f[at].score >= g
    BY <1>1, <1>b, <2>1
  <2>3. at \in 1..(n + 1) /\ at # n + 1
    BY <2>2
  <2>4. ASSUME NEW k \in 1..n, k < at PROVE f[k].score < g
    <3>1. k \notin from
      BY <2>1, <2>3, <2>4
    <3>2. ~(f[k].score >= g)
      BY <1>a, <1>b, <3>1
    <3> QED
      BY ONLY <1>2, <3>2, k \in 1..n, g \in Int
  <2> QED
    BY ONLY <1>a, <1>b, <1>c, <1>4, <2>2, <2>3, <2>4
<1> QED
  BY <1>a, <1>b, <1>c, <1>3, <1>4

(* No score is twice in a table. *)
LEMMA ScoresDiffer ==
  ASSUME NEW f \in Tables, NEW i \in 1..Len(f), NEW j \in 1..Len(f), f[i].score = f[j].score
  PROVE  i = j
<1>1. /\ Len(f) \in Nat /\ \A a, b \in 1..Len(f) : a < b => f[a].score < f[b].score
      /\ f[i].score \in Int
  BY TableIs
<1>2. ~(i < j) /\ ~(j < i)
  <2>1. ~(f[i].score < f[i].score)
    BY ONLY <1>1
  <2> QED
    BY ONLY <1>1, <2>1, i \in 1..Len(f), j \in 1..Len(f), f[i].score = f[j].score
<1> QED
  BY <1>1, <1>2

(* count_score: a score that is there is counted once more. *)
LEMMA CountedAgain ==
  ASSUME NEW f \in Tables, NEW at \in 1..Len(f), NEW r, r = Again(f, at)
  PROVE  /\ r \in Tables
         /\ \A x, c : Entry(r, x, c) <=> IF x = f[at].score THEN c = f[at].count + 1 ELSE Entry(f, x, c)
<1>1. PICK n \in Nat : n = Len(f) /\ DOMAIN f = 1..n /\ f \in [1..n -> AFreq] /\ f \in Seq(AFreq)
  BY TableIs
<1>2. PICK s \in Int, m \in Nat : s = f[at].score /\ m = f[at].count /\ f[at] = [score |-> s, count |-> m]
  <2>1. f[at] \in AFreq
    BY <1>1
  <2>2. f[at].score \in Int /\ f[at].count \in Nat /\ f[at] = [score |-> f[at].score, count |-> f[at].count]
    BY ONLY <2>1 DEF AFreq
  <2> QED
    BY <2>2
<1>3. PICK e : e = [score |-> s, count |-> m + 1]
  OBVIOUS
<1>4. e \in AFreq /\ e.score = s /\ e.count = m + 1
  BY <1>3 DEF AFreq
<1>5. r = [f EXCEPT ![at] = e]
  <2>1. [f[at] EXCEPT !.count = @ + 1] = e
    BY ONLY <1>2, <1>3
  <2>2. r = [f EXCEPT ![at] = [f[at] EXCEPT !.count = @ + 1]]
    BY DEF Again
  <2> QED
    BY ONLY <2>1, <2>2
<1>6. at \in 1..n
  BY <1>1
<1>7. r \in [1..n -> AFreq] /\ r[at] = e /\ \A k \in 1..n : k # at => r[k] = f[k]
  BY ONLY <1>1, <1>4, <1>5, <1>6
<1>8. r \in Seq(AFreq) /\ Len(r) = n
  BY ONLY <1>7, n \in Nat
<1>9. \A k \in 1..n : r[k].score = f[k].score
  BY ONLY <1>2, <1>4, <1>7
<1>10. r \in Tables
  <2>1. \A i, j \in 1..n : i < j => f[i].score < f[j].score
    BY <1>1, TableIs
  <2>2. \A i, j \in 1..n : i < j => r[i].score < r[j].score
    BY ONLY <1>9, <2>1
  <2> QED
    BY ONLY <1>8, <2>2 DEF Tables
<1>11. ASSUME NEW x, NEW c PROVE Entry(r, x, c) <=> IF x = f[at].score THEN c = f[at].count + 1 ELSE Entry(f, x, c)
  <2>1. Entry(r, x, c) <=> \E k \in 1..n : r[k].score = x /\ r[k].count = c
    BY <1>8 DEF Entry
  <2>2. Entry(f, x, c) <=> \E k \in 1..n : f[k].score = x /\ f[k].count = c
    BY <1>1 DEF Entry
  <2>3. CASE x = s
    <3>1. \A k \in 1..n : r[k].score = x => k = at
      BY <1>1, <1>2, <1>9, <2>3, ScoresDiffer
    <3>2. r[at].score = x /\ r[at].count = m + 1
      BY ONLY <1>4, <1>7, <2>3
    <3> QED
      BY ONLY <1>2, <1>6, <2>1, <2>3, <3>1, <3>2
  <2>4. CASE x # s
    <3>1. \A k \in 1..n : r[k].score = x => k # at
      BY ONLY <1>4, <1>7, <2>4
    <3>2. \A k \in 1..n : f[k].score = x => k # at
      BY ONLY <1>2, <2>4
    <3> QED
      BY ONLY <1>2, <1>7, <2>1, <2>2, <2>4, <3>1, <3>2
  <2> QED
    BY <2>3, <2>4
<1> QED
  BY <1>10, <1>11

(* count_score: a new score is put before the first that is greater. *)
LEMMA CountedFirst ==
  ASSUME NEW f \in Tables, NEW g \in Int, NEW at \in 1..(Len(f) + 1),
         \A k \in 1..Len(f) : (k < at => f[k].score < g) /\ (k >= at => g < f[k].score),
         NEW r, r = First(f, at, g)
  PROVE  /\ r \in Tables /\ \A c : ~Entry(f, g, c)
         /\ \A x, c : Entry(r, x, c) <=> IF x = g THEN c = 1 ELSE Entry(f, x, c)
<1>1. PICK n \in Nat : n = Len(f) /\ DOMAIN f = 1..n /\ f \in [1..n -> AFreq] /\ f \in Seq(AFreq)
  BY TableIs
<1>2. PICK e \in AFreq : e = [score |-> g, count |-> 1] /\ e.score = g /\ e.count = 1
  <2>1. PICK e : e = [score |-> g, count |-> 1]
    OBVIOUS
  <2>2. e \in AFreq
    BY <2>1 DEF AFreq
  <2>3. e.score = g /\ e.count = 1
    BY ONLY <2>1
  <2> QED
    BY <2>1, <2>2, <2>3
<1>3. at \in 1..(n + 1) /\ at \in Int
  BY <1>1
<1>4. r \in Seq(AFreq) /\ r \in [1..(n + 1) -> AFreq] /\ \A i \in 1..(n + 1) : r[i] = IF i < at THEN f[i] ELSE IF i = at THEN e ELSE f[i - 1]
  <2>1. r = InsertAt(f, at, e)
    BY <1>2 DEF First
  <2> QED
    <3>1. PICK S : S = AFreq
      OBVIOUS
    <3>2. f \in [1..n -> S] /\ e \in S
      BY <1>1, <3>1
    <3>3. Inserted(r, f, n, at, e, S)
      BY <1>3, <2>1, <3>2, InsertedAt
    <3> QED
      BY ONLY <3>1, <3>3 DEF Inserted
<1>5. Len(r) = n + 1
  BY ONLY <1>4, n \in Nat
<1>6. \A k \in 1..n : f[k].score \in Int /\ (k < at => f[k].score < g) /\ (k >= at => g < f[k].score)
  BY <1>1, TableIs
<1>7. \A i, j \in 1..n : i < j => f[i].score < f[j].score
  BY <1>1, TableIs
<1>8. ASSUME NEW i \in 1..(n + 1)
      PROVE  /\ i < at => i \in 1..n /\ r[i] = f[i] /\ r[i].score < g
             /\ i = at => r[i] = e /\ r[i].score = g
             /\ i > at => i - 1 \in 1..n /\ r[i] = f[i - 1] /\ g < r[i].score /\ i - 1 >= at
  <2>1. /\ i < at => i \in 1..n
        /\ i > at => i - 1 \in 1..n /\ i - 1 >= at /\ ~(i < at) /\ i # at
        /\ i = at => ~(i < at)
    BY ONLY <1>3, n \in Nat, i \in 1..(n + 1)
  <2> QED
    BY ONLY <1>2, <1>4, <1>6, <2>1, i \in 1..(n + 1)
<1>9. r \in Tables
  <2>1. ASSUME NEW i \in 1..(n + 1), NEW j \in 1..(n + 1), i < j PROVE r[i].score < r[j].score
    <3>1. r[i].score \in Int /\ r[j].score \in Int
      BY <1>4 DEF AFreq
    <3>2. CASE j < at
      <4>1. i < at
        BY <1>3, <2>1, <3>2
      <4> QED
        BY ONLY <1>7, <1>8, <2>1, <3>2, <4>1, i \in 1..(n + 1), j \in 1..(n + 1)
    <3>3. CASE i > at
      <4>1. j > at /\ i - 1 < j - 1
        BY <1>3, <2>1, <3>3
      <4> QED
        BY ONLY <1>7, <1>8, <3>3, <4>1, i \in 1..(n + 1), j \in 1..(n + 1)
    <3>4. CASE i <= at /\ at <= j
      <4>1. (i < at \/ i = at) /\ (j > at \/ j = at) /\ ~(i = at /\ j = at)
        BY ONLY <1>3, <2>1, <3>4, n \in Nat, i \in 1..(n + 1), j \in 1..(n + 1)
      <4>2. (i < at => r[i].score < g) /\ (i = at => r[i].score = g) /\ (j = at => r[j].score = g) /\ (j > at => g < r[j].score)
        BY <1>8
      <4> QED
        BY ONLY <3>1, <4>1, <4>2, g \in Int
    <3> QED
      BY <1>3, <3>2, <3>3, <3>4
  <2> QED
    BY ONLY <1>4, <1>5, <2>1 DEF Tables
<1>10. \A c : ~Entry(f, g, c)
  <2>1. \A k \in 1..n : f[k].score # g
    BY ONLY <1>3, <1>6, n \in Nat, g \in Int
  <2> QED
    BY <1>1, <2>1 DEF Entry
<1>11. ASSUME NEW x, NEW c PROVE Entry(r, x, c) <=> IF x = g THEN c = 1 ELSE Entry(f, x, c)
  <2>1. Entry(r, x, c) <=> \E k \in 1..(n + 1) : r[k].score = x /\ r[k].count = c
    BY <1>5 DEF Entry
  <2>2. Entry(f, x, c) <=> \E k \in 1..n : f[k].score = x /\ f[k].count = c
    BY <1>1 DEF Entry
  <2>3. CASE x = g
    <3>1. ASSUME NEW k \in 1..(n + 1), r[k].score = x PROVE k = at
      <4>1. r[k].score \in Int
        BY <1>4 DEF AFreq
      <4>2. ~(r[k].score < g) /\ ~(g < r[k].score)
        BY ONLY <2>3, <3>1, <4>1, g \in Int
      <4>3. ~(k < at) /\ ~(k > at)
        BY <1>8, <4>2
      <4> QED
        BY ONLY <1>3, <4>3, n \in Nat, k \in 1..(n + 1)
    <3>2. r[at].score = x /\ r[at].count = 1
      BY <1>2, <1>3, <1>8, <2>3
    <3> QED
      BY ONLY <1>3, <2>1, <2>3, <3>1, <3>2
  <2>4. CASE x # g
    <3>1. ASSUME Entry(r, x, c) PROVE Entry(f, x, c)
      <4>1. PICK k \in 1..(n + 1) : r[k].score = x /\ r[k].count = c
        BY <2>1, <3>1
      <4>2. k < at \/ k > at
        <5>1. k # at
          BY <1>2, <1>8, <2>4, <4>1
        <5> QED
          BY ONLY <1>3, <5>1, n \in Nat, k \in 1..(n + 1)
      <4>3. (k < at => k \in 1..n /\ r[k] = f[k]) /\ (k > at => k - 1 \in 1..n /\ r[k] = f[k - 1])
        BY <1>8
      <4>4. \E j \in 1..n : f[j].score = x /\ f[j].count = c
        BY ONLY <4>1, <4>2, <4>3
      <4> QED
        BY ONLY <2>2, <4>4
    <3>2. ASSUME Entry(f, x, c) PROVE Entry(r, x, c)
      <4>1. PICK k \in 1..n : f[k].score = x /\ f[k].count = c
        BY <2>2, <3>2
      <4>2. PICK i \in 1..(n + 1) : i = IF k < at THEN k ELSE k + 1
        OBVIOUS
      <4>3. (k < at => i = k /\ i < at) /\ (~(k < at) => ~(i < at) /\ i # at /\ i - 1 = k)
        BY ONLY <1>3, <4>2, n \in Nat, k \in 1..n, i \in 1..(n + 1)
      <4>4. r[i] = f[k]
        BY ONLY <1>4, <4>3, i \in 1..(n + 1)
      <4> QED
        BY ONLY <2>1, <4>1, <4>4, i \in 1..(n + 1)
    <3> QED
      BY <2>4, <3>1, <3>2
  <2> QED
    BY <2>3, <2>4
<1> QED
  BY <1>9, <1>10, <1>11

(* count_score, either way. *)
LEMMA ScoreCounted ==
  ASSUME NEW f \in Tables, NEW g \in Int
  PROVE  /\ CountScore(f, g) \in Tables
         /\ \A x, c : x # g => (Entry(CountScore(f, g), x, c) <=> Entry(f, x, c))
         /\ \A c : Entry(CountScore(f, g), g, c) <=> IF \E d : Entry(f, g, d) THEN \E d \in Nat : Entry(f, g, d) /\ c = d + 1 ELSE c = 1
<1>1. PICK n \in Nat : n = Len(f) /\ DOMAIN f = 1..n /\ f \in [1..n -> AFreq]
  BY TableIs
<1>2. PICK from : from = From(f, g)
  OBVIOUS
<1>3. PICK at : at = Place(f, g)
  OBVIOUS
<1>4. /\ at \in 1..(n + 1) /\ (from # {} <=> at # n + 1) /\ (from # {} => at \in 1..n /\ f[at].score >= g)
      /\ \A k \in 1..n : k < at => f[k].score < g
  BY <1>1, <1>2, <1>3, ScorePlace
<1>5. PICK r : r = CountScore(f, g)
  OBVIOUS
<1>6. r = IF from # {} /\ f[at].score = g THEN Again(f, at) ELSE First(f, at, g)
  BY <1>2, <1>3, <1>5 DEF CountScore, From, Place, Again, First
<1>7. \A i \in 1..n : f[i].score \in Int /\ f[i].count \in Nat
  BY <1>1, TableIs
<1>8. CASE from # {} /\ f[at].score = g
  <2>1. at \in 1..Len(f) /\ r = Again(f, at)
    BY <1>1, <1>4, <1>6, <1>8
  <2>2. /\ r \in Tables
        /\ \A x, c : Entry(r, x, c) <=> IF x = g THEN c = f[at].count + 1 ELSE Entry(f, x, c)
    <3>1. /\ r \in Tables
          /\ \A x, c : Entry(r, x, c) <=> IF x = f[at].score THEN c = f[at].count + 1 ELSE Entry(f, x, c)
      BY <2>1, CountedAgain
    <3> QED
      BY ONLY <1>8, <3>1
  <2>3. PICK m \in Nat : m = f[at].count
    BY <1>1, <1>7, <2>1
  <2>4. \A d : Entry(f, g, d) <=> d = m
    <3>1. \A k \in 1..n : f[k].score = g => k = at
      BY <1>1, <1>8, <2>1, ScoresDiffer
    <3> QED
      BY <1>1, <1>8, <2>1, <2>3, <3>1 DEF Entry
  <2> QED
    BY ONLY <1>5, <2>2, <2>3, <2>4, m \in Nat
<1>9. CASE ~(from # {} /\ f[at].score = g)
  <2>1. r = First(f, at, g)
    BY <1>6, <1>9
  <2>2. ASSUME NEW k \in 1..n, k >= at PROVE g < f[k].score
    <3>1. from # {}
      BY ONLY <1>4, <2>2, n \in Nat
    <3>2. at \in 1..n /\ g < f[at].score
      BY <1>4, <1>7, <1>9, <3>1
    <3>3. k = at \/ at < k
      BY <2>2, <3>2
    <3>4. at < k => f[at].score < f[k].score
      BY <1>1, <3>2, TableIs
    <3> QED
      BY <1>7, <3>2, <3>3, <3>4
  <2>3. /\ r \in Tables /\ \A c : ~Entry(f, g, c)
        /\ \A x, c : Entry(r, x, c) <=> IF x = g THEN c = 1 ELSE Entry(f, x, c)
    BY <1>1, <1>4, <2>1, <2>2, CountedFirst
  <2> QED
    BY ONLY <1>5, <2>3
<1> QED
  BY <1>8, <1>9

(* The table after each score. *)
Counting(p, gs, n) == p \in [0..n -> Tables] /\ p[0] = <<>> /\ \A k \in 1..n : p[k] = CountScore(p[k - 1], gs[k])

(* The scores are counted one after the other. *)
LEMMA ScoresTurn ==
  ASSUME NEW n \in Nat, NEW gs \in [1..n -> Int]
  PROVE  \E p : Counting(p, gs, n) /\ FoldLeft(CountScore, <<>>, gs) = p[n]
<1> DEFINE I == CHOOSE it : it = [s \in SUBSET DOMAIN gs |-> IF s = {} THEN <<>> ELSE CountScore(it[s \ {Max(s)}], gs[Max(s)])]
<1>1. FoldLeft(CountScore, <<>>, gs) = I[DOMAIN gs]
  BY DEF FoldLeft, MapThenFoldSet
<1>2. PICK step : step = [x \in Tables \X Int |-> CountScore(x[1], x[2])]
  OBVIOUS
<1>3. step \in [Tables \X Int -> Tables] /\ \A f \in Tables, g \in Int : step[<<f, g>>] = CountScore(f, g)
  <2>1. \A x \in Tables \X Int : x[1] \in Tables /\ x[2] \in Int
    OBVIOUS
  <2>2. \A f \in Tables, g \in Int : CountScore(f, g) \in Tables
    BY ScoreCounted
  <2>3. step \in [Tables \X Int -> Tables]
    BY <1>2, <2>1, <2>2
  <2>4. ASSUME NEW f \in Tables, NEW g \in Int PROVE step[<<f, g>>] = CountScore(f, g)
    <3>1. <<f, g>> \in Tables \X Int /\ <<f, g>>[1] = f /\ <<f, g>>[2] = g
      OBVIOUS
    <3> QED
      BY <1>2, <3>1
  <2> QED
    BY <2>3, <2>4
<1>4. <<>> \in Tables
  <2>1. <<>> \in Seq(AFreq) /\ Len(<<>>) = 0
    OBVIOUS
  <2>2. 1..0 = {}
    OBVIOUS
  <2> QED
    BY ONLY <2>1, <2>2 DEF Tables
<1>5. PICK it \in [SUBSET (1..n) -> Tables] : Folds(it, n, <<>>, step, gs)
  BY ONLY <1>3, <1>4, n \in Nat, gs \in [1..n -> Int], FoldExists
<1>6. it = [s \in SUBSET (1..n) |-> IF s = {} THEN <<>> ELSE CountScore(it[s \ {Max(s)}], gs[Max(s)])]
  <2>1. ASSUME NEW s \in SUBSET (1..n), s # {} PROVE it[s] = CountScore(it[s \ {Max(s)}], gs[Max(s)])
    <3>1. Max(s) \in 1..n /\ s \ {Max(s)} \in SUBSET (1..n)
      BY <2>1, MaxThere
    <3>2. it[s \ {Max(s)}] \in Tables /\ gs[Max(s)] \in Int
      BY <3>1
    <3>3. it[s] = step[<<it[s \ {Max(s)}], gs[Max(s)]>>]
      BY <1>5, <2>1 DEF Folds
    <3> QED
      BY <1>3, <3>2, <3>3
  <2>2. ASSUME NEW s \in SUBSET (1..n), s = {} PROVE it[s] = <<>>
    BY <1>5, <2>2 DEF Folds
  <2>3. it = [s \in SUBSET (1..n) |-> it[s]]
    OBVIOUS
  <2> QED
    BY <2>1, <2>2, <2>3
<1>7. I = [s \in SUBSET (1..n) |-> IF s = {} THEN <<>> ELSE CountScore(I[s \ {Max(s)}], gs[Max(s)])]
  <2>1. DOMAIN gs = 1..n
    OBVIOUS
  <2> QED
    BY <1>6, <2>1
<1> HIDE DEF I
<1>8. PICK p : p = [k \in 0..n |-> it[1..k]]
  OBVIOUS
<1>9. p[0] = <<>> /\ p \in [0..n -> Tables]
  <2>1. 1..0 = {} /\ {} \in SUBSET (1..n) /\ 0 \in 0..n /\ \A k \in 0..n : 1..k \in SUBSET (1..n)
    OBVIOUS
  <2> QED
    BY <1>5, <1>6, <1>8, <2>1
<1>10. ASSUME NEW k \in 1..n PROVE p[k] = CountScore(p[k - 1], gs[k])
  <2>1. k \in 0..n /\ k - 1 \in 0..n
    OBVIOUS
  <2>2. PICK s \in SUBSET (1..n) : s = 1..k /\ s # {} /\ Max(s) = k /\ s \ {k} = 1..(k - 1)
    BY FirstParts
  <2>3. it[s] = CountScore(it[s \ {Max(s)}], gs[Max(s)])
    BY <1>6, <2>2
  <2> QED
    BY <1>8, <2>1, <2>2, <2>3
<1>11. I[1..n] = it[1..n]
  <2>1. I[{}] = it[{}]
    BY <1>6, <1>7
  <2>2. ASSUME NEW k \in 1..n, I[1..(k - 1)] = it[1..(k - 1)] PROVE I[1..k] = it[1..k]
    <3>1. PICK s \in SUBSET (1..n) : s = 1..k /\ s # {} /\ Max(s) = k /\ s \ {k} = 1..(k - 1)
      BY FirstParts
    <3>2. I[s] = CountScore(I[s \ {Max(s)}], gs[Max(s)]) /\ it[s] = CountScore(it[s \ {Max(s)}], gs[Max(s)])
      BY <1>6, <1>7, <3>1
    <3> QED
      BY <2>2, <3>1, <3>2
  <2> QED
    BY ONLY <2>1, <2>2, n \in Nat, FoldIs
<1>12. FoldLeft(CountScore, <<>>, gs) = p[n]
  <2>1. DOMAIN gs = 1..n /\ n \in 0..n
    OBVIOUS
  <2> QED
    BY <1>1, <1>8, <1>11, <2>1
<1> QED
  BY <1>9, <1>10, <1>12 DEF Counting

(* How many of the first k are x. *)
Tally(gs, k, x) == Cardinality({i \in 1..k : gs[i] = x})

(* One more, or not. *)
LEMMA TallyTurns ==
  ASSUME NEW k \in Nat \ {0}, NEW gs, NEW x
  PROVE  /\ Tally(gs, k, x) \in Nat /\ Tally(gs, k - 1, x) \in Nat /\ Tally(gs, 0, x) = 0
         /\ Tally(gs, k, x) = IF gs[k] = x THEN Tally(gs, k - 1, x) + 1 ELSE Tally(gs, k - 1, x)
<1>1. PICK a : a = {i \in 1..k : gs[i] = x}
  OBVIOUS
<1>2. PICK b : b = {i \in 1..(k - 1) : gs[i] = x}
  OBVIOUS
<1>3. IsFiniteSet(a) /\ IsFiniteSet(b) /\ Cardinality(a) \in Nat /\ Cardinality(b) \in Nat
  <2>1. IsFiniteSet(1..k) /\ IsFiniteSet(1..(k - 1))
    <3>1. 1 \in Int /\ k \in Int /\ k - 1 \in Int
      OBVIOUS
    <3> QED
      BY <3>1, FS_Interval
  <2>2. a \in SUBSET (1..k) /\ b \in SUBSET (1..(k - 1))
    BY <1>1, <1>2
  <2>3. IsFiniteSet(a) /\ IsFiniteSet(b)
    BY ONLY <2>1, <2>2, FS_Subset
  <2> QED
    BY ONLY <2>3, FS_CardinalityType
<1>4. k \notin b /\ (gs[k] = x => a = b \cup {k}) /\ (gs[k] # x => a = b)
  <2>1. \A i : i \in 1..k <=> i = k \/ i \in 1..(k - 1)
    OBVIOUS
  <2>2. k \notin 1..(k - 1)
    OBVIOUS
  <2> QED
    BY ONLY <1>1, <1>2, <2>1, <2>2
<1>5. gs[k] = x => Cardinality(a) = Cardinality(b) + 1
  BY ONLY <1>3, <1>4, FS_AddElement
<1>6. Tally(gs, k, x) = Cardinality(a) /\ Tally(gs, k - 1, x) = Cardinality(b)
  BY <1>1, <1>2 DEF Tally
<1>7. Tally(gs, 0, x) = 0
  <2>1. {i \in 1..0 : gs[i] = x} = {}
    OBVIOUS
  <2> QED
    BY <2>1, FS_EmptySet DEF Tally
<1> QED
  BY ONLY <1>3, <1>4, <1>5, <1>6, <1>7

(* The table has the first k scores, each as often as it is among them. *)
Counted(f, gs, k) == \A x \in Int : \A c : Entry(f, x, c) <=> c = Tally(gs, k, x) /\ c # 0

(* One score more is counted. *)
LEMMA CountedTurn ==
  ASSUME NEW n \in Nat, NEW gs \in [1..n -> Int], NEW k \in 1..n, NEW f \in Tables, Counted(f, gs, k - 1)
  PROVE  Counted(CountScore(f, gs[k]), gs, k)
<1>1. PICK g \in Int : g = gs[k]
  OBVIOUS
<1>2. PICK r : r = CountScore(f, g)
  OBVIOUS
<1>3. /\ \A x, c : x # g => (Entry(r, x, c) <=> Entry(f, x, c))
      /\ \A c : Entry(r, g, c) <=> IF \E d : Entry(f, g, d) THEN \E d \in Nat : Entry(f, g, d) /\ c = d + 1 ELSE c = 1
  BY <1>2, ScoreCounted
<1>4. ASSUME NEW x \in Int, NEW c PROVE Entry(r, x, c) <=> c = Tally(gs, k, x) /\ c # 0
  <2>1. PICK t, u \in Nat : /\ t = Tally(gs, k, x) /\ u = Tally(gs, k - 1, x)
                            /\ t = IF g = x THEN u + 1 ELSE u
    <3>1. k \in Nat \ {0}
      OBVIOUS
    <3>2. /\ Tally(gs, k, x) \in Nat /\ Tally(gs, k - 1, x) \in Nat
          /\ Tally(gs, k, x) = IF gs[k] = x THEN Tally(gs, k - 1, x) + 1 ELSE Tally(gs, k - 1, x)
      BY ONLY <3>1, TallyTurns
    <3> QED
      BY ONLY <1>1, <3>2
  <2>2. \A d : Entry(f, x, d) <=> d = u /\ d # 0
    BY <2>1 DEF Counted
  <2>3. CASE x # g
    BY ONLY <1>3, <2>1, <2>2, <2>3
  <2>4. CASE x = g
    <3>1. CASE u = 0
      BY ONLY <1>3, <2>1, <2>2, <2>4, <3>1, u \in Nat
    <3>2. CASE u # 0
      <4>1. Entry(f, g, u) /\ \A d : Entry(f, g, d) => d = u
        BY ONLY <2>2, <2>4, <3>2
      <4>2. Entry(r, g, c) <=> c = u + 1
        BY ONLY <1>3, <4>1, u \in Nat
      <4>3. u + 1 # 0
        OBVIOUS
      <4> QED
        BY ONLY <2>1, <2>4, <4>2, <4>3
    <3> QED
      BY <3>1, <3>2
  <2> QED
    BY <2>3, <2>4
<1> QED
  BY <1>1, <1>2, <1>4 DEF Counted

(* do_freqs: scores rise, and each is counted as often as it was given. *)
LEMMA TableCounts ==
  ASSUME NEW n \in Nat, NEW gs \in [1..n -> Int]
  PROVE  FoldLeft(CountScore, <<>>, gs) \in Tables /\ Counted(FoldLeft(CountScore, <<>>, gs), gs, n)
<1>1. PICK p : Counting(p, gs, n) /\ FoldLeft(CountScore, <<>>, gs) = p[n]
  BY ScoresTurn
<1>2. PICK D : D = {k \in 0..n : Counted(p[k], gs, k)}
  OBVIOUS
<1>3. 0 \in D
  <2>1. p[0] = <<>> /\ Len(<<>>) = 0 /\ 1..0 = {}
    BY <1>1 DEF Counting
  <2>2. \A x, c : ~Entry(p[0], x, c)
    BY ONLY <2>1 DEF Entry
  <2>3. \A x : Tally(gs, 0, x) = 0
    BY 1 \in Nat \ {0}, TallyTurns
  <2>4. Counted(p[0], gs, 0)
    BY ONLY <2>2, <2>3 DEF Counted
  <2> QED
    BY <1>2, <2>4
<1>4. ASSUME NEW k \in 0..(n - 1), k \in D PROVE k + 1 \in D
  <2>1. PICK j \in 1..n : j = k + 1 /\ j - 1 = k /\ j \in 0..n
    OBVIOUS
  <2>2. p[j] = CountScore(p[j - 1], gs[j]) /\ p[j - 1] \in Tables
    BY <1>1, <2>1 DEF Counting
  <2>3. Counted(p[j - 1], gs, j - 1)
    BY <1>2, <1>4, <2>1
  <2>4. Counted(p[j], gs, j)
    BY <2>2, <2>3, CountedTurn
  <2> QED
    BY ONLY <1>2, <2>1, <2>4
<1>5. \A k \in 0..n : k \in D
  BY ONLY <1>3, <1>4, n \in Nat, UpTo
<1>6. n \in 0..n
  OBVIOUS
<1> QED
  BY <1>1, <1>2, <1>5, <1>6 DEF Counting

----------------------------------------------------------------------------
(* How often a score is given *)

(* In one sequence after the other a score is as often as in both. *)
LEMMA TallyJoins ==
  ASSUME NEW s \in Seq(Int), NEW t \in Seq(Int), NEW g
  PROVE  /\ s \o t \in Seq(Int) /\ Len(s \o t) = Len(s) + Len(t)
         /\ Tally(s \o t, Len(s \o t), g) = Tally(s, Len(s), g) + Tally(t, Len(t), g)
         /\ Tally(s, Len(s), g) \in Nat /\ Tally(t, Len(t), g) \in Nat
<1>1. PICK m, l \in Nat : m = Len(s) /\ l = Len(t)
  OBVIOUS
<1>2. PICK u : u = s \o t
  OBVIOUS
<1>3. u \in Seq(Int) /\ Len(u) = m + l
  BY ONLY <1>1, <1>2, s \in Seq(Int), t \in Seq(Int), ConcatProperties
<1>4. \A i \in 1..(m + l) : u[i] = IF i <= m THEN s[i] ELSE t[i - m]
  BY ONLY <1>1, <1>2, s \in Seq(Int), t \in Seq(Int), ConcatProperties
<1>5. PICK D : D = {j \in 0..l : Tally(u, m + j, g) = Tally(s, m, g) + Tally(t, j, g)}
  OBVIOUS
<1>6. \A q : \A k \in Nat : Tally(q, k, g) \in Nat
  <2> SUFFICES ASSUME NEW q, NEW k \in Nat PROVE Tally(q, k, g) \in Nat
    OBVIOUS
  <2>1. PICK j \in Nat \ {0} : j = k + 1 /\ j - 1 = k
    OBVIOUS
  <2>2. Tally(q, j - 1, g) \in Nat
    BY ONLY j \in Nat \ {0}, TallyTurns
  <2> QED
    BY ONLY <2>1, <2>2
<1>7. 0 \in D
  <2>1. \A i \in 1..m : i \in 1..(m + l) /\ i <= m
    OBVIOUS
  <2>2. {i \in 1..m : u[i] = g} = {i \in 1..m : s[i] = g}
    BY ONLY <1>4, <2>1
  <2>3. Tally(u, m, g) = Tally(s, m, g)
    BY <2>2 DEF Tally
  <2>4. Tally(t, 0, g) = 0
    BY 1 \in Nat \ {0}, TallyTurns
  <2>5. m + 0 = m /\ Tally(s, m, g) \in Nat
    BY <1>6
  <2>6. Tally(u, m + 0, g) = Tally(s, m, g) + Tally(t, 0, g)
    BY ONLY <2>3, <2>4, <2>5
  <2> QED
    BY <1>5, <2>6
<1>8. ASSUME NEW j \in 0..(l - 1), j \in D PROVE j + 1 \in D
  <2>1. PICK k \in Nat \ {0} : k = j + 1 /\ k - 1 = j /\ k \in 0..l
    OBVIOUS
  <2>2. PICK h \in Nat \ {0} : h = m + k /\ h - 1 = m + j /\ h \in 1..(m + l) /\ ~(h <= m) /\ h - m = k
    BY <2>1
  <2>3. u[h] = t[k]
    BY ONLY <1>4, <2>2
  <2>4. /\ Tally(u, h - 1, g) \in Nat
        /\ Tally(u, h, g) = IF u[h] = g THEN Tally(u, h - 1, g) + 1 ELSE Tally(u, h - 1, g)
    BY ONLY h \in Nat \ {0}, TallyTurns
  <2>5. /\ Tally(t, k - 1, g) \in Nat
        /\ Tally(t, k, g) = IF t[k] = g THEN Tally(t, k - 1, g) + 1 ELSE Tally(t, k - 1, g)
    BY ONLY k \in Nat \ {0}, TallyTurns
  <2>6. PICK a, b, c \in Nat : a = Tally(u, m + j, g) /\ b = Tally(s, m, g) /\ c = Tally(t, j, g)
    BY <1>6
  <2>7. a = b + c
    BY <1>5, <1>8, <2>6
  <2>8. Tally(u, h, g) = (IF t[k] = g THEN a + 1 ELSE a) /\ Tally(t, k, g) = (IF t[k] = g THEN c + 1 ELSE c)
    BY ONLY <2>1, <2>2, <2>3, <2>4, <2>5, <2>6
  <2>9. Tally(u, h, g) = b + Tally(t, k, g)
    BY ONLY <2>7, <2>8, a \in Nat, b \in Nat, c \in Nat
  <2>10. Tally(u, m + k, g) = Tally(s, m, g) + Tally(t, k, g)
    BY ONLY <2>2, <2>6, <2>9
  <2> QED
    BY ONLY <1>5, <2>1, <2>10
<1>9. \A j \in 0..l : j \in D
  BY ONLY <1>7, <1>8, l \in Nat, UpTo
<1>10. l \in 0..l
  OBVIOUS
<1>11. Tally(u, m + l, g) = Tally(s, m, g) + Tally(t, l, g)
  BY <1>5, <1>9, <1>10
<1> QED
  BY <1>1, <1>2, <1>3, <1>6, <1>11

(* In many sequences it is as often as in all of them. *)
LEMMA TallyConcat ==
  ASSUME NEW n \in Nat, NEW seqs \in [1..n -> Seq(Int)], NEW g,
         NEW ts \in [1..n -> Int], \A k \in 1..n : ts[k] = Tally(seqs[k], Len(seqs[k]), g)
  PROVE  Concat(seqs) \in Seq(Int) /\ Tally(Concat(seqs), Len(Concat(seqs)), g) = Total(ts)
<1>1. PICK p : Joined(p, seqs, n, Int) /\ Concat(seqs) = p[n]
  BY ConcatJoins
<1>2. PICK q : Sums(q, ts, n) /\ Total(ts) = q[n]
  BY TotalSums
<1>3. PICK D : D = {k \in 0..n : Tally(p[k], Len(p[k]), g) = q[k]}
  OBVIOUS
<1>4. 0 \in D
  <2>1. p[0] = <<>> /\ q[0] = 0 /\ Len(<<>>) = 0
    BY <1>1, <1>2 DEF Joined, Sums
  <2>2. Tally(<<>>, 0, g) = 0
    BY 1 \in Nat \ {0}, TallyTurns
  <2> QED
    BY <1>3, <2>1, <2>2
<1>5. ASSUME NEW k \in 0..(n - 1), k \in D PROVE k + 1 \in D
  <2>1. PICK j \in 1..n : j = k + 1 /\ j - 1 = k /\ j \in 0..n /\ k \in 0..n
    OBVIOUS
  <2>2. p[j] = p[k] \o seqs[j] /\ p[k] \in Seq(Int) /\ seqs[j] \in Seq(Int)
    BY <1>1, <2>1 DEF Joined
  <2>3. q[j] = q[k] + ts[j] /\ ts[j] = Tally(seqs[j], Len(seqs[j]), g)
    BY <1>2, <2>1 DEF Sums
  <2>4. PICK u \in Seq(Int), v \in Seq(Int) : u = p[k] /\ v = seqs[j] /\ p[j] = u \o v
    BY <2>2
  <2>5. Tally(u \o v, Len(u \o v), g) = Tally(u, Len(u), g) + Tally(v, Len(v), g)
    BY TallyJoins
  <2>6. Tally(u, Len(u), g) = q[k]
    BY <1>3, <1>5, <2>4
  <2>7. Tally(p[j], Len(p[j]), g) = q[j]
    BY ONLY <2>3, <2>4, <2>5, <2>6
  <2> QED
    BY ONLY <1>3, <2>1, <2>7
<1>6. \A k \in 0..n : k \in D
  BY ONLY <1>4, <1>5, n \in Nat, UpTo
<1>7. n \in 0..n
  OBVIOUS
<1> QED
  BY <1>1, <1>2, <1>3, <1>6, <1>7 DEF Joined

(* Sets of which no two have a common member have together as many as each. *)
LEMMA SizesAdd ==
  ASSUME NEW n \in Nat, NEW sets, \A k \in 1..n : IsFiniteSet(sets[k]),
         \A i, j \in 1..n : i # j => sets[i] \cap sets[j] = {},
         NEW ts \in [1..n -> Int], \A k \in 1..n : ts[k] = Cardinality(sets[k])
  PROVE  /\ IsFiniteSet(UNION {sets[k] : k \in 1..n})
         /\ Cardinality(UNION {sets[k] : k \in 1..n}) = Total(ts)
<1>1. PICK q : Sums(q, ts, n) /\ Total(ts) = q[n]
  BY TotalSums
<1>2. PICK u : u = [k \in 0..n |-> UNION {sets[i] : i \in 1..k}]
  OBVIOUS
<1>3. PICK D : D = {k \in 0..n : IsFiniteSet(u[k]) /\ Cardinality(u[k]) = q[k]}
  OBVIOUS
<1>4. 0 \in D
  <2>1. u[0] = {}
    <3>1. 0 \in 0..n /\ 1..0 = {}
      OBVIOUS
    <3> QED
      BY <1>2, <3>1
  <2>2. q[0] = 0
    BY <1>1 DEF Sums
  <2>3. 0 \in 0..n
    OBVIOUS
  <2> QED
    BY ONLY <1>3, <2>1, <2>2, <2>3, FS_EmptySet
<1>5. ASSUME NEW k \in 0..(n - 1), k \in D PROVE k + 1 \in D
  <2>1. PICK j \in 1..n : j = k + 1 /\ j - 1 = k /\ j \in 0..n /\ k \in 0..n
    OBVIOUS
  <2>2. \A i : i \in 1..j <=> i = j \/ i \in 1..k
    BY <2>1
  <2>3. u[j] = UNION {sets[i] : i \in 1..j} /\ u[k] = UNION {sets[i] : i \in 1..k}
    BY ONLY <1>2, <2>1
  <2>4. PICK a, b : a = u[k] /\ b = sets[j]
    OBVIOUS
  <2>5. u[j] = a \cup b
    BY ONLY <2>2, <2>3, <2>4
  <2>6. a \cap b = {}
    <3>1. \A i \in 1..k : i \in 1..n /\ i # j
      BY <2>1
    <3>2. \A i \in 1..k : sets[i] \cap b = {}
      BY <2>4, <3>1
    <3> QED
      BY ONLY <2>3, <2>4, <3>2
  <2>7. IsFiniteSet(a) /\ IsFiniteSet(b) /\ Cardinality(a) = q[k] /\ Cardinality(b) = ts[j]
    BY <1>3, <1>5, <2>4
  <2>8. Cardinality(a) \in Nat /\ Cardinality(b) \in Nat
    BY ONLY <2>7, FS_CardinalityType
  <2>9. IsFiniteSet(a \cup b) /\ Cardinality(a \cup b) = Cardinality(a) + Cardinality(b) - Cardinality(a \cap b)
    BY ONLY <2>7, FS_Union
  <2>10. Cardinality(a \cap b) = 0
    BY ONLY <2>6, FS_EmptySet
  <2>11. Cardinality(a \cup b) = Cardinality(a) + Cardinality(b)
    BY ONLY <2>8, <2>9, <2>10
  <2>12. q[j] = q[k] + ts[j]
    BY <1>1, <2>1 DEF Sums
  <2> QED
    BY ONLY <1>3, <2>1, <2>5, <2>7, <2>9, <2>11, <2>12
<1>6. \A k \in 0..n : k \in D
  BY ONLY <1>4, <1>5, n \in Nat, UpTo
<1>7. n \in 0..n
  OBVIOUS
<1>8. u[n] = UNION {sets[k] : k \in 1..n}
  BY ONLY <1>2, <1>7
<1> QED
  BY ONLY <1>1, <1>3, <1>6, <1>7, <1>8

(* The scores of a student that are tallied, as grade g of assignment a.     *)
Given(a, st, g) ==
  {i \in Scores(st) : LET sc == course.students[st].scores[i] IN sc.asgt = a /\ Tallied(sc) /\ sc.grade = g}
GivenOf(a, st, g)  == {st} \X Given(a, st, g)
GivenTo(a, S, g) == UNION {GivenOf(a, st, g) : st \in S}

GradeOf(a, sc) == IF sc.asgt = a /\ Tallied(sc) THEN <<sc.grade>> ELSE <<>>
OwnGrades(a, st) == Concat([i \in Scores(st) |-> GradeOf(a, course.students[st].scores[i])])

(* A score that is tallied is one grade. *)
LEMMA TallyOfOne ==
  ASSUME NEW a, NEW sc, NEW g, sc.grade \in Int
  PROVE  /\ GradeOf(a, sc) \in Seq(Int)
         /\ Tally(GradeOf(a, sc), Len(GradeOf(a, sc)), g) = IF sc.asgt = a /\ Tallied(sc) /\ sc.grade = g THEN 1 ELSE 0
<1>1. 1 \in Nat \ {0} /\ 1 - 1 = 0
  OBVIOUS
<1>2. \A q : Tally(q, 0, g) = 0 /\ Tally(q, 1, g) = IF q[1] = g THEN 1 ELSE 0
  <2> SUFFICES ASSUME NEW q PROVE Tally(q, 0, g) = 0 /\ Tally(q, 1, g) = IF q[1] = g THEN 1 ELSE 0
    OBVIOUS
  <2>1. /\ Tally(q, 0, g) = 0
        /\ Tally(q, 1, g) = IF q[1] = g THEN Tally(q, 1 - 1, g) + 1 ELSE Tally(q, 1 - 1, g)
    BY ONLY 1 \in Nat \ {0}, TallyTurns
  <2> QED
    BY ONLY <1>1, <2>1
<1>3. CASE sc.asgt = a /\ Tallied(sc)
  <2>1. PICK x \in Int : x = sc.grade
    OBVIOUS
  <2>2. PICK q : q = <<x>>
    OBVIOUS
  <2>3. q \in Seq(Int) /\ Len(q) = 1 /\ q[1] = x
    BY ONLY <2>2, x \in Int
  <2>4. GradeOf(a, sc) = q
    BY <1>3, <2>1, <2>2 DEF GradeOf
  <2>5. Tally(q, 1, g) = IF x = g THEN 1 ELSE 0
    BY ONLY <1>2, <2>3
  <2> QED
    BY ONLY <1>3, <2>1, <2>3, <2>4, <2>5
<1>4. CASE ~(sc.asgt = a /\ Tallied(sc))
  <2>1. GradeOf(a, sc) = <<>>
    BY <1>4 DEF GradeOf
  <2>2. <<>> \in Seq(Int) /\ Len(<<>>) = 0
    OBVIOUS
  <2> QED
    BY ONLY <1>2, <1>4, <2>1, <2>2
<1> QED
  BY <1>3, <1>4

(* The grades of a student. *)
LEMMA OwnTally ==
  ASSUME NumbersOK(course), NEW a, NEW st \in Students, NEW g
  PROVE  /\ OwnGrades(a, st) \in Seq(Int) /\ IsFiniteSet(GivenOf(a, st, g))
         /\ Tally(OwnGrades(a, st), Len(OwnGrades(a, st)), g) = Cardinality(GivenOf(a, st, g))
<1>1. StudentOK(course.students[st], Assignments)
  BY DEF NumbersOK, Assignments, Students
<1>2. PICK scs : scs = course.students[st].scores
  OBVIOUS
<1>3. PICK m \in Nat : Scores(st) = 1..m
  BY <1>1, SeqIsListed DEF StudentOK, Listed, Scores
<1>4. \A i \in 1..m : scs[i].grade \in Int
  BY <1>1, <1>2, <1>3 DEF StudentOK, ScoreOK, Scores
<1>5. PICK seqs : seqs = [i \in 1..m |-> GradeOf(a, scs[i])]
  OBVIOUS
<1>6. OwnGrades(a, st) = Concat(seqs)
  BY <1>2, <1>3, <1>5 DEF OwnGrades
<1>7. PICK G : G = Given(a, st, g)
  OBVIOUS
<1>8. G \subseteq 1..m /\ \A i \in 1..m : i \in G <=> scs[i].asgt = a /\ Tallied(scs[i]) /\ scs[i].grade = g
  BY <1>2, <1>3, <1>7 DEF Given
<1>9. PICK ts : ts = [i \in 1..m |-> IF i \in G THEN 1 ELSE 0]
  OBVIOUS
<1>10. ts \in [1..m -> Int]
  BY ONLY <1>9
<1>11. PICK sets : sets = [i \in 1..m |-> IF i \in G THEN {<<st, i>>} ELSE {}]
  OBVIOUS
<1>12. ASSUME NEW i \in 1..m PROVE seqs[i] \in Seq(Int) /\ ts[i] = Tally(seqs[i], Len(seqs[i]), g)
  <2>1. /\ GradeOf(a, scs[i]) \in Seq(Int)
        /\ Tally(GradeOf(a, scs[i]), Len(GradeOf(a, scs[i])), g) = IF scs[i].asgt = a /\ Tallied(scs[i]) /\ scs[i].grade = g THEN 1 ELSE 0
    BY <1>4, TallyOfOne
  <2>2. seqs[i] = GradeOf(a, scs[i]) /\ ts[i] = IF i \in G THEN 1 ELSE 0
    BY ONLY <1>5, <1>9, i \in 1..m
  <2> QED
    BY ONLY <1>8, <2>1, <2>2, i \in 1..m
<1>13. seqs \in [1..m -> Seq(Int)]
  BY <1>5, <1>12
<1>14. Concat(seqs) \in Seq(Int) /\ Tally(Concat(seqs), Len(Concat(seqs)), g) = Total(ts)
  BY <1>10, <1>12, <1>13, TallyConcat
<1>15. ASSUME NEW i \in 1..m PROVE IsFiniteSet(sets[i]) /\ ts[i] = Cardinality(sets[i])
  <2>1. sets[i] = (IF i \in G THEN {<<st, i>>} ELSE {}) /\ ts[i] = IF i \in G THEN 1 ELSE 0
    BY ONLY <1>9, <1>11, i \in 1..m
  <2> QED
    BY ONLY <2>1, FS_EmptySet, FS_Singleton
<1>16. \A i, j \in 1..m : i # j => sets[i] \cap sets[j] = {}
  <2>1. \A i \in 1..m : \A x \in sets[i] : x = <<st, i>>
    BY ONLY <1>11
  <2>2. \A i, j \in 1..m : i # j => <<st, i>> # <<st, j>>
    OBVIOUS
  <2> QED
    BY ONLY <2>1, <2>2
<1>17. /\ IsFiniteSet(UNION {sets[k] : k \in 1..m})
       /\ Cardinality(UNION {sets[k] : k \in 1..m}) = Total(ts)
  BY ONLY <1>10, <1>15, <1>16, m \in Nat, SizesAdd
<1>18. UNION {sets[k] : k \in 1..m} = GivenOf(a, st, g)
  <2>1. GivenOf(a, st, g) = {st} \X G
    BY <1>7 DEF GivenOf
  <2>2. \A x : x \in {st} \X G <=> \E i \in G : x = <<st, i>>
    OBVIOUS
  <2>3. \A x : x \in UNION {sets[k] : k \in 1..m} <=> \E i \in 1..m : i \in G /\ x = <<st, i>>
    BY ONLY <1>11
  <2>4. \A x : x \in UNION {sets[k] : k \in 1..m} <=> x \in {st} \X G
    BY ONLY <1>8, <2>2, <2>3
  <2> QED
    BY ONLY <2>1, <2>4
<1> QED
  BY ONLY <1>6, <1>14, <1>17, <1>18

(* The grades of students none of whom is twice there. *)
LEMMA GradesTally ==
  ASSUME NumbersOK(course), NEW a, NEW n \in Nat, NEW sts \in [1..n -> Students], NEW g,
         \A i, j \in 1..n : i # j => sts[i] # sts[j]
  PROVE  /\ GradesOf(a, sts) \in Seq(Int) /\ IsFiniteSet(GivenTo(a, Range(sts), g))
         /\ Tally(GradesOf(a, sts), Len(GradesOf(a, sts)), g) = Cardinality(GivenTo(a, Range(sts), g))
<1>1. PICK seqs : seqs = [k \in 1..n |-> OwnGrades(a, sts[k])]
  OBVIOUS
<1>2. GradesOf(a, sts) = Concat(seqs)
  <2>1. DOMAIN sts = 1..n
    OBVIOUS
  <2> QED
    BY <1>1, <2>1 DEF GradesOf, OwnGrades, GradeOf
<1>3. PICK sets : sets = [k \in 1..n |-> GivenOf(a, sts[k], g)]
  OBVIOUS
<1>4. PICK ts : ts = [k \in 1..n |-> Cardinality(sets[k])]
  OBVIOUS
<1>5. ASSUME NEW k \in 1..n
      PROVE  seqs[k] \in Seq(Int) /\ IsFiniteSet(sets[k]) /\ ts[k] = Cardinality(sets[k])
             /\ ts[k] = Tally(seqs[k], Len(seqs[k]), g) /\ ts[k] \in Int
  <2>1. PICK st \in Students : st = sts[k]
    OBVIOUS
  <2>2. /\ OwnGrades(a, st) \in Seq(Int) /\ IsFiniteSet(GivenOf(a, st, g))
        /\ Tally(OwnGrades(a, st), Len(OwnGrades(a, st)), g) = Cardinality(GivenOf(a, st, g))
    BY OwnTally
  <2>3. Cardinality(GivenOf(a, st, g)) \in Nat
    BY ONLY <2>2, FS_CardinalityType
  <2>4. seqs[k] = OwnGrades(a, st) /\ sets[k] = GivenOf(a, st, g) /\ ts[k] = Cardinality(sets[k])
    BY ONLY <1>1, <1>3, <1>4, <2>1, k \in 1..n
  <2> QED
    BY <2>2, <2>3, <2>4
<1>6. seqs \in [1..n -> Seq(Int)] /\ ts \in [1..n -> Int]
  <2>1. seqs = [k \in 1..n |-> seqs[k]] /\ ts = [k \in 1..n |-> ts[k]]
    BY ONLY <1>1, <1>4
  <2> QED
    BY ONLY <1>5, <2>1
<1>7. Concat(seqs) \in Seq(Int) /\ Tally(Concat(seqs), Len(Concat(seqs)), g) = Total(ts)
  BY <1>5, <1>6, TallyConcat
<1>8. \A i, j \in 1..n : i # j => sets[i] \cap sets[j] = {}
  <2>1. \A k \in 1..n : \A x \in sets[k] : x[1] = sts[k]
    BY <1>3 DEF GivenOf
  <2> QED
    BY ONLY <2>1, \A i, j \in 1..n : i # j => sts[i] # sts[j]
<1>9. /\ IsFiniteSet(UNION {sets[k] : k \in 1..n})
      /\ Cardinality(UNION {sets[k] : k \in 1..n}) = Total(ts)
  BY ONLY <1>5, <1>6, <1>8, n \in Nat, SizesAdd
<1>10. UNION {sets[k] : k \in 1..n} = GivenTo(a, Range(sts), g)
  <2>1. Range(sts) = {sts[k] : k \in 1..n}
    BY DEF Range
  <2>2. {sets[k] : k \in 1..n} = {GivenOf(a, st, g) : st \in Range(sts)}
    BY ONLY <1>3, <2>1
  <2> QED
    BY ONLY <2>2 DEF GivenTo
<1> QED
  BY ONLY <1>2, <1>7, <1>9, <1>10

----------------------------------------------------------------------------
(* Statistics and normalized scores *)

(* The numbers of a group. *)
(* Every entry of a table counts, and together they count what there is.     *)
Weighed(f, n) == (\A k \in 1..Len(f) : f[k].count # 0) /\ NumLess(f, Len(f) + 1) = n

NumberedGroup(m) ==
  /\ m = [freqs |-> m.freqs, valid |-> m.valid, max |-> m.max, mean |-> m.mean, stddev |-> m.stddev]
  /\ m.valid \in Nat /\ m.max \in Int /\ m.mean \in Int /\ m.stddev \in Int
  /\ m.freqs \in Tables /\ Weighed(m.freqs, m.valid)

(* A list has a greatest and a least number. *)
LEMMA ListBounds ==
  ASSUME NEW n \in Nat, n # 0, NEW f \in [1..n -> Int], NEW S, S = {f[k] : k \in 1..n}
  PROVE  /\ Max(S) \in S /\ Min(S) \in S /\ Max(S) \in Int /\ Min(S) \in Int
         /\ \A x \in S : x \in Int /\ Min(S) <= x /\ x <= Max(S)
<1>1. PICK D : D = {k \in 0..n : k = 0 \/ \E i, j \in 1..k : \A l \in 1..k : f[i] <= f[l] /\ f[l] <= f[j]}
  OBVIOUS
<1>2. 0 \in D
  BY <1>1
<1>3. ASSUME NEW k \in 0..(n - 1), k \in D PROVE k + 1 \in D
  <2>1. /\ k + 1 \in 0..n /\ k + 1 # 0 /\ k + 1 \in 1..(k + 1) /\ \A l \in 1..(k + 1) : l \in 1..n /\ (l = k + 1 \/ l \in 1..k)
        /\ \A l \in 1..k : l \in 1..(k + 1)
    OBVIOUS
  <2>2. \A l \in 1..(k + 1) : f[l] \in Int
    BY <2>1
  <2>3. PICK x \in Int : x = f[k + 1]
    BY <2>1, <2>2
  <2>4. \A l \in 1..(k + 1) : f[l] = x \/ l \in 1..k
    BY ONLY <2>1, <2>3
  <2>5. CASE k = 0
    <3>1. \A l \in 1..(k + 1) : f[l] = x
      BY <2>4, <2>5
    <3>2. \A l \in 1..(k + 1) : f[k + 1] <= f[l] /\ f[l] <= f[k + 1]
      BY ONLY <2>3, <3>1, x \in Int
    <3> QED
      BY ONLY <1>1, <2>1, <3>2
  <2>6. CASE k # 0
    <3>1. PICK i \in 1..k, j \in 1..k : \A l \in 1..k : f[i] <= f[l] /\ f[l] <= f[j]
      BY <1>1, <1>3, <2>6
    <3>2. PICK a, b \in Int : a = f[i] /\ b = f[j]
      BY <2>1, <2>2
    <3>3. \E u \in 1..(k + 1) : f[u] <= x /\ f[u] <= a
      <4>1. CASE x <= a
        BY <2>1, <2>3, <4>1
      <4>2. CASE ~(x <= a)
        BY <2>1, <3>2, <4>2
      <4> QED
        BY <4>1, <4>2
    <3>4. \E v \in 1..(k + 1) : x <= f[v] /\ b <= f[v]
      <4>1. CASE b <= x
        BY <2>1, <2>3, <4>1
      <4>2. CASE ~(b <= x)
        BY <2>1, <3>2, <4>2
      <4> QED
        BY <4>1, <4>2
    <3>5. PICK u \in 1..(k + 1), v \in 1..(k + 1) : f[u] <= x /\ f[u] <= a /\ x <= f[v] /\ b <= f[v]
      BY <3>3, <3>4
    <3>6. PICK c, d \in Int : c = f[u] /\ d = f[v]
      BY <2>2
    <3>7. ASSUME NEW l \in 1..(k + 1) PROVE f[u] <= f[l] /\ f[l] <= f[v]
      <4>1. PICK y \in Int : y = f[l]
        BY <2>2
      <4>2. y = x \/ (a <= y /\ y <= b)
        BY <2>4, <3>1, <3>2, <4>1
      <4> QED
        BY <3>5, <3>6, <4>1, <4>2
    <3> QED
      BY <1>1, <2>1, <3>7
  <2> QED
    BY <2>5, <2>6
<1>4. n \in D
  <2>1. \A k \in 0..n : k \in D
    BY ONLY <1>2, <1>3, n \in Nat, UpTo
  <2> QED
    BY <2>1
<1>5. PICK i \in 1..n, j \in 1..n : \A l \in 1..n : f[i] <= f[l] /\ f[l] <= f[j]
  BY <1>1, <1>4
<1>6. \A x \in S : x \in Int /\ f[i] <= x /\ x <= f[j]
  BY <1>5
<1>7. f[i] \in S /\ f[j] \in S
  OBVIOUS
<1>8. PICK a, b \in Int : a = f[i] /\ b = f[j]
  OBVIOUS
<1>9. PICK g, h : g = Max(S) /\ h = Min(S)
  OBVIOUS
<1>10. \A x \in S : b >= x /\ a <= x
  BY <1>6, <1>8
<1>11. g \in S /\ \A x \in S : g >= x
  BY <1>7, <1>8, <1>9, <1>10 DEF Max
<1>12. h \in S /\ \A x \in S : h <= x
  BY <1>7, <1>8, <1>9, <1>10 DEF Min
<1> QED
  BY <1>6, <1>9, <1>11, <1>12

(* The entries of a table count every score once. *)
LEMMA TableWeighs ==
  ASSUME NEW n \in Nat, NEW gs \in [1..n -> Int], NEW f \in Tables, Counted(f, gs, n)
  PROVE  Weighed(f, n)
<1>1. PICK m \in Nat : m = Len(f) /\ \A k \in 1..m : f[k].score \in Int /\ f[k].count \in Nat
  BY TableIs
<1>2. PICK ts : ts = [k \in 1..m |-> f[k].count]
  OBVIOUS
<1>3. PICK sets : sets = [k \in 1..m |-> {i \in 1..n : gs[i] = f[k].score}]
  OBVIOUS
<1>4. ASSUME NEW k \in 1..m PROVE f[k].count # 0 /\ f[k].count = Cardinality(sets[k]) /\ IsFiniteSet(sets[k])
  <2>1. PICK x \in Int, c \in Nat : x = f[k].score /\ c = f[k].count
    BY <1>1
  <2>2. Entry(f, x, c)
    BY <1>1, <2>1 DEF Entry
  <2>3. c = Tally(gs, n, x) /\ c # 0
    BY <2>2 DEF Counted
  <2>4. sets[k] = {i \in 1..n : gs[i] = x}
    BY <1>3, <2>1
  <2>5. Tally(gs, n, x) = Cardinality(sets[k])
    BY <2>4 DEF Tally
  <2>6. sets[k] \in SUBSET (1..n) /\ IsFiniteSet(1..n)
    BY <2>4, FS_Interval
  <2>7. IsFiniteSet(sets[k])
    BY ONLY <2>6, FS_Subset
  <2> QED
    BY <2>1, <2>3, <2>5, <2>7
<1>5. ASSUME NEW i \in 1..m, NEW j \in 1..m, i # j PROVE sets[i] \cap sets[j] = {}
  <2>1. f[i].score # f[j].score
    <3>1. PICK x, y \in Int : x = f[i].score /\ y = f[j].score
      BY <1>1
    <3>2. i < j \/ j < i
      BY <1>5
    <3>3. x < y \/ y < x
      BY <1>1, <3>1, <3>2, TableIs
    <3> QED
      BY <3>1, <3>3
  <2> QED
    BY <1>3, <2>1
<1>6. ts \in [1..m -> Int] /\ \A k \in 1..m : ts[k] = Cardinality(sets[k])
  BY <1>1, <1>2, <1>4
<1>7. Cardinality(UNION {sets[k] : k \in 1..m}) = Total(ts)
  <2>1. (\A k \in 1..m : IsFiniteSet(sets[k])) /\ \A i, j \in 1..m : i # j => sets[i] \cap sets[j] = {}
    BY ONLY <1>4, <1>5
  <2> QED
    BY ONLY <1>6, <2>1, m \in Nat, SizesAdd
<1>8. ASSUME NEW i \in 1..n PROVE \E k \in 1..m : i \in sets[k]
  <2>1. PICK x \in Int : x = gs[i]
    OBVIOUS
  <2>2. PICK D : D = {j \in 1..n : gs[j] = x}
    OBVIOUS
  <2>3. D \in SUBSET (1..n) /\ IsFiniteSet(1..n) /\ i \in D
    BY <2>1, <2>2, FS_Interval
  <2>4. Cardinality(D) # 0
    BY ONLY <2>3, FS_Subset, FS_EmptySet
  <2>5. Entry(f, x, Tally(gs, n, x))
    BY <2>2, <2>4 DEF Counted, Tally
  <2> QED
    BY <1>1, <1>3, <2>1, <2>5 DEF Entry
<1>9. UNION {sets[k] : k \in 1..m} = 1..n
  BY <1>3, <1>8
<1>10. Cardinality(1..n) = n
  BY FS_Interval
<1>11. NumLess(f, m + 1) = Total(ts)
  <2>1. m + 1 - 1 = m
    OBVIOUS
  <2> QED
    BY <1>2, <2>1 DEF NumLess
<1> QED
  BY <1>1, <1>4, <1>7, <1>9, <1>10, <1>11 DEF Weighed

(* The integer square root. *)
LEMMA RootIsNumber ==
  ASSUME NEW x \in Int
  PROVE  SquareRoot(x) \in Nat
<1>1. PICK s : s = {r \in 1..x : r * r <= x}
  OBVIOUS
<1>2. IsFiniteSet(1..x)
  BY 1 \in Int, FS_Interval
<1>3. s \in SUBSET (1..x)
  BY <1>1
<1>4. Cardinality(s) \in Nat
  BY ONLY <1>2, <1>3, FS_Subset, FS_CardinalityType
<1> QED
  BY <1>1, <1>4 DEF SquareRoot

(* do_sums, do_moments: what they find is a number. *)
LEMMA MomentsAre ==
  ASSUME NEW gs \in Seq(Int)
  PROVE  /\ NumberedGroup(Moments(gs)) /\ Moments(gs).valid = Len(gs) /\ Counted(Moments(gs).freqs, gs, Len(gs))
<1>1. PICK n \in Nat : n = Len(gs) /\ gs \in [1..n -> Int]
  OBVIOUS
<1>2. PICK sum \in Int : sum = Total(gs)
  BY <1>1, TotalIsNumber
<1>3. PICK sq : sq = [k \in 1..n |-> gs[k] * gs[k]]
  OBVIOUS
<1>4. sq \in [1..n -> Int]
  <2>1. \A k \in 1..n : gs[k] \in Int
    BY <1>1
  <2>2. \A x \in Int : x * x \in Int
    OBVIOUS
  <2> QED
    BY ONLY <1>3, <2>1, <2>2
<1>5. PICK sumsq \in Int : sumsq = Total(sq)
  BY <1>4, TotalIsNumber
<1>6. PICK fr : fr = FoldLeft(CountScore, <<>>, gs)
  OBVIOUS
<1>7. fr \in Tables /\ Counted(fr, gs, n)
  BY <1>1, <1>6, TableCounts
<1>8. PICK mean : mean = IF n = 0 THEN 0 ELSE sum \div n
  OBVIOUS
<1>9. mean \in Int
  <2>1. CASE n = 0
    BY <1>8, <2>1
  <2>2. CASE n # 0
    <3>1. n > 0
      BY <2>2
    <3>2. sum \div n \in Int
      BY ONLY <3>1, n \in Nat, sum \in Int
    <3> QED
      BY <1>8, <2>2, <3>2
  <2> QED
    BY <2>1, <2>2
<1>10. PICK dev : dev = IF n < 2 THEN 0 ELSE SquareRoot((n * sumsq - sum * sum) \div (n * (n - 1)))
  OBVIOUS
<1>11. dev \in Int
  <2>1. CASE n < 2
    BY <1>10, <2>1
  <2>2. CASE ~(n < 2)
    <3>1. PICK b \in Int : b = n * (n - 1)
      OBVIOUS
    <3>2. b > 0
      <4>1. n > 1 /\ n - 1 > 0
        BY <2>2
      <4>2. \A x, y \in Int : x > 0 /\ y > 0 => x * y > 0
        OBVIOUS
      <4>3. n \in Int /\ n - 1 \in Int /\ n > 0
        BY <4>1
      <4> QED
        BY ONLY <3>1, <4>1, <4>2, <4>3
    <3>3. PICK a \in Int : a = n * sumsq - sum * sum
      <4>1. n * sumsq \in Int /\ sum * sum \in Int
        OBVIOUS
      <4>2. \A x, y \in Int : x - y \in Int
        OBVIOUS
      <4> QED
        BY ONLY <4>1, <4>2
    <3>4. a \div b \in Int
      BY ONLY <3>2, a \in Int, b \in Int
    <3>5. SquareRoot(a \div b) \in Nat
      BY ONLY <3>4, RootIsNumber
    <3>6. dev = SquareRoot(a \div b)
      BY ONLY <1>10, <2>2, <3>1, <3>3
    <3> QED
      BY <3>5, <3>6
  <2> QED
    BY <2>1, <2>2
<1>12. PICK mx \in Int : mx = IF n = 0 THEN 0 ELSE Max(Range(gs))
  <2>1. CASE n = 0
    BY <2>1
  <2>2. CASE n # 0
    <3>1. Range(gs) = {gs[k] : k \in 1..n}
      BY <1>1 DEF Range
    <3>2. Max(Range(gs)) \in Int
      BY <1>1, <2>2, <3>1, ListBounds
    <3> QED
      BY <2>2, <3>2
  <2> QED
    BY <2>1, <2>2
<1>13. Moments(gs) = [freqs |-> fr, valid |-> n, max |-> mx, mean |-> mean, stddev |-> dev]
  BY <1>1, <1>2, <1>3, <1>5, <1>6, <1>8, <1>10, <1>12 DEF Moments
<1>14. PICK m : m = Moments(gs)
  OBVIOUS
<1>15. m.freqs = fr /\ m.valid = n /\ m.max = mx /\ m.mean = mean /\ m.stddev = dev
  BY ONLY <1>13, <1>14
<1>17. m = [freqs |-> m.freqs, valid |-> m.valid, max |-> m.max, mean |-> m.mean, stddev |-> m.stddev]
  BY ONLY <1>13, <1>14, <1>15
<1>18. Weighed(fr, n)
  BY <1>1, <1>7, TableWeighs
<1>16. NumberedGroup(m) /\ m.valid = n /\ Counted(m.freqs, gs, n)
  BY ONLY <1>7, <1>9, <1>11, <1>15, <1>17, <1>18, n \in Nat, mx \in Int DEF NumberedGroup
<1> QED
  BY ONLY <1>1, <1>14, <1>16

(* The statistics are of the scores of the class and of its sections. *)
StatsOf ==
  [a \in Assignments |->
     [class    |-> Moments(GradesOf(a, roster)),
      sections |-> [s \in Sections |-> Moments(GradesOf(a, course.sections[s].roster))]]]

(* A list that has everyone once has nobody twice. *)
LEMMA RosterOnce ==
  ASSUME CourseOK(course), NEW list, Listed(list), NEW S \in SUBSET Students, Whole(list, S)
  PROVE  \E n \in Nat : /\ n = Len(list) /\ list \in [1..n -> Students] /\ Range(list) = S
                        /\ \A i, j \in 1..n : i # j => list[i] # list[j]
<1>1. list \in Seq(S) /\ Range(list) = S
  BY DEF Listed, Whole
<1>2. /\ Len(list) \in Nat /\ list \in [1..Len(list) -> S]
      /\ \A i, j \in 1..Len(list) : i # j => list[i] # list[j]
  BY <1>1, OnceEach
<1>3. list \in [1..Len(list) -> Students]
  BY <1>2
<1> QED
  BY <1>1, <1>2, <1>3

(* The tables of a list of students have the scores they were given. *)
ListTable(a, m, S) ==
  NumberedGroup(m) /\ \A g \in Int : /\ IsFiniteSet(GivenTo(a, S, g))
                                     /\ \A c : Entry(m.freqs, g, c) <=> c = Cardinality(GivenTo(a, S, g)) /\ c # 0

(* do_freqs over a list. *)
LEMMA TableOfList ==
  ASSUME CourseOK(course), NumbersOK(course), NEW a, NEW list, Listed(list), NEW S \in SUBSET Students, Whole(list, S)
  PROVE  ListTable(a, Moments(GradesOf(a, list)), S)
<1>1. PICK n \in Nat : /\ list \in [1..n -> Students] /\ Range(list) = S
                       /\ \A i, j \in 1..n : i # j => list[i] # list[j]
  BY RosterOnce
<1>2. \A g : /\ GradesOf(a, list) \in Seq(Int) /\ IsFiniteSet(GivenTo(a, Range(list), g))
             /\ Tally(GradesOf(a, list), Len(GradesOf(a, list)), g) = Cardinality(GivenTo(a, Range(list), g))
  BY <1>1, GradesTally
<1>3. PICK gs \in Seq(Int) : gs = GradesOf(a, list)
  BY <1>2
<1>4. PICK m : m = Moments(gs)
  OBVIOUS
<1>5. NumberedGroup(m) /\ Counted(m.freqs, gs, Len(gs))
  BY <1>4, MomentsAre
<1>6. ASSUME NEW g \in Int, NEW c PROVE Entry(m.freqs, g, c) <=> c = Cardinality(GivenTo(a, S, g)) /\ c # 0
  <2>1. Tally(gs, Len(gs), g) = Cardinality(GivenTo(a, S, g))
    BY <1>1, <1>2, <1>3
  <2>2. Entry(m.freqs, g, c) <=> c = Tally(gs, Len(gs), g) /\ c # 0
    BY <1>5 DEF Counted
  <2> QED
    BY ONLY <2>1, <2>2
<1>7. \A g : IsFiniteSet(GivenTo(a, S, g))
  BY <1>1, <1>2
<1> QED
  BY <1>3, <1>4, <1>5, <1>6, <1>7 DEF ListTable

(* How many are below an entry of a table, and below a later one. *)
LEMMA NumLessGrows ==
  ASSUME NEW f \in Tables, NEW j \in 1..(Len(f) + 1), NEW k \in 1..(Len(f) + 1), j <= k
  PROVE  NumLess(f, j) \in Nat /\ NumLess(f, k) \in Nat /\ NumLess(f, j) <= NumLess(f, k)
<1>1. PICK n \in Nat : n = Len(f) /\ \A i \in 1..n : f[i].count \in Nat
  BY TableIs
<1>2. PICK a, b \in Nat : a = j - 1 /\ b = k - 1 /\ a <= b /\ \A i \in 1..b : i \in 1..n /\ (i <= a <=> i \in 1..a)
  <2>1. j - 1 \in Nat /\ k - 1 \in Nat /\ j - 1 <= k - 1
    BY <1>1
  <2>2. \A i \in 1..(k - 1) : i \in 1..n /\ (i <= j - 1 <=> i \in 1..(j - 1))
    BY <1>1
  <2> QED
    BY ONLY <2>1, <2>2
<1>3. PICK xs : xs = [i \in 1..b |-> f[i].count]
  OBVIOUS
<1>4. PICK ys : ys = [i \in 1..a |-> f[i].count]
  OBVIOUS
<1>5. \A i \in 1..a : i \in 1..b /\ i \in 1..n
  BY <1>2
<1>6. xs \in [1..b -> Nat] /\ ys \in [1..a -> Nat] /\ \A i \in 1..a : ys[i] = xs[i]
  BY ONLY <1>1, <1>2, <1>3, <1>4, <1>5
<1>7. Total(ys) \in Nat /\ Total(xs) \in Nat /\ Total(ys) <= Total(xs)
  BY ONLY <1>2, <1>6, a \in Nat, b \in Nat, TotalGrows
<1>8. NumLess(f, j) = Total(ys) /\ NumLess(f, k) = Total(xs)
  BY ONLY <1>2, <1>3, <1>4 DEF NumLess
<1> QED
  BY ONLY <1>7, <1>8

(* Multiplication and division keep the order, but for a number below 0. *)
LEMMA TimesDiv ==
  ASSUME NEW x \in Int, NEW y \in Int, x <= y, NEW m \in Nat, NEW d \in Nat \ {0}
  PROVE  /\ x * m \in Int /\ y * m \in Int /\ m * x = x * m /\ m * y = y * m /\ x * m <= y * m
         /\ x \div d \in Int /\ y \div d \in Int /\ x \div d <= y \div d
<1>1. x * m \in Int /\ y * m \in Int /\ m * x = x * m /\ m * y = y * m
  OBVIOUS
<1>2. x * m <= y * m
  OBVIOUS
<1>3. PICK q, r \in Int : q = x \div d /\ r = y \div d
  OBVIOUS
<1>4. d * q <= x /\ y < d * (r + 1)
  BY <1>3
<1>5. q <= r
  <2> SUFFICES ASSUME ~(q <= r) PROVE FALSE
    OBVIOUS
  <2>1. r + 1 <= q
    OBVIOUS
  <2>2. d * (r + 1) <= d * q
    <3>1. \A u, v \in Int : u <= v => d * u <= d * v
      OBVIOUS
    <3>2. r + 1 \in Int
      OBVIOUS
    <3> QED
      BY ONLY <2>1, <3>1, <3>2, q \in Int
  <2>3. d * q \in Int /\ d * (r + 1) \in Int
    OBVIOUS
  <2> QED
    BY ONLY <1>4, <2>2, <2>3, x \in Int, y \in Int, x <= y
<1> QED
  BY <1>1, <1>2, <1>3, <1>5

(* normal_linear, normal_scale: a number, and a greater for a better score. *)
LEMMA LinearScale ==
  ASSUME NEW x \in Int, NEW y \in Int, x <= y, NEW rm \in Int, NEW rd \in Int, NEW nm \in Int, NEW nd \in Int
  PROVE  /\ AtLeastTiny(rd) \in Nat \ {0}
         /\ Linear(x, rm, AtLeastTiny(rd), nm, nd) \in Int /\ Scale(x, AtLeastTiny(rd), nd) \in Int
         /\ nd >= 0 => /\ Linear(x, rm, AtLeastTiny(rd), nm, nd) <= Linear(y, rm, AtLeastTiny(rd), nm, nd)
                       /\ Scale(x, AtLeastTiny(rd), nd) <= Scale(y, AtLeastTiny(rd), nd)
<1>1. PICK d \in Nat \ {0} : d = AtLeastTiny(rd)
  BY DEF AtLeastTiny, Tiny
<1>2. \A u, v \in Int : u <= v => u \div d \in Int /\ v \div d \in Int /\ u \div d <= v \div d
  BY 0 \in Nat, TimesDiv
<1>3. PICK a, b \in Int : a = x - rm /\ b = y - rm /\ a <= b
  OBVIOUS
<1>4. \A u \in Int : nd * u \in Int /\ u * nd \in Int
  OBVIOUS
<1>5. (nd * a) \div d \in Int /\ (x * nd) \div d \in Int
  <2>1. nd * a \in Int /\ nd * a <= nd * a /\ x * nd \in Int /\ x * nd <= x * nd
    BY <1>4
  <2> QED
    BY ONLY <1>2, <2>1
<1>6. ASSUME nd >= 0 PROVE (nd * a) \div d <= (nd * b) \div d /\ (x * nd) \div d <= (y * nd) \div d
  <2>1. nd \in Nat
    BY <1>6
  <2>2. nd * a = a * nd /\ nd * b = b * nd /\ a * nd <= b * nd /\ a * nd \in Int /\ b * nd \in Int
    BY <1>3, <2>1, d \in Nat \ {0}, TimesDiv
  <2>3. x * nd <= y * nd /\ x * nd \in Int /\ y * nd \in Int
    BY <2>1, d \in Nat \ {0}, TimesDiv
  <2> QED
    BY ONLY <1>2, <2>2, <2>3
<1>7. Linear(x, rm, d, nm, nd) = (nd * a) \div d + nm /\ Linear(y, rm, d, nm, nd) = (nd * b) \div d + nm
  BY <1>3 DEF Linear
<1>8. Scale(x, d, nd) = (x * nd) \div d /\ Scale(y, d, nd) = (y * nd) \div d
  BY DEF Scale
<1>9. (nd * b) \div d \in Int
  <2>1. nd * b \in Int /\ nd * b <= nd * b
    BY <1>4
  <2> QED
    BY ONLY <1>2, <2>1
<1>10. Linear(x, rm, d, nm, nd) \in Int
  BY ONLY <1>5, <1>7, nm \in Int
<1>11. nd >= 0 => Linear(x, rm, d, nm, nd) <= Linear(y, rm, d, nm, nd)
  BY ONLY <1>5, <1>6, <1>7, <1>9, nm \in Int
<1> QED
  BY ONLY <1>1, <1>5, <1>6, <1>8, <1>10, <1>11, d \in Nat \ {0}

(* normal_quantile: a number, and a greater for a better score among those   *)
(* in the table.                                                            *)
LEMMA QuantileGrows ==
  ASSUME NEW x \in Int, NEW y \in Int, x <= y, NEW m, NumberedGroup(m)
  PROVE  /\ Quantile(x, m) \in Int
         /\ (\E c : Entry(m.freqs, y, c)) => Quantile(x, m) <= Quantile(y, m)
<1>1. PICK f \in Tables : f = m.freqs
  BY DEF NumberedGroup
<1>2. PICK n \in Nat : n = Len(f) /\ DOMAIN f = 1..n /\ \A i \in 1..n : f[i].score \in Int
  BY TableIs
<1>3. PICK d \in Nat \ {0} : d = IF m.valid = 0 THEN 1 ELSE m.valid
  BY DEF NumberedGroup
<1>4. PICK a : a = {k \in 1..n : x <= f[k].score}
  OBVIOUS
<1>5. PICK b : b = {k \in 1..n : y <= f[k].score}
  OBVIOUS
<1>6. b \subseteq a
  <2>1. \A i \in 1..n : y <= f[i].score => x <= f[i].score
    BY <1>2
  <2> QED
    BY ONLY <1>4, <1>5, <2>1
<1>7. /\ Quantile(x, m) = IF a = {} THEN 0 ELSE (NumLess(f, Min(a)) * 100 * Unit) \div d
      /\ Quantile(y, m) = IF b = {} THEN 0 ELSE (NumLess(f, Min(b)) * 100 * Unit) \div d
  <2>1. a = {k \in DOMAIN m.freqs : x <= m.freqs[k].score} /\ b = {k \in DOMAIN m.freqs : y <= m.freqs[k].score}
    BY <1>1, <1>2, <1>4, <1>5
  <2> QED
    BY ONLY <1>1, <1>3, <2>1 DEF Quantile
<1>8. a \in SUBSET Nat /\ b \in SUBSET Nat /\ a \subseteq 1..n /\ b \subseteq 1..n
  BY <1>4, <1>5
<1>9. \A i, j \in 1..n : i <= j => /\ (NumLess(f, i) * 100 * Unit) \div d \in Int /\ (NumLess(f, j) * 100 * Unit) \div d \in Int
                                   /\ (NumLess(f, i) * 100 * Unit) \div d <= (NumLess(f, j) * 100 * Unit) \div d
  <2> SUFFICES ASSUME NEW i \in 1..n, NEW j \in 1..n, i <= j
               PROVE  /\ (NumLess(f, i) * 100 * Unit) \div d \in Int /\ (NumLess(f, j) * 100 * Unit) \div d \in Int
                      /\ (NumLess(f, i) * 100 * Unit) \div d <= (NumLess(f, j) * 100 * Unit) \div d
    OBVIOUS
  <2>1. i \in 1..(Len(f) + 1) /\ j \in 1..(Len(f) + 1)
    BY <1>2
  <2>2. PICK u, v \in Nat : u = NumLess(f, i) /\ v = NumLess(f, j) /\ u <= v
    BY <2>1, NumLessGrows
  <2>3. PICK p, q \in Int : p = u * 100 * Unit /\ q = v * 100 * Unit /\ p <= q
    BY <2>2 DEF Unit
  <2>4. p \div d \in Int /\ q \div d \in Int /\ p \div d <= q \div d
    BY <2>3, 0 \in Nat, TimesDiv
  <2> QED
    BY ONLY <2>2, <2>3, <2>4
<1>10. Quantile(x, m) \in Int
  <2>1. CASE a = {}
    BY <1>7, <2>1
  <2>2. CASE a # {}
    <3>1. Min(a) \in 1..n
      BY <1>8, <2>2, MinIn
    <3>2. Min(a) <= Min(a)
      BY <3>1
    <3>3. (NumLess(f, Min(a)) * 100 * Unit) \div d \in Int
      BY ONLY <1>9, <3>1, <3>2
    <3> QED
      BY ONLY <1>7, <2>2, <3>3
  <2> QED
    BY <2>1, <2>2
<1>11. ASSUME \E c : Entry(m.freqs, y, c) PROVE Quantile(x, m) <= Quantile(y, m)
  <2>1. PICK k \in 1..n : f[k].score = y
    BY <1>1, <1>2, <1>11 DEF Entry
  <2>2. k \in b
    BY <1>2, <1>5, <2>1
  <2>3. Min(a) \in 1..n /\ Min(b) \in 1..n /\ Min(a) <= Min(b) /\ a # {} /\ b # {}
    <3>1. a # {} /\ b # {}
      BY <1>6, <2>2
    <3>2. Min(a) \in a /\ (\A z \in a : Min(a) <= z) /\ Min(b) \in b
      BY <1>8, <3>1, MinIn
    <3> QED
      BY ONLY <1>6, <1>8, <3>1, <3>2
  <2> QED
    BY ONLY <1>7, <1>9, <2>3
<1> QED
  BY <1>10, <1>11

(* Scores that are normalized over one group, with numbers that are not      *)
(* negative.                                                                *)
Together(a, s, t) == course.assignments[a].policy \in {"RAW", "SCALE"} \/ Group(a, s) = Group(a, t)
Positive(a) ==
  LET d == course.assignments[a]
  IN  (d.policy = "SCALE" => d.scale >= 0) /\ (d.policy = "LINEAR" => d.stddev >= 0)

(* normal: a number, and no smaller for a better score of the same group. *)
LEMMA NormalGrows ==
  ASSUME NEW a, AsgtOK(course.assignments[a]), NEW s, NumberedGroup(Group(a, s)), NEW x \in Int, NEW y \in Int, x <= y
  PROVE  /\ Normal(x, a, s) \in Int
         /\ \A t : /\ Together(a, s, t) /\ Positive(a)
                   /\ course.assignments[a].policy = "QUANTILE" => \E c : Entry(Group(a, s).freqs, y, c)
                   => Normal(x, a, s) <= Normal(y, a, t)
<1>1. PICK d : d = course.assignments[a]
  OBVIOUS
<1>2. d.max \in Int /\ d.mean \in Int /\ d.stddev \in Int /\ d.scale \in Int /\ d.policy \in Known
  BY <1>1 DEF AsgtOK
<1>3. PICK g : g = Group(a, s) /\ NumberedGroup(g)
  OBVIOUS
<1>4. g.mean \in Int /\ g.stddev \in Int
  BY <1>3 DEF NumberedGroup
<1>5. CASE d.policy = "RAW"
  <2>1. \A z, t : Normal(z, a, t) = z
    BY <1>1, <1>5 DEF Normal
  <2> QED
    BY <2>1
<1>6. CASE d.policy = "LINEAR"
  <2>1. \A z, t : Normal(z, a, t) = Linear(z, Group(a, t).mean, AtLeastTiny(Group(a, t).stddev), d.mean, d.stddev)
    BY <1>1, <1>6 DEF Normal
  <2>2. /\ Linear(x, g.mean, AtLeastTiny(g.stddev), d.mean, d.stddev) \in Int
        /\ d.stddev >= 0 => Linear(x, g.mean, AtLeastTiny(g.stddev), d.mean, d.stddev)
                               <= Linear(y, g.mean, AtLeastTiny(g.stddev), d.mean, d.stddev)
    <3>1. PICK rm, rd, nm, nd \in Int : rm = g.mean /\ rd = g.stddev /\ nm = d.mean /\ nd = d.stddev
      BY <1>2, <1>4
    <3>2. /\ AtLeastTiny(rd) \in Nat \ {0}
          /\ Linear(x, rm, AtLeastTiny(rd), nm, nd) \in Int /\ Scale(x, AtLeastTiny(rd), nd) \in Int
          /\ nd >= 0 => /\ Linear(x, rm, AtLeastTiny(rd), nm, nd) <= Linear(y, rm, AtLeastTiny(rd), nm, nd)
                        /\ Scale(x, AtLeastTiny(rd), nd) <= Scale(y, AtLeastTiny(rd), nd)
      BY LinearScale
    <3> QED
      BY ONLY <3>1, <3>2
  <2>3. \A t : Together(a, s, t) => Group(a, t) = g
    BY <1>1, <1>3, <1>6 DEF Together
  <2>4. Positive(a) => d.stddev >= 0
    BY <1>1, <1>6 DEF Positive
  <2> QED
    BY ONLY <1>3, <2>1, <2>2, <2>3, <2>4
<1>7. CASE d.policy = "SCALE"
  <2>1. \A z, t : Normal(z, a, t) = Scale(z, AtLeastTiny(d.max), d.scale)
    BY <1>1, <1>7 DEF Normal
  <2>2. /\ Scale(x, AtLeastTiny(d.max), d.scale) \in Int
        /\ d.scale >= 0 => Scale(x, AtLeastTiny(d.max), d.scale) <= Scale(y, AtLeastTiny(d.max), d.scale)
    <3>1. PICK rm, rd, nm, nd \in Int : rm = 0 /\ nm = 0 /\ rd = d.max /\ nd = d.scale
      BY <1>2
    <3>2. /\ AtLeastTiny(rd) \in Nat \ {0}
          /\ Linear(x, rm, AtLeastTiny(rd), nm, nd) \in Int /\ Scale(x, AtLeastTiny(rd), nd) \in Int
          /\ nd >= 0 => /\ Linear(x, rm, AtLeastTiny(rd), nm, nd) <= Linear(y, rm, AtLeastTiny(rd), nm, nd)
                        /\ Scale(x, AtLeastTiny(rd), nd) <= Scale(y, AtLeastTiny(rd), nd)
      BY LinearScale
    <3> QED
      BY ONLY <3>1, <3>2
  <2>3. Positive(a) => d.scale >= 0
    BY <1>1, <1>7 DEF Positive
  <2> QED
    BY ONLY <2>1, <2>2, <2>3
<1>8. CASE d.policy = "QUANTILE"
  <2>1. \A z, t : Normal(z, a, t) = Quantile(z, Group(a, t))
    BY <1>1, <1>8 DEF Normal
  <2>2. Quantile(x, g) \in Int /\ ((\E c : Entry(g.freqs, y, c)) => Quantile(x, g) <= Quantile(y, g))
    BY <1>3, QuantileGrows
  <2>3. \A t : Together(a, s, t) => Group(a, t) = g
    BY <1>1, <1>3, <1>8 DEF Together
  <2> QED
    BY ONLY <1>1, <1>3, <1>8, <2>1, <2>2, <2>3
<1> QED
  BY <1>2, <1>5, <1>6, <1>7, <1>8 DEF Known

(* A student who is in a section, and the numbers of every group. *)
Placed(st)  == StudentOK(course.students[st], Assignments) /\ course.students[st].section \in Sections
GroupsOK == \A a \in Assignments, s \in Sections : NumberedGroup(Group(a, s))

(* studentavg: a number. *)
LEMMA AverageIs ==
  ASSUME NumbersOK(course), GroupsOK, NEW st, Placed(st), NEW atype
  PROVE  StudentAvg(st, atype) \in Int
<1>1. PICK s \in Sections : s = course.students[st].section
  BY DEF Placed
<1>2. PICK scs : scs = course.students[st].scores
  OBVIOUS
<1>3. PICK m \in Nat : Scores(st) = 1..m /\ DOMAIN scs = 1..m
  BY <1>2, SeqIsListed DEF Placed, StudentOK, Listed, Scores
<1>4. ASSUME NEW k \in 1..m
      PROVE  /\ course.assignments[scs[k].asgt].weight \in Int
             /\ Normal(scs[k].grade, scs[k].asgt, s) \in Int
  <2>1. scs[k].asgt \in Assignments /\ scs[k].grade \in Int
    BY <1>2, <1>3 DEF Placed, StudentOK, ScoreOK
  <2>2. AsgtOK(course.assignments[scs[k].asgt]) /\ NumberedGroup(Group(scs[k].asgt, s))
    BY <2>1 DEF NumbersOK, Assignments, GroupsOK
  <2>3. PICK x \in Int : x = scs[k].grade /\ x <= x
    BY <2>1
  <2>4. Normal(x, scs[k].asgt, s) \in Int
    BY <2>2, <2>3, NormalGrows
  <2> QED
    BY <2>2, <2>3, <2>4 DEF AsgtOK
<1>5. PICK wt : wt = [k \in 1..m |-> course.assignments[scs[k].asgt].weight]
  OBVIOUS
<1>6. PICK nr : nr = [k \in 1..m |-> Normal(scs[k].grade, scs[k].asgt, s)]
  OBVIOUS
<1>7. \A k \in 1..m : wt[k] \in Int /\ nr[k] \in Int
  BY ONLY <1>4, <1>5, <1>6
<1>8. PICK like : like = [k \in 1..m |-> course.assignments[scs[k].asgt].atype = atype /\ Tallied(scs[k])]
  OBVIOUS
<1>9. PICK ws : ws = [k \in 1..m |-> IF like[k] /\ wt[k] # Unset THEN wt[k] ELSE 0]
  OBVIOUS
<1>10. PICK ns : ns = [k \in 1..m |-> IF like[k] THEN nr[k] * (IF wt[k] = Unset THEN Unit ELSE wt[k]) ELSE 0]
  OBVIOUS
<1>11. ws \in [1..m -> Int] /\ ns \in [1..m -> Int]
  <2>1. \A k \in 1..m : ws[k] \in Int
    BY ONLY <1>7, <1>9
  <2>2. \A k \in 1..m : ns[k] \in Int
    <3> SUFFICES ASSUME NEW k \in 1..m PROVE ns[k] \in Int
      OBVIOUS
    <3>1. PICK u, v \in Int : u = nr[k] /\ v = IF wt[k] = Unset THEN Unit ELSE wt[k]
      BY <1>7 DEF Unit
    <3>2. u * v \in Int
      OBVIOUS
    <3> QED
      BY ONLY <1>10, <3>1, <3>2, k \in 1..m
  <2> QED
    BY ONLY <1>9, <1>10, <2>1, <2>2
<1>12. PICK w, sum \in Int : w = Total(ws) /\ sum = Total(ns)
  BY <1>11, TotalIsNumber
<1>13. StudentAvg(st, atype) = IF w = 0 THEN 0 ELSE IF w < 0 THEN (-sum) \div (-w) ELSE sum \div w
  <2>1. ws = [k \in Scores(st) |-> IF course.assignments[course.students[st].scores[k].asgt].atype = atype
                                      /\ Tallied(course.students[st].scores[k])
                                      /\ course.assignments[course.students[st].scores[k].asgt].weight # Unset
                                   THEN course.assignments[course.students[st].scores[k].asgt].weight ELSE 0]
    BY ONLY <1>2, <1>3, <1>5, <1>8, <1>9
  <2>2. ns = [k \in Scores(st) |-> IF course.assignments[course.students[st].scores[k].asgt].atype = atype
                                      /\ Tallied(course.students[st].scores[k])
               THEN Normal(course.students[st].scores[k].grade, course.students[st].scores[k].asgt, course.students[st].section)
                 * (IF course.assignments[course.students[st].scores[k].asgt].weight = Unset THEN Unit
                    ELSE course.assignments[course.students[st].scores[k].asgt].weight)
               ELSE 0]
    BY ONLY <1>1, <1>2, <1>3, <1>5, <1>6, <1>8, <1>10
  <2> QED
    BY ONLY <1>12, <2>1, <2>2 DEF StudentAvg
<1>14. CASE w = 0
  BY <1>13, <1>14
<1>15. CASE w < 0
  <2>1. PICK e, f \in Int : e = -sum /\ f = -w /\ f > 0
    BY <1>15
  <2>2. e \div f \in Int
    BY ONLY <2>1, e \in Int, f \in Int
  <2> QED
    BY ONLY <1>13, <1>15, <2>1, <2>2, 0 \in Int
<1>16. CASE w > 0
  <2>1. sum \div w \in Int
    BY ONLY <1>16, sum \in Int, w \in Int
  <2>2. w # 0 /\ ~(w < 0)
    BY <1>16
  <2> QED
    BY ONLY <1>13, <2>1, <2>2
<1> QED
  BY <1>14, <1>15, <1>16

(* norm_score: a number. *)
LEMMA NormScoreIs ==
  ASSUME NumbersOK(course), GroupsOK, NEW st, Placed(st), NEW k \in Scores(st)
  PROVE  NormScore(st, course.students[st].scores[k]) \in Int
<1>1. PICK sc : sc = course.students[st].scores[k]
  OBVIOUS
<1>2. ScoreOK(sc, Assignments)
  BY <1>1 DEF Placed, StudentOK, Scores
<1>3. PICK d : d = course.assignments[sc.asgt] /\ AsgtOK(d)
  BY <1>2 DEF ScoreOK, NumbersOK, Assignments
<1>4. PICK s \in Sections : s = course.students[st].section
  BY DEF Placed
<1>5. sc.how \in Substitutes /\ sc.grade \in Int /\ sc.asgt \in Assignments
  BY <1>2 DEF ScoreOK
<1>6. CASE Tallied(sc)
  <2>1. PICK x \in Int : x = sc.grade /\ x <= x
    BY <1>5
  <2>2. NumberedGroup(Group(sc.asgt, s))
    BY <1>5 DEF GroupsOK
  <2>3. Normal(x, sc.asgt, s) \in Int
    BY <1>3, <2>1, <2>2, NormalGrows
  <2>4. NormScore(st, sc) = Normal(x, sc.asgt, s)
    <3>1. sc.how # "USENORM" /\ sc.how # "USELIKEAVG" /\ sc.how # "USECLASSAVG"
      BY <1>6 DEF Tallied
    <3> QED
      BY ONLY <1>4, <1>6, <2>1, <3>1 DEF NormScore
  <2> QED
    BY <1>1, <2>3, <2>4
<1>7. CASE ~Tallied(sc)
  <2>1. sc.how \in {"USENORM", "USELIKEAVG", "USECLASSAVG"}
    BY <1>5, <1>7 DEF Substitutes, Tallied
  <2>2. CASE sc.how = "USENORM"
    <3>1. NormScore(st, sc) = sc.grade
      BY <1>7, <2>2 DEF NormScore
    <3> QED
      BY <1>1, <1>5, <3>1
  <2>3. CASE sc.how = "USELIKEAVG"
    <3>1. NormScore(st, sc) = StudentAvg(st, d.atype)
      BY <1>3, <1>7, <2>3 DEF NormScore
    <3> QED
      BY <1>1, <3>1, AverageIs
  <2>4. CASE sc.how = "USECLASSAVG"
    <3>1. NormScore(st, sc) = IF d.policy = "QUANTILE" THEN 50 * Unit ELSE d.mean
      BY <1>3, <1>7, <2>4 DEF NormScore
    <3>2. 50 * Unit \in Int /\ d.mean \in Int
      BY <1>3 DEF AsgtOK, Unit
    <3> QED
      BY ONLY <1>1, <3>1, <3>2
  <2> QED
    BY <2>1, <2>2, <2>3, <2>4
<1> QED
  BY <1>6, <1>7

----------------------------------------------------------------------------
(* The numbers of every state *)

(* Every score of a student in the class has been normalized.                *)
NormOK ==
  \A st \in Students : \E n \in Nat : /\ DOMAIN norm[st] = 1..n /\ 1..n \subseteq Scores(st)
                                      /\ \A k \in 1..n : norm[st][k] \in Int

NumInv ==
  /\ AnInput(input) /\ Lines(out.lines)
  /\ Opened(stack, input.files) /\ NumbersOK(course)
  /\ phase = "normalize" => stats = StatsOf
  /\ phase = "composites" => NormOK
  /\ phase \in SortPhases => composite \in [Students -> Int]

(* The tables of the class and of the sections. *)
LEMMA TablesThere ==
  ASSUME RunInv, NumbersOK(course), phase = "normalize", stats = StatsOf, NEW a \in Assignments
  PROVE  /\ ListTable(a, stats[a].class, Students)
         /\ \A s \in Sections : ListTable(a, stats[a].sections[s], In(course, s))
<1>1. CourseOK(course) /\ Listed(roster)
  BY DEF RunInv, BookInv
<1>2. Whole(roster, Students)
  <2>1. course.assignments # <<>>
    BY DEF Assignments
  <2> QED
    BY <2>1 DEF RunInv, ClassInv, Unread
<1>3. stats[a].class = Moments(GradesOf(a, roster))
  BY DEF StatsOf
<1>4. ASSUME NEW s \in Sections PROVE ListTable(a, stats[a].sections[s], In(course, s))
  <2>1. stats[a].sections[s] = Moments(GradesOf(a, course.sections[s].roster))
    BY DEF StatsOf
  <2>2. Whole(course.sections[s].roster, In(course, s))
    BY <1>1 DEF CourseOK, Sections
  <2>3. Listed(course.sections[s].roster)
    <3>1. course.sections[s].roster \in Seq(Nat)
      BY <1>1, ShapeParts DEF CourseOK, Sections
    <3> QED
      BY <3>1, SeqIsListed
  <2>4. In(course, s) \in SUBSET Students
    BY DEF In, Students
  <2> QED
    BY <1>1, <2>1, <2>2, <2>3, <2>4, TableOfList
<1>5. Students \in SUBSET Students
  OBVIOUS
<1> QED
  BY <1>1, <1>2, <1>3, <1>4, <1>5, TableOfList

(* So the numbers of a group are there for each student. *)
LEMMA GroupsThere ==
  ASSUME RunInv, NumbersOK(course), phase = "normalize", stats = StatsOf
  PROVE  GroupsOK /\ \A st \in Students : Placed(st)
<1>1. ASSUME NEW a \in Assignments, NEW s \in Sections PROVE NumberedGroup(Group(a, s))
  <2>1. ListTable(a, stats[a].class, Students) /\ ListTable(a, stats[a].sections[s], In(course, s))
    BY TablesThere
  <2> QED
    BY <2>1 DEF ListTable, Group
<1>2. ASSUME NEW st \in Students PROVE Placed(st)
  <2>1. course.students[st].section \in 0..Len(course.sections) /\ course.students[st].section # 0
    BY DEF RunInv, BookInv, CourseOK, ReadInv, Students
  <2>2. Sections = 1..Len(course.sections) /\ Len(course.sections) \in Nat
    BY CourseFields DEF RunInv, BookInv, Sections
  <2>3. course.students[st].section \in Sections
    BY <2>1, <2>2
  <2>4. StudentOK(course.students[st], Assignments)
    BY DEF NumbersOK, Students, Assignments
  <2> QED
    BY <2>3, <2>4 DEF Placed
<1> QED
  BY <1>1, <1>2 DEF GroupsOK

(* What normal.c writes into an assignment is a number too. *)
LEMMA NormalizeAsgts ==
  ASSUME CourseOK(course), NumbersOK(course), Normalize
  PROVE  NumbersOK(course') /\ course'.students = course.students /\ course'.sections = course.sections
         /\ DOMAIN course'.assignments = Assignments
         /\ \A a \in Assignments : /\ course'.assignments[a].policy = course.assignments[a].policy
                                   /\ course'.assignments[a].group = course.assignments[a].group
                                   /\ course'.assignments[a].scale = course.assignments[a].scale
                                   /\ course'.assignments[a].stddev = course.assignments[a].stddev
<1>1. PICK v : v = [a \in Assignments |->
                      IF course.assignments[a].policy = "SCALE" /\ stats[a].class.valid > 0
                      THEN [course.assignments[a] EXCEPT !.max = AtLeastTiny(@)] ELSE course.assignments[a]]
  OBVIOUS
<1>2. course' = [course EXCEPT !.assignments = v]
  BY <1>1 DEF Normalize
<1>3. course = [professor |-> course.professor, assignments |-> course.assignments, sections |-> course.sections,
                students |-> course.students]
  BY CourseFields
<1>4. course'.assignments = v /\ course'.students = course.students /\ course'.sections = course.sections
  BY ONLY <1>2, <1>3
<1>5. DOMAIN v = Assignments
  BY ONLY <1>1
<1>6. ASSUME NEW a \in Assignments
      PROVE  /\ AsgtOK(v[a]) /\ v[a].policy = course.assignments[a].policy /\ v[a].group = course.assignments[a].group
             /\ v[a].scale = course.assignments[a].scale /\ v[a].stddev = course.assignments[a].stddev
  <2>1. PICK d : d = course.assignments[a] /\ AsgtOK(d)
    BY DEF NumbersOK, Assignments
  <2>2. PICK x \in Int : x = AtLeastTiny(d.max)
    BY <2>1 DEF AsgtOK, AtLeastTiny, Tiny
  <2>3. PICK e : e = [d EXCEPT !.max = AtLeastTiny(@)]
    OBVIOUS
  <2>4. e = [d EXCEPT !.max = x]
    BY ONLY <2>2, <2>3
  <2>5. d = [name |-> d.name, atype |-> d.atype, weight |-> d.weight, policy |-> d.policy, group |-> d.group,
             max |-> d.max, mean |-> d.mean, stddev |-> d.stddev, scale |-> d.scale]
    BY <2>1 DEF AsgtOK
  <2>6. e = [name |-> d.name, atype |-> d.atype, weight |-> d.weight, policy |-> d.policy, group |-> d.group,
             max |-> x, mean |-> d.mean, stddev |-> d.stddev, scale |-> d.scale]
    BY ONLY <2>4, <2>5
  <2>7. AsgtOK(e) /\ e.policy = d.policy /\ e.group = d.group /\ e.scale = d.scale /\ e.stddev = d.stddev
    <3>1. /\ e.name = d.name /\ e.atype = d.atype /\ e.weight = d.weight /\ e.policy = d.policy /\ e.group = d.group
          /\ e.max = x /\ e.mean = d.mean /\ e.stddev = d.stddev /\ e.scale = d.scale
      BY ONLY <2>6
    <3>2. d.weight \in Int /\ d.mean \in Int /\ d.stddev \in Int /\ d.scale \in Int /\ d.policy \in Known
      BY <2>1 DEF AsgtOK
    <3>3. e = [name |-> e.name, atype |-> e.atype, weight |-> e.weight, policy |-> e.policy, group |-> e.group,
               max |-> e.max, mean |-> e.mean, stddev |-> e.stddev, scale |-> e.scale]
      BY ONLY <2>6, <3>1
    <3> QED
      BY ONLY <3>1, <3>2, <3>3, x \in Int DEF AsgtOK
  <2>8. v[a] = d \/ v[a] = e
    BY ONLY <1>1, <2>1, <2>3, a \in Assignments
  <2> QED
    BY <2>1, <2>7, <2>8
<1>7. NumbersOK(course')
  <2>1. DOMAIN course.assignments \subseteq DOMAIN course'.assignments
    BY <1>4, <1>5 DEF Assignments
  <2>2. \A a \in DOMAIN course'.assignments : AsgtOK(course'.assignments[a])
    BY <1>4, <1>5, <1>6
  <2> QED
    BY <1>4, <2>1, <2>2, NumbersStay
<1> QED
  BY <1>4, <1>5, <1>6, <1>7

(* normal.c: every score of the class. *)
LEMMA NormalizeScores ==
  ASSUME RunInv, NumInv, Normalize
  PROVE  NormOK'
<1>1. phase = "normalize" /\ stats = StatsOf /\ NumbersOK(course) /\ CourseOK(course)
  BY DEF Normalize, NumInv, RunInv, BookInv
<1>2. GroupsOK /\ \A st \in Students : Placed(st)
  BY <1>1, GroupsThere
<1>3. course'.students = course.students
  BY <1>1, NormalizeAsgts
<1>4. Students' = Students /\ \A st : Scores(st)' = Scores(st)
  BY <1>3 DEF Students, Scores
<1>5. ASSUME NEW st \in Students
      PROVE  \E n \in Nat : /\ DOMAIN norm'[st] = 1..n /\ 1..n \subseteq Scores(st)
                            /\ \A k \in 1..n : norm'[st][k] \in Int
  <2>1. PICK m \in Nat : Scores(st) = 1..m
    BY <1>2, SeqIsListed DEF Placed, StudentOK, Listed, Scores
  <2>2. norm'[st] = IF st \in Range(roster) THEN [k \in Scores(st) |-> NormScore(st, course.students[st].scores[k])] ELSE <<>>
    BY DEF Normalize
  <2>3. CASE st \in Range(roster)
    <3>1. PICK f : f = norm'[st] /\ f = [k \in 1..m |-> NormScore(st, course.students[st].scores[k])]
      BY <2>1, <2>2, <2>3
    <3>2. \A k \in 1..m : NormScore(st, course.students[st].scores[k]) \in Int
      BY <1>1, <1>2, <2>1, NormScoreIs
    <3>3. DOMAIN f = 1..m /\ \A k \in 1..m : f[k] \in Int
      BY ONLY <3>1, <3>2
    <3>4. 1..m \subseteq Scores(st)
      BY <2>1
    <3> QED
      BY ONLY <3>1, <3>3, <3>4, m \in Nat
  <2>4. CASE st \notin Range(roster)
    <3>1. norm'[st] = <<>> /\ DOMAIN <<>> = 1..0 /\ 1..0 = {}
      BY <2>2, <2>4
    <3> QED
      BY ONLY <3>1, 0 \in Nat
  <2> QED
    BY <2>3, <2>4
<1> QED
  BY <1>4, <1>5 DEF NormOK

(* composites: a number for every student. *)
LEMMA CompositesAre ==
  ASSUME NumInv, Composites
  PROVE  composite' \in [Students -> Int]
<1>1. NormOK /\ NumbersOK(course)
  BY DEF NumInv, Composites
<1>2. ASSUME NEW st \in Students PROVE composite'[st] \in Int
  <2>1. PICK n \in Nat : /\ DOMAIN norm[st] = 1..n /\ 1..n \subseteq Scores(st)
                         /\ \A k \in 1..n : norm[st][k] \in Int
    BY <1>1 DEF NormOK
  <2>2. PICK wt : wt = [k \in 1..n |-> course.assignments[course.students[st].scores[k].asgt].weight]
    OBVIOUS
  <2>3. \A k \in 1..n : wt[k] \in Int
    <3>1. \A k \in 1..n : course.students[st].scores[k].asgt \in Assignments
      BY <1>1, <2>1 DEF NumbersOK, StudentOK, ScoreOK, Students, Scores, Assignments
    <3>2. \A a \in Assignments : course.assignments[a].weight \in Int
      BY <1>1 DEF NumbersOK, AsgtOK, Assignments
    <3> QED
      BY ONLY <2>2, <3>1, <3>2
  <2>4. PICK xs : xs = [k \in 1..n |-> IF wt[k] = Unset THEN norm[st][k] ELSE (norm[st][k] * wt[k]) \div Unit]
    OBVIOUS
  <2>5. xs \in [1..n -> Int]
    <3> SUFFICES ASSUME NEW k \in 1..n PROVE xs[k] \in Int
      BY <2>4
    <3>1. PICK u, v \in Int : u = norm[st][k] /\ v = wt[k]
      BY <2>1, <2>3
    <3>2. PICK w \in Int : w = u * v
      OBVIOUS
    <3>3. w \div 12 \in Int
      OBVIOUS
    <3>4. xs[k] = IF v = Unset THEN u ELSE w \div 12
      BY ONLY <2>4, <3>1, <3>2, k \in 1..n DEF Unit
    <3> QED
      BY ONLY <3>3, <3>4, u \in Int
  <2>6. Total(xs) \in Int
    BY <2>5, TotalIsNumber
  <2>7. composite'[st] = Total(xs)
    <3>1. xs = [k \in DOMAIN norm[st] |->
                  IF course.assignments[course.students[st].scores[k].asgt].weight = Unset THEN norm[st][k]
                  ELSE (norm[st][k] * course.assignments[course.students[st].scores[k].asgt].weight) \div Unit]
      BY ONLY <2>1, <2>2, <2>4
    <3> QED
      BY <3>1 DEF Composites
  <2> QED
    BY <2>6, <2>7
<1>3. composite' = [st \in Students |-> composite'[st]]
  BY DEF Composites
<1> QED
  BY <1>2, <1>3

(* Nothing but where main is and who was warned changes: the numbers stay. *)
LEMMA NumSame ==
  ASSUME NumInv, UNCHANGED <<input, stack, course, out>>, phase' \notin {"normalize", "composites"},
         phase' \in SortPhases => composite' \in [Students -> Int]
  PROVE  NumInv'
<1>1. Students' = Students
  BY DEF Students
<1>2. NumbersOK(course') /\ AnInput(input') /\ Lines(out'.lines) /\ Opened(stack', input'.files)
  BY DEF NumInv
<1> QED
  BY <1>1, <1>2 DEF NumInv

(* The main file is open at its first line. *)
LEMMA StartOpened ==
  ASSUME NEW files, Main \in DOMAIN files
  PROVE  Opened(AtStart, files)
<1>1. PICK o : o = [file |-> Main, line |-> 1]
  OBVIOUS
<1>2. AtStart = <<o>>
  BY <1>1 DEF AtStart
<1>3. AnOpen(o, files)
  BY <1>1 DEF AnOpen
<1>4. PICK f : f = <<o>>
  OBVIOUS
<1>5. DOMAIN f = 1..1 /\ f = [k \in 1..1 |-> f[k]] /\ f[1] = o
  BY ONLY <1>4
<1>6. \A k \in 1..1 : AnOpen(f[k], files)
  BY ONLY <1>3, <1>5
<1>7. Opened(f, files)
  <2>1. \E n \in Nat \ {0} : DOMAIN f = 1..n /\ f = [k \in 1..n |-> f[k]] /\ \A k \in 1..n : AnOpen(f[k], files)
    BY ONLY <1>5, <1>6
  <2> QED
    BY ONLY <2>1, OpenedIs
<1> QED
  BY <1>2, <1>4, <1>7

(* A course of which nothing is read has no number in it. *)
LEMMA NoNumbers == NumbersOK(NoCourse)
<1>1. NoCourse.assignments = <<>> /\ NoCourse.students = <<>> /\ DOMAIN <<>> = {}
  BY DEF NoCourse
<1> QED
  BY <1>1 DEF NumbersOK

(* Nothing is written at first. *)
LEMMA NumInit == Init => NumInv
<1> SUFFICES ASSUME Init PROVE NumInv
  OBVIOUS
<1>1. AnInput(input)
  BY ReaderAssumption DEF Init, ReaderAssumption
<1>2. Main \in DOMAIN input.files
  BY <1>1 DEF AnInput
<1>3. Opened(stack, input.files)
  BY <1>2, StartOpened DEF Init
<1>4. NumbersOK(course)
  BY NoNumbers DEF Init
<1>5. Lines(out.lines)
  <2>1. out.lines = <<>>
    BY DEF Init, Nothing
  <2> QED
    BY <2>1, LinesOne
<1>6. phase \notin SortPhases /\ phase # "normalize" /\ phase # "composites"
  BY DEF Init, SortPhases
<1> QED
  BY <1>1, <1>3, <1>4, <1>5, <1>6 DEF NumInv

(* The reader reads numbers. *)
LEMMA NumReading ==
  ASSUME RunInv, NumInv, Reading
  PROVE  NumInv'
<1>1. Read /\ phase' = "reading" /\ out' = out /\ CourseOK(course) /\ ReadInv
  BY DEF Reading, bookVars, RunInv, BookInv
<1>2. input' = input /\ Opened(stack', input.files)
  BY <1>1, ReadOpens DEF NumInv
<1>3. NumbersOK(course')
  BY <1>1, ReadNumbers DEF NumInv
<1> QED
  BY <1>1, <1>2, <1>3 DEF NumInv, SortPhases

(* Where the course stays, so do the grades it has. *)
LEMMA GradesStay ==
  ASSUME course' = course, NEW a, NEW l
  PROVE  GradesOf(a, l)' = GradesOf(a, l)
BY DEF GradesOf, Scores

(* The statistics are of what was read. *)
LEMMA NumStatistics ==
  ASSUME NumInv, Statistics
  PROVE  NumInv'
<1>1. UNCHANGED <<input, stack, course, out>> /\ phase' = "normalize"
  BY DEF Statistics, readerVars
<1>2. \A a, l : GradesOf(a, l)' = GradesOf(a, l)
  BY <1>1, GradesStay
<1>3. stats' = StatsOf'
  BY <1>1, <1>2 DEF Statistics, StatsOf, Assignments, Sections
<1>4. NumbersOK(course') /\ AnInput(input') /\ Lines(out'.lines) /\ Opened(stack', input'.files)
  BY <1>1 DEF NumInv
<1> QED
  BY <1>1, <1>3, <1>4 DEF NumInv, SortPhases

(* What sorts and writes leaves the assignments. *)
LEMMA AsgtsStay ==
  ASSUME CourseOK(course), SortRoster \/ SortTable \/ Relink \/ CheckForDups \/ Collate \/ Report
  PROVE  course'.assignments = course.assignments
<1>1. CASE course' = course
  BY <1>1
<1>2. CASE course' # course
  <2>1. PICK v : course' = [course EXCEPT !.sections = v]
    <3>1. PICK l, r : course' = [course EXCEPT !.sections[l].roster = r]
      BY <1>2 DEF SortRoster, SortTable, Relink, CheckForDups, Collate, Report, readerVars
    <3>2. PICK v : v = [course.sections EXCEPT ![l].roster = r]
      OBVIOUS
    <3> QED
      BY <3>1, <3>2
  <2>2. course = [professor |-> course.professor, assignments |-> course.assignments, sections |-> course.sections,
                  students |-> course.students]
    BY CourseFields
  <2> QED
    BY ONLY <2>1, <2>2
<1> QED
  BY <1>1, <1>2

(* The sort and what follows it keep the numbers. *)
LEMMA NumSorts ==
  ASSUME RunInv, NumInv, SortRoster \/ SortTable \/ Relink \/ CheckForDups \/ Collate \/ Report
  PROVE  NumInv'
<1>1. BookInv /\ CourseOK(course) /\ AssignmentsListed(course)
  BY DEF RunInv, BookInv, ReadInv
<1>2. UNCHANGED <<input, composite>> /\ course'.students = course.students
  BY <1>1, KeysStay
<1>3. phase \in SortPhases /\ phase' \in SortPhases /\ stack' = stack
  BY <1>1 DEF SortRoster, SortTable, Relink, CheckForDups, Collate, Report, SortPhases, BookInv, SortingOK, readerVars
<1>4. course'.assignments = course.assignments
  BY <1>1, AsgtsStay
<1>5. NumbersOK(course')
  BY <1>2, <1>4, NumbersStay DEF NumInv, NumbersOK
<1>6. Lines(out'.lines)
  <2>1. CASE out' = out
    BY <2>1 DEF NumInv
  <2>2. CASE out'.lines = WriteCourse
    BY <1>1, <2>2, CourseWritten DEF NumInv
  <2>3. CASE out'.lines = <<>>
    BY <2>3, LinesOne
  <2>4. Report => out'.lines = <<>>
    BY DEF Report, Nothing
  <2>5. Collate => out'.lines = WriteCourse
    BY DEF Collate, Nothing
  <2>6. SortRoster \/ SortTable \/ Relink \/ CheckForDups => out' = out
    BY DEF SortRoster, SortTable, Relink, CheckForDups
  <2> QED
    BY <2>1, <2>2, <2>3, <2>4, <2>5, <2>6
<1>7. Students' = Students
  BY <1>2 DEF Students
<1> QED
  BY <1>2, <1>3, <1>5, <1>6, <1>7 DEF NumInv, SortPhases

(* A collated course is an input as good as the one it was read from. *)
LEMMA NumRunsAgain ==
  ASSUME NumInv, RunAgain
  PROVE  NumInv'
<1>1. /\ input' = [input EXCEPT !.files = [f \in {Main} |-> out.lines]]
      /\ stack' = AtStart /\ course' = NoCourse /\ phase' = "options" /\ out' = Nothing
  BY DEF RunAgain
<1>2. PICK fs : fs = [f \in {Main} |-> out.lines]
  OBVIOUS
<1>3. input' = [input EXCEPT !.files = fs]
  BY <1>1, <1>2
<1>4. input = [files |-> input.files, report |-> input.report, collate |-> input.collate, by |-> input.by]
      /\ input.by \in {"name", "id", "score"}
  BY DEF NumInv, AnInput
<1>5. input' = [files |-> fs, report |-> input.report, collate |-> input.collate, by |-> input.by]
  BY ONLY <1>3, <1>4
<1>6. Main \in DOMAIN fs /\ \A f \in DOMAIN fs : Lines(fs[f])
  BY <1>2 DEF NumInv
<1>7. AnInput(input')
  <2>1. input' = [files |-> input'.files, report |-> input'.report, collate |-> input'.collate, by |-> input'.by]
    BY ONLY <1>5
  <2>2. input'.files = fs /\ input'.by = input.by
    BY ONLY <1>5
  <2> QED
    BY ONLY <1>4, <1>6, <2>1, <2>2 DEF AnInput
<1>8. Opened(stack', input'.files)
  BY <1>1, <1>5, <1>6, StartOpened
<1>9. Lines(out'.lines)
  <2>1. out'.lines = <<>>
    BY <1>1 DEF Nothing
  <2> QED
    BY <2>1, LinesOne
<1> QED
  BY <1>1, <1>7, <1>8, <1>9, NoNumbers DEF NumInv, SortPhases

(* Every step keeps the numbers. *)
LEMMA NumStep ==
  ASSUME RunInv, NumInv, [Next]_vars
  PROVE  NumInv'
<1>1. CASE UNCHANGED vars
  <2>1. UNCHANGED <<input, stack, course, phase, roster, stats, norm, composite, out>>
    BY <1>1 DEF vars, readerVars, bookVars
  <2>2. \A st : Scores(st)' = Scores(st)
    BY <2>1 DEF Scores
  <2>3. \A a, l : GradesOf(a, l)' = GradesOf(a, l)
    BY <2>1, GradesStay
  <2>4. StatsOf' = StatsOf /\ Students' = Students
    BY <2>1, <2>3 DEF StatsOf, Assignments, Sections, Students
  <2>5. NormOK => NormOK'
    BY <2>1, <2>2, <2>4 DEF NormOK
  <2> QED
    BY <2>1, <2>4, <2>5 DEF NumInv
<1>2. CASE Options \/ GiveUp
  <2>1. UNCHANGED <<input, stack, course, out>> /\ phase' \in {"usage", "reading", "failed"}
    BY <1>2 DEF Options, GiveUp, readerVars
  <2> QED
    BY <2>1, NumSame DEF SortPhases
<1>3. CASE Reading
  BY <1>3, NumReading
<1>4. CASE Statistics
  BY <1>4, NumStatistics
<1>5. CASE Normalize
  <2>1. UNCHANGED <<input, stack, out>> /\ phase' = "composites"
    BY <1>5 DEF Normalize
  <2>2. NumbersOK(course')
    BY <1>5, NormalizeAsgts DEF NumInv, RunInv, BookInv
  <2>3. NormOK'
    BY <1>5, NormalizeScores
  <2> QED
    BY <2>1, <2>2, <2>3 DEF NumInv, SortPhases
<1>6. CASE Composites
  <2>1. UNCHANGED <<input, stack, course, out>> /\ phase' = "sort"
    BY <1>6 DEF Composites, readerVars
  <2>2. composite' \in [Students -> Int]
    BY <1>6, CompositesAre
  <2> QED
    BY <2>1, <2>2, NumSame
<1>7. CASE SortRoster \/ SortTable \/ Relink \/ CheckForDups \/ Collate \/ Report
  BY <1>7, NumSorts
<1>8. CASE FreeCourse
  <2>1. UNCHANGED <<input, stack, course, out>> /\ phase' \in {"exit", "crash"}
    BY <1>8 DEF FreeCourse, readerVars
  <2> QED
    BY <2>1, NumSame DEF SortPhases
<1>9. CASE RunAgain
  BY <1>9, NumRunsAgain
<1> QED
  BY <1>1, <1>2, <1>3, <1>4, <1>5, <1>6, <1>7, <1>8, <1>9 DEF Next

(* So whatever is sorted is numbers. *)
LEMMA NumbersSort ==
  ASSUME NumInv, phase \in SortPhases
  PROVE  Numbered
<1>1. input.by \in {"name", "id", "score"} /\ NumbersOK(course) /\ composite \in [Students -> Int]
  BY DEF NumInv, AnInput
<1> QED
  BY <1>1 DEF Numbered, NumbersOK, StudentOK, Students

(* In every state of every run, no call of the sort is too deep, every list  *)
(* holds its students once, a finished sort has put it in the order of its   *)
(* key, and two students of one name next to each other were noticed         *)
(* (sort.c).                                                                *)
THEOREM RostersAlwaysSorted == Spec => []RostersSorted
<1>1. RunInv => RosterOK
  BY DEF RunInv, ClassInv, RosterOK, SortPhases, Unread
<1>2. Init => RunInv /\ KeyInv /\ DeepInv /\ NumInv
  BY RunInit, KeyInit, DeepInit, NumInit
<1>3. RunInv /\ KeyInv /\ DeepInv /\ NumInv /\ [Next]_vars => RunInv' /\ KeyInv' /\ DeepInv' /\ NumInv'
  BY <1>1, RunStep, KeyStep, DeepStep, NumStep DEF RunInv
<1>4. RunInv /\ KeyInv /\ DeepInv /\ NumInv => RostersSorted
  <2> SUFFICES ASSUME RunInv, KeyInv, DeepInv, NumInv PROVE RostersSorted
    OBVIOUS
  <2>1. InKeyOrder /\ DupsNoticed /\ CallsBounded
    <3>1. CASE phase \in SortPhases
      BY <1>1, <3>1, NumbersSort, KeyedAreOrdered, DeepBounds DEF RunInv
    <3>2. CASE phase \notin SortPhases
      <4>1. sorting.calls = <<>>
        BY <3>2 DEF RunInv, BookInv, SortingOK, SortPhases
      <4> QED
        BY <3>2, <4>1 DEF InKeyOrder, DupsNoticed, CallsBounded, Finished, SortPhases
    <3> QED
      BY <3>1, <3>2
  <2>2. ClassWhole
    BY DEF RunInv, ClassInv, ClassWhole, Unread
  <2>3. SectionsWhole
    BY DEF RunInv, BookInv, CourseOK, In, SectionsWhole, Sections, Students
  <2> QED
    BY <2>1, <2>2, <2>3 DEF RostersSorted
<1> QED
  BY <1>2, <1>3, <1>4, PTL DEF Spec

----------------------------------------------------------------------------
(* What is normalized keeps its order *)

(* A grade that was given is in the table. *)
LEMMA GivenEntered ==
  ASSUME NEW a, NEW m, NEW S, ListTable(a, m, S), NEW st \in S, NEW i \in Scores(st), NEW g \in Int,
         course.students[st].scores[i].asgt = a, Tallied(course.students[st].scores[i]),
         course.students[st].scores[i].grade = g
  PROVE  \E c : Entry(m.freqs, g, c)
<1>1. PICK G : G = GivenTo(a, S, g)
  OBVIOUS
<1>2. IsFiniteSet(G) /\ Entry(m.freqs, g, Cardinality(G)) <=> Cardinality(G) # 0
  BY <1>1 DEF ListTable
<1>3. IsFiniteSet(G)
  BY <1>1 DEF ListTable
<1>4. <<st, i>> \in G
  BY <1>1 DEF GivenTo, GivenOf, Given
<1>5. Cardinality(G) # 0
  BY <1>3, <1>4, FS_EmptySet
<1> QED
  BY <1>1, <1>5 DEF ListTable

(* normal.c keeps the order of the scores it normalizes. *)
LEMMA NormalizeKeepsOrder ==
  ASSUME RunInv, NumInv, Normalize
  PROVE  NormMonotone'
<1>1. phase = "normalize" /\ stats = StatsOf /\ NumbersOK(course) /\ CourseOK(course) /\ roster' = roster
  BY DEF Normalize, NumInv, RunInv, BookInv
<1>2. GroupsOK /\ \A st \in Students : Placed(st)
  BY <1>1, GroupsThere
<1>3. /\ course'.students = course.students /\ DOMAIN course'.assignments = Assignments
      /\ \A a \in Assignments : /\ course'.assignments[a].policy = course.assignments[a].policy
                                /\ course'.assignments[a].group = course.assignments[a].group
                                /\ course'.assignments[a].scale = course.assignments[a].scale
                                /\ course'.assignments[a].stddev = course.assignments[a].stddev
  BY <1>1, NormalizeAsgts
<1>4. Range(roster) \subseteq Students
  BY <1>1 DEF RunInv, ClassInv, Unread
<1>5. \A st \in Students : Scores(st)' = Scores(st)
  BY <1>3 DEF Scores
<1>6. ASSUME NEW st \in Range(roster), NEW k \in Scores(st), Tallied(course.students[st].scores[k])
      PROVE  norm'[st][k] = Normal(course.students[st].scores[k].grade, course.students[st].scores[k].asgt,
                                   course.students[st].section)
  <2>1. st \in Students
    BY <1>4
  <2>2. norm'[st] = [i \in Scores(st) |-> NormScore(st, course.students[st].scores[i])]
    BY <2>1 DEF Normalize
  <2>3. norm'[st][k] = NormScore(st, course.students[st].scores[k])
    BY ONLY <2>2, k \in Scores(st)
  <2>4. PICK sc : sc = course.students[st].scores[k]
    OBVIOUS
  <2>5. sc.how \in {"VALID", "USERAW"}
    BY <1>6, <2>4 DEF Tallied
  <2>6. NormScore(st, sc) = Normal(sc.grade, sc.asgt, course.students[st].section)
    BY <2>5 DEF NormScore, Tallied
  <2> QED
    BY <2>3, <2>4, <2>6
<1>7. ASSUME NEW s \in Range(roster), NEW t \in Range(roster), NEW i \in Scores(s), NEW j \in Scores(t), NEW a,
             a = course.students[s].scores[i].asgt, a = course.students[t].scores[j].asgt,
             Tallied(course.students[s].scores[i]), Tallied(course.students[t].scores[j]),
             Positive(a),
             \/ course.assignments[a].policy \in {"RAW", "SCALE"} \/ course.assignments[a].group = "BYCLASS"
             \/ course.students[s].section = course.students[t].section,
             course.students[s].scores[i].grade <= course.students[t].scores[j].grade
      PROVE  norm'[s][i] <= norm'[t][j]
  <2>1. s \in Students /\ t \in Students
    BY <1>4
  <2>2. ScoreOK(course.students[s].scores[i], Assignments) /\ ScoreOK(course.students[t].scores[j], Assignments)
    BY <1>1, <2>1 DEF NumbersOK, StudentOK, Scores, Students, Assignments
  <2>3. PICK x, y \in Int : x = course.students[s].scores[i].grade /\ y = course.students[t].scores[j].grade
    BY <2>2 DEF ScoreOK
  <2>4. a \in Assignments /\ AsgtOK(course.assignments[a])
    BY <1>1, <1>7, <2>2 DEF ScoreOK, NumbersOK, Assignments
  <2>5. PICK u, v \in Sections : u = course.students[s].section /\ v = course.students[t].section
    BY <1>2, <2>1 DEF Placed
  <2>6. norm'[s][i] = Normal(x, a, u) /\ norm'[t][j] = Normal(y, a, v)
    BY <1>6, <1>7, <2>3, <2>5
  <2>7. NumberedGroup(Group(a, u))
    BY <1>2, <2>4 DEF GroupsOK
  <2>8. Together(a, u, v)
    BY <1>7, <2>5 DEF Together, Group
  <2>9. ASSUME course.assignments[a].policy = "QUANTILE" PROVE \E c : Entry(Group(a, u).freqs, y, c)
    <3>1. ListTable(a, stats[a].class, Students) /\ ListTable(a, stats[a].sections[u], In(course, u))
      BY <1>1, <2>4, TablesThere
    <3>2. CASE course.assignments[a].group = "BYCLASS"
      <4>1. \E c : Entry(stats[a].class.freqs, y, c)
        BY <1>7, <2>1, <2>3, <3>1, GivenEntered
      <4> QED
        BY <3>2, <4>1 DEF Group
    <3>3. CASE course.assignments[a].group # "BYCLASS"
      <4>1. t \in In(course, u)
        BY <1>7, <2>1, <2>5, <2>9, <3>3 DEF In, Students
      <4>2. \E c : Entry(stats[a].sections[u].freqs, y, c)
        BY <1>7, <2>3, <3>1, <4>1, GivenEntered
      <4> QED
        BY <3>3, <4>2 DEF Group
    <3> QED
      BY <3>2, <3>3
  <2>10. x <= y
    BY <1>7, <2>3
  <2> QED
    BY <1>7, <2>4, <2>6, <2>7, <2>8, <2>9, <2>10, NormalGrows
<1>8. ASSUME NEW s \in Range(roster'), NEW t \in Range(roster'), NEW i \in Scores(s)', NEW j \in Scores(t)',
             Comparable(s, i, t, j)'
      PROVE  norm'[s][i] <= norm'[t][j]
  <2>1. s \in Range(roster) /\ t \in Range(roster) /\ s \in Students /\ t \in Students
    BY <1>1, <1>4
  <2>2. i \in Scores(s) /\ j \in Scores(t)
    BY <1>5, <2>1
  <2>3. PICK x, y, a : x = course'.students[s].scores[i] /\ y = course'.students[t].scores[j] /\ a = course'.assignments[x.asgt]
    OBVIOUS
  <2>4. x = course.students[s].scores[i] /\ y = course.students[t].scores[j]
    BY <1>3, <2>3
  <2>5. ScoreOK(x, Assignments)
    BY <1>1, <2>1, <2>2, <2>4 DEF NumbersOK, StudentOK, Scores, Students, Assignments
  <2>6. PICK b \in Assignments : b = x.asgt
    BY <2>5 DEF ScoreOK
  <2>7. PICK d : d = course.assignments[b]
    OBVIOUS
  <2>8. a.policy = d.policy /\ a.group = d.group /\ a.scale = d.scale /\ a.stddev = d.stddev
    BY <1>3, <2>3, <2>6, <2>7
  <2>9. /\ x.asgt = y.asgt /\ Tallied(x) /\ Tallied(y) /\ x.grade <= y.grade
        /\ \/ a.policy \in {"RAW", "SCALE"} \/ a.group = "BYCLASS"
           \/ course'.students[s].section = course'.students[t].section
        /\ (a.policy = "SCALE" => a.scale >= 0) /\ (a.policy = "LINEAR" => a.stddev >= 0)
    BY <1>8, <2>3 DEF Comparable, Tallied
  <2>10. Positive(b)
    BY <2>7, <2>8, <2>9 DEF Positive
  <2>11. course'.students[s].section = course.students[s].section /\ course'.students[t].section = course.students[t].section
    BY <1>3
  <2> QED
    BY <1>7, <2>1, <2>2, <2>4, <2>6, <2>7, <2>8, <2>9, <2>10, <2>11
<1> QED
  BY <1>8 DEF NormMonotone

(* Every step keeps what was normalized in order. *)
LEMMA MonotoneStep ==
  ASSUME RunInv, NumInv, NormMonotone, [Next]_vars
  PROVE  NormMonotone'
<1>1. CASE Normalize
  BY <1>1, NormalizeKeepsOrder
<1>2. CASE UNCHANGED vars
  <2>1. UNCHANGED <<phase, course, roster, norm>>
    BY <1>2 DEF vars, readerVars, bookVars
  <2>2. \A s : Scores(s)' = Scores(s)
    BY <2>1 DEF Scores
  <2>3. ASSUME NEW s, NEW i, NEW t, NEW j, Comparable(s, i, t, j)' PROVE Comparable(s, i, t, j)
    <3>1. PICK x, y, a : x = course.students[s].scores[i] /\ y = course.students[t].scores[j] /\ a = course.assignments[x.asgt]
      OBVIOUS
    <3> QED
      BY <2>1, <2>3, <3>1 DEF Comparable, Tallied
  <2> QED
    BY <2>1, <2>2, <2>3 DEF NormMonotone
<1>3. CASE ~Normalize /\ Next
  <2>1. SortTable \/ Relink => phase # "composites" /\ phase' = phase
    BY DEF SortTable, Relink, RunInv, BookInv, SortingOK
  <2>2. phase' # "composites"
    BY <1>3, <2>1 DEF Next, Options, Reading, GiveUp, Statistics, Composites, SortRoster, CheckForDups, Collate, Report,
                      FreeCourse, RunAgain, bookVars
  <2> QED
    BY <2>2 DEF NormMonotone
<1> QED
  BY <1>1, <1>2, <1>3

(* In every course with numbers that are not negative: a better score never  *)
(* gets a lower normalized score in the group it is normalized over,        *)
(* whatever the policy (normal.c, stats.c).                                 *)
THEOREM NormalizedInOrder == Spec => []NormMonotone
<1>1. Init => RunInv /\ NumInv /\ NormMonotone
  <2>1. Init => NormMonotone
    BY DEF Init, NormMonotone
  <2> QED
    BY <2>1, RunInit, NumInit
<1>2. RunInv /\ NumInv /\ NormMonotone /\ [Next]_vars => RunInv' /\ NumInv' /\ NormMonotone'
  BY RunStep, NumStep, MonotoneStep
<1> QED
  BY <1>1, <1>2, PTL DEF Spec

----------------------------------------------------------------------------
(* The tables count what was given *)

(* What a table counts for a score is what its entry says. *)
LEMMA CountIs ==
  ASSUME NEW f \in Tables, NEW g, NEW c, c \in Nat, c # 0 => Entry(f, g, c), c = 0 => \A d : ~Entry(f, g, d)
  PROVE  Count(f, g) = c
<1>1. PICK n \in Nat : n = Len(f) /\ DOMAIN f = 1..n
  BY DEF Tables
<1>2. \A k \in 1..n : f[k].score \in Int /\ f[k].count \in Nat
  <2>1. \A k \in 1..n : f[k] \in AFreq
    BY <1>1 DEF Tables
  <2> QED
    BY <2>1 DEF AFreq
<1>3. PICK xs : xs = [k \in 1..n |-> IF f[k].score = g THEN f[k].count ELSE 0]
  OBVIOUS
<1>4. xs \in [1..n -> Int]
  BY <1>2, <1>3
<1>5. PICK q : Sums(q, xs, n) /\ Total(xs) = q[n]
  BY <1>4, TotalSums
<1>6. q[0] = 0 /\ \A k \in 1..n : q[k] = q[k - 1] + xs[k]
  BY <1>5 DEF Sums
<1>7. CASE c = 0
  <2>1. \A k \in 1..n : xs[k] = 0
    BY <1>1, <1>3, <1>7 DEF Entry
  <2>2. PICK D : D = {k \in 0..n : q[k] = 0}
    OBVIOUS
  <2>3. 0 \in D
    BY <1>6, <2>2
  <2>4. ASSUME NEW k \in 0..(n - 1), k \in D PROVE k + 1 \in D
    <3>1. k + 1 \in 1..n /\ k + 1 - 1 = k /\ k + 1 \in 0..n
      OBVIOUS
    <3>2. q[k + 1] = q[k + 1 - 1] + xs[k + 1]
      BY ONLY <1>6, <3>1
    <3> QED
      BY ONLY <2>1, <2>2, <2>4, <3>1, <3>2
  <2>5. n \in D
    BY ONLY <2>3, <2>4, n \in Nat, UpTo
  <2> QED
    BY <1>1, <1>3, <1>5, <1>7, <2>2, <2>5 DEF Count
<1>8. CASE c # 0
  <2>1. PICK j \in 1..n : f[j].score = g /\ f[j].count = c
    BY <1>1, <1>8 DEF Entry
  <2>2. \A k \in 1..n : k # j => f[k].score # g
    <3>1. \A i, k \in 1..n : i < k => f[i].score < f[k].score
      BY <1>1 DEF Tables
    <3>2. ASSUME NEW k \in 1..n, k # j PROVE f[k].score # f[j].score
      <4>1. k < j \/ j < k
        BY <3>2
      <4>2. PICK a, b \in Int : a = f[k].score /\ b = f[j].score
        BY <1>2
      <4>3. a < b \/ b < a
        BY <3>1, <4>1, <4>2
      <4> QED
        BY <4>2, <4>3
    <3> QED
      BY <2>1, <3>2
  <2>3. \A k \in 1..n : xs[k] = IF k = j THEN c ELSE 0
    BY <1>3, <2>1, <2>2
  <2>4. PICK D : D = {k \in 0..n : q[k] = IF k < j THEN 0 ELSE c}
    OBVIOUS
  <2>5. 0 \in D
    BY <1>6, <2>4
  <2>6. ASSUME NEW k \in 0..(n - 1), k \in D PROVE k + 1 \in D
    <3>1. k + 1 \in 1..n /\ k + 1 - 1 = k /\ k + 1 \in 0..n
      OBVIOUS
    <3>2. q[k + 1] = q[k] + xs[k + 1]
      BY ONLY <1>6, <3>1
    <3>3. xs[k + 1] = IF k + 1 = j THEN c ELSE 0
      BY ONLY <2>3, <3>1
    <3>4. q[k] = IF k < j THEN 0 ELSE c
      BY ONLY <2>4, <2>6
    <3>5. q[k + 1] = IF k + 1 < j THEN 0 ELSE c
      BY ONLY <3>2, <3>3, <3>4, c \in Nat, j \in 1..n, n \in Nat, k \in 0..(n - 1)
    <3> QED
      BY ONLY <2>4, <3>1, <3>5
  <2>7. n \in D
    BY ONLY <2>5, <2>6, n \in Nat, UpTo
  <2>8. q[n] = c
    BY <2>4, <2>7
  <2> QED
    BY <1>1, <1>3, <1>5, <2>8 DEF Count
<1> QED
  BY <1>7, <1>8

(* So a table of a list of students counts each score as often as it was     *)
(* given to one of them.                                                    *)
LEMMA CountOfList ==
  ASSUME NEW a, NEW m, NEW S, ListTable(a, m, S), NEW g \in Int
  PROVE  /\ m.freqs \in Tables /\ IsFiniteSet(GivenTo(a, S, g)) /\ Count(m.freqs, g) = Cardinality(GivenTo(a, S, g))
         /\ (\E c : Entry(m.freqs, g, c)) <=> Cardinality(GivenTo(a, S, g)) # 0
<1>1. PICK G : G = GivenTo(a, S, g)
  OBVIOUS
<1>2. /\ m.freqs \in Tables /\ IsFiniteSet(G)
      /\ \A c : Entry(m.freqs, g, c) <=> c = Cardinality(G) /\ c # 0
  BY <1>1 DEF ListTable, NumberedGroup
<1>3. PICK c \in Nat : c = Cardinality(G)
  BY <1>2, FS_CardinalityType
<1>4. Count(m.freqs, g) = c
  BY <1>2, <1>3, CountIs
<1> QED
  BY <1>1, <1>2, <1>3, <1>4

(* What was given to the class was given in one of the sections. *)
LEMMA SectionsCount ==
  ASSUME RunInv, NumbersOK(course), phase = "normalize", stats = StatsOf, NEW a \in Assignments, NEW g \in Int
  PROVE  Cardinality(GivenTo(a, Students, g)) = Total([s \in Sections |-> Count(stats[a].sections[s].freqs, g)])
<1>1. PICK n \in Nat : Sections = 1..n
  BY CourseFields DEF RunInv, BookInv, Sections
<1>2. PICK sets : sets = [s \in 1..n |-> GivenTo(a, In(course, s), g)]
  OBVIOUS
<1>3. PICK ts : ts = [s \in 1..n |-> Count(stats[a].sections[s].freqs, g)]
  OBVIOUS
<1>4. \A s \in 1..n : IsFiniteSet(sets[s]) /\ ts[s] = Cardinality(sets[s])
  <2> SUFFICES ASSUME NEW s \in 1..n PROVE IsFiniteSet(sets[s]) /\ ts[s] = Cardinality(sets[s])
    OBVIOUS
  <2>1. ListTable(a, stats[a].sections[s], In(course, s))
    BY <1>1, TablesThere
  <2>2. sets[s] = GivenTo(a, In(course, s), g) /\ ts[s] = Count(stats[a].sections[s].freqs, g)
    BY <1>2, <1>3
  <2> QED
    BY <2>1, <2>2, CountOfList
<1>5. ts \in [1..n -> Int]
  BY <1>3, <1>4, FS_CardinalityType
<1>6. ASSUME NEW i \in 1..n, NEW j \in 1..n, i # j PROVE sets[i] \cap sets[j] = {}
  <2>1. \A st : ~(st \in In(course, i) /\ st \in In(course, j))
    BY <1>6 DEF In
  <2>2. \A s \in 1..n : \A p \in sets[s] : p[1] \in In(course, s)
    BY <1>2 DEF GivenTo, GivenOf
  <2> QED
    BY <2>1, <2>2
<1>7. GivenTo(a, Students, g) = UNION {sets[s] : s \in 1..n}
  <2>1. ASSUME NEW st \in Students PROVE \E s \in 1..n : st \in In(course, s)
    <3>1. Placed(st)
      BY GroupsThere
    <3> QED
      BY <1>1, <3>1 DEF Placed, In, Students
  <2>2. \A s \in 1..n : In(course, s) \subseteq Students
    BY DEF In, Students
  <2>3. \A p : p \in GivenTo(a, Students, g) <=> \E st \in Students : p \in GivenOf(a, st, g)
    BY DEF GivenTo
  <2>4. \A p : \A s \in 1..n : p \in sets[s] <=> \E st \in In(course, s) : p \in GivenOf(a, st, g)
    BY <1>2 DEF GivenTo
  <2>5. \A p : p \in GivenTo(a, Students, g) <=> \E s \in 1..n : p \in sets[s]
    BY <2>1, <2>2, <2>3, <2>4
  <2> QED
    BY <2>5
<1>8. Cardinality(UNION {sets[k] : k \in 1..n}) = Total(ts)
  BY <1>4, <1>5, <1>6, SizesAdd
<1> QED
  BY <1>1, <1>3, <1>7, <1>8

(* What the table of the class says of the grades. *)
Agree(a, grades, freqs) ==
  /\ \A i \in 1..Len(freqs) - 1 : freqs[i].score < freqs[i + 1].score
  /\ {freqs[k].score : k \in DOMAIN freqs} = Range(grades)
  /\ \A g \in Range(grades) :
       /\ Count(freqs, g) = Cardinality({i \in DOMAIN grades : grades[i] = g})
       /\ Count(freqs, g) = Total([s \in Sections |-> Count(stats[a].sections[s].freqs, g)])

(* The class and its sections have the same grades counted. *)
LEMMA ClassCounted ==
  ASSUME RunInv, NumInv, phase = "normalize", NEW a \in Assignments, NEW grades, grades = GradesOf(a, [st \in Students |-> st]),
         NEW freqs, freqs = stats[a].class.freqs
  PROVE  Agree(a, grades, freqs)
<1>1. stats = StatsOf /\ NumbersOK(course) /\ CourseOK(course)
  BY DEF NumInv, RunInv, BookInv
<1>2. PICK n \in Nat : Students = 1..n
  BY <1>1, CourseFields DEF Students
<1>3. PICK sts : sts = [st \in Students |-> st]
  OBVIOUS
<1>4. sts \in [1..n -> Students] /\ Range(sts) = Students /\ \A i, j \in 1..n : i # j => sts[i] # sts[j]
  <2>1. sts = [st \in 1..n |-> st]
    BY <1>2, <1>3
  <2>2. Range(sts) = {sts[k] : k \in DOMAIN sts}
    BY DEF Range
  <2> QED
    BY <1>2, <2>1, <2>2
<1>5. \A g : grades \in Seq(Int) /\ Tally(grades, Len(grades), g) = Cardinality(GivenTo(a, Students, g))
  <2> SUFFICES ASSUME NEW g PROVE grades \in Seq(Int) /\ Tally(grades, Len(grades), g) = Cardinality(GivenTo(a, Students, g))
    OBVIOUS
  <2>1. /\ GradesOf(a, sts) \in Seq(Int)
        /\ Tally(GradesOf(a, sts), Len(GradesOf(a, sts)), g) = Cardinality(GivenTo(a, Range(sts), g))
    BY <1>1, <1>4, GradesTally
  <2> QED
    BY <1>3, <1>4, <2>1
<1>6. PICK n1 \in Nat : n1 = Len(grades) /\ DOMAIN grades = 1..n1 /\ \A i \in 1..n1 : grades[i] \in Int
  BY <1>5
<1>7. ListTable(a, stats[a].class, Students)
  BY <1>1, TablesThere
<1>8. freqs \in Tables /\ \A g \in Int : /\ Count(freqs, g) = Cardinality(GivenTo(a, Students, g))
                                         /\ (\E c : Entry(freqs, g, c)) <=> Cardinality(GivenTo(a, Students, g)) # 0
  BY <1>7, 0 \in Int, CountOfList
<1>9. PICK m \in Nat : m = Len(freqs) /\ DOMAIN freqs = 1..m /\ \A k \in 1..m : freqs[k].score \in Int
  <2>1. freqs \in Seq(AFreq)
    BY <1>8 DEF Tables
  <2>2. \A k \in 1..Len(freqs) : freqs[k] \in AFreq
    BY <2>1
  <2>3. \A k \in 1..Len(freqs) : freqs[k].score \in Int
    BY <2>2 DEF AFreq
  <2> QED
    BY <2>1, <2>3
<1>10. \A i \in 1..Len(freqs) - 1 : freqs[i].score < freqs[i + 1].score
  BY <1>8, <1>9 DEF Tables
<1>11. \A g \in Range(grades) : g \in Int
  BY <1>6 DEF Range
<1>12. ASSUME NEW g \in Int PROVE Cardinality(GivenTo(a, Students, g)) = Cardinality({i \in DOMAIN grades : grades[i] = g})
  BY <1>5, <1>6 DEF Tally
<1>13. ASSUME NEW g \in Int PROVE g \in Range(grades) <=> Cardinality({i \in DOMAIN grades : grades[i] = g}) # 0
  <2>1. PICK D : D = {i \in DOMAIN grades : grades[i] = g}
    OBVIOUS
  <2>2. IsFiniteSet(D)
    <3>1. D \subseteq 1..n1 /\ IsFiniteSet(1..n1)
      BY <1>6, <2>1, FS_Interval
    <3> QED
      BY <3>1, FS_Subset
  <2>3. Cardinality(D) = 0 <=> D = {}
    BY <2>2, FS_EmptySet
  <2>4. g \in Range(grades) <=> D # {}
    BY <2>1 DEF Range
  <2> QED
    BY <2>1, <2>3, <2>4
<1>14. ASSUME NEW g \in Int PROVE (\E c : Entry(freqs, g, c)) <=> \E k \in DOMAIN freqs : freqs[k].score = g
  BY <1>9 DEF Entry
<1>15. {freqs[k].score : k \in DOMAIN freqs} = Range(grades)
  <2>1. \A g \in Int : g \in Range(grades) <=> \E k \in DOMAIN freqs : freqs[k].score = g
    BY <1>8, <1>12, <1>13, <1>14
  <2>2. \A k \in DOMAIN freqs : freqs[k].score \in Int
    BY <1>9
  <2> QED
    BY ONLY <1>11, <2>1, <2>2
<1>16. ASSUME NEW g \in Range(grades)
       PROVE  Count(freqs, g) = Total([s \in Sections |-> Count(stats[a].sections[s].freqs, g)])
  <2>1. g \in Int
    BY <1>11
  <2> QED
    BY <1>1, <1>8, <2>1, SectionsCount
<1>17. \A g \in Range(grades) : Count(freqs, g) = Cardinality({i \in DOMAIN grades : grades[i] = g})
  BY <1>8, <1>11, <1>12
<1> QED
  BY <1>10, <1>15, <1>16, <1>17 DEF Agree

(* In every run the frequency tables rise, have exactly the scores that were *)
(* tallied, and count each as often as it was given to a student, in the    *)
(* class as in its sections together (stats.c).                             *)
THEOREM FrequenciesCount == Spec => []FreqsCounted
<1>1. Init => RunInv /\ NumInv
  BY RunInit, NumInit
<1>2. RunInv /\ NumInv /\ [Next]_vars => RunInv' /\ NumInv'
  BY RunStep, NumStep
<1>3. RunInv /\ NumInv => FreqsCounted
  <2> SUFFICES ASSUME RunInv, NumInv, phase = "normalize" PROVE FreqsCounted
    BY DEF FreqsCounted
  <2>1. ASSUME NEW a \in DOMAIN stats PROVE Agree(a, GradesOf(a, [st \in Students |-> st]), stats[a].class.freqs)
    <3>1. a \in Assignments
      BY <2>1 DEF NumInv, StatsOf
    <3>2. PICK grades, freqs : grades = GradesOf(a, [st \in Students |-> st]) /\ freqs = stats[a].class.freqs
      OBVIOUS
    <3>3. Agree(a, grades, freqs)
      BY <3>1, <3>2, ClassCounted
    <3> QED
      BY <3>2, <3>3
  <2> QED
    BY <2>1 DEF FreqsCounted, Agree
<1> QED
  BY <1>1, <1>2, <1>3, PTL DEF Spec
==============================================================================
