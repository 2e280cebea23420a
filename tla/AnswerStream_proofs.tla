------------------------- MODULE AnswerStream_proofs -------------------------
(***************************************************************************)
(* Proofs about AnswerStream, for any answer, any number of pieces and any    *)
(* cuts of its bytes into chunks.  Of Observers_proofs they take only that    *)
(* every set of numbers has a least one, and the induction that gives.        *)
(***************************************************************************)
EXTENDS Observers_proofs, AnswerStream

\* What one line does to a frame, or one frame to the chat log: the two steps that are folded.
Step(kind, acc, x) == IF kind = "line" THEN ReadLine(acc, x) ELSE PassOn(acc, x)

\* A set of positions has a greatest one: the mirror image of a least one.
LEMMA MaxIsGreatest ==
    ASSUME NEW N \in Nat, NEW x \in SUBSET (1 .. N), x # {}
    PROVE  Max(x) \in x /\ \A y \in x : Max(x) >= y
<1> DEFINE mirror == {N - y : y \in x}
<1>1. mirror \in SUBSET Nat /\ mirror # {}
  <2>1. \A y \in x : N - y \in Nat
    OBVIOUS
  <2> QED BY <2>1
<1>2. PICK m \in mirror : \A n \in mirror : m <= n
  <2> HIDE DEF mirror
  <2> QED BY <1>1, HasLeast
<1>3. PICK y \in x : m = N - y
  BY <1>2
<1>4. ASSUME NEW z \in x PROVE y >= z
  <2>1. N - y <= N - z
    BY <1>2, <1>3
  <2> QED BY <2>1
<1>5. \E y1 \in x : \A z \in x : y1 >= z
  BY <1>4
<1> QED BY <1>5 DEF Max

\* The table of a fold: what each set of the first N is folded to.
Table(F, kind, base, N, s) ==
    F = [x \in SUBSET (1 .. N) |->
            IF x = {} THEN base ELSE Step(kind, F[x \ {Max(x)}], s[Max(x)])]

\* The recursive function a fold is defined by exists: the tables of the sets of at most n positions
\* give that of the sets of n + 1.
LEMMA FoldTable ==
    ASSUME NEW kind, NEW base, NEW N \in Nat, NEW s
    PROVE  \E F : Table(F, kind, base, N, s)
<1> DEFINE S == SUBSET (1 .. N)
           next(F, x) == IF x = {} THEN base ELSE Step(kind, F[x \ {Max(x)}], s[Max(x)])
           Right(F, n) == \A x \in S : Cardinality(x) <= n => F[x] = next(F, x)
           T == {n \in Nat : \E F : Right(F, n)}
<1>1. \A x \in S : IsFiniteSet(x) /\ Cardinality(x) \in Nat /\ Cardinality(x) <= N
  <2>1. IsFiniteSet(1 .. N) /\ Cardinality(1 .. N) = N
    <3>1. IsFiniteSet(1 .. N) /\ Cardinality(1 .. N) = IF 1 > N THEN 0 ELSE N - 1 + 1
      BY FS_Interval
    <3> QED BY <3>1
  <2> QED BY <2>1, FS_Subset, FS_CardinalityType
<1>2. ASSUME NEW x \in S, x # {}
      PROVE  /\ Max(x) \in x /\ x \ {Max(x)} \in S
             /\ \A n \in Nat : Cardinality(x) <= n + 1 => Cardinality(x \ {Max(x)}) <= n
             /\ Cardinality(x) # 0
  <2>1. Max(x) \in x
    BY <1>2, MaxIsGreatest
  <2>2. Cardinality(x \ {Max(x)}) = Cardinality(x) - 1
    BY <1>1, <2>1, FS_RemoveElement
  <2>3. Cardinality(x) \in Nat /\ Cardinality(x) # 0
    BY <1>1, <1>2, FS_EmptySet
  <2>4. ASSUME NEW k \in Nat, NEW n \in Nat, k <= n + 1 PROVE k - 1 <= n
    BY <2>4
  <2> QED BY <2>1, <2>2, <2>3, <2>4
<1>3. Cardinality({}) = 0
  BY FS_EmptySet
<1>4. 0 \in T
  <2> DEFINE F == [x \in S |-> base]
  <2>1. \A x \in S : Cardinality(x) <= 0 => x = {}
    <3>1. \A k \in Nat : k <= 0 => k = 0
      OBVIOUS
    <3> QED BY <1>1, <1>2, <3>1
  <2>2. Right(F, 0)
    BY <2>1
  <2> HIDE DEF F, Right
  <2> QED BY <2>2
<1>5. ASSUME NEW n \in T PROVE n + 1 \in T
  <2>0. n \in Nat /\ n + 1 \in Nat
    OBVIOUS
  <2>1. PICK F : Right(F, n)
    OBVIOUS
  <2> DEFINE G == [x \in S |-> IF Cardinality(x) <= n THEN F[x] ELSE next(F, x)]
  <2>2. ASSUME NEW x \in S, Cardinality(x) <= n + 1 PROVE G[x] = next(G, x)
    <3>1. G[x] = next(F, x)
      BY <2>1
    <3>2. CASE x = {}
      BY <3>1, <3>2
    <3>3. CASE x # {}
      <4>1. x \ {Max(x)} \in S /\ Cardinality(x \ {Max(x)}) <= n
        BY <1>2, <2>0, <2>2, <3>3
      <4>2. G[x \ {Max(x)}] = F[x \ {Max(x)}]
        BY <4>1
      <4> QED BY <3>1, <3>3, <4>2
    <3> QED BY <3>2, <3>3
  <2>3. Right(G, n + 1)
    BY <2>2
  <2> HIDE DEF G, Right
  <2> QED BY <2>0, <2>3
<1>6. N \in T
  <2> HIDE DEF T
  <2>1. T = Nat
    <3>1. T \in SUBSET Nat
      BY DEF T
    <3> QED BY <1>4, <1>5, <3>1, SetInduction
  <2> QED BY <2>1
<1>7. PICK F : Right(F, N)
  BY <1>6
<1> DEFINE G == [x \in S |-> F[x]]
<1>8. ASSUME NEW x \in S PROVE G[x] = next(G, x)
  <2>1. F[x] = next(F, x)
    BY <1>1, <1>7
  <2>2. x # {} => x \ {Max(x)} \in S
    BY <1>2
  <2> QED BY <2>1, <2>2
<1>9. G = [x \in S |-> next(G, x)]
  <2>1. G = [x \in S |-> G[x]]
    OBVIOUS
  <2> HIDE DEF G, next
  <2> QED BY <1>8, <2>1
<1>10. Table(G, kind, base, N, s)
  <2> HIDE DEF G
  <2> QED BY <1>9 DEF Table
<1> HIDE DEF G
<1> QED BY <1>10

\* What the first k are folded to, for each k.
StepByStep(R, kind, base, N, s, last) ==
    /\ R[0] = base /\ R[N] = last
    /\ \A k \in 0 .. N - 1 : R[k + 1] = Step(kind, R[k], s[k + 1])

\* A fold over 1 .. N passes through what the first k are folded to.
LEMMA FoldSteps ==
    ASSUME NEW kind, NEW base, NEW N \in Nat, NEW s, NEW H, Table(H, kind, base, N, s)
    PROVE  \E R : StepByStep(R, kind, base, N, s, H[1 .. N])
<1> DEFINE R == [k \in 0 .. N |-> H[1 .. k]]
<1>1. R[0] = base
  <2>1. 1 .. 0 = {}
    OBVIOUS
  <2>2. H[{}] = base
    BY DEF Table
  <2>3. R[0] = H[1 .. 0]
    OBVIOUS
  <2> QED BY <2>1, <2>2, <2>3
<1>2. R[N] = H[1 .. N]
  OBVIOUS
<1>3. ASSUME NEW k \in 0 .. N - 1 PROVE R[k + 1] = Step(kind, R[k], s[k + 1])
  <2>1. 1 .. k + 1 \in SUBSET (1 .. N) /\ 1 .. k + 1 # {} /\ k \in 0 .. N /\ k + 1 \in 0 .. N
    OBVIOUS
  <2>2. Max(1 .. k + 1) = k + 1
    <3>1. Max(1 .. k + 1) \in 1 .. k + 1 /\ \A y \in 1 .. k + 1 : Max(1 .. k + 1) >= y
      BY <2>1, MaxIsGreatest
    <3> QED BY <2>1, <3>1
  <2>3. (1 .. k + 1) \ {k + 1} = 1 .. k
    OBVIOUS
  <2> DEFINE y == 1 .. k + 1
  <2>4. H[y] = Step(kind, H[y \ {Max(y)}], s[Max(y)])
    <3>1. y \in SUBSET (1 .. N) /\ y # {}
      BY <2>1
    <3> HIDE DEF y
    <3> QED BY <3>1 DEF Table
  <2> QED BY <2>1, <2>2, <2>3, <2>4
<1> HIDE DEF R
<1>4. StepByStep(R, kind, base, N, s, H[1 .. N])
  BY <1>1, <1>2, <1>3 DEF StepByStep
<1> QED BY <1>4

\* Lines are read one after the other.
LEMMA LinesInTurn ==
    ASSUME NEW N \in Nat, NEW lines, DOMAIN lines = 1 .. N
    PROVE  \E R : /\ R[0] = [frames |-> <<>>, field |-> field] /\ R[N] = ReadLines(lines)
                  /\ \A k \in 0 .. N - 1 : R[k + 1] = ReadLine(R[k], lines[k + 1])
<1> DEFINE base == [frames |-> <<>>, field |-> field]
           Def(F) == [x \in SUBSET DOMAIN lines |->
                        IF x = {} THEN base ELSE ReadLine(F[x \ {Max(x)}], lines[Max(x)])]
           H == CHOOSE F : F = Def(F)
<1>1. \E F : F = Def(F)
  <2>1. PICK F : Table(F, "line", base, N, lines)
    <3> HIDE DEF base
    <3> QED BY FoldTable
  <2>2. F = Def(F)
    BY <2>1 DEF Table, Step
  <2> HIDE DEF Def
  <2> QED BY <2>2
<1>2. H = Def(H)
  <2> HIDE DEF Def
  <2> QED BY <1>1
<1>3. ReadLines(lines) = H[1 .. N]
  BY DEF ReadLines, FoldLeft, MapThenFoldSet
<1> HIDE DEF H
<1>4. Table(H, "line", base, N, lines)
  BY <1>2 DEF Table, Step
<1>5. PICK R : StepByStep(R, "line", base, N, lines, H[1 .. N])
  <2> HIDE DEF base
  <2> QED BY <1>4, FoldSteps
<1> QED BY <1>3, <1>5 DEF Step, StepByStep

\* Frames are passed on one after the other.
LEMMA FramesInTurn ==
    ASSUME NEW N \in Nat, NEW frames, DOMAIN frames = 1 .. N, Pass(frames)
    PROVE  \E P : /\ P[0] = [started |-> started, said |-> said, held |-> held]
                  /\ started' = P[N].started /\ said' = P[N].said /\ held' = P[N].held
                  /\ \A k \in 0 .. N - 1 : P[k + 1] = PassOn(P[k], frames[k + 1])
<1> DEFINE base == [started |-> started, said |-> said, held |-> held]
           Def(F) == [x \in SUBSET DOMAIN frames |->
                        IF x = {} THEN base ELSE PassOn(F[x \ {Max(x)}], frames[Max(x)])]
           H == CHOOSE F : F = Def(F)
<1>1. \E F : F = Def(F)
  <2>1. PICK F : Table(F, "frame", base, N, frames)
    <3> HIDE DEF base
    <3> QED BY FoldTable
  <2>2. F = Def(F)
    BY <2>1 DEF Table, Step
  <2> HIDE DEF Def
  <2> QED BY <2>2
<1>2. H = Def(H)
  <2> HIDE DEF Def
  <2> QED BY <1>1
<1>3. started' = H[1 .. N].started /\ said' = H[1 .. N].said /\ held' = H[1 .. N].held
  BY DEF Pass, FoldLeft, MapThenFoldSet
<1> HIDE DEF H
<1>4. Table(H, "frame", base, N, frames)
  BY <1>2 DEF Table, Step
<1>5. PICK P : StepByStep(P, "frame", base, N, frames, H[1 .. N])
  <2> HIDE DEF base
  <2> QED BY <1>4, FoldSteps
<1> QED BY <1>3, <1>5 DEF Step, StepByStep

\* How many lines a frame of the response has, and how many the response.
Width(b) == IF b.cut THEN 5 ELSE 4
Count(b) == Len(Frames(b)) * Width(b) - (IF b.closed THEN 0 ELSE 1)

\* What there is of a frame after r of its lines, and after k lines of the response.
FieldOf(f, r, cut) ==
    IF r = 0 THEN NoField
    ELSE [event |-> f.event,
          data |-> IF r \in {1, 2} THEN <<>>
                   ELSE IF r = 3 THEN <<<<f.data, IF cut THEN "first" ELSE "whole">>>>
                   ELSE <<<<f.data, "first">>, <<f.data, "second">>>>,
          seen |-> TRUE]

FieldAt(b, k) == FieldOf(Frames(b)[(k \div Width(b)) + 1], k % Width(b), b.cut)

\* The frames of a response without empty deltas: a delta for each piece, then the end.
LEMMA FramesSent ==
    ASSUME ~EmptyDeltas, NEW b \in Bodies
    PROVE  /\ b.pieces \in 0 .. Len(Answer) /\ b.pieces \in Nat /\ Len(Answer) \in Nat
           /\ b.end \in {"final", "error"} /\ (b.end = "final" => b.pieces \in {0, Len(Answer)})
           /\ b.cut \in BOOLEAN /\ b.closed \in BOOLEAN /\ b.newline \in BOOLEAN
           /\ Len(Frames(b)) = b.pieces + 1
           /\ \A m \in 1 .. b.pieces : Frames(b)[m] = Delta(<<Answer[m]>>, m)
           /\ Frames(b)[b.pieces + 1] = [event |-> b.end, data |-> [delta |-> <<>>, text |-> Answer]]
<1>1. /\ b.pieces \in 0 .. Len(Answer) /\ b.end \in {"final", "error"} /\ b.empty \in {FALSE, EmptyDeltas}
      /\ b.cut \in BOOLEAN /\ b.closed \in BOOLEAN /\ b.newline \in BOOLEAN
      /\ b.end = "final" => b.pieces \in {0, Len(Answer)}
  BY DEF Bodies
<1>2. b.empty = FALSE
  BY <1>1, AnswerAssumption
<1>3. Len(Answer) \in Nat /\ b.pieces \in Nat
  BY <1>1, AnswerAssumption
<1> DEFINE deltas == [i \in 1 .. b.pieces |-> Delta(<<Answer[i]>>, i)]
           last == [event |-> b.end, data |-> [delta |-> <<>>, text |-> Answer]]
<1>4. Frames(b) = deltas \o <<>> \o <<last>>
  BY <1>2 DEF Frames
<1> HIDE DEF last
<1>5. /\ Len(deltas \o <<>> \o <<last>>) = b.pieces + 1
      /\ \A m \in 1 .. b.pieces : (deltas \o <<>> \o <<last>>)[m] = Delta(<<Answer[m]>>, m)
      /\ (deltas \o <<>> \o <<last>>)[b.pieces + 1] = last
  BY <1>3
<1> QED BY <1>1, <1>3, <1>4, <1>5 DEF last

\* What a daemon may send in a frame.
FrameSet == [event : {"delta", "final", "error"}, data : [delta : Seq(STRING), text : Seq(STRING)]]

\* The frames of any response are frames, of which there are at least one.
LEMMA FramesTyped ==
    ASSUME NEW b \in Bodies
    PROVE  /\ Frames(b) \in Seq(FrameSet) /\ Len(Frames(b)) \in 1 .. Len(Answer) + 2
           /\ b.cut \in BOOLEAN /\ b.closed \in BOOLEAN /\ b.newline \in BOOLEAN
<1>1. b.pieces \in Nat /\ Len(Answer) \in Nat /\ b.pieces <= Len(Answer) /\ b.end \in {"final", "error"}
      /\ b.cut \in BOOLEAN /\ b.closed \in BOOLEAN /\ b.newline \in BOOLEAN
  <2>1. b.pieces \in 0 .. Len(Answer) /\ b.end \in {"final", "error"}
        /\ b.cut \in BOOLEAN /\ b.closed \in BOOLEAN /\ b.newline \in BOOLEAN
    BY DEF Bodies
  <2>2. Len(Answer) \in Nat
    BY AnswerAssumption
  <2> QED BY <2>1, <2>2
<1>2. ASSUME NEW i \in 1 .. Len(Answer) PROVE Answer[i] \in STRING
  BY AnswerAssumption, ElementOfSeq
<1>3. ASSUME NEW i \in 0 .. Len(Answer) PROVE SubSeq(Answer, 1, i) \in Seq(STRING)
  BY <1>1, <1>2, <1>3, SubSeqProperties
<1> DEFINE deltas == [i \in 1 .. b.pieces |-> Delta(<<Answer[i]>>, i)]
           more == IF b.empty THEN <<Delta(<<>>, b.pieces)>> ELSE <<>>
           last == <<[event |-> b.end, data |-> [delta |-> <<>>, text |-> Answer]]>>
<1>4. deltas \in Seq(FrameSet) /\ Len(deltas) = b.pieces
  <2>1. ASSUME NEW i \in 1 .. b.pieces PROVE Delta(<<Answer[i]>>, i) \in FrameSet
    <3>1. i \in 1 .. Len(Answer) /\ i \in 0 .. Len(Answer)
      BY <1>1
    <3>2. <<Answer[i]>> \in Seq(STRING) /\ SubSeq(Answer, 1, i) \in Seq(STRING)
      BY <1>2, <1>3, <3>1
    <3> QED BY <3>2 DEF Delta, FrameSet
  <2>2. Len(deltas) = b.pieces
    BY <1>1
  <2>3. deltas \in [1 .. b.pieces -> FrameSet]
    BY <2>1
  <2> HIDE DEF deltas
  <2>4. deltas \in Seq(FrameSet)
    BY <1>1, <2>3, SeqDef
  <2> QED BY <2>2, <2>4
<1>5. more \in Seq(FrameSet) /\ Len(more) \in {0, 1}
  <2>1. SubSeq(Answer, 1, b.pieces) \in Seq(STRING) /\ <<>> \in Seq(STRING)
    BY <1>1, <1>3
  <2>2. Delta(<<>>, b.pieces) \in FrameSet
    BY <2>1 DEF Delta, FrameSet
  <2> HIDE DEF FrameSet
  <2>3. CASE b.empty
    BY <2>2, <2>3
  <2>4. CASE ~b.empty
    BY <2>4
  <2> QED BY <2>3, <2>4
<1>6. last \in Seq(FrameSet) /\ Len(last) = 1
  <2>1. [event |-> b.end, data |-> [delta |-> <<>>, text |-> Answer]] \in FrameSet
    BY <1>1, AnswerAssumption DEF FrameSet
  <2> HIDE DEF FrameSet
  <2> QED BY <2>1
<1>7. Frames(b) = deltas \o more \o last
  BY DEF Frames
<1> HIDE DEF deltas, more, last
<1>8. deltas \o more \in Seq(FrameSet) /\ Len(deltas \o more) = b.pieces + Len(more)
  BY <1>4, <1>5, ConcatProperties
<1>9. (deltas \o more) \o last \in Seq(FrameSet)
      /\ Len((deltas \o more) \o last) = Len(deltas \o more) + 1
  <2> DEFINE first == deltas \o more
  <2>1. first \in Seq(FrameSet)
    BY <1>8
  <2> HIDE DEF first
  <2>2. first \o last \in Seq(FrameSet) /\ Len(first \o last) = Len(first) + Len(last)
    BY <1>6, <2>1, ConcatProperties
  <2> QED BY <1>6, <2>2 DEF first
<1> QED BY <1>1, <1>5, <1>7, <1>8, <1>9

\* The lines of a response are those of its frames, one frame after the other.
LEMMA LinesSent ==
    ASSUME NEW b \in Bodies
    PROVE  /\ Count(b) \in Nat \ {0} /\ Len(Lines(b)) = Count(b) /\ DOMAIN Lines(b) = 1 .. Count(b)
           /\ \A k \in 1 .. Count(b) :
                Lines(b)[k] = Framed(Frames(b)[((k - 1) \div Width(b)) + 1], b.cut)[((k - 1) % Width(b)) + 1]
<1>1. Len(Frames(b)) \in Nat /\ Len(Frames(b)) >= 1 /\ b.cut \in BOOLEAN /\ b.closed \in BOOLEAN
  BY FramesTyped, AnswerAssumption
<1>2. Count(b) \in Nat \ {0}
  BY <1>1 DEF Count, Width
<1> DEFINE line(k) == Framed(Frames(b)[((k - 1) \div Width(b)) + 1], b.cut)[((k - 1) % Width(b)) + 1]
           total == Len(Frames(b)) * Width(b)
           all == [k \in 1 .. total |-> line(k)]
<1>3. total \in Nat /\ Count(b) <= total /\ Count(b) = total - (IF b.closed THEN 0 ELSE 1)
  <2>1. CASE b.cut
    BY <1>1, <2>1 DEF Count, Width
  <2>2. CASE ~b.cut
    BY <1>1, <2>2 DEF Count, Width
  <2> QED BY <2>1, <2>2
<1>4. Lines(b) = SubSeq(all, 1, Len(all) - (IF b.closed THEN 0 ELSE 1))
  BY DEF Lines, Width
<1> HIDE DEF line, total
<1>5. Len(all) = total
  BY <1>3
<1>6. Lines(b) = [k \in 1 .. Count(b) |-> all[k]]
  BY <1>2, <1>3, <1>4, <1>5
<1>7. \A k \in 1 .. Count(b) : all[k] = line(k)
  BY <1>2, <1>3
<1>8. Len(Lines(b)) = Count(b) /\ DOMAIN Lines(b) = 1 .. Count(b) /\ \A k \in 1 .. Count(b) : Lines(b)[k] = line(k)
  BY <1>2, <1>6, <1>7
<1> QED BY <1>2, <1>8 DEF line

\* What is needed most often of the two.
LEMMA Sizes ==
    ASSUME NEW b \in Bodies
    PROVE  /\ Count(b) \in Nat /\ Count(b) > 0 /\ b.cut \in BOOLEAN /\ b.closed \in BOOLEAN
           /\ Len(Frames(b)) \in Nat /\ Len(Frames(b)) >= 1
           /\ Width(b) \in {4, 5} /\ (b.cut => Width(b) = 5) /\ (~b.cut => Width(b) = 4)
<1>1. Count(b) \in Nat /\ Count(b) > 0
  BY LinesSent
<1>2. Len(Frames(b)) \in Nat /\ Len(Frames(b)) >= 1
  BY FramesTyped, AnswerAssumption
<1> QED BY <1>1, <1>2, FramesTyped DEF Width

\* Each frame has one of the three events.
LEMMA FrameSent ==
    ASSUME NEW b \in Bodies, NEW m \in 1 .. Len(Frames(b))
    PROVE  /\ Frames(b)[m] \in FrameSet
           /\ LET f == Frames(b)[m]
              IN  f.event \in {"delta", "final", "error"} /\ f = [event |-> f.event, data |-> f.data]
<1>1. Frames(b)[m] \in FrameSet
  BY FramesTyped, ElementOfSeq
<1> QED BY <1>1 DEF FrameSet

\* The lines of a frame, one by one.
LEMMA FrameLines ==
    ASSUME NEW f
    PROVE  /\ Framed(f, FALSE) = <<Event(f.event), Comment, Data(f.data, "whole"), Blank>>
           /\ Framed(f, TRUE) = <<Event(f.event), Comment, Data(f.data, "first"),
                                  Data(f.data, "second"), Blank>>
BY DEF Framed

\* All but the blank line of a frame make it.
LEMMA FrameFinished ==
    ASSUME NEW f, f = [event |-> f.event, data |-> f.data], NEW cut \in BOOLEAN
    PROVE  LET part == FieldOf(f, IF cut THEN 4 ELSE 3, cut)
           IN  part.seen = TRUE /\ Frame(part) = f
<1>1. CASE cut
  BY <1>1 DEF FieldOf, Frame, Parsed
<1>2. CASE ~cut
  BY <1>2 DEF FieldOf, Frame, Parsed
<1> QED BY <1>1, <1>2

\* One line of a frame, whatever the frame.
LEMMA ReadFrame ==
    ASSUME NEW f, f.event \in {"delta", "final", "error"}, f = [event |-> f.event, data |-> f.data],
           NEW cut \in BOOLEAN, NEW r \in 0 .. (IF cut THEN 4 ELSE 3), NEW fs
    PROVE  ReadLine([frames |-> fs, field |-> FieldOf(f, r, cut)], Framed(f, cut)[r + 1]) =
             IF r = IF cut THEN 4 ELSE 3 THEN [frames |-> Append(fs, f), field |-> NoField]
             ELSE [frames |-> fs, field |-> FieldOf(f, r + 1, cut)]
<1> DEFINE part == FieldOf(f, r, cut)
           acc == [frames |-> fs, field |-> part]
<1>0. part = [event |-> part.event, data |-> part.data, seen |-> part.seen]
  BY DEF FieldOf, NoField
<1>9. FieldOf(f, r, cut) = part
  OBVIOUS
<1>1. /\ ReadLine(acc, Event(f.event)) =
             [frames |-> fs, field |-> [event |-> f.event, data |-> part.data, seen |-> TRUE]]
      /\ ReadLine(acc, Comment) = acc
      /\ \A h : ReadLine(acc, Data(f.data, h)) =
             [frames |-> fs,
              field |-> [event |-> part.event, data |-> Append(part.data, <<f.data, h>>), seen |-> TRUE]]
      /\ ReadLine(acc, Blank) =
             [frames |-> IF part.seen THEN Append(fs, Frame(part)) ELSE fs, field |-> NoField]
  <2> HIDE DEF part
  <2>1. Blank # Comment /\ Event(f.event) # Blank /\ Event(f.event) # Comment
    BY DEF Blank, Comment, Event
  <2>2. \A h : Data(f.data, h) # Blank /\ Data(f.data, h) # Comment
    BY DEF Blank, Comment, Data
  <2>3. ReadLine(acc, Event(f.event)) =
          [frames |-> fs, field |-> [event |-> f.event, data |-> part.data, seen |-> TRUE]]
    <3>1. Event(f.event).field = "event" /\ Event(f.event).name = f.event
      BY DEF Event
    <3>2. ReadLine(acc, Event(f.event)) = [acc EXCEPT !.field.event = f.event, !.field.seen = TRUE]
      <4> HIDE DEF acc
      <4> QED BY <2>1, <3>1 DEF ReadLine
    <3> QED BY <1>0, <3>2
  <2>4. ReadLine(acc, Comment) = acc
    <3>1. Comment.field = "comment"
      BY DEF Comment
    <3> HIDE DEF acc
    <3> QED BY <2>1, <3>1 DEF ReadLine
  <2>5. ASSUME NEW h
        PROVE  ReadLine(acc, Data(f.data, h)) =
                 [frames |-> fs,
                  field |-> [event |-> part.event, data |-> Append(part.data, <<f.data, h>>), seen |-> TRUE]]
    <3>1. Data(f.data, h).field = "data" /\ Data(f.data, h).data = <<f.data, h>>
      BY DEF Data
    <3>2. ReadLine(acc, Data(f.data, h)) =
            [acc EXCEPT !.field.data = Append(@, <<f.data, h>>), !.field.seen = TRUE]
      <4> HIDE DEF acc
      <4> QED BY <2>2, <3>1 DEF ReadLine
    <3> QED BY <1>0, <3>2
  <2>6. ReadLine(acc, Blank) =
          [frames |-> IF part.seen THEN Append(fs, Frame(part)) ELSE fs, field |-> NoField]
    <3>1. Blank.field = "blank"
      BY DEF Blank
    <3>2. ReadLine(acc, Blank) =
            [frames |-> IF acc.field.seen THEN Append(acc.frames, Frame(acc.field)) ELSE acc.frames,
             field |-> NoField]
      <4> HIDE DEF acc
      <4> QED BY <2>1, <3>1 DEF ReadLine
    <3> QED BY <3>2
  <2> QED BY <2>3, <2>4, <2>5, <2>6
<1>2. CASE r = 0
  <2>1. Framed(f, cut)[r + 1] = Event(f.event)
    BY <1>2 DEF Framed
  <2>2. part.data = <<>> /\ FieldOf(f, r + 1, cut) = [event |-> f.event, data |-> <<>>, seen |-> TRUE]
    BY <1>2 DEF FieldOf, NoField
  <2>3. ReadLine(acc, Framed(f, cut)[r + 1]) = [frames |-> fs, field |-> FieldOf(f, r + 1, cut)]
    <3> HIDE DEF acc, part
    <3> QED BY <1>1, <2>1, <2>2
  <2> QED BY <1>2, <2>3
<1>3. CASE r = 1
  <2>1. Framed(f, cut)[r + 1] = Comment
    BY <1>3 DEF Framed
  <2>2. FieldOf(f, r + 1, cut) = part
    BY <1>3 DEF FieldOf
  <2> HIDE DEF part
  <2> QED BY <1>9, <1>1, <1>3, <2>1, <2>2
<1>4. CASE r = 2
  <2> DEFINE h == IF cut THEN "first" ELSE "whole"
  <2>1. Framed(f, cut)[r + 1] = Data(f.data, h)
    BY <1>4 DEF Framed
  <2>2. part.data = <<>> /\ part.event = f.event
        /\ FieldOf(f, r + 1, cut) = [event |-> f.event, data |-> <<<<f.data, h>>>>, seen |-> TRUE]
    BY <1>4 DEF FieldOf
  <2>3. Append(<<>>, <<f.data, h>>) = <<<<f.data, h>>>>
    OBVIOUS
  <2> HIDE DEF part, h
  <2> QED BY <1>9, <1>1, <1>4, <2>1, <2>2, <2>3
<1>5. CASE r = 3 /\ cut
  <2>1. Framed(f, cut)[r + 1] = Data(f.data, "second")
    BY <1>5 DEF Framed
  <2>2. part.data = <<<<f.data, "first">>>> /\ part.event = f.event
    BY <1>5 DEF FieldOf
  <2>3. FieldOf(f, r + 1, cut) =
          [event |-> f.event, data |-> <<<<f.data, "first">>, <<f.data, "second">>>>, seen |-> TRUE]
    BY <1>5 DEF FieldOf
  <2>4. ASSUME NEW u, NEW v PROVE Append(<<u>>, v) = <<u, v>>
    <3>1. <<u>> \in Seq({u, v}) /\ <<u, v>> \in Seq({u, v}) /\ Len(<<u>>) = 1 /\ Len(<<u, v>>) = 2
      OBVIOUS
    <3>2. /\ Append(<<u>>, v) \in Seq({u, v}) /\ Len(Append(<<u>>, v)) = 2
          /\ Append(<<u>>, v)[1] = u /\ Append(<<u>>, v)[2] = v
      BY <3>1, AppendProperties
    <3>3. \A i \in 1 .. 2 : Append(<<u>>, v)[i] = <<u, v>>[i]
      BY <3>2
    <3> DEFINE s == Append(<<u>>, v)
               t == <<u, v>>
    <3>4. /\ s \in Seq({u, v}) /\ t \in Seq({u, v}) /\ Len(s) = Len(t)
          /\ \A i \in 1 .. Len(s) : s[i] = t[i]
      BY <3>1, <3>2, <3>3
    <3>5. s = t
      <4> HIDE DEF s, t
      <4> QED BY <3>4, SeqEqual
    <3> QED BY <3>5
  <2>5. Append(part.data, <<f.data, "second">>) = <<<<f.data, "first">>, <<f.data, "second">>>>
    BY <2>2, <2>4
  <2>6. ReadLine(acc, Framed(f, cut)[r + 1]) = [frames |-> fs, field |-> FieldOf(f, r + 1, cut)]
    <3> HIDE DEF acc, part
    <3> QED BY <1>1, <2>1, <2>2, <2>3, <2>5
  <2>7. r # IF cut THEN 4 ELSE 3
    BY <1>5
  <2> HIDE DEF acc
  <2>8. ReadLine(acc, Framed(f, cut)[r + 1]) =
             IF r = IF cut THEN 4 ELSE 3 THEN [frames |-> Append(fs, f), field |-> NoField]
             ELSE [frames |-> fs, field |-> FieldOf(f, r + 1, cut)]
    BY <2>6, <2>7
  <2> QED BY <2>8 DEF acc
<1>6. CASE r = 3 /\ ~cut
  <2>1. Framed(f, cut)[r + 1] = Blank
    BY <1>6 DEF Framed
  <2>2. FieldOf(f, r, cut).seen /\ Frame(FieldOf(f, r, cut)) = f
    BY <1>6 DEF FieldOf, Frame, Parsed
  <2> QED BY <1>1, <1>6, <2>1, <2>2
<1>7. CASE r = 4
  <2>1. Framed(f, cut)[r + 1] = Blank
    BY <1>7 DEF Framed
  <2>2. FieldOf(f, r, cut).seen /\ Frame(FieldOf(f, r, cut)) = f
    BY <1>7 DEF FieldOf, Frame, Parsed
  <2> QED BY <1>1, <1>7, <2>1, <2>2
<1> QED BY <1>2, <1>3, <1>4, <1>5, <1>6, <1>7

\* Where a line is in its frame.
LEMMA InFrame ==
    ASSUME NEW k \in Nat, NEW w \in {4, 5}
    PROVE  /\ k \div w \in Nat /\ k % w \in 0 .. w - 1
           /\ k % w # w - 1 => (k + 1) % w = (k % w) + 1 /\ (k + 1) \div w = k \div w
           /\ k % w = w - 1 => (k + 1) % w = 0 /\ (k + 1) \div w = (k \div w) + 1
<1>1. CASE w = 4
  BY <1>1
<1>2. CASE w = 5
  BY <1>2
<1> QED BY <1>1, <1>2

\* Reading the next line of a response takes what there is of its frame one line further, and
\* yields the frame with its blank line.
LEMMA LineStep ==
    ASSUME NEW b \in Bodies, NEW k \in 0 .. Count(b) - 1, NEW fs
    PROVE  ReadLine([frames |-> fs, field |-> FieldAt(b, k)], Lines(b)[k + 1]) =
             [frames |-> IF (k + 1) % Width(b) = 0 THEN Append(fs, Frames(b)[(k \div Width(b)) + 1])
                         ELSE fs,
              field |-> FieldAt(b, k + 1)]
<1> DEFINE f == Frames(b)[(k \div Width(b)) + 1]
<1>0. k \in Nat /\ k + 1 \in 1 .. Count(b) /\ b.cut \in BOOLEAN
  BY Sizes
<1>1. f.event \in {"delta", "final", "error"} /\ f = [event |-> f.event, data |-> f.data]
  <2>1. (k \div Width(b)) + 1 \in 1 .. Len(Frames(b))
    <3>1. Count(b) = Len(Frames(b)) * Width(b) - (IF b.closed THEN 0 ELSE 1) /\ Len(Frames(b)) \in Nat /\ Len(Frames(b)) >= 1
      BY Sizes DEF Count
    <3>2. ASSUME NEW p \in Nat, k < p * 5 PROVE (k \div 5) + 1 \in 1 .. p
      BY <1>0, <3>2
    <3>3. ASSUME NEW p \in Nat, k < p * 4 PROVE (k \div 4) + 1 \in 1 .. p
      BY <1>0, <3>3
    <3>4. CASE b.cut
      <4>1. Width(b) = 5 /\ k < Len(Frames(b)) * 5
        BY <1>0, <3>1, <3>4, Sizes
      <4> QED BY <3>1, <3>2, <4>1
    <3>5. CASE ~b.cut
      <4>1. Width(b) = 4 /\ k < Len(Frames(b)) * 4
        BY <1>0, <3>1, <3>5, Sizes
      <4> QED BY <3>1, <3>3, <4>1
    <3> QED BY <3>4, <3>5
  <2> QED BY <2>1, FrameSent
<1> HIDE DEF f
<1>2. k \in Nat /\ k + 1 \in 1 .. Count(b) /\ b.cut \in BOOLEAN
  BY <1>0
<1>3. Lines(b)[k + 1] = Framed(f, b.cut)[(k % Width(b)) + 1]
  BY <1>2, LinesSent DEF f
<1> DEFINE r == k % Width(b)
<1>4. /\ r \in 0 .. Width(b) - 1 /\ Width(b) - 1 = IF b.cut THEN 4 ELSE 3
      /\ r # Width(b) - 1 => (k + 1) % Width(b) = r + 1 /\ (k + 1) \div Width(b) = k \div Width(b)
      /\ r = Width(b) - 1 => (k + 1) % Width(b) = 0
  <2> HIDE DEF r
  <2>1. Width(b) \in {4, 5} /\ Width(b) - 1 = IF b.cut THEN 4 ELSE 3
    BY Sizes DEF Width
  <2> QED BY <1>2, <2>1, InFrame DEF r
<1>5. FieldAt(b, k) = FieldOf(f, r, b.cut)
  BY DEF FieldAt, f
<1> HIDE DEF r
<1>6. ReadLine([frames |-> fs, field |-> FieldOf(f, r, b.cut)], Framed(f, b.cut)[r + 1]) =
             IF r = IF b.cut THEN 4 ELSE 3 THEN [frames |-> Append(fs, f), field |-> NoField]
             ELSE [frames |-> fs, field |-> FieldOf(f, r + 1, b.cut)]
  <2>1. r \in 0 .. (IF b.cut THEN 4 ELSE 3)
    BY <1>4
  <2> QED BY <1>1, <1>2, <2>1, ReadFrame
<1>7. CASE r = Width(b) - 1
  <2>1. (k + 1) % Width(b) = 0 /\ FieldAt(b, k + 1) = NoField
    BY <1>4, <1>7 DEF FieldAt, FieldOf
  <2> QED BY <1>3, <1>4, <1>5, <1>6, <1>7, <2>1 DEF f, r
<1>8. CASE r # Width(b) - 1
  <2>1. (k + 1) % Width(b) = r + 1 /\ FieldAt(b, k + 1) = FieldOf(f, r + 1, b.cut)
    BY <1>4, <1>8 DEF FieldAt, f
  <2>2. (k + 1) % Width(b) # 0
    BY <1>4, <2>1, Sizes
  <2> QED BY <1>3, <1>4, <1>5, <1>6, <1>8, <2>1, <2>2 DEF f, r
<1> QED BY <1>7, <1>8

\* The frames after the first a, up to the c-th.
Span(b, a, c) == [i \in 1 .. c - a |-> Frames(b)[a + i]]

\* The frames from one place to another: how many, which, and that the next one lengthens them.
LEMMA SpanGrows ==
    ASSUME NEW b, NEW a \in Nat, NEW c \in Nat, a <= c
    PROVE  /\ Append(Span(b, a, c), Frames(b)[c + 1]) = Span(b, a, c + 1)
           /\ Span(b, a, a) = <<>> /\ Len(Span(b, a, c)) = c - a /\ DOMAIN Span(b, a, c) = 1 .. c - a
           /\ \A i \in 1 .. c - a : Span(b, a, c)[i] = Frames(b)[a + i]
<1> DEFINE s == Span(b, a, c)
           t == Span(b, a, c + 1)
<1>1. Len(s) = c - a /\ Len(t) = c - a + 1 /\ c - a \in Nat /\ DOMAIN s = 1 .. c - a
  BY DEF Span
<1>2. Span(b, a, a) = <<>>
  BY DEF Span
<1>3. Append(s, Frames(b)[c + 1]) = t
  BY <1>1 DEF Span
<1> QED BY <1>1, <1>2, <1>3 DEF Span

\* Frames of the response are frames.
LEMMA SpanTyped ==
    ASSUME NEW b \in Bodies, NEW a \in Nat, NEW c \in Nat, a <= c, c <= Len(Frames(b))
    PROVE  /\ Span(b, a, c) \in Seq(FrameSet)
           /\ \A i \in 1 .. c - a : Span(b, a, c)[i] \in FrameSet
<1>1. ASSUME NEW i \in 1 .. c - a PROVE Span(b, a, c)[i] \in FrameSet
  <2>1. a + i \in 1 .. Len(Frames(b))
    <3>1. Len(Frames(b)) \in Nat
      BY Sizes
    <3> QED BY <3>1
  <2>2. Span(b, a, c)[i] = Frames(b)[a + i]
    BY SpanGrows
  <2> QED BY <2>1, <2>2, FrameSent
<1>2. c - a \in Nat /\ Span(b, a, c) = [i \in 1 .. c - a |-> Span(b, a, c)[i]]
  BY DEF Span
<1>3. Span(b, a, c) \in [1 .. c - a -> FrameSet]
  BY <1>1, <1>2
<1> QED BY <1>1, <1>2, <1>3, SeqDef

\* Complete lines are read to complete frames, and what is left is the frame under way.
LEMMA ReadAll ==
    ASSUME NEW b \in Bodies, NEW k \in 0 .. Count(b), NEW q \in 0 .. Count(b) - k,
           field = FieldAt(b, k), NEW lines, DOMAIN lines = 1 .. q,
           \A i \in 1 .. q : lines[i] = Lines(b)[k + i]
    PROVE  ReadLines(lines) = [frames |-> Span(b, k \div Width(b), (k + q) \div Width(b)),
                               field |-> FieldAt(b, k + q)]
<1> DEFINE w == Width(b)
           Result(j) == [frames |-> Span(b, k \div w, (k + j) \div w), field |-> FieldAt(b, k + j)]
<1>1. Count(b) \in Nat /\ w \in {4, 5} /\ k \in Nat /\ q \in Nat /\ k + q <= Count(b)
  BY Sizes
<1>2. PICK R : /\ R[0] = [frames |-> <<>>, field |-> field] /\ R[q] = ReadLines(lines)
               /\ \A j \in 0 .. q - 1 : R[j + 1] = ReadLine(R[j], lines[j + 1])
  BY <1>1, LinesInTurn
<1> DEFINE T == {j \in Nat : j <= q => R[j] = Result(j)}
<1>3. 0 \in T
  <2>1. k \div w \in Nat
    BY <1>1, InFrame
  <2>2. Span(b, k \div w, k \div w) = <<>>
    BY <2>1, SpanGrows
  <2>3. k + 0 = k
    BY <1>1
  <2> QED BY <1>2, <2>2, <2>3
<1>4. ASSUME NEW j \in T PROVE j + 1 \in T
  <2>1. CASE ~(j + 1 <= q)
    BY <2>1
  <2>2. CASE j + 1 <= q
    <3>1. /\ j \in Nat /\ j \in 0 .. q - 1 /\ j <= q /\ k + j \in Nat /\ k + j \in 0 .. Count(b) - 1
          /\ j + 1 \in 1 .. q /\ k + (j + 1) = (k + j) + 1
      BY <1>1, <2>2
    <3>2. R[j] = Result(j)
      BY <3>1
    <3>3. R[j + 1] = ReadLine(Result(j), Lines(b)[(k + j) + 1])
      BY <1>2, <3>1, <3>2
    <3> DEFINE fs == Span(b, k \div w, (k + j) \div w)
               f == Frames(b)[((k + j) \div w) + 1]
    <3>4. ReadLine(Result(j), Lines(b)[(k + j) + 1]) =
            [frames |-> IF ((k + j) + 1) % w = 0 THEN Append(fs, f) ELSE fs, field |-> FieldAt(b, (k + j) + 1)]
      <4> HIDE DEF fs
      <4>1. Result(j) = [frames |-> fs, field |-> FieldAt(b, k + j)]
        BY DEF fs
      <4> HIDE DEF Result
      <4> QED BY <3>1, <4>1, LineStep
    <3>5. (IF ((k + j) + 1) % w = 0 THEN Append(fs, f) ELSE fs) = Span(b, k \div w, ((k + j) + 1) \div w)
      <4>1. k \div w \in Nat /\ (k + j) \div w \in Nat /\ k \div w <= (k + j) \div w
        <5>1. CASE w = 4
          BY <1>1, <3>1, <5>1
        <5>2. CASE w = 5
          BY <1>1, <3>1, <5>2
        <5> QED BY <1>1, <5>1, <5>2
      <4>2. CASE (k + j) % w = w - 1
        <5>1. ((k + j) + 1) % w = 0 /\ ((k + j) + 1) \div w = ((k + j) \div w) + 1
          BY <1>1, <3>1, <4>2, InFrame
        <5> DEFINE a == k \div w
                   c == (k + j) \div w
        <5>2. a \in Nat /\ c \in Nat /\ a <= c
          BY <4>1
        <5>3. Append(Span(b, a, c), Frames(b)[c + 1]) = Span(b, a, c + 1)
          <6> HIDE DEF a, c
          <6> QED BY <5>2, SpanGrows
        <5> QED BY <5>1, <5>3
      <4>3. CASE (k + j) % w # w - 1
        <5>1. ((k + j) + 1) % w # 0 /\ ((k + j) + 1) \div w = (k + j) \div w
          <6> HIDE DEF w
          <6>1. (k + j) % w \in 0 .. w - 1 /\ ((k + j) + 1) % w = ((k + j) % w) + 1
                /\ ((k + j) + 1) \div w = (k + j) \div w
            BY <1>1, <3>1, <4>3, InFrame
          <6> QED BY <1>1, <6>1
        <5> QED BY <5>1
      <4> QED BY <4>2, <4>3
    <3>6. R[j + 1] = Result(j + 1)
      <4> HIDE DEF fs, f
      <4> QED BY <3>1, <3>3, <3>4, <3>5
    <3> QED BY <3>6
  <2> QED BY <2>1, <2>2
<1>5. q \in T
  <2> HIDE DEF T
  <2>1. T = Nat
    <3>1. T \in SUBSET Nat
      BY DEF T
    <3> QED BY <1>3, <1>4, <3>1, SetInduction
  <2> QED BY <1>1, <2>1
<1> QED BY <1>1, <1>2, <1>5

\* The chat log and the final holder after m frames.
Talk(b, m) ==
    IF m <= b.pieces THEN [started |-> m > 0, said |-> SubSeq(Answer, 1, m), held |-> "nothing"]
    ELSE IF b.end = "final" THEN [started |-> Answer # <<>>, said |-> Answer, held |-> "result"]
    ELSE [started |-> b.pieces > 0, said |-> SubSeq(Answer, 1, b.pieces), held |-> "error"]

\* Text passed to the chat log begins the answer if it is not empty.
LEMMA Spoken ==
    ASSUME NEW s, NEW begun \in BOOLEAN, NEW text, NEW v \in BOOLEAN, v <=> begun \/ text # <<>>
    PROVE  Speak([started |-> begun, said |-> s, held |-> "nothing"], text) =
             [started |-> v, said |-> s \o text, held |-> "nothing"]
<1> DEFINE acc == [started |-> begun, said |-> s, held |-> "nothing"]
<1>1. acc.said = s /\ acc.held = "nothing"
  OBVIOUS
<1>2. (acc.started \/ text # <<>>) = v
  <2>1. CASE begun = TRUE
    <3>1. acc = [started |-> TRUE, said |-> s, held |-> "nothing"]
      BY <2>1
    <3> HIDE DEF acc
    <3> QED BY <2>1, <3>1
  <2>2. CASE begun = FALSE
    <3>1. acc = [started |-> FALSE, said |-> s, held |-> "nothing"]
      BY <2>2
    <3> HIDE DEF acc
    <3> QED BY <2>2, <3>1
  <2> QED BY <2>1, <2>2
<1> HIDE DEF acc
<1>3. Speak(acc, text) = [started |-> v, said |-> s \o text, held |-> "nothing"]
  <2> DEFINE x == acc.started \/ text # <<>>
  <2>1. Speak(acc, text) = [started |-> x, said |-> acc.said \o text, held |-> acc.held]
    BY DEF Speak
  <2> HIDE DEF x
  <2>2. x = v
    BY <1>2 DEF x
  <2> QED BY <1>1, <2>1, <2>2
<1> QED BY <1>3 DEF acc

\* Passing the next frame on says what the frames up to it say.
LEMMA FrameStep ==
    ASSUME ~EmptyDeltas, NEW b \in Bodies, NEW m \in 0 .. b.pieces
    PROVE  PassOn(Talk(b, m), Frames(b)[m + 1]) = Talk(b, m + 1)
<1> DEFINE n == b.pieces
<1>0. n \in Nat /\ Len(Answer) \in Nat /\ n \in 0 .. Len(Answer)
  BY FramesSent
<1>1. n \in Nat /\ Len(Answer) \in Nat /\ n <= Len(Answer) /\ m \in Nat /\ m <= n /\ Answer \in Seq(STRING)
  BY <1>0, AnswerAssumption
<1>2. Talk(b, m) = [started |-> m > 0, said |-> SubSeq(Answer, 1, m), held |-> "nothing"]
  BY <1>1 DEF Talk
<1> DEFINE acc == [started |-> m > 0, said |-> SubSeq(Answer, 1, m), held |-> "nothing"]
<1>3. CASE m < n
  <2> DEFINE f == [event |-> "delta", data |-> [delta |-> <<Answer[m + 1]>>, text |-> SubSeq(Answer, 1, m + 1)]]
  <2>1. Frames(b)[m + 1] = f
    <3>1. m + 1 \in 1 .. b.pieces
      BY <1>1, <1>3
    <3>2. Frames(b)[m + 1] = Delta(<<Answer[m + 1]>>, m + 1)
      BY <3>1, FramesSent
    <3> QED BY <3>2 DEF Delta
  <2>2. PassOn(acc, f) = Speak(acc, <<Answer[m + 1]>>)
    <3>1. PassOn(acc, f) = Speak(acc, DeltaText(f.data))
      BY DEF PassOn
    <3>2. DeltaText(f.data) = <<Answer[m + 1]>>
      BY DEF DeltaText
    <3> QED BY <3>1, <3>2
  <2>3. SubSeq(Answer, 1, m) \o <<Answer[m + 1]>> = SubSeq(Answer, 1, m + 1)
    BY <1>1, <1>3, SubSeqRecursiveSecond
  <2>4. Talk(b, m + 1) = [started |-> m + 1 > 0, said |-> SubSeq(Answer, 1, m + 1), held |-> "nothing"]
    BY <1>1, <1>3 DEF Talk
  <2>5. Speak(acc, <<Answer[m + 1]>>) = [started |-> TRUE, said |-> SubSeq(Answer, 1, m + 1), held |-> "nothing"]
    <3> DEFINE begun == m > 0
               text == <<Answer[m + 1]>>
    <3>1. begun \in BOOLEAN /\ (TRUE <=> begun \/ text # <<>>)
      OBVIOUS
    <3> HIDE DEF begun, text
    <3>2. Speak([started |-> begun, said |-> SubSeq(Answer, 1, m), held |-> "nothing"], text) =
            [started |-> TRUE, said |-> SubSeq(Answer, 1, m) \o text, held |-> "nothing"]
      BY <3>1, Spoken
    <3> QED BY <2>3, <3>2 DEF begun, text
  <2>6. m + 1 > 0
    BY <1>1
  <2> HIDE DEF f
  <2> QED BY <1>2, <2>1, <2>2, <2>4, <2>5, <2>6
<1>4. CASE m = n
  <2>1. Frames(b)[m + 1] = [event |-> b.end, data |-> [delta |-> <<>>, text |-> Answer]]
        /\ b.end \in {"final", "error"} /\ (b.end = "final" => n \in {0, Len(Answer)})
    BY <1>4, FramesSent
  <2>2. ~(m + 1 <= n)
    BY <1>1, <1>4
  <2>3. CASE b.end = "error"
    <3>1. PassOn(acc, Frames(b)[m + 1]) = [acc EXCEPT !.held = "error"]
      BY <2>1, <2>3 DEF PassOn
    <3> QED BY <1>2, <1>4, <2>2, <2>3, <3>1 DEF Talk
  <2>4. CASE b.end = "final"
    <3> DEFINE text == IF m > 0 THEN <<>> ELSE Answer
    <3>1. PassOn(acc, Frames(b)[m + 1]) = [Speak(acc, text) EXCEPT !.held = "result"]
      <4> DEFINE f == [event |-> "final", data |-> [delta |-> <<>>, text |-> Answer]]
      <4>1. PassOn(acc, f) = [Speak(acc, FinalText(acc, f.data)) EXCEPT !.held = "result"]
        BY DEF PassOn
      <4>2. FinalText(acc, f.data) = text
        BY DEF FinalText
      <4>3. Frames(b)[m + 1] = f
        BY <2>1, <2>4
      <4> QED BY <4>1, <4>2, <4>3
    <3>2. SubSeq(Answer, 1, m) \o text = Answer
      <4>1. CASE m = 0
        <5>1. SubSeq(Answer, 1, m) = <<>>
          BY <4>1, SubSeqEmpty
        <5> QED BY <1>1, <4>1, <5>1, ConcatEmptySeq
      <4>2. CASE m # 0
        <5>1. m = Len(Answer) /\ text = <<>>
          BY <1>1, <1>4, <2>1, <2>4, <4>2
        <5>2. SubSeq(Answer, 1, m) = Answer
          BY <1>1, <5>1, SubSeqFull
        <5> QED BY <1>1, <5>1, <5>2, ConcatEmptySeq
      <4> QED BY <4>1, <4>2
    <3>3. ((m > 0) \/ text # <<>>) = (Answer # <<>>)
      <4>1. CASE m = 0
        BY <4>1
      <4>2. CASE m # 0
        <5>1. m = Len(Answer) /\ m > 0
          BY <1>1, <1>4, <2>1, <2>4, <4>2
        <5>2. Answer # <<>>
          BY <1>1, <5>1, EmptySeq
        <5> QED BY <5>1, <5>2
      <4> QED BY <4>1, <4>2
    <3>4. Speak(acc, text) = [started |-> Answer # <<>>, said |-> Answer, held |-> "nothing"]
      <4> DEFINE begun == m > 0
                 some == Answer # <<>>
      <4>1. begun \in BOOLEAN /\ some \in BOOLEAN /\ (some <=> begun \/ text # <<>>)
        BY <3>3
      <4> HIDE DEF begun, text, some
      <4>2. Speak([started |-> begun, said |-> SubSeq(Answer, 1, m), held |-> "nothing"], text) =
              [started |-> some, said |-> SubSeq(Answer, 1, m) \o text, held |-> "nothing"]
        BY <4>1, Spoken
      <4> QED BY <3>2, <4>2 DEF begun, some
    <3>5. PassOn(acc, Frames(b)[m + 1]) = [started |-> Answer # <<>>, said |-> Answer, held |-> "result"]
      <4> DEFINE some == Answer # <<>>
                 spoken == Speak(acc, text)
      <4>1. spoken = [started |-> some, said |-> Answer, held |-> "nothing"]
        BY <3>4
      <4>2. PassOn(acc, Frames(b)[m + 1]) = [spoken EXCEPT !.held = "result"]
        BY <3>1
      <4> HIDE DEF some, spoken
      <4>3. PassOn(acc, Frames(b)[m + 1]) = [started |-> some, said |-> Answer, held |-> "result"]
        BY <4>1, <4>2
      <4> QED BY <4>3 DEF some
    <3>6. Talk(b, m + 1) = [started |-> Answer # <<>>, said |-> Answer, held |-> "result"]
      BY <2>2, <2>4 DEF Talk
    <3> QED BY <1>2, <3>5, <3>6
  <2> QED BY <2>1, <2>3, <2>4
<1> QED BY <1>1, <1>3, <1>4

\* The frames after the first a say what is said after c frames.
LEMMA PassAll ==
    ASSUME ~EmptyDeltas, NEW b \in Bodies, NEW a \in Nat, NEW c \in Nat, a <= c, c <= b.pieces + 1,
           [started |-> started, said |-> said, held |-> held] = Talk(b, a), Pass(Span(b, a, c))
    PROVE  started' = Talk(b, c).started /\ said' = Talk(b, c).said /\ held' = Talk(b, c).held
<1> DEFINE n == c - a
<1>1. n \in Nat /\ a + n = c /\ b.pieces \in Nat
  <2>1. b.pieces \in Nat
    BY FramesSent
  <2>2. n \in Nat /\ a + n = c
    OBVIOUS
  <2> QED BY <2>1, <2>2
<1>2. DOMAIN Span(b, a, c) = 1 .. n /\ \A i \in 1 .. n : Span(b, a, c)[i] = Frames(b)[a + i]
  BY SpanGrows
<1> HIDE DEF n
<1>3. PICK P : /\ P[0] = [started |-> started, said |-> said, held |-> held]
               /\ started' = P[n].started /\ said' = P[n].said /\ held' = P[n].held
               /\ \A k \in 0 .. n - 1 : P[k + 1] = PassOn(P[k], Span(b, a, c)[k + 1])
  <2> DEFINE frames == Span(b, a, c)
  <2>1. DOMAIN frames = 1 .. n /\ Pass(frames)
    BY <1>2
  <2> HIDE DEF frames
  <2>2. \E P : /\ P[0] = [started |-> started, said |-> said, held |-> held]
               /\ started' = P[n].started /\ said' = P[n].said /\ held' = P[n].held
               /\ \A k \in 0 .. n - 1 : P[k + 1] = PassOn(P[k], frames[k + 1])
    BY <1>1, <2>1, FramesInTurn
  <2> QED BY <2>2 DEF frames
<1> DEFINE T == {j \in Nat : j <= n => P[j] = Talk(b, a + j)}
<1>4. 0 \in T
  BY <1>3
<1>5. ASSUME NEW j \in T PROVE j + 1 \in T
  <2>1. CASE ~(j + 1 <= n)
    BY <2>1
  <2>2. CASE j + 1 <= n
    <3>1. /\ j \in Nat /\ j \in 0 .. n - 1 /\ j <= n /\ j + 1 \in 1 .. n
          /\ a + j \in 0 .. b.pieces /\ a + (j + 1) = (a + j) + 1
      BY <1>1, <2>2
    <3>2. P[j + 1] = PassOn(Talk(b, a + j), Frames(b)[(a + j) + 1])
      <4>1. P[j] = Talk(b, a + j) /\ Span(b, a, c)[j + 1] = Frames(b)[a + (j + 1)]
        BY <1>2, <3>1
      <4> QED BY <1>3, <3>1, <4>1
    <3>3. P[j + 1] = Talk(b, (a + j) + 1)
      BY <3>1, <3>2, FrameStep
    <3> QED BY <3>1, <3>3
  <2> QED BY <2>1, <2>2
<1>6. n \in T
  <2> HIDE DEF T
  <2>1. T = Nat
    <3>1. T \in SUBSET Nat
      BY DEF T
    <3> QED BY <1>4, <1>5, <3>1, SetInduction
  <2> QED BY <1>1, <2>1
<1> QED BY <1>1, <1>3, <1>6

\* Whatever is passed on, the chat log keeps its type.
Typed(acc) ==
    /\ acc = [started |-> acc.started, said |-> acc.said, held |-> acc.held]
    /\ acc.started \in BOOLEAN /\ acc.said \in Seq(STRING) /\ acc.held \in {"nothing", "result", "error"}

\* Passing a frame on keeps the types of what is said and held.
LEMMA PassTyped ==
    ASSUME NEW acc, Typed(acc), NEW frame \in FrameSet
    PROVE  Typed(PassOn(acc, frame))
<1>1. frame.event \in {"delta", "final", "error"} /\ frame.data.delta \in Seq(STRING)
      /\ frame.data.text \in Seq(STRING)
  BY DEF FrameSet
<1>2. ASSUME NEW text \in Seq(STRING) PROVE Typed(Speak(acc, text))
  <2>1. acc.said \o text \in Seq(STRING)
    BY <1>2, ConcatProperties DEF Typed
  <2> DEFINE x == acc.started \/ text # <<>>
  <2>2. x \in BOOLEAN
    OBVIOUS
  <2>3. Speak(acc, text) = [started |-> x, said |-> acc.said \o text, held |-> acc.held]
    BY DEF Speak
  <2> HIDE DEF x
  <2> QED BY <2>1, <2>2, <2>3 DEF Typed
<1>3. ASSUME NEW a, Typed(a), NEW h \in {"result", "error"} PROVE Typed([a EXCEPT !.held = h])
  BY <1>3 DEF Typed
<1>4. CASE acc.held = "error"
  BY <1>4 DEF PassOn
<1>5. CASE acc.held # "error"
  <2>1. CASE frame.event = "delta"
    <3>1. DeltaText(frame.data) \in Seq(STRING)
      BY <1>1 DEF DeltaText
    <3>2. PassOn(acc, frame) = Speak(acc, DeltaText(frame.data))
      BY <1>5, <2>1 DEF PassOn
    <3> QED BY <1>2, <3>1, <3>2
  <2>2. CASE frame.event = "final"
    <3>1. FinalText(acc, frame.data) \in Seq(STRING)
      <4>1. <<>> \in Seq(STRING)
        OBVIOUS
      <4>2. CASE acc.started
        BY <4>1, <4>2 DEF FinalText
      <4>3. CASE ~acc.started
        BY <1>1, <4>3 DEF FinalText
      <4> QED BY <4>2, <4>3
    <3>2. PassOn(acc, frame) = [Speak(acc, FinalText(acc, frame.data)) EXCEPT !.held = "result"]
      BY <1>5, <2>2 DEF PassOn
    <3> QED BY <1>2, <1>3, <3>1, <3>2
  <2>3. CASE frame.event = "error"
    <3>1. PassOn(acc, frame) = [acc EXCEPT !.held = "error"]
      BY <1>5, <2>3 DEF PassOn
    <3> QED BY <1>3, <3>1
  <2> QED BY <1>1, <2>1, <2>2, <2>3
<1> QED BY <1>4, <1>5

\* So does passing on any number of frames.
LEMMA PassAllTyped ==
    ASSUME NEW n \in Nat, NEW frames, DOMAIN frames = 1 .. n, \A i \in 1 .. n : frames[i] \in FrameSet,
           started \in BOOLEAN, said \in Seq(STRING), held \in {"nothing", "result", "error"}, Pass(frames)
    PROVE  started' \in BOOLEAN /\ said' \in Seq(STRING) /\ held' \in {"nothing", "result", "error"}
<1>1. PICK P : /\ P[0] = [started |-> started, said |-> said, held |-> held]
               /\ started' = P[n].started /\ said' = P[n].said /\ held' = P[n].held
               /\ \A k \in 0 .. n - 1 : P[k + 1] = PassOn(P[k], frames[k + 1])
  BY FramesInTurn
<1> DEFINE T == {j \in Nat : j <= n => Typed(P[j])}
<1>2. 0 \in T
  BY <1>1 DEF Typed
<1>3. ASSUME NEW j \in T PROVE j + 1 \in T
  <2>1. CASE ~(j + 1 <= n)
    BY <2>1
  <2>2. CASE j + 1 <= n
    <3>1. j \in Nat /\ j \in 0 .. n - 1 /\ j <= n /\ j + 1 \in 1 .. n
      BY <2>2
    <3>2. Typed(P[j]) /\ frames[j + 1] \in FrameSet /\ P[j + 1] = PassOn(P[j], frames[j + 1])
      BY <1>1, <3>1
    <3>3. Typed(P[j + 1])
      BY <3>2, PassTyped
    <3> QED BY <3>1, <3>3
  <2> QED BY <2>1, <2>2
<1>4. n \in T
  <2> HIDE DEF T
  <2>1. T = Nat
    <3>1. T \in SUBSET Nat
      BY DEF T
    <3> QED BY <1>2, <1>3, <3>1, SetInduction
  <2> QED BY <2>1
<1>5. Typed(P[n])
  BY <1>4
<1> QED BY <1>1, <1>5 DEF Typed

Kind(b, i) == IF i % 2 = 1 THEN "head" ELSE IF i = 2 * Count(b) /\ ~b.newline THEN "bare" ELSE "rest"
HalfSet(b) == {Halves(b)[i] : i \in 1 .. 2 * Count(b)}

\* The halves of a response: two of each line, the second with its newline but for the last one's.
LEMMA HalvesSent ==
    ASSUME NEW b \in Bodies
    PROVE  /\ Halves(b) \in Seq(HalfSet(b)) /\ Len(Halves(b)) = 2 * Count(b)
           /\ \A i \in 1 .. 2 * Count(b) : Halves(b)[i] = <<Lines(b)[(i + 1) \div 2], Kind(b, i)>>
<1>1. 2 * Count(b) \in Nat /\ Len(Lines(b)) = Count(b)
  BY Sizes, LinesSent
<1>2. Halves(b) = [i \in 1 .. 2 * Count(b) |-> <<Lines(b)[(i + 1) \div 2], Kind(b, i)>>]
  BY <1>1 DEF Halves, Kind
<1>3. Halves(b) \in [1 .. 2 * Count(b) -> HalfSet(b)]
  BY <1>2 DEF HalfSet
<1>4. Halves(b) \in Seq(HalfSet(b))
  BY <1>1, <1>3, SeqDef
<1> QED BY <1>1, <1>2, <1>4

\* The halves with a newline.
Newlines(bytes) == {i \in DOMAIN bytes : bytes[i][2] = "rest"}

\* How many lines are completed by the halves after the first k lines, up to the n-th half.
Completed(b, k, n) == ((n - 2 * k) \div 2) - (IF n = 2 * Count(b) /\ ~b.newline THEN 1 ELSE 0)

\* The halves from there on hold q whole lines, and what is left of them is less than a line that
\* could still be completed.
Holds(b, k, n, bytes, q) ==
    /\ q \in Nat /\ k + q <= Count(b) /\ 2 * (k + q) <= n
    /\ Cardinality(Newlines(bytes)) = q
    /\ \A i \in 1 .. q : bytes[2 * i][1] = Lines(b)[k + i]
    /\ SubSeq(bytes, 2 * q + 1, Len(bytes)) = SubSeq(Halves(b), 2 * (k + q) + 1, n)
    /\ \/ n <= 2 * (k + q) + 1 /\ (k + q = Count(b) => b.newline)
       \/ n = 2 * Count(b) /\ k + q + 1 = Count(b) /\ ~b.newline

\* The halves between two lines are whole lines, and read as those lines.
LEMMA WholeLines ==
    ASSUME NEW b \in Bodies, NEW k \in Nat, NEW n \in 0 .. 2 * Count(b), 2 * k < n,
           NEW bytes, bytes = SubSeq(Halves(b), 2 * k + 1, n)
    PROVE  Holds(b, k, n, bytes, Completed(b, k, n))
<1> DEFINE q == Completed(b, k, n)
<1>1. Count(b) \in Nat /\ n \in Nat /\ n <= 2 * Count(b) /\ b.newline \in BOOLEAN
  BY Sizes, FramesTyped
<1>2. /\ q \in Nat /\ k + q <= Count(b) /\ 2 * (k + q) <= n
      /\ \/ n <= 2 * (k + q) + 1 /\ (k + q = Count(b) => b.newline)
         \/ n = 2 * Count(b) /\ k + q + 1 = Count(b) /\ ~b.newline
  <2> DEFINE h == (n - 2 * k) \div 2
  <2>1. h \in Nat /\ 2 * h <= n - 2 * k /\ n - 2 * k <= 2 * h + 1 /\ k + h <= Count(b)
    BY <1>1
  <2>2. q = h - (IF n = 2 * Count(b) /\ ~b.newline THEN 1 ELSE 0)
    BY DEF Completed
  <2> HIDE DEF h, q
  <2>3. CASE n = 2 * Count(b) /\ ~b.newline
    <3>0. q = h - 1
      BY <2>2, <2>3
    <3>1. k + h = Count(b) /\ h > 0 /\ q = h - 1
      <4> DEFINE c == Count(b)
      <4>1. c \in Nat /\ n = 2 * c /\ n - 2 * k <= 2 * h + 1 /\ k + h <= c /\ h \in Nat
        BY <1>1, <2>1, <2>3
      <4> HIDE DEF c
      <4>2. k + h = c
        BY <4>1
      <4>3. h > 0
        BY <4>1, <4>2
      <4> QED BY <3>0, <4>2, <4>3 DEF c
    <3> QED BY <1>1, <2>1, <2>3, <3>1
  <2>4. CASE ~(n = 2 * Count(b) /\ ~b.newline)
    <3>1. q = h
      BY <2>2, <2>4, <2>1
    <3> QED BY <1>1, <2>1, <2>4, <3>1
  <2> QED BY <2>3, <2>4
<1>3. Len(bytes) = n - 2 * k /\ DOMAIN bytes = 1 .. n - 2 * k
      /\ \A i \in 1 .. n - 2 * k :
            bytes[i][1] = Lines(b)[(2 * k + i + 1) \div 2] /\ bytes[i][2] = Kind(b, 2 * k + i)
  <2>1. \A i \in 2 * k + 1 .. n : Halves(b)[i] \in HalfSet(b)
    BY <1>1, HalvesSent, ElementOfSeq
  <2>2. /\ bytes \in Seq(HalfSet(b))
        /\ Len(bytes) = n - (2 * k + 1) + 1
        /\ \A i \in 1 .. n - (2 * k + 1) + 1 : bytes[i] = Halves(b)[(2 * k + 1) + i - 1]
    BY <1>1, <2>1, SubSeqProperties
  <2>3. Len(bytes) = n - 2 * k /\ DOMAIN bytes = 1 .. n - 2 * k
    BY <1>1, <2>2, LenProperties
  <2>4. ASSUME NEW i \in 1 .. n - 2 * k
        PROVE  bytes[i][1] = Lines(b)[(2 * k + i + 1) \div 2] /\ bytes[i][2] = Kind(b, 2 * k + i)
    <3>1. 2 * k + i \in 1 .. 2 * Count(b) /\ (2 * k + 1) + i - 1 = 2 * k + i
          /\ i \in 1 .. n - (2 * k + 1) + 1
      BY <1>1
    <3>2. bytes[i] = <<Lines(b)[(2 * k + i + 1) \div 2], Kind(b, 2 * k + i)>>
      BY <2>2, <3>1, HalvesSent
    <3> QED BY <3>2
  <2> QED BY <2>3, <2>4
<1>4. \A i \in 1 .. q : bytes[2 * i][1] = Lines(b)[k + i]
  <2>1. ASSUME NEW i \in 1 .. q PROVE bytes[2 * i][1] = Lines(b)[k + i]
    <3>1. 2 * i \in 1 .. n - 2 * k /\ (2 * k + 2 * i + 1) \div 2 = k + i
      <4> HIDE DEF q
      <4> QED BY <1>1, <1>2
    <3> QED BY <1>3, <3>1
  <2> QED BY <2>1
<1>5. Cardinality(Newlines(bytes)) = q
  <2> DEFINE S == {i \in DOMAIN bytes : bytes[i][2] = "rest"}
             f == [j \in 1 .. q |-> 2 * j]
  <2>1. S = {2 * j : j \in 1 .. q}
    <3>1. ASSUME NEW i \in 1 .. n - 2 * k
          PROVE  bytes[i][2] = "rest" <=> \E j \in 1 .. q : i = 2 * j
      <4>1. bytes[i][2] = Kind(b, 2 * k + i)
        BY <1>3
      <4>2. Kind(b, 2 * k + i) = "rest" <=>
               (2 * k + i) % 2 # 1 /\ ~(2 * k + i = 2 * Count(b) /\ ~b.newline)
        BY DEF Kind
      <4>3. ASSUME (2 * k + i) % 2 # 1, ~(2 * k + i = 2 * Count(b) /\ ~b.newline)
            PROVE  (i \div 2) \in 1 .. q /\ i = 2 * (i \div 2)
        BY <1>1, <4>3 DEF Completed
      <4>4. ASSUME NEW j \in 1 .. q, i = 2 * j
            PROVE  (2 * k + i) % 2 # 1 /\ ~(2 * k + i = 2 * Count(b) /\ ~b.newline)
        <5>1. i = 2 * j /\ j \in Nat /\ 2 * (k + q) <= n /\ j <= q
          BY <1>2, <4>4
        <5>2. (2 * k + i) % 2 # 1
          BY <5>1
        <5>3. ~(n = 2 * Count(b) /\ ~b.newline) \/ k + q + 1 = Count(b)
          BY <1>1, <1>2
        <5>4. ASSUME 2 * k + i = 2 * Count(b), ~b.newline PROVE FALSE
          <6>1. n = 2 * Count(b)
            BY <1>1, <5>1, <5>4
          <6>2. k + q + 1 = Count(b)
            BY <5>3, <5>4, <6>1
          <6> HIDE DEF q
          <6> QED BY <1>1, <1>2, <5>1, <5>4, <6>2
        <5> QED BY <5>2, <5>4
      <4> QED BY <4>1, <4>2, <4>3, <4>4
    <3>2. \A j \in 1 .. q : 2 * j \in 1 .. n - 2 * k
      <4> HIDE DEF q
      <4> QED BY <1>1, <1>2
    <3> HIDE DEF q
    <3> QED BY <1>3, <3>1, <3>2
  <2> HIDE DEF q
  <2>2. f \in Bijection(1 .. q, {2 * j : j \in 1 .. q})
    <3>1. f \in [1 .. q -> {2 * j : j \in 1 .. q}]
      OBVIOUS
    <3>2. \A x, y \in 1 .. q : f[x] = f[y] => x = y
      BY <1>2
    <3>3. \A y \in {2 * j : j \in 1 .. q} : \E x \in 1 .. q : f[x] = y
      OBVIOUS
    <3> HIDE DEF f
    <3> QED BY <3>1, <3>2, <3>3 DEF Bijection, Injection, Surjection, IsInjective
  <2>3. ExistsBijection(1 .. q, S)
    BY <2>1, <2>2 DEF ExistsBijection
  <2> HIDE DEF S
  <2>4. Cardinality(S) = q
    BY <1>2, <2>3, FS_CountingElements
  <2> QED BY <2>4 DEF S, Newlines
<1>6. SubSeq(bytes, 2 * q + 1, Len(bytes)) = SubSeq(Halves(b), 2 * (k + q) + 1, n)
  <2> HIDE DEF q
  <2>1. CASE 2 * (k + q) = n
    <3>1. Len(bytes) < 2 * q + 1 /\ n < 2 * (k + q) + 1 /\ 2 * q + 1 \in Int /\ Len(bytes) \in Int
          /\ n \in Int /\ 2 * (k + q) + 1 \in Int
      BY <1>1, <1>2, <1>3, <2>1
    <3> QED BY <3>1, SubSeqEmpty
  <2>2. CASE 2 * (k + q) < n
    <3> DEFINE i == 2 * k + 1
               m == 2 * q + 1
               l == n - 2 * k
    <3>1. /\ i \in 1 .. 2 * Count(b) /\ n \in 1 .. 2 * Count(b) /\ m \in 1 .. n - i + 1 /\ l \in 1 .. n - i + 1
          /\ i + m - 1 = 2 * (k + q) + 1 /\ i + l - 1 = n
      BY <1>1, <1>2, <2>2
    <3> HIDE DEF i, m, l
    <3>2. Halves(b) \in Seq(HalfSet(b)) /\ Len(Halves(b)) = 2 * Count(b)
      BY HalvesSent
    <3>3. SubSeq(SubSeq(Halves(b), i, n), m, l) = SubSeq(Halves(b), i + m - 1, i + l - 1)
      BY <3>1, <3>2, SubSeqOfSubSeq
    <3> QED BY <1>3, <3>1, <3>3 DEF i, m, l
  <2> QED BY <1>1, <1>2, <2>1, <2>2
<1> HIDE DEF q
<1> QED BY <1>2, <1>4, <1>5, <1>6 DEF q, Holds

\* Where the reader is among the frames.
LEMMA Places ==
    ASSUME NEW b \in Bodies, NEW k \in Nat, k <= Count(b)
    PROVE  /\ k \div Width(b) \in Nat /\ k \div Width(b) <= Len(Frames(b))
           /\ k % Width(b) # 0 => (k \div Width(b)) + 1 \in 1 .. Len(Frames(b))
           /\ b.closed => Count(b) \div Width(b) = Len(Frames(b)) /\ Count(b) % Width(b) = 0
           /\ ~b.closed => /\ (Count(b) \div Width(b)) + 1 = Len(Frames(b))
                           /\ Count(b) % Width(b) = Width(b) - 1
<1> DEFINE w == Width(b)
           m == Len(Frames(b))
           c == Count(b)
<1>1. m \in Nat /\ m >= 1 /\ w \in {4, 5} /\ c \in Nat /\ b.closed \in BOOLEAN
  BY Sizes
<1>2. (b.closed => c = m * w) /\ (~b.closed => c = m * w - 1)
  <2> HIDE DEF m, w
  <2>1. c = m * w - (IF b.closed THEN 0 ELSE 1)
    BY DEF Count, m, w
  <2>2. m * w \in Nat
    BY <1>1
  <2> HIDE DEF c
  <2> QED BY <2>1, <2>2
<1> HIDE DEF w, m, c
<1>3. CASE w = 4
  <2>1. (b.closed => c = m * 4) /\ (~b.closed => c = m * 4 - 1) /\ k <= c
    BY <1>2, <1>3 DEF c
  <2>2. CASE b.closed
    BY <1>1, <1>3, <2>1, <2>2 DEF w, m, c
  <2>3. CASE ~b.closed
    BY <1>1, <1>3, <2>1, <2>3 DEF w, m, c
  <2> QED BY <2>2, <2>3
<1>4. CASE w = 5
  <2>1. (b.closed => c = m * 5) /\ (~b.closed => c = m * 5 - 1) /\ k <= c
    BY <1>2, <1>4 DEF c
  <2>2. CASE b.closed
    BY <1>1, <1>4, <2>1, <2>2 DEF w, m, c
  <2>3. CASE ~b.closed
    BY <1>1, <1>4, <2>1, <2>3 DEF w, m, c
  <2> QED BY <2>2, <2>3
<1> QED BY <1>1, <1>3, <1>4

\* k lines have been read, and what has arrived of the next waits in the buffer: no half, one, or
\* both if the last line of the response has no newline.
After(b, k, n, rest, part) ==
    /\ k \in Nat /\ k <= Count(b) /\ 2 * k <= n /\ n \in 0 .. 2 * Count(b)
    /\ rest = SubSeq(Halves(b), 2 * k + 1, n)
    /\ \/ n <= 2 * k + 1 /\ (k = Count(b) => b.newline)
       \/ n = 2 * Count(b) /\ k + 1 = Count(b) /\ ~b.newline
    /\ part = FieldAt(b, k)

Reading(k) == After(body, k, fed, buffer, field)

\* A chunk completes some lines, whose frames are passed on, and leaves the reader after them.
LEMMA ChunkReads ==
    ASSUME body \in Bodies, NEW k, Reading(k), ChunkArrives
    PROVE  \E j \in Nat : /\ k <= j /\ Reading(j)'
                          /\ Pass(Span(body, k \div Width(body), j \div Width(body)))
<1>1. PICK n \in (fed + 1) .. Len(Halves(body)) :
        LET bytes == buffer \o SubSeq(Halves(body), fed + 1, n)
            whole == Cardinality({i \in DOMAIN bytes : bytes[i][2] = "rest"})
            read  == ReadLines([i \in 1 .. whole |-> bytes[2 * i][1]])
        IN  /\ fed' = n
            /\ buffer' = SubSeq(bytes, 2 * whole + 1, Len(bytes))
            /\ field' = read.field
            /\ Pass(read.frames)
  BY DEF ChunkArrives
<1> DEFINE bytes == buffer \o SubSeq(Halves(body), fed + 1, n)
<1>2. /\ Count(body) \in Nat /\ k \in Nat /\ k <= Count(body) /\ fed \in Nat /\ 2 * k <= fed
      /\ n \in 0 .. 2 * Count(body) /\ fed < n /\ 2 * k < n /\ Len(Halves(body)) = 2 * Count(body)
      /\ buffer = SubSeq(Halves(body), 2 * k + 1, fed) /\ field = FieldAt(body, k)
  BY Sizes, HalvesSent DEF Reading, After
<1>3. bytes = SubSeq(Halves(body), 2 * k + 1, n)
  <2> DEFINE m == 2 * k + 1
  <2>1. /\ m \in 1 .. Len(Halves(body)) + 1 /\ fed \in m - 1 .. Len(Halves(body))
        /\ n \in fed .. Len(Halves(body)) /\ buffer = SubSeq(Halves(body), m, fed)
    BY <1>2
  <2>2. Halves(body) \in Seq(HalfSet(body))
    BY HalvesSent
  <2> HIDE DEF m
  <2>3. SubSeq(Halves(body), m, fed) \o SubSeq(Halves(body), fed + 1, n) = SubSeq(Halves(body), m, n)
    BY <2>1, <2>2, ConcatAdjacentSubSeq
  <2> QED BY <2>1, <2>3 DEF m
<1> HIDE DEF bytes
<1>12. Holds(body, k, n, bytes, Completed(body, k, n))
  BY <1>2, <1>3, WholeLines
<1>13. PICK q \in Nat : Holds(body, k, n, bytes, q)
  <2>1. Completed(body, k, n) \in Nat
    BY <1>12 DEF Holds
  <2> QED BY <1>12, <2>1
<1> DEFINE lines == [i \in 1 .. q |-> bytes[2 * i][1]]
<1>4. /\ q \in Nat /\ k + q <= Count(body) /\ 2 * (k + q) <= n
      /\ Cardinality(Newlines(bytes)) = q
      /\ \A i \in 1 .. q : bytes[2 * i][1] = Lines(body)[k + i]
      /\ SubSeq(bytes, 2 * q + 1, Len(bytes)) = SubSeq(Halves(body), 2 * (k + q) + 1, n)
      /\ \/ n <= 2 * (k + q) + 1 /\ (k + q = Count(body) => body.newline)
         \/ n = 2 * Count(body) /\ k + q + 1 = Count(body) /\ ~body.newline
  BY <1>13 DEF Holds
<1>5. /\ fed' = n /\ buffer' = SubSeq(bytes, 2 * q + 1, Len(bytes))
      /\ field' = ReadLines(lines).field /\ Pass(ReadLines(lines).frames)
  BY <1>1, <1>4 DEF bytes, Newlines
<1>6. ReadLines(lines) = [frames |-> Span(body, k \div Width(body), (k + q) \div Width(body)),
                          field |-> FieldAt(body, k + q)]
  <2>1. /\ k \in 0 .. Count(body) /\ q \in 0 .. Count(body) - k /\ DOMAIN lines = 1 .. q
        /\ \A i \in 1 .. q : lines[i] = Lines(body)[k + i]
    <3>1. k \in 0 .. Count(body) /\ q \in 0 .. Count(body) - k
      BY <1>2, <1>4
    <3>2. DOMAIN lines = 1 .. q /\ \A i \in 1 .. q : lines[i] = bytes[2 * i][1]
      OBVIOUS
    <3>3. \A i \in 1 .. q : bytes[2 * i][1] = Lines(body)[k + i]
      BY <1>4
    <3> HIDE DEF lines
    <3> QED BY <3>1, <3>2, <3>3
  <2> HIDE DEF lines
  <2> QED BY <1>2, <2>1, ReadAll
<1> HIDE DEF lines
<1>7. body' = body
  BY DEF ChunkArrives
<1>8. Reading(k + q)'
  <2>1. fed' \in 0 .. 2 * Count(body) /\ k + q \in Nat /\ k + q <= Count(body) /\ 2 * (k + q) <= fed'
    BY <1>2, <1>4, <1>5
  <2>2. buffer' = SubSeq(Halves(body), 2 * (k + q) + 1, fed') /\ field' = FieldAt(body, k + q)
    <3>1. field' = FieldAt(body, k + q)
      BY <1>5, <1>6
    <3>2. fed' = n /\ buffer' = SubSeq(bytes, 2 * q + 1, Len(bytes))
      BY <1>5
    <3>3. SubSeq(bytes, 2 * q + 1, Len(bytes)) = SubSeq(Halves(body), 2 * (k + q) + 1, n)
      BY <1>4
    <3> QED BY <3>1, <3>2, <3>3
  <2>3. \/ fed' <= 2 * (k + q) + 1 /\ (k + q = Count(body) => body.newline)
        \/ fed' = 2 * Count(body) /\ (k + q) + 1 = Count(body) /\ ~body.newline
    BY <1>4, <1>5
  <2> QED BY <1>7, <2>1, <2>2, <2>3 DEF Reading, After
<1>9. Pass(Span(body, k \div Width(body), (k + q) \div Width(body)))
  BY <1>5, <1>6
<1>10. k + q \in Nat /\ k <= k + q
  BY <1>2, <1>13
<1> QED BY <1>8, <1>9, <1>10

\* At the end of the response what is left, in lines without a newline or a blank line, is read as
\* the rest of its frames.
LEMMA EndReads ==
    ASSUME body \in Bodies, NEW k, Reading(k), BodyEnds
    PROVE  Pass(Span(body, k \div Width(body), Len(Frames(body))))
<1> DEFINE w == Width(body)
           c == Count(body)
           m == Len(Frames(body))
           rest == IF buffer = <<>> THEN <<>> ELSE <<buffer[1][1]>>
           read == ReadLines(rest)
<1>1. /\ c \in Nat /\ m \in Nat /\ k \in Nat /\ k <= c /\ fed = 2 * c /\ w \in {4, 5}
      /\ buffer = SubSeq(Halves(body), 2 * k + 1, fed) /\ field = FieldAt(body, k)
      /\ (k = c \/ k + 1 = c)
      /\ body.closed \in BOOLEAN
  BY Sizes, HalvesSent DEF Reading, After, BodyEnds
<1> HIDE DEF w, c, m
<1>2. read = [frames |-> Span(body, k \div w, c \div w), field |-> FieldAt(body, c)]
  <2>1. CASE k = c
    <3>1. buffer = <<>>
      <4>1. fed < 2 * k + 1 /\ fed \in Int /\ 2 * k + 1 \in Int
        BY <1>1, <2>1
      <4> QED BY <1>1, <4>1, SubSeqEmpty
    <3>2. rest = <<>> /\ DOMAIN rest = 1 .. 0 /\ \A i \in 1 .. 0 : rest[i] = Lines(body)[k + i]
      BY <3>1
    <3>3. k \in 0 .. Count(body) /\ 0 \in 0 .. Count(body) - k /\ k + 0 = k
      BY <1>1, <2>1 DEF c
    <3> HIDE DEF rest
    <3>4. ReadLines(rest) = [frames |-> Span(body, k \div Width(body), (k + 0) \div Width(body)),
                             field |-> FieldAt(body, k + 0)]
      BY <1>1, <3>2, <3>3, ReadAll
    <3> QED BY <2>1, <3>3, <3>4 DEF w
  <2>2. CASE k + 1 = c
    <3>1. Len(buffer) = 2 /\ buffer[1][1] = Lines(body)[k + 1]
      <4>1. \A i \in 2 * k + 1 .. fed : Halves(body)[i] \in HalfSet(body)
        <5>1. Halves(body) \in Seq(HalfSet(body)) /\ Len(Halves(body)) = fed
          BY <1>1, HalvesSent DEF c
        <5>2. \A i \in 2 * k + 1 .. fed : i \in 1 .. fed
          BY <1>1
        <5> QED BY <5>1, <5>2, ElementOfSeq
      <4>2. /\ Len(buffer) = IF 2 * k + 1 <= fed THEN fed - (2 * k + 1) + 1 ELSE 0
            /\ \A i \in 1 .. fed - (2 * k + 1) + 1 : buffer[i] = Halves(body)[(2 * k + 1) + i - 1]
        BY <1>1, <4>1, SubSeqProperties
      <4>3. 2 * k + 1 <= fed /\ fed - (2 * k + 1) + 1 = 2 /\ (2 * k + 1) + 1 - 1 = 2 * k + 1
            /\ 2 * k + 1 \in 1 .. 2 * c /\ (2 * k + 1 + 1) \div 2 = k + 1
        BY <1>1, <2>2
      <4>4. Halves(body)[2 * k + 1] = <<Lines(body)[(2 * k + 1 + 1) \div 2], Kind(body, 2 * k + 1)>>
        BY <4>3, HalvesSent DEF c
      <4>5. Len(buffer) = 2 /\ buffer[1] = Halves(body)[2 * k + 1]
        BY <4>2, <4>3
      <4> QED BY <4>3, <4>4, <4>5
    <3>2. rest = <<Lines(body)[k + 1]>>
      <4>1. buffer # <<>>
        BY <3>1
      <4> QED BY <3>1, <4>1
    <3>3. DOMAIN rest = 1 .. 1 /\ \A i \in 1 .. 1 : rest[i] = Lines(body)[k + i]
      <4> HIDE DEF rest
      <4> QED BY <3>2
    <3>4. k \in 0 .. Count(body) /\ 1 \in 0 .. Count(body) - k
      BY <1>1, <2>2 DEF c
    <3> HIDE DEF rest
    <3>5. ReadLines(rest) = [frames |-> Span(body, k \div Width(body), (k + 1) \div Width(body)),
                             field |-> FieldAt(body, k + 1)]
      BY <1>1, <3>3, <3>4, ReadAll
    <3> QED BY <2>2, <3>5 DEF w
  <2> QED BY <1>1, <2>1, <2>2
<1>3. Pass(read.frames \o IF read.field.seen THEN <<Frame(read.field)>> ELSE <<>>)
  BY DEF BodyEnds
<1>4. /\ c \div w \in Nat /\ k \div w \in Nat /\ k \div w <= c \div w
  <2>1. CASE w = 4
    BY <1>1, <2>1
  <2>2. CASE w = 5
    BY <1>1, <2>2
  <2> QED BY <1>1, <2>1, <2>2
<1>5. CASE body.closed
  <2>1. c \div w = m /\ c % w = 0
    BY <1>1, <1>5, Places DEF c, w, m
  <2>2. FieldAt(body, c).seen = FALSE
    BY <2>1 DEF FieldAt, FieldOf, NoField, w
  <2>3. Span(body, k \div w, m) \o <<>> = Span(body, k \div w, m)
    BY <1>4, <2>1 DEF Span
  <2>4. read.frames = Span(body, k \div w, m) /\ read.field = FieldAt(body, c)
    BY <1>2, <2>1
  <2> HIDE DEF read
  <2>5. Pass(Span(body, k \div w, m) \o <<>>)
    BY <1>3, <2>2, <2>4
  <2> QED BY <2>3, <2>5 DEF w, m
<1>6. CASE ~body.closed
  <2>1. (c \div w) + 1 = m /\ c % w = w - 1
    BY <1>1, <1>6, Places DEF c, w, m
  <2> DEFINE f == Frames(body)[m]
             early == Span(body, k \div w, c \div w)
  <2>2. FieldAt(body, c).seen = TRUE /\ Frame(FieldAt(body, c)) = f
    <3>1. m \in 1 .. Len(Frames(body))
      BY <1>1, <1>4, <2>1 DEF m
    <3>2. f = [event |-> f.event, data |-> f.data]
      BY <3>1, FrameSent
    <3>3. w - 1 = (IF body.cut THEN 4 ELSE 3) /\ body.cut \in BOOLEAN
      BY Sizes DEF w, Width
    <3>4. FieldAt(body, c) = FieldOf(f, IF body.cut THEN 4 ELSE 3, body.cut)
      BY <2>1, <3>3 DEF FieldAt, w
    <3> HIDE DEF f
    <3> QED BY <3>2, <3>3, <3>4, FrameFinished
  <2>3. early \o <<f>> = Span(body, k \div w, m)
    <3>1. early \in Seq(FrameSet) /\ f \in FrameSet
      <4>1. c \div w <= Len(Frames(body)) /\ m \in 1 .. Len(Frames(body))
        BY <1>1, <1>4, <2>1 DEF m
      <4> DEFINE a == k \div w
                 e == c \div w
      <4>2. a \in Nat /\ e \in Nat /\ a <= e /\ e <= Len(Frames(body))
        BY <1>4, <4>1
      <4>3. Span(body, a, e) \in Seq(FrameSet)
        <5> HIDE DEF a, e
        <5> QED BY <4>2, SpanTyped
      <4> QED BY <4>1, <4>3, FrameSent
    <3>2. Append(early, f) = Span(body, k \div w, m)
      <4> DEFINE a == k \div w
                 e == c \div w
      <4>1. a \in Nat /\ e \in Nat /\ a <= e /\ e + 1 = m
        BY <1>4, <2>1
      <4>2. Append(Span(body, a, e), Frames(body)[e + 1]) = Span(body, a, e + 1)
        <5> HIDE DEF a, e
        <5> QED BY <4>1, SpanGrows
      <4> QED BY <4>1, <4>2
    <3> HIDE DEF f, early
    <3> QED BY <3>1, <3>2, AppendIsConcat
  <2>4. read.frames = early /\ read.field = FieldAt(body, c)
    BY <1>2
  <2> HIDE DEF f, early, read
  <2>5. Pass(early \o <<f>>)
    BY <1>3, <2>2, <2>4
  <2> QED BY <2>3, <2>5 DEF w, m
<1> QED BY <1>1, <1>5, <1>6

\* The parse state has its type after any number of lines.
Fits(n, rest, part) ==
    /\ n \in 0 .. 10 * (Len(Answer) + 2) /\ Len(rest) <= 2
    /\ \A i \in DOMAIN rest :
        rest[i][1].field \in {"event", "comment", "data", "blank"} /\ rest[i][2] \in {"head", "bare"}
    /\ part.event \in {"message", "delta", "final", "error"} /\ part.seen \in BOOLEAN

\* What waits after k lines is no more than the type invariant allows.
LEMMA AfterFits ==
    ASSUME NEW b \in Bodies, NEW k, NEW n, NEW rest, NEW part, After(b, k, n, rest, part)
    PROVE  Fits(n, rest, part)
<1>1. /\ k \in Nat /\ k <= Count(b) /\ 2 * k <= n /\ n \in 0 .. 2 * Count(b) /\ n \in Nat
      /\ rest = SubSeq(Halves(b), 2 * k + 1, n)
      /\ (n <= 2 * k + 1 \/ (n = 2 * Count(b) /\ k + 1 = Count(b) /\ ~b.newline))
      /\ part = FieldAt(b, k) /\ Count(b) \in Nat
  BY Sizes DEF After
<1>2. n \in 0 .. 10 * (Len(Answer) + 2)
  <2>1. Count(b) <= 5 * (Len(Answer) + 2)
    <3>1. Len(Frames(b)) \in Nat /\ Len(Frames(b)) <= Len(Answer) + 2 /\ Len(Answer) \in Nat
          /\ b.closed \in BOOLEAN /\ b.cut \in BOOLEAN
      BY Sizes, FramesTyped, AnswerAssumption
    <3>2. Count(b) <= Len(Frames(b)) * 5
      <4>1. CASE b.cut
        BY <3>1, <4>1 DEF Count, Width
      <4>2. CASE ~b.cut
        BY <3>1, <4>2 DEF Count, Width
      <4> QED BY <4>1, <4>2
    <3> QED BY <1>1, <3>1, <3>2
  <2>2. Len(Answer) \in Nat
    BY AnswerAssumption
  <2> QED BY <1>1, <2>1, <2>2
<1>3. /\ Len(rest) <= 2
      /\ \A i \in DOMAIN rest : /\ 2 * k + i \in 1 .. 2 * Count(b) /\ i \in {1, 2}
                               /\ rest[i] = Halves(b)[2 * k + i]
                               /\ (i = 2 => 2 * k + i = 2 * Count(b) /\ ~b.newline)
  <2>1. \A i \in 2 * k + 1 .. n : Halves(b)[i] \in HalfSet(b)
    BY <1>1, HalvesSent, ElementOfSeq
  <2>2. /\ rest \in Seq(HalfSet(b)) /\ Len(rest) = IF 2 * k + 1 <= n THEN n - (2 * k + 1) + 1 ELSE 0
        /\ \A i \in 1 .. n - (2 * k + 1) + 1 : rest[i] = Halves(b)[(2 * k + 1) + i - 1]
    BY <1>1, <2>1, SubSeqProperties
  <2>3. DOMAIN rest = 1 .. Len(rest)
    BY <2>2, LenProperties
  <2>4. Len(rest) = n - 2 * k /\ n - 2 * k <= 2
    BY <1>1, <2>2
  <2>5. ASSUME NEW i \in 1 .. n - 2 * k
        PROVE  /\ 2 * k + i \in 1 .. 2 * Count(b) /\ i \in {1, 2}
               /\ rest[i] = Halves(b)[2 * k + i]
               /\ (i = 2 => 2 * k + i = 2 * Count(b) /\ ~b.newline)
    <3>1. i \in 1 .. n - (2 * k + 1) + 1 /\ (2 * k + 1) + i - 1 = 2 * k + i
      BY <1>1
    <3>2. rest[i] = Halves(b)[2 * k + i]
      BY <2>2, <3>1
    <3>3. 2 * k + i \in 1 .. 2 * Count(b) /\ i \in {1, 2}
          /\ (i = 2 => 2 * k + i = 2 * Count(b) /\ ~b.newline)
      BY <1>1, <2>4
    <3> QED BY <3>2, <3>3
  <2> QED BY <2>3, <2>4, <2>5
<1>4. ASSUME NEW i \in DOMAIN rest
      PROVE  rest[i][1].field \in {"event", "comment", "data", "blank"} /\ rest[i][2] \in {"head", "bare"}
  <2>1. /\ 2 * k + i \in 1 .. 2 * Count(b) /\ i \in {1, 2} /\ rest[i] = Halves(b)[2 * k + i]
        /\ (i = 2 => 2 * k + i = 2 * Count(b) /\ ~b.newline)
    BY <1>3
  <2>2. rest[i] = <<Lines(b)[(2 * k + i + 1) \div 2], Kind(b, 2 * k + i)>>
    BY <2>1, HalvesSent
  <2>3. Kind(b, 2 * k + i) \in {"head", "bare"}
    <3>1. CASE i = 1
      <4>1. (2 * k + i) % 2 = 1
        BY <1>1, <3>1
      <4> QED BY <4>1 DEF Kind
    <3>2. CASE i = 2
      <4>1. 2 * k + i = 2 * Count(b) /\ ~b.newline
        BY <2>1, <3>2
      <4> QED BY <4>1 DEF Kind
    <3> QED BY <2>1, <3>1, <3>2
  <2>4. (2 * k + i + 1) \div 2 \in 1 .. Count(b)
    <3> DEFINE c == Count(b)
    <3>1. c \in Nat /\ 2 * k + i <= 2 * c /\ k \in Nat /\ i \in {1, 2}
      BY <1>1, <2>1
    <3> HIDE DEF c
    <3>2. CASE i = 1
      BY <3>1, <3>2 DEF c
    <3>3. CASE i = 2
      BY <3>1, <3>3 DEF c
    <3> QED BY <3>1, <3>2, <3>3
  <2>5. ASSUME NEW l \in 1 .. Count(b) PROVE Lines(b)[l].field \in {"event", "comment", "data", "blank"}
    <3> DEFINE f == Frames(b)[((l - 1) \div Width(b)) + 1]
               r == (l - 1) % Width(b)
    <3>1. Lines(b)[l] = Framed(f, b.cut)[r + 1]
      BY LinesSent
    <3>2. l - 1 \in Nat
      BY <1>1
    <3>3. Width(b) \in {4, 5} /\ (b.cut => Width(b) = 5) /\ (~b.cut => Width(b) = 4) /\ b.cut \in BOOLEAN
      BY Sizes
    <3>4. r \in 0 .. Width(b) - 1
      BY <3>2, <3>3, InFrame
    <3> HIDE DEF f, r
    <3>7. /\ Event(f.event).field = "event" /\ Comment.field = "comment" /\ Blank.field = "blank"
          /\ \A h : Data(f.data, h).field = "data"
      BY DEF Event, Comment, Data, Blank
    <3>5. CASE b.cut
      <4>1. r + 1 \in {1, 2, 3, 4, 5}
        BY <3>3, <3>4, <3>5
      <4>2. Framed(f, b.cut) = <<Event(f.event), Comment, Data(f.data, "first"), Data(f.data, "second"), Blank>>
        BY <3>5 DEF Framed
      <4>3. Lines(b)[l] \in {Event(f.event), Comment, Data(f.data, "first"), Data(f.data, "second"), Blank}
        BY <3>1, <4>1, <4>2
      <4> QED BY <3>7, <4>3
    <3>6. CASE ~b.cut
      <4>1. r + 1 \in {1, 2, 3, 4}
        BY <3>3, <3>4, <3>6
      <4>2. Framed(f, b.cut) = <<Event(f.event), Comment, Data(f.data, "whole"), Blank>>
        BY <3>6 DEF Framed
      <4>3. Lines(b)[l] \in {Event(f.event), Comment, Data(f.data, "whole"), Blank}
        BY <3>1, <4>1, <4>2
      <4> QED BY <3>7, <4>3
    <3> QED BY <3>5, <3>6
  <2> QED BY <2>2, <2>3, <2>4, <2>5
<1>5. part.event \in {"message", "delta", "final", "error"} /\ part.seen \in BOOLEAN
  <2>1. CASE k % Width(b) = 0
    BY <1>1, <2>1 DEF FieldAt, FieldOf, NoField
  <2>2. CASE k % Width(b) # 0
    <3> DEFINE f == Frames(b)[(k \div Width(b)) + 1]
    <3>1. f.event \in {"delta", "final", "error"}
      BY <1>1, <2>2, Places, FrameSent
    <3>2. part.event = f.event /\ part.seen = TRUE
      BY <1>1, <2>2 DEF FieldAt, FieldOf
    <3> QED BY <3>1, <3>2
  <2> QED BY <2>1, <2>2
<1> QED BY <1>2, <1>3, <1>4, <1>5 DEF Fits

-----------------------------------------------------------------------------

\* While the stream is open, what has been read is whole lines of the response.
StreamInv == StreamTypeOK /\ (stream = "open" => \E k \in Nat : Reading(k))

\* A stream begins before its first line.
LEMMA StartsReading == StreamInit => body \in Bodies /\ Reading(0)
<1> SUFFICES ASSUME StreamInit PROVE body \in Bodies /\ Reading(0)
  OBVIOUS
<1>1. body \in Bodies /\ fed = 0 /\ buffer = <<>> /\ field = NoField
  BY DEF StreamInit
<1>2. Count(body) \in Nat /\ Count(body) > 0 /\ Width(body) \in {4, 5}
  BY <1>1, Sizes
<1>3. FieldAt(body, 0) = NoField
  <2>1. 0 % Width(body) = 0
    <3>1. CASE Width(body) = 4
      BY <3>1
    <3>2. CASE Width(body) = 5
      BY <3>2
    <3> QED BY <1>2, <3>1, <3>2
  <2> QED BY <2>1 DEF FieldAt, FieldOf
<1>4. SubSeq(Halves(body), 2 * 0 + 1, 0) = <<>>
  <2>1. 2 * 0 + 1 = 1
    OBVIOUS
  <2> QED BY <2>1, SubSeqEmpty
<1> QED BY <1>1, <1>2, <1>3, <1>4 DEF Reading, After

\* Every step of the stream keeps the reader between two lines.
LEMMA StreamInductive == StreamInv /\ [StreamNext]_streamVars => StreamInv'
<1> SUFFICES ASSUME StreamInv, [StreamNext]_streamVars PROVE StreamInv'
  OBVIOUS
<1>1. body \in Bodies /\ started \in BOOLEAN /\ said \in Seq(STRING)
      /\ held \in {"nothing", "result", "error"} /\ stream \in {"open", "ended", "failed"}
      /\ Fits(fed, buffer, field)
  BY DEF StreamInv, StreamTypeOK, Fits
<1>2. ASSUME body' = body, Fits(fed, buffer, field)', started' \in BOOLEAN, said' \in Seq(STRING),
             held' \in {"nothing", "result", "error"}, stream' \in {"open", "ended", "failed"}
      PROVE  StreamTypeOK'
  BY <1>1, <1>2 DEF StreamTypeOK, Fits
<1>3. ASSUME NEW a \in Nat, NEW c \in Nat, a <= c, c <= Len(Frames(body)), Pass(Span(body, a, c))
      PROVE  started' \in BOOLEAN /\ said' \in Seq(STRING) /\ held' \in {"nothing", "result", "error"}
  <2> DEFINE s == Span(body, a, c)
  <2>1. c - a \in Nat /\ DOMAIN s = 1 .. c - a /\ \A i \in 1 .. c - a : s[i] \in FrameSet
    <3>1. c - a \in Nat
      BY <1>3
    <3>2. DOMAIN s = 1 .. c - a
      BY <1>3, SpanGrows
    <3>3. \A i \in 1 .. c - a : s[i] \in FrameSet
      BY <1>1, <1>3, SpanTyped
    <3> QED BY <3>1, <3>2, <3>3
  <2> HIDE DEF s
  <2> QED BY <1>1, <1>3, <2>1, PassAllTyped DEF s
<1>4. CASE ChunkArrives
  <2>1. stream = "open" /\ body' = body /\ stream' \in {"open", "failed"}
    BY <1>4 DEF ChunkArrives
  <2>2. PICK k \in Nat : Reading(k)
    BY <2>1 DEF StreamInv
  <2>3. PICK j \in Nat : /\ k <= j /\ Reading(j)'
                         /\ Pass(Span(body, k \div Width(body), j \div Width(body)))
    BY <1>1, <1>4, <2>2, ChunkReads
  <2>4. started' \in BOOLEAN /\ said' \in Seq(STRING) /\ held' \in {"nothing", "result", "error"}
    <3> DEFINE a == k \div Width(body)
               c == j \div Width(body)
    <3>1. j <= Count(body)
      BY <2>1, <2>3 DEF Reading, After
    <3>2. a \in Nat /\ c \in Nat /\ a <= c /\ c <= Len(Frames(body)) 
      <4>1. Width(body) \in {4, 5}
        BY <1>1, Sizes
      <4>2. c \in Nat /\ c <= Len(Frames(body))
        BY <1>1, <3>1, Places
      <4>3. CASE Width(body) = 4
        BY <2>3, <4>2, <4>3
      <4>4. CASE Width(body) = 5
        BY <2>3, <4>2, <4>4
      <4> QED BY <4>1, <4>3, <4>4
    <3>3. Pass(Span(body, a, c))
      BY <2>3
    <3> HIDE DEF a, c
    <3> QED BY <1>3, <3>2, <3>3
  <2>5. Fits(fed, buffer, field)'
    <3>1. After(body', j, fed', buffer', field')
      BY <2>3 DEF Reading
    <3>2. Fits(fed', buffer', field')
      BY <1>1, <2>1, <3>1, AfterFits
    <3> QED BY <3>2 DEF Fits
  <2> QED BY <1>2, <2>1, <2>3, <2>4, <2>5 DEF StreamInv
<1>5. CASE BodyEnds
  <2>1. stream = "open" /\ body' = body /\ fed' = fed /\ stream' \in {"ended", "failed"}
        /\ buffer' = <<>> /\ field' = NoField
    BY <1>5 DEF BodyEnds
  <2>2. PICK k \in Nat : Reading(k)
    BY <2>1 DEF StreamInv
  <2>3. Pass(Span(body, k \div Width(body), Len(Frames(body))))
    BY <1>1, <1>5, <2>2, EndReads
  <2>4. started' \in BOOLEAN /\ said' \in Seq(STRING) /\ held' \in {"nothing", "result", "error"}
    <3>1. k <= Count(body) /\ Len(Frames(body)) \in Nat
      BY <1>1, <2>2, Sizes DEF Reading, After
    <3>2. k \div Width(body) \in Nat /\ k \div Width(body) <= Len(Frames(body))
      BY <1>1, <3>1, Places
    <3> QED BY <1>3, <2>3, <3>1, <3>2
  <2>5. Fits(fed, buffer, field)'
    BY <1>1, <2>1 DEF Fits, NoField
  <2> QED BY <1>2, <2>1, <2>4, <2>5 DEF StreamInv
<1>6. CASE StreamLost
  <2>1. body' = body /\ fed' = fed /\ buffer' = buffer /\ field' = field /\ started' = started
        /\ said' = said /\ held' = held /\ stream' = "failed"
    BY <1>6 DEF StreamLost
  <2>2. Fits(fed, buffer, field)'
    BY <1>1, <2>1 DEF Fits
  <2> QED BY <1>1, <1>2, <2>1, <2>2 DEF StreamInv
<1>7. CASE UNCHANGED streamVars
  BY <1>7 DEF streamVars, StreamInv, StreamTypeOK, Reading, After
<1> QED BY <1>4, <1>5, <1>6, <1>7 DEF StreamNext

\* A stream begins so.
LEMMA StreamBegins == StreamInit => StreamInv
<1> SUFFICES ASSUME StreamInit PROVE StreamInv
  OBVIOUS
<1>1. body \in Bodies /\ Reading(0)
  BY StartsReading
<1>2. Fits(fed, buffer, field)
  BY <1>1, AfterFits DEF Reading
<1>3. started = FALSE /\ said = <<>> /\ held = "nothing" /\ stream = "open"
  BY DEF StreamInit
<1>4. StreamTypeOK
  <2>1. <<>> \in Seq(STRING)
    OBVIOUS
  <2> QED BY <1>1, <1>2, <1>3, <2>1 DEF StreamTypeOK, Fits
<1>5. 0 \in Nat
  OBVIOUS
<1> QED BY <1>1, <1>4, <1>5 DEF StreamInv

\* The variables of a stream keep their types: of the bytes at most the halves of one line wait,
\* the second only when it is the last one's, without its newline (client.py:722-773).
THEOREM StreamTypeCorrect == StreamSpec => []StreamTypeOK
<1>1. StreamInv => StreamTypeOK
  BY DEF StreamInv
<1> QED BY <1>1, StreamBegins, StreamInductive, PTL DEF StreamSpec

-----------------------------------------------------------------------------

\* What some first frames say is a beginning of the answer; all frames say all of it, or an error.
LEMMA TalkIsAnswer ==
    ASSUME ~EmptyDeltas, NEW b \in Bodies, NEW m \in Nat, m <= b.pieces + 1
    PROVE  /\ Talk(b, m) = [started |-> Talk(b, m).started, said |-> Talk(b, m).said, held |-> Talk(b, m).held]
           /\ IsPrefix(Talk(b, m).said, Answer)
           /\ m = b.pieces + 1 /\ Talk(b, m).held # "error" =>
                b.end = "final" /\ Talk(b, m).said = Answer /\ Talk(b, m).held = "result"
<1>0. b.pieces \in 0 .. Len(Answer) /\ b.pieces \in Nat /\ Len(Answer) \in Nat /\ Answer \in Seq(STRING)
  BY FramesSent, AnswerAssumption
<1>1. ASSUME NEW i \in 0 .. Len(Answer) PROVE IsPrefix(SubSeq(Answer, 1, i), Answer)
  <2>1. Len(SubSeq(Answer, 1, i)) = i
    BY <1>0
  <2>2. SubSeq(SubSeq(Answer, 1, i), 1, i) = SubSeq(Answer, 1, i)
    <3>1. SubSeq(Answer, 1, i) \in Seq(STRING)
      BY <1>0
    <3> QED BY <2>1, <3>1, SubSeqFull
  <2>3. i <= Len(Answer)
    BY <1>0
  <2> QED BY <2>1, <2>2, <2>3 DEF IsPrefix
<1>2. IsPrefix(Answer, Answer)
  <2>1. Len(Answer) <= Len(Answer)
    BY <1>0
  <2> QED BY <2>1 DEF IsPrefix
<1>3. CASE m <= b.pieces
  <2>1. Talk(b, m) = [started |-> m > 0, said |-> SubSeq(Answer, 1, m), held |-> "nothing"]
    BY <1>3 DEF Talk
  <2>2. m \in 0 .. Len(Answer) /\ m # b.pieces + 1
    BY <1>0, <1>3
  <2> DEFINE x == m > 0
  <2>3. Talk(b, m) = [started |-> x, said |-> SubSeq(Answer, 1, m), held |-> "nothing"]
    BY <2>1
  <2> HIDE DEF x
  <2> QED BY <1>1, <2>2, <2>3
<1>4. CASE m = b.pieces + 1 /\ b.end = "final"
  <2> DEFINE x == Answer # <<>>
  <2>1. ~(m <= b.pieces)
    BY <1>0, <1>4
  <2>2. Talk(b, m) = [started |-> x, said |-> Answer, held |-> "result"]
    BY <1>4, <2>1 DEF Talk
  <2> HIDE DEF x
  <2> QED BY <1>2, <1>4, <2>2
<1>5. CASE m = b.pieces + 1 /\ b.end # "final"
  <2> DEFINE x == b.pieces > 0
  <2>1. ~(m <= b.pieces)
    BY <1>0, <1>5
  <2>2. Talk(b, m) = [started |-> x, said |-> SubSeq(Answer, 1, b.pieces), held |-> "error"]
    BY <1>5, <2>1 DEF Talk
  <2> HIDE DEF x
  <2> QED BY <1>0, <1>1, <2>2
<1> QED BY <1>0, <1>3, <1>4, <1>5

\* While the stream is open, the chat log has heard exactly the frames that were complete.
AnswerInv ==
    /\ StreamInv /\ SaysTheAnswer
    /\ stream = "open" => \E k \in Nat : /\ Reading(k)
                                        /\ [started |-> started, said |-> said, held |-> held] =
                                             Talk(body, k \div Width(body))

\* Every step keeps what was said to what the complete frames say.
LEMMA AnswerInductive ==
    ASSUME ~EmptyDeltas PROVE AnswerInv /\ [StreamNext]_streamVars => AnswerInv'
<1> SUFFICES ASSUME AnswerInv, [StreamNext]_streamVars PROVE AnswerInv'
  OBVIOUS
<1>1. StreamInv' /\ body \in Bodies /\ Len(Frames(body)) = body.pieces + 1 /\ body.pieces \in Nat
  <2>1. StreamInv'
    BY StreamInductive DEF AnswerInv
  <2>2. body \in Bodies
    BY DEF AnswerInv, StreamInv, StreamTypeOK
  <2> QED BY <2>1, <2>2, FramesSent
<1>2. CASE ChunkArrives
  <2>1. stream = "open" /\ body' = body /\ stream' \in {"open", "failed"}
    BY <1>2 DEF ChunkArrives
  <2>2. PICK k \in Nat : /\ Reading(k)
                         /\ [started |-> started, said |-> said, held |-> held] = Talk(body, k \div Width(body))
    BY <2>1 DEF AnswerInv
  <2>3. PICK j \in Nat : /\ k <= j /\ Reading(j)'
                         /\ Pass(Span(body, k \div Width(body), j \div Width(body)))
    BY <1>1, <1>2, <2>2, ChunkReads
  <2>4. /\ k \div Width(body) \in Nat /\ j \div Width(body) \in Nat
        /\ k \div Width(body) <= j \div Width(body) /\ j \div Width(body) <= body.pieces + 1
    <3>1. j <= Count(body)
      BY <2>1, <2>3 DEF Reading, After
    <3>2. Width(body) \in {4, 5}
      BY <1>1, Sizes
    <3>3. j \div Width(body) \in Nat /\ j \div Width(body) <= body.pieces + 1
      BY <1>1, <3>1, Places
    <3>4. CASE Width(body) = 4
      BY <2>3, <3>3, <3>4
    <3>5. CASE Width(body) = 5
      BY <2>3, <3>3, <3>5
    <3> QED BY <3>2, <3>4, <3>5
  <2>5. PICK c \in Nat : c = j \div Width(body)
    BY <2>4
  <2>6. /\ started' = Talk(body, c).started /\ said' = Talk(body, c).said /\ held' = Talk(body, c).held
        /\ c <= body.pieces + 1
    <3>1. PICK a \in Nat : a = k \div Width(body)
      BY <2>4
    <3>2. a <= c /\ c <= body.pieces + 1 /\ Pass(Span(body, a, c))
          /\ [started |-> started, said |-> said, held |-> held] = Talk(body, a)
      BY <2>2, <2>3, <2>4, <2>5, <3>1
    <3> QED BY <1>1, <3>2, PassAll
  <2>7. SaysTheAnswer'
    <3>1. IsPrefix(said', Answer)
      BY <1>1, <2>6, TalkIsAnswer
    <3> QED BY <2>1, <3>1 DEF SaysTheAnswer
  <2>8. [started |-> started', said |-> said', held |-> held'] = Talk(body', j \div Width(body'))
    <3>1. Talk(body, c) =
            [started |-> Talk(body, c).started, said |-> Talk(body, c).said, held |-> Talk(body, c).held]
      BY <1>1, <2>6, TalkIsAnswer
    <3> QED BY <2>1, <2>5, <2>6, <3>1
  <2> QED BY <1>1, <2>3, <2>7, <2>8 DEF AnswerInv
<1>3. CASE BodyEnds
  <2>1. /\ stream = "open" /\ body' = body /\ stream' \in {"ended", "failed"}
        /\ (stream' = "ended" => held' # "error")
    BY <1>3 DEF BodyEnds
  <2>2. PICK k \in Nat : /\ Reading(k)
                         /\ [started |-> started, said |-> said, held |-> held] = Talk(body, k \div Width(body))
    BY <2>1 DEF AnswerInv
  <2> DEFINE c == body.pieces + 1
  <2>3. Pass(Span(body, k \div Width(body), c))
    BY <1>1, <1>3, <2>2, EndReads
  <2>4. started' = Talk(body, c).started /\ said' = Talk(body, c).said /\ held' = Talk(body, c).held
    <3>1. k <= Count(body)
      BY <2>2 DEF Reading, After
    <3>2. k \div Width(body) \in Nat /\ k \div Width(body) <= c /\ c \in Nat
      BY <1>1, <3>1, Places
    <3>3. PICK a \in Nat : a = k \div Width(body)
      BY <3>2
    <3> QED BY <1>1, <2>2, <2>3, <3>2, <3>3, PassAll
  <2>5. SaysTheAnswer'
    <3>1. /\ IsPrefix(said', Answer)
          /\ held' # "error" => body.end = "final" /\ said' = Answer /\ held' = "result"
      <4>1. c \in Nat /\ c <= body.pieces + 1
        BY <1>1
      <4> QED BY <1>1, <2>4, <4>1, TalkIsAnswer
    <3> QED BY <2>1, <3>1 DEF SaysTheAnswer
  <2> QED BY <1>1, <2>1, <2>5 DEF AnswerInv
<1>4. CASE StreamLost
  <2>1. body' = body /\ said' = said /\ stream' = "failed"
    BY <1>4 DEF StreamLost
  <2> QED BY <1>1, <2>1 DEF AnswerInv, SaysTheAnswer
<1>5. CASE UNCHANGED streamVars
  <2>1. /\ body' = body /\ fed' = fed /\ buffer' = buffer /\ field' = field /\ started' = started
        /\ said' = said /\ held' = held /\ stream' = stream
    BY <1>5 DEF streamVars
  <2>2. SaysTheAnswer'
    BY <2>1 DEF AnswerInv, SaysTheAnswer
  <2>3. ASSUME stream = "open"
        PROVE  \E k \in Nat : /\ Reading(k)'
                             /\ [started |-> started', said |-> said', held |-> held'] =
                                  Talk(body', k \div Width(body'))
    <3>1. PICK k \in Nat : /\ Reading(k)
                           /\ [started |-> started, said |-> said, held |-> held] = Talk(body, k \div Width(body))
      BY <2>3 DEF AnswerInv
    <3>2. Reading(k)'
      BY <2>1, <3>1 DEF Reading
    <3> QED BY <2>1, <3>1, <3>2
  <2> QED BY <1>1, <2>1, <2>2, <2>3 DEF AnswerInv
<1> QED BY <1>2, <1>3, <1>4, <1>5 DEF StreamNext

\* However the bytes of an answer are cut into chunks, for any answer and any number of pieces
\* of it that were streamed, the chat log holds a beginning of it, and all of it with the result
\* when the stream ends without an error (client.py:722-773, streaming.py:84-108).
THEOREM AnswerIsSaid == ASSUME ~EmptyDeltas PROVE StreamSpec => []SaysTheAnswer
<1>1. StreamInit => AnswerInv
  <2> SUFFICES ASSUME StreamInit PROVE AnswerInv
    OBVIOUS
  <2>1. StreamInv
    BY StreamBegins
  <2>2. body \in Bodies /\ Reading(0)
    BY StartsReading
  <2>3. [started |-> started, said |-> said, held |-> held] = Talk(body, 0) /\ IsPrefix(said, Answer)
    <3>1. body.pieces \in Nat /\ Answer \in Seq(STRING)
      BY <2>2, FramesSent, AnswerAssumption
    <3>2. started = FALSE /\ said = <<>> /\ held = "nothing" /\ SubSeq(Answer, 1, 0) = <<>>
      BY SubSeqEmpty DEF StreamInit
    <3> DEFINE x == 0 > 0
    <3>3. Talk(body, 0) = [started |-> x, said |-> SubSeq(Answer, 1, 0), held |-> "nothing"]
      BY <3>1 DEF Talk
    <3>4. x = FALSE
      OBVIOUS
    <3> HIDE DEF x
    <3>5. [started |-> started, said |-> said, held |-> held] = Talk(body, 0)
      BY <3>2, <3>3, <3>4
    <3>6. IsPrefix(said, Answer)
      BY <3>1, <3>2 DEF IsPrefix
    <3> QED BY <3>5, <3>6
  <2>4. 0 \in Nat /\ 0 \div Width(body) = 0
    <3>1. Width(body) \in {4, 5}
      BY <2>2, Sizes
    <3>2. CASE Width(body) = 4
      BY <3>2
    <3>3. CASE Width(body) = 5
      BY <3>3
    <3> QED BY <3>1, <3>2, <3>3
  <2>5. stream = "open"
    BY DEF StreamInit
  <2> QED BY <2>1, <2>2, <2>3, <2>4, <2>5 DEF AnswerInv, SaysTheAnswer
<1>2. AnswerInv => SaysTheAnswer
  BY DEF AnswerInv
<1> QED BY <1>1, <1>2, AnswerInductive, PTL DEF StreamSpec
=============================================================================
