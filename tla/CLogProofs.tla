------------------------------ MODULE CLogProofs ------------------------------
(***************************************************************************)
(* Proofs about CLog for any log types, times, limits and number of lines.  *)
(*                                                                          *)
(* WriteLog is three changes of the directory one after the other, a        *)
(* rotation, an append and a removal; each has a lemma that says what       *)
(* becomes of a file.  getLogMsg reads files in an order, puts lines into a *)
(* map and reads that in the order of its keys; each of the three has a     *)
(* lemma, too.                                                              *)
(***************************************************************************)
EXTENDS CLog, NumberLemmas, FiniteSetTheorems, TLAPS

\* The longest a file can be, and a directory of finitely many files of lines,
\* none longer
LongestFile == FileMax + LineMax - 1

Files(d) ==
  /\ IsFiniteSet(DOMAIN d)
  /\ \A f \in DOMAIN d : d[f] \in Seq(Line) /\ file_size(d[f]) <= LongestFile

\* The inductive invariant
LogInv == written \in 0..MaxLines /\ Files(dir)

\* A file has finitely many bytes.
LEMMA FileSize ==
  ASSUME NEW lines \in Seq(Line)
  PROVE  IsFiniteSet(Bytes(lines)) /\ file_size(lines) \in Nat
<1>1. LineMax \in Nat /\ Len(lines) \in Nat
  BY LogAssumption DEF LogAssumption
<1>2. Bytes(lines) \in SUBSET ((1..Len(lines)) \X (1..LineMax))
  <2> SUFFICES ASSUME NEW i \in DOMAIN lines, NEW k \in 1..lines[i].size
               PROVE  <<i, k>> \in (1..Len(lines)) \X (1..LineMax)
    BY DEF Bytes
  <2>1. lines[i] \in Line /\ i \in 1..Len(lines)
    OBVIOUS
  <2> QED BY <1>1, <2>1 DEF Line
<1>3. IsFiniteSet((1..Len(lines)) \X (1..LineMax))
  <2>1. IsFiniteSet(1..Len(lines)) /\ IsFiniteSet(1..LineMax)
    BY <1>1, FS_Interval
  <2> QED BY <2>1, FS_Product
<1> QED BY <1>2, <1>3, FS_Subset, FS_CardinalityType DEF file_size

\* The bytes of some numbers up to n, under one name, are n.
LEMMA Tagged ==
  ASSUME NEW x, NEW n \in Nat
  PROVE  IsFiniteSet({x} \X (1..n)) /\ Cardinality({x} \X (1..n)) = n
<1>1. IsFiniteSet(1..n) /\ Cardinality(1..n) = n
  <2>1. /\ IsFiniteSet(1..n)
        /\ Cardinality(1..n) = IF 1 > n THEN 0 ELSE n - 1 + 1
    BY FS_Interval
  <2> QED BY <2>1
<1>2. IsFiniteSet({x}) /\ Cardinality({x}) = 1
  BY FS_Singleton
<1>3. /\ IsFiniteSet({x} \X (1..n))
      /\ Cardinality({x} \X (1..n)) = Cardinality({x}) * Cardinality(1..n)
  BY <1>1, <1>2, FS_Product
<1> QED BY <1>1, <1>2, <1>3

\* Two finite sets together are no larger than their sizes added.
LEMMA Together ==
  ASSUME NEW S, NEW T, IsFiniteSet(S), IsFiniteSet(T)
  PROVE  /\ IsFiniteSet(S \cup T)
         /\ Cardinality(S \cup T) <= Cardinality(S) + Cardinality(T)
         /\ Cardinality(S \cup T) \in Nat
         /\ Cardinality(S) \in Nat /\ Cardinality(T) \in Nat
<1>1. /\ IsFiniteSet(S \cup T)
      /\ Cardinality(S \cup T) = Cardinality(S) + Cardinality(T) - Cardinality(S \cap T)
  BY FS_Union
<1>2. IsFiniteSet(S \cap T)
  BY FS_Subset
<1>3. /\ Cardinality(S \cup T) \in Nat /\ Cardinality(S \cap T) \in Nat
      /\ Cardinality(S) \in Nat /\ Cardinality(T) \in Nat
  BY <1>1, <1>2, FS_CardinalityType
<1> QED BY <1>1, <1>3

\* A line makes a file longer by no more than a line's length.
LEMMA AppendBytes ==
  ASSUME NEW lines \in Seq(Line), NEW l \in Line
  PROVE  /\ Append(lines, l) \in Seq(Line)
         /\ Bytes(Append(lines, l)) = Bytes(lines) \cup ({Len(lines) + 1} \X (1..l.size))
         /\ file_size(Append(lines, l)) <= file_size(lines) + LineMax
<1> DEFINE a == Append(lines, l)
           n == Len(lines) + 1
<1>1. /\ a \in Seq(Line) /\ DOMAIN a = DOMAIN lines \cup {n}
      /\ a[n] = l /\ n \notin DOMAIN lines
      /\ \A i \in DOMAIN lines : a[i] = lines[i]
  OBVIOUS
<1>2. l.size \in Nat /\ l.size <= LineMax /\ LineMax \in Nat
  BY LogAssumption DEF Line, LogAssumption
<1> HIDE DEF a, n
<1>3. Bytes(a) = Bytes(lines) \cup ({n} \X (1..l.size))
  BY <1>1 DEF Bytes
<1>4. IsFiniteSet(Bytes(lines)) /\ file_size(lines) \in Nat
  BY FileSize
<1>5. IsFiniteSet({n} \X (1..l.size)) /\ Cardinality({n} \X (1..l.size)) = l.size
  BY <1>2, Tagged
<1>6. Cardinality(Bytes(a)) <= Cardinality(Bytes(lines)) + l.size
  BY <1>3, <1>4, <1>5, Together
<1>7. file_size(a) <= file_size(lines) + LineMax
  <2>1. file_size(a) \in Nat
    BY <1>1, FileSize
  <2> QED BY <1>2, <1>4, <1>6, <2>1 DEF file_size
<1> QED BY <1>1, <1>3, <1>7 DEF a, n

\* What a rotation leaves: the full file has its new name, and only a file that
\* had this name before is gone.
LEMMA RotatedFile ==
  ASSUME NEW d, NEW l, LogPath(l) # bkpath(l)
  PROVE  /\ ~Full(d, l) => Rotated(d, l) = d
         /\ Full(d, l) =>
              /\ DOMAIN Rotated(d, l) = (DOMAIN d \ {LogPath(l)}) \cup {bkpath(l)}
              /\ Rotated(d, l)[bkpath(l)] = d[LogPath(l)]
              /\ \A f \in DOMAIN d \ {LogPath(l), bkpath(l)} :
                   Rotated(d, l)[f] = d[f]
BY DEF Rotated, Full

\* The line is at the end of the file of its day and type.
LEMMA AppendedFile ==
  ASSUME NEW d, NEW l
  PROVE  /\ DOMAIN Appended(d, l) = DOMAIN d \cup {LogPath(l)}
         /\ Appended(d, l)[LogPath(l)] =
              Append(IF LogPath(l) \in DOMAIN d THEN d[LogPath(l)] ELSE <<>>, l)
         /\ \A f \in DOMAIN d \ {LogPath(l)} : Appended(d, l)[f] = d[f]
BY DEF Appended

\* Files that are not removed stay as they are.
LEMMA KeptFile ==
  ASSUME NEW d, NEW gone
  PROVE  /\ DOMAIN Restrict(d, DOMAIN d \ gone) = DOMAIN d \ gone
         /\ \A f \in DOMAIN d \ gone : Restrict(d, DOMAIN d \ gone)[f] = d[f]
BY DEF Restrict

LEMMA NewName ==
  ASSUME NEW kind \in Kinds, NEW t \in Times, NEW size \in 1..LineMax
  PROVE  /\ LogPath(NewLine(kind, t, size)) # bkpath(NewLine(kind, t, size))
         /\ bkpath(NewLine(kind, t, size)).sec # NoSec
         /\ bkpath(NewLine(kind, t, size)).day = LogPath(NewLine(kind, t, size)).day
<1>1. t \in Nat /\ DayTicks \in Nat \ {0} /\ SecTicks \in Nat \ {0}
  BY LogAssumption DEF LogAssumption
<1>2. t % DayTicks \in Nat
  BY <1>1
<1>3. Second(t) >= 0
  BY <1>1, <1>2 DEF Second
<1>4. Second(t) # NoSec
  BY <1>3 DEF NoSec
<1> QED BY <1>4 DEF LogPath, bkpath, NewLine

\* Whatever WriteLog prunes, no file of an earlier day is left.
LEMMA PrunesOldest ==
  ASSUME NEW d, NEW low \in BOOLEAN,
         NEW gone \in IF low THEN SpacePrune(d) ELSE SizePrune(d)
  PROVE  Oldest(d, gone)
<1>1. CASE low
  BY <1>1 DEF SpacePrune
<1>2. CASE ~low /\ dirsize(d, DOMAIN d) <= DirMax
  <2>1. gone = {}
    BY <1>2 DEF SizePrune
  <2> QED BY <2>1 DEF Oldest
<1>3. CASE ~low /\ ~(dirsize(d, DOMAIN d) <= DirMax)
  BY <1>3 DEF SizePrune
<1> QED BY <1>1, <1>2, <1>3

\* After the rotation the file the line goes to is below the limit.
LEMMA RotateFits ==
  ASSUME NEW d, Files(d), NEW l, LogPath(l) # bkpath(l)
  PROVE  /\ Files(Rotated(d, l))
         /\ LogPath(l) \in DOMAIN Rotated(d, l) =>
              file_size(Rotated(d, l)[LogPath(l)]) < FileMax
<1> DEFINE R == Rotated(d, l)
<1>0. FileMax \in Nat \ {0}
  BY LogAssumption DEF LogAssumption
<1>1. CASE ~Full(d, l)
  <2>1. R = d
    BY <1>1, RotatedFile
  <2>2. ASSUME LogPath(l) \in DOMAIN d
        PROVE  file_size(d[LogPath(l)]) < FileMax
    <3>1. d[LogPath(l)] \in Seq(Line)
      BY <2>2 DEF Files
    <3>2. file_size(d[LogPath(l)]) \in Nat
      BY <3>1, FileSize
    <3> QED BY <1>0, <1>1, <2>2, <3>2 DEF Full
  <2> QED BY <2>1, <2>2
<1>2. CASE Full(d, l)
  <2>1. /\ DOMAIN R = (DOMAIN d \ {LogPath(l)}) \cup {bkpath(l)}
        /\ R[bkpath(l)] = d[LogPath(l)]
        /\ \A f \in DOMAIN d \ {LogPath(l), bkpath(l)} : R[f] = d[f]
    BY <1>2, RotatedFile
  <2>2. LogPath(l) \in DOMAIN d
    BY <1>2 DEF Full
  <2>3. IsFiniteSet((DOMAIN d \ {LogPath(l)}) \cup {bkpath(l)})
    BY FS_RemoveElement, FS_AddElement DEF Files
  <2> HIDE DEF R
  <2>4. Files(R)
    BY <2>1, <2>2, <2>3 DEF Files
  <2>5. Files(R) /\ (LogPath(l) \in DOMAIN R => file_size(R[LogPath(l)]) < FileMax)
    BY <2>1, <2>4
  <2> QED BY <2>5 DEF R
<1> QED BY <1>1, <1>2

\* A line that is added to a file below the limit leaves it no longer than the
\* limit and that line.
LEMMA AppendFits ==
  ASSUME NEW d, Files(d),
         NEW kind \in Kinds, NEW t \in Times, NEW size \in 1..LineMax,
         written \in 0..MaxLines, written < MaxLines
  PROVE  Files(Appended(Rotated(d, NewLine(kind, t, size)), NewLine(kind, t, size)))
<1> DEFINE l == NewLine(kind, t, size)
           R == Rotated(d, l)
           A == Appended(R, l)
<1>1. l \in Line
  BY LogAssumption DEF NewLine, Line, LogAssumption
<1>2. LogPath(l) # bkpath(l)
  BY NewName
<1>3. FileMax \in Nat \ {0} /\ LineMax \in Nat \ {0}
  BY LogAssumption DEF LogAssumption
<1> HIDE DEF l
<1>4. /\ Files(R)
      /\ LogPath(l) \in DOMAIN R => file_size(R[LogPath(l)]) < FileMax
  BY <1>2, RotateFits
<1>5. /\ DOMAIN A = DOMAIN R \cup {LogPath(l)}
      /\ A[LogPath(l)] =
           Append(IF LogPath(l) \in DOMAIN R THEN R[LogPath(l)] ELSE <<>>, l)
      /\ \A f \in DOMAIN R \ {LogPath(l)} : A[f] = R[f]
  BY AppendedFile
<1> HIDE DEF R, A
<1>6. A[LogPath(l)] \in Seq(Line) /\ file_size(A[LogPath(l)]) <= LongestFile
  <2> DEFINE s == IF LogPath(l) \in DOMAIN R THEN R[LogPath(l)] ELSE <<>>
  <2>1. s \in Seq(Line) /\ file_size(s) < FileMax
    <3>1. Bytes(<<>>) = {}
      BY DEF Bytes
    <3>2. file_size(<<>>) = 0
      BY <3>1, FS_EmptySet DEF file_size
    <3>3. <<>> \in Seq(Line)
      OBVIOUS
    <3> QED BY <1>3, <1>4, <3>2, <3>3 DEF Files
  <2> HIDE DEF s
  <2>2. A[LogPath(l)] = Append(s, l)
    BY <1>5 DEF s
  <2>3. /\ A[LogPath(l)] \in Seq(Line)
        /\ file_size(A[LogPath(l)]) <= file_size(s) + LineMax
    BY <1>1, <2>1, <2>2, AppendBytes
  <2>4. file_size(A[LogPath(l)]) \in Nat /\ file_size(s) \in Nat
    BY <2>1, <2>3, FileSize
  <2> QED BY <1>3, <2>1, <2>3, <2>4 DEF LongestFile
<1>7. IsFiniteSet(DOMAIN A)
  BY <1>4, <1>5, FS_AddElement DEF Files
<1>8. Files(A)
  BY <1>4, <1>5, <1>6, <1>7 DEF Files
<1> QED BY <1>8 DEF A, R, l

\* No step makes a file too long.
LEMMA LogStep == LogInv /\ [LogNext]_logVars => LogInv'
<1> SUFFICES ASSUME LogInv, [LogNext]_logVars
             PROVE  LogInv'
  OBVIOUS
<1>1. ASSUME NEW kind \in Kinds, NEW t \in Times, NEW size \in 1..LineMax, WriteLog(kind, t, size)
      PROVE  LogInv'
  <2> DEFINE d == Appended(Rotated(dir, NewLine(kind, t, size)), NewLine(kind, t, size))
  <2>1. PICK gone : dir' = Restrict(d, DOMAIN d \ gone)
    BY <1>1 DEF WriteLog, NewLine
  <2>2. Files(d)
    BY <1>1, AppendFits DEF LogInv, WriteLog
  <2>3. /\ DOMAIN dir' = DOMAIN d \ gone
        /\ \A f \in DOMAIN d \ gone : dir'[f] = d[f]
    BY <2>1, KeptFile
  <2> HIDE DEF d
  <2>4. Files(dir')
    BY <2>2, <2>3, FS_Subset DEF Files
  <2>5. written' \in 0..MaxLines
    BY <1>1, LogAssumption DEF WriteLog, LogInv, LogAssumption
  <2> QED BY <2>4, <2>5 DEF LogInv, Files
<1>2. ASSUME UNCHANGED logVars
      PROVE  LogInv'
  BY <1>2 DEF logVars, LogInv, Files
<1>3. ASSUME NEW kind \in Kinds, NEW t \in Times, NEW size \in 1..LineMax, WriteThrows(kind, t, size)
      PROVE  LogInv'
  BY <1>2, <1>3 DEF WriteThrows
<1> QED BY <1>1, <1>2, <1>3 DEF LogNext

\* No file, renamed or not, outgrows the limit by more than the line that crosses
\* it: the limit is looked at before each line, whatever the lines' lengths.
THEOREM LogBounds == LogSpec => [](LogInv /\ FileBounded)
<1>1. LogInit => LogInv
  BY LogAssumption, FS_EmptySet DEF LogInit, LogInv, Files, LogAssumption
<1>2. LogInv /\ [LogNext]_logVars => LogInv'
  BY LogStep
<1>3. LogInv => FileBounded
  <2> SUFFICES ASSUME LogInv, NEW f \in DOMAIN dir
               PROVE  file_size(dir[f]) < FileMax + LineMax
    BY DEF FileBounded
  <2>1. file_size(dir[f]) \in Nat /\ file_size(dir[f]) <= LongestFile
    BY FileSize DEF LogInv, Files
  <2> QED BY <2>1, LogAssumption DEF LongestFile, LogAssumption
<1> QED BY <1>1, <1>2, <1>3, PTL DEF LogSpec

\* A line lost to a write was pruned with every file of an earlier day, or it was
\* in a backup whose name the new backup takes.
LEMMA WriteKeeps ==
  ASSUME LogInv, NEW kind \in Kinds, NEW t \in Times, NEW size \in 1..LineMax,
         WriteLog(kind, t, size),
         NEW f \in DOMAIN dir, NEW l \in ToSet(dir[f]) \ LinesOf(dir')
  PROVE  \/ f.sec # NoSec /\ f \in DOMAIN dir'
         \/ \A g \in DOMAIN dir' : f.day <= g.day
<1> DEFINE n == NewLine(kind, t, size)
           P == LogPath(n)
           B == bkpath(n)
           R == Rotated(dir, n)
           A == Appended(R, n)
<1>1. PICK low \in BOOLEAN :
        \E gone \in IF low THEN SpacePrune(A) ELSE SizePrune(A) :
          dir' = Restrict(A, DOMAIN A \ gone)
  BY DEF WriteLog, NewLine
<1>2. PICK gone \in IF low THEN SpacePrune(A) ELSE SizePrune(A) :
        dir' = Restrict(A, DOMAIN A \ gone)
  BY <1>1
<1>3. Oldest(A, gone)
  BY PrunesOldest
<1>4. P # B /\ B.sec # NoSec /\ B.day = P.day
  BY NewName
<1>5. /\ DOMAIN A = DOMAIN R \cup {P}
      /\ A[P] = Append(IF P \in DOMAIN R THEN R[P] ELSE <<>>, n)
      /\ \A g \in DOMAIN R \ {P} : A[g] = R[g]
  BY AppendedFile
<1>6. /\ ~Full(dir, n) => R = dir
      /\ Full(dir, n) => /\ DOMAIN R = (DOMAIN dir \ {P}) \cup {B}
                         /\ R[B] = dir[P]
                         /\ \A g \in DOMAIN dir \ {P, B} : R[g] = dir[g]
  BY <1>4, RotatedFile
<1>7. /\ DOMAIN dir' = DOMAIN A \ gone
      /\ \A g \in DOMAIN A \ gone : dir'[g] = A[g]
  BY <1>2, KeptFile
<1> HIDE DEF A, R, P, B, n
<1>8. ASSUME NEW g \in DOMAIN A, l \in ToSet(A[g]), g.day = f.day
      PROVE  \A h \in DOMAIN dir' : f.day <= h.day
  <2>1. g \in gone
    <3> SUFFICES ASSUME g \notin gone
                 PROVE  FALSE
      OBVIOUS
    <3>1. g \in DOMAIN dir' /\ l \in ToSet(dir'[g])
      BY <1>7, <1>8
    <3> QED BY <3>1 DEF LinesOf
  <2> QED BY <1>3, <1>7, <1>8, <2>1 DEF Oldest
<1>9. CASE f \in DOMAIN R /\ R[f] = dir[f]
  <2>1. CASE f # P
    <3>1. f \in DOMAIN A /\ A[f] = dir[f]
      BY <1>5, <1>9, <2>1
    <3> QED BY <1>8, <3>1
  <2>2. CASE f = P
    <3>1. f \in DOMAIN A /\ A[f] = Append(dir[f], n)
      BY <1>5, <1>9, <2>2
    <3>2. dir[f] \in Seq(Line)
      BY DEF LogInv, Files
    <3>3. PICK i \in DOMAIN dir[f] : l = dir[f][i]
      BY DEF ToSet
    <3>4. i \in DOMAIN A[f] /\ A[f][i] = l
      BY <3>1, <3>2, <3>3
    <3>5. l \in ToSet(A[f])
      BY <3>4 DEF ToSet
    <3> QED BY <1>8, <3>1, <3>5
  <2> QED BY <2>1, <2>2
<1>10. CASE Full(dir, n) /\ f = P
  <2>1. B \in DOMAIN A /\ A[B] = dir[f]
    BY <1>4, <1>5, <1>6, <1>10
  <2> QED BY <1>4, <1>8, <1>10, <2>1
<1>11. CASE Full(dir, n) /\ f = B
  <2>1. f \in DOMAIN A
    BY <1>5, <1>6, <1>11
  <2>2. CASE f \in gone
    BY <1>3, <1>7, <2>1, <2>2 DEF Oldest
  <2>3. CASE f \notin gone
    BY <1>4, <1>7, <1>11, <2>1, <2>3
  <2> QED BY <2>2, <2>3
<1> QED BY <1>6, <1>9, <1>10, <1>11

\* Every step of the log keeps the lines it may not lose.
THEOREM LogKeeps == LogSpec => LinesKept
<1> DEFINE Kept ==
      \A f \in DOMAIN dir : \A l \in ToSet(dir[f]) \ LinesOf(dir') :
        \/ f.sec # NoSec /\ f \in DOMAIN dir'
        \/ \A g \in DOMAIN dir' : f.day <= g.day
<1>1. LogInv /\ [LogNext]_logVars => [Kept]_logVars
  <2> SUFFICES ASSUME LogInv, LogNext, dir' # dir \/ written' # written
               PROVE  Kept
    BY DEF logVars
  <2>1. PICK kind \in Kinds, t \in Times, size \in 1..LineMax :
          WriteLog(kind, t, size) \/ WriteThrows(kind, t, size)
    BY DEF LogNext
  <2>2. WriteLog(kind, t, size)
    BY <2>1 DEF WriteThrows, logVars
  <2> QED BY <2>2, WriteKeeps
<1>2. LogSpec => []LogInv
  <2>1. LogSpec => [](LogInv /\ FileBounded)
    BY LogBounds
  <2> QED BY <2>1, PTL
<1> HIDE DEF Kept
<1>3. LogSpec => [][Kept]_logVars
  BY <1>1, <1>2, PTL DEF LogSpec
<1> QED BY <1>3 DEF Kept, LinesKept

-----------------------------------------------------------------------------
(* Every line is in one place                                               *)

\* A line is in a file of its type and day
Fits(l, f) == l.kind = f.kind /\ Day(l.time) = f.day

\* A directory that holds some of the first n lines, each of them once and in a
\* file it fits, where later lines come later
Filed(d, n) ==
  /\ DOMAIN d \subseteq Name
  /\ \A f \in DOMAIN d :
       /\ d[f] \in Seq(Line)
       /\ \A i \in DOMAIN d[f] : Fits(d[f][i], f) /\ d[f][i].id <= n
       /\ \A i, j \in DOMAIN d[f] : i < j => d[f][i].id < d[f][j].id
  /\ \A f, g \in DOMAIN d : \A i \in DOMAIN d[f], j \in DOMAIN d[g] :
       d[f][i].id = d[g][j].id => f = g /\ i = j

FiledInv == written \in 0..MaxLines /\ Filed(dir, written)

\* Both names a line gives a file are names of its type.
LEMMA NamesTyped ==
  ASSUME NEW kind \in Kinds, NEW t \in Times, NEW size \in 1..LineMax, written \in 0..(MaxLines - 1)
  PROVE  LET l == NewLine(kind, t, size) IN
         /\ l \in Line /\ l.id = written + 1
         /\ LogPath(l) \in Name /\ Fits(l, LogPath(l))
         /\ bkpath(l) \in Name /\ Fits(l, bkpath(l))
         /\ LogPath(l) # bkpath(l)
<1> DEFINE l == NewLine(kind, t, size)
<1>1. t \in Nat /\ DayTicks \in Nat \ {0} /\ SecTicks \in Nat \ {0} /\ MaxLines \in Nat
  BY LogAssumption DEF LogAssumption
<1>2. l \in Line /\ l.id = written + 1 /\ l.kind = kind /\ l.time = t
  BY <1>1 DEF NewLine, Line
<1>3. Day(t) \in Nat
  BY <1>1 DEF Day
<1>4. Second(t) \in Nat
  <2>1. t % DayTicks \in Nat
    BY <1>1
  <2> QED BY <1>1, <2>1 DEF Second
<1> HIDE DEF l
<1>5. LogPath(l) \in Name /\ Fits(l, LogPath(l))
  BY <1>1, <1>2, <1>3 DEF LogPath, Name, Fits
<1>6. (IF WholeSecond(l.time) THEN l.id ELSE 0) \in 0..MaxLines
  BY <1>1, <1>2
<1>7. bkpath(l) \in Name /\ Fits(l, bkpath(l))
  BY <1>2, <1>3, <1>4, <1>6 DEF bkpath, Name, Fits
<1>8. LogPath(l) # bkpath(l)
  BY NewName DEF l
<1> QED BY <1>2, <1>5, <1>7, <1>8 DEF l

\* A rotation takes the lines of the full file along, all of them: none of them
\* stays behind under the old name.
LEMMA RotateFiles ==
  ASSUME NEW d, NEW n, NEW l, Filed(d, n), LogPath(l) # bkpath(l),
         bkpath(l) \in Name, Fits(l, LogPath(l)), Fits(l, bkpath(l))
  PROVE  Filed(Rotated(d, l), n)
<1> DEFINE P == LogPath(l)
           B == bkpath(l)
           R == Rotated(d, l)
<1>1. CASE ~Full(d, l)
  BY <1>1, RotatedFile
<1>2. CASE Full(d, l)
  <2>1. /\ DOMAIN R = (DOMAIN d \ {P}) \cup {B}
        /\ R[B] = d[P]
        /\ \A f \in DOMAIN d \ {P, B} : R[f] = d[f]
        /\ P \in DOMAIN d
    BY <1>2, RotatedFile DEF Full
  <2> DEFINE old(f) == IF f = B THEN P ELSE f
  <2>2. ASSUME NEW f \in DOMAIN R
        PROVE  /\ old(f) \in DOMAIN d /\ R[f] = d[old(f)]
               /\ old(f).kind = f.kind /\ old(f).day = f.day
    BY <2>1 DEF Fits
  <2>3. ASSUME NEW f \in DOMAIN R, NEW g \in DOMAIN R, old(f) = old(g)
        PROVE  f = g
    BY <2>1, <2>3
  <2>4. DOMAIN R \subseteq Name
    BY <2>1 DEF Filed
  <2> HIDE DEF R, P, B, old
  <2>5. ASSUME NEW f \in DOMAIN R
        PROVE  /\ R[f] \in Seq(Line)
               /\ \A i \in DOMAIN R[f] : Fits(R[f][i], f) /\ R[f][i].id <= n
               /\ \A i, j \in DOMAIN R[f] : i < j => R[f][i].id < R[f][j].id
    BY <2>2 DEF Filed, Fits
  <2>6. ASSUME NEW f \in DOMAIN R, NEW g \in DOMAIN R,
               NEW i \in DOMAIN R[f], NEW j \in DOMAIN R[g],
               R[f][i].id = R[g][j].id
        PROVE  f = g /\ i = j
    BY <2>2, <2>3, <2>6 DEF Filed
  <2>7. Filed(R, n)
    BY <2>4, <2>5, <2>6 DEF Filed
  <2> QED BY <2>7 DEF R
<1> QED BY <1>1, <1>2

\* The line with the next number is in the file of its type and nowhere else.
LEMMA AppendFiles ==
  ASSUME NEW d, NEW n \in Nat, NEW l \in Line, Filed(d, n), l.id = n + 1,
         LogPath(l) \in Name, Fits(l, LogPath(l))
  PROVE  Filed(Appended(d, l), n + 1)
<1> DEFINE P == LogPath(l)
           A == Appended(d, l)
           s == IF P \in DOMAIN d THEN d[P] ELSE <<>>
<1>1. /\ DOMAIN A = DOMAIN d \cup {P}
      /\ A[P] = Append(s, l)
      /\ \A f \in DOMAIN d \ {P} : A[f] = d[f]
  BY AppendedFile
<1>2. /\ s \in Seq(Line)
      /\ \A i \in DOMAIN s : P \in DOMAIN d /\ s[i] = d[P][i]
  BY DEF Filed
<1> HIDE DEF P, A, s
<1>3. /\ Append(s, l) \in Seq(Line)
      /\ DOMAIN Append(s, l) = DOMAIN s \cup {Len(s) + 1}
      /\ Append(s, l)[Len(s) + 1] = l /\ Len(s) + 1 \notin DOMAIN s
      /\ \A i \in DOMAIN s : Append(s, l)[i] = s[i]
  BY <1>2
\* A position of the new directory is the new line's, or holds an old line
<1>4. ASSUME NEW f \in DOMAIN A, NEW i \in DOMAIN A[f]
      PROVE  \/ f = P /\ i = Len(s) + 1 /\ A[f][i] = l
             \/ f \in DOMAIN d /\ i \in DOMAIN d[f] /\ A[f][i] = d[f][i]
  <2>1. CASE f = P
    <3>1. CASE i = Len(s) + 1
      BY <1>1, <1>3, <2>1, <3>1
    <3>2. CASE i # Len(s) + 1
      <4>1. i \in DOMAIN s /\ A[f][i] = s[i]
        BY <1>1, <1>3, <1>4, <2>1, <3>2
      <4>2. P \in DOMAIN d /\ s = d[P]
        BY <1>2, <4>1 DEF s
      <4> QED BY <2>1, <4>1, <4>2
    <3> QED BY <3>1, <3>2
  <2>2. CASE f # P
    BY <1>1, <1>4, <2>2
  <2> QED BY <2>1, <2>2
<1>5. ASSUME NEW f \in DOMAIN A
      PROVE  /\ A[f] \in Seq(Line)
             /\ \A i \in DOMAIN A[f] : Fits(A[f][i], f) /\ A[f][i].id <= n + 1
             /\ \A i, j \in DOMAIN A[f] : i < j => A[f][i].id < A[f][j].id
  <2>1. A[f] \in Seq(Line)
    BY <1>1, <1>3 DEF Filed
  <2>2. ASSUME NEW i \in DOMAIN A[f]
        PROVE  Fits(A[f][i], f) /\ A[f][i].id <= n + 1
    <3>1. CASE f = P /\ A[f][i] = l
      BY <3>1 DEF P
    <3>2. CASE f \in DOMAIN d /\ i \in DOMAIN d[f] /\ A[f][i] = d[f][i]
      <4>1. d[f][i].id <= n /\ d[f][i].id \in Nat /\ Fits(d[f][i], f)
        <5>1. d[f][i] \in Line
          BY <3>2 DEF Filed
        <5> QED BY <3>2, <5>1 DEF Filed, Line
      <4> QED BY <3>2, <4>1
    <3> QED BY <1>4, <3>1, <3>2
  <2>3. ASSUME NEW i \in DOMAIN A[f], NEW j \in DOMAIN A[f], i < j
        PROVE  A[f][i].id < A[f][j].id
    <3>1. CASE f = P /\ j = Len(s) + 1 /\ A[f][j] = l
      <4>1. f \in DOMAIN d /\ i \in DOMAIN d[f] /\ A[f][i] = d[f][i]
        BY <1>4, <2>3, <3>1
      <4>2. d[f][i] \in Line /\ d[f][i].id <= n
        BY <4>1 DEF Filed
      <4> QED BY <3>1, <4>1, <4>2 DEF Line
    <3>2. CASE f \in DOMAIN d /\ j \in DOMAIN d[f] /\ A[f][j] = d[f][j]
      <4>1. i \in DOMAIN d[f] /\ A[f][i] = d[f][i]
        <5>1. i # Len(s) + 1 \/ f # P
          <6> SUFFICES ASSUME f = P PROVE i # Len(s) + 1
            OBVIOUS
          <6>1. j \in DOMAIN s /\ s \in Seq(Line)
            BY <1>2, <3>2 DEF s
          <6> QED BY <2>3, <6>1
        <5> QED BY <1>4, <5>1
      <4> QED BY <2>3, <3>2, <4>1 DEF Filed
    <3> QED BY <1>4, <3>1, <3>2
  <2> QED BY <2>1, <2>2, <2>3
<1>6. ASSUME NEW f \in DOMAIN d, NEW i \in DOMAIN d[f] PROVE d[f][i].id # n + 1
  <2>1. d[f][i] \in Line /\ d[f][i].id <= n
    BY DEF Filed
  <2> QED BY <2>1 DEF Line
<1>7. ASSUME NEW f \in DOMAIN A, NEW g \in DOMAIN A,
             NEW i \in DOMAIN A[f], NEW j \in DOMAIN A[g],
             A[f][i].id = A[g][j].id
      PROVE  f = g /\ i = j
  BY <1>4, <1>6, <1>7 DEF Filed
<1>8. DOMAIN A \subseteq Name
  BY <1>1 DEF Filed, P
<1>9. Filed(A, n + 1)
  BY <1>5, <1>7, <1>8 DEF Filed
<1> QED BY <1>9 DEF A

\* Files that are removed take their lines along.
LEMMA PruneFiles ==
  ASSUME NEW d, NEW n, NEW gone, Filed(d, n)
  PROVE  Filed(Restrict(d, DOMAIN d \ gone), n)
<1> DEFINE D == Restrict(d, DOMAIN d \ gone)
<1>1. DOMAIN D = DOMAIN d \ gone /\ \A f \in DOMAIN d \ gone : D[f] = d[f]
  BY KeptFile
<1> HIDE DEF D
<1>2. Filed(D, n)
  BY <1>1 DEF Filed
<1> QED BY <1>2 DEF D

LEMMA LogFiled == LogSpec => []FiledInv
<1>1. LogInit => FiledInv
  BY LogAssumption DEF LogInit, FiledInv, Filed
<1>2. FiledInv /\ [LogNext]_logVars => FiledInv'
  <2> SUFFICES ASSUME FiledInv, [LogNext]_logVars PROVE FiledInv'
    OBVIOUS
  <2>1. ASSUME NEW kind \in Kinds, NEW t \in Times, NEW size \in 1..LineMax, WriteLog(kind, t, size)
        PROVE  FiledInv'
    <3> DEFINE l == NewLine(kind, t, size)
               R == Rotated(dir, l)
               A == Appended(R, l)
    <3>1. PICK gone : dir' = Restrict(A, DOMAIN A \ gone)
      BY <2>1 DEF WriteLog, NewLine
    <3>2. /\ written \in 0..(MaxLines - 1) /\ written \in Nat
          /\ written' = written + 1 /\ written' \in 0..MaxLines
      BY <2>1, LogAssumption DEF WriteLog, FiledInv, LogAssumption
    <3>3. /\ l \in Line /\ l.id = written + 1
          /\ LogPath(l) \in Name /\ Fits(l, LogPath(l))
          /\ bkpath(l) \in Name /\ Fits(l, bkpath(l))
          /\ LogPath(l) # bkpath(l)
      BY <3>2, NamesTyped
    <3> HIDE DEF l
    <3>4. Filed(R, written)
      BY <3>3, RotateFiles DEF FiledInv
    <3>5. Filed(A, written + 1)
      BY <3>2, <3>3, <3>4, AppendFiles
    <3>6. Filed(dir', written')
      BY <3>1, <3>2, <3>5, PruneFiles
    <3> QED BY <3>2, <3>6 DEF FiledInv, Filed
  <2>2. ASSUME UNCHANGED logVars PROVE FiledInv'
    BY <2>2 DEF logVars, FiledInv, Filed
  <2>3. ASSUME NEW kind \in Kinds, NEW t \in Times, NEW size \in 1..LineMax, WriteThrows(kind, t, size)
        PROVE  FiledInv'
    BY <2>2, <2>3 DEF WriteThrows
  <2> QED BY <2>1, <2>2, <2>3 DEF LogNext
<1> QED BY <1>1, <1>2, PTL DEF LogSpec

\* Every line is in a file of its type and day under a name of one of the two
\* forms, and in one place only, however often files are moved, replaced and
\* removed.
THEOREM LogTyping == LogSpec => []LogTypeOK
<1>1. FiledInv => LogTypeOK
  BY DEF FiledInv, Filed, Fits, LogTypeOK
<1> QED BY <1>1, LogFiled, PTL

-----------------------------------------------------------------------------
(* The size of the directory                                                *)

\* What a place is, and a byte of a directory.
LEMMA PlaceOf ==
  ASSUME NEW d, NEW files
  PROVE  \A p : p \in Places(d, files) <=>
                  \E f \in files : \E i \in DOMAIN d[f] : p = <<f, i>>
BY DEF Places

LEMMA ByteOf ==
  ASSUME NEW d, NEW files
  PROVE  \A p : p \in Content(d, files) <=>
                  \E f \in files : \E b \in Bytes(d[f]) : p = <<f, b>>
BY DEF Content

\* Finitely many finite sets have finitely many elements.
LEMMA Family ==
  ASSUME NEW S, IsFiniteSet(S), NEW g, DOMAIN g = S, \A x \in S : IsFiniteSet(g[x])
  PROVE  IsFiniteSet(UNION {g[x] : x \in S})
<1> DEFINE T == {g[x] : x \in S}
           h == [x \in S |-> g[x]]
<1>1. h \in Surjection(S, T)
  BY DEF Surjection
<1> HIDE DEF h
<1>2. IsFiniteSet(T)
  <2> HIDE DEF T
  <2> QED BY <1>1, FS_Surjection
<1>3. \A X \in T : IsFiniteSet(X)
  OBVIOUS
<1> HIDE DEF T
<1>4. IsFiniteSet(UNION T)
  BY <1>2, <1>3, FS_UNION
<1> QED BY <1>4 DEF T

\* Some files of a directory have finitely many lines and bytes.
LEMMA Contents ==
  ASSUME NEW d, Files(d), NEW files \in SUBSET DOMAIN d
  PROVE  /\ IsFiniteSet(files) /\ IsFiniteSet(Places(d, files))
         /\ IsFiniteSet(Content(d, files)) /\ dirsize(d, files) \in Nat
<1>1. IsFiniteSet(files)
  BY FS_Subset DEF Files
<1>2. ASSUME NEW f \in files
      PROVE  IsFiniteSet({f} \X DOMAIN d[f]) /\ IsFiniteSet({f} \X Bytes(d[f]))
  <2>1. d[f] \in Seq(Line)
    BY DEF Files
  <2>2. IsFiniteSet(DOMAIN d[f])
    <3>1. DOMAIN d[f] = 1..Len(d[f]) /\ Len(d[f]) \in Nat
      BY <2>1
    <3> QED BY <3>1, FS_Interval
  <2> QED BY <2>1, <2>2, FileSize, FS_Singleton, FS_Product
<1>3. IsFiniteSet(Places(d, files))
  <2> DEFINE g == [f \in files |-> {f} \X DOMAIN d[f]]
  <2>1. DOMAIN g = files /\ \A f \in files : g[f] = {f} \X DOMAIN d[f]
    OBVIOUS
  <2> HIDE DEF g
  <2>2. IsFiniteSet(UNION {g[f] : f \in files})
    <3>1. \A f \in files : IsFiniteSet(g[f])
      BY <1>2, <2>1
    <3> QED BY <1>1, <2>1, <3>1, Family
  <2>3. {g[f] : f \in files} = {{f} \X DOMAIN d[f] : f \in files}
    BY <2>1
  <2> QED BY <2>2, <2>3 DEF Places
<1>4. IsFiniteSet(Content(d, files))
  <2> DEFINE g == [f \in files |-> {f} \X Bytes(d[f])]
  <2>1. DOMAIN g = files /\ \A f \in files : g[f] = {f} \X Bytes(d[f])
    OBVIOUS
  <2> HIDE DEF g
  <2>2. IsFiniteSet(UNION {g[f] : f \in files})
    <3>1. \A f \in files : IsFiniteSet(g[f])
      BY <1>2, <2>1
    <3> QED BY <1>1, <2>1, <3>1, Family
  <2>3. {g[f] : f \in files} = {{f} \X Bytes(d[f]) : f \in files}
    BY <2>1
  <2> QED BY <2>2, <2>3 DEF Content
<1> QED BY <1>1, <1>3, <1>4, FS_CardinalityType DEF dirsize

\* Some files are no larger than as many of the longest.
LEMMA ManyFiles ==
  ASSUME NEW d, Files(d), NEW files \in SUBSET DOMAIN d
  PROVE  dirsize(d, files) <= Cardinality(files) * LongestFile
<1> DEFINE N == Cardinality(DOMAIN d)
           Good(n) == \A some \in SUBSET DOMAIN d :
                        Cardinality(some) = n => dirsize(d, some) <= n * LongestFile
           S == {n \in 0..N : Good(n)}
<1>1. LongestFile \in Nat
  BY LogAssumption DEF LogAssumption, LongestFile
<1>2. N \in Nat
  BY FS_CardinalityType DEF Files
<1>3. 0 \in S
  <2>1. ASSUME NEW some \in SUBSET DOMAIN d, Cardinality(some) = 0
        PROVE  dirsize(d, some) <= 0 * LongestFile
    <3>1. some = {}
      BY <2>1, Contents, FS_EmptySet
    <3>2. Content(d, some) = {}
      BY <3>1 DEF Content
    <3> QED BY <1>1, <3>2, FS_EmptySet DEF dirsize
  <2> QED BY <1>2, <2>1
<1>4. ASSUME NEW n \in 0..(N - 1), n \in S PROVE n + 1 \in S
  <2>1. ASSUME NEW some \in SUBSET DOMAIN d, Cardinality(some) = n + 1
        PROVE  dirsize(d, some) <= (n + 1) * LongestFile
    <3>1. IsFiniteSet(some)
      BY Contents
    <3>2. some # {}
      <4>1. n + 1 # 0
        BY <1>2
      <4> QED BY <2>1, <4>1, FS_EmptySet
    <3>3. PICK f : f \in some
      BY <3>2
    <3> DEFINE rest == some \ {f}
    <3>4. Cardinality(rest) = n /\ rest \in SUBSET DOMAIN d
      BY <2>1, <3>1, <3>3, FS_RemoveElement
    <3>5. Content(d, some) = Content(d, rest) \cup ({f} \X Bytes(d[f]))
      BY <3>3 DEF Content
    <3>6. dirsize(d, rest) <= n * LongestFile
      BY <1>4, <3>4
    <3>7. /\ IsFiniteSet({f} \X Bytes(d[f]))
          /\ Cardinality({f} \X Bytes(d[f])) <= LongestFile
      <4>1. /\ d[f] \in Seq(Line) /\ file_size(d[f]) <= LongestFile
        BY <3>3 DEF Files
      <4>2. /\ IsFiniteSet(Bytes(d[f])) /\ Cardinality(Bytes(d[f])) \in Nat
            /\ Cardinality(Bytes(d[f])) <= LongestFile
        BY <4>1, FileSize DEF file_size
      <4>3. IsFiniteSet({f}) /\ Cardinality({f}) = 1
        BY FS_Singleton
      <4>4. /\ IsFiniteSet({f} \X Bytes(d[f]))
            /\ Cardinality({f} \X Bytes(d[f])) = Cardinality({f}) * Cardinality(Bytes(d[f]))
        BY <4>2, <4>3, FS_Product
      <4> QED BY <4>2, <4>3, <4>4
    <3>8. IsFiniteSet(Content(d, rest)) /\ dirsize(d, rest) \in Nat
      BY <3>4, Contents
    <3> HIDE DEF rest
    <3>9. /\ dirsize(d, some) <= dirsize(d, rest) + Cardinality({f} \X Bytes(d[f]))
          /\ dirsize(d, some) \in Nat /\ Cardinality({f} \X Bytes(d[f])) \in Nat
      BY <3>5, <3>7, <3>8, Together DEF dirsize
    <3>10. dirsize(d, some) <= n * LongestFile + LongestFile
      <4>1. n * LongestFile \in Nat
        BY <1>1
      <4> QED BY <1>1, <3>6, <3>7, <3>8, <3>9, <4>1
    <3>11. n * LongestFile + LongestFile = (n + 1) * LongestFile
      BY <1>1
    <3> QED BY <3>10, <3>11
  <2>2. n + 1 \in 0..N
    BY <1>2
  <2> QED BY <2>1, <2>2
<1> HIDE DEF S
<1>5. \A n \in 0..N : n \in S
  <2> HIDE DEF N
  <2> QED BY <1>2, <1>3, <1>4, Reached
<1>6. Cardinality(files) \in 0..N
  <2>1. IsFiniteSet(files) /\ Cardinality(files) <= N
    BY FS_Subset DEF Files
  <2> QED BY <1>2, <2>1, FS_CardinalityType
<1> QED BY <1>5, <1>6 DEF S

\* A rotation adds no byte: the lines it moves keep theirs, and those of a file
\* whose name is taken are gone.  It adds no file either.
LEMMA RotateSize ==
  ASSUME NEW d, NEW l, Files(d), Files(Rotated(d, l)), LogPath(l) # bkpath(l)
  PROVE  LET R == Rotated(d, l) IN
         /\ dirsize(R, DOMAIN R) <= dirsize(d, DOMAIN d)
         /\ Cardinality(DOMAIN R \cup {LogPath(l)}) <= Cardinality(DOMAIN d) + 1
<1> DEFINE P == LogPath(l)
           B == bkpath(l)
           R == Rotated(d, l)
<1>0. /\ dirsize(d, DOMAIN d) \in Nat /\ IsFiniteSet(DOMAIN d)
      /\ Cardinality(DOMAIN d) \in Nat
  BY Contents, FS_CardinalityType
<1>1. CASE ~Full(d, l)
  <2>1. R = d
    BY <1>1, RotatedFile
  <2>2. Cardinality(DOMAIN d \cup {P}) <= Cardinality(DOMAIN d) + 1
    BY <1>0, FS_AddElement
  <2> HIDE DEF R
  <2>3. /\ dirsize(R, DOMAIN R) <= dirsize(d, DOMAIN d)
        /\ Cardinality(DOMAIN R \cup {P}) <= Cardinality(DOMAIN d) + 1
    BY <1>0, <2>1, <2>2
  <2> QED BY <2>3 DEF R
<1>2. CASE Full(d, l)
  <2>1. /\ DOMAIN R = (DOMAIN d \ {P}) \cup {B}
        /\ R[B] = d[P]
        /\ \A f \in DOMAIN d \ {P, B} : R[f] = d[f]
        /\ P \in DOMAIN d
    BY <1>2, RotatedFile DEF Full
  <2>2. Cardinality(DOMAIN R \cup {P}) <= Cardinality(DOMAIN d) + 1
    <3>1. DOMAIN R \cup {P} = DOMAIN d \cup {B}
      BY <2>1
    <3>2. Cardinality(DOMAIN d \cup {B}) <= Cardinality(DOMAIN d) + 1
      BY <1>0, FS_AddElement
    <3> HIDE DEF R
    <3> QED BY <3>1, <3>2
  <2> DEFINE old(f) == IF f = B THEN P ELSE f
             S == Content(R, DOMAIN R)
             T == Content(d, DOMAIN d)
             move == [p \in S |-> <<old(p[1]), p[2]>>]
  <2>3. ASSUME NEW f \in DOMAIN R PROVE old(f) \in DOMAIN d /\ R[f] = d[old(f)]
    BY <2>1
  <2>4. ASSUME NEW f \in DOMAIN R, NEW g \in DOMAIN R, old(f) = old(g)
        PROVE  f = g
    BY <2>1, <2>4
  <2>5. IsFiniteSet(T)
    BY Contents
  <2> HIDE DEF R, P, B, old
  <2>6. ASSUME NEW p \in S
        PROVE  /\ p[1] \in DOMAIN R /\ p = <<p[1], p[2]>>
               /\ move[p] = <<old(p[1]), p[2]>> /\ move[p] \in T
    <3>1. PICK f \in DOMAIN R : \E b \in Bytes(R[f]) : p = <<f, b>>
      BY ByteOf
    <3>2. PICK b \in Bytes(R[f]) : p = <<f, b>>
      BY <3>1
    <3>3. <<old(f), b>> \in T
      BY <2>3, <3>2, ByteOf
    <3> QED BY <3>2, <3>3
  <2>7. ASSUME NEW p \in S, NEW q \in S, move[p] = move[q] PROVE p = q
    <3>1. old(p[1]) = old(q[1]) /\ p[2] = q[2]
      BY <2>6, <2>7
    <3> QED BY <2>4, <2>6, <3>1
  <2>8. move \in [S -> T]
    BY <2>6
  <2>9. move \in Injection(S, T)
    <3> HIDE DEF move
    <3> QED BY <2>7, <2>8 DEF Injection, IsInjective
  <2>10. Cardinality(S) <= Cardinality(T)
    BY <2>5, <2>9, FS_Injection
  <2> QED BY <2>2, <2>10 DEF dirsize, R, P
<1> QED BY <1>1, <1>2

\* The new line adds no more than a line's length.
LEMMA AppendSize ==
  ASSUME NEW d, NEW l \in Line, Files(d)
  PROVE  LET A == Appended(d, l) IN
         /\ IsFiniteSet(Content(A, DOMAIN A))
         /\ dirsize(A, DOMAIN A) <= dirsize(d, DOMAIN d) + LineMax
<1> DEFINE P == LogPath(l)
           A == Appended(d, l)
           s == IF P \in DOMAIN d THEN d[P] ELSE <<>>
           n == Len(s) + 1
           new == {P} \X ({n} \X (1..l.size))
<1>1. /\ DOMAIN A = DOMAIN d \cup {P}
      /\ A[P] = Append(s, l)
      /\ \A f \in DOMAIN d \ {P} : A[f] = d[f]
  BY AppendedFile
<1>2. s \in Seq(Line)
  BY DEF Files
<1>3. Bytes(Append(s, l)) = Bytes(s) \cup ({n} \X (1..l.size))
  BY <1>2, AppendBytes
<1>4. \A b \in Bytes(s) : P \in DOMAIN d /\ b \in Bytes(d[P])
  <2>1. Bytes(<<>>) = {}
    BY DEF Bytes
  <2> QED BY <2>1
<1>5. l.size \in Nat /\ l.size <= LineMax /\ LineMax \in Nat
  BY LogAssumption DEF Line, LogAssumption
<1>6. IsFiniteSet(new) /\ Cardinality(new) = l.size
  <2> DEFINE X == {n} \X (1..l.size)
  <2>1. IsFiniteSet(X) /\ Cardinality(X) = l.size
    BY <1>5, Tagged
  <2>2. IsFiniteSet({P}) /\ Cardinality({P}) = 1
    BY FS_Singleton
  <2> HIDE DEF X
  <2>3. /\ IsFiniteSet({P} \X X)
        /\ Cardinality({P} \X X) = Cardinality({P}) * Cardinality(X)
    BY <2>1, <2>2, FS_Product
  <2>4. IsFiniteSet({P} \X X) /\ Cardinality({P} \X X) = l.size
    BY <1>5, <2>1, <2>2, <2>3
  <2> QED BY <2>4 DEF X
<1> HIDE DEF P, A, s, n
<1>7. Content(A, DOMAIN A) \subseteq Content(d, DOMAIN d) \cup new
  <2> SUFFICES ASSUME NEW f \in DOMAIN A, NEW b \in Bytes(A[f])
               PROVE  <<f, b>> \in Content(d, DOMAIN d) \cup new
    BY ByteOf
  <2>1. CASE f = P
    <3>1. b \in Bytes(s) \/ b \in {n} \X (1..l.size)
      BY <1>1, <1>3, <2>1
    <3>2. b \in {n} \X (1..l.size) => <<f, b>> \in new
      BY <2>1
    <3>3. b \in Bytes(s) => <<f, b>> \in Content(d, DOMAIN d)
      BY <1>4, <2>1, ByteOf
    <3> QED BY <3>1, <3>2, <3>3
  <2>2. CASE f # P
    <3>1. f \in DOMAIN d /\ b \in Bytes(d[f])
      BY <1>1, <2>2
    <3> QED BY <3>1, ByteOf
  <2> QED BY <2>1, <2>2
<1>8. IsFiniteSet(Content(d, DOMAIN d)) /\ dirsize(d, DOMAIN d) \in Nat
  BY Contents
<1> HIDE DEF new
<1> DEFINE both == Content(d, DOMAIN d) \cup new
<1>9. /\ IsFiniteSet(both) /\ Cardinality(both) \in Nat
      /\ Cardinality(both) <= dirsize(d, DOMAIN d) + LineMax
  BY <1>5, <1>6, <1>8, Together DEF dirsize
<1>10. /\ IsFiniteSet(Content(A, DOMAIN A))
       /\ Cardinality(Content(A, DOMAIN A)) <= Cardinality(both)
  <2> HIDE DEF both
  <2>1. Content(A, DOMAIN A) \in SUBSET both
    BY <1>7 DEF both
  <2> QED BY <1>9, <2>1, FS_Subset
<1>11. dirsize(A, DOMAIN A) <= dirsize(d, DOMAIN d) + LineMax
  <2> HIDE DEF both
  <2>1. Cardinality(Content(A, DOMAIN A)) \in Nat
    BY <1>10, FS_CardinalityType
  <2> QED BY <1>5, <1>8, <1>9, <1>10, <2>1 DEF dirsize
<1> QED BY <1>10, <1>11 DEF A

\* What pruning leaves is no larger than it was, and has the files that were not
\* removed.
LEMMA PruneSize ==
  ASSUME NEW d, NEW e, NEW gone \in SUBSET DOMAIN d, Files(d),
         DOMAIN e = DOMAIN d \ gone, \A f \in DOMAIN d \ gone : e[f] = d[f]
  PROVE  /\ dirsize(e, DOMAIN e) <= dirsize(d, DOMAIN d)
         /\ dirsize(e, DOMAIN e) \in Nat
         /\ Cardinality(DOMAIN e) = Cardinality(DOMAIN d) - Cardinality(gone)
<1>1. Content(e, DOMAIN e) \in SUBSET Content(d, DOMAIN d)
  BY ByteOf
<1>2. IsFiniteSet(Content(d, DOMAIN d)) /\ IsFiniteSet(gone) /\ IsFiniteSet(DOMAIN d)
  BY Contents
<1>3. /\ dirsize(e, DOMAIN e) <= dirsize(d, DOMAIN d)
      /\ dirsize(e, DOMAIN e) \in Nat
  BY <1>1, <1>2, FS_Subset, FS_CardinalityType DEF dirsize
<1>4. Cardinality(DOMAIN e) = Cardinality(DOMAIN d) - Cardinality(gone)
  <2>1. Cardinality(DOMAIN d \ gone) = Cardinality(DOMAIN d) - Cardinality(DOMAIN d \cap gone)
    BY <1>2, FS_Difference
  <2>2. DOMAIN d \cap gone = gone
    OBVIOUS
  <2> QED BY <2>1, <2>2
<1> QED BY <1>3, <1>4

\* A directory above its limit has five files at least, for four do not fill it.
LEMMA FiveFiles ==
  ASSUME NEW d, Files(d), dirsize(d, DOMAIN d) > DirMax
  PROVE  Cardinality(DOMAIN d) \in Nat /\ Cardinality(DOMAIN d) >= 5
<1> DEFINE n == Cardinality(DOMAIN d)
<1>1. /\ LongestFile \in Nat /\ DirMax \in Nat /\ 4 * LongestFile < DirMax
  BY LogAssumption DEF LogAssumption, LongestFile
<1>2. n \in Nat /\ dirsize(d, DOMAIN d) \in Nat
  BY Contents, FS_CardinalityType
<1>3. dirsize(d, DOMAIN d) <= n * LongestFile
  BY ManyFiles
<1> HIDE DEF n
<1>4. ASSUME n <= 4 PROVE FALSE
  <2>1. n = 0 \/ n = 1 \/ n = 2 \/ n = 3 \/ n = 4
    BY <1>2, <1>4
  <2> QED BY <1>1, <1>2, <1>3, <2>1
<1>5. n \in Nat /\ n >= 5
  BY <1>2, <1>4
<1> QED BY <1>5 DEF n

\* When a directory that was above its limit still is after a write, the write
\* removed more files than it made.
LEMMA PrunesEnough ==
  ASSUME NEW d, NEW e, Files(d), NEW n \in Nat,
         n >= 5, Cardinality(DOMAIN d) <= n + 1,
         NEW low \in BOOLEAN,
         NEW gone \in IF low THEN SpacePrune(d) ELSE SizePrune(d),
         DOMAIN e = DOMAIN d \ gone, \A f \in DOMAIN d \ gone : e[f] = d[f],
         dirsize(e, DOMAIN e) > DirMax
  PROVE  Cardinality(DOMAIN e) < n
<1> DEFINE m == Cardinality(DOMAIN d)
           g == Cardinality(gone)
<1>1. gone \in SUBSET DOMAIN d
  BY DEF SpacePrune, SizePrune
<1>2. /\ dirsize(e, DOMAIN e) <= dirsize(d, DOMAIN d)
      /\ dirsize(e, DOMAIN e) \in Nat /\ dirsize(d, DOMAIN d) \in Nat
      /\ Cardinality(DOMAIN e) = m - g
  BY <1>1, PruneSize, Contents
<1>3. m \in Nat /\ g \in Nat
  BY <1>1, Contents, FS_CardinalityType
<1>4. DirMax \in Nat /\ PruneMin \in Nat /\ LongestFile \in Nat /\ LongestFile < PruneMin
  BY LogAssumption DEF LogAssumption, LongestFile
<1>5. dirsize(d, DOMAIN d) > DirMax
  BY <1>2, <1>4
<1>6. m >= 5
  BY <1>5, FiveFiles
<1>7. CASE low
  <2>1. g = m \div 3
    BY <1>7 DEF SpacePrune
  <2> HIDE DEF m, g
  <2>2. m - m \div 3 < n
    <3>1. m <= n + 1
      BY DEF m
    <3> QED BY <1>3, <1>6, <3>1
  <2> QED BY <1>2, <2>1, <2>2
<1>8. CASE ~low
  <2>1. dirsize(d, gone) >= PruneMin \/ gone = DOMAIN d
    BY <1>4, <1>5, <1>8, <1>2 DEF SizePrune
  <2>2. gone # DOMAIN d
    <3> SUFFICES ASSUME gone = DOMAIN d PROVE FALSE
      OBVIOUS
    <3>1. DOMAIN e = {}
      OBVIOUS
    <3>2. Content(e, DOMAIN e) = {}
      BY <3>1 DEF Content
    <3>3. dirsize(e, DOMAIN e) = 0
      BY <3>2, FS_EmptySet DEF dirsize
    <3> QED BY <1>4, <3>3
  <2>3. dirsize(d, gone) <= g * LongestFile /\ dirsize(d, gone) \in Nat
    BY <1>1, ManyFiles, Contents
  <2> HIDE DEF m, g
  <2>4. g # 0 /\ g # 1
    BY <1>4, <2>1, <2>2, <2>3
  <2>5. m <= n + 1
    BY DEF m
  <2> QED BY <1>2, <1>3, <2>4, <2>5
<1> QED BY <1>7, <1>8

\* What a write may do to the size of the directory.
LEMMA WriteRoom ==
  ASSUME LogInv, NEW kind \in Kinds, NEW t \in Times, NEW size \in 1..LineMax,
         WriteLog(kind, t, size), DirSize' > DirMax
  PROVE  /\ DirSize' <= DirSize + LineMax
         /\ DirSize > DirMax => Cardinality(DOMAIN dir') < Cardinality(DOMAIN dir)
<1> DEFINE l == NewLine(kind, t, size)
           R == Rotated(dir, l)
           A == Appended(R, l)
<1>1. PICK low \in BOOLEAN :
        \E gone \in IF low THEN SpacePrune(A) ELSE SizePrune(A) :
          dir' = Restrict(A, DOMAIN A \ gone)
  BY DEF WriteLog
<1>2. PICK gone \in IF low THEN SpacePrune(A) ELSE SizePrune(A) :
        dir' = Restrict(A, DOMAIN A \ gone)
  BY <1>1
<1>3. LogPath(l) # bkpath(l) /\ l \in Line
  BY LogAssumption, NewName DEF NewLine, Line, LogInv, WriteLog, LogAssumption
<1>4. Files(dir) /\ Files(R) /\ Files(A)
  <2>1. Files(dir) /\ written \in 0..MaxLines /\ written < MaxLines
    BY DEF LogInv, WriteLog
  <2> QED BY <1>3, <2>1, AppendFits, RotateFits
<1>5. /\ DOMAIN dir' = DOMAIN A \ gone
      /\ \A f \in DOMAIN A \ gone : dir'[f] = A[f]
  BY <1>2, KeptFile
<1>6. DOMAIN A = DOMAIN R \cup {LogPath(l)}
  BY AppendedFile
<1> HIDE DEF l
<1>7. /\ dirsize(R, DOMAIN R) <= dirsize(dir, DOMAIN dir)
      /\ Cardinality(DOMAIN R \cup {LogPath(l)}) <= Cardinality(DOMAIN dir) + 1
  BY <1>3, <1>4, RotateSize
<1>8. dirsize(A, DOMAIN A) <= dirsize(R, DOMAIN R) + LineMax
  BY <1>3, <1>4, AppendSize
<1> HIDE DEF A, R
<1>9. /\ dirsize(dir', DOMAIN dir') <= dirsize(A, DOMAIN A)
      /\ dirsize(dir', DOMAIN dir') \in Nat
  <2>1. gone \in SUBSET DOMAIN A
    BY DEF SpacePrune, SizePrune
  <2> QED BY <1>4, <1>5, <2>1, PruneSize
<1>10. /\ dirsize(A, DOMAIN A) \in Nat /\ dirsize(R, DOMAIN R) \in Nat
       /\ dirsize(dir, DOMAIN dir) \in Nat /\ LineMax \in Nat
       /\ Cardinality(DOMAIN dir) \in Nat
  BY <1>4, Contents, FS_CardinalityType, LogAssumption DEF LogAssumption
<1>11. DirSize = dirsize(dir, DOMAIN dir) /\ DirSize' = dirsize(dir', DOMAIN dir')
  BY DEF DirSize, dirsize, Content, Bytes
<1>12. DirSize' <= DirSize + LineMax
  BY <1>7, <1>8, <1>9, <1>10, <1>11
<1>13. ASSUME DirSize > DirMax PROVE Cardinality(DOMAIN dir') < Cardinality(DOMAIN dir)
  <2>1. Cardinality(DOMAIN dir) >= 5
    BY <1>4, <1>11, <1>13, FiveFiles
  <2>2. Cardinality(DOMAIN A) <= Cardinality(DOMAIN dir) + 1
    BY <1>6, <1>7
  <2> QED BY <1>2, <1>4, <1>5, <1>10, <1>11, <2>1, <2>2, PrunesEnough
<1> QED BY <1>12, <1>13

\* The directory comes above its limit by one line at most, and there each line
\* leaves fewer files: pruning for size removes two, for one alone is shorter
\* than PruneMin, and pruning for space two of the six or more.
THEOREM LogRoom == LogSpec => DirBounded
<1> DEFINE Room ==
      DirSize' > DirMax =>
        /\ DirSize' <= DirSize + LineMax
        /\ DirSize > DirMax => Cardinality(DOMAIN dir') < Cardinality(DOMAIN dir)
<1>1. LogInv /\ [LogNext]_logVars => [Room]_logVars
  <2> SUFFICES ASSUME LogInv, LogNext, dir' # dir \/ written' # written
               PROVE  Room
    BY DEF logVars
  <2>1. PICK kind \in Kinds, t \in Times, size \in 1..LineMax :
          WriteLog(kind, t, size) \/ WriteThrows(kind, t, size)
    BY DEF LogNext
  <2>2. WriteLog(kind, t, size)
    BY <2>1 DEF WriteThrows, logVars
  <2> QED BY <2>2, WriteRoom
<1>2. LogSpec => []LogInv
  <2>1. LogSpec => [](LogInv /\ FileBounded)
    BY LogBounds
  <2> QED BY <2>1, PTL
<1> HIDE DEF Room
<1>3. LogSpec => [][Room]_logVars
  BY <1>1, <1>2, PTL DEF LogSpec
<1> QED BY <1>3 DEF Room, DirBounded
-----------------------------------------------------------------------------
(* Sets of numbers, and sets in an order                                    *)

LEMMA MinIs ==
  ASSUME NEW S \in SUBSET Nat, S # {}
  PROVE  Min(S) \in S /\ \A y \in S : Min(S) <= y
BY Least DEF Min

\* Elements of a finite set in a strict order: each is there, at its rank.
LEMMA Ranked ==
  ASSUME NEW S, IsFiniteSet(S), NEW R,
         \A x \in S : <<x, x>> \notin R,
         \A x, y \in S : x # y => <<x, y>> \in R \/ <<y, x>> \in R,
         \A x, y, z \in S : <<x, y>> \in R /\ <<y, z>> \in R => <<x, z>> \in R
  PROVE  LET s == InOrder(S, R) IN
         /\ Cardinality(S) \in Nat /\ DOMAIN s = 1..Cardinality(S)
         /\ \A i \in DOMAIN s : s[i] \in S
         /\ \A x \in S : \E i \in DOMAIN s : s[i] = x
         /\ \A i, j \in DOMAIN s : i < j => <<s[i], s[j]>> \in R
<1> DEFINE n == Cardinality(S)
           below(x) == {y \in S : <<y, x>> \in R}
           rank == [x \in S |-> Cardinality(below(x))]
           s == InOrder(S, R)
<1>1. n \in Nat
  BY FS_CardinalityType
<1>2. ASSUME NEW x \in S
      PROVE  /\ rank[x] \in 0..(n - 1) /\ rank[x] = Cardinality(below(x))
             /\ IsFiniteSet(below(x)) /\ Cardinality(below(x)) \in Nat
  <2>1. below(x) \in SUBSET (S \ {x})
    OBVIOUS
  <2>2. IsFiniteSet(S \ {x}) /\ Cardinality(S \ {x}) = n - 1
    BY FS_RemoveElement
  <2> HIDE DEF below, n
  <2>3. IsFiniteSet(below(x)) /\ Cardinality(below(x)) <= n - 1
    BY <2>1, <2>2, FS_Subset
  <2>4. Cardinality(below(x)) \in Nat
    BY <2>3, FS_CardinalityType
  <2>5. rank[x] = Cardinality(below(x))
    OBVIOUS
  <2> QED BY <1>1, <2>3, <2>4, <2>5
<1>3. ASSUME NEW x \in S, NEW y \in S, <<x, y>> \in R
      PROVE  rank[x] < rank[y]
  <2>1. below(x) \in SUBSET below(y) /\ x \in below(y) /\ x \notin below(x)
    BY <1>3
  <2> HIDE DEF below, rank
  <2>2. /\ Cardinality(below(x)) <= Cardinality(below(y))
        /\ Cardinality(below(x)) # Cardinality(below(y))
    BY <1>2, <2>1, FS_Subset
  <2> QED BY <1>2, <2>2
<1> HIDE DEF rank
<1>4. ASSUME NEW x \in S, NEW y \in S, rank[x] = rank[y] PROVE x = y
  <2>1. rank[x] \in Int /\ rank[y] \in Int
    <3> HIDE DEF n, below
    <3>1. rank[x] \in 0..(n - 1) /\ rank[y] \in 0..(n - 1)
      BY <1>2
    <3> QED BY <1>1, <3>1
  <2>2. <<x, y>> \notin R
    BY <1>3, <1>4, <2>1
  <2>3. <<y, x>> \notin R
    BY <1>3, <1>4, <2>1
  <2> QED BY <2>2, <2>3
<1>5. rank \in Surjection(S, 0..(n - 1))
  <2>1. DOMAIN rank = S
    BY DEF rank
  <2>2. rank \in [S -> 0..(n - 1)]
    <3>1. rank = [x \in S |-> rank[x]]
      BY DEF rank
    <3> HIDE DEF n
    <3> QED BY <1>2, <3>1
  <2>3. rank \in Injection(S, 0..(n - 1))
    <3> HIDE DEF n
    <3> QED BY <1>4, <2>1, <2>2 DEF Injection, IsInjective
  <2>4. IsFiniteSet(0..(n - 1)) /\ Cardinality(0..(n - 1)) = n
    <3>1. IsFiniteSet(0..(n - 1))
          /\ Cardinality(0..(n - 1)) = IF 0 > n - 1 THEN 0 ELSE n - 1 - 0 + 1
      <4>1. n - 1 \in Int /\ 0 \in Int
        BY <1>1
      <4> HIDE DEF n
      <4> QED BY <4>1, FS_Interval
    <3> HIDE DEF n
    <3> QED BY <1>1, <3>1
  <2> HIDE DEF n
  <2> QED BY <2>3, <2>4, FS_Injection DEF n
<1>6. ASSUME NEW i \in 1..n PROVE s[i] \in S /\ rank[s[i]] = i - 1
  <2>1. i - 1 \in 0..(n - 1)
    BY <1>1
  <2>2. \E x \in S : rank[x] = i - 1
    BY <1>5, <2>1 DEF Surjection
  <2>3. \E x \in S : Cardinality(below(x)) = i - 1
    BY <1>2, <2>2
  <2>4. s[i] = CHOOSE x \in S : Cardinality(below(x)) = i - 1
    BY DEF InOrder
  <2> HIDE DEF s, below
  <2>5. s[i] \in S /\ Cardinality(below(s[i])) = i - 1
    BY <2>3, <2>4
  <2> QED BY <1>2, <2>5
<1>7. DOMAIN s = 1..n
  BY DEF InOrder
<1> HIDE DEF s, below
<1>8. ASSUME NEW x \in S PROVE \E i \in 1..n : s[i] = x
  <2>1. rank[x] + 1 \in 1..n /\ (rank[x] + 1) - 1 = rank[x]
    <3> HIDE DEF n
    <3> QED BY <1>1, <1>2
  <2>2. s[rank[x] + 1] \in S /\ rank[s[rank[x] + 1]] = rank[x]
    BY <1>6, <2>1
  <2> QED BY <1>4, <2>1, <2>2
<1>9. ASSUME NEW i \in 1..n, NEW j \in 1..n, i < j PROVE <<s[i], s[j]>> \in R
  <2>1. /\ s[i] \in S /\ s[j] \in S
        /\ rank[s[i]] = i - 1 /\ rank[s[j]] = j - 1
    BY <1>6
  <2>2. s[i] # s[j]
    BY <1>1, <1>9, <2>1
  <2>3. <<s[j], s[i]>> \notin R
    <3>1. <<s[j], s[i]>> \in R => rank[s[j]] < rank[s[i]]
      BY <1>3, <2>1
    <3> QED BY <1>1, <1>9, <2>1, <3>1
  <2> QED BY <2>1, <2>2, <2>3
<1>10. /\ n \in Nat /\ DOMAIN s = 1..n
       /\ \A i \in DOMAIN s : s[i] \in S
       /\ \A x \in S : \E i \in DOMAIN s : s[i] = x
       /\ \A i, j \in DOMAIN s : i < j => <<s[i], s[j]>> \in R
  <2> HIDE DEF n
  <2> QED BY <1>1, <1>6, <1>7, <1>8, <1>9
<1> QED BY <1>10 DEF s

-----------------------------------------------------------------------------
(* maplog                                                                   *)

\* The key a line is given: the first that is free from its time on.
LEMMA Free ==
  ASSUME NEW m, IsFiniteSet(DOMAIN m), NEW t \in Nat
  PROVE  /\ FreeKey(m, t) \in Nat /\ FreeKey(m, t) >= t
         /\ FreeKey(m, t) \notin DOMAIN m
         /\ \A k \in t..(FreeKey(m, t) - 1) : k \in DOMAIN m
<1> DEFINE n == Cardinality(DOMAIN m)
           free == {k \in t..(t + n) : k \notin DOMAIN m}
<1>1. n \in Nat
  BY FS_CardinalityType
<1>2. free # {}
  <2> SUFFICES ASSUME free = {} PROVE FALSE
    OBVIOUS
  <2>1. t..(t + n) \in SUBSET DOMAIN m
    OBVIOUS
  <2>2. Cardinality(t..(t + n)) <= n
    BY <2>1, FS_Subset
  <2> HIDE DEF n
  <2>3. t + n \in Int /\ ~(t > t + n) /\ t + n - t + 1 = n + 1
    BY <1>1
  <2>4. Cardinality(t..(t + n)) = n + 1
    BY <1>1, <2>3, FS_Interval
  <2> QED BY <1>1, <2>2, <2>4
<1>3. free \in SUBSET Nat
  BY <1>1
<1>4. FreeKey(m, t) = Min(free)
  BY DEF FreeKey
<1>5. Min(free) \in free /\ \A y \in free : Min(free) <= y
  BY <1>2, <1>3, MinIs
<1> HIDE DEF n
<1> QED BY <1>1, <1>4, <1>5

\* maplog is what it says: there is such a function.
LEMMA Maplogs ==
  ASSUME NEW lines, Len(lines) \in Nat, NEW start, NEW end
  PROVE  LET m == maplog(lines, start, end) IN
         /\ DOMAIN m = 0..Len(lines) /\ m[0] = <<>>
         /\ \A i \in 1..Len(lines) : m[i] = Collect(m[i - 1], lines[i], start, end)
<1> DEFINE N == Len(lines)
           Good(n) == \E f : f = [i \in 0..n |->
                IF i = 0 THEN <<>> ELSE Collect(f[i - 1], lines[i], start, end)]
           S == {n \in 0..N : Good(n)}
<1>1. 0 \in S
  <2>1. [i \in 0..0 |-> <<>>] = [i \in 0..0 |->
          IF i = 0 THEN <<>> ELSE Collect([j \in 0..0 |-> <<>>][i - 1], lines[i], start, end)]
    OBVIOUS
  <2>2. Good(0)
    BY <2>1
  <2> QED BY <2>2
<1>2. ASSUME NEW n \in 0..(N - 1), n \in S PROVE n + 1 \in S
  <2>1. PICK f : f = [i \in 0..n |->
                IF i = 0 THEN <<>> ELSE Collect(f[i - 1], lines[i], start, end)]
    BY <1>2
  <2> DEFINE g == [i \in 0..(n + 1) |->
                IF i = n + 1 THEN Collect(f[n], lines[n + 1], start, end) ELSE f[i]]
             G == [i \in 0..(n + 1) |->
                IF i = 0 THEN <<>> ELSE Collect(g[i - 1], lines[i], start, end)]
  <2>2. ASSUME NEW i \in 0..(n + 1) PROVE g[i] = G[i]
    <3>1. CASE i = n + 1
      <4>1. i - 1 = n /\ i # 0 /\ n # n + 1 /\ n \in 0..(n + 1)
        BY <3>1
      <4>2. g[i - 1] = f[n]
        BY <4>1
      <4>3. G[i] = Collect(f[n], lines[n + 1], start, end)
        BY <3>1, <4>1, <4>2
      <4> QED BY <3>1, <4>3
    <3>2. CASE i = 0
      <4>1. g[i] = f[0] /\ f[0] = <<>>
        BY <2>1, <3>2
      <4> QED BY <3>2, <4>1
    <3>3. CASE i # n + 1 /\ i # 0
      <4>1. i \in 0..n /\ i - 1 \in 0..n /\ i - 1 # n + 1 /\ i - 1 \in 0..(n + 1)
        BY <3>3
      <4>2. g[i] = f[i] /\ g[i - 1] = f[i - 1]
        BY <3>3, <4>1
      <4>3. f[i] = Collect(f[i - 1], lines[i], start, end)
        BY <2>1, <3>3, <4>1
      <4> QED BY <3>3, <4>2, <4>3
    <3> QED BY <3>1, <3>2, <3>3
  <2>3. g = G
    BY <2>2
  <2>4. Good(n + 1)
    BY <2>3
  <2> QED BY <2>4
<1> HIDE DEF S
<1>3. N \in S
  <2> HIDE DEF N
  <2>1. N \in Nat
    BY DEF N
  <2>2. \A n \in 0..N : n \in S
    BY <1>1, <1>2, <2>1, Reached
  <2> QED BY <2>1, <2>2
<1>4. Good(N)
  BY <1>3 DEF S
<1> DEFINE m == maplog(lines, start, end)
<1>5. m = [i \in 0..N |->
              IF i = 0 THEN <<>> ELSE Collect(m[i - 1], lines[i], start, end)]
  BY <1>4, Zenon DEF maplog
<1> HIDE DEF m
<1>6. /\ DOMAIN m = 0..N /\ m[0] = <<>>
      /\ \A i \in 1..N : m[i] = Collect(m[i - 1], lines[i], start, end)
  BY <1>5
<1> QED BY <1>6 DEF m

\* What maplog holds of the first n lines: each line of the window under one key,
\* the first that was free from its time on
Held(log, lines, n, start, end) ==
  /\ IsFiniteSet(DOMAIN log) /\ DOMAIN log \subseteq Nat
  /\ \A k \in DOMAIN log : \E i \in 1..n :
       /\ log[k] = lines[i] /\ lines[i].time \in start..end /\ lines[i].time <= k
       /\ \A t \in lines[i].time..k : t \in DOMAIN log
  /\ \A i \in 1..n : lines[i].time \in start..end =>
       \E k \in DOMAIN log : log[k] = lines[i]
  /\ \A i, j \in 1..n : \A k, m \in DOMAIN log :
       log[k] = lines[i] /\ log[m] = lines[j] =>
         /\ i = j => k = m
         /\ i < j /\ lines[i].time = lines[j].time => k < m

\* A line more.
LEMMA CollectStep ==
  ASSUME NEW log, NEW lines, NEW n \in Nat, NEW start \in Nat, NEW end \in Nat,
         Held(log, lines, n, start, end),
         \A i \in 1..(n + 1) : lines[i].time \in Nat,
         \A i, j \in 1..(n + 1) : lines[i] = lines[j] => i = j
  PROVE  Held(Collect(log, lines[n + 1], start, end), lines, n + 1, start, end)
<1> DEFINE l == lines[n + 1]
           K == FreeKey(log, l.time)
           new == Collect(log, l, start, end)
<1>1. l.time \in Nat /\ n + 1 \in 1..(n + 1)
  OBVIOUS
<1>2. ASSUME NEW i \in 1..(n + 1), i # n + 1 PROVE i \in 1..n
  BY <1>2
<1>3. \A i \in 1..n : i \in 1..(n + 1) /\ i # n + 1 /\ lines[i] # l
  OBVIOUS
<1>4. CASE l.time \notin start..end
  <2>1. new = log
    BY <1>4 DEF Collect
  <2> HIDE DEF new, l
  <2>2. ASSUME NEW k \in DOMAIN log PROVE log[k] # l
    BY <1>3 DEF Held
  <2>3. ASSUME NEW k \in DOMAIN log, NEW i \in 1..(n + 1), log[k] = lines[i]
        PROVE  i \in 1..n
    BY <1>2, <2>2, <2>3 DEF l
  <2>4. \A i \in 1..(n + 1) : lines[i].time \in start..end =>
          \E k \in DOMAIN log : log[k] = lines[i]
    BY <1>2, <1>4 DEF Held, l
  <2>5. \A k \in DOMAIN log : \E i \in 1..(n + 1) :
       /\ log[k] = lines[i] /\ lines[i].time \in start..end /\ lines[i].time <= k
       /\ \A t \in lines[i].time..k : t \in DOMAIN log
    BY <1>3 DEF Held
  <2>6. Held(log, lines, n + 1, start, end)
    BY <2>3, <2>4, <2>5 DEF Held
  <2> QED BY <2>1, <2>6 DEF new, l
<1>5. CASE l.time \in start..end
  <2>1. IsFiniteSet(DOMAIN log) /\ DOMAIN log \subseteq Nat
    BY DEF Held
  <2>2. /\ K \in Nat /\ K >= l.time /\ K \notin DOMAIN log
        /\ \A t \in l.time..(K - 1) : t \in DOMAIN log
    BY <1>1, <2>1, Free
  <2>3. /\ DOMAIN new = DOMAIN log \cup {K} /\ new[K] = l
        /\ \A k \in DOMAIN log : new[k] = log[k]
    BY <1>5, <2>2 DEF Collect
  <2> HIDE DEF new, l, K
  <2>4. ASSUME NEW k \in DOMAIN log PROVE log[k] # l
    BY <1>3 DEF Held
  <2>5. IsFiniteSet(DOMAIN new) /\ DOMAIN new \subseteq Nat
    BY <2>1, <2>2, <2>3, FS_AddElement
  <2>6. ASSUME NEW k \in DOMAIN new
        PROVE  \E i \in 1..(n + 1) :
                 /\ new[k] = lines[i] /\ lines[i].time \in start..end
                 /\ lines[i].time <= k
                 /\ \A t \in lines[i].time..k : t \in DOMAIN new
    <3>1. CASE k = K
      <4>1. \A t \in l.time..K : t \in DOMAIN new
        BY <1>1, <2>2, <2>3
      <4> QED BY <1>1, <1>5, <2>2, <2>3, <3>1, <4>1 DEF l
    <3>2. CASE k \in DOMAIN log
      <4>1. PICK i \in 1..n :
              /\ log[k] = lines[i] /\ lines[i].time \in start..end
              /\ lines[i].time <= k
              /\ \A t \in lines[i].time..k : t \in DOMAIN log
        BY <3>2 DEF Held
      <4> QED BY <1>3, <2>3, <3>2, <4>1
    <3> QED BY <2>3, <3>1, <3>2
  <2>7. ASSUME NEW i \in 1..(n + 1), lines[i].time \in start..end
        PROVE  \E k \in DOMAIN new : new[k] = lines[i]
    <3>1. CASE i = n + 1
      BY <2>3, <3>1 DEF l
    <3>2. CASE i # n + 1
      <4>1. PICK k \in DOMAIN log : log[k] = lines[i]
        BY <1>2, <2>7, <3>2 DEF Held
      <4> QED BY <2>3, <4>1
    <3> QED BY <3>1, <3>2
\* Where a line is
  <2>8. ASSUME NEW k \in DOMAIN new, NEW i \in 1..(n + 1), new[k] = lines[i]
        PROVE  \/ k = K /\ i = n + 1
               \/ k \in DOMAIN log /\ i \in 1..n /\ log[k] = lines[i]
    <3>1. CASE k = K
      <4>1. lines[i] = lines[n + 1]
        BY <2>3, <2>8, <3>1 DEF l
      <4> QED BY <1>1, <3>1, <4>1
    <3>2. CASE k # K
      <4>1. k \in DOMAIN log /\ log[k] = lines[i]
        BY <2>3, <2>8, <3>2
      <4>2. i # n + 1
        BY <2>4, <4>1 DEF l
      <4> QED BY <1>2, <4>1, <4>2
    <3> QED BY <3>1, <3>2
\* A line of the same time that was there is under an earlier key
  <2>9. ASSUME NEW i \in 1..n, NEW k \in DOMAIN log, log[k] = lines[i],
               lines[i].time = l.time
        PROVE  k < K
    <3>1. PICK h \in 1..n :
            /\ log[k] = lines[h] /\ lines[h].time <= k
            /\ \A t \in lines[h].time..k : t \in DOMAIN log
      BY DEF Held
    <3>2. h = i
      BY <1>3, <2>9, <3>1
    <3>3. K \notin l.time..k
      BY <2>2, <2>9, <3>1, <3>2
    <3> QED BY <1>1, <2>1, <2>2, <3>3
  <2>10. ASSUME NEW i \in 1..(n + 1), NEW j \in 1..(n + 1),
                NEW k \in DOMAIN new, NEW m \in DOMAIN new,
                new[k] = lines[i], new[m] = lines[j]
         PROVE  /\ i = j => k = m
                /\ i < j /\ lines[i].time = lines[j].time => k < m
    <3>1. CASE k = K /\ i = n + 1
      BY <1>3, <2>8, <2>10, <3>1
    <3>2. CASE k \in DOMAIN log /\ i \in 1..n /\ log[k] = lines[i]
      <4>1. CASE m = K /\ j = n + 1
        BY <1>3, <2>9, <3>2, <4>1 DEF l
      <4>2. CASE m \in DOMAIN log /\ j \in 1..n /\ log[m] = lines[j]
        BY <3>2, <4>2 DEF Held
      <4> QED BY <2>8, <2>10, <4>1, <4>2
    <3> QED BY <2>8, <2>10, <3>1, <3>2
  <2>11. Held(new, lines, n + 1, start, end)
    BY <2>5, <2>6, <2>7, <2>10 DEF Held
  <2> QED BY <2>11 DEF new, l
<1> QED BY <1>4, <1>5

\* All lines.
LEMMA Collected ==
  ASSUME NEW lines, Len(lines) \in Nat, NEW start \in Nat, NEW end \in Nat,
         \A i \in 1..Len(lines) : lines[i].time \in Nat,
         \A i, j \in 1..Len(lines) : lines[i] = lines[j] => i = j
  PROVE  Held(maplog(lines, start, end)[Len(lines)], lines, Len(lines), start, end)
<1> DEFINE N == Len(lines)
           m == maplog(lines, start, end)
           S == {n \in 0..N : Held(m[n], lines, n, start, end)}
<1>1. /\ m[0] = <<>>
      /\ \A i \in 1..N : m[i] = Collect(m[i - 1], lines[i], start, end)
  BY Maplogs
<1> HIDE DEF m
<1>2. 0 \in S
  <2>1. DOMAIN m[0] = {}
    BY <1>1
  <2>2. IsFiniteSet(DOMAIN m[0])
    BY <2>1, FS_EmptySet
  <2>3. Held(m[0], lines, 0, start, end)
    BY <2>1, <2>2 DEF Held
  <2> QED BY <2>3
<1>3. ASSUME NEW n \in 0..(N - 1), n \in S PROVE n + 1 \in S
  <2>1. n \in Nat /\ n + 1 \in 1..N /\ (n + 1) - 1 = n /\ n + 1 \in 0..N
    OBVIOUS
  <2>2. m[n + 1] = Collect(m[n], lines[n + 1], start, end)
    BY <1>1, <2>1
  <2>3. \A i \in 1..(n + 1) : i \in 1..N
    BY <2>1
  <2>4. Held(m[n], lines, n, start, end)
    BY <1>3
  <2>5. /\ \A i \in 1..(n + 1) : lines[i].time \in Nat
        /\ \A i, j \in 1..(n + 1) : lines[i] = lines[j] => i = j
    BY <2>3
  <2>6. Held(Collect(m[n], lines[n + 1], start, end), lines, n + 1, start, end)
    <3> HIDE DEF N, S
    <3> QED BY <2>1, <2>4, <2>5, CollectStep
  <2> QED BY <2>1, <2>2, <2>6
<1> HIDE DEF S
<1>4. N \in S
  <2>1. N \in Nat
    OBVIOUS
  <2> HIDE DEF N
  <2>2. \A n \in 0..N : n \in S
    BY <1>2, <1>3, <2>1, Reached
  <2> QED BY <2>1, <2>2
<1> QED BY <1>4 DEF S, m

-----------------------------------------------------------------------------
(* What getLogMsg reads                                                     *)

\* The order in which places are read is a strict order.
LEMMA ReadOrder ==
  ASSUME NEW files \in SUBSET DOMAIN dir, NEW listing \in Listings(files),
         \A f \in files : DOMAIN dir[f] \subseteq Nat
  PROVE  LET S == Places(dir, files)
             R == ReadBefore(listing, S)
         IN /\ \A x \in S : <<x, x>> \notin R
            /\ \A x, y \in S : x # y => <<x, y>> \in R \/ <<y, x>> \in R
            /\ \A x, y, z \in S : <<x, y>> \in R /\ <<y, z>> \in R => <<x, z>> \in R
            /\ \A x, y \in S : <<x, y>> \in R /\ x[1] = y[1] => x[2] < y[2]
<1> DEFINE S == Places(dir, files)
           R == ReadBefore(listing, S)
<1>1. ASSUME NEW f \in files, NEW g \in files
      PROVE  listing[f] \in Int /\ (f # g => listing[f] # listing[g])
  <2>1. listing \in [files -> 1..Cardinality(files)]
    BY DEF Listings, Injection
  <2>2. DOMAIN listing = files
    BY <2>1
  <2>3. listing[f] \in 1..Cardinality(files)
    BY <2>1
  <2>4. f # g => listing[f] # listing[g]
    BY <2>2 DEF Listings, Injection, IsInjective
  <2> QED BY <2>3, <2>4
<1>2. ASSUME NEW x \in S
      PROVE  /\ x = <<x[1], x[2]>> /\ x[1] \in files /\ x[2] \in Nat
  <2>1. PICK f \in files : \E i \in DOMAIN dir[f] : x = <<f, i>>
    BY PlaceOf
  <2>2. PICK i \in DOMAIN dir[f] : x = <<f, i>>
    BY <2>1
  <2> QED BY <2>2
<1>3. ASSUME NEW x \in S, NEW y \in S
      PROVE  <<x, y>> \in R <=>
               listing[x[1]] < listing[y[1]] \/ (x[1] = y[1] /\ x[2] < y[2])
  <2>1. R = {pq \in S \X S :
               \/ listing[pq[1][1]] < listing[pq[2][1]]
               \/ pq[1][1] = pq[2][1] /\ pq[1][2] < pq[2][2]}
    BY DEF ReadBefore
  <2> HIDE DEF S, R
  <2>2. <<x, y>> \in S \X S /\ <<x, y>>[1] = x /\ <<x, y>>[2] = y
    OBVIOUS
  <2> QED BY <2>1, <2>2
<1> HIDE DEF S, R
<1>4. ASSUME NEW x \in S, NEW y \in S, x # y PROVE <<x, y>> \in R \/ <<y, x>> \in R
  <2>1. CASE x[1] = y[1]
    <3>1. x[2] # y[2] /\ x[2] \in Nat /\ y[2] \in Nat
      BY <1>2, <1>4, <2>1
    <3>2. x[2] < y[2] \/ y[2] < x[2]
      BY <3>1
    <3> QED BY <1>3, <2>1, <3>2
  <2>2. CASE x[1] # y[1]
    <3>1. /\ listing[x[1]] \in Int /\ listing[y[1]] \in Int
          /\ listing[x[1]] # listing[y[1]]
      BY <1>1, <1>2, <2>2
    <3>2. listing[x[1]] < listing[y[1]] \/ listing[y[1]] < listing[x[1]]
      BY <3>1
    <3>3. listing[x[1]] < listing[y[1]] => <<x, y>> \in R
      BY <1>3
    <3>4. listing[y[1]] < listing[x[1]] => <<y, x>> \in R
      BY <1>3
    <3> QED BY <3>2, <3>3, <3>4
  <2> QED BY <2>1, <2>2
<1>5. ASSUME NEW x \in S, NEW y \in S, NEW z \in S, <<x, y>> \in R, <<y, z>> \in R
      PROVE  <<x, z>> \in R
  <2>1. /\ listing[x[1]] \in Int /\ listing[y[1]] \in Int /\ listing[z[1]] \in Int
        /\ x[2] \in Nat /\ y[2] \in Nat /\ z[2] \in Nat
    BY <1>1, <1>2
  <2>2. listing[x[1]] < listing[y[1]] \/ (x[1] = y[1] /\ x[2] < y[2])
    BY <1>3, <1>5
  <2>3. listing[y[1]] < listing[z[1]] \/ (y[1] = z[1] /\ y[2] < z[2])
    BY <1>3, <1>5
  <2>4. listing[x[1]] < listing[z[1]] \/ (x[1] = z[1] /\ x[2] < z[2])
    BY <2>1, <2>2, <2>3
  <2>5. listing[x[1]] < listing[z[1]] => <<x, z>> \in R
    BY <1>3
  <2>6. x[1] = z[1] /\ x[2] < z[2] => <<x, z>> \in R
    BY <1>3
  <2> QED BY <2>4, <2>5, <2>6
<1>6. ASSUME NEW x \in S PROVE <<x, x>> \notin R
  <2>1. listing[x[1]] \in Int /\ x[2] \in Nat
    BY <1>1, <1>2
  <2> QED BY <1>3, <2>1
<1>7. ASSUME NEW x \in S, NEW y \in S, <<x, y>> \in R, x[1] = y[1] PROVE x[2] < y[2]
  <2>1. listing[x[1]] \in Int
    BY <1>1, <1>2
  <2> QED BY <1>3, <1>7, <2>1
<1>8. /\ \A x \in S : <<x, x>> \notin R
      /\ \A x, y \in S : x # y => <<x, y>> \in R \/ <<y, x>> \in R
      /\ \A x, y, z \in S : <<x, y>> \in R /\ <<y, z>> \in R => <<x, z>> \in R
      /\ \A x, y \in S : <<x, y>> \in R /\ x[1] = y[1] => x[2] < y[2]
  BY <1>4, <1>5, <1>6, <1>7
<1> QED BY <1>8 DEF S, R

\* The lines of the files that are covered, each once, and lines of one file in
\* the order of their numbers
AllRead(lines, type, start, end) ==
  /\ Len(lines) \in Nat /\ DOMAIN lines = 1..Len(lines)
  /\ \A i \in DOMAIN lines : \E f \in Covered(type, start, end) :
       lines[i] \in ToSet(dir[f]) /\ lines[i] \in Line /\ Fits(lines[i], f)
  /\ \A f \in Covered(type, start, end) : \A l \in ToSet(dir[f]) :
       \E i \in DOMAIN lines : lines[i] = l
  /\ \A i, j \in DOMAIN lines : lines[i] = lines[j] => i = j
  /\ \A i, j \in DOMAIN lines : \A f \in DOMAIN dir :
       i < j /\ lines[i] \in ToSet(dir[f]) /\ lines[j] \in ToSet(dir[f]) =>
         lines[i].id < lines[j].id

\* That is what is read, whatever order the directory is listed in.
LEMMA LinesRead ==
  ASSUME Filed(dir, written), Files(dir),
         NEW type, NEW start, NEW end,
         NEW listing \in Listings(Covered(type, start, end))
  PROVE  AllRead(Reading(listing, type, start, end), type, start, end)
<1> DEFINE files == Covered(type, start, end)
           S == Places(dir, files)
           R == ReadBefore(listing, S)
           o == InOrder(S, R)
           n == Cardinality(S)
           lines == Reading(listing, type, start, end)
<1>1. files \in SUBSET DOMAIN dir
  BY DEF Covered
<1>2. IsFiniteSet(S)
  <2> HIDE DEF files
  <2> QED BY <1>1, Contents
<1>3. \A f \in files : DOMAIN dir[f] \subseteq Nat
  <2> SUFFICES ASSUME NEW f \in files PROVE DOMAIN dir[f] \subseteq Nat
    OBVIOUS
  <2>1. dir[f] \in Seq(Line)
    BY <1>1 DEF Filed
  <2> QED BY <2>1
<1>17. listing \in Listings(files)
  OBVIOUS
<1> HIDE DEF files
<1>4. /\ \A x \in S : <<x, x>> \notin R
      /\ \A x, y \in S : x # y => <<x, y>> \in R \/ <<y, x>> \in R
      /\ \A x, y, z \in S : <<x, y>> \in R /\ <<y, z>> \in R => <<x, z>> \in R
      /\ \A x, y \in S : <<x, y>> \in R /\ x[1] = y[1] => x[2] < y[2]
  BY <1>1, <1>3, <1>17, ReadOrder
<1>5. /\ \A x \in S : \E f \in files : \E i \in DOMAIN dir[f] : x = <<f, i>>
      /\ \A f \in files : \A i \in DOMAIN dir[f] : <<f, i>> \in S
  BY PlaceOf
<1>6. lines = [i \in DOMAIN o |-> dir[o[i][1]][o[i][2]]]
  BY DEF Reading, Covered, files
<1> HIDE DEF S, R
<1>7. /\ n \in Nat /\ DOMAIN o = 1..n
      /\ \A i \in DOMAIN o : o[i] \in S
      /\ \A x \in S : \E i \in DOMAIN o : o[i] = x
      /\ \A i, j \in DOMAIN o : i < j => <<o[i], o[j]>> \in R
  BY <1>2, <1>4, Ranked
<1> HIDE DEF o, n, lines
<1>8. ASSUME NEW i \in 1..n
      PROVE  /\ o[i][1] \in files /\ o[i][1] \in DOMAIN dir
             /\ o[i][2] \in DOMAIN dir[o[i][1]] /\ o[i] = <<o[i][1], o[i][2]>>
             /\ lines[i] = dir[o[i][1]][o[i][2]]
  <2>1. o[i] \in S /\ lines[i] = dir[o[i][1]][o[i][2]]
    BY <1>6, <1>7
  <2>2. PICK f \in files : \E h \in DOMAIN dir[f] : o[i] = <<f, h>>
    BY <1>5, <2>1
  <2>3. PICK h \in DOMAIN dir[f] : o[i] = <<f, h>>
    BY <2>2
  <2> QED BY <1>1, <2>1, <2>3
<1>9. ASSUME NEW i \in 1..n
      PROVE  /\ lines[i] \in Line /\ lines[i] \in ToSet(dir[o[i][1]])
             /\ Fits(lines[i], o[i][1])
  <2>1. dir[o[i][1]] \in Seq(Line)
    BY <1>8 DEF Filed
  <2>2. lines[i] \in Line
    BY <1>8, <2>1
  <2>3. lines[i] \in ToSet(dir[o[i][1]])
    BY <1>8 DEF ToSet
  <2>4. Fits(lines[i], o[i][1])
    BY <1>8 DEF Filed
  <2> QED BY <2>2, <2>3, <2>4
<1>10. Len(lines) = n /\ DOMAIN lines = 1..n
  <2>1. lines \in [1..n -> Line]
    BY <1>6, <1>7, <1>9
  <2>2. Len(lines) = n
    BY <1>7, <2>1, Long
  <2> QED BY <2>1, <2>2
<1>11. ASSUME NEW f \in files, NEW l \in ToSet(dir[f])
       PROVE  \E i \in 1..n : lines[i] = l
  <2>1. PICK h \in DOMAIN dir[f] : l = dir[f][h]
    BY DEF ToSet
  <2>2. PICK i \in 1..n : o[i] = <<f, h>>
    BY <1>5, <1>7
  <2> QED BY <1>8, <2>1, <2>2
\* A line is at one place only
<1>12. ASSUME NEW i \in 1..n, NEW f \in DOMAIN dir, NEW h \in DOMAIN dir[f],
              lines[i] = dir[f][h]
       PROVE  o[i][1] = f /\ o[i][2] = h
  <2>1. dir[o[i][1]][o[i][2]].id = dir[f][h].id
    BY <1>8, <1>12
  <2> QED BY <1>8, <2>1 DEF Filed
<1>13. ASSUME NEW i \in 1..n, NEW j \in 1..n, i < j
       PROVE  <<o[i], o[j]>> \in R /\ o[i] \in S /\ o[j] \in S
  BY <1>7, <1>13
<1>14. ASSUME NEW i \in 1..n, NEW j \in 1..n, lines[i] = lines[j] PROVE i = j
  <2>1. o[i][1] = o[j][1] /\ o[i][2] = o[j][2]
    BY <1>8, <1>12, <1>14
  <2>2. o[i] = o[j]
    BY <1>8, <2>1
  <2>3. ~(i < j) /\ ~(j < i)
    BY <1>4, <1>13, <2>2
  <2> QED BY <1>7, <2>3
<1>15. ASSUME NEW i \in 1..n, NEW j \in 1..n, NEW f \in DOMAIN dir, i < j,
              lines[i] \in ToSet(dir[f]), lines[j] \in ToSet(dir[f])
       PROVE  lines[i].id < lines[j].id
  <2>1. o[i][1] = f /\ o[j][1] = f
    BY <1>12, <1>15 DEF ToSet
  <2>2. o[i][2] < o[j][2]
    BY <1>4, <1>13, <1>15, <2>1
  <2> QED BY <1>8, <2>1, <2>2 DEF Filed
<1>16. AllRead(lines, type, start, end)
  <2>1. ASSUME NEW i \in DOMAIN lines
        PROVE  \E f \in files :
                 lines[i] \in ToSet(dir[f]) /\ lines[i] \in Line /\ Fits(lines[i], f)
    BY <1>8, <1>9, <1>10
  <2> QED BY <1>7, <1>10, <1>11, <1>14, <1>15, <2>1 DEF AllRead, files
<1> QED BY <1>16 DEF lines

-----------------------------------------------------------------------------
(* What getLogMsg answers                                                   *)

\* Days come in the order of the times.
LEMMA Days ==
  ASSUME NEW t \in Nat, NEW u \in Nat, t <= u
  PROVE  Day(t) <= Day(u) /\ Day(t) \in Nat /\ Day(u) \in Nat
<1>1. DayTicks \in Nat \ {0}
  BY LogAssumption DEF LogAssumption
<1> DEFINE D == DayTicks
           a == t \div D
           b == u \div D
<1>2. /\ a \in Nat /\ b \in Nat
      /\ D * a <= t /\ u < D * (b + 1)
  BY <1>1
<1>3. ASSUME a > b PROVE FALSE
  <2> HIDE DEF a, b, D
  <2>1. D \in Nat
    BY <1>1 DEF D
  <2>2. D * (b + 1) <= D * a
    BY <1>2, <1>3, <2>1
  <2>3. D * (b + 1) \in Nat /\ D * a \in Nat
    BY <1>2, <2>1
  <2> QED BY <1>2, <2>2, <2>3
<1> HIDE DEF a, b
<1>4. a <= b
  BY <1>2, <1>3
<1> QED BY <1>2, <1>4 DEF a, b, Day

\* The lines of maplog in the order of its keys
InKeyOrder(answer, log) ==
  \E keys :
    /\ Cardinality(DOMAIN log) \in Nat /\ DOMAIN keys = 1..Cardinality(DOMAIN log)
    /\ answer = [i \in DOMAIN keys |-> log[keys[i]]]
    /\ \A i \in DOMAIN keys : keys[i] \in DOMAIN log
    /\ \A k \in DOMAIN log : \E i \in DOMAIN keys : keys[i] = k
    /\ \A i, j \in DOMAIN keys : i < j => keys[i] < keys[j]

\* What getLogMsg answers, in terms of maplog.
LEMMA Answer ==
  ASSUME Filed(dir, written), Files(dir),
         NEW type, NEW start \in Nat, NEW end \in Nat,
         NEW listing \in Listings(Covered(type, start, end))
  PROVE  LET lines == Reading(listing, type, start, end)
             log == maplog(lines, start, end)[Len(lines)]
             answer == getLogMsg(listing, type, start, end)
         IN /\ Spoiled(type, start, end) => answer = Unparsable
            /\ ~Spoiled(type, start, end) => InKeyOrder(answer, log)
            /\ Held(log, lines, Len(lines), start, end)
<1> DEFINE lines == Reading(listing, type, start, end)
           log == maplog(lines, start, end)[Len(lines)]
           answer == getLogMsg(listing, type, start, end)
           times == DOMAIN log
           earlier == {kk \in times \X times : kk[1] < kk[2]}
           keys == InOrder(times, earlier)
           bad == \E i \in DOMAIN lines : WholeSecond(lines[i].time)
<1>1. answer = IF bad THEN Unparsable ELSE [i \in DOMAIN keys |-> log[keys[i]]]
  BY DEF getLogMsg
<1>2. AllRead(lines, type, start, end)
  BY LinesRead
<1> HIDE DEF lines, answer
<1>3. bad <=> Spoiled(type, start, end)
  <2>1. ASSUME bad PROVE Spoiled(type, start, end)
    BY <1>2, <2>1 DEF Spoiled, Covered, AllRead
  <2>2. ASSUME Spoiled(type, start, end) PROVE bad
    <3>1. PICK f \in DOMAIN dir : \E l \in ToSet(dir[f]) :
             Covers(f, type, start, end) /\ WholeSecond(l.time)
      BY <2>2 DEF Spoiled
    <3>2. PICK l \in ToSet(dir[f]) : Covers(f, type, start, end) /\ WholeSecond(l.time)
      BY <3>1
    <3>3. f \in Covered(type, start, end)
      BY <3>2 DEF Covered
    <3> QED BY <1>2, <3>2, <3>3 DEF AllRead
  <2> QED BY <2>1, <2>2
<1>4. Held(log, lines, Len(lines), start, end)
  <2>1. \A i \in 1..Len(lines) : lines[i].time \in Nat
    BY <1>2, LogAssumption DEF AllRead, Line, LogAssumption
  <2> QED BY <1>2, <2>1, Collected DEF AllRead
<1> HIDE DEF bad, log
<1>5. IsFiniteSet(times) /\ times \subseteq Nat
  BY <1>4 DEF Held
<1> HIDE DEF times
<1>6. ASSUME NEW x \in times, NEW y \in times
      PROVE  <<x, y>> \in earlier <=> x < y
  OBVIOUS
<1> HIDE DEF earlier
<1>7. /\ \A x \in times : <<x, x>> \notin earlier
      /\ \A x, y \in times : x # y => <<x, y>> \in earlier \/ <<y, x>> \in earlier
      /\ \A x, y, z \in times :
           <<x, y>> \in earlier /\ <<y, z>> \in earlier => <<x, z>> \in earlier
  BY <1>5, <1>6
<1>8. /\ Cardinality(times) \in Nat /\ DOMAIN keys = 1..Cardinality(times)
      /\ \A i \in DOMAIN keys : keys[i] \in times
      /\ \A k \in times : \E i \in DOMAIN keys : keys[i] = k
      /\ \A i, j \in DOMAIN keys : i < j => <<keys[i], keys[j]>> \in earlier
  BY <1>5, <1>7, Ranked
<1> HIDE DEF keys
<1>9. \A i, j \in DOMAIN keys : i < j => keys[i] < keys[j]
  BY <1>6, <1>8
<1>10. Spoiled(type, start, end) => answer = Unparsable
  BY <1>1, <1>3
<1>11. ~Spoiled(type, start, end) => answer = [i \in DOMAIN keys |-> log[keys[i]]]
  BY <1>1, <1>3
<1>12. ~Spoiled(type, start, end) => InKeyOrder(answer, log)
  BY <1>8, <1>9, <1>11 DEF InKeyOrder, times
<1> QED BY <1>4, <1>10, <1>12 DEF log, lines, answer

\* Every line of the window is in a file that is covered, and no line but of the
\* type is.
LEMMA CoveredLines ==
  ASSUME Filed(dir, written), NEW f \in DOMAIN dir, NEW l \in ToSet(dir[f]),
         NEW type, NEW start \in Nat, NEW end \in Nat, l.time \in start..end
  PROVE  f \in Covered(type, start, end) <=> type \in {l.kind, AllKinds}
<1>1. PICK i \in DOMAIN dir[f] : l = dir[f][i]
  BY DEF ToSet
<1>2. Fits(l, f) /\ l \in Line
  <2>1. dir[f] \in Seq(Line)
    BY DEF Filed
  <2> QED BY <1>1, <2>1 DEF Filed
<1>3. l.time \in Nat /\ start <= l.time /\ l.time <= end
  BY <1>2, LogAssumption DEF Line, LogAssumption
<1>4. /\ Day(start) <= Day(l.time) /\ Day(l.time) <= Day(end)
      /\ Day(l.time) \in Nat /\ Day(start) \in Nat /\ Day(end) \in Nat
  BY <1>3, Days
<1>5. f.day \in Day(start)..Day(end) /\ f.kind = l.kind
  BY <1>2, <1>4 DEF Fits
<1> QED BY <1>5 DEF Covered, Covers

LEMMA AnswerComplete ==
  ASSUME Filed(dir, written), Files(dir),
         NEW type, NEW start \in Nat, NEW end \in Nat,
         NEW listing \in Listings(Covered(type, start, end))
  PROVE  LET answer == getLogMsg(listing, type, start, end) IN
         IF Spoiled(type, start, end)
           THEN answer = Unparsable
           ELSE /\ ToSet(answer) = InWindow(type, start, end)
                /\ Len(answer) = Cardinality(InWindow(type, start, end))
<1> DEFINE lines == Reading(listing, type, start, end)
           log == maplog(lines, start, end)[Len(lines)]
           answer == getLogMsg(listing, type, start, end)
           W == InWindow(type, start, end)
           n == Cardinality(DOMAIN log)
<1>1. /\ Spoiled(type, start, end) => answer = Unparsable
      /\ ~Spoiled(type, start, end) => InKeyOrder(answer, log)
      /\ Held(log, lines, Len(lines), start, end)
  BY Answer
<1>2. AllRead(lines, type, start, end)
  BY LinesRead
<1> HIDE DEF answer, log, lines
\* maplog holds the lines of the window, each once
<1>3. [k \in DOMAIN log |-> log[k]] \in Bijection(DOMAIN log, W)
  <2>1. ASSUME NEW k \in DOMAIN log PROVE log[k] \in W
    <3>1. PICK i \in 1..Len(lines) : log[k] = lines[i] /\ lines[i].time \in start..end
      BY <1>1 DEF Held
    <3>2. PICK f \in Covered(type, start, end) : lines[i] \in ToSet(dir[f])
      BY <1>2, <3>1 DEF AllRead
    <3>3. f \in DOMAIN dir
      BY DEF Covered
    <3>4. type \in {lines[i].kind, AllKinds}
      BY <3>1, <3>2, <3>3, CoveredLines
    <3> QED BY <3>1, <3>2, <3>3, <3>4 DEF InWindow, LinesOf
  <2>2. ASSUME NEW k \in DOMAIN log, NEW m \in DOMAIN log, log[k] = log[m]
        PROVE  k = m
    <3>1. PICK i \in 1..Len(lines) : log[k] = lines[i]
      BY <1>1 DEF Held
    <3>2. log[m] = lines[i]
      BY <2>2, <3>1
    <3>3. \A x, y \in DOMAIN log : log[x] = lines[i] /\ log[y] = lines[i] => x = y
      BY <1>1, <3>1 DEF Held
    <3> QED BY <3>1, <3>2, <3>3
  <2>3. ASSUME NEW l \in W PROVE \E k \in DOMAIN log : log[k] = l
    <3>1. /\ l \in LinesOf(dir) /\ type \in {l.kind, AllKinds}
          /\ l.time \in start..end
      BY DEF InWindow
    <3>2. PICK f \in DOMAIN dir : l \in ToSet(dir[f])
      BY <3>1 DEF LinesOf
    <3>3. f \in Covered(type, start, end)
      BY <3>1, <3>2, CoveredLines
    <3>4. PICK i \in 1..Len(lines) : lines[i] = l
      BY <1>2, <3>2, <3>3 DEF AllRead
    <3> QED BY <1>1, <3>1, <3>4 DEF Held
  <2> HIDE DEF W
  <2> DEFINE b == [k \in DOMAIN log |-> log[k]]
  <2>4. b \in [DOMAIN log -> W] /\ DOMAIN b = DOMAIN log
    BY <2>1
  <2>5. \A k \in DOMAIN log : b[k] = log[k]
    OBVIOUS
  <2> HIDE DEF b
  <2>6. b \in Injection(DOMAIN log, W)
    BY <2>2, <2>4, <2>5 DEF Injection, IsInjective
  <2>7. b \in Surjection(DOMAIN log, W)
    BY <2>3, <2>4, <2>5 DEF Surjection
  <2> QED BY <2>6, <2>7 DEF Bijection, b
<1>4. n = Cardinality(W)
  <2>1. IsFiniteSet(DOMAIN log) /\ ExistsBijection(DOMAIN log, W)
    BY <1>1, <1>3 DEF Held, ExistsBijection
  <2> QED BY <2>1, FS_Bijection
<1>5. ASSUME ~Spoiled(type, start, end)
      PROVE  ToSet(answer) = W /\ Len(answer) = Cardinality(W)
  <2>1. PICK keys :
             /\ n \in Nat /\ DOMAIN keys = 1..n
             /\ answer = [i \in DOMAIN keys |-> log[keys[i]]]
             /\ \A i \in DOMAIN keys : keys[i] \in DOMAIN log
             /\ \A k \in DOMAIN log : \E i \in DOMAIN keys : keys[i] = k
    BY <1>1, <1>5 DEF InKeyOrder
  <2>2. \A k \in DOMAIN log : log[k] \in W
    BY <1>3 DEF Bijection, Injection
  <2>3. \A l \in W : \E k \in DOMAIN log : log[k] = l
    BY <1>3 DEF Bijection, Surjection
  <2> HIDE DEF n, W
  <2>4. answer \in [1..n -> W]
    BY <2>1, <2>2
  <2>5. Len(answer) = n
    BY <2>1, <2>4, Long
  <2>6. \A i \in 1..n : answer[i] = log[keys[i]]
    BY <2>1
  <2>7. ASSUME NEW l \in W PROVE l \in ToSet(answer)
    <3>1. PICK i \in 1..n : log[keys[i]] = l
      BY <2>1, <2>3
    <3>2. i \in DOMAIN answer /\ answer[i] = l
      BY <2>4, <2>6, <3>1
    <3> QED BY <3>2 DEF ToSet
  <2>8. ToSet(answer) \subseteq W
    BY <2>4 DEF ToSet
  <2> QED BY <1>4, <2>5, <2>7, <2>8
<1>6. IF Spoiled(type, start, end)
        THEN answer = Unparsable
        ELSE ToSet(answer) = W /\ Len(answer) = Cardinality(W)
  BY <1>1, <1>5
<1> QED BY <1>6 DEF answer, W

\* Lines that are out of the order of their stamps are so because some line has a
\* later key than its stamp: one of two lines with one stamp.
LEMMA Displaced ==
  ASSUME NEW log, NEW lines, NEW n \in Nat, NEW start \in Nat, NEW end \in Nat,
         Held(log, lines, n, start, end),
         \A i \in 1..n : lines[i].time \in Nat,
         NEW c \in DOMAIN log, log[c].time < c
  PROVE  \E a, b \in DOMAIN log :
           a < b /\ log[a].time = log[b].time /\ log[a].time <= log[c].time
<1>1. ASSUME NEW k \in DOMAIN log
      PROVE  /\ log[k].time \in Nat /\ k \in Nat /\ log[k].time <= k
             /\ \A t \in log[k].time..k : t \in DOMAIN log
  <2>1. PICK i \in 1..n :
          /\ log[k] = lines[i] /\ lines[i].time <= k
          /\ \A t \in lines[i].time..k : t \in DOMAIN log
    BY DEF Held
  <2>2. k \in Nat
    BY DEF Held
  <2> QED BY <2>1, <2>2
<1> DEFINE late == {k \in DOMAIN log : log[k].time < k /\ log[k].time <= log[c].time}
           S == {log[k].time : k \in late}
<1>2. S # {} /\ S \in SUBSET Nat
  BY <1>1
<1>3. PICK t \in S : \A u \in S : t <= u
  BY <1>2, Least
<1>4. PICK k \in late : t = log[k].time
  BY <1>3
<1>5. t \in DOMAIN log /\ t < k /\ t \in Nat
  BY <1>1, <1>4
<1>6. log[t].time = t
  <2>1. log[t].time <= t /\ log[t].time \in Nat
    BY <1>1, <1>5
  <2>2. CASE log[t].time < t
    <3>1. log[c].time \in Nat /\ t <= log[c].time
      BY <1>1, <1>4
    <3>2. t \in late
      BY <1>5, <2>1, <2>2, <3>1
    <3>3. t <= log[t].time
      BY <1>3, <3>2
    <3> QED BY <1>5, <2>1, <2>2, <3>3
  <2> QED BY <1>5, <2>1, <2>2
<1> QED BY <1>4, <1>5, <1>6

LEMMA AnswerOrdered ==
  ASSUME Filed(dir, written), Files(dir),
         NEW type, NEW start \in Nat, NEW end \in Nat,
         NEW listing \in Listings(Covered(type, start, end)),
         ~Spoiled(type, start, end)
  PROVE  LET answer == getLogMsg(listing, type, start, end) IN
         \A j \in DOMAIN answer : \A i \in 1..(j - 1) :
           \/ answer[i].time < answer[j].time
           \/ /\ answer[i].time = answer[j].time
              /\ \/ answer[i].id < answer[j].id
                 \/ ~ \E f \in DOMAIN dir : {answer[i], answer[j]} \subseteq ToSet(dir[f])
           \/ /\ answer[i].time > answer[j].time
              /\ \E k, m \in DOMAIN answer :
                   /\ k < m /\ answer[k].time = answer[m].time
                   /\ answer[k].time <= answer[j].time
<1> DEFINE lines == Reading(listing, type, start, end)
           log == maplog(lines, start, end)[Len(lines)]
           answer == getLogMsg(listing, type, start, end)
<1>1. /\ InKeyOrder(answer, log)
      /\ Held(log, lines, Len(lines), start, end)
  BY Answer
<1>2. AllRead(lines, type, start, end)
  BY LinesRead
<1> HIDE DEF answer, log, lines
<1>3. \A p \in 1..Len(lines) : lines[p].time \in Nat
  BY <1>2, LogAssumption DEF AllRead, Line, LogAssumption
<1>4. PICK keys :
        /\ Cardinality(DOMAIN log) \in Nat /\ DOMAIN keys = 1..Cardinality(DOMAIN log)
        /\ answer = [i \in DOMAIN keys |-> log[keys[i]]]
        /\ \A i \in DOMAIN keys : keys[i] \in DOMAIN log
        /\ \A k \in DOMAIN log : \E i \in DOMAIN keys : keys[i] = k
        /\ \A i, j \in DOMAIN keys : i < j => keys[i] < keys[j]
  BY <1>1 DEF InKeyOrder
<1>5. DOMAIN answer = DOMAIN keys /\ \A i \in DOMAIN keys : answer[i] = log[keys[i]]
  BY <1>4
<1>6. DOMAIN log \subseteq Nat
  BY <1>1 DEF Held
<1> SUFFICES ASSUME NEW j \in DOMAIN answer, NEW i \in 1..(j - 1)
             PROVE  \/ answer[i].time < answer[j].time
                    \/ /\ answer[i].time = answer[j].time
                       /\ \/ answer[i].id < answer[j].id
                          \/ ~ \E f \in DOMAIN dir :
                                 {answer[i], answer[j]} \subseteq ToSet(dir[f])
                    \/ /\ answer[i].time > answer[j].time
                       /\ \E k, m \in DOMAIN answer :
                            /\ k < m /\ answer[k].time = answer[m].time
                            /\ answer[k].time <= answer[j].time
  BY DEF answer
<1>7. /\ i \in DOMAIN keys /\ j \in DOMAIN keys /\ i < j
      /\ keys[i] \in DOMAIN log /\ keys[j] \in DOMAIN log /\ keys[i] < keys[j]
      /\ answer[i] = log[keys[i]] /\ answer[j] = log[keys[j]]
  BY <1>4, <1>5
<1>8. PICK p \in 1..Len(lines) :
        answer[i] = lines[p] /\ lines[p].time <= keys[i]
  BY <1>1, <1>7 DEF Held
<1>9. PICK q \in 1..Len(lines) :
        answer[j] = lines[q] /\ lines[q].time <= keys[j]
  BY <1>1, <1>7 DEF Held
<1>10. answer[i].time \in Nat /\ answer[j].time \in Nat
  BY <1>3, <1>8, <1>9
<1>11. CASE answer[i].time = answer[j].time
  <2>1. /\ q = p => keys[j] = keys[i]
        /\ q < p => keys[j] < keys[i]
    <3>1. \A x, y \in 1..Len(lines) : \A k, m \in DOMAIN log :
            log[k] = lines[x] /\ log[m] = lines[y] =>
              /\ x = y => k = m
              /\ x < y /\ lines[x].time = lines[y].time => k < m
      BY <1>1 DEF Held
    <3>2. /\ log[keys[i]] = lines[p] /\ log[keys[j]] = lines[q]
          /\ lines[q].time = lines[p].time
      BY <1>7, <1>8, <1>9, <1>11
    <3> QED BY <1>7, <3>1, <3>2
  <2>2. p < q
    BY <1>6, <1>7, <2>1
  <2>3. ASSUME NEW f \in DOMAIN dir, {answer[i], answer[j]} \subseteq ToSet(dir[f])
        PROVE  answer[i].id < answer[j].id
    BY <1>2, <1>8, <1>9, <2>2, <2>3 DEF AllRead
  <2> QED BY <1>11, <2>3
<1>12. CASE answer[i].time > answer[j].time
  <2>1. keys[i] \in Nat /\ keys[j] \in Nat
    BY <1>6, <1>7
  <2>2. log[keys[j]].time < keys[j]
    BY <1>7, <1>8, <1>10, <1>12, <2>1
  <2>3. PICK a \in DOMAIN log, b \in DOMAIN log :
          /\ a < b /\ log[a].time = log[b].time
          /\ log[a].time <= log[keys[j]].time
    BY <1>1, <1>2, <1>3, <1>7, <2>2, Displaced DEF AllRead
  <2>4. PICK k \in DOMAIN keys : keys[k] = a
    BY <1>4
  <2>5. PICK m \in DOMAIN keys : keys[m] = b
    BY <1>4
  <2>6. k < m
    <3>1. a \in Nat /\ b \in Nat
      BY <1>6
    <3>2. ~(m < k) /\ m # k
      BY <1>4, <2>3, <2>4, <2>5, <3>1
    <3> QED BY <1>4, <3>2
  <2>7. /\ answer[k].time = answer[m].time /\ answer[k].time <= answer[j].time
        /\ k \in DOMAIN answer /\ m \in DOMAIN answer
    BY <1>5, <1>7, <2>3, <2>4, <2>5
  <2> QED BY <1>12, <2>6, <2>7
<1> QED BY <1>10, <1>11, <1>12

\* Whatever lines were written with whatever stamps, and wherever rotation has
\* moved them, every query answers with the lines of its window, each once and no
\* other, in the order of their stamps but for the lines of one stamp.
THEOREM LogQueries == LogSpec => [](QueryComplete /\ QueryOrder)
<1>1. FiledInv /\ LogInv => QueryComplete /\ QueryOrder
  <2> SUFFICES ASSUME FiledInv, LogInv, NEW w \in Windows, NEW type \in Kinds \cup {AllKinds}
               PROVE  Complete(type, w[1], w[2]) /\ Ordered(type, w[1], w[2])
    BY DEF QueryComplete, QueryOrder
  <2>1. Filed(dir, written) /\ Files(dir)
    BY DEF FiledInv, LogInv
  <2>2. w[1] \in Nat /\ w[2] \in Nat
    BY LogAssumption DEF LogAssumption
  <2> HIDE DEF LogAssumption
  <2>3. Complete(type, w[1], w[2])
    BY <2>1, <2>2, AnswerComplete DEF Complete
  <2>4. Ordered(type, w[1], w[2])
    BY <2>1, <2>2, AnswerOrdered DEF Ordered
  <2> QED BY <2>3, <2>4
<1>2. LogSpec => []FiledInv
  BY LogFiled
<1>3. LogSpec => []LogInv
  BY LogBounds, PTL
<1> QED BY <1>1, <1>2, <1>3, PTL
===============================================================================
