--------------------------------- MODULE CLog ---------------------------------
(***************************************************************************)
(* The log of the common library (Log.cpp): WriteLog appends a line to the  *)
(* day's file of its type, after moving a full file aside, and then prunes  *)
(* the directory; getLogMsg collects the lines of a time window.            *)
(*                                                                          *)
(* Both hold m_mutex from beginning to end and keep nothing in memory, so   *)
(* each is one step over the directory.  A line's stamp, however, is taken  *)
(* before the lock (writelog in util.cpp) from the local wall clock, which  *)
(* may be set: lines arrive in any order of their stamps.                   *)
(*                                                                          *)
(* Times are ticks (microseconds in the code), sizes are bytes.  Only what  *)
(* CLog writes is in ./Log/.  Words of a message that would make a backup's *)
(* name match another type's filter, messages that are lines of their own,  *)
(* and names too long for file[128] are left out.                           *)
(***************************************************************************)
EXTENDS Integers, Sequences, FiniteSets, SequencesExt

CONSTANTS Kinds,     \* log types that have files; TYPE_ALL asks for each
          AllKinds,  \* TYPE_ALL, as an argument of getLogMsg
          Times,     \* the stamps lines may carry
          DayTicks, SecTicks,
          LineMax,   \* 1 KiB: the longest line, with its end (msg of writelog)
          FileMax,   \* 10 MiB: a file of this size is moved aside
          DirMax,    \* 1 GiB: the directory is pruned beyond it
          PruneMin,  \* 512 MiB: what pruning removes, at least
          Windows,   \* the windows getLogMsg is asked for, first and last time
          MaxLines   \* bound: lines written

\* The directory has room for four files, and pruning for size removes more than
\* one, both with much to spare in the code.
ASSUME LogAssumption ==
  /\ AllKinds \notin Kinds
  /\ Times \subseteq Nat /\ Windows \subseteq Nat \X Nat
  /\ {DayTicks, SecTicks, LineMax, FileMax, PruneMin, DirMax} \subseteq Nat \ {0}
  /\ DirMax >= 4 * (FileMax + LineMax) /\ PruneMin >= FileMax + LineMax
  /\ MaxLines \in Nat

VARIABLES dir,     \* ./Log/: the lines of each file, by name
          written  \* lines written so far

logVars == <<dir, written>>

Day(t)         == t \div DayTicks
Second(t)      == (t % DayTicks) \div SecTicks
WholeSecond(t) == t % SecTicks = 0

NoSec == -1

LinesOf(d) == UNION {ToSet(d[f]) : f \in DOMAIN d}

\* The bytes of a file, by the line they are in, and how many they are
Bytes(lines) == UNION {{i} \X (1..lines[i].size) : i \in DOMAIN lines}
file_size(lines) == Cardinality(Bytes(lines))

\* The same of some files of a directory
Content(d, files) == UNION {{f} \X Bytes(d[f]) : f \in files}
dirsize(d, files) == Cardinality(Content(d, files))

-----------------------------------------------------------------------------
(* WriteLog                                                                 *)

NewLine(kind, t, size) ==
  [id |-> written + 1, kind |-> kind, time |-> t, size |-> size]

LogPath(l) == [kind |-> l.kind, day |-> Day(l.time), sec |-> NoSec, msg |-> 0]

\* The new name of a full file: the time between the first blank and the first
\* dot of the line about to be written.  A stamp on a whole second is printed
\* without its fraction, and the name then runs on into the message.
bkpath(l) ==
  [kind |-> l.kind, day |-> Day(l.time), sec |-> Second(l.time),
   msg |-> IF WholeSecond(l.time) THEN l.id ELSE 0]

\* Mutant of Full: one byte too late
Full_Late(d, l) == LogPath(l) \in DOMAIN d /\ file_size(d[LogPath(l)]) > FileMax

\* The file has reached its limit before the line is written, whose length does
\* not count
Full(d, l) == LogPath(l) \in DOMAIN d /\ file_size(d[LogPath(l)]) >= FileMax

\* Mutant of Rotated: the full file is copied
Rotated_Copied(d, l) ==
  IF Full(d, l) THEN (bkpath(l) :> d[LogPath(l)]) @@ d ELSE d

\* rename replaces whatever had the name
Rotated(d, l) ==
  IF Full(d, l)
    THEN [f \in (DOMAIN d \ {LogPath(l)}) \cup {bkpath(l)} |->
            IF f = bkpath(l) THEN d[LogPath(l)] ELSE d[f]]
    ELSE d

Appended(d, l) ==
  [f \in DOMAIN d \cup {LogPath(l)} |->
     IF f # LogPath(l) THEN d[f]
     ELSE Append(IF f \in DOMAIN d THEN d[f] ELSE <<>>, l)]

\* Mutant of Oldest: in the order of the names, the type first
Oldest_ByName(d, gone) ==
  \A f \in gone, g \in DOMAIN d \ gone : f.kind = g.kind => f.day <= g.day

\* What goes first: vecfiles is sorted by day, and among the files of one day
\* std::sort may put any first
Oldest(d, gone) == \A f \in gone, g \in DOMAIN d \ gone : f.day <= g.day

\* Little space is left on the disk: a third of the files, rounded down
SpacePrune(d) ==
  {gone \in SUBSET DOMAIN d :
     Oldest(d, gone) /\ Cardinality(gone) = Cardinality(DOMAIN d) \div 3}

\* Mutant of SizePrune: a full file more is let be
SizePrune_Few(d) ==
  IF dirsize(d, DOMAIN d) <= DirMax + FileMax
    THEN {{}}
    ELSE {gone \in SUBSET DOMAIN d : Oldest(d, gone) /\ dirsize(d, gone) >= PruneMin}

\* The directory is too large: files go until PruneMin is reached
SizePrune(d) ==
  IF dirsize(d, DOMAIN d) <= DirMax
    THEN {{}}
    ELSE {gone \in SUBSET DOMAIN d :
            /\ Oldest(d, gone)
            /\ dirsize(d, gone) >= PruneMin \/ gone = DOMAIN d
            /\ \E last \in gone : /\ Oldest(d, gone \ {last})
                                  /\ dirsize(d, gone \ {last}) < PruneMin}

\* The size is not looked at when space is low: that branch returns
WriteLog(kind, t, size) ==
  /\ written < MaxLines
  /\ LET l == NewLine(kind, t, size)
         d == Appended(Rotated(dir, l), l)
     IN \E low \in BOOLEAN :
          \E gone \in IF low THEN SpacePrune(d) ELSE SizePrune(d) :
            dir' = Restrict(d, DOMAIN d \ gone)
  /\ written' = written + 1

\* rename throws: the new name, with the message in it, is no file name.
\* Neither the file nor the line is touched further.
WriteThrows(kind, t, size) ==
  /\ written < MaxLines
  /\ WholeSecond(t) /\ Full(dir, NewLine(kind, t, size))
  /\ UNCHANGED logVars

LogInit == dir = <<>> /\ written = 0

LogNext ==
  \E kind \in Kinds, t \in Times, size \in 1..LineMax :
    WriteLog(kind, t, size) \/ WriteThrows(kind, t, size)

LogSpec == LogInit /\ [][LogNext]_logVars

-----------------------------------------------------------------------------
(* getLogMsg                                                                *)

\* A file is read when its name has the type and a day of the window
Covers(f, type, start, end) ==
  type \in {f.kind, AllKinds} /\ f.day \in Day(start)..Day(end)

\* The elements of a set in the order of a relation
InOrder(S, before) ==
  [i \in 1..Cardinality(S) |->
     CHOOSE x \in S : Cardinality({y \in S : <<y, x>> \in before}) = i - 1]

Covered(type, start, end) == {f \in DOMAIN dir : Covers(f, type, start, end)}

\* In which order getfilelist may answer some files: each one's number
Listings(files) == Injection(files, 1..Cardinality(files))

\* The places of the lines in some files
Places(d, files) == UNION {{f} \X DOMAIN d[f] : f \in files}

\* Places in the order they are read: one file after the other, each from its
\* beginning
ReadBefore(listing, places) ==
  {pq \in places \X places :
     LET p == pq[1]
         q == pq[2]
     IN listing[p[1]] < listing[q[1]] \/ (p[1] = q[1] /\ p[2] < q[2])}

\* The lines read
Reading(listing, type, start, end) ==
  LET places == Places(dir, Covered(type, start, end))
      order == InOrder(places, ReadBefore(listing, places))
  IN [i \in DOMAIN order |-> dir[order[i][1]][order[i][2]]]

\* Mutant of FreeKey: a taken time is made earlier instead of later
FreeKey_Earlier(m, t) ==
  IF DOMAIN m = {} THEN t
  ELSE Max({k \in (t - Cardinality(DOMAIN m))..t : k \notin DOMAIN m})

\* maplog's key for a line: its time, made later while that is taken
FreeKey(m, t) ==
  Min({k \in t..(t + Cardinality(DOMAIN m)) : k \notin DOMAIN m})

\* Mutant of Collect: equal times share one entry
Collect_Plain(m, l, start, end) ==
  IF l.time \in start..end
    THEN [k \in DOMAIN m \cup {l.time} |-> IF k \in DOMAIN m THEN m[k] ELSE l]
    ELSE m

\* A line of the window goes into maplog
Collect(m, l, start, end) ==
  IF l.time \in start..end
    THEN [k \in DOMAIN m \cup {FreeKey(m, l.time)} |->
            IF k \in DOMAIN m THEN m[k] ELSE l]
    ELSE m

\* maplog after the first i lines
maplog(lines, start, end) ==
  LET m[i \in 0..Len(lines)] ==
        IF i = 0 THEN <<>> ELSE Collect(m[i - 1], lines[i], start, end)
  IN m

Unparsable == <<"time_from_string throws">>

\* The answer, when getfilelist lists the files it reads in the given order.  The
\* first 26 characters of a line that has no fraction hold a piece of its
\* message, which time_from_string does not accept.
getLogMsg(listing, type, start, end) ==
  LET lines == Reading(listing, type, start, end)
      log == maplog(lines, start, end)[Len(lines)]
      times == DOMAIN log
      keys == InOrder(times, {kk \in times \X times : kk[1] < kk[2]})
  IN IF \E i \in DOMAIN lines : WholeSecond(lines[i].time)
       THEN Unparsable
       ELSE [i \in DOMAIN keys |-> log[keys[i]]]

-----------------------------------------------------------------------------
Line == [id : 1..MaxLines, kind : Kinds, time : Times, size : 1..LineMax]
Name == [kind : Kinds, day : Nat, sec : {NoSec} \cup Nat, msg : 0..MaxLines]

\* Files hold lines under names of the two forms WriteLog makes, every line in
\* a file of its type and day, and no line is in two places.
LogTypeOK ==
  /\ DOMAIN dir \subseteq Name /\ written \in 0..MaxLines
  /\ \A f \in DOMAIN dir :
       /\ dir[f] \in Seq(Line)
       /\ \A i \in DOMAIN dir[f] :
            dir[f][i].kind = f.kind /\ Day(dir[f][i].time) = f.day
  /\ \A f, g \in DOMAIN dir : \A i \in DOMAIN dir[f], j \in DOMAIN dir[g] :
       dir[f][i].id = dir[g][j].id => <<f, i>> = <<g, j>>

\* No file, renamed or not, outgrows the limit at which WriteLog moves it aside
\* by more than the one line that crosses it, also when lines of several days
\* alternate.
FileBounded == \A f \in DOMAIN dir : file_size(dir[f]) < FileMax + LineMax

DirSize == dirsize(dir, DOMAIN dir)

\* The directory does not stay above its limit.  A line may bring it there when
\* WriteLog looks at the free space only, for a third of the files may be less
\* than the line; but then each further line leaves fewer files, whichever way it
\* prunes, until the directory is within its limit again.
DirBounded ==
  [][DirSize' > DirMax =>
       /\ DirSize' <= DirSize + LineMax
       /\ DirSize > DirMax => Cardinality(DOMAIN dir') < Cardinality(DOMAIN dir)]_logVars

\* WriteLog loses a line only by pruning, with every file of an older day gone
\* too, or by a second rotation within one second, whose backup takes the name
\* of the first; it never takes a line out of a file or changes one.
LinesKept ==
  [][\A f \in DOMAIN dir : \A l \in ToSet(dir[f]) \ LinesOf(dir') :
       \/ f.sec # NoSec /\ f \in DOMAIN dir'
       \/ \A g \in DOMAIN dir' : f.day <= g.day]_logVars

-----------------------------------------------------------------------------
(* What getLogMsg answers, whatever order the directory is listed in         *)

InWindow(type, start, end) ==
  {l \in LinesOf(dir) : type \in {l.kind, AllKinds} /\ l.time \in start..end}

\* A line the query has to read makes it throw: its stamp fell on a whole
\* second, its file has the type and a day of the window.
Spoiled(type, start, end) ==
  \E f \in DOMAIN dir : \E l \in ToSet(dir[f]) :
    Covers(f, type, start, end) /\ WholeSecond(l.time)

Complete(type, start, end) ==
  \A listing \in Listings(Covered(type, start, end)) :
    LET lines == getLogMsg(listing, type, start, end) IN
    IF Spoiled(type, start, end)
      THEN lines = Unparsable
      ELSE /\ ToSet(lines) = InWindow(type, start, end)
           /\ Len(lines) = Cardinality(InWindow(type, start, end))

\* A query gives every line of its type and window, in whichever file it is,
\* once, and no other; it fails exactly when a file it reads has a line whose
\* stamp was printed without fraction.
QueryComplete ==
  \A w \in Windows, type \in Kinds \cup {AllKinds} : Complete(type, w[1], w[2])

Ordered(type, start, end) ==
  \A listing \in Listings(Covered(type, start, end)) :
    LET lines == getLogMsg(listing, type, start, end) IN
    \/ Spoiled(type, start, end)
    \/ \A j \in DOMAIN lines : \A i \in 1..(j - 1) :
         \/ lines[i].time < lines[j].time
         \/ /\ lines[i].time = lines[j].time
            /\ \/ lines[i].id < lines[j].id
               \/ ~ \E f \in DOMAIN dir : {lines[i], lines[j]} \subseteq ToSet(dir[f])
         \/ /\ lines[i].time > lines[j].time
            /\ \E k, m \in DOMAIN lines :
                 k < m /\ lines[k].time = lines[m].time /\ lines[k].time <= lines[j].time

\* The answer is in the order of the stamps, but for one case: where two lines
\* have one stamp, the second is filed under a later time, and a line may come
\* after one with a later stamp.  Lines of one file and stamp stay in the order
\* they were written.
QueryOrder ==
  \A w \in Windows, type \in Kinds \cup {AllKinds} : Ordered(type, w[1], w[2])
==============================================================================
