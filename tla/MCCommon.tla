------------------------------- MODULE MCCommon -------------------------------
(***************************************************************************)
(* The parts of the common library for TLC.  They share no state: each      *)
(* behaviour is one of the log (lines of two days in any order, or lines    *)
(* that fill the directory), one of the ini files, or a sub type code.      *)
(***************************************************************************)
EXTENDS CLog, IniFile, SubTypes

CONSTANTS Start, Req,   \* log types
          t1, t2,       \* threads
          k1, k2, v1, v2, none

VARIABLE part  \* what this behaviour is about

vars == <<dir, written, file, at, tree, arg, stored, damaged, given, part>>

MCKinds   == {Start, Req}
MCThreads == {t1, t2}
MCKeys    == {k1, k2}
MCValues  == {v1, v2}

\* Of a behaviour's one part the log types, or the threads or the keys, may be
\* exchanged.  The values may not: v1 is the default.
Symmetry == Permutations(MCKinds) \cup Permutations(MCThreads) \cup Permutations(MCKeys)

\* Two days of two seconds; 1 and 2 are in one second, 4 in the next, 0 is on a
\* whole second, 7 on the next day.  One line and a long one cross FileMax, two
\* short ones reach it.
Mixed == {<<0, 1>>, <<1, 1>>, <<2, LineMax>>, <<4, 1>>, <<7, LineMax>>}

\* Bound: lines written in any order of these stamps
MixedLines == 4

\* Stamps of later days, from the fourth on two lines each: these lines fill the
\* directory, all of one type, some of them long
Later(n) == DayTicks * (IF n < 4 THEN 2 + n ELSE 4 + n \div 2) + 1

MCTimes == {line[1] : line \in Mixed} \cup {Later(n) : n \in 0..MaxLines}

\* One day, both days, and a window that starts and ends within a second
MCWindows == {<<0, 5>>, <<1, 7>>, <<2, 4>>}

\* The sub types of a super type for which the code has a bit, the highest first
Downward(super, code) ==
  Reverse(SelectSeq([i \in 1..bits(super) |-> i - 1], LAMBDA i : Bit(code, i)))

\* Every code of every super type, and a few that are too large
Codes ==
  UNION {{[super |-> super, code |-> code, utsub |-> Downward(super, code)] :
            code \in 0..(Shift[bits(super)] + 2)} : super \in Supers}

NoCode == [super |-> SUPER_UTIVA, code |-> 0, utsub |-> <<>>]

Init ==
  /\ LogInit /\ IniInit
  /\ \/ part \in {"log", "room", "ini"} /\ given = NoCode
     \/ part = "code" /\ given \in Codes

Next ==
  \/ /\ part = "log" /\ written < MixedLines
     /\ \E kind \in Kinds, line \in Mixed :
          WriteLog(kind, line[1], line[2]) \/ WriteThrows(kind, line[1], line[2])
     /\ UNCHANGED <<iniVars, part, given>>
  \/ /\ part = "room"
     /\ \E kind \in Kinds, size \in {1, LineMax} :
          /\ \A f \in DOMAIN dir : f.kind = kind
          /\ WriteLog(kind, Later(written), size)
     /\ UNCHANGED <<iniVars, part, given>>
  \/ part = "ini" /\ IniNext /\ UNCHANGED <<logVars, part, given>>

Spec == Init /\ [][Next]_vars
===============================================================================
