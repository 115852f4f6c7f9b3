------------------------------- MODULE SubTypes -------------------------------
(***************************************************************************)
(* The codes in which the outer protocol carries the sub types of a task or *)
(* an alarm: bit i stands for sub type i (ut2Bsub and B2utsub of util.cpp,  *)
(* over the super types of typedef.h).                                      *)
(***************************************************************************)
EXTENDS Integers, Sequences, SequencesExt

VARIABLE given  \* the arguments of the two functions: a super type, a code and
                \* a list of sub types

SUPER_UTIVA == 0
Supers == 0..15

\* Sub types of each super type, SUPER_WORKING to SUPER_VQLTY
Bits == <<3, 6, 4, 1, 2, 2, 2, 1, 1, 1, 2, 1, 1, 8, 13>>

\* The private super type has no codes
bits(super) == IF super = SUPER_UTIVA THEN 0 ELSE Bits[super]

\* 1 << i
Shift[i \in 0..30] == IF i = 0 THEN 1 ELSE 2 * Shift[i - 1]

Bit(code, i) == (code \div Shift[i]) % 2 = 1

\* The code of a list is the sum of its shifts
ut2Bsub(super, utsub) ==
  LET bsub[i \in 0..Len(utsub)] ==
        IF i = 0 THEN 0 ELSE bsub[i - 1] + Shift[utsub[i]]
  IN IF super = SUPER_UTIVA THEN 0 ELSE bsub[Len(utsub)]

\* What bit i adds to the list, and takes off the code
Take(s, i) ==
  IF Bit(s.bsub, i)
    THEN [utsub |-> Append(s.utsub, i), bsub |-> s.bsub - Shift[i]]
    ELSE s

\* The list and what is left of the code after the first i bits
Taken(super, bsub) ==
  LET after[i \in 0..bits(super)] ==
        IF i = 0 THEN [utsub |-> <<>>, bsub |-> bsub] ELSE Take(after[i - 1], i - 1)
  IN after

\* Mutant of Leftover: every code is taken
Leftover_None(bsub) == FALSE

\* The code has a bit that the super type has no sub type for
Leftover(bsub) == bsub > 0

\* Mutant of B2utsub: one bit short
B2utsub_Short(super, bsub) ==
  IF super = SUPER_UTIVA THEN <<>> ELSE Taken(super, bsub)[bits(super) - 1].utsub

B2utsub(super, bsub) ==
  LET s == Taken(super, bsub)[bits(super)]
  IN IF super = SUPER_UTIVA \/ Leftover(s.bsub) THEN <<>> ELSE s.utsub

-----------------------------------------------------------------------------
\* Lists of different sub types of a super type
Lists(super) ==
  {utsub \in Seq(0..(bits(super) - 1)) :
     \A i, j \in DOMAIN utsub : utsub[i] = utsub[j] => i = j}

\* Any super type, list of its sub types, and code that is not negative
CodeInit ==
  \E super \in Supers : \E code \in Nat, utsub \in Lists(super) :
    given = [super |-> super, code |-> code, utsub |-> utsub]

CodeSpec == CodeInit /\ [][UNCHANGED given]_given

Ascending(list) == \A i, j \in DOMAIN list : i < j => list[i] < list[j]

\* A list of different sub types, whatever its order, comes back from its code
\* in ascending order (B2utsub after ut2Bsub).
RoundTrip ==
  given.super # SUPER_UTIVA =>
    LET list == B2utsub(given.super, ut2Bsub(given.super, given.utsub))
    IN ToSet(list) = ToSet(given.utsub) /\ Ascending(list)

\* A code is understood as a whole or not at all: the list of sub types has
\* exactly this code, or it is empty, because the code has a bit the super type
\* has no sub type for (ut2Bsub after B2utsub).
WholeCode ==
  ut2Bsub(given.super, B2utsub(given.super, given.code)) =
    IF given.code < Shift[bits(given.super)] THEN given.code ELSE 0
===============================================================================
