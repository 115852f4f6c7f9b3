------------------------------ MODULE UtilProofs ------------------------------
(***************************************************************************)
(* Proofs about the two parts of util.cpp that are modelled: IniFile, for   *)
(* any threads, keys and values, and SubTypes, for every list and code.     *)
(*                                                                          *)
(* The file itself says nothing while it is truncated; what is kept is then *)
(* in the tree of the one thread that holds the lock.  Of the codes, what   *)
(* the loop has left after i bits is a multiple of the next shift.          *)
(***************************************************************************)
EXTENDS IniFile, SubTypes, NumberLemmas, TLAPS

(* Ini files                                                                  *)

TypeInv ==
  /\ file \in Contents /\ stored \in Contents /\ damaged \in BOOLEAN
  /\ at \in [IniThreads -> {"out", "loaded", "truncated"}]
  /\ tree \in [IniThreads -> Contents]
  /\ arg \in [IniThreads -> [key : Keys \cup {Absent}, val : Values \cup {Absent},
                             op : {"none", "write", "read"}]]

\* One thread holds the lock; the others have no tree and no arguments
LockInv ==
  /\ \A t, u \in IniThreads : at[t] # "out" /\ at[u] # "out" => t = u
  /\ \A t \in IniThreads : at[t] = "out" => tree[t] = Empty /\ arg[t] = NoArg
  /\ \A t \in IniThreads : at[t] # "out" => arg[t].key \in Keys /\ arg[t].val \in Values

\* The tree holds the new value, and of the other keys what they were given
TreeInv(t) ==
  at[t] # "out" =>
    /\ tree[t][arg[t].key] = arg[t].val
    /\ \A k \in Keys \ {arg[t].key} : tree[t][k] \in {Absent, stored[k]}
    /\ ~damaged => \A k \in Keys \ {arg[t].key} : tree[t][k] = stored[k]

\* A file that is not being written, and was never damaged, is what was stored
FileInv ==
  ~damaged /\ (\A t \in IniThreads : at[t] # "truncated") => file = stored

Inv ==
  /\ TypeInv /\ LockInv /\ NeverStale /\ FileInv /\ DefaultsYield
  /\ \A t \in IniThreads : TreeInv(t)

LEMMA IniStart == IniInit => Inv
<1> SUFFICES ASSUME IniInit PROVE Inv
  OBVIOUS
<1>1. TypeInv
  BY DEF IniInit, TypeInv, Contents, Empty, NoArg
<1>2. LockInv /\ NeverStale /\ FileInv /\ DefaultsYield
  BY DEF IniInit, LockInv, NeverStale, FileInv, DefaultsYield, Empty, NoArg
<1>3. \A t \in IniThreads : TreeInv(t)
  BY DEF IniInit, TreeInv
<1> QED BY <1>1, <1>2, <1>3 DEF Inv

\* read_ini and put keep the invariant.
LEMMA LoadStep ==
  ASSUME Inv, NEW t \in IniThreads, NEW k \in Keys, NEW v \in Values,
         NEW op \in {"write", "read"}, Unlocked, Load(t, k, v, op),
         op = "read" => file[k] = Absent
  PROVE  Inv'
<1>1. \A u \in IniThreads : at[u] = "out"
  BY DEF Unlocked
<1>2. ~damaged => file = stored
  BY <1>1 DEF Inv, FileInv
<1>3. TypeInv'
  BY DEF Inv, TypeInv, Load, Contents, Empty
<1>4. LockInv'
  BY <1>1 DEF Inv, TypeInv, LockInv, Load
<1>5. NeverStale' /\ FileInv'
  BY <1>1 DEF Inv, NeverStale, FileInv, Load
<1>6. DefaultsYield'
  BY <1>1, <1>2 DEF Inv, TypeInv, LockInv, DefaultsYield, Load, NoArg
<1>7. ASSUME NEW u \in IniThreads PROVE TreeInv(u)'
  <2>1. CASE u = t
    <3>1. /\ tree'[t] = [[x \in Keys |-> file[x]] EXCEPT ![k] = v]
          /\ arg'[t] = [key |-> k, val |-> v, op |-> op]
          /\ stored' = stored /\ damaged' = damaged
      BY DEF Load, Inv, TypeInv, Contents
    <3> QED BY <2>1, <3>1, <1>2 DEF TreeInv, Inv, NeverStale
  <2>2. CASE u # t
    BY <2>2, <1>1 DEF TreeInv, Load, Inv, TypeInv
  <2> QED BY <2>1, <2>2
<1> QED BY <1>3, <1>4, <1>5, <1>6, <1>7 DEF Inv

\* Opening the file for writing keeps the invariant.
LEMMA TruncateStep ==
  ASSUME Inv, NEW t \in IniThreads, Truncate(t)
  PROVE  Inv'
<1>1. TypeInv' /\ LockInv'
  BY DEF Inv, TypeInv, LockInv, Truncate, Contents, Empty
<1>2. NeverStale' /\ FileInv'
  BY DEF Inv, TypeInv, NeverStale, FileInv, Truncate, Empty
<1>3. DefaultsYield'
  BY DEF Inv, DefaultsYield, Truncate
<1>4. ASSUME NEW u \in IniThreads PROVE TreeInv(u)'
  BY DEF Inv, TypeInv, TreeInv, Truncate
<1> QED BY <1>1, <1>2, <1>3, <1>4 DEF Inv

\* So does writing it, which stores the value.
LEMMA FlushStep ==
  ASSUME Inv, NEW t \in IniThreads, Flush(t)
  PROVE  Inv'
<1>1. at[t] = "truncated" /\ arg[t].key \in Keys /\ arg[t].val \in Values
  BY DEF Inv, LockInv, Flush
<1>2. \A u \in IniThreads : at'[u] = "out"
  BY <1>1 DEF Inv, TypeInv, LockInv, Flush, Return
<1>3. TypeInv'
  BY <1>1 DEF Inv, TypeInv, Flush, Return, Contents, Empty, NoArg
<1>4. LockInv'
  BY <1>1, <1>2 DEF Inv, TypeInv, LockInv, Flush, Return
<1>5. ASSUME NEW k \in Keys
      PROVE  /\ file'[k] \in {Absent, stored'[k]}
             /\ ~damaged => file'[k] = stored'[k]
  BY <1>1 DEF Inv, TypeInv, TreeInv, Flush, Contents
<1>6. NeverStale'
  BY <1>5 DEF NeverStale
<1>7. FileInv'
  <2>1. file' \in Contents /\ stored' \in Contents /\ damaged' = damaged
    BY <1>3 DEF TypeInv, Flush
  <2> QED BY <1>5, <2>1 DEF FileInv, Contents
<1>8. DefaultsYield'
  BY <1>2, <1>4 DEF DefaultsYield, LockInv, NoArg
<1>9. \A u \in IniThreads : TreeInv(u)'
  BY <1>2 DEF TreeInv
<1> QED BY <1>3, <1>4, <1>6, <1>7, <1>8, <1>9 DEF Inv

\* A write that fails, or a restart, loses no more than the file.
LEMMA LossStep ==
  ASSUME Inv, (\E t \in IniThreads : FlushFails(t)) \/ Restarted
  PROVE  Inv'
<1>1. \A u \in IniThreads : at'[u] = "out"
  BY DEF Inv, TypeInv, LockInv, FlushFails, Restarted, Return
<1>2. file' = file /\ stored' = stored
  BY DEF FlushFails, Restarted
<1>3. TypeInv'
  <2>1. tree' \in [IniThreads -> Contents]
    <3>1. Empty \in Contents
      BY DEF Contents, Empty
    <3> QED BY <3>1 DEF Inv, TypeInv, FlushFails, Restarted, Return
  <2>2. at' \in [IniThreads -> {"out", "loaded", "truncated"}]
    BY DEF Inv, TypeInv, FlushFails, Restarted, Return
  <2>3. arg' \in [IniThreads -> [key : Keys \cup {Absent}, val : Values \cup {Absent},
                                 op : {"none", "write", "read"}]]
    BY DEF Inv, TypeInv, FlushFails, Restarted, Return, NoArg
  <2>4. damaged' \in BOOLEAN
    BY DEF Inv, TypeInv, FlushFails, Restarted
  <2> QED BY <1>2, <2>1, <2>2, <2>3, <2>4 DEF Inv, TypeInv
<1>4. LockInv'
  BY <1>1 DEF Inv, TypeInv, LockInv, FlushFails, Restarted, Return
<1>5. NeverStale'
  BY <1>2 DEF Inv, NeverStale
<1>6. FileInv'
  <2>1. ~damaged' => ~damaged /\ \A t \in IniThreads : at[t] # "truncated"
    BY DEF FlushFails, Restarted
  <2> QED BY <1>2, <2>1 DEF Inv, FileInv
<1>7. DefaultsYield'
  BY <1>1, <1>4 DEF DefaultsYield, LockInv, NoArg
<1>8. \A u \in IniThreads : TreeInv(u)'
  BY <1>1 DEF TreeInv
<1> QED BY <1>3, <1>4, <1>5, <1>6, <1>7, <1>8 DEF Inv

LEMMA IniStep == Inv /\ [IniNext]_iniVars => Inv'
<1> SUFFICES ASSUME Inv, [IniNext]_iniVars PROVE Inv'
  OBVIOUS
<1>1. ASSUME NEW t \in IniThreads, NEW k \in Keys, readIniCfg(t, k) PROVE Inv'
  BY <1>1, LoadStep, IniAssumption DEF readIniCfg
<1>2. ASSUME NEW t \in IniThreads, NEW k \in Keys, NEW v \in Values,
             writeIniCfg(t, k, v)
      PROVE  Inv'
  BY <1>2, LoadStep DEF writeIniCfg
<1>3. ASSUME NEW t \in IniThreads, Truncate(t) \/ Flush(t) PROVE Inv'
  BY <1>3, TruncateStep, FlushStep
<1>4. CASE UNCHANGED iniVars
  BY <1>4 DEF iniVars, Inv, TypeInv, LockInv, NeverStale, FileInv,
              DefaultsYield, TreeInv
<1> QED BY <1>1, <1>2, <1>3, <1>4, LossStep DEF IniNext

\* The lock keeps the threads apart, and what the file lacks is never made up
\* for with an older value.
THEOREM Settings == IniSpec => [](IniTypeOK /\ NeverStale)
<1>1. Inv => IniTypeOK /\ NeverStale
  BY DEF Inv, TypeInv, LockInv, IniTypeOK
<1> QED BY <1>1, IniStart, IniStep, PTL DEF IniSpec

\* As long as no write is cut short, every setting stays as it was last given,
\* whoever writes or reads which keys, and no default replaces a setting.
THEOREM Kept == IniSpec => [](SettingsKept /\ DefaultsYield)
<1>1. Inv => SettingsKept /\ DefaultsYield
  BY DEF Inv, FileInv, SettingsKept, Unlocked
<1> QED BY <1>1, IniStart, IniStep, PTL DEF IniSpec


-----------------------------------------------------------------------------
(* Sub types: powers of two and their multiples                              *)

\* What Shift computes.
LEMMA Shifts ==
  /\ Shift \in [0..30 -> Nat \ {0}] /\ Shift[0] = 1
  /\ \A i \in 0..29 : Shift[i + 1] = 2 * Shift[i]
<1> DEFINE double == [p \in (1..30) \X (Nat \ {0}) |-> 2 * p[2]]
<1>1. PICK f \in [0..30 -> Nat \ {0}] :
        f[0] = 1 /\ \A i \in 1..30 : f[i] = double[<<i, f[i - 1]>>]
  <2> DEFINE D == Nat \ {0}
             n == 30
             one == 1
  <2>1. Stepping(n, D, double) /\ n \in Nat /\ one \in D
    BY DEF Stepping
  <2> HIDE DEF double, D, n, one
  <2>2. \E f \in [0..n -> D] :
          f[0] = one /\ \A i \in 1..n : f[i] = double[<<i, f[i - 1]>>]
    BY <2>1, Recursion
  <2> QED BY <2>2 DEF D, n, one
<1>2. ASSUME NEW i \in 1..30 PROVE f[i] = 2 * f[i - 1]
  <2>1. i - 1 \in 0..30 /\ i \in 0..30 /\ i # 0
    OBVIOUS
  <2>2. f[i] = double[<<i, f[i - 1]>>]
    BY <1>1, <2>1
  <2>3. <<i, f[i - 1]>> \in (1..30) \X (Nat \ {0})
    BY <2>1
  <2> QED BY <2>2, <2>3
<1>3. f = [i \in 0..30 |-> IF i = 0 THEN 1 ELSE 2 * f[i - 1]]
  <2>1. f[0] = 1
    BY <1>1
  <2> HIDE DEF double
  <2> QED BY <1>2, <2>1
<1>4. Shift = [i \in 0..30 |-> IF i = 0 THEN 1 ELSE 2 * Shift[i - 1]]
  BY <1>3, Zenon DEF Shift
<1>5. Shift[0] = 1 /\ \A i \in 1..30 : Shift[i] = 2 * Shift[i - 1]
  BY <1>4
<1>6. ASSUME NEW i \in 0..29 PROVE Shift[i + 1] = 2 * Shift[i]
  <2>1. i + 1 \in 1..30 /\ (i + 1) - 1 = i
    OBVIOUS
  <2> QED BY <1>5, <2>1
<1> DEFINE S == {i \in 0..30 : Shift[i] \in Nat \ {0}}
<1>7. 0 \in S
  BY <1>5
<1>8. ASSUME NEW i \in 0..(30 - 1), i \in S PROVE i + 1 \in S
  BY <1>6, <1>8
<1> HIDE DEF S
<1>9. \A i \in 0..30 : i \in S
  BY <1>7, <1>8, Reached
<1>10. \A i \in 0..30 : Shift[i] \in Nat \ {0}
  BY <1>9 DEF S
<1>11. Shift \in [0..30 -> Nat \ {0}]
  BY <1>4, <1>10
<1> QED BY <1>5, <1>6, <1>11

\* x is a multiple of 1 << i: its lower bits are not set
Multiple(x, i) == \E q \in Nat : x = q * Shift[i]

\* Of a product the division finds the factor.
LEMMA Divided ==
  ASSUME NEW q \in Nat, NEW p \in Nat \ {0}
  PROVE  (q * p) \div p = q
<1> DEFINE d == (q * p) \div p
<1>1. d \in Int /\ d * p <= q * p /\ q * p < (d + 1) * p
  OBVIOUS
<1> HIDE DEF d
<1>2. ASSUME NEW a \in Int, NEW b \in Int, a <= b PROVE a * p <= b * p
  BY <1>2
<1>3. ~(q < d)
  <2>1. ASSUME q < d PROVE FALSE
    <3>1. (q + 1) * p <= d * p
      BY <1>1, <1>2, <2>1
    <3>2. (q + 1) * p = q * p + p /\ q * p \in Int /\ d * p \in Int
      BY <1>1
    <3> QED BY <1>1, <3>1, <3>2
  <2> QED BY <2>1
<1>4. ~(d < q)
  <2>1. ASSUME d < q PROVE FALSE
    <3>1. (d + 1) * p <= q * p
      BY <1>1, <1>2, <2>1
    <3>2. (d + 1) * p \in Int /\ q * p \in Int
      BY <1>1
    <3> QED BY <1>1, <3>1, <3>2
  <2> QED BY <2>1
<1> QED BY <1>1, <1>3, <1>4 DEF d

\* The bit of a multiple of 1 << i says whether there is a multiple of the next
\* shift with or without this one.
LEMMA BitIs ==
  ASSUME NEW i \in 0..29, NEW x \in Nat, Multiple(x, i)
  PROVE  /\ Bit(x, i) => x >= Shift[i] /\ Multiple(x - Shift[i], i + 1)
         /\ ~Bit(x, i) => Multiple(x, i + 1)
<1> DEFINE p == Shift[i]
<1>1. p \in Nat \ {0} /\ Shift[i + 1] = 2 * p
  BY Shifts
<1> HIDE DEF p
<1>2. PICK q \in Nat : x = q * p
  BY DEF Multiple, p
<1>3. Bit(x, i) <=> q % 2 = 1
  BY <1>1, <1>2, Divided DEF Bit, p
<1>4. CASE q % 2 = 1
  <2>1. PICK k \in Nat : q = 2 * k + 1
    <3>1. q = 2 * (q \div 2) + 1 /\ q \div 2 \in Nat
      BY <1>4
    <3> QED BY <3>1
  <2>2. x = (2 * k + 1) * p
    BY <1>2, <2>1
  <2>3. (2 * k + 1) * p = k * (2 * p) + p /\ k * (2 * p) \in Nat
    BY <1>1
  <2>4. x - p = k * Shift[i + 1] /\ x >= p
    BY <1>1, <2>2, <2>3
  <2> QED BY <1>3, <1>4, <2>4 DEF Multiple, p
<1>5. CASE q % 2 # 1
  <2>1. PICK k \in Nat : q = 2 * k
    <3>1. q = 2 * (q \div 2) /\ q \div 2 \in Nat
      BY <1>5
    <3> QED BY <3>1
  <2>2. x = (2 * k) * p /\ (2 * k) * p = k * (2 * p)
    BY <1>1, <1>2, <2>1
  <2>3. x = k * Shift[i + 1]
    BY <1>1, <2>2
  <2> QED BY <1>3, <1>5, <2>3 DEF Multiple
<1> QED BY <1>4, <1>5

\* Multiples of the next shift do not have the bit; with the shift added they do.
LEMMA BitOf ==
  ASSUME NEW i \in 0..29, NEW x \in Nat, Multiple(x, i + 1)
  PROVE  /\ Multiple(x, i) /\ ~Bit(x, i)
         /\ Multiple(x + Shift[i], i) /\ Bit(x + Shift[i], i)
<1> DEFINE p == Shift[i]
<1>1. p \in Nat \ {0} /\ Shift[i + 1] = 2 * p
  BY Shifts
<1> HIDE DEF p
<1>2. PICK k \in Nat : x = k * (2 * p)
  BY <1>1 DEF Multiple
<1>3. k * (2 * p) = (2 * k) * p /\ k * (2 * p) + p = (2 * k + 1) * p
  BY <1>1
<1>4. x = (2 * k) * p /\ x + p = (2 * k + 1) * p
  BY <1>2, <1>3
<1>5. 2 * k \in Nat /\ 2 * k + 1 \in Nat /\ (2 * k) % 2 = 0 /\ (2 * k + 1) % 2 = 1
  OBVIOUS
<1>6. x \div p = 2 * k /\ (x + p) \div p = 2 * k + 1
  BY <1>1, <1>4, <1>5, Divided
<1>7. Multiple(x, i) /\ Multiple(x + p, i)
  BY <1>4, <1>5 DEF Multiple, p
<1>8. ~Bit(x, i) /\ Bit(x + p, i)
  BY <1>5, <1>6 DEF Bit, p
<1> QED BY <1>7, <1>8 DEF p

\* A higher shift is a multiple of a lower one.
LEMMA ShiftMultiple ==
  ASSUME NEW i \in 0..30, NEW j \in i..30
  PROVE  Multiple(Shift[j], i)
<1> DEFINE S == {k \in 0..(30 - i) : Multiple(Shift[i + k], i)}
<1>1. 0 \in S
  <2>1. i + 0 = i /\ Shift[i] \in Nat
    BY Shifts
  <2>2. Shift[i] = 1 * Shift[i]
    BY <2>1
  <2> QED BY <2>1, <2>2 DEF Multiple
<1>2. ASSUME NEW k \in 0..((30 - i) - 1), k \in S PROVE k + 1 \in S
  <2>1. i + k \in 0..29 /\ i + (k + 1) = (i + k) + 1 /\ k + 1 \in 0..(30 - i)
    OBVIOUS
  <2>2. Shift[i + (k + 1)] = 2 * Shift[i + k] /\ Shift[i] \in Nat
    BY <2>1, Shifts
  <2>3. PICK q \in Nat : Shift[i + k] = q * Shift[i]
    BY <1>2 DEF Multiple
  <2>4. 2 * q \in Nat /\ 2 * (q * Shift[i]) = (2 * q) * Shift[i]
    BY <2>2
  <2>5. Multiple(Shift[i + (k + 1)], i)
    BY <2>2, <2>3, <2>4 DEF Multiple
  <2> QED BY <2>1, <2>5
<1> HIDE DEF S
<1>3. \A k \in 0..(30 - i) : k \in S
  BY <1>1, <1>2, Reached
<1>4. j - i \in S /\ i + (j - i) = j
  BY <1>3
<1> QED BY <1>4 DEF S

\* Multiples add up to multiples.
LEMMA MultipleSum ==
  ASSUME NEW i \in 0..30, NEW x, NEW y, Multiple(x, i), Multiple(y, i)
  PROVE  Multiple(x + y, i)
<1>1. Shift[i] \in Nat
  BY Shifts
<1>2. PICK q \in Nat : x = q * Shift[i]
  BY DEF Multiple
<1>3. PICK r \in Nat : y = r * Shift[i]
  BY DEF Multiple
<1>4. q + r \in Nat /\ q * Shift[i] + r * Shift[i] = (q + r) * Shift[i]
  BY <1>1
<1> QED BY <1>2, <1>3, <1>4 DEF Multiple

-----------------------------------------------------------------------------
(* Sub types: sums                                                           *)

\* The sums of the first elements of w
Sums(w) ==
  LET sum[i \in 0..Len(w)] == IF i = 0 THEN 0 ELSE sum[i - 1] + w[i]
  IN sum

\* What Sums computes.
LEMMA SumsIs ==
  ASSUME NEW n \in Nat, NEW w \in [1..n -> Nat]
  PROVE  /\ Sums(w) \in [0..n -> Nat] /\ Sums(w)[0] = 0
         /\ \A i \in 1..n : Sums(w)[i] = Sums(w)[i - 1] + w[i]
<1> DEFINE add == [p \in (1..n) \X Nat |-> p[2] + w[p[1]]]
<1>1. PICK f \in [0..n -> Nat] :
        f[0] = 0 /\ \A i \in 1..n : f[i] = add[<<i, f[i - 1]>>]
  <2> DEFINE D == Nat
             zero == 0
  <2>1. Stepping(n, D, add) /\ zero \in D
    BY DEF Stepping
  <2> HIDE DEF add, D, zero
  <2>2. \E f \in [0..n -> D] :
          f[0] = zero /\ \A i \in 1..n : f[i] = add[<<i, f[i - 1]>>]
    BY <2>1, Recursion
  <2> QED BY <2>2 DEF D, zero
<1>3. ASSUME NEW i \in 1..n PROVE f[i] = f[i - 1] + w[i]
  <2>1. i - 1 \in 0..n
    OBVIOUS
  <2>2. <<i, f[i - 1]>> \in (1..n) \X Nat
    BY <2>1
  <2> QED BY <1>1, <2>2
<1>4. f = [i \in 0..n |-> IF i = 0 THEN 0 ELSE f[i - 1] + w[i]]
  <2>1. f[0] = 0
    BY <1>1
  <2> HIDE DEF add
  <2> QED BY <1>3, <2>1
<1>5. Len(w) = n
  BY Long
<1> DEFINE s == Sums(w)
<1>6. s = [i \in 0..n |-> IF i = 0 THEN 0 ELSE s[i - 1] + w[i]]
  <2>1. f = [i \in 0..Len(w) |-> IF i = 0 THEN 0 ELSE f[i - 1] + w[i]]
    BY <1>4, <1>5
  <2>2. s = [i \in 0..Len(w) |-> IF i = 0 THEN 0 ELSE s[i - 1] + w[i]]
    BY <2>1, Zenon DEF Sums
  <2> QED BY <1>5, <2>2
<1> HIDE DEF s
<1>7. s[0] = 0 /\ DOMAIN s = 0..n /\ \A i \in 1..n : s[i] = s[i - 1] + w[i]
  BY <1>6
<1> DEFINE S == {i \in 0..n : s[i] \in Nat}
<1>8. 0 \in S
  BY <1>7
<1>9. ASSUME NEW i \in 0..(n - 1), i \in S PROVE i + 1 \in S
  <2>1. i + 1 \in 1..n /\ (i + 1) - 1 = i
    OBVIOUS
  <2>2. s[i + 1] = s[i] + w[i + 1] /\ w[i + 1] \in Nat
    BY <1>7, <2>1
  <2> QED BY <1>9, <2>1, <2>2
<1>10. \A i \in 0..n : i \in S
  <2> HIDE DEF S
  <2> QED BY <1>8, <1>9, Reached
<1>11. s \in [0..n -> Nat]
  BY <1>6, <1>10
<1> QED BY <1>7, <1>11 DEF s

\* The sum of the first elements does not depend on the others.
LEMMA SumsPrefix ==
  ASSUME NEW n \in Nat, NEW m \in 0..n, NEW v \in [1..n -> Nat], NEW w \in [1..m -> Nat],
         \A j \in 1..m : v[j] = w[j]
  PROVE  Sums(v)[m] = Sums(w)[m]
<1> DEFINE a == Sums(v)
           b == Sums(w)
           S == {i \in 0..m : a[i] = b[i]}
<1>1. a[0] = 0 /\ \A i \in 1..n : a[i] = a[i - 1] + v[i]
  BY SumsIs
<1>2. b[0] = 0 /\ \A i \in 1..m : b[i] = b[i - 1] + w[i]
  <2>1. m \in Nat
    OBVIOUS
  <2> QED BY <2>1, SumsIs
<1> HIDE DEF a, b
<1>3. 0 \in S
  BY <1>1, <1>2
<1>4. ASSUME NEW i \in 0..(m - 1), i \in S PROVE i + 1 \in S
  <2>1. i + 1 \in 1..m /\ i + 1 \in 1..n /\ (i + 1) - 1 = i
    OBVIOUS
  <2> QED BY <1>1, <1>2, <1>4, <2>1
<1>5. \A i \in 0..m : i \in S
  <2>1. m \in Nat
    OBVIOUS
  <2> HIDE DEF S
  <2> QED BY <2>1, <1>3, <1>4, Reached
<1> QED BY <1>5 DEF a, b

\* Sums of elements that differ in one place differ by as much.
LEMMA SumsDiffer ==
  ASSUME NEW n \in Nat, NEW v \in [1..n -> Nat], NEW w \in [1..n -> Nat], NEW k \in 1..n,
         \A j \in 1..n : j # k => v[j] = w[j]
  PROVE  Sums(v)[n] + w[k] = Sums(w)[n] + v[k]
<1> DEFINE a == Sums(v)
           b == Sums(w)
           S == {i \in 0..n : IF i < k THEN a[i] = b[i] ELSE a[i] + w[k] = b[i] + v[k]}
<1>1. a \in [0..n -> Nat] /\ a[0] = 0 /\ \A i \in 1..n : a[i] = a[i - 1] + v[i]
  BY SumsIs
<1>2. b \in [0..n -> Nat] /\ b[0] = 0 /\ \A i \in 1..n : b[i] = b[i - 1] + w[i]
  BY SumsIs
<1> HIDE DEF a, b
<1>3. 0 \in S
  BY <1>1, <1>2
<1>4. ASSUME NEW i \in 0..(n - 1), i \in S PROVE i + 1 \in S
  <2>1. i + 1 \in 1..n /\ (i + 1) - 1 = i /\ i \in 0..n
    OBVIOUS
  <2>2. a[i + 1] = a[i] + v[i + 1] /\ b[i + 1] = b[i] + w[i + 1]
    BY <1>1, <1>2, <2>1
  <2>3. /\ a[i] \in Nat /\ b[i] \in Nat /\ v[i + 1] \in Nat /\ w[i + 1] \in Nat
        /\ v[k] \in Nat /\ w[k] \in Nat
    BY <1>1, <1>2, <2>1
  <2>4. CASE i + 1 = k
    <3>1. a[i] = b[i] /\ ~(i + 1 < k)
      BY <1>4, <2>4
    <3>2. a[i + 1] + w[k] = b[i + 1] + v[k]
      <4> HIDE DEF S
      <4>1. a[i + 1] = a[i] + v[k] /\ b[i + 1] = a[i] + w[k]
        BY <2>2, <2>4, <3>1
      <4> QED BY <2>3, <4>1
    <3> QED BY <2>1, <3>1, <3>2
  <2>5. CASE i + 1 # k
    <3>1. v[i + 1] = w[i + 1]
      BY <2>1, <2>5
    <3>2. CASE i < k
      <4>1. a[i] = b[i] /\ i + 1 < k
        BY <1>4, <2>5, <3>2
      <4>2. a[i + 1] = b[i + 1]
        BY <2>2, <3>1, <4>1
      <4> QED BY <2>1, <4>1, <4>2
    <3>3. CASE ~(i < k)
      <4>1. a[i] + w[k] = b[i] + v[k] /\ ~(i + 1 < k)
        BY <1>4, <3>3
      <4>2. a[i + 1] + w[k] = b[i + 1] + v[k]
        <5> HIDE DEF S
        <5>1. b[i + 1] = b[i] + v[i + 1]
          BY <2>2, <3>1
        <5>2. a[i + 1] + w[k] = (a[i] + w[k]) + v[i + 1]
          BY <2>2, <2>3
        <5>3. b[i + 1] + v[k] = (b[i] + v[k]) + v[i + 1]
          BY <5>1, <2>3
        <5> QED BY <4>1, <5>2, <5>3
      <4> QED BY <2>1, <4>1, <4>2
    <3> QED BY <3>2, <3>3
  <2> QED BY <2>4, <2>5
<1>5. \A i \in 0..n : i \in S
  <2> HIDE DEF S
  <2> QED BY <1>3, <1>4, Reached
<1>6. n \in S /\ ~(n < k)
  BY <1>5
<1> QED BY <1>6 DEF a, b

\* The sum of multiples is one.
LEMMA SumsMultiple ==
  ASSUME NEW n \in Nat, NEW w \in [1..n -> Nat], NEW x \in 0..30,
         \A j \in 1..n : Multiple(w[j], x)
  PROVE  Multiple(Sums(w)[n], x)
<1> DEFINE a == Sums(w)
           S == {i \in 0..n : Multiple(a[i], x)}
<1>1. a[0] = 0 /\ \A i \in 1..n : a[i] = a[i - 1] + w[i]
  BY SumsIs
<1> HIDE DEF a
<1>2. 0 \in S
  <2>1. Shift[x] \in Nat
    BY Shifts
  <2>2. 0 = 0 * Shift[x]
    BY <2>1
  <2> QED BY <1>1, <2>2 DEF Multiple
<1>3. ASSUME NEW i \in 0..(n - 1), i \in S PROVE i + 1 \in S
  <2>1. i + 1 \in 1..n /\ i + 1 \in 0..n /\ (i + 1) - 1 = i
    OBVIOUS
  <2>2. a[i + 1] = a[i] + w[i + 1]
    BY <1>1, <2>1
  <2>3. Multiple(a[i], x) /\ Multiple(w[i + 1], x)
    BY <1>3, <2>1
  <2> QED BY <2>1, <2>2, <2>3, MultipleSum
<1>4. \A i \in 0..n : i \in S
  <2> HIDE DEF S
  <2> QED BY <1>2, <1>3, Reached
<1> QED BY <1>4 DEF a


-----------------------------------------------------------------------------
(* Sub types: codes and lists                                                *)

\* The shift of each sub type of a list
Weights(utsub) == [j \in 1..Len(utsub) |-> Shift[utsub[j]]]

\* ut2Bsub adds the shifts of the list.
LEMMA CodeIs ==
  ASSUME NEW super, super # SUPER_UTIVA, NEW u \in Seq(0..30)
  PROVE  /\ Len(u) \in Nat /\ Weights(u) \in [1..Len(u) -> Nat]
         /\ ut2Bsub(super, u) = Sums(Weights(u))[Len(u)]
<1> DEFINE n == Len(u)
           w == Weights(u)
<1>1. n \in Nat /\ \A j \in 1..n : u[j] \in 0..30
  <2> DEFINE R == 0..30
  <2>1. u \in Seq(R)
    OBVIOUS
  <2> HIDE DEF R
  <2>2. Len(u) \in Nat /\ \A j \in 1..Len(u) : u[j] \in R
    BY <2>1
  <2> QED BY <2>2 DEF R
<1>2. w \in [1..n -> Nat] /\ \A j \in 1..n : w[j] = Shift[u[j]]
  BY <1>1, Shifts DEF Weights
<1> HIDE DEF n, w
<1>3. Sums(w) \in [0..n -> Nat] /\ Sums(w)[0] = 0
      /\ \A i \in 1..n : Sums(w)[i] = Sums(w)[i - 1] + w[i]
  BY <1>1, <1>2, SumsIs
<1> DEFINE f == Sums(w)
           bsub[i \in 0..n] == IF i = 0 THEN 0 ELSE bsub[i - 1] + Shift[u[i]]
<1>4. f = [i \in 0..n |-> IF i = 0 THEN 0 ELSE f[i - 1] + Shift[u[i]]]
  BY <1>2, <1>3
<1>5. bsub = [i \in 0..n |-> IF i = 0 THEN 0 ELSE bsub[i - 1] + Shift[u[i]]]
  <2> HIDE DEF f
  <2> QED BY <1>4, Zenon
<1>6. ut2Bsub(super, u) = bsub[n]
  BY Zenon DEF ut2Bsub, n
<1> HIDE DEF bsub
<1>7. bsub[0] = 0 /\ \A i \in 1..n : bsub[i] = bsub[i - 1] + Shift[u[i]]
  BY <1>1, <1>5
<1> DEFINE S == {i \in 0..n : bsub[i] = f[i]}
<1>8. 0 \in S
  BY <1>1, <1>3, <1>7
<1>9. ASSUME NEW i \in 0..(n - 1), i \in S PROVE i + 1 \in S
  <2>1. i + 1 \in 1..n /\ i + 1 \in 0..n /\ (i + 1) - 1 = i
    BY <1>1
  <2> QED BY <1>2, <1>3, <1>7, <1>9, <2>1
<1>10. \A i \in 0..n : i \in S
  <2> HIDE DEF S
  <2> QED BY <1>1, <1>8, <1>9, Reached
<1>11. bsub[n] = f[n]
  BY <1>1, <1>10
<1> QED BY <1>1, <1>2, <1>6, <1>11 DEF n, w

\* A sub type more adds its shift.
LEMMA CodeAppend ==
  ASSUME NEW super, super # SUPER_UTIVA, NEW u \in Seq(0..30), NEW x \in 0..30
  PROVE  /\ ut2Bsub(super, u) \in Nat
         /\ ut2Bsub(super, Append(u, x)) = ut2Bsub(super, u) + Shift[x]
<1> DEFINE n == Len(u)
           t == Append(u, x)
<1>1. /\ t \in Seq(0..30) /\ n \in Nat /\ Len(t) = n + 1 /\ t[n + 1] = x
      /\ \A j \in 1..n : t[j] = u[j]
  OBVIOUS
<1> HIDE DEF n, t
<1>2. Weights(u) \in [1..n -> Nat] /\ ut2Bsub(super, u) = Sums(Weights(u))[n]
  BY CodeIs DEF n
<1>3. Weights(t) \in [1..(n + 1) -> Nat] /\ ut2Bsub(super, t) = Sums(Weights(t))[n + 1]
  <2>1. Weights(t) \in [1..Len(t) -> Nat] /\ ut2Bsub(super, t) = Sums(Weights(t))[Len(t)]
    BY <1>1, CodeIs
  <2> QED BY <1>1, <2>1
<1>4. Weights(t)[n + 1] = Shift[x] /\ \A j \in 1..n : Weights(t)[j] = Weights(u)[j]
  BY <1>1 DEF Weights, n
<1>5. Sums(Weights(t))[n + 1] = Sums(Weights(t))[n] + Weights(t)[n + 1]
  <2>1. n + 1 \in Nat /\ n + 1 \in 1..(n + 1) /\ (n + 1) - 1 = n
    BY <1>1
  <2> QED BY <1>3, <2>1, SumsIs
<1>6. Sums(Weights(t))[n] = Sums(Weights(u))[n]
  <2>1. n + 1 \in Nat /\ n \in 0..(n + 1)
    BY <1>1
  <2> QED BY <1>2, <1>4, <1>3, <2>1, SumsPrefix
<1>7. Sums(Weights(u))[n] \in Nat
  <2>1. Sums(Weights(u)) \in [0..n -> Nat]
    <3>1. n \in Nat /\ Weights(u) \in [1..n -> Nat]
      BY <1>1, <1>2
    <3> QED BY <3>1, SumsIs
  <2>2. n \in 0..n
    BY <1>1
  <2> QED BY <2>1, <2>2
<1> QED BY <1>2, <1>4, <1>5, <1>6, <1>7, <1>3 DEF t

\* The codes have at most 13 bits; only the private super type has none.
LEMMA BitsIs ==
  ASSUME NEW super \in Supers
  PROVE  /\ bits(super) \in 0..13
         /\ super # SUPER_UTIVA => bits(super) >= 1
  BY DEF bits, Bits, Supers, SUPER_UTIVA

\* The loop of B2utsub.
LEMMA TakenIs ==
  ASSUME NEW super \in Supers, NEW code \in Nat
  PROVE  LET a == Taken(super, code) IN
         /\ a[0] = [utsub |-> <<>>, bsub |-> code]
         /\ \A i \in 1..bits(super) : a[i] = Take(a[i - 1], i - 1)
<1> DEFINE n == bits(super)
           start == [utsub |-> <<>>, bsub |-> code]
           D == [utsub : Seq(Int), bsub : Int]
           step == [p \in (1..n) \X D |-> Take(p[2], p[1] - 1)]
<1>1. n \in 0..13
  BY BitsIs
<1> HIDE DEF n
<1>2. start \in D
  OBVIOUS
<1>3. ASSUME NEW i \in 1..n, NEW s \in D PROVE Take(s, i - 1) \in D
  <2>1. i - 1 \in 0..30 /\ i - 1 \in Int
    BY <1>1
  <2>2. Shift[i - 1] \in Nat
    BY <2>1, Shifts
  <2>3. Append(s.utsub, i - 1) \in Seq(Int) /\ s.bsub - Shift[i - 1] \in Int
    BY <2>1, <2>2
  <2> QED BY <2>3 DEF Take
<1>4. Stepping(n, D, step)
  <2> HIDE DEF D
  <2> QED BY <1>3 DEF Stepping
<1>5. PICK f \in [0..n -> D] :
        f[0] = start /\ \A i \in 1..n : f[i] = step[<<i, f[i - 1]>>]
  <2> HIDE DEF D, start, step
  <2>1. n \in Nat
    BY <1>1
  <2> QED BY <1>2, <1>4, <2>1, Recursion
<1>6. ASSUME NEW i \in 1..n PROVE f[i] = Take(f[i - 1], i - 1)
  <2> HIDE DEF D
  <2>1. i - 1 \in 0..n
    BY <1>1
  <2>2. <<i, f[i - 1]>> \in (1..n) \X D
    BY <2>1
  <2> QED BY <1>5, <2>2
<1>7. f = [i \in 0..n |-> IF i = 0 THEN start ELSE Take(f[i - 1], i - 1)]
  <2> HIDE DEF D, step, start
  <2>1. f[0] = start
    BY <1>5
  <2> QED BY <1>1, <1>6, <2>1
<1> DEFINE a == Taken(super, code)
<1>8. a = [i \in 0..n |-> IF i = 0 THEN start ELSE Take(a[i - 1], i - 1)]
  BY <1>7, Zenon DEF Taken, n
<1> HIDE DEF a, start
<1>9. a[0] = start /\ \A i \in 1..n : a[i] = Take(a[i - 1], i - 1)
  BY <1>1, <1>8
<1> QED BY <1>9 DEF a, start, n


-----------------------------------------------------------------------------
(* Sub types: every code                                                     *)

\* What the loop has taken off a code, and what it has left.
Whole(super, code, s, i) ==
  /\ s.utsub \in Seq(0..30) /\ s.bsub \in Nat /\ s.bsub <= code
  /\ code - s.bsub < Shift[i]
  /\ Multiple(s.bsub, i)
  /\ ut2Bsub(super, s.utsub) = code - s.bsub

\* A turn of the loop keeps it.
LEMMA WholeTake ==
  ASSUME NEW super \in Supers, super # SUPER_UTIVA, NEW code \in Nat, NEW i \in 0..29, NEW s,
         Whole(super, code, s, i)
  PROVE  Whole(super, code, Take(s, i), i + 1)
<1> DEFINE p == Shift[i]
           x == s.bsub
           u == s.utsub
<1>1. /\ u \in Seq(0..30) /\ x \in Nat /\ x <= code /\ code - x < p
      /\ Multiple(x, i) /\ ut2Bsub(super, u) = code - x
  BY DEF Whole
<1>2. p \in Nat \ {0} /\ Shift[i + 1] = 2 * p
  BY Shifts
<1> HIDE DEF p, x, u
<1>3. CASE Bit(x, i)
  <2>1. x >= p /\ Multiple(x - p, i + 1)
    BY <1>1, <1>3, BitIs DEF p
  <2>2. /\ Take(s, i).utsub = Append(u, i) /\ Take(s, i).bsub = x - p
    BY <1>3 DEF Take, x, u, p
  <2>3. Append(u, i) \in Seq(0..30)
    <3>1. i \in 0..30
      OBVIOUS
    <3> QED BY <1>1, <3>1
  <2>4. ut2Bsub(super, Append(u, i)) = ut2Bsub(super, u) + p
    <3>1. i \in 0..30
      OBVIOUS
    <3> QED BY <1>1, <3>1, CodeAppend DEF p
  <2>5. x - p \in Nat /\ x - p <= code /\ code - (x - p) = (code - x) + p
        /\ (code - x) + p < 2 * p
    BY <1>1, <1>2, <2>1
  <2> QED BY <1>1, <1>2, <2>1, <2>2, <2>3, <2>4, <2>5 DEF Whole
<1>4. CASE ~Bit(x, i)
  <2>1. Multiple(x, i + 1)
    BY <1>1, <1>4, BitIs
  <2>2. Take(s, i).utsub = u /\ Take(s, i).bsub = x
    BY <1>4 DEF Take, x, u
  <2>3. code - x < 2 * p
    BY <1>1, <1>2
  <2> QED BY <1>1, <1>2, <2>1, <2>2, <2>3 DEF Whole
<1> QED BY <1>3, <1>4

\* Every code below the next shift is the code of its list, and the list of
\* any other is empty.
LEMMA WholeCodes ==
  ASSUME NEW super \in Supers, NEW code \in Nat
  PROVE  ut2Bsub(super, B2utsub(super, code)) =
           IF code < Shift[bits(super)] THEN code ELSE 0
<1> DEFINE n == bits(super)
           a == Taken(super, code)
<1>1. CASE super = SUPER_UTIVA
  <2>1. n = 0 /\ Shift[0] = 1
    BY <1>1, Shifts DEF bits
  <2>2. ut2Bsub(super, B2utsub(super, code)) = 0
    BY <1>1 DEF ut2Bsub
  <2> QED BY <2>1, <2>2
<1>2. CASE super # SUPER_UTIVA
  <2>1. n \in 0..13
    BY BitsIs
  <2>2. a[0] = [utsub |-> <<>>, bsub |-> code] /\ \A i \in 1..n : a[i] = Take(a[i - 1], i - 1)
    BY TakenIs
  <2> DEFINE S == {i \in 0..n : Whole(super, code, a[i], i)}
  <2> HIDE DEF a, n
  <2>3. ut2Bsub(super, <<>>) = 0
    <3>1. <<>> \in Seq(0..30) /\ Len(<<>>) = 0
      OBVIOUS
    <3>2. /\ ut2Bsub(super, <<>>) = Sums(Weights(<<>>))[0]
          /\ Weights(<<>>) \in [1..0 -> Nat]
      BY <1>2, <3>1, CodeIs
    <3> QED BY <3>2, SumsIs
  <2>4. 0 \in S
    <3>1. code = code * Shift[0] /\ code - code < Shift[0]
      BY Shifts
    <3>2. Multiple(code, 0)
      BY <3>1 DEF Multiple
    <3>3. a[0].utsub = <<>> /\ a[0].bsub = code /\ <<>> \in Seq(0..30)
      BY <2>2
    <3>4. Whole(super, code, a[0], 0)
      BY <2>3, <3>1, <3>2, <3>3 DEF Whole
    <3> QED BY <2>1, <3>4
  <2>5. ASSUME NEW i \in 0..(n - 1), i \in S PROVE i + 1 \in S
    <3>1. i + 1 \in 1..n /\ i \in 0..29 /\ (i + 1) - 1 = i /\ i + 1 \in 0..n
      BY <2>1
    <3>2. a[i + 1] = Take(a[i], i)
      BY <2>2, <3>1
    <3>3. Whole(super, code, a[i], i)
      BY <2>5
    <3>4. Whole(super, code, a[i + 1], i + 1)
      BY <1>2, <3>1, <3>2, <3>3, WholeTake
    <3> QED BY <3>1, <3>4
  <2>6. \A i \in 0..n : i \in S
    <3> HIDE DEF S
    <3> QED BY <2>1, <2>4, <2>5, Reached
  <2>7. Whole(super, code, a[n], n)
    BY <2>1, <2>6
  <2> DEFINE x == a[n].bsub
             p == Shift[n]
             u == a[n].utsub
  <2>8. x \in Nat /\ x <= code /\ code - x < p /\ Multiple(x, n) /\ ut2Bsub(super, u) = code - x
    BY <2>7 DEF Whole
  <2>9. p \in Nat \ {0}
    BY <2>1, Shifts
  <2>10. B2utsub(super, code) = IF x > 0 THEN <<>> ELSE u
    BY <1>2 DEF B2utsub, Leftover, a, n
  <2> HIDE DEF x, p, u
  <2>11. CASE code < p
    <3>1. PICK q \in Nat : x = q * p
      BY <2>8 DEF Multiple, p
    <3>2. q = 0
      <4>1. ASSUME q # 0 PROVE FALSE
        <5>1. q >= 1 /\ q * p = p + (q - 1) * p /\ (q - 1) * p \in Nat
          BY <2>9, <4>1
        <5> QED BY <2>8, <2>9, <2>11, <3>1, <5>1
      <4> QED BY <4>1
    <3>3. x = 0
      BY <2>9, <3>1, <3>2
    <3>4. B2utsub(super, code) = u
      BY <2>10, <3>3
    <3> QED BY <2>8, <2>11, <3>3, <3>4 DEF p, n
  <2>12. CASE ~(code < p)
    <3>1. x > 0
      BY <2>8, <2>9, <2>12
    <3>2. B2utsub(super, code) = <<>>
      BY <2>10, <3>1
    <3> QED BY <2>3, <2>12, <3>2 DEF p, n
  <2> QED BY <2>11, <2>12
<1> QED BY <1>1, <1>2


-----------------------------------------------------------------------------
(* Sub types: every list                                                     *)

\* The shifts of a list's sub types from i on
Upper(u, i) == [j \in 1..Len(u) |-> IF u[j] >= i THEN Shift[u[j]] ELSE 0]

\* ... and their sum, which is what the loop has left after i bits
Rest(u, i) == Sums(Upper(u, i))[Len(u)]

\* Upper is a list of numbers, all of them multiples of the shift.
LEMMA UpperIs ==
  ASSUME NEW u \in Seq(0..29), NEW i \in 0..30
  PROVE  /\ Len(u) \in Nat /\ Upper(u, i) \in [1..Len(u) -> Nat]
         /\ \A j \in 1..Len(u) : u[j] \in 0..29 /\ Multiple(Upper(u, i)[j], i)
<1> DEFINE R == 0..29
           n == Len(u)
<1>1. u \in Seq(R)
  OBVIOUS
<1> HIDE DEF R
<1>2. n \in Nat /\ \A j \in 1..n : u[j] \in R
  BY <1>1
<1>3. \A j \in 1..n : u[j] \in 0..29
  BY <1>2 DEF R
<1> HIDE DEF n
<1>4. ASSUME NEW j \in 1..n PROVE Upper(u, i)[j] \in Nat /\ Multiple(Upper(u, i)[j], i)
  <2>1. u[j] \in 0..29
    BY <1>3
  <2>2. Upper(u, i)[j] = IF u[j] >= i THEN Shift[u[j]] ELSE 0
    BY DEF Upper, n
  <2>3. CASE u[j] >= i
    <3> DEFINE y == u[j]
    <3>1. y \in 0..29 /\ y >= i
      BY <2>1, <2>3
    <3> HIDE DEF y
    <3>2. y \in i..30 /\ y \in 0..30
      BY <3>1
    <3>3. Shift[y] \in Nat /\ Multiple(Shift[y], i)
      BY <3>2, Shifts, ShiftMultiple
    <3> QED BY <2>2, <2>3, <3>3 DEF y
  <2>4. CASE ~(u[j] >= i)
    <3>1. Shift[i] \in Nat
      BY Shifts
    <3>2. 0 = 0 * Shift[i]
      BY <3>1
    <3> QED BY <2>2, <2>4, <3>2 DEF Multiple
  <2> QED BY <2>3, <2>4
<1>5. Upper(u, i) \in [1..n -> Nat]
  <2>1. \A j \in 1..n : Upper(u, i)[j] \in Nat
    BY <1>4
  <2> QED BY <2>1 DEF Upper, n
<1> QED BY <1>2, <1>3, <1>4, <1>5 DEF n

\* It starts as the code of the list.
LEMMA RestStart ==
  ASSUME NEW super, super # SUPER_UTIVA, NEW u \in Seq(0..29)
  PROVE  Rest(u, 0) = ut2Bsub(super, u)
<1>1. u \in Seq(0..30)
  OBVIOUS
<1>2. ut2Bsub(super, u) = Sums(Weights(u))[Len(u)]
  BY <1>1, CodeIs
<1>3. Upper(u, 0) = Weights(u)
  <2>1. ASSUME NEW j \in 1..Len(u) PROVE u[j] >= 0
    <3> DEFINE y == u[j]
    <3>1. 0 \in 0..30
      OBVIOUS
    <3>2. y \in 0..29
      BY <3>1, UpperIs
    <3> HIDE DEF y
    <3>3. y >= 0
      BY <3>2
    <3> QED BY <3>3 DEF y
  <2> QED BY <2>1 DEF Upper, Weights
<1> QED BY <1>2, <1>3 DEF Rest

\* A bit of it is set when the list has the sub type, and it loses that bit.
LEMMA RestStep ==
  ASSUME NEW u \in Seq(0..29), \A j, k \in DOMAIN u : u[j] = u[k] => j = k, NEW i \in 0..29
  PROVE  /\ Rest(u, i) \in Nat /\ Rest(u, i + 1) \in Nat /\ Multiple(Rest(u, i + 1), i + 1)
         /\ Rest(u, i) = Rest(u, i + 1) + (IF i \in ToSet(u) THEN Shift[i] ELSE 0)
<1> DEFINE n == Len(u)
           v == Upper(u, i)
           w == Upper(u, i + 1)
<1>1. i + 1 \in 0..30 /\ i \in 0..30
  OBVIOUS
<1>2. n \in Nat /\ v \in [1..n -> Nat] /\ \A j \in 1..n : u[j] \in 0..29
  BY <1>1, UpperIs
<1>3. w \in [1..n -> Nat] /\ \A j \in 1..n : Multiple(w[j], i + 1)
  BY <1>1, UpperIs
<1>4. \A j \in 1..n : /\ v[j] = IF u[j] >= i THEN Shift[u[j]] ELSE 0
                      /\ w[j] = IF u[j] >= i + 1 THEN Shift[u[j]] ELSE 0
  BY DEF Upper
<1>5. Rest(u, i) = Sums(v)[n] /\ Rest(u, i + 1) = Sums(w)[n]
  BY DEF Rest
<1>6. DOMAIN u = 1..n
  OBVIOUS
<1>7. i \in ToSet(u) <=> \E k \in 1..n : u[k] = i
  BY <1>6 DEF ToSet
<1> HIDE DEF n, v, w
<1>8. Multiple(Sums(w)[n], i + 1)
  BY <1>1, <1>2, <1>3, SumsMultiple
<1>9. Sums(v)[n] \in Nat /\ Sums(w)[n] \in Nat
  <2>1. Sums(v) \in [0..n -> Nat]
    BY <1>2, SumsIs
  <2>2. Sums(w) \in [0..n -> Nat]
    BY <1>2, <1>3, SumsIs
  <2> QED BY <1>2, <2>1, <2>2
<1>10. ASSUME NEW j \in 1..n, u[j] # i PROVE v[j] = w[j]
  <2> DEFINE y == u[j]
  <2>1. y \in 0..29 /\ y # i
    BY <1>2, <1>10
  <2>2. /\ v[j] = IF y >= i THEN Shift[y] ELSE 0
        /\ w[j] = IF y >= i + 1 THEN Shift[y] ELSE 0
    BY <1>4
  <2> HIDE DEF y
  <2>3. y >= i <=> y >= i + 1
    BY <2>1
  <2> QED BY <2>2, <2>3
<1>11. CASE i \in ToSet(u)
  <2>1. PICK k \in 1..n : u[k] = i
    BY <1>7, <1>11
  <2>2. \A j \in 1..n : j # k => v[j] = w[j]
    BY <1>6, <1>10, <2>1
  <2>3. v[k] = Shift[i] /\ w[k] = 0
    BY <1>4, <2>1
  <2>4. Sums(v)[n] + w[k] = Sums(w)[n] + v[k]
    <3>1. n \in Nat /\ v \in [1..n -> Nat] /\ w \in [1..n -> Nat]
      BY <1>2, <1>3
    <3> QED BY <2>2, <3>1, SumsDiffer
  <2>5. Shift[i] \in Nat
    BY <1>1, Shifts
  <2> QED BY <1>5, <1>8, <1>9, <1>11, <2>3, <2>4, <2>5
<1>12. CASE i \notin ToSet(u)
  <2>1. \A j \in 1..n : v[j] = w[j]
    BY <1>7, <1>10, <1>12
  <2>2. v = w
    BY <1>2, <1>3, <2>1
  <2> QED BY <1>5, <1>8, <1>9, <1>12, <2>2
<1> QED BY <1>11, <1>12

\* Nothing is left after the last bit.
LEMMA RestEnd ==
  ASSUME NEW m \in 0..30, NEW u \in Seq(0..29), \A j \in DOMAIN u : u[j] < m
  PROVE  Rest(u, m) = 0
<1> DEFINE n == Len(u)
           w == Upper(u, m)
           s == Sums(w)
           S == {i \in 0..n : s[i] = 0}
<1>1. n \in Nat /\ w \in [1..n -> Nat] /\ \A j \in 1..n : u[j] \in 0..29
  BY UpperIs
<1>2. \A j \in 1..n : w[j] = IF u[j] >= m THEN Shift[u[j]] ELSE 0
  BY DEF Upper
<1>3. DOMAIN u = 1..n
  OBVIOUS
<1>4. Rest(u, m) = s[n]
  BY DEF Rest
<1> HIDE DEF n, w
<1>5. ASSUME NEW j \in 1..n PROVE w[j] = 0
  <2> DEFINE y == u[j]
  <2>1. y \in 0..29 /\ y < m /\ w[j] = IF y >= m THEN Shift[y] ELSE 0
    BY <1>1, <1>2, <1>3
  <2> HIDE DEF y
  <2> QED BY <2>1
<1>6. s[0] = 0 /\ \A i \in 1..n : s[i] = s[i - 1] + w[i]
  BY <1>1, SumsIs
<1> HIDE DEF s
<1>7. 0 \in S
  BY <1>1, <1>6
<1>8. ASSUME NEW i \in 0..(n - 1), i \in S PROVE i + 1 \in S
  <2>1. i + 1 \in 1..n /\ i + 1 \in 0..n /\ (i + 1) - 1 = i
    BY <1>1
  <2> QED BY <1>5, <1>6, <1>8, <2>1
<1>9. \A i \in 0..n : i \in S
  <2> HIDE DEF S
  <2> QED BY <1>1, <1>7, <1>8, Reached
<1> QED BY <1>1, <1>4, <1>9

\* What the loop has made of the code of a list.
Back(u, s, i) ==
  /\ s.bsub = Rest(u, i)
  /\ s.utsub \in Seq(Int) /\ Ascending(s.utsub)
  /\ ToSet(s.utsub) = {x \in ToSet(u) : x < i}

\* A turn of the loop keeps it.
LEMMA BackTake ==
  ASSUME NEW u \in Seq(0..29), \A j, k \in DOMAIN u : u[j] = u[k] => j = k,
         NEW i \in 0..29, NEW s, Back(u, s, i)
  PROVE  Back(u, Take(s, i), i + 1)
<1> DEFINE list == s.utsub
           n == Len(list)
           t == Append(list, i)
<1>1. /\ s.bsub = Rest(u, i) /\ list \in Seq(Int) /\ Ascending(list)
      /\ ToSet(list) = {x \in ToSet(u) : x < i}
  BY DEF Back
<1>2. /\ Rest(u, i) \in Nat /\ Rest(u, i + 1) \in Nat /\ Multiple(Rest(u, i + 1), i + 1)
      /\ Rest(u, i) = Rest(u, i + 1) + (IF i \in ToSet(u) THEN Shift[i] ELSE 0)
  BY RestStep
<1>3. ToSet(u) \subseteq Int
  <2>1. \A j \in 1..Len(u) : u[j] \in 0..29
    <3>1. 0 \in 0..30
      OBVIOUS
    <3> QED BY <3>1, UpperIs
  <2>2. DOMAIN u = 1..Len(u)
    OBVIOUS
  <2>3. ASSUME NEW j \in DOMAIN u PROVE u[j] \in Int
    <3> DEFINE y == u[j]
    <3>1. y \in 0..29
      BY <2>1, <2>2
    <3> HIDE DEF y
    <3>2. y \in Int
      BY <3>1
    <3> QED BY <3>2 DEF y
  <2> QED BY <2>3 DEF ToSet
<1> HIDE DEF list
<1>4. CASE i \in ToSet(u)
  <2>1. Rest(u, i) = Rest(u, i + 1) + Shift[i] /\ Shift[i] \in Nat
    <3>1. i \in 0..30
      OBVIOUS
    <3> QED BY <1>2, <1>4, <3>1, Shifts
  <2>2. Bit(s.bsub, i)
    <3>1. Bit(Rest(u, i + 1) + Shift[i], i)
      BY <1>2, BitOf
    <3> QED BY <1>1, <2>1, <3>1
  <2>3. s.bsub - Shift[i] = Rest(u, i + 1)
    BY <1>1, <1>2, <2>1
  <2>4. Take(s, i).utsub = t /\ Take(s, i).bsub = Rest(u, i + 1)
    BY <2>2, <2>3 DEF Take, list
  <2>5. /\ n \in Nat /\ t \in Seq(Int) /\ DOMAIN list = 1..n /\ DOMAIN t = 1..(n + 1)
        /\ t[n + 1] = i /\ \A j \in 1..n : t[j] = list[j]
    BY <1>1
  <2> HIDE DEF n, t
  <2>6. \A j \in 1..n : list[j] < i /\ list[j] \in Int
    <3>1. \A j \in 1..n : list[j] \in ToSet(list)
      BY <2>5 DEF ToSet
    <3> QED BY <1>1, <1>3, <3>1
  <2>7. Ascending(t)
    <3>1. SUFFICES ASSUME NEW j \in 1..(n + 1), NEW k \in 1..(n + 1), j < k PROVE t[j] < t[k]
      BY <2>5 DEF Ascending
    <3>2. j \in 1..n /\ t[j] = list[j]
      BY <2>5, <3>1
    <3>3. CASE k = n + 1
      BY <2>5, <2>6, <3>2, <3>3
    <3>4. CASE k # n + 1
      <4>1. k \in 1..n
        BY <2>5, <3>4
      <4> QED BY <1>1, <2>5, <3>1, <3>2, <4>1 DEF Ascending
    <3> QED BY <3>3, <3>4
  <2>8. ToSet(t) = ToSet(list) \cup {i}
    <3>1. \A y : (\E j \in 1..(n + 1) : t[j] = y) <=> (\E j \in 1..n : list[j] = y) \/ y = i
      <4>1. ASSUME NEW y, NEW j \in 1..(n + 1), t[j] = y
            PROVE  (\E k \in 1..n : list[k] = y) \/ y = i
        <5>1. j \in 1..n \/ j = n + 1
          BY <2>5
        <5> QED BY <2>5, <4>1, <5>1
      <4>2. ASSUME NEW y, NEW j \in 1..n, list[j] = y PROVE \E k \in 1..(n + 1) : t[k] = y
        <5>1. j \in 1..(n + 1)
          BY <2>5
        <5> QED BY <2>5, <4>2, <5>1
      <4>3. n + 1 \in 1..(n + 1)
        BY <2>5
      <4> QED BY <2>5, <4>1, <4>2, <4>3
    <3> QED BY <2>5, <3>1 DEF ToSet
  <2>9. ToSet(t) = {x \in ToSet(u) : x < i + 1}
    BY <1>1, <1>3, <1>4, <2>8
  <2> QED BY <2>4, <2>5, <2>7, <2>9 DEF Back
<1>5. CASE i \notin ToSet(u)
  <2>1. Rest(u, i) = Rest(u, i + 1)
    BY <1>2, <1>5
  <2>2. ~Bit(s.bsub, i)
    <3>1. ~Bit(Rest(u, i + 1), i)
      BY <1>2, BitOf
    <3> QED BY <1>1, <2>1, <3>1
  <2>3. Take(s, i) = s
    BY <2>2 DEF Take
  <2>4. ToSet(list) = {x \in ToSet(u) : x < i + 1}
    BY <1>1, <1>3, <1>5
  <2> QED BY <1>1, <2>1, <2>3, <2>4 DEF Back, list
<1> QED BY <1>4, <1>5

\* A list of different sub types comes back from its code.
LEMMA ListsBack ==
  ASSUME NEW super \in Supers, super # SUPER_UTIVA, NEW u \in Lists(super)
  PROVE  LET list == B2utsub(super, ut2Bsub(super, u))
         IN  ToSet(list) = ToSet(u) /\ Ascending(list)
<1> DEFINE n == bits(super)
           code == ut2Bsub(super, u)
           a == Taken(super, code)
           S == {i \in 0..n : Back(u, a[i], i)}
<1>1. n \in 0..13
  BY BitsIs
<1>2. u \in Seq(0..(n - 1)) /\ \A j, k \in DOMAIN u : u[j] = u[k] => j = k
  BY DEF Lists
<1>3. u \in Seq(0..29)
  <2> DEFINE R == 0..(n - 1)
             Q == 0..29
  <2>1. u \in Seq(R)
    BY <1>2
  <2>2. R \subseteq Q
    <3> HIDE DEF n
    <3> QED BY <1>1
  <2> HIDE DEF R, Q
  <2>3. u \in Seq(Q)
    BY <2>1, <2>2
  <2> QED BY <2>3 DEF Q
<1>4. Rest(u, 0) = code /\ Rest(u, 0) \in Nat
  <2>1. 0 \in 0..29
    OBVIOUS
  <2>2. Rest(u, 0) \in Nat
    BY <1>2, <1>3, <2>1, RestStep
  <2> QED BY <1>3, <2>2, RestStart
<1>5. a[0] = [utsub |-> <<>>, bsub |-> code] /\ \A i \in 1..n : a[i] = Take(a[i - 1], i - 1)
  BY <1>4, TakenIs
<1>6. B2utsub(super, code) = IF a[n].bsub > 0 THEN <<>> ELSE a[n].utsub
  BY DEF B2utsub, Leftover
<1> HIDE DEF n, code, a
<1>7. \A j \in DOMAIN u : u[j] \in Int /\ 0 <= u[j] /\ u[j] < n
  <2> DEFINE R == 0..(n - 1)
  <2>1. u \in Seq(R)
    BY <1>2
  <2> HIDE DEF R
  <2>2. \A j \in DOMAIN u : u[j] \in R
    BY <2>1
  <2> QED BY <1>1, <2>2 DEF R
<1>8. 0 \in S
  <2>1. a[0].utsub = <<>> /\ a[0].bsub = Rest(u, 0)
    BY <1>4, <1>5
  <2>2. Ascending(<<>>) /\ <<>> \in Seq(Int) /\ ToSet(<<>>) = {}
    BY DEF Ascending, ToSet
  <2>3. {x \in ToSet(u) : x < 0} = {}
    BY <1>7 DEF ToSet
  <2>4. Back(u, a[0], 0)
    BY <2>1, <2>2, <2>3 DEF Back
  <2> QED BY <1>1, <2>4
<1>9. ASSUME NEW i \in 0..(n - 1), i \in S PROVE i + 1 \in S
  <2>1. i + 1 \in 1..n /\ i + 1 \in 0..n /\ (i + 1) - 1 = i /\ i \in 0..29
    BY <1>1
  <2>2. a[i + 1] = Take(a[i], i)
    BY <1>5, <2>1
  <2>3. Back(u, a[i], i)
    BY <1>9
  <2>4. Back(u, a[i + 1], i + 1)
    BY <1>2, <1>3, <2>1, <2>2, <2>3, BackTake
  <2> QED BY <2>1, <2>4
<1>10. \A i \in 0..n : i \in S
  <2> HIDE DEF S
  <2> QED BY <1>1, <1>8, <1>9, Reached
<1>11. Back(u, a[n], n)
  BY <1>1, <1>10
<1>12. Rest(u, n) = 0
  <2>1. n \in 0..30 /\ \A j \in DOMAIN u : u[j] < n
    BY <1>1, <1>7
  <2> QED BY <1>3, <2>1, RestEnd
<1>13. {x \in ToSet(u) : x < n} = ToSet(u)
  BY <1>7 DEF ToSet
<1>14. B2utsub(super, code) = a[n].utsub
  BY <1>6, <1>11, <1>12 DEF Back
<1> QED BY <1>11, <1>13, <1>14 DEF Back, code

\* A list of different sub types comes back from its code in ascending order,
\* and a code is understood as a whole or not at all (ut2Bsub and B2utsub), for
\* every super type, list and code.
THEOREM SubCodes == CodeSpec => [](RoundTrip /\ WholeCode)
<1> DEFINE Given == /\ given.super \in Supers /\ given.code \in Nat
                   /\ given.utsub \in Lists(given.super)
<1>1. CodeInit => Given
  BY DEF CodeInit
<1>2. Given /\ [UNCHANGED given]_given => Given'
  OBVIOUS
<1>3. Given => RoundTrip
  BY ListsBack DEF RoundTrip
<1>4. Given => WholeCode
  BY WholeCodes DEF WholeCode
<1> HIDE DEF Given
<1> QED BY <1>1, <1>2, <1>3, <1>4, PTL DEF CodeSpec
===============================================================================
