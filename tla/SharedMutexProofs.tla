-------------------------- MODULE SharedMutexProofs --------------------------
(***************************************************************************)
(* Proofs about SharedMutex for any finite set of threads and any number of *)
(* uses.  The state's counters say who is inside; hence it is a             *)
(* reader-writer lock, and no sleeper is forgotten.                         *)
(***************************************************************************)
EXTENDS SharedMutex, FiniteSetTheorems, TLAPS

Inv == TypeOK /\ CountersTrue /\ NoneForgotten

USE MutexAssumption

LEMMA AtFinite == \A place : IsFiniteSet(At(place))
  BY FS_Subset DEF At

\* t leaves; every reader and, if there is one, a writer are woken.
LEMMA Release ==
  ASSUME TypeOK, NEW t \in Threads, Released(t), pc[t] \in {"inS", "inX"}
  PROVE  /\ pc' \in [Threads -> {"out", "sleepS", "wokenS", "inS",
                                 "sleepX", "wokenX", "inX"}]
         /\ At("inS")' = At("inS") \ {t}
         /\ At("inX")' = At("inX") \ {t}
         /\ At("sleepS")' = {}
         /\ At("sleepX")' # {} => At("wokenX")' # {}
<1>1. PICK ws \in SUBSET At("sleepX") :
        /\ Cardinality(ws) = IF At("sleepX") = {} THEN 0 ELSE 1
        /\ pc' = [k \in Threads |->
                    CASE k = t -> "out"
                      [] k \in ws -> "wokenX"
                      [] pc[k] = "sleepS" -> "wokenS"
                      [] OTHER -> pc[k]]
  BY DEF Released
<1>2. t \notin ws /\ ws \subseteq Threads /\ \A k \in ws : pc[k] = "sleepX"
  BY <1>1 DEF At
<1>3. \A k \in Threads :
        pc'[k] = IF k = t THEN "out" ELSE IF k \in ws THEN "wokenX"
                 ELSE IF pc[k] = "sleepS" THEN "wokenS" ELSE pc[k]
  BY <1>1, <1>2
<1>4. pc' \in [Threads -> {"out", "sleepS", "wokenS", "inS",
                           "sleepX", "wokenX", "inX"}]
  BY <1>1, <1>3 DEF TypeOK
<1>5. At("inS")' = At("inS") \ {t} /\ At("inX")' = At("inX") \ {t}
  BY <1>2, <1>3 DEF At
<1>6. At("sleepS")' = {}
  BY <1>2, <1>3 DEF At
<1>7. ASSUME At("sleepX")' # {} PROVE At("wokenX")' # {}
  <2>1. At("sleepX") # {}
    BY <1>2, <1>3, <1>7 DEF At
  <2>2. ws # {}
    BY <1>1, <2>1, FS_EmptySet
  <2>3. PICK w : w \in ws
    BY <2>2
  <2> QED BY <1>2, <1>3, <2>3 DEF At
<1> QED BY <1>4, <1>5, <1>6, <1>7

LEMMA InitInv == Init => Inv
<1> SUFFICES ASSUME Init PROVE Inv
  OBVIOUS
<1>1. \A p : p # "out" => At(p) = {}
  BY DEF Init, At
<1>2. Cardinality(At("inS")) = 0
  BY <1>1, FS_EmptySet
<1>3. TypeOK
  <2>1. 0 \in 0..MaxUses /\ shared_count \in Nat
    BY DEF Init
  <2> QED BY <2>1 DEF Init, TypeOK
<1>4. CountersTrue
  BY <1>1, <1>2 DEF Init, CountersTrue
<1>5. NoneForgotten
  BY <1>1 DEF Init, NoneForgotten
<1> QED BY <1>3, <1>4, <1>5 DEF Inv

\* A reader asks, or asks again.
LEMMA SharedStep ==
  ASSUME Inv, NEW t \in Threads, pc[t] \in {"out", "wokenS"}, TestShared(t),
         uses' \in [Threads -> 0..MaxUses]
  PROVE  Inv'
<1>0. t \notin At("inS") /\ t \notin At("inX") /\ t \notin At("sleepX")
        /\ t \notin At("wokenX")
  BY DEF At
<1>1. CASE can_lock_shared
  <2>1. shared_count' = shared_count + 1 /\ pc' = [pc EXCEPT ![t] = "inS"]
    BY <1>1 DEF TestShared
  <2>2. /\ At("inS")' = At("inS") \cup {t} /\ At("inX")' = At("inX")
        /\ At("sleepS")' = At("sleepS") \ {t}
    BY <1>0, <2>1 DEF Inv, TypeOK, At
  <2>3. Cardinality(At("inS")') = Cardinality(At("inS")) + 1
    BY <1>0, <2>2, AtFinite, FS_AddElement
  <2>4. CountersTrue'
    BY <1>1, <2>1, <2>2, <2>3
    DEF Inv, TypeOK, CountersTrue, TestShared, can_lock_shared
  <2>5. TypeOK'
    BY <2>1 DEF Inv, TypeOK, TestShared
  <2>6. NoneForgotten'
    BY <1>1, <2>1, <2>2
    DEF Inv, TypeOK, NoneForgotten, TestShared, can_lock, can_lock_shared
  <2> QED BY <2>4, <2>5, <2>6 DEF Inv
<1>2. CASE ~can_lock_shared
  <2>1. pc' = [pc EXCEPT ![t] = "sleepS"] /\ UNCHANGED state
    BY <1>2 DEF TestShared, state
  <2>2. /\ At("inS")' = At("inS") /\ At("inX")' = At("inX")
        /\ At("sleepX")' = At("sleepX") /\ At("wokenX")' = At("wokenX")
    BY <1>0, <2>1 DEF Inv, TypeOK, At
  <2> QED
    BY <1>2, <2>1, <2>2
    DEF Inv, TypeOK, CountersTrue, NoneForgotten, state, can_lock, can_lock_shared
<1> QED BY <1>1, <1>2

\* A writer asks, raising the flag, or asks again, leaving it as it is.
LEMMA ExclusiveStep ==
  ASSUME Inv, NEW t \in Threads, pc[t] \in {"out", "wokenX"}, TestExclusive(t),
         exclusive_waiting_blocked' \in {TRUE, exclusive_waiting_blocked},
         uses' \in [Threads -> 0..MaxUses]
  PROVE  Inv'
<1>0. t \notin At("inS") /\ t \notin At("inX") /\ t \notin At("sleepS")
  BY DEF At
<1>1. CASE can_lock
  <2>1. /\ exclusive' = TRUE /\ shared_count' = shared_count
        /\ pc' = [pc EXCEPT ![t] = "inX"]
    BY <1>1 DEF TestExclusive
  <2>2. /\ At("inS")' = At("inS") /\ At("inX")' = At("inX") \cup {t}
    BY <1>0, <2>1 DEF Inv, TypeOK, At
  <2>3. At("inX") = {}
    BY <1>1 DEF Inv, CountersTrue, can_lock
  <2>4. Cardinality(At("inX")') = 1
    <3>1. At("inX")' = {t}
      BY <2>2, <2>3
    <3> QED BY <3>1, FS_Singleton
  <2> QED
    <3>1. TypeOK'
      BY <2>1 DEF Inv, TypeOK
    <3>2. CountersTrue'
      BY <1>1, <2>1, <2>2, <2>4 DEF Inv, CountersTrue, can_lock
    <3>3. NoneForgotten'
      BY <2>1 DEF NoneForgotten, can_lock
    <3> QED BY <3>1, <3>2, <3>3 DEF Inv
<1>2. CASE ~can_lock
  <2>1. /\ exclusive' = exclusive /\ shared_count' = shared_count
        /\ pc' = [pc EXCEPT ![t] = "sleepX"]
    BY <1>2 DEF TestExclusive
  <2>2. /\ At("inS")' = At("inS") /\ At("inX")' = At("inX")
        /\ At("sleepS")' = At("sleepS")
    BY <1>0, <2>1 DEF Inv, TypeOK, At
  <2> QED
    <3>1. TypeOK'
      BY <2>1 DEF Inv, TypeOK
    <3>2. CountersTrue'
      BY <2>1, <2>2 DEF Inv, CountersTrue
    <3>3. exclusive \/ shared_count > 0
      BY <1>2 DEF Inv, TypeOK, can_lock
    <3>4. NoneForgotten'
      BY <1>2, <2>1, <2>2, <3>3 DEF Inv, NoneForgotten, can_lock
    <3> QED BY <3>1, <3>2, <3>4 DEF Inv
<1> QED BY <1>1, <1>2

LEMMA UnlockSharedStep ==
  ASSUME Inv, NEW t \in Threads, unlock_shared(t)
  PROVE  Inv'
<1>1. t \in At("inS") /\ t \notin At("inX") /\ t \notin At("sleepX")
        /\ t \notin At("sleepS") /\ t \notin At("wokenX")
  BY DEF unlock_shared, At
<1>2. Cardinality(At("inS") \ {t}) = Cardinality(At("inS")) - 1
  BY <1>1, AtFinite, FS_RemoveElement
<1>3. At("inS") # {} /\ Cardinality(At("inS")) \in Nat /\ Cardinality(At("inS")) # 0
  BY <1>1, AtFinite, FS_CardinalityType, FS_EmptySet
<1>4. shared_count \in Nat /\ shared_count > 0 /\ ~exclusive
  BY <1>3 DEF Inv, CountersTrue, TypeOK
<1>5. CASE shared_count' = 0
  <2>1. exclusive_waiting_blocked' = FALSE /\ Released(t)
    BY <1>5 DEF unlock_shared
  <2>2. /\ pc[t] = "inS" /\ shared_count' = shared_count - 1
        /\ UNCHANGED <<uses, exclusive>>
    BY DEF unlock_shared
  <2>3. /\ At("inS")' = At("inS") \ {t} /\ At("inX")' = At("inX")
        /\ At("sleepS")' = {}
        /\ At("sleepX")' # {} => At("wokenX")' # {}
    BY <1>1, <2>1, <2>2, Release DEF Inv
  <2>4. TypeOK'
    <3>1. shared_count' \in Nat /\ exclusive_waiting_blocked' \in BOOLEAN
      BY <1>5, <2>1
    <3> QED BY <2>1, <2>2, <3>1, Release DEF Inv, TypeOK
  <2>5. CountersTrue'
    BY <1>2, <1>4, <2>2, <2>3 DEF Inv, CountersTrue
  <2>6. NoneForgotten'
    BY <2>1, <2>3 DEF NoneForgotten
  <2> QED BY <2>4, <2>5, <2>6 DEF Inv
<1>6. CASE shared_count' # 0
  <2>1. pc' = [pc EXCEPT ![t] = "out"] /\ UNCHANGED exclusive_waiting_blocked
    BY <1>6 DEF unlock_shared
  <2>2. /\ At("inS")' = At("inS") \ {t} /\ At("inX")' = At("inX")
        /\ At("sleepS")' = At("sleepS")
    BY <1>1, <2>1 DEF Inv, TypeOK, At
  <2>3. /\ shared_count' = shared_count - 1 /\ shared_count' \in Nat
        /\ shared_count' > 0 /\ UNCHANGED <<uses, exclusive>>
    BY <1>4, <1>6 DEF unlock_shared
  <2>4. TypeOK'
    BY <2>1, <2>3 DEF Inv, TypeOK
  <2>5. CountersTrue'
    BY <1>2, <1>4, <2>2, <2>3 DEF Inv, CountersTrue
  <2>6. NoneForgotten'
    BY <2>1, <2>2, <2>3 DEF Inv, NoneForgotten, can_lock
  <2> QED BY <2>4, <2>5, <2>6 DEF Inv
<1> QED BY <1>5, <1>6

LEMMA UnlockStep ==
  ASSUME Inv, NEW t \in Threads, unlock(t)
  PROVE  Inv'
<1>1. t \in At("inX") /\ t \notin At("inS")
  BY DEF unlock, At
<1>2. exclusive /\ shared_count = 0 /\ Cardinality(At("inX")) = 1
  BY <1>1 DEF Inv, CountersTrue
<1>3. Cardinality(At("inX") \ {t}) = 0
  <2>1. IsFiniteSet(At("inX"))
    BY AtFinite
  <2>2. Cardinality(At("inX") \ {t}) = Cardinality(At("inX")) - 1
    BY <1>1, <2>1, FS_RemoveElement
  <2> QED BY <1>2, <2>2
<1>4. At("inX") \ {t} = {}
  <2>1. IsFiniteSet(At("inX") \ {t})
    BY AtFinite, FS_RemoveElement
  <2> QED BY <1>3, <2>1, FS_EmptySet
<1>5. Released(t) /\ exclusive' = FALSE /\ exclusive_waiting_blocked' = FALSE
        /\ pc[t] = "inX" /\ shared_count' = shared_count /\ uses' = uses
  BY DEF unlock
<1>6. /\ At("inS")' = At("inS") /\ At("inX")' = {} /\ At("sleepS")' = {}
      /\ At("sleepX")' # {} => At("wokenX")' # {}
  BY <1>1, <1>4, <1>5, Release DEF Inv
<1>7. TypeOK'
  BY <1>5, Release DEF Inv, TypeOK
<1>8. CountersTrue'
  BY <1>2, <1>5, <1>6 DEF Inv, CountersTrue
<1>9. NoneForgotten'
  BY <1>5, <1>6 DEF NoneForgotten
<1> QED BY <1>7, <1>8, <1>9 DEF Inv

LEMMA SpuriousStep ==
  ASSUME Inv, NEW t \in Threads, Spurious(t)
  PROVE  Inv'
<1>1. t \notin At("inS") /\ t \notin At("inX")
  BY DEF Spurious, At
<1>2. CASE pc[t] = "sleepS" /\ pc' = [pc EXCEPT ![t] = "wokenS"]
  <2>1. /\ At("inS")' = At("inS") /\ At("inX")' = At("inX")
        /\ At("sleepS")' \subseteq At("sleepS")
        /\ At("sleepX")' = At("sleepX") /\ At("wokenX")' = At("wokenX")
    BY <1>1, <1>2 DEF Inv, TypeOK, At
  <2> QED
    BY <1>2, <2>1
    DEF Spurious, state, Inv, TypeOK, CountersTrue, NoneForgotten, can_lock
<1>3. CASE pc[t] = "sleepX" /\ pc' = [pc EXCEPT ![t] = "wokenX"]
  <2>1. /\ At("inS")' = At("inS") /\ At("inX")' = At("inX")
        /\ At("sleepS")' = At("sleepS") /\ At("wokenX")' # {}
    BY <1>1, <1>3 DEF Inv, TypeOK, At
  <2> QED
    BY <1>3, <2>1
    DEF Spurious, state, Inv, TypeOK, CountersTrue, NoneForgotten, can_lock
<1> QED BY <1>2, <1>3 DEF Spurious

LEMMA AskUses ==
  ASSUME Inv, NEW t \in Threads, Ask(t)
  PROVE  uses' \in [Threads -> 0..MaxUses]
  BY DEF Inv, TypeOK, Ask

\* The invariant is inductive.
LEMMA Step == Inv /\ [Next]_vars => Inv'
<1> SUFFICES ASSUME Inv, [Next]_vars PROVE Inv'
  OBVIOUS
<1>0. uses \in [Threads -> 0..MaxUses]
  BY DEF Inv, TypeOK
<1>1. ASSUME NEW t \in Threads, lock_shared(t) PROVE Inv'
  BY <1>1, AskUses, SharedStep DEF lock_shared, Ask
<1>2. ASSUME NEW t \in Threads, lock(t) PROVE Inv'
  BY <1>2, AskUses, ExclusiveStep DEF lock, Ask
<1>3. ASSUME NEW t \in Threads, RetryShared(t) PROVE Inv'
  BY <1>0, <1>3, SharedStep DEF RetryShared
<1>4. ASSUME NEW t \in Threads, RetryExclusive(t) PROVE Inv'
  BY <1>0, <1>4, ExclusiveStep DEF RetryExclusive
<1>5. CASE UNCHANGED vars
  BY <1>5 DEF vars, state, Inv, TypeOK, CountersTrue, NoneForgotten, At, can_lock
<1> QED
  BY <1>1, <1>2, <1>3, <1>4, <1>5, UnlockSharedStep, UnlockStep, SpuriousStep
  DEF Next, Proceed, Done

\* The counters say who is inside, so the assertions in shared_mutex.hpp never
\* fail, and no wakeup is lost.
THEOREM Safe == Spec => [](TypeOK /\ CountersTrue /\ NoneForgotten)
  BY InitInv, Step, PTL DEF Spec, Inv

-----------------------------------------------------------------------------
(* SharedMutex implements RWLock                                            *)

LEMMA EnterSharedStep ==
  ASSUME Inv, NEW t \in Threads, pc[t] \in {"out", "wokenS"}, TestShared(t)
  PROVE  Lock!EnterShared(t) \/ UNCHANGED Lock!rwVars
<1>0. t \notin At("inS") /\ t \notin At("inX")
  BY DEF At
<1>1. CASE can_lock_shared
  <2>1. pc' = [pc EXCEPT ![t] = "inS"]
    BY <1>1 DEF TestShared
  <2>2. At("inS")' = At("inS") \cup {t} /\ At("inX")' = At("inX")
    BY <1>0, <2>1 DEF Inv, TypeOK, At
  <2>3. At("inX") = {}
    BY <1>1 DEF Inv, CountersTrue, can_lock_shared
  <2> QED BY <1>0, <2>2, <2>3 DEF Lock!EnterShared
<1>2. CASE ~can_lock_shared
  <2>1. pc' = [pc EXCEPT ![t] = "sleepS"]
    BY <1>2 DEF TestShared
  <2>2. At("inS")' = At("inS") /\ At("inX")' = At("inX")
    BY <1>0, <2>1 DEF Inv, TypeOK, At
  <2> QED BY <2>2 DEF Lock!rwVars
<1> QED BY <1>1, <1>2

LEMMA EnterExclusiveStep ==
  ASSUME Inv, NEW t \in Threads, pc[t] \in {"out", "wokenX"}, TestExclusive(t)
  PROVE  Lock!EnterExclusive(t) \/ UNCHANGED Lock!rwVars
<1>0. t \notin At("inS") /\ t \notin At("inX")
  BY DEF At
<1>1. CASE can_lock
  <2>1. pc' = [pc EXCEPT ![t] = "inX"]
    BY <1>1 DEF TestExclusive
  <2>2. At("inS")' = At("inS") /\ At("inX")' = At("inX") \cup {t}
    BY <1>0, <2>1 DEF Inv, TypeOK, At
  <2>3. At("inX") = {} /\ Cardinality(At("inS")) = 0
    BY <1>1 DEF Inv, CountersTrue, can_lock
  <2>4. At("inS") = {}
    BY <2>3, AtFinite, FS_EmptySet
  <2> QED BY <2>2, <2>3, <2>4 DEF Lock!EnterExclusive
<1>2. CASE ~can_lock
  <2>1. pc' = [pc EXCEPT ![t] = "sleepX"]
    BY <1>2 DEF TestExclusive
  <2>2. At("inS")' = At("inS") /\ At("inX")' = At("inX")
    BY <1>0, <2>1 DEF Inv, TypeOK, At
  <2> QED BY <2>2 DEF Lock!rwVars
<1> QED BY <1>1, <1>2

LEMMA LeaveStep ==
  ASSUME Inv, NEW t \in Threads, unlock_shared(t) \/ unlock(t)
  PROVE  Lock!LeaveShared(t) \/ Lock!LeaveExclusive(t)
<1>1. CASE unlock_shared(t)
  <2>1. t \in At("inS") /\ t \notin At("inX") /\ pc[t] = "inS"
    BY <1>1 DEF unlock_shared, At
  <2>2. At("inS")' = At("inS") \ {t} /\ At("inX")' = At("inX")
    <3>1. CASE Released(t)
      BY <2>1, <3>1, Release DEF Inv
    <3>2. CASE pc' = [pc EXCEPT ![t] = "out"]
      BY <2>1, <3>2 DEF Inv, TypeOK, At
    <3> QED BY <1>1, <3>1, <3>2 DEF unlock_shared
  <2> QED BY <2>1, <2>2 DEF Lock!LeaveShared
<1>2. CASE unlock(t)
  <2>1. t \in At("inX") /\ t \notin At("inS") /\ pc[t] = "inX" /\ Released(t)
    BY <1>2 DEF unlock, At
  <2>2. At("inX")' = At("inX") \ {t} /\ At("inS")' = At("inS")
    BY <2>1, Release DEF Inv
  <2> QED BY <2>1, <2>2 DEF Lock!LeaveExclusive
<1> QED BY <1>1, <1>2

LEMMA LockStep == Inv /\ [Next]_vars => [Lock!RWNext]_(Lock!rwVars)
<1> SUFFICES ASSUME Inv, [Next]_vars PROVE [Lock!RWNext]_(Lock!rwVars)
  OBVIOUS
<1>1. ASSUME NEW t \in Threads, lock_shared(t) \/ RetryShared(t)
      PROVE  Lock!EnterShared(t) \/ UNCHANGED Lock!rwVars
  BY <1>1, EnterSharedStep DEF lock_shared, Ask, RetryShared
<1>2. ASSUME NEW t \in Threads, lock(t) \/ RetryExclusive(t)
      PROVE  Lock!EnterExclusive(t) \/ UNCHANGED Lock!rwVars
  BY <1>2, EnterExclusiveStep DEF lock, Ask, RetryExclusive
<1>3. ASSUME NEW t \in Threads, Spurious(t) PROVE UNCHANGED Lock!rwVars
  <2>1. t \notin At("inS") /\ t \notin At("inX")
    BY <1>3 DEF Spurious, At
  <2>2. At("inS")' = At("inS") /\ At("inX")' = At("inX")
    BY <1>3, <2>1 DEF Inv, TypeOK, At, Spurious
  <2> QED BY <2>2 DEF Lock!rwVars
<1>4. CASE UNCHANGED vars
  BY <1>4 DEF vars, Lock!rwVars, At
<1> QED
  BY <1>1, <1>2, <1>3, <1>4, LeaveStep DEF Next, Proceed, Done, Lock!RWNext

\* boost::shared_mutex, as pfclist uses it, is a reader-writer lock: any
\* number of readers or one writer, however wakeups and requests interleave.
THEOREM Exclusion == Spec => LockSpec
<1>1. Init => Lock!RWInit
  BY DEF Init, Lock!RWInit, At
<1>2. Spec => []Inv
  BY InitInv, Step, PTL DEF Spec
<1> QED BY <1>1, <1>2, LockStep, PTL DEF Spec, LockSpec, Lock!RWSpec
=============================================================================
