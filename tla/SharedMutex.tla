----------------------------- MODULE SharedMutex -----------------------------
(***************************************************************************)
(* boost::shared_mutex as pfclist uses it (ReadLock and WriteLock): a small *)
(* state guarded by the mutex state_change, and two condition variables.    *)
(* Each action is one section under state_change; a wait inside it gives    *)
(* the mutex up, so its second half is an action of its own.  Ownership     *)
(* upgrades and timed or tried locks are not used by the program.           *)
(***************************************************************************)
EXTENDS Naturals, FiniteSets

CONSTANTS Threads,
          MaxUses   \* bound: how often one thread takes the lock

ASSUME MutexAssumption == IsFiniteSet(Threads) /\ MaxUses \in Nat

VARIABLES
  pc,        \* where each thread is; "sleepS" and "sleepX" are the queues of
             \* shared_cond and exclusive_cond, "wokenS" and "wokenX" their
             \* notified threads on the way back to the test
  uses,      \* how often each thread has asked for the lock
  shared_count, exclusive, exclusive_waiting_blocked  \* state_data

state == <<shared_count, exclusive, exclusive_waiting_blocked>>
vars  == <<pc, uses, state>>

At(place) == {t \in Threads : pc[t] = place}

can_lock == shared_count = 0 /\ ~exclusive

\* Mutant of can_lock_shared: the flag alone keeps readers out
can_lock_shared_FlagOnly == ~exclusive_waiting_blocked

can_lock_shared == ~exclusive /\ ~exclusive_waiting_blocked

Ask(t) ==
  /\ pc[t] = "out" /\ uses[t] < MaxUses
  /\ uses' = [uses EXCEPT ![t] = @ + 1]

\* Mutant of Released: only one of the two condition variables is notified
Released_WritersFirst(t) ==
  IF At("sleepX") # {}
    THEN \E w \in At("sleepX") :
           pc' = [pc EXCEPT ![t] = "out", ![w] = "wokenX"]
    ELSE pc' = [k \in Threads |-> IF k = t THEN "out"
                                  ELSE IF pc[k] = "sleepS" THEN "wokenS"
                                  ELSE pc[k]]

\* Mutant of Released: exclusive_cond is forgotten
Released_ReadersOnly(t) ==
  pc' = [k \in Threads |-> IF k = t THEN "out"
                           ELSE IF pc[k] = "sleepS" THEN "wokenS" ELSE pc[k]]

\* t leaves, and release_waiters notifies one waiting writer and every waiting
\* reader
Released(t) ==
  \E ws \in SUBSET At("sleepX") :
    /\ Cardinality(ws) = IF At("sleepX") = {} THEN 0 ELSE 1
    /\ pc' = [k \in Threads |->
                CASE k = t -> "out"
                  [] k \in ws -> "wokenX"
                  [] pc[k] = "sleepS" -> "wokenS"
                  [] OTHER -> pc[k]]

-----------------------------------------------------------------------------
Init ==
  /\ pc = [t \in Threads |-> "out"]
  /\ uses = [t \in Threads |-> 0]
  /\ shared_count = 0 /\ exclusive = FALSE
  /\ exclusive_waiting_blocked = FALSE

\* Mutant of TestShared: a reader that had to wait is not counted
TestShared_Uncounted(t) ==
  /\ IF can_lock_shared
       THEN /\ shared_count' = IF pc[t] = "out" THEN shared_count + 1
                                               ELSE shared_count
            /\ pc' = [pc EXCEPT ![t] = "inS"]
       ELSE /\ pc' = [pc EXCEPT ![t] = "sleepS"]
            /\ UNCHANGED shared_count
  /\ UNCHANGED <<exclusive, exclusive_waiting_blocked>>

\* The end of lock_shared: own the lock or sleep on shared_cond
TestShared(t) ==
  /\ IF can_lock_shared
       THEN /\ shared_count' = shared_count + 1
            /\ pc' = [pc EXCEPT ![t] = "inS"]
       ELSE /\ pc' = [pc EXCEPT ![t] = "sleepS"]
            /\ UNCHANGED shared_count
  /\ UNCHANGED <<exclusive, exclusive_waiting_blocked>>

lock_shared(t) == Ask(t) /\ TestShared(t)

RetryShared(t) == pc[t] = "wokenS" /\ TestShared(t) /\ UNCHANGED uses

\* Mutant of lock: the new writer does not look for other writers
lock_Careless(t) ==
  /\ Ask(t)
  /\ IF shared_count = 0
       THEN exclusive' = TRUE /\ pc' = [pc EXCEPT ![t] = "inX"]
       ELSE pc' = [pc EXCEPT ![t] = "sleepX"] /\ UNCHANGED exclusive
  /\ exclusive_waiting_blocked' = TRUE
  /\ UNCHANGED shared_count

\* The end of lock: own the lock or sleep on exclusive_cond
TestExclusive(t) ==
  /\ IF can_lock
       THEN exclusive' = TRUE /\ pc' = [pc EXCEPT ![t] = "inX"]
       ELSE pc' = [pc EXCEPT ![t] = "sleepX"] /\ UNCHANGED exclusive
  /\ UNCHANGED shared_count

\* lock: new readers are kept out from here on
lock(t) ==
  Ask(t) /\ exclusive_waiting_blocked' = TRUE /\ TestExclusive(t)

\* A writer that wakes up does not raise the flag again
RetryExclusive(t) ==
  /\ pc[t] = "wokenX" /\ TestExclusive(t)
  /\ UNCHANGED <<uses, exclusive_waiting_blocked>>

unlock_shared(t) ==
  /\ pc[t] = "inS"
  /\ shared_count' = shared_count - 1
  /\ IF shared_count' = 0
       THEN exclusive_waiting_blocked' = FALSE /\ Released(t)
       ELSE /\ pc' = [pc EXCEPT ![t] = "out"]
            /\ UNCHANGED exclusive_waiting_blocked
  /\ UNCHANGED <<uses, exclusive>>

unlock(t) ==
  /\ pc[t] = "inX"
  /\ exclusive' = FALSE /\ exclusive_waiting_blocked' = FALSE
  /\ Released(t)
  /\ UNCHANGED <<uses, shared_count>>

\* A condition variable may wake a thread nobody notified
Spurious(t) ==
  /\ \/ pc[t] = "sleepS" /\ pc' = [pc EXCEPT ![t] = "wokenS"]
     \/ pc[t] = "sleepX" /\ pc' = [pc EXCEPT ![t] = "wokenX"]
  /\ UNCHANGED <<uses, state>>

-----------------------------------------------------------------------------
\* What a thread does once it has asked for the lock
Proceed(t) == RetryShared(t) \/ RetryExclusive(t) \/ unlock_shared(t) \/ unlock(t)

Done == (\A t \in Threads : pc[t] = "out" /\ uses[t] = MaxUses) /\ UNCHANGED vars

Next ==
  \/ \E t \in Threads : lock_shared(t) \/ lock(t) \/ Proceed(t) \/ Spurious(t)
  \/ Done

\* Threads that are inside leave, and woken threads run.  Asking and spurious
\* wakeups are never owed.
Spec == Init /\ [][Next]_vars /\ \A t \in Threads : WF_vars(Proceed(t))

-----------------------------------------------------------------------------
\* Type invariant.
TypeOK ==
  /\ pc \in [Threads -> {"out", "sleepS", "wokenS", "inS",
                         "sleepX", "wokenX", "inX"}]
  /\ uses \in [Threads -> 0..MaxUses]
  /\ shared_count \in Nat
  /\ exclusive \in BOOLEAN /\ exclusive_waiting_blocked \in BOOLEAN

\* The counters say who is inside, so that the assertions of unlock_shared
\* (assert_lock_shared) and unlock (assert_locked, assert_free) hold.
CountersTrue ==
  /\ shared_count = Cardinality(At("inS"))
  /\ exclusive <=> At("inX") # {}
  /\ exclusive => shared_count = 0 /\ Cardinality(At("inX")) = 1

\* No wakeup is lost: when the lock is free, a sleeping writer is not alone,
\* another one has been woken to take it; and a reader only sleeps while a
\* writer is inside or readers are inside with a writer behind them.
NoneForgotten ==
  /\ can_lock /\ At("sleepX") # {} => At("wokenX") # {}
  /\ At("sleepS") # {} => exclusive \/ exclusive_waiting_blocked
  /\ exclusive_waiting_blocked => exclusive \/ shared_count > 0

\* Whoever asks for the lock gets it, when every thread uses it a bounded
\* number of times (without that bound readers and writers may starve).
EveryoneServed ==
  \A t \in Threads :
    /\ pc[t] \in {"sleepS", "wokenS"} ~> pc[t] = "inS"
    /\ pc[t] \in {"sleepX", "wokenX"} ~> pc[t] = "inX"

\* It is a reader-writer lock.
Lock == INSTANCE RWLock WITH readers <- At("inS"), writers <- At("inX")
LockSpec == Lock!RWSpec
=============================================================================
