------------------------------- MODULE RWLock -------------------------------
(***************************************************************************)
(* A reader-writer lock, as the demo's threads rely on it: any number of    *)
(* readers or one writer.                                                   *)
(***************************************************************************)
CONSTANT Threads

VARIABLES readers,  \* the threads inside with shared ownership
          writers   \* the threads inside with exclusive ownership

rwVars == <<readers, writers>>

RWInit == readers = {} /\ writers = {}

EnterShared(t) ==
  /\ t \notin readers \cup writers /\ writers = {}
  /\ readers' = readers \cup {t} /\ UNCHANGED writers

LeaveShared(t) ==
  /\ t \in readers
  /\ readers' = readers \ {t} /\ UNCHANGED writers

EnterExclusive(t) ==
  /\ readers \cup writers = {}
  /\ writers' = {t} /\ UNCHANGED readers

LeaveExclusive(t) ==
  /\ t \in writers
  /\ writers' = writers \ {t} /\ UNCHANGED readers

RWNext ==
  \E t \in Threads : \/ EnterShared(t) \/ LeaveShared(t)
                     \/ EnterExclusive(t) \/ LeaveExclusive(t)

RWSpec == RWInit /\ [][RWNext]_rwVars
=============================================================================
