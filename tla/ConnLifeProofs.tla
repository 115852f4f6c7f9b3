---------------------------- MODULE ConnLifeProofs ----------------------------
(***************************************************************************)
(* Proofs about the life of a connection object, whatever m_bExit holds     *)
(* before it is assigned.                                                   *)
(*                                                                          *)
(* A stop request is set and answered in pieces on two threads; the         *)
(* invariant says how the pieces stand to each other at every place of the  *)
(* detached thread.                                                         *)
(***************************************************************************)
EXTENDS ConnLife, FiniteSetTheorems, SequenceTheorems, TLAPS

\* Where the detached thread is inside ioc_.run(), or has just been
Running == {"counted", "loop", "reactor", "polled", "handler", "left", "flagged"}

Types ==
  /\ owner \in Owners /\ run \in Runs
  /\ context \in {"none", "alive", "destroyed"}
  /\ bExit \in BOOLEAN /\ stopped \in BOOLEAN /\ interrupted \in BOOLEAN
  /\ block \in BOOLEAN /\ poke \in BOOLEAN /\ event \in BOOLEAN

\* The thread is started after the object is made, and the next object waits
\* for its end
Phases ==
  /\ owner \in {"connect", "spawn"} => run = "none"
  /\ owner # "none" => context # "none"
  /\ run # "none" => context # "none"

\* The work object is the only unit of work
WorkInv == work = IF run \in Running THEN 1 ELSE 0

\* The queue holds the task, perhaps behind a descriptor, or nothing while the
\* thread is in the reactor
QueueInv ==
  /\ context = "none" => opq = <<>>
  /\ run \in {"reactor", "polled"} => opq = <<>>
  /\ run = "handler" => opq = <<"task">>
  /\ context # "none" /\ run \notin {"reactor", "polled", "handler"} =>
       opq \in {<<"task">>, <<"descriptor", "task">>}
  /\ ready \in {<<>>, <<"descriptor">>}

\* Only the destructor stops the context, and the thread leaves only then
StopInv ==
  /\ stopped => owner \notin {"connect", "spawn", "use"}
  /\ run \in {"left", "flagged"} => stopped

\* While the thread is in the reactor, task_interrupted_ says that a stop came,
\* and a stop that finds it clear pokes the interrupter
PokeInv ==
  run = "reactor" =>
    /\ stopped => interrupted
    /\ block /\ interrupted => poke

\* m_bExit is false from the thread's first step to its last but one
FlagInv == run \in {"entered", "counted", "loop", "reactor", "polled",
                    "handler", "left"} => ~bExit

Inv ==
  Types /\ Phases /\ WorkInv /\ QueueInv /\ StopInv /\ PokeInv /\ FlagInv

-----------------------------------------------------------------------------
\* What taking from these queues and putting back the task leaves.
LEMMA Queues ==
  /\ Head(<<"task">>) = "task" /\ Head(<<"descriptor", "task">>) = "descriptor"
  /\ Tail(<<"task">>) = <<>> /\ Tail(<<"descriptor", "task">>) = <<"task">>
  /\ <<>> \o <<>> \o <<"task">> = <<"task">>
  /\ <<>> \o <<"descriptor">> \o <<"task">> = <<"descriptor", "task">>
<1> DEFINE D == {"task", "descriptor"}
<1>1. /\ <<>> \in Seq(D) /\ <<"task">> \in Seq(D)
      /\ <<"descriptor">> \in Seq(D) /\ <<"descriptor", "task">> \in Seq(D)
  OBVIOUS
<1>2. Tail(<<"task">>) = <<>>
  <2>1. Tail(<<"task">>) \in Seq(D) /\ Len(Tail(<<"task">>)) = 0
    BY <1>1
  <2> QED BY <1>1, <2>1, EmptySeq
<1>3. Tail(<<"descriptor", "task">>) = <<"task">>
  <2> DEFINE t == Tail(<<"descriptor", "task">>)
  <2>1. t \in Seq(D) /\ Len(t) = 1 /\ t[1] = "task"
    BY <1>1
  <2> HIDE DEF t
  <2>2. \A i \in 1..Len(t) : t[i] = <<"task">>[i]
    BY <2>1
  <2> QED BY <1>1, <2>1, <2>2, SeqEqual DEF t
<1>4. <<>> \o <<>> = <<>> /\ <<>> \o <<"task">> = <<"task">>
      /\ <<>> \o <<"descriptor">> = <<"descriptor">>
  BY <1>1, ConcatEmptySeq
<1>5. <<"descriptor">> \o <<"task">> = <<"descriptor", "task">>
  <2> DEFINE t == <<"descriptor">> \o <<"task">>
  <2>1. t \in Seq(D) /\ Len(t) = 2 /\ t[1] = "descriptor" /\ t[2] = "task"
    BY <1>1
  <2> HIDE DEF t
  <2>2. \A i \in 1..Len(t) : t[i] = <<"descriptor", "task">>[i]
    BY <2>1
  <2> QED BY <1>1, <2>1, <2>2, SeqEqual DEF t
<1> QED BY <1>2, <1>3, <1>4, <1>5

LEMMA InitInv == Init => Inv
<1> SUFFICES ASSUME Init PROVE Inv
  OBVIOUS
<1>1. Types
  BY GarbageAssumption DEF Init, Types, Owners, Runs
<1>2. Phases /\ WorkInv /\ QueueInv /\ StopInv /\ PokeInv /\ FlagInv
  BY DEF Init, Phases, WorkInv, Running, QueueInv, StopInv, PokeInv, FlagInv
<1> QED BY <1>1, <1>2 DEF Inv

\* The steps of the thread that owns the object, and of the network.
LEMMA OwnerStep ==
  ASSUME Inv, Owner \/ Traffic
  PROVE  Inv'
<1> USE DEF scheduler, reactor
<1>1. CASE Construct
  <2>1. Types'
    BY <1>1, GarbageAssumption DEF Construct, Inv, Types, Owners
  <2>2. (Phases /\ WorkInv /\ QueueInv /\ StopInv /\ PokeInv /\ FlagInv)'
    BY <1>1 DEF Construct, Inv, Phases, WorkInv, Running, QueueInv, StopInv,
                PokeInv, FlagInv
  <2> QED BY <2>1, <2>2 DEF Inv
<1>2. CASE Connect
  BY <1>2 DEF Connect, Inv, Types, Owners, Phases, WorkInv, Running, QueueInv,
              StopInv, PokeInv, FlagInv
<1>3. CASE Spawn
  <2>1. Types'
    BY <1>3 DEF Spawn, Inv, Types, Owners, Runs
  <2>2. (Phases /\ WorkInv /\ QueueInv /\ StopInv /\ PokeInv /\ FlagInv)'
    BY <1>3 DEF Spawn, Inv, Phases, WorkInv, Running, QueueInv, StopInv,
                PokeInv, FlagInv
  <2> QED BY <2>1, <2>2 DEF Inv
<1>4. CASE Update
  BY <1>4 DEF Update, Inv, Types, Phases, WorkInv, QueueInv, StopInv, PokeInv,
              FlagInv
<1>5. CASE StopContext
  <2>1. Types'
    BY <1>5 DEF StopContext, Stop, Inv, Types, Owners
  <2>2. (Phases /\ WorkInv /\ QueueInv /\ StopInv /\ FlagInv)'
    BY <1>5 DEF StopContext, Stop, Inv, Phases, WorkInv, QueueInv, StopInv,
                FlagInv
  <2>3. PokeInv'
    BY <1>5 DEF StopContext, Stop, Inv, Types, PokeInv
  <2> QED BY <2>1, <2>2, <2>3 DEF Inv
<1>6. CASE WaitExit
  BY <1>6 DEF WaitExit, Inv, Types, Owners, Phases, WorkInv, QueueInv, StopInv,
              PokeInv, FlagInv
<1>7. CASE DestroyContext
  BY <1>7 DEF DestroyContext, Inv, Types, Owners, Phases, WorkInv, QueueInv,
              StopInv, PokeInv, FlagInv
<1>8. CASE DestroyStream
  BY <1>8 DEF DestroyStream, Inv, Types, Owners, Phases, WorkInv, QueueInv,
              StopInv, PokeInv, FlagInv
<1>9. CASE Traffic
  BY <1>9 DEF Traffic, Inv, Types, Phases, WorkInv, QueueInv, StopInv, PokeInv,
              FlagInv
<1> QED BY <1>1, <1>2, <1>3, <1>4, <1>5, <1>6, <1>7, <1>8, <1>9 DEF Owner

\* The steps of the detached thread.
LEMMA ThreadStep ==
  ASSUME Inv, Thread
  PROVE  Inv'
<1> USE DEF scheduler, reactor
<1>1. CASE Enter
  <2>1. Types'
    BY <1>1 DEF Enter, Inv, Types, Runs
  <2>2. (Phases /\ WorkInv /\ QueueInv /\ StopInv /\ PokeInv /\ FlagInv)'
    BY <1>1 DEF Enter, Inv, Phases, WorkInv, Running, QueueInv, StopInv,
                PokeInv, FlagInv
  <2> QED BY <2>1, <2>2 DEF Inv
<1>2. CASE CountWork
  <2>1. Types'
    BY <1>2 DEF CountWork, Inv, Types, Runs
  <2>2. (Phases /\ WorkInv /\ QueueInv /\ StopInv /\ PokeInv /\ FlagInv)'
    BY <1>2 DEF CountWork, Inv, Phases, WorkInv, Running, QueueInv, StopInv,
                PokeInv, FlagInv
  <2> QED BY <2>1, <2>2 DEF Inv
<1>3. CASE Lock
  <2>1. Types'
    BY <1>3 DEF Lock, Inv, Types, Runs
  <2>2. (Phases /\ WorkInv /\ QueueInv /\ StopInv /\ PokeInv /\ FlagInv)'
    BY <1>3 DEF Lock, Inv, Phases, WorkInv, Running, QueueInv, StopInv,
                PokeInv, FlagInv
  <2> QED BY <2>1, <2>2 DEF Inv
<1>4. CASE TakeTask
  <2>1. context # "none" /\ opq \in {<<"task">>, <<"descriptor", "task">>}
    BY <1>4 DEF TakeTask, Inv, Phases, QueueInv
  <2>2. opq = <<"task">>
    BY <1>4, <2>1, Queues DEF TakeTask
  <2>3. opq' = <<>> /\ ~interrupted' /\ block'
    BY <1>4, <2>2, Queues DEF TakeTask
  <2>4. interrupted' \in BOOLEAN /\ block' \in BOOLEAN
    BY <1>4 DEF TakeTask
  <2>5. Types'
    BY <1>4, <2>4 DEF TakeTask, Inv, Types, Runs
  <2>6. (Phases /\ WorkInv /\ QueueInv /\ StopInv /\ FlagInv)'
    BY <1>4, <2>1, <2>3 DEF TakeTask, Inv, Phases, WorkInv, Running, QueueInv,
                            StopInv, FlagInv
  <2>7. PokeInv'
    BY <1>4, <2>3 DEF TakeTask, PokeInv
  <2> QED BY <2>5, <2>6, <2>7 DEF Inv
<1>5. CASE Poll
  <2>1. Types'
    BY <1>5 DEF Poll, Inv, Types, Runs
  <2>2. (Phases /\ WorkInv /\ StopInv /\ PokeInv /\ FlagInv)'
    BY <1>5 DEF Poll, Inv, Phases, WorkInv, Running, StopInv, PokeInv, FlagInv
  <2>3. QueueInv'
    BY <1>5 DEF Poll, Inv, Phases, QueueInv
  <2> QED BY <2>1, <2>2, <2>3 DEF Inv
<1>6. CASE TaskCleanup
  <2>1. context # "none" /\ opq = <<>> /\ ready \in {<<>>, <<"descriptor">>}
    BY <1>6 DEF TaskCleanup, Inv, Phases, QueueInv
  <2>2. opq' \in {<<"task">>, <<"descriptor", "task">>} /\ ready' = <<>>
    <3>1. CASE ready = <<>>
      BY <1>6, <2>1, <3>1, Queues DEF TaskCleanup
    <3>2. CASE ready = <<"descriptor">>
      BY <1>6, <2>1, <3>2, Queues DEF TaskCleanup
    <3> QED BY <2>1, <3>1, <3>2
  <2>3. Types'
    BY <1>6 DEF TaskCleanup, Inv, Types, Runs
  <2>4. (Phases /\ WorkInv /\ StopInv /\ PokeInv /\ FlagInv)'
    BY <1>6 DEF TaskCleanup, Inv, Phases, WorkInv, Running, StopInv, PokeInv,
                FlagInv
  <2>5. QueueInv'
    BY <1>6, <2>1, <2>2 DEF TaskCleanup, QueueInv
  <2> QED BY <2>3, <2>4, <2>5 DEF Inv
<1>7. CASE TakeDescriptor
  <2>1. context # "none" /\ opq \in {<<"task">>, <<"descriptor", "task">>}
    BY <1>7 DEF TakeDescriptor, Inv, Phases, QueueInv
  <2>2. opq' = <<"task">>
    BY <1>7, <2>1, Queues DEF TakeDescriptor
  <2>3. Types'
    BY <1>7 DEF TakeDescriptor, Inv, Types, Runs
  <2>4. (Phases /\ WorkInv /\ StopInv /\ PokeInv /\ FlagInv)'
    BY <1>7 DEF TakeDescriptor, Inv, Phases, WorkInv, Running, StopInv, PokeInv,
                FlagInv
  <2>5. QueueInv'
    BY <1>7, <2>1, <2>2 DEF TakeDescriptor, Inv, QueueInv
  <2> QED BY <2>3, <2>4, <2>5 DEF Inv
<1>8. CASE Handle
  <2>1. work = 1
    BY <1>8 DEF Handle, Inv, WorkInv, Running
  <2>2. work' = 1 /\ UNCHANGED <<stopped, interrupted, poke>>
    BY <1>8, <2>1 DEF Handle, WorkCleanup, Compensation
  <2>3. Types'
    BY <1>8, <2>2 DEF Handle, Inv, Types, Runs
  <2>4. (Phases /\ WorkInv /\ StopInv /\ PokeInv /\ FlagInv)'
    BY <1>8, <2>2 DEF Handle, Inv, Phases, WorkInv, Running, StopInv, PokeInv,
                      FlagInv
  <2>5. QueueInv'
    BY <1>8 DEF Handle, Inv, Phases, QueueInv
  <2> QED BY <2>3, <2>4, <2>5 DEF Inv
<1>9. CASE Leave
  <2>1. Types'
    BY <1>9 DEF Leave, Inv, Types, Runs
  <2>2. (Phases /\ WorkInv /\ QueueInv /\ StopInv /\ PokeInv /\ FlagInv)'
    BY <1>9 DEF Leave, Inv, Phases, WorkInv, Running, QueueInv, StopInv,
                PokeInv, FlagInv
  <2> QED BY <2>1, <2>2 DEF Inv
<1>10. CASE SetExit
  <2>1. Types'
    BY <1>10 DEF SetExit, Inv, Types, Runs
  <2>2. (Phases /\ WorkInv /\ QueueInv /\ StopInv /\ PokeInv /\ FlagInv)'
    BY <1>10 DEF SetExit, Inv, Phases, WorkInv, Running, QueueInv, StopInv,
                 PokeInv, FlagInv
  <2> QED BY <2>1, <2>2 DEF Inv
<1>11. CASE DropWork
  <2>1. work = 1 /\ stopped
    BY <1>11 DEF DropWork, Inv, WorkInv, Running, StopInv
  <2>2. work' = 0 /\ Stop
    BY <1>11, <2>1 DEF DropWork
  <2>3. Types'
    BY <1>11, <2>2 DEF DropWork, Stop, Inv, Types, Runs
  <2>4. (Phases /\ WorkInv /\ QueueInv /\ StopInv /\ PokeInv /\ FlagInv)'
    BY <1>11, <2>1, <2>2 DEF DropWork, Stop, Inv, Phases, WorkInv, Running,
                             QueueInv, StopInv, PokeInv, FlagInv
  <2> QED BY <2>3, <2>4 DEF Inv
<1> QED BY <1>1, <1>2, <1>3, <1>4, <1>5, <1>6, <1>7, <1>8, <1>9, <1>10, <1>11
           DEF Thread

\* The invariant holds throughout.
LEMMA Invariance == Spec => []Inv
<1>1. Inv /\ UNCHANGED vars => Inv'
  BY DEF vars, scheduler, reactor, Inv, Types, Phases, WorkInv, QueueInv,
         StopInv, PokeInv, FlagInv
<1>2. Inv /\ [Next]_vars => Inv'
  BY <1>1, OwnerStep, ThreadStep DEF Next
<1> QED BY <1>2, InitInv, PTL DEF Spec

-----------------------------------------------------------------------------
\* The counts and queues stay in range, and the work count is never negative.
THEOREM Typing == Spec => []TypeOK
<1>1. Inv => TypeOK
  <2> SUFFICES ASSUME Inv PROVE TypeOK
    OBVIOUS
  <2>1. owner \in Owners /\ run \in Runs
        /\ context \in {"none", "alive", "destroyed"}
        /\ {bExit, stopped, interrupted, block, poke, event} \subseteq BOOLEAN
    BY DEF Inv, Types
  <2>2. work \in Nat
    BY DEF Inv, WorkInv
  <2>3. opq \in {<<>>, <<"task">>, <<"descriptor", "task">>}
    BY DEF Inv, QueueInv
  <2>4. ready \in {<<>>, <<"descriptor">>}
    BY DEF Inv, QueueInv
  <2>5. /\ <<>> \in Seq({"task", "descriptor"})
        /\ <<"task">> \in Seq({"task", "descriptor"})
        /\ <<"descriptor">> \in Seq({"task", "descriptor"})
        /\ <<"descriptor", "task">> \in Seq({"task", "descriptor"})
    OBVIOUS
  <2> QED BY <2>1, <2>2, <2>3, <2>4, <2>5 DEF TypeOK
<1> QED BY <1>1, Invariance, PTL

\* As long as the handle is used nothing stops its context; a stop reaches a
\* thread that blocks in epoll_wait.
THEOREM Stops == Spec => [](RunsWhileUsed /\ StopReachesReactor)
<1>1. Inv => RunsWhileUsed /\ StopReachesReactor
  BY DEF Inv, StopInv, PokeInv, RunsWhileUsed, StopReachesReactor
<1> QED BY <1>1, Invariance, PTL

\* The reactor task is in the queue once, or with the thread.
THEOREM OneTask == Spec => []OneReactorTask
<1>1. Inv => OneReactorTask
  <2> SUFFICES ASSUME Inv, context # "none" PROVE OneReactorTask
    BY DEF OneReactorTask
  <2> DEFINE at == {i \in DOMAIN opq : opq[i] = "task"}
  <2>1. CASE run \in {"reactor", "polled"}
    <3>1. opq = <<>>
      BY <2>1 DEF Inv, QueueInv
    <3>2. at = {}
      BY <3>1
    <3> HIDE DEF at
    <3>3. Cardinality(at) = 0
      BY <3>2, FS_EmptySet
    <3> QED BY <2>1, <3>3 DEF OneReactorTask, at
  <2>2. CASE run \notin {"reactor", "polled"}
    <3>1. opq \in {<<"task">>, <<"descriptor", "task">>}
      BY <2>2 DEF Inv, QueueInv
    <3>2. at = {1} \/ at = {2}
      <4>1. CASE opq = <<"task">>
        BY <4>1
      <4>2. CASE opq = <<"descriptor", "task">>
        BY <4>2
      <4> QED BY <3>1, <4>1, <4>2
    <3> HIDE DEF at
    <3>3. Cardinality(at) = 1
      BY <3>2, FS_Singleton
    <3> QED BY <2>2, <3>3 DEF OneReactorTask, at
  <2> QED BY <2>1, <2>2
<1> QED BY <1>1, Invariance, PTL

\* The destructor lets ioc_ go only when the thread has left ioc_.run(), unless
\* the thread has not begun.
THEOREM LeftFirst == Spec => LoopLeftFirst
<1> DEFINE Left == WaitExit /\ run # "start" => run \in {"none", "flagged"}
<1>1. Inv => Left
  BY DEF Inv, Types, Runs, FlagInv, WaitExit
<1> HIDE DEF Left
<1>2. Spec => [][Left]_vars
  BY <1>1, Invariance, PTL
<1> QED BY <1>2 DEF Left, LoopLeftFirst
===============================================================================
