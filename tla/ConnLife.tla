------------------------------ MODULE ConnLife ------------------------------
(***************************************************************************)
(* The life of one connection object (connection.cpp): its constructor      *)
(* starts a detached thread that runs the object's io_context, its          *)
(* destructor stops the io_context, polls m_bExit and lets the members go.  *)
(* Between the two are the asio scheduler's run loop and stop (scheduler.ipp)*)
(* and the edge-triggered interrupter and descriptor events of              *)
(* epoll_reactor.ipp, as far as this program uses them: no handler is ever  *)
(* posted, but every response and every close on the stream's socket is an  *)
(* event that the thread's epoll_wait sees.                                 *)
(*                                                                          *)
(* The scheduler's mutex is held exactly while run = "loop": a step of the  *)
(* owner that locks it waits until the thread has left that place.          *)
(***************************************************************************)
EXTENDS Naturals, Sequences, FiniteSets

CONSTANT Garbage  \* what m_bExit may hold before connection::run assigns it:
                  \* the constructor does not

ASSUME GarbageAssumption == Garbage # {} /\ Garbage \subseteq BOOLEAN

VARIABLES
  owner,        \* the thread that makes, uses and deletes the object
  run,          \* the detached thread
  bExit,        \* m_bExit
  context,      \* ioc_: "none", "alive" or "destroyed"
  stopped,      \* scheduler::stopped_
  work,         \* scheduler::outstanding_work_
  opq,          \* scheduler::op_queue_: the reactor task, ready descriptors
  interrupted,  \* scheduler::task_interrupted_
  block,        \* the thread's epoll_wait may block
  ready,        \* descriptors its epoll_wait returned
  poke,         \* interrupter edge not yet seen by epoll_wait
  event         \* socket edge not yet seen by epoll_wait

scheduler == <<stopped, work, opq, interrupted>>
reactor   == <<block, ready, poke, event>>
vars      == <<owner, run, bExit, context, scheduler, reactor>>

Owners == {"none", "connect", "spawn", "use", "wait", "members", "stream"}
Runs == {"none", "start", "entered", "counted", "loop", "reactor", "polled",
         "handler", "left", "flagged"}

\* Mutant of Stop: the reactor is not interrupted
Stop_Quiet == stopped' = TRUE /\ UNCHANGED <<interrupted, poke>>

\* stop_all_threads: the event the loop may wait on, and the reactor if it is
\* not already on its way back
Stop ==
  /\ stopped' = TRUE
  /\ interrupted' = TRUE
  /\ poke' = (poke \/ ~interrupted)

\* What run_one's work_cleanup does to the work count when the handler left p
\* units of its own: one is the completed operation's
WorkCleanup(p) ==
  /\ work' = work + p - 1
  /\ IF work' = 0 THEN Stop ELSE UNCHANGED <<stopped, interrupted, poke>>

\* Mutant of Compensation: it is forgotten
Compensation_None == 0

\* A descriptor event completes no operation of the program, since all of its
\* I/O is synchronous: perform_io compensates for the cleanup
Compensation == 1

-----------------------------------------------------------------------------
Init ==
  /\ owner = "none" /\ run = "none" /\ context = "none"
  /\ bExit \in Garbage
  /\ stopped = FALSE /\ work = 0 /\ opq = <<>> /\ interrupted = TRUE
  /\ block = FALSE /\ ready = <<>> /\ poke = FALSE /\ event = FALSE

(* The owner                                                                *)

\* The constructor up to the stream: its socket service starts the reactor,
\* whose interrupter is readable from the first, and queues the reactor task
\* (epoll_reactor's constructor, scheduler::init_task)
Construct ==
  /\ owner = "none" /\ run = "none"
  /\ owner' = "connect"
  /\ bExit' \in Garbage
  /\ context' = "alive"
  /\ stopped' = FALSE /\ work' = 0 /\ opq' = <<"task">> /\ interrupted' = TRUE
  /\ block' = FALSE /\ ready' = <<>> /\ poke' = TRUE /\ event' = FALSE
  /\ UNCHANGED run

\* The connect, whether it succeeds or throws
Connect ==
  /\ owner = "connect"
  /\ owner' = "spawn"
  /\ UNCHANGED <<run, bExit, context, scheduler, reactor>>

Spawn ==
  /\ owner = "spawn"
  /\ owner' = "use" /\ run' = "start"
  /\ UNCHANGED <<bExit, context, scheduler, reactor>>

\* connection::update replaces the stream: what the old socket had to tell is
\* forgotten with its registration
Update ==
  /\ owner = "use"
  /\ event' = FALSE
  /\ UNCHANGED <<owner, run, bExit, context, scheduler, block, ready, poke>>

\* The destructor: ioc_.stop(), under the scheduler's mutex
StopContext ==
  /\ owner = "use" /\ run # "loop"
  /\ Stop
  /\ owner' = "wait"
  /\ UNCHANGED <<run, bExit, context, work, opq, block, ready, event>>

\* Mutant of WaitExit: the destructor does not look at the flag
WaitExit_Never ==
  /\ owner = "wait"
  /\ owner' = "members"
  /\ UNCHANGED <<run, bExit, context, scheduler, reactor>>

\* ... then it sleeps until it sees m_bExit
WaitExit ==
  /\ owner = "wait" /\ bExit
  /\ owner' = "members"
  /\ UNCHANGED <<run, bExit, context, scheduler, reactor>>

\* Members go in the reverse order of connection.h: ioc_ and its services ...
DestroyContext ==
  /\ owner = "members"
  /\ context' = "destroyed"
  /\ owner' = "stream"
  /\ UNCHANGED <<run, bExit, scheduler, reactor>>

\* ... before stream_ and resolver_, which return their sockets and queries to
\* those services
DestroyStream ==
  /\ owner = "stream"
  /\ owner' = "none"
  /\ UNCHANGED <<run, bExit, context, scheduler, reactor>>

\* A response arrives on the socket, or the server closes it
Traffic ==
  /\ owner \in {"spawn", "use", "wait"}
  /\ event' = TRUE
  /\ UNCHANGED <<owner, run, bExit, context, scheduler, block, ready, poke>>

-----------------------------------------------------------------------------
(* The detached thread                                                      *)

\* connection::run begins
Enter ==
  /\ run = "start"
  /\ bExit' = FALSE
  /\ run' = "entered"
  /\ UNCHANGED <<owner, context, scheduler, reactor>>

\* io_context::work
CountWork ==
  /\ run = "entered"
  /\ work' = work + 1
  /\ run' = "counted"
  /\ UNCHANGED <<owner, bExit, context, stopped, opq, interrupted, reactor>>

\* scheduler::run locks the mutex
Lock ==
  /\ run = "counted"
  /\ run' = "loop"
  /\ UNCHANGED <<owner, bExit, context, scheduler, reactor>>

\* Mutant of TakeTask: the task counts as interrupted already
TakeTask_Interrupted ==
  /\ run = "loop" /\ ~stopped /\ opq # <<>> /\ Head(opq) = "task"
  /\ opq' = Tail(opq)
  /\ block' = (Tail(opq) = <<>>)
  /\ run' = "reactor"
  /\ UNCHANGED <<owner, bExit, context, stopped, work, interrupted, ready, poke,
                 event>>

\* do_run_one: the reactor task is next; it may block when nothing else waits
TakeTask ==
  /\ run = "loop" /\ ~stopped /\ opq # <<>> /\ Head(opq) = "task"
  /\ opq' = Tail(opq)
  /\ interrupted' = (Tail(opq) # <<>>)
  /\ block' = (Tail(opq) = <<>>)
  /\ run' = "reactor"
  /\ UNCHANGED <<owner, bExit, context, stopped, work, ready, poke, event>>

\* epoll_reactor::run
Poll ==
  /\ run = "reactor" /\ (block => poke \/ event)
  /\ ready' = IF event THEN <<"descriptor">> ELSE <<>>
  /\ poke' = FALSE /\ event' = FALSE
  /\ run' = "polled"
  /\ UNCHANGED <<owner, bExit, context, scheduler, block>>

\* Mutant of TaskCleanup: the task is queued again only with a descriptor
TaskCleanup_Lossy ==
  /\ run = "polled"
  /\ interrupted' = TRUE
  /\ opq' = IF ready = <<>> THEN opq ELSE opq \o ready \o <<"task">>
  /\ ready' = <<>>
  /\ run' = "loop"
  /\ UNCHANGED <<owner, bExit, context, stopped, work, block, poke, event>>

\* ~task_cleanup: lock, then queue what is ready and the task behind it
TaskCleanup ==
  /\ run = "polled"
  /\ interrupted' = TRUE
  /\ opq' = opq \o ready \o <<"task">>
  /\ ready' = <<>>
  /\ run' = "loop"
  /\ UNCHANGED <<owner, bExit, context, stopped, work, block, poke, event>>

\* do_run_one: a ready descriptor is next; the mutex is released
TakeDescriptor ==
  /\ run = "loop" /\ ~stopped /\ opq # <<>> /\ Head(opq) = "descriptor"
  /\ opq' = Tail(opq)
  /\ run' = "handler"
  /\ UNCHANGED <<owner, bExit, context, stopped, work, interrupted, reactor>>

\* perform_io finds no operation to complete; cleanup; the mutex again
Handle ==
  /\ run = "handler"
  /\ WorkCleanup(Compensation)
  /\ run' = "loop"
  /\ UNCHANGED <<owner, bExit, context, opq, block, ready, event>>

\* do_run_one sees stopped_: ioc_.run() returns
Leave ==
  /\ run = "loop" /\ stopped
  /\ run' = "left"
  /\ UNCHANGED <<owner, bExit, context, scheduler, reactor>>

SetExit ==
  /\ run = "left"
  /\ bExit' = TRUE
  /\ run' = "flagged"
  /\ UNCHANGED <<owner, context, scheduler, reactor>>

\* The local work object goes when the function returns, after the flag
DropWork ==
  /\ run = "flagged"
  /\ work' = work - 1
  /\ IF work' = 0 THEN Stop ELSE UNCHANGED <<stopped, interrupted, poke>>
  /\ run' = "none"
  /\ UNCHANGED <<owner, bExit, context, opq, block, ready, event>>

-----------------------------------------------------------------------------
Owner == Construct \/ Connect \/ Spawn \/ Update \/ StopContext \/ WaitExit
           \/ DestroyContext \/ DestroyStream
Thread == Enter \/ CountWork \/ Lock \/ TakeTask \/ Poll \/ TaskCleanup
            \/ TakeDescriptor \/ Handle \/ Leave \/ SetExit \/ DropWork

Next == Owner \/ Traffic \/ Thread

\* The thread runs when it can, and a destructor once entered goes on.  Nobody
\* has to delete a handle, and no server has to answer.
Fairness ==
  /\ WF_vars(Thread)
  /\ WF_vars(WaitExit \/ DestroyContext \/ DestroyStream)

Spec == Init /\ [][Next]_vars /\ Fairness

-----------------------------------------------------------------------------
\* Type invariant: every queue holds what the scheduler puts there, and the
\* work count never goes below zero (scheduler::work_finished would wrap).
TypeOK ==
  /\ owner \in Owners /\ run \in Runs
  /\ context \in {"none", "alive", "destroyed"}
  /\ opq \in Seq({"task", "descriptor"})
  /\ ready \in Seq({"task", "descriptor"})
  /\ {bExit, stopped, interrupted, block, poke, event} \subseteq BOOLEAN
  /\ work \in Nat

\* The reactor task is never lost and never queued twice, whatever events and
\* stops come between do_run_one and ~task_cleanup: either it waits in
\* op_queue_ or the thread is inside it.
OneReactorTask ==
  context # "none" =>
    LET queued == Cardinality({i \in DOMAIN opq : opq[i] = "task"}) IN
    queued = IF run \in {"reactor", "polled"} THEN 0 ELSE 1

\* ioc_.run() does not return by itself while the handle is in use: the work
\* object outlasts every burst of socket events, so stopped_ is only set by the
\* destructor.
RunsWhileUsed == owner \in {"connect", "spawn", "use"} => ~stopped

\* The stop request cannot be missed: once stopped_ is set, a thread that is
\* blocked in epoll_wait has an interrupt on its way.
StopReachesReactor == stopped /\ run = "reactor" /\ block => poke

\* A destructor that finds the thread started waits long enough: it goes on to
\* destroy ioc_ only when the thread has left ioc_.run() for good.
LoopLeftFirst == [][WaitExit /\ run # "start" => run \in {"none", "flagged"}]_vars

\* dnn_rmconn returns.
RemoveReturns == owner = "wait" ~> owner = "none"

-----------------------------------------------------------------------------
\* execution_context.hpp:72-74: "Once a service reference is obtained from an
\* execution_context object by calling use_service(), that reference remains
\* usable as long as the owning execution_context object exists" - and no
\* longer.  The stream and the resolver give their sockets back through such
\* references, so they have to go before ioc_.
StreamGoesFirst == context = "destroyed" => owner # "stream"

\* The same promise seen from the detached thread: it refers to the scheduler
\* until its work object is gone.  The destructor may see m_bExit before that,
\* or before the thread has assigned it at all.
ThreadGoesFirst == context = "destroyed" => run = "none"
=============================================================================
