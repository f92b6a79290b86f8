---------------------------- MODULE NachosSynch -----------------------------
(***************************************************************************)
(* Threads, scheduler, semaphores and the lock of NachOS: the processor    *)
(* runs one thread, the ready list is first in, first out, and a step of   *)
(* this module is code that runs with interrupts off.                      *)
(***************************************************************************)
EXTENDS Naturals, Sequences

CONSTANTS Threads,    \* the kernel threads of a run
          Main,       \* the one that NachOS starts with
          NoThread,   \* a null pointer
          Sems,       \* the semaphores
          Start       \* their initial values

ASSUME MainAssumption == Main \in Threads /\ NoThread \notin Threads
ASSUME StartAssumption == Start \in [Sems -> Nat]

VARIABLES current,    \* currentThread
          ready,      \* readyList of the scheduler
          fresh,      \* threads that were never switched to
          asleep,     \* threads in the while loop of P, with interrupts off
          doomed,     \* threadToBeDestroyed
          deleted,    \* threads whose object and stack are deleted
          value,      \* of each semaphore
          queue,      \* of each semaphore
          owner,      \* of the lock
          machine     \* "runs", "halted", "aborted" (by an ASSERT)

cpu == <<current, ready, fresh, doomed, deleted, machine>>
sems == <<value, queue, asleep>>
synch == <<cpu, sems, owner>>

SynchInit ==
  /\ current = Main
  /\ ready = <<>>
  /\ fresh = Threads \ {Main}
  /\ asleep = {}
  /\ doomed = NoThread
  /\ deleted = {}
  /\ value = Start
  /\ queue = [s \in Sems |-> <<>>]
  /\ owner = NoThread
  /\ machine = "runs"

Running(t) == machine = "runs" /\ current = t

-----------------------------------------------------------------------------
(* Scheduler and threads.                                                  *)

\* Scheduler::Run.  A thread that is switched to for the first time starts
\* in ThreadRoot; any other one goes on behind SWITCH and deletes carcass,
\* the thread in threadToBeDestroyed.
Run(next, rest, carcass) ==
  /\ current' = next
  /\ ready' = rest
  /\ IF next \in fresh
       THEN /\ fresh' = fresh \ {next}
            /\ doomed' = carcass
            /\ UNCHANGED deleted
       ELSE /\ UNCHANGED fresh
            /\ doomed' = NoThread
            /\ deleted' = deleted \cup ({carcass} \ {NoThread})

\* Thread::Fork, called by the running thread.
Fork(t) ==
  /\ ready' = Append(ready, t)
  /\ UNCHANGED <<current, fresh, doomed, deleted, machine>>

\* Thread::Yield of the running thread.
Yield(t) ==
  /\ IF ready = <<>>
       THEN UNCHANGED <<current, ready, fresh, doomed, deleted>>
       ELSE Run(Head(ready), Append(Tail(ready), t), doomed)
  /\ UNCHANGED machine

\* Thread::Sleep of the running thread.  If nobody is ready, Interrupt::Idle
\* finds no interrupt but that of the timer, and halts the machine.
Sleep(carcass) ==
  IF ready = <<>>
    THEN /\ machine' = "halted"
         /\ doomed' = carcass
         /\ UNCHANGED <<current, ready, fresh, deleted>>
    ELSE /\ Run(Head(ready), Tail(ready), carcass)
         /\ UNCHANGED machine

\* Thread::Finish of the running thread.
Finish(t) == Sleep(t)

-----------------------------------------------------------------------------
(* Semaphores and locks.                                                   *)

\* Mutants: the loop of P replaced by an if, or by a busy loop.
PIf(t, s) ==
  IF value[s] = 0 /\ t \notin asleep
    THEN /\ queue' = [queue EXCEPT ![s] = Append(@, t)]
         /\ asleep' = asleep \cup {t}
         /\ Sleep(doomed)
         /\ UNCHANGED value
    ELSE /\ value' = [value EXCEPT ![s] = @ - 1]
         /\ asleep' = asleep \ {t}
         /\ UNCHANGED <<cpu, queue>>

PSpin(t, s) ==
  /\ IF value[s] = 0 THEN UNCHANGED value
                     ELSE value' = [value EXCEPT ![s] = @ - 1]
  /\ UNCHANGED <<cpu, queue, asleep>>

\* Semaphore::P up to the end of a round of its loop.  A thread that is woken
\* looks at the value again.
P(t, s) ==
  IF value[s] = 0
    THEN /\ queue' = [queue EXCEPT ![s] = Append(@, t)]
         /\ asleep' = asleep \cup {t}
         /\ Sleep(doomed)
         /\ UNCHANGED value
    ELSE /\ value' = [value EXCEPT ![s] = @ - 1]
         /\ asleep' = asleep \ {t}
         /\ UNCHANGED <<cpu, queue>>

\* Whether P returns at this step.
Passes(s) == value[s] # 0

\* Mutant: the woken thread stays in the queue.
VKeepsQueue(s) ==
  /\ value' = [value EXCEPT ![s] = @ + 1]
  /\ IF queue[s] = <<>>
       THEN UNCHANGED ready
       ELSE ready' = Append(ready, Head(queue[s]))
  /\ UNCHANGED <<queue, asleep, current, fresh, doomed, deleted, machine>>

\* Semaphore::V
V(s) ==
  /\ value' = [value EXCEPT ![s] = @ + 1]
  /\ IF queue[s] = <<>>
       THEN UNCHANGED <<queue, ready>>
       ELSE /\ queue' = [queue EXCEPT ![s] = Tail(@)]
            /\ ready' = Append(ready, Head(queue[s]))
  /\ UNCHANGED <<asleep, current, fresh, doomed, deleted, machine>>

\* Lock::Acquire after its P.
Own(t) ==
  /\ owner' = t
  /\ UNCHANGED <<cpu, sems>>

\* Lock::Release up to its V, with the ASSERT that the thread is the owner.
Disown(t) ==
  /\ IF owner = t THEN owner' = NoThread /\ UNCHANGED machine
                  ELSE machine' = "aborted" /\ UNCHANGED owner
  /\ UNCHANGED <<current, ready, fresh, doomed, deleted, sems>>

\* A time slice ends: with -p anywhere in the code, with -rs where interrupts
\* are switched on again.
Preempt(t) ==
  /\ Running(t)
  /\ t \notin asleep
  /\ ready # <<>>
  /\ Yield(t)
  /\ UNCHANGED <<sems, owner>>

=============================================================================
