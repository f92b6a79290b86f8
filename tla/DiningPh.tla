------------------------------ MODULE DiningPh ------------------------------
(***************************************************************************)
(* The dining philosophers of threads/diningph.cc, as ThreadTest runs them *)
(* over the scheduler, the semaphores and the lock of NachOS.              *)
(***************************************************************************)
EXTENDS NachosSynch, FiniteSets

CONSTANTS N,        \* philosophers, five in the code
          Rounds,   \* meals of each, ten in the code
          Dp        \* the semaphore of the lock dp; self[i] is named i

Philosophers == 0..(N - 1)

ASSUME TableAssumption ==
  /\ N \in Nat \ {0, 1}
  /\ Rounds \in Nat \ {0}
  /\ Main \notin Philosophers /\ Dp \notin Philosophers
  /\ NoThread # Main
  /\ Threads = Philosophers \cup {Main}
  /\ Sems = Philosophers \cup {Dp}
  /\ Start = [s \in Sems |-> IF s = Dp THEN 1 ELSE 0]

VARIABLES pc,       \* where each thread is
          forked,   \* philosophers that ThreadTest has forked
          state,    \* of each philosopher
          meals     \* rounds of Philo done by each

vars == <<synch, pc, forked, state, meals>>

\* The code of a philosopher, in order; after "yields" comes the next round.
After ==
  [starts       |-> "pickupP",
   pickupP      |-> "pickupOwn",
   pickupOwn    |-> "hungry",
   hungry       |-> "pickupDisown",
   pickupDisown |-> "pickupV",
   pickupV      |-> "self",
   self         |-> "eats",
   eats         |-> "putdownP",
   putdownP     |-> "putdownOwn",
   putdownOwn   |-> "thinks",
   thinks       |-> "tests",
   tests        |-> "putdownDisown",
   putdownDisown |-> "putdownV",
   putdownV     |-> "yields"]

Init ==
  /\ SynchInit
  /\ pc = [t \in Threads |-> IF t = Main THEN "forks" ELSE "starts"]
  /\ forked = 0
  /\ state = [i \in Philosophers |-> "Thinking"]
  /\ meals = [i \in Philosophers |-> 0]

At(t, places) == Running(t) /\ pc[t] \in places

Step(t) == pc' = [pc EXCEPT ![t] = After[@]]

-----------------------------------------------------------------------------
(* ThreadTest, and the loop of Philo.                                      *)

ForkPhilosopher ==
  /\ At(Main, {"forks"})
  /\ forked < N
  /\ Fork(forked)
  /\ forked' = forked + 1
  /\ UNCHANGED <<sems, owner, pc, state, meals>>

\* ThreadTest returns to main, or Philo to ThreadRoot.
End(t) ==
  /\ \/ t = Main /\ At(t, {"forks"}) /\ forked = N
     \/ At(t, {"ends"})
  /\ Finish(t)
  /\ pc' = [pc EXCEPT ![t] = "done"]
  /\ UNCHANGED <<sems, owner, forked, state, meals>>

\* Yield before the first round and after the meal.
YieldOnce(t) ==
  /\ At(t, {"starts", "eats"})
  /\ Yield(t)
  /\ Step(t)
  /\ UNCHANGED <<sems, owner, forked, state, meals>>

\* Mutant: one round too many.
EndRoundLate(t) ==
  /\ At(t, {"yields"})
  /\ Yield(t)
  /\ meals' = [meals EXCEPT ![t] = @ + 1]
  /\ pc' = [pc EXCEPT ![t] = IF meals[t] < Rounds THEN "pickupP" ELSE "ends"]
  /\ UNCHANGED <<sems, owner, forked, state>>

EndRound(t) ==
  /\ At(t, {"yields"})
  /\ Yield(t)
  /\ meals' = [meals EXCEPT ![t] = @ + 1]
  /\ pc' = [pc EXCEPT ![t] = IF meals[t] + 1 < Rounds THEN "pickupP" ELSE "ends"]
  /\ UNCHANGED <<sems, owner, forked, state>>

-----------------------------------------------------------------------------
(* pickup and putdown.                                                     *)

\* Mutant: the owner is set before P.
AcquireOwnerFirst(t) ==
  /\ At(t, {"pickupP", "putdownP"})
  /\ P(t, Dp)
  /\ owner' = t
  /\ IF Passes(Dp) THEN Step(t) ELSE UNCHANGED pc
  /\ UNCHANGED <<forked, state, meals>>

\* dp->Acquire() up to the end of P.
AcquireP(t) ==
  /\ At(t, {"pickupP", "putdownP"})
  /\ P(t, Dp)
  /\ IF Passes(Dp) THEN Step(t) ELSE UNCHANGED pc
  /\ UNCHANGED <<owner, forked, state, meals>>

AcquireOwn(t) ==
  /\ At(t, {"pickupOwn", "putdownOwn"})
  /\ Own(t)
  /\ Step(t)
  /\ UNCHANGED <<forked, state, meals>>

ReleaseDisown(t) ==
  /\ At(t, {"pickupDisown", "putdownDisown"})
  /\ Disown(t)
  /\ Step(t)
  /\ UNCHANGED <<forked, state, meals>>

ReleaseV(t) ==
  /\ At(t, {"pickupV", "putdownV"})
  /\ V(Dp)
  /\ Step(t)
  /\ UNCHANGED <<owner, forked, state, meals>>

Left(i) == (i + N - 1) % N
Right(i) == (i + 1) % N

\* Mutants: a neighbour, or the hunger of i, is not looked at.
MayEatLeft(i, st) == st[Left(i)] # "Eating" /\ st[i] = "Hungry"
MayEatAnyway(i, st) == "Eating" \notin {st[Left(i)], st[i], st[Right(i)]}

MayEat(i, st) ==
  /\ st[Left(i)] # "Eating"
  /\ st[i] = "Hungry"
  /\ st[Right(i)] # "Eating"

\* test(i) after state became st.
Test(i, st) ==
  /\ IF MayEat(i, st)
       THEN state' = [st EXCEPT ![i] = "Eating"] /\ V(i)
       ELSE state' = st /\ UNCHANGED <<cpu, sems>>
  /\ UNCHANGED owner

\* pickup under the lock.
Hungry(t) ==
  /\ At(t, {"hungry"})
  /\ Test(t, [state EXCEPT ![t] = "Hungry"])
  /\ Step(t)
  /\ UNCHANGED <<forked, meals>>

\* The end of pickup: self[ who ]->P().
WaitSelf(t) ==
  /\ At(t, {"self"})
  /\ P(t, t)
  /\ IF Passes(t) THEN Step(t) ELSE UNCHANGED pc
  /\ UNCHANGED <<owner, forked, state, meals>>

\* putdown under the lock: first the neighbour at the left, ...
Thinks(t) ==
  /\ At(t, {"thinks"})
  /\ Test(Left(t), [state EXCEPT ![t] = "Thinking"])
  /\ Step(t)
  /\ UNCHANGED <<forked, meals>>

\* Mutant: the neighbour at the left twice.
TestsLeft(t) ==
  /\ At(t, {"tests"})
  /\ Test(Left(t), state)
  /\ Step(t)
  /\ UNCHANGED <<forked, meals>>

\* ... then the one at the right.
Tests(t) ==
  /\ At(t, {"tests"})
  /\ Test(Right(t), state)
  /\ Step(t)
  /\ UNCHANGED <<forked, meals>>

Slice(t) ==
  /\ Preempt(t)
  /\ UNCHANGED <<pc, forked, state, meals>>

-----------------------------------------------------------------------------
Philo(t) ==
  \/ YieldOnce(t) \/ EndRound(t)
  \/ AcquireP(t) \/ AcquireOwn(t) \/ ReleaseDisown(t) \/ ReleaseV(t)
  \/ Hungry(t) \/ WaitSelf(t) \/ Thinks(t) \/ Tests(t)

Next ==
  \/ ForkPhilosopher
  \/ \E t \in Threads : End(t) \/ Slice(t)
  \/ \E t \in Philosophers : Philo(t)

Spec == Init /\ [][Next]_vars

\* A thread that gets the processor again and again moves on: a time slice
\* is longer than a step.
FairSpec ==
  /\ Spec
  /\ SF_vars(ForkPhilosopher \/ End(Main))
  /\ \A t \in Philosophers : SF_vars(Philo(t) \/ End(t))

-----------------------------------------------------------------------------
TypeOK ==
  /\ current \in Threads
  /\ ready \in Seq(Threads)
  /\ fresh \subseteq Threads /\ asleep \subseteq Threads
  /\ doomed \in Threads \cup {NoThread} /\ owner \in Threads \cup {NoThread}
  /\ deleted \subseteq Threads
  /\ value \in [Sems -> Nat]
  /\ queue \in [Sems -> Seq(Threads)]
  /\ machine \in {"runs", "halted", "aborted"}
  /\ pc \in [Threads -> DOMAIN After \cup {"forks", "yields", "ends", "done"}]
  /\ forked \in 0..N
  /\ state \in [Philosophers -> {"Thinking", "Hungry", "Eating"}]
  /\ meals \in [Philosophers -> 0..Rounds]

\* Between P and V of the lock.
Critical == {t \in Philosophers : pc[t] \in {"pickupOwn", "hungry", "pickupDisown",
   "pickupV", "putdownOwn", "thinks", "tests", "putdownDisown", "putdownV"}}

\* The lock of synch.cc, a semaphore and a field owner that is written
\* outside of P and V, behaves like the lock that synch.h describes.
Lock == INSTANCE AbstractLock WITH holders <- Critical
LockRefined == Lock!Spec

\* Philosophers that sit side by side never eat at the same time.
NeighboursApart ==
  \A i \in Philosophers : state[i] = "Eating" => state[Right(i)] # "Eating"

\* A philosopher gets one permit for a meal: self[i] is 1 from the test that
\* lets i eat until i has passed its P, and 0 otherwise, although the test
\* may be that of i or of a neighbour, before or after i goes to sleep.
OnePermit ==
  \A i \in Philosophers :
    value[i] = IF state[i] = "Eating" /\ pc[i] \in {"pickupDisown", "pickupV", "self"}
                 THEN 1 ELSE 0

\* No ASSERT of the kernel fails: the lock is released by its owner.
NeverAborts == machine # "aborted"

\* How often t is on the list l.
Times(t, l) == Cardinality({i \in DOMAIN l : l[i] = t})

\* A thread that was forked and has not ended is on the processor, on the
\* ready list or in the queue of one semaphore, and in one place only; what
\* Run deletes is a thread that has ended.
OnePlace ==
  machine = "runs" => \A t \in Threads :
    LET here == IF current = t THEN 1 ELSE 0
        waits == {q \in Sems : Times(t, queue[q]) > 0}
        gone == pc[t] = "done" \/ (t # Main /\ t >= forked)
    IN  /\ \A q \in waits : waits = {q} /\ Times(t, queue[q]) = 1
        /\ here + Times(t, ready) + (IF waits = {} THEN 0 ELSE 1) = IF gone THEN 0 ELSE 1
        /\ t \in deleted => pc[t] = "done"

\* "No threads ready or runnable ... Assuming the program completed": the
\* machine halts when every philosopher has eaten all its meals, and never
\* because they wait for each other.
HaltsWhenDone ==
  machine = "halted" => \A i \in Philosophers : meals[i] = Rounds /\ pc[i] = "done"

\* The program ends, although V lets other threads take the semaphore before
\* the one that it wakes, which goes to the end of the queue again.
Completes == <>(machine = "halted")

=============================================================================
