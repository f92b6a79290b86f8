--------------------------- MODULE DiningPhProofs ---------------------------
(***************************************************************************)
(* Theorems about the dining philosophers, for every number of them.       *)
(***************************************************************************)
EXTENDS DiningPh, FiniteSetTheorems, TLAPS

\* The neighbours of a philosopher sit at the table, the left neighbour of
\* the right one is the philosopher, and nobody is his own neighbour.
LEMMA Seats ==
  ASSUME NEW i \in Philosophers
  PROVE  /\ Left(i) \in Philosophers /\ Right(i) \in Philosophers
         /\ Left(Right(i)) = i /\ Right(Left(i)) = i
         /\ Left(i) # i /\ Right(i) # i
<1>1. N \in Nat /\ N > 1
  BY TableAssumption
<1>2. i \in Nat /\ i < N
  BY <1>1 DEF Philosophers
<1>3. \A k \in 0..(N - 1) : k % N = k /\ (k + N) % N = k
  BY <1>1
<1>4. Right(i) = IF i = N - 1 THEN 0 ELSE i + 1
  BY <1>1, <1>2, <1>3 DEF Right
<1>5. Left(i) = IF i = 0 THEN N - 1 ELSE i - 1
  BY <1>1, <1>2, <1>3 DEF Left
<1> QED
  BY <1>1, <1>2, <1>3, <1>4, <1>5 DEF Left, Right, Philosophers

-----------------------------------------------------------------------------
(* Types.                                                                  *)

CpuOK ==
  /\ current \in Threads
  /\ ready \in Seq(Threads)
  /\ fresh \subseteq Threads
  /\ doomed \in Threads \cup {NoThread}
  /\ deleted \subseteq Threads
  /\ machine \in {"runs", "halted", "aborted"}

SemsOK ==
  /\ asleep \subseteq Threads
  /\ value \in [Sems -> Nat]
  /\ queue \in [Sems -> Seq(Threads)]

\* What a switch leaves is a processor again.
LEMMA RunTypes ==
  ASSUME CpuOK, NEW next \in Threads, NEW rest \in Seq(Threads),
         NEW carcass \in Threads \cup {NoThread},
         Run(next, rest, carcass), UNCHANGED machine
  PROVE  CpuOK'
<1>1. CASE next \in fresh
  BY <1>1 DEF Run, CpuOK
<1>2. CASE next \notin fresh
  BY <1>2 DEF Run, CpuOK
<1> QED
  BY <1>1, <1>2

LEMMA YieldTypes ==
  ASSUME CpuOK, NEW t \in Threads, Yield(t)
  PROVE  CpuOK'
<1>1. CASE ready = <<>>
  BY <1>1 DEF Yield, CpuOK
<1>2. CASE ready # <<>>
  <2>1. Head(ready) \in Threads /\ Append(Tail(ready), t) \in Seq(Threads)
    BY <1>2 DEF CpuOK
  <2>2. Run(Head(ready), Append(Tail(ready), t), doomed) /\ UNCHANGED machine
    BY <1>2 DEF Yield
  <2> QED
    BY <2>1, <2>2, RunTypes DEF CpuOK
<1> QED
  BY <1>1, <1>2

LEMMA SleepTypes ==
  ASSUME CpuOK, NEW carcass \in Threads \cup {NoThread}, Sleep(carcass)
  PROVE  CpuOK'
<1>1. CASE ready = <<>>
  BY <1>1 DEF Sleep, CpuOK
<1>2. CASE ready # <<>>
  <2>1. Head(ready) \in Threads /\ Tail(ready) \in Seq(Threads)
    BY <1>2 DEF CpuOK
  <2>2. Run(Head(ready), Tail(ready), carcass) /\ UNCHANGED machine
    BY <1>2 DEF Sleep
  <2> QED
    BY <2>1, <2>2, RunTypes
<1> QED
  BY <1>1, <1>2

LEMMA PTypes ==
  ASSUME CpuOK, SemsOK, NEW t \in Threads, NEW s \in Sems, P(t, s)
  PROVE  CpuOK' /\ SemsOK'
<1>1. CASE value[s] = 0
  <2>1. doomed \in Threads \cup {NoThread} /\ Sleep(doomed)
    BY <1>1 DEF P, CpuOK
  <2>2. queue[s] \in Seq(Threads)
    BY DEF SemsOK
  <2>3. Append(queue[s], t) \in Seq(Threads)
    BY <2>2
  <2>4. queue' \in [Sems -> Seq(Threads)]
    BY <1>1, <2>3 DEF P, SemsOK
  <2>5. asleep' \subseteq Threads
    BY <1>1 DEF P, SemsOK
  <2> QED
    BY <1>1, <2>1, <2>4, <2>5, SleepTypes DEF P, SemsOK
<1>2. CASE value[s] # 0
  <2>1. value[s] \in Nat
    BY DEF SemsOK
  <2>2. value[s] - 1 \in Nat
    BY <1>2, <2>1
  <2>3. value' \in [Sems -> Nat]
    BY <1>2, <2>2 DEF P, SemsOK
  <2>4. asleep' \subseteq Threads
    BY <1>2 DEF P, SemsOK
  <2> QED
    BY <1>2, <2>3, <2>4 DEF P, SemsOK, CpuOK, cpu
<1> QED
  BY <1>1, <1>2

LEMMA VTypes ==
  ASSUME CpuOK, SemsOK, NEW s \in Sems, V(s)
  PROVE  CpuOK' /\ SemsOK'
<1>0. value' \in [Sems -> Nat]
  <2>1. value[s] + 1 \in Nat
    BY DEF SemsOK
  <2> QED
    BY <2>1 DEF V, SemsOK
<1>1. CASE queue[s] = <<>>
  BY <1>0, <1>1 DEF V, SemsOK, CpuOK
<1>2. CASE queue[s] # <<>>
  <2>1. queue[s] \in Seq(Threads)
    BY DEF SemsOK
  <2>2. Head(queue[s]) \in Threads /\ Tail(queue[s]) \in Seq(Threads)
    BY <1>2, <2>1
  <2>3. queue' \in [Sems -> Seq(Threads)]
    BY <1>2, <2>2 DEF V, SemsOK
  <2>4. ready' \in Seq(Threads)
    BY <1>2, <2>2 DEF V, CpuOK
  <2> QED
    BY <1>0, <2>3, <2>4 DEF V, SemsOK, CpuOK
<1> QED
  BY <1>1, <1>2

ProgramOK ==
  /\ owner \in Threads \cup {NoThread}
  /\ pc \in [Threads -> DOMAIN After \cup {"forks", "yields", "ends", "done"}]
  /\ forked \in 0..N
  /\ state \in [Philosophers -> {"Thinking", "Hungry", "Eating"}]
  /\ meals \in [Philosophers -> 0..Rounds]

\* A step of a philosopher along the code stays in the code.
LEMMA StepTypes ==
  ASSUME ProgramOK, NEW t \in Threads, pc[t] \in DOMAIN After, Step(t)
  PROVE  pc' \in [Threads -> DOMAIN After \cup {"forks", "yields", "ends", "done"}]
<1>1. After[pc[t]] \in DOMAIN After \cup {"yields"}
  BY DEF After
<1> QED
  BY <1>1 DEF Step, ProgramOK

\* test(i) keeps the types.
LEMMA TestTypes ==
  ASSUME CpuOK, SemsOK, ProgramOK, NEW i \in Philosophers,
         NEW st \in [Philosophers -> {"Thinking", "Hungry", "Eating"}], Test(i, st)
  PROVE  /\ CpuOK' /\ SemsOK' /\ owner' \in Threads \cup {NoThread}
         /\ state' \in [Philosophers -> {"Thinking", "Hungry", "Eating"}]
<1>1. i \in Sems
  BY TableAssumption
<1>2. CASE MayEat(i, st)
  <2>1. V(i) /\ state' = [st EXCEPT ![i] = "Eating"] /\ UNCHANGED owner
    BY <1>2 DEF Test
  <2> QED
    BY <1>1, <2>1, VTypes DEF ProgramOK
<1>3. CASE ~MayEat(i, st)
  BY <1>3 DEF Test, CpuOK, SemsOK, ProgramOK, cpu, sems
<1> QED
  BY <1>2, <1>3

\* The invariant that bounds meals: who has not ended has a meal left.
MealsLeft ==
  \A i \in Philosophers : pc[i] \notin {"ends", "done"} => meals[i] < Rounds

LEMMA MealsNext ==
  ASSUME ProgramOK, MealsLeft, [Next]_vars
  PROVE  MealsLeft'
<1>1. ASSUME NEW t \in Philosophers, EndRound(t)
      PROVE  MealsLeft'
  <2>1. meals[t] \in Nat /\ Rounds \in Nat /\ t \in Threads
    BY TableAssumption DEF ProgramOK
  <2> QED
    BY <1>1, <2>1 DEF EndRound, MealsLeft, ProgramOK
<1>2. ASSUME NEW t \in Philosophers, pc[t] \in DOMAIN After, Step(t), UNCHANGED meals
      PROVE  MealsLeft'
  <2>1. After[pc[t]] \notin {"ends", "done"} /\ pc[t] \notin {"ends", "done"}
    BY <1>2 DEF After
  <2>2. t \in Threads
    BY TableAssumption
  <2> QED
    BY <1>2, <2>1, <2>2 DEF Step, MealsLeft, ProgramOK
<1>3. ASSUME NEW t \in Philosophers, Philo(t), ~EndRound(t)
      PROVE  MealsLeft'
  <2>1. UNCHANGED meals /\ pc[t] \in DOMAIN After
    BY <1>3 DEF Philo, YieldOnce, AcquireP, AcquireOwn, ReleaseDisown, ReleaseV,
                Hungry, WaitSelf, Thinks, Tests, At, After
  <2>2. Step(t) \/ UNCHANGED pc
    BY <1>3 DEF Philo, YieldOnce, AcquireP, AcquireOwn, ReleaseDisown, ReleaseV,
                Hungry, WaitSelf, Thinks, Tests
  <2> QED
    BY <1>2, <2>1, <2>2 DEF MealsLeft
<1>4. ASSUME NEW t \in Threads, End(t)
      PROVE  MealsLeft'
  BY <1>4 DEF End, MealsLeft, ProgramOK
<1>5. CASE UNCHANGED <<pc, meals>>
  BY <1>5 DEF MealsLeft
<1> QED
  BY <1>1, <1>3, <1>4, <1>5 DEF Next, ForkPhilosopher, Slice, vars

Typed == CpuOK /\ SemsOK /\ ProgramOK /\ MealsLeft

LEMMA InitTypes == Init => Typed
<1> SUFFICES ASSUME Init PROVE Typed
  OBVIOUS
<1> USE DEF Init, SynchInit
<1>1. CpuOK
  BY MainAssumption DEF CpuOK
<1>2. SemsOK
  BY StartAssumption DEF SemsOK
<1>3. ProgramOK
  BY TableAssumption DEF ProgramOK, After, Philosophers
<1>4. MealsLeft
  BY TableAssumption DEF MealsLeft
<1> QED
  BY <1>1, <1>2, <1>3, <1>4 DEF Typed

\* The steps that only a philosopher takes.
LEMMA PhiloTypes ==
  ASSUME CpuOK, SemsOK, ProgramOK, MealsLeft, NEW t \in Philosophers, Philo(t)
  PROVE  CpuOK' /\ SemsOK' /\ ProgramOK'
<1>1. t \in Threads /\ t \in Sems /\ Dp \in Sems
  BY TableAssumption
<1>2. CASE YieldOnce(t)
  <2>1. pc[t] \in DOMAIN After /\ Step(t) /\ Yield(t)
    BY <1>2 DEF YieldOnce, At, After
  <2>2. CpuOK'
    BY <1>1, <2>1, YieldTypes
  <2>3. SemsOK'
    BY <1>2 DEF YieldOnce, sems, SemsOK
  <2>4. pc' \in [Threads -> DOMAIN After \cup {"forks", "yields", "ends", "done"}]
    BY <1>1, <2>1, StepTypes
  <2>5. ProgramOK'
    BY <1>2, <2>4 DEF YieldOnce, ProgramOK
  <2> QED
    BY <2>2, <2>3, <2>5
<1>3. CASE EndRound(t)
  <2>1. CpuOK'
    BY <1>1, <1>3, YieldTypes DEF EndRound
  <2>2. meals[t] \in Nat /\ meals[t] < Rounds /\ Rounds \in Nat
    BY <1>3, TableAssumption DEF EndRound, At, MealsLeft, ProgramOK
  <2>3. meals[t] + 1 \in 0..Rounds
    BY <2>2
  <2>4. meals' \in [Philosophers -> 0..Rounds]
    BY <1>3, <2>3 DEF EndRound, ProgramOK
  <2>5. pc' \in [Threads -> DOMAIN After \cup {"forks", "yields", "ends", "done"}]
    <3>1. "pickupP" \in DOMAIN After
      BY DEF After
    <3> QED
      BY <1>1, <1>3, <3>1 DEF EndRound, ProgramOK
  <2> QED
    BY <1>3, <2>1, <2>4, <2>5 DEF EndRound, sems, SemsOK, ProgramOK
<1>4. CASE AcquireP(t)
  <2>1. CpuOK' /\ SemsOK'
    BY <1>1, <1>4, PTypes DEF AcquireP
  <2>2. pc[t] \in DOMAIN After
    BY <1>4 DEF AcquireP, At, After
  <2> QED
    BY <1>1, <1>4, <2>1, <2>2, StepTypes DEF AcquireP, ProgramOK
<1>5. CASE AcquireOwn(t)
  <2>1. pc[t] \in DOMAIN After /\ Step(t)
    BY <1>5 DEF AcquireOwn, At, After
  <2> QED
    BY <1>1, <1>5, <2>1, StepTypes DEF AcquireOwn, Own, ProgramOK, CpuOK, SemsOK, cpu, sems
<1>6. CASE ReleaseDisown(t)
  <2>1. pc[t] \in DOMAIN After /\ Step(t)
    BY <1>6 DEF ReleaseDisown, At, After
  <2> QED
    BY <1>1, <1>6, <2>1, StepTypes DEF ReleaseDisown, Disown, ProgramOK, CpuOK, SemsOK, sems
<1>7. CASE ReleaseV(t)
  <2>1. CpuOK' /\ SemsOK'
    BY <1>1, <1>7, VTypes DEF ReleaseV
  <2>2. pc[t] \in DOMAIN After /\ Step(t)
    BY <1>7 DEF ReleaseV, At, After
  <2> QED
    BY <1>1, <1>7, <2>1, <2>2, StepTypes DEF ReleaseV, ProgramOK
<1>8. CASE Hungry(t)
  <2>1. [state EXCEPT ![t] = "Hungry"] \in [Philosophers -> {"Thinking", "Hungry", "Eating"}]
    BY DEF ProgramOK
  <2>2. pc[t] \in DOMAIN After /\ Step(t)
    BY <1>8 DEF Hungry, At, After
  <2> QED
    BY <1>1, <1>8, <2>1, <2>2, TestTypes, StepTypes DEF Hungry, ProgramOK
<1>9. CASE WaitSelf(t)
  <2>1. CpuOK' /\ SemsOK'
    BY <1>1, <1>9, PTypes DEF WaitSelf
  <2>2. pc[t] \in DOMAIN After
    BY <1>9 DEF WaitSelf, At, After
  <2> QED
    BY <1>1, <1>9, <2>1, <2>2, StepTypes DEF WaitSelf, ProgramOK
<1>10. CASE Thinks(t)
  <2>1. [state EXCEPT ![t] = "Thinking"] \in [Philosophers -> {"Thinking", "Hungry", "Eating"}]
    BY DEF ProgramOK
  <2>2. pc[t] \in DOMAIN After /\ Step(t)
    BY <1>10 DEF Thinks, At, After
  <2> QED
    BY <1>1, <1>10, <2>1, <2>2, Seats, TestTypes, StepTypes DEF Thinks, ProgramOK
<1>11. CASE Tests(t)
  <2>1. pc[t] \in DOMAIN After /\ Step(t)
    BY <1>11 DEF Tests, At, After
  <2> QED
    BY <1>1, <1>11, <2>1, Seats, TestTypes, StepTypes DEF Tests, ProgramOK
<1> QED
  BY <1>2, <1>3, <1>4, <1>5, <1>6, <1>7, <1>8, <1>9, <1>10, <1>11 DEF Philo

LEMMA NextTypes == Typed /\ [Next]_vars => Typed'
<1> SUFFICES ASSUME CpuOK, SemsOK, ProgramOK, MealsLeft, [Next]_vars
             PROVE  CpuOK' /\ SemsOK' /\ ProgramOK'
  BY MealsNext DEF Typed
<1>1. CASE ForkPhilosopher
  <2>1. N \in Nat /\ forked \in 0..N /\ forked < N
    BY <1>1, TableAssumption DEF ForkPhilosopher, ProgramOK
  <2>2. forked \in Threads /\ forked' \in 0..N
    BY <1>1, <2>1, TableAssumption DEF ForkPhilosopher, Philosophers
  <2>3. CpuOK'
    BY <1>1, <2>2 DEF ForkPhilosopher, Fork, CpuOK
  <2> QED
    BY <1>1, <2>2, <2>3 DEF ForkPhilosopher, SemsOK, ProgramOK, sems
<1>2. ASSUME NEW t \in Threads, End(t)
      PROVE  CpuOK' /\ SemsOK' /\ ProgramOK'
  <2>1. CpuOK'
    BY <1>2, SleepTypes DEF End, Finish
  <2> QED
    BY <1>2, <2>1 DEF End, SemsOK, ProgramOK, sems
<1>3. ASSUME NEW t \in Threads, Slice(t)
      PROVE  CpuOK' /\ SemsOK' /\ ProgramOK'
  <2>1. CpuOK'
    BY <1>3, YieldTypes DEF Slice, Preempt
  <2> QED
    BY <1>3, <2>1 DEF Slice, Preempt, SemsOK, ProgramOK, sems
<1>4. ASSUME NEW t \in Philosophers, Philo(t)
      PROVE  CpuOK' /\ SemsOK' /\ ProgramOK'
  BY <1>4, PhiloTypes
<1>5. CASE UNCHANGED vars
  BY <1>5 DEF vars, synch, cpu, sems, CpuOK, SemsOK, ProgramOK
<1> QED
  BY <1>1, <1>2, <1>3, <1>4, <1>5 DEF Next

\* Every variable keeps its type, for any number of philosophers and meals.
THEOREM DiningTyping == Spec => []TypeOK
<1>1. Typed => TypeOK
  BY DEF Typed, TypeOK, CpuOK, SemsOK, ProgramOK
<1> QED
  BY <1>1, InitTypes, NextTypes, PTL DEF Spec

-----------------------------------------------------------------------------
(* The lock.                                                               *)

Places == {"pickupOwn", "hungry", "pickupDisown", "pickupV",
           "putdownOwn", "thinks", "tests", "putdownDisown", "putdownV"}

\* One philosopher at a time is between P and V, and the semaphore says so.
LockInv ==
  /\ \A t, u \in Philosophers : pc[t] \in Places /\ pc[u] \in Places => t = u
  /\ value[Dp] = IF \E t \in Philosophers : pc[t] \in Places THEN 0 ELSE 1

\* From the assignment of owner to the ASSERT that reads it, the philosopher
\* is the owner.
OwnerInv ==
  \A t \in Philosophers :
    pc[t] \in {"hungry", "pickupDisown", "thinks", "tests", "putdownDisown"} => owner = t

\* What a round of P, a switch and V leave alone.
LEMMA YieldKeeps ==
  ASSUME NEW t, Yield(t)
  PROVE  machine' = machine
BY DEF Yield

LEMMA SleepKeeps ==
  ASSUME NEW carcass, Sleep(carcass), machine # "aborted"
  PROVE  machine' # "aborted"
BY DEF Sleep

LEMMA PKeeps ==
  ASSUME SemsOK, NEW t \in Threads, NEW s \in Sems, P(t, s), machine # "aborted"
  PROVE  /\ machine' # "aborted"
         /\ value' = IF Passes(s) THEN [value EXCEPT ![s] = @ - 1] ELSE value
<1>1. CASE value[s] = 0
  BY <1>1, SleepKeeps DEF P, Passes
<1>2. CASE value[s] # 0
  BY <1>2 DEF P, Passes, cpu
<1> QED
  BY <1>1, <1>2

\* What test(i) does to the semaphores and to state.
LEMMA TestDoes ==
  ASSUME NEW i \in Philosophers, NEW st, Test(i, st)
  PROVE  /\ machine' = machine /\ owner' = owner
         /\ IF MayEat(i, st)
              THEN /\ state' = [st EXCEPT ![i] = "Eating"]
                   /\ value' = [value EXCEPT ![i] = @ + 1]
              ELSE state' = st /\ value' = value
BY DEF Test, V, cpu, sems

LEMMA Names == Dp \in Sems /\ Dp \notin Philosophers /\ Philosophers \subseteq Threads
               /\ Philosophers \subseteq Sems /\ Main \notin Philosophers
BY TableAssumption

\* A philosopher that does not take or free the lock.
LEMMA LockKept ==
  ASSUME Typed, LockInv, NEW t \in Philosophers,
         \A u \in Philosophers : pc'[u] \in Places <=> pc[u] \in Places,
         value'[Dp] = value[Dp]
  PROVE  LockInv'
BY DEF LockInv

LEMMA LockNext ==
  ASSUME Typed, LockInv, machine # "aborted", NEW t \in Philosophers, Philo(t)
  PROVE  LockInv'
<1> USE Names
<1>0. pc \in [Threads -> DOMAIN After \cup {"forks", "yields", "ends", "done"}]
      /\ value \in [Sems -> Nat] /\ SemsOK /\ t \in Threads /\ t \in Sems
  BY DEF Typed, ProgramOK, SemsOK
<1>1. CASE YieldOnce(t) \/ EndRound(t)
  <2>1. \A u \in Philosophers : pc'[u] \in Places <=> pc[u] \in Places
    BY <1>0, <1>1 DEF YieldOnce, EndRound, At, Step, After, Places
  <2>2. value' = value
    BY <1>1 DEF YieldOnce, EndRound, sems
  <2> QED
    BY <2>1, <2>2, LockKept
<1>2. CASE AcquireP(t)
  <2>1. CASE Passes(Dp)
    <3>1. value' = [value EXCEPT ![Dp] = @ - 1]
      BY <1>0, <1>2, <2>1, PKeeps DEF AcquireP
    <3>2. value[Dp] = 1 /\ \A u \in Philosophers : pc[u] \notin Places
      BY <2>1 DEF Passes, LockInv
    <3>3. value'[Dp] = 0
      BY <1>0, <3>1, <3>2
    <3>4. pc' = [pc EXCEPT ![t] = After[@]] /\ pc[t] \in {"pickupP", "putdownP"}
      BY <1>2, <2>1 DEF AcquireP, Step, At
    <3>5. pc'[t] \in Places /\ \A u \in Philosophers \ {t} : pc'[u] = pc[u]
      BY <1>0, <3>4 DEF After, Places
    <3> QED
      BY <3>2, <3>3, <3>5 DEF LockInv
  <2>2. CASE ~Passes(Dp)
    <3>1. value' = value /\ pc' = pc
      BY <1>0, <1>2, <2>2, PKeeps DEF AcquireP
    <3> QED
      BY <3>1, LockKept
  <2> QED
    BY <2>1, <2>2
<1>3. CASE AcquireOwn(t) \/ ReleaseDisown(t)
  <2>1. \A u \in Philosophers : pc'[u] \in Places <=> pc[u] \in Places
    BY <1>0, <1>3 DEF AcquireOwn, ReleaseDisown, At, Step, After, Places
  <2>2. value' = value
    BY <1>3 DEF AcquireOwn, ReleaseDisown, Own, Disown, sems
  <2> QED
    BY <2>1, <2>2, LockKept
<1>4. CASE ReleaseV(t)
  <2>1. pc' = [pc EXCEPT ![t] = After[@]] /\ pc[t] \in {"pickupV", "putdownV"}
    BY <1>4 DEF ReleaseV, Step, At
  <2>2. pc[t] \in Places /\ pc'[t] \notin Places /\ \A u \in Philosophers \ {t} : pc'[u] = pc[u]
    BY <1>0, <2>1 DEF After, Places
  <2>3. value[Dp] = 0 /\ \A u \in Philosophers \ {t} : pc[u] \notin Places
    BY <2>2 DEF LockInv
  <2>4. value'[Dp] = 1
    BY <1>0, <1>4, <2>3 DEF ReleaseV, V
  <2> QED
    BY <2>2, <2>3, <2>4 DEF LockInv
<1>5. CASE Hungry(t) \/ Thinks(t) \/ Tests(t)
  <2>1. \A u \in Philosophers : pc'[u] \in Places <=> pc[u] \in Places
    BY <1>0, <1>5 DEF Hungry, Thinks, Tests, At, Step, After, Places
  <2>2. PICK i \in Philosophers : \E st : Test(i, st)
    BY <1>5, Seats DEF Hungry, Thinks, Tests
  <2>3. value'[Dp] = value[Dp]
    BY <1>0, <2>2, TestDoes
  <2> QED
    BY <2>1, <2>3, LockKept
<1>6. CASE WaitSelf(t)
  <2>1. \A u \in Philosophers : pc'[u] \in Places <=> pc[u] \in Places
    BY <1>0, <1>6 DEF WaitSelf, At, Step, After, Places
  <2>2. value'[Dp] = value[Dp]
    BY <1>0, <1>6, PKeeps DEF WaitSelf
  <2> QED
    BY <2>1, <2>2, LockKept
<1> QED
  BY <1>1, <1>2, <1>3, <1>4, <1>5, <1>6 DEF Philo

\* The owner is right, and so Release never fails its ASSERT.
LEMMA OwnerNext ==
  ASSUME Typed, LockInv, OwnerInv, machine # "aborted", NEW t \in Philosophers, Philo(t)
  PROVE  OwnerInv' /\ machine' # "aborted"
<1> USE Names
<1>0. /\ pc \in [Threads -> DOMAIN After \cup {"forks", "yields", "ends", "done"}]
      /\ SemsOK /\ t \in Threads /\ t \in Sems
  BY DEF Typed, ProgramOK
<1>1. CASE YieldOnce(t) \/ EndRound(t)
  <2>1. machine' = machine /\ owner' = owner
    BY <1>1, YieldKeeps DEF YieldOnce, EndRound
  <2>2. \A u \in Philosophers : pc'[u] \in {"hungry", "pickupDisown", "thinks", "tests", "putdownDisown"} => pc'[u] = pc[u]
    BY <1>0, <1>1 DEF YieldOnce, EndRound, At, Step, After
  <2> QED
    BY <2>1, <2>2 DEF OwnerInv
<1>2. CASE AcquireP(t) \/ WaitSelf(t)
  <2>1. machine' # "aborted" /\ owner' = owner
    BY <1>0, <1>2, PKeeps DEF AcquireP, WaitSelf
  <2>2. \A u \in Philosophers : pc'[u] \in {"hungry", "pickupDisown", "thinks", "tests", "putdownDisown"} => pc'[u] = pc[u]
    BY <1>0, <1>2 DEF AcquireP, WaitSelf, At, Step, After
  <2> QED
    BY <2>1, <2>2 DEF OwnerInv
<1>3. CASE AcquireOwn(t)
  <2>1. owner' = t /\ machine' = machine
    BY <1>3 DEF AcquireOwn, Own, cpu
  <2>2. pc[t] \in Places /\ \A u \in Philosophers \ {t} : pc'[u] = pc[u]
    BY <1>0, <1>3 DEF AcquireOwn, At, Step, Places
  <2>3. \A u \in Philosophers \ {t} : pc[u] \notin Places
    BY <2>2 DEF LockInv
  <2> QED
    BY <2>1, <2>2, <2>3 DEF OwnerInv, Places
<1>4. CASE ReleaseDisown(t)
  <2>1. pc[t] \in {"pickupDisown", "putdownDisown"} /\ pc' = [pc EXCEPT ![t] = After[@]]
    BY <1>4 DEF ReleaseDisown, At, Step
  <2>2. owner = t
    BY <2>1 DEF OwnerInv
  <2>3. machine' = machine
    BY <1>4, <2>2 DEF ReleaseDisown, Disown
  <2>4. pc'[t] \in {"pickupV", "putdownV"} /\ \A u \in Philosophers \ {t} : pc'[u] = pc[u]
    BY <1>0, <2>1 DEF After
  <2>5. \A u \in Philosophers \ {t} : pc[u] \notin Places
    BY <2>1 DEF LockInv, Places
  <2> QED
    BY <2>3, <2>4, <2>5 DEF OwnerInv, Places
<1>5. CASE ReleaseV(t)
  <2>1. machine' = machine /\ owner' = owner
    BY <1>5 DEF ReleaseV, V
  <2>2. \A u \in Philosophers : pc'[u] \in {"hungry", "pickupDisown", "thinks", "tests", "putdownDisown"} => pc'[u] = pc[u]
    BY <1>0, <1>5 DEF ReleaseV, At, Step, After
  <2> QED
    BY <2>1, <2>2 DEF OwnerInv
<1>6. CASE Hungry(t) \/ Thinks(t) \/ Tests(t)
  <2>1. PICK i \in Philosophers : \E st : Test(i, st)
    BY <1>6, Seats DEF Hungry, Thinks, Tests
  <2>2. machine' = machine /\ owner' = owner
    BY <2>1, TestDoes
  <2>3. pc[t] \in {"hungry", "thinks", "tests"} /\ \A u \in Philosophers \ {t} : pc'[u] = pc[u]
    BY <1>0, <1>6 DEF Hungry, Thinks, Tests, At, Step
  <2> QED
    BY <2>2, <2>3 DEF OwnerInv
<1> QED
  BY <1>1, <1>2, <1>3, <1>4, <1>5, <1>6 DEF Philo

-----------------------------------------------------------------------------
(* Meals.                                                                  *)

\* What the place of a philosopher says of its state.
StateInv ==
  \A i \in Philosophers :
    /\ pc[i] \in {"starts", "pickupP", "pickupOwn", "hungry", "tests", "putdownDisown",
                  "putdownV", "yields", "ends", "done"} => state[i] = "Thinking"
    /\ pc[i] \in {"eats", "putdownP", "putdownOwn", "thinks"} => state[i] = "Eating"
    /\ pc[i] \in {"pickupDisown", "pickupV", "self"} => state[i] \in {"Hungry", "Eating"}
    /\ pc[i] # "forks"

MealInv == StateInv /\ OnePermit /\ NeighboursApart

Waits == {"pickupDisown", "pickupV", "self"}

\* A step that moves no philosopher into or out of Waits, or to another
\* state, and touches no permit.
LEMMA MealKept ==
  ASSUME Typed, MealInv, NEW t \in Philosophers,
         \A u \in Philosophers \ {t} : pc'[u] = pc[u],
         StateInv => StateInv', state' = state, pc'[t] \in Waits <=> pc[t] \in Waits,
         \A i \in Philosophers : value'[i] = value[i]
  PROVE  MealInv'
BY DEF MealInv, OnePermit, NeighboursApart, Waits

\* A test that is made with st, a state of the philosophers that keeps
\* neighbours apart, lets only a hungry philosopher eat, who gets a permit.
LEMMA MealTested ==
  ASSUME Typed, NEW i \in Philosophers,
         NEW st \in [Philosophers -> {"Thinking", "Hungry", "Eating"}], Test(i, st),
         \A j \in Philosophers : st[j] = "Eating" => st[Right(j)] # "Eating",
         \A j \in Philosophers :
           value[j] = IF st[j] = "Eating" /\ pc'[j] \in Waits THEN 1 ELSE 0,
         st[i] = "Hungry" => pc'[i] \in Waits
  PROVE  /\ OnePermit' /\ NeighboursApart'
         /\ \A j \in Philosophers : state'[j] = st[j] \/ (st[j] = "Hungry" /\ state'[j] = "Eating")
<1> USE Names, TestDoes
<1>0. value \in [Sems -> Nat] /\ i \in Sems
  BY DEF Typed, SemsOK
<1>1. CASE MayEat(i, st)
  <2>1. st[Left(i)] # "Eating" /\ st[i] = "Hungry" /\ st[Right(i)] # "Eating"
    BY <1>1 DEF MayEat
  <2>2. state' = [st EXCEPT ![i] = "Eating"] /\ value' = [value EXCEPT ![i] = @ + 1]
    BY <1>1
  <2>3. NeighboursApart'
    <3> SUFFICES ASSUME NEW j \in Philosophers, state'[j] = "Eating"
                 PROVE  state'[Right(j)] # "Eating"
      BY DEF NeighboursApart
    <3>1. CASE j = i
      BY <2>1, <2>2, <3>1, Seats
    <3>2. CASE Right(j) = i
      BY <2>1, <2>2, <3>2, Seats
    <3>3. CASE j # i /\ Right(j) # i
      BY <2>2, <3>3, Seats
    <3> QED
      BY <3>1, <3>2, <3>3
  <2>4. OnePermit'
    <3>1. value'[i] = 1 /\ state'[i] = "Eating" /\ pc'[i] \in Waits
      BY <1>0, <2>1, <2>2
    <3>2. \A j \in Philosophers \ {i} : value'[j] = value[j] /\ state'[j] = st[j]
      BY <1>0, <2>2
    <3> QED
      BY <3>1, <3>2 DEF OnePermit, Waits
  <2> QED
    BY <2>1, <2>2, <2>3, <2>4
<1>2. CASE ~MayEat(i, st)
  BY <1>2 DEF OnePermit, NeighboursApart, Waits
<1> QED
  BY <1>1, <1>2

\* A hungry philosopher is in pickup.
LEMMA HungryWaits ==
  ASSUME Typed, StateInv, NEW i \in Philosophers, state[i] = "Hungry"
  PROVE  pc[i] \in Waits
<1>1. pc[i] \in DOMAIN After \cup {"forks", "yields", "ends", "done"}
  BY Names DEF Typed, ProgramOK
<1> QED
  BY <1>1 DEF StateInv, Waits, After

LEMMA MealNext ==
  ASSUME Typed, MealInv, machine # "aborted", NEW t \in Philosophers, Philo(t)
  PROVE  MealInv'
<1> USE Names
<1>0. /\ pc \in [Threads -> DOMAIN After \cup {"forks", "yields", "ends", "done"}]
      /\ state \in [Philosophers -> {"Thinking", "Hungry", "Eating"}]
      /\ value \in [Sems -> Nat] /\ SemsOK /\ t \in Threads /\ t \in Sems
  BY DEF Typed, ProgramOK, SemsOK
<1>1. CASE YieldOnce(t) \/ EndRound(t)
  <2>1. \A u \in Philosophers \ {t} : pc'[u] = pc[u]
    BY <1>0, <1>1 DEF YieldOnce, EndRound, Step
  <2>2. state' = state /\ value' = value
    BY <1>1 DEF YieldOnce, EndRound, sems
  <2>3. \/ pc[t] = "starts" /\ pc'[t] = "pickupP"
        \/ pc[t] = "eats" /\ pc'[t] = "putdownP"
        \/ pc[t] = "yields" /\ pc'[t] \in {"pickupP", "ends"}
    BY <1>0, <1>1 DEF YieldOnce, EndRound, At, Step, After
  <2>4. (StateInv => StateInv') /\ (pc'[t] \in Waits <=> pc[t] \in Waits)
    BY <2>1, <2>2, <2>3 DEF StateInv, Waits
  <2> QED
    BY <2>1, <2>2, <2>4, MealKept
<1>2. CASE AcquireP(t) \/ AcquireOwn(t) \/ ReleaseDisown(t) \/ ReleaseV(t)
  <2>1. \A u \in Philosophers \ {t} : pc'[u] = pc[u]
    BY <1>0, <1>2 DEF AcquireP, AcquireOwn, ReleaseDisown, ReleaseV, Step
  <2>2. state' = state
    BY <1>2 DEF AcquireP, AcquireOwn, ReleaseDisown, ReleaseV
  <2>3. \A i \in Philosophers : value'[i] = value[i]
    <3>1. CASE AcquireP(t)
      BY <1>0, <3>1, PKeeps DEF AcquireP
    <3>2. CASE ~AcquireP(t)
      BY <1>0, <1>2, <3>2 DEF AcquireOwn, ReleaseDisown, ReleaseV, Own, Disown, V, sems
    <3> QED
      BY <3>1, <3>2
  <2>4. \/ pc'[t] = pc[t]
        \/ pc[t] = "pickupP" /\ pc'[t] = "pickupOwn"
        \/ pc[t] = "pickupOwn" /\ pc'[t] = "hungry"
        \/ pc[t] = "pickupDisown" /\ pc'[t] = "pickupV"
        \/ pc[t] = "pickupV" /\ pc'[t] = "self"
        \/ pc[t] = "putdownP" /\ pc'[t] = "putdownOwn"
        \/ pc[t] = "putdownOwn" /\ pc'[t] = "thinks"
        \/ pc[t] = "putdownDisown" /\ pc'[t] = "putdownV"
        \/ pc[t] = "putdownV" /\ pc'[t] = "yields"
    BY <1>0, <1>2 DEF AcquireP, AcquireOwn, ReleaseDisown, ReleaseV, At, Step, After
  <2>5. (StateInv => StateInv') /\ (pc'[t] \in Waits <=> pc[t] \in Waits)
    BY <2>1, <2>2, <2>4 DEF StateInv, Waits
  <2> QED
    BY <2>1, <2>2, <2>3, <2>5, MealKept
<1>3. CASE Hungry(t)
  <2> DEFINE st == [state EXCEPT ![t] = "Hungry"]
  <2>1. pc[t] = "hungry" /\ pc'[t] = "pickupDisown" /\ \A u \in Philosophers \ {t} : pc'[u] = pc[u]
    BY <1>0, <1>3 DEF Hungry, At, Step, After
  <2>2. state[t] = "Thinking" /\ st[t] = "Hungry"
    BY <1>0, <2>1 DEF MealInv, StateInv
  <2>3. st \in [Philosophers -> {"Thinking", "Hungry", "Eating"}] /\ Test(t, st)
    BY <1>0, <1>3 DEF Hungry
  <2>4. \A j \in Philosophers \ {t} : st[j] = state[j]
    BY <1>0
  <2> HIDE DEF st
  <2>5. \A j \in Philosophers : st[j] = "Eating" => st[Right(j)] # "Eating"
    BY <2>2, <2>4, Seats DEF MealInv, NeighboursApart
  <2>6. \A j \in Philosophers :
          value[j] = IF st[j] = "Eating" /\ pc'[j] \in Waits THEN 1 ELSE 0
    BY <2>1, <2>2, <2>4 DEF MealInv, OnePermit, Waits
  <2>7. /\ OnePermit' /\ NeighboursApart'
        /\ \A j \in Philosophers : state'[j] = st[j] \/ (st[j] = "Hungry" /\ state'[j] = "Eating")
    BY <2>1, <2>3, <2>5, <2>6, MealTested DEF Waits
  <2>8. \A j \in Philosophers \ {t} : state[j] = "Hungry" => pc[j] \in Waits
    BY HungryWaits DEF MealInv
  <2>9. StateInv'
    BY <2>1, <2>2, <2>4, <2>7, <2>8 DEF MealInv, StateInv, Waits
  <2> QED
    BY <2>7, <2>9 DEF MealInv
<1>4. CASE WaitSelf(t)
  <2>1. pc[t] = "self" /\ state' = state /\ \A u \in Philosophers \ {t} : pc'[u] = pc[u]
    BY <1>0, <1>4 DEF WaitSelf, At, Step
  <2>2. CASE Passes(t)
    <3>1. value' = [value EXCEPT ![t] = @ - 1] /\ pc'[t] = "eats"
      BY <1>0, <1>4, <2>1, <2>2, PKeeps DEF WaitSelf, Step, After
    <3>2. value[t] = 1 /\ state[t] = "Eating"
      BY <2>2 DEF Passes, MealInv, OnePermit
    <3>3. StateInv'
      BY <2>1, <3>1, <3>2 DEF MealInv, StateInv
    <3>4. value'[t] = 0 /\ \A i \in Philosophers \ {t} : value'[i] = value[i]
      BY <1>0, <3>1, <3>2
    <3>5. OnePermit'
      BY <2>1, <3>1, <3>4 DEF MealInv, OnePermit
    <3> QED
      BY <2>1, <3>3, <3>5 DEF MealInv, NeighboursApart
  <2>3. CASE ~Passes(t)
    <3>1. value' = value /\ pc' = pc
      BY <1>0, <1>4, <2>3, PKeeps DEF WaitSelf
    <3> QED
      BY <2>1, <3>1, MealKept DEF StateInv
  <2> QED
    BY <2>2, <2>3
<1>5. CASE Thinks(t)
  <2> DEFINE st == [state EXCEPT ![t] = "Thinking"]
             i == Left(t)
  <2>1. pc[t] = "thinks" /\ pc'[t] = "tests" /\ \A u \in Philosophers \ {t} : pc'[u] = pc[u]
    BY <1>0, <1>5 DEF Thinks, At, Step, After
  <2>2. state[t] = "Eating" /\ st[t] = "Thinking"
    BY <1>0, <2>1 DEF MealInv, StateInv
  <2>3. st \in [Philosophers -> {"Thinking", "Hungry", "Eating"}] /\ Test(i, st)
    BY <1>0, <1>5 DEF Thinks
  <2>4. i \in Philosophers /\ i # t
    BY Seats
  <2>5. \A j \in Philosophers \ {t} : st[j] = state[j]
    BY <1>0
  <2> HIDE DEF st, i
  <2>6. \A j \in Philosophers : st[j] = "Eating" => st[Right(j)] # "Eating"
    BY <2>2, <2>5, Seats DEF MealInv, NeighboursApart
  <2>7. \A j \in Philosophers :
          value[j] = IF st[j] = "Eating" /\ pc'[j] \in Waits THEN 1 ELSE 0
    BY <2>1, <2>2, <2>5 DEF MealInv, OnePermit, Waits
  <2>8. \A j \in Philosophers \ {t} : state[j] = "Hungry" => pc'[j] \in Waits
    BY <2>1, HungryWaits DEF MealInv
  <2>9. /\ OnePermit' /\ NeighboursApart'
        /\ \A j \in Philosophers : state'[j] = st[j] \/ (st[j] = "Hungry" /\ state'[j] = "Eating")
    BY <2>3, <2>4, <2>5, <2>6, <2>7, <2>8, MealTested
  <2>10. StateInv'
    BY <2>1, <2>2, <2>5, <2>8, <2>9 DEF MealInv, StateInv, Waits
  <2> QED
    BY <2>9, <2>10 DEF MealInv
<1>6. CASE Tests(t)
  <2> DEFINE i == Right(t)
  <2>1. pc[t] = "tests" /\ pc'[t] = "putdownDisown" /\ \A u \in Philosophers \ {t} : pc'[u] = pc[u]
    BY <1>0, <1>6 DEF Tests, At, Step, After
  <2>2. state[t] = "Thinking"
    BY <2>1 DEF MealInv, StateInv
  <2>3. Test(i, state)
    BY <1>6 DEF Tests
  <2>4. i \in Philosophers /\ i # t
    BY Seats
  <2> HIDE DEF i
  <2>5. \A j \in Philosophers : state[j] = "Eating" => state[Right(j)] # "Eating"
    BY DEF MealInv, NeighboursApart
  <2>6. \A j \in Philosophers :
          value[j] = IF state[j] = "Eating" /\ pc'[j] \in Waits THEN 1 ELSE 0
    BY <2>1, <2>2 DEF MealInv, OnePermit, Waits
  <2>7. \A j \in Philosophers : state[j] = "Hungry" => pc'[j] \in Waits
    BY <2>1, <2>2, HungryWaits DEF MealInv
  <2>8. /\ OnePermit' /\ NeighboursApart'
        /\ \A j \in Philosophers :
             state'[j] = state[j] \/ (state[j] = "Hungry" /\ state'[j] = "Eating")
    BY <1>0, <2>3, <2>4, <2>5, <2>6, <2>7, MealTested
  <2>9. StateInv'
    BY <2>1, <2>2, <2>7, <2>8 DEF MealInv, StateInv, Waits
  <2> QED
    BY <2>8, <2>9 DEF MealInv
<1> QED
  BY <1>1, <1>2, <1>3, <1>4, <1>5, <1>6 DEF Philo

-----------------------------------------------------------------------------
(* The invariant, and what follows from it.                                *)

IInv == Typed /\ LockInv /\ OwnerInv /\ MealInv /\ NeverAborts

LEMMA InitInv == Init => IInv
<1> SUFFICES ASSUME Init PROVE IInv
  OBVIOUS
<1> USE Names DEF Init, SynchInit
<1>1. \A t \in Philosophers : t \in Threads /\ pc[t] = "starts" /\ state[t] = "Thinking"
  OBVIOUS
<1>2. value[Dp] = 1 /\ \A t \in Philosophers : value[t] = 0
  BY TableAssumption
<1>3. LockInv /\ OwnerInv
  BY <1>1, <1>2 DEF LockInv, OwnerInv, Places
<1>4. MealInv
  BY <1>1, <1>2 DEF MealInv, StateInv, OnePermit, NeighboursApart
<1> QED
  BY <1>3, <1>4, InitTypes DEF IInv, NeverAborts

\* Steps of nobody at the table: the parts of the invariant see only what a
\* philosopher does.
LEMMA InvKept ==
  ASSUME IInv, Typed', \A t \in Philosophers : pc'[t] = pc[t] \/ (pc[t] = "ends" /\ pc'[t] = "done"),
         UNCHANGED <<value, state, owner>>, machine' # "aborted"
  PROVE  IInv'
<1>1. LockInv' /\ OwnerInv'
  <2>1. \A t \in Philosophers : pc'[t] \in Places <=> pc[t] \in Places
    BY DEF Places
  <2> QED
    BY <2>1, Names DEF IInv, LockInv, OwnerInv
<1>2. MealInv'
  BY Names DEF IInv, MealInv, StateInv, OnePermit, NeighboursApart
<1> QED
  BY <1>1, <1>2 DEF IInv, NeverAborts

LEMMA NextInv == IInv /\ [Next]_vars => IInv'
<1> SUFFICES ASSUME IInv, [Next]_vars PROVE IInv'
  OBVIOUS
<1>0. Typed' /\ machine # "aborted"
  BY NextTypes DEF IInv, NeverAborts
<1>1. ASSUME NEW t \in Philosophers, Philo(t)
      PROVE  IInv'
  BY <1>0, <1>1, LockNext, OwnerNext, MealNext DEF IInv, NeverAborts
<1>2. CASE ForkPhilosopher
  BY <1>0, <1>2, InvKept DEF ForkPhilosopher, Fork, sems
<1>3. ASSUME NEW t \in Threads, End(t)
      PROVE  IInv'
  <2>1. machine' # "aborted"
    BY <1>0, <1>3, SleepKeeps DEF End, Finish
  <2>2. pc' = [pc EXCEPT ![t] = "done"] /\ (t = Main \/ pc[t] = "ends")
    BY <1>3 DEF End, At
  <2>3. \A u \in Philosophers : pc'[u] = pc[u] \/ (pc[u] = "ends" /\ pc'[u] = "done")
    BY <2>2, Names DEF IInv, Typed, ProgramOK
  <2> QED
    BY <1>0, <1>3, <2>1, <2>3, InvKept DEF End, sems
<1>4. ASSUME NEW t \in Threads, Slice(t)
      PROVE  IInv'
  <2>1. machine' = machine
    BY <1>4, YieldKeeps DEF Slice, Preempt
  <2> QED
    BY <1>0, <1>4, <2>1, InvKept DEF Slice, Preempt, sems
<1>5. CASE UNCHANGED vars
  BY <1>0, <1>5, InvKept DEF vars, synch, sems, cpu
<1> QED
  BY <1>1, <1>2, <1>3, <1>4, <1>5 DEF Next

LEMMA Invariant == Spec => []IInv
BY InitInv, NextInv, PTL DEF Spec

\* At any table, philosophers that sit side by side never eat together.
THEOREM DiningApart == Spec => []NeighboursApart
<1>1. IInv => NeighboursApart
  BY DEF IInv, MealInv
<1> QED
  BY <1>1, Invariant, PTL

\* No wakeup is lost and none is given twice.
THEOREM DiningPermits == Spec => []OnePermit
<1>1. IInv => OnePermit
  BY DEF IInv, MealInv
<1> QED
  BY <1>1, Invariant, PTL

\* No ASSERT of the lock fails.
THEOREM DiningNeverAborts == Spec => []NeverAborts
<1>1. IInv => NeverAborts
  BY DEF IInv
<1> QED
  BY <1>1, Invariant, PTL

\* The Lock of synch.cc, with P, the field owner and V in separate steps,
\* implements the atomic lock of synch.h.
LEMMA LockStep == IInv /\ [Next]_vars => [Lock!Next]_Critical
<1> SUFFICES ASSUME IInv, [Next]_vars, Critical' # Critical
             PROVE  \E t \in Threads : Lock!Acquire(t) \/ Lock!Release(t)
  BY DEF Lock!Next
<1> USE Names
<1>0. /\ pc \in [Threads -> DOMAIN After \cup {"forks", "yields", "ends", "done"}]
      /\ Critical = {u \in Philosophers : pc[u] \in Places}
      /\ Critical' = {u \in Philosophers : pc'[u] \in Places}
  BY DEF IInv, Typed, ProgramOK, Critical, Places
<1>1. PICK t \in Philosophers : Philo(t)
  <2>1. ASSUME NEW t \in Threads, End(t) PROVE FALSE
    <3>1. \A u \in Philosophers : pc'[u] = pc[u] \/ (pc[u] = "ends" /\ pc'[u] = "done")
      BY <1>0, <2>1 DEF End, At
    <3> QED
      BY <1>0, <3>1 DEF Places
  <2>2. ASSUME UNCHANGED pc PROVE FALSE
    BY <1>0, <2>2
  <2> QED
    BY <2>1, <2>2 DEF Next, ForkPhilosopher, Slice, vars
<1>2. t \in Threads /\ \A u \in Philosophers \ {t} : pc'[u] = pc[u]
  BY <1>0, <1>1 DEF Philo, YieldOnce, EndRound, AcquireP, AcquireOwn, ReleaseDisown,
                    ReleaseV, Hungry, WaitSelf, Thinks, Tests, Step
<1>3. CASE pc[t] \in Places
  <2>1. pc'[t] \notin Places /\ Critical = {t}
    BY <1>0, <1>2, <1>3 DEF IInv, LockInv
  <2>2. Critical' = {}
    BY <1>0, <1>2, <2>1
  <2> QED
    BY <1>2, <2>1, <2>2 DEF Lock!Release
<1>4. CASE pc[t] \notin Places
  <2>1. pc'[t] \in Places
    BY <1>0, <1>2, <1>4
  <2>2. AcquireP(t) /\ Passes(Dp)
    BY <1>0, <1>1, <1>4, <2>1 DEF Philo, YieldOnce, EndRound, AcquireP, AcquireOwn,
       ReleaseDisown, ReleaseV, Hungry, WaitSelf, Thinks, Tests, At, Step, After, Places
  <2>3. Critical = {}
    BY <1>0, <2>2 DEF IInv, LockInv, Passes
  <2>4. Critical' = {t}
    BY <1>0, <1>2, <2>1, <2>3
  <2> QED
    BY <1>2, <2>3, <2>4 DEF Lock!Acquire
<1> QED
  BY <1>3, <1>4

THEOREM DiningLock == Spec => LockRefined
<1>1. Init => Lock!Init
  BY Names DEF Init, Lock!Init, Critical
<1> QED
  BY <1>1, LockStep, Invariant, PTL DEF Spec, LockRefined, Lock!Spec

-----------------------------------------------------------------------------
(* Where each thread is.                                                   *)

\* The threads on a list, and that none is on it twice.
Listed(l) == {l[i] : i \in DOMAIN l}
Once(l) == \A i, j \in DOMAIN l : l[i] = l[j] => i = j

LEMMA AppendListed ==
  ASSUME NEW l \in Seq(Threads), NEW t \in Threads
  PROVE  /\ Listed(Append(l, t)) = Listed(l) \cup {t}
         /\ Once(l) /\ t \notin Listed(l) => Once(Append(l, t))
<1> DEFINE m == Append(l, t)
<1>1. DOMAIN l = 1..Len(l) /\ DOMAIN m = 1..(Len(l) + 1) /\ Len(l) \in Nat
  OBVIOUS
<1>2. m[Len(l) + 1] = t /\ \A i \in DOMAIN l : m[i] = l[i]
  OBVIOUS
<1> HIDE DEF m
<1>3. \A i \in DOMAIN m : i \in DOMAIN l \/ i = Len(l) + 1
  BY <1>1
<1>4. DOMAIN l \subseteq DOMAIN m /\ Len(l) + 1 \in DOMAIN m
  BY <1>1
<1>5. Listed(m) = Listed(l) \cup {t}
  BY <1>2, <1>3, <1>4 DEF Listed
<1>6. Once(l) /\ t \notin Listed(l) => Once(m)
  BY <1>2, <1>3 DEF Once, Listed
<1> QED
  BY <1>5, <1>6 DEF m

LEMMA TailListed ==
  ASSUME NEW l \in Seq(Threads), l # <<>>, Once(l)
  PROVE  /\ Head(l) \in Threads /\ Tail(l) \in Seq(Threads)
         /\ Head(l) \in Listed(l)
         /\ Listed(Tail(l)) = Listed(l) \ {Head(l)}
         /\ Once(Tail(l))
<1> DEFINE m == Tail(l)
<1>1. /\ DOMAIN l = 1..Len(l) /\ DOMAIN m = 1..(Len(l) - 1)
      /\ Len(l) \in Nat /\ Len(l) > 0
  OBVIOUS
<1>2. Head(l) = l[1] /\ \A i \in DOMAIN m : m[i] = l[i + 1]
  OBVIOUS
<1>3. Head(l) \in Threads /\ m \in Seq(Threads)
  OBVIOUS
<1> HIDE DEF m
<1>4. 1 \in DOMAIN l /\ \A i \in DOMAIN m : i + 1 \in DOMAIN l /\ i + 1 # 1
  BY <1>1
<1>5. \A i \in DOMAIN l : i = 1 \/ (i - 1 \in DOMAIN m /\ m[i - 1] = l[i])
  BY <1>1, <1>2
<1>6. Head(l) \in Listed(l)
  BY <1>2, <1>4 DEF Listed
<1>7. ASSUME NEW u \in Listed(m) PROVE u \in Listed(l) /\ u # Head(l)
  <2>1. PICK i \in DOMAIN m : u = m[i]
    BY DEF Listed
  <2> QED
    BY <1>2, <1>4, <2>1 DEF Once, Listed
<1>8. ASSUME NEW u \in Listed(l), u # Head(l) PROVE u \in Listed(m)
  <2>1. PICK i \in DOMAIN l : u = l[i]
    BY DEF Listed
  <2> QED
    BY <1>2, <1>5, <1>8, <2>1 DEF Listed
<1>9. Once(m)
  <2> SUFFICES ASSUME NEW i \in DOMAIN m, NEW j \in DOMAIN m, m[i] = m[j] PROVE i = j
    BY DEF Once
  <2>1. i + 1 = j + 1
    BY <1>2, <1>4 DEF Once
  <2> QED
    BY <1>1, <2>1
<1>10. Listed(m) = Listed(l) \ {Head(l)}
  BY <1>7, <1>8
<1> QED
  BY <1>3, <1>6, <1>9, <1>10 DEF m

LEMMA EmptyListed == Listed(<<>>) = {} /\ Once(<<>>)
BY DEF Listed, Once

LEMMA NoneListed ==
  ASSUME NEW l \in Seq(Threads)
  PROVE  Listed(l) = {} <=> l = <<>>
<1>1. CASE l = <<>>
  BY <1>1, EmptyListed
<1>2. CASE l # <<>>
  <2>1. 1 \in DOMAIN l
    BY <1>2
  <2> QED
    BY <1>2, <2>1 DEF Listed
<1> QED
  BY <1>1, <1>2

\* How often a thread is on a list that has no thread twice.
LEMMA TimesListed ==
  ASSUME NEW l \in Seq(Threads), NEW t \in Threads, Once(l)
  PROVE  Times(t, l) = IF t \in Listed(l) THEN 1 ELSE 0
<1> DEFINE S == {i \in DOMAIN l : l[i] = t}
<1>1. CASE t \in Listed(l)
  <2>1. PICK i \in DOMAIN l : l[i] = t
    BY <1>1 DEF Listed
  <2>2. S = {i}
    BY <2>1 DEF Once
  <2> QED
    BY <1>1, <2>2, FS_Singleton DEF Times
<1>2. CASE t \notin Listed(l)
  <2>1. S = {}
    BY <1>2 DEF Listed
  <2> QED
    BY <1>2, <2>1, FS_EmptySet DEF Times
<1> QED
  BY <1>1, <1>2

\* The threads that have the processor or will get it.
Up == Listed(ready) \cup IF machine = "runs" THEN {current} ELSE {}

UpOnce ==
  /\ Once(ready)
  /\ machine = "runs" => current \notin Listed(ready)
  /\ machine = "halted" => ready = <<>>

\* What a switch does to them.
LEMMA YieldMoves ==
  ASSUME CpuOK, UpOnce, NEW t \in Threads, Running(t), Yield(t)
  PROVE  UpOnce' /\ Up' = Up
<1>1. CASE ready = <<>>
  BY <1>1 DEF Yield, UpOnce, Up
<1>2. CASE ready # <<>>
  <2> DEFINE next == Head(ready)
             rest == Tail(ready)
  <2>1. current' = next /\ ready' = Append(rest, t) /\ machine' = machine
    BY <1>2 DEF Yield, Run
  <2>2. /\ next \in Threads /\ rest \in Seq(Threads) /\ next \in Listed(ready)
        /\ Listed(rest) = Listed(ready) \ {next} /\ Once(rest)
    BY <1>2, TailListed DEF CpuOK, UpOnce
  <2>3. t \notin Listed(ready) /\ t = current /\ machine = "runs"
    BY DEF Running, UpOnce
  <2> HIDE DEF next, rest
  <2>4. Listed(ready') = Listed(rest) \cup {t} /\ Once(ready')
    BY <2>1, <2>2, <2>3, AppendListed
  <2> QED
    BY <2>1, <2>2, <2>3, <2>4 DEF UpOnce, Up
<1> QED
  BY <1>1, <1>2

LEMMA SleepMoves ==
  ASSUME CpuOK, UpOnce, NEW t \in Threads, Running(t),
         NEW carcass \in Threads \cup {NoThread}, Sleep(carcass)
  PROVE  UpOnce' /\ Up' = Up \ {t} /\ t \in Up
<1>0. t \notin Listed(ready) /\ t = current /\ machine = "runs"
  BY DEF Running, UpOnce
<1>1. CASE ready = <<>>
  BY <1>0, <1>1, EmptyListed DEF Sleep, UpOnce, Up
<1>2. CASE ready # <<>>
  <2> DEFINE next == Head(ready)
             rest == Tail(ready)
  <2>1. current' = next /\ ready' = rest /\ machine' = machine
    BY <1>2 DEF Sleep, Run
  <2>2. /\ next \in Threads /\ rest \in Seq(Threads) /\ next \in Listed(ready)
        /\ Listed(rest) = Listed(ready) \ {next} /\ Once(rest)
    BY <1>2, TailListed DEF CpuOK, UpOnce
  <2> HIDE DEF next, rest
  <2> QED
    BY <1>0, <2>1, <2>2 DEF UpOnce, Up
<1> QED
  BY <1>1, <1>2

-----------------------------------------------------------------------------
(* The queues of the semaphores, and the invariant.                        *)

\* A thread that ThreadTest has forked, or Main, and that has not ended.
Live(t) == pc[t] # "done" /\ (t = Main \/ t < forked)

Waiting(s) == Listed(queue[s])

\* Who waits waits at one semaphore, once, and is not up.
Alone ==
  \A s \in Sems :
    /\ Once(queue[s])
    /\ \A t \in Waiting(s) : t \notin Up /\ \A r \in Sems : t \in Waiting(r) => r = s

\* Exactly the live threads are up or wait.
Present == \A t \in Threads : Live(t) <=> t \in Up \/ \E s \in Sems : t \in Waiting(s)

\* Why a thread waits.
Reasons ==
  /\ \A t \in Waiting(Dp) : t \in Philosophers /\ pc[t] \in {"pickupP", "putdownP"}
  /\ \A i \in Philosophers : \A t \in Waiting(i) : t = i /\ pc[t] = "self" /\ value[i] = 0

\* Threads that have ended, and those that have not begun.
Ended ==
  /\ \A t \in deleted : pc[t] = "done"
  /\ doomed # NoThread => pc[doomed] = "done"
  /\ pc[Main] \in {"forks", "done"}
  /\ pc[Main] = "done" => forked = N
  /\ \A i \in Philosophers : i >= forked => pc[i] = "starts"
  /\ \A i \in Philosophers : pc[i] \in {"ends", "done"} => meals[i] = Rounds

PlaceInv == UpOnce /\ Alone /\ Present /\ Reasons /\ Ended

\* Steps that change no list: t, which runs, moves in its code.
LEMMA PlaceKept ==
  ASSUME Typed, PlaceInv, NEW t \in Threads, Running(t),
         \A u \in Threads \ {t} : pc'[u] = pc[u], pc[t] # "done", pc'[t] # "done",
         t = Main => pc'[t] = pc[t], pc'[t] = "ends" => meals'[t] = Rounds,
         \A u \in Philosophers \ {t} : meals'[u] = meals[u],
         UpOnce', Up' = Up, queue' = queue, \A i \in Philosophers \ {t} : value'[i] = value[i], forked' = forked,
         doomed' \in {doomed, NoThread}, deleted' \subseteq deleted \cup ({doomed} \ {NoThread})
  PROVE  PlaceInv'
<1> USE Names
<1>1. (t \in Up /\ t < forked) \/ t = Main
  BY DEF Running, Up, PlaceInv, Present, Live
<1>2. \A s \in Sems : t \notin Waiting(s)
  BY <1>1 DEF PlaceInv, Alone, Running, Up
<1>3. \A u \in Threads : Live(u)' <=> Live(u)
  BY DEF Live
<1>4. Alone' /\ Present'
  BY <1>3 DEF PlaceInv, Alone, Present, Waiting
<1>5. \A s \in Sems : Waiting(s)' = Waiting(s)
  BY DEF Waiting
<1>6. \A s \in Sems : \A u \in Waiting(s) : u \in Threads
  BY DEF Waiting, Listed, Typed, SemsOK
<1>7. Reasons'
  BY <1>2, <1>5, <1>6 DEF PlaceInv, Reasons
<1>8. Ended'
  <2>1. \A u \in deleted' : pc'[u] = "done"
    BY DEF PlaceInv, Ended, Typed, CpuOK
  <2>2. doomed' # NoThread => pc'[doomed'] = "done"
    BY DEF PlaceInv, Ended, Typed, CpuOK
  <2>3. pc'[Main] \in {"forks", "done"} /\ (pc'[Main] = "done" => forked' = N)
    BY MainAssumption DEF PlaceInv, Ended
  <2>4. \A i \in Philosophers : i >= forked => i # t
    <3> SUFFICES ASSUME t \in Philosophers, t >= forked PROVE FALSE
      OBVIOUS
    <3>1. t < forked
      BY <1>1
    <3>2. t \in Nat /\ forked \in Nat
      BY TableAssumption DEF Philosophers, Typed, ProgramOK
    <3> QED
      BY <3>1, <3>2
  <2>5. \A i \in Philosophers : i >= forked' => pc'[i] = "starts"
    BY <2>4 DEF PlaceInv, Ended
  <2>6. \A i \in Philosophers : pc'[i] \in {"ends", "done"} => meals'[i] = Rounds
    BY DEF PlaceInv, Ended
  <2> QED
    BY <2>1, <2>2, <2>3, <2>5, <2>6 DEF Ended
<1> QED
  BY <1>4, <1>7, <1>8 DEF PlaceInv

\* Steps of t that leave a thread out of the lists, or put it there, are
\* those of a semaphore: t goes to sleep, ...
LEMMA PlacePut ==
  ASSUME Typed, PlaceInv, NEW t \in Philosophers, NEW s \in Sems, Running(t), pc[t] # "done",
         P(t, s), IF Passes(s) THEN Step(t) ELSE UNCHANGED pc, pc[t] \in DOMAIN After,
         s = Dp \/ s = t, s = Dp => pc[t] \in {"pickupP", "putdownP"},
         s = t => pc[t] = "self", UNCHANGED <<forked, meals>>
  PROVE  PlaceInv'
<1> USE Names
<1>0. CpuOK /\ SemsOK /\ UpOnce /\ t \in Threads /\ value \in [Sems -> Nat]
      /\ pc \in [Threads -> DOMAIN After \cup {"forks", "yields", "ends", "done"}]
  BY DEF Typed, PlaceInv, SemsOK, ProgramOK
<1>1. CASE Passes(s)
  <2>1. value' = [value EXCEPT ![s] = @ - 1] /\ UNCHANGED <<cpu, queue>>
    BY <1>1 DEF Passes, P
  <2>2. UpOnce' /\ Up' = Up
    BY <2>1 DEF PlaceInv, UpOnce, Up, cpu
  <2>3. /\ \A u \in Threads \ {t} : pc'[u] = pc[u]
        /\ pc'[t] \in DOMAIN After \cup {"yields"}
    BY <1>0, <1>1 DEF Step, After
  <2>4. pc'[t] # "done" /\ pc'[t] # "ends"
    BY <2>3 DEF After
  <2>5. \A i \in Philosophers \ {t} : value'[i] = value[i]
    BY <1>0, <2>1
  <2> QED
    BY <1>0, <2>1, <2>2, <2>3, <2>4, <2>5, PlaceKept DEF cpu
<1>2. CASE ~Passes(s)
  <2>1. /\ queue' = [queue EXCEPT ![s] = Append(@, t)] /\ Sleep(doomed)
        /\ value' = value /\ pc' = pc /\ value[s] = 0
    BY <1>2 DEF Passes, P
  <2>2. UpOnce' /\ Up' = Up \ {t} /\ t \in Up
    BY <1>0, <2>1, SleepMoves DEF CpuOK
  <2>3. \A r \in Sems : t \notin Waiting(r) /\ queue[r] \in Seq(Threads)
    BY <1>0, <2>2 DEF PlaceInv, Alone, SemsOK
  <2>4. /\ Waiting(s)' = Waiting(s) \cup {t} /\ Once(queue'[s])
        /\ \A r \in Sems \ {s} : queue'[r] = queue[r] /\ Waiting(r)' = Waiting(r)
    <3>1. queue'[s] = Append(queue[s], t) /\ \A r \in Sems \ {s} : queue'[r] = queue[r]
      BY <1>0, <2>1 DEF SemsOK
    <3> QED
      BY <1>0, <2>3, <3>1, AppendListed DEF Waiting, PlaceInv, Alone
  <2>5. Alone'
    BY <2>2, <2>3, <2>4 DEF PlaceInv, Alone
  <2>6. Present'
    <3>1. \A u \in Threads : Live(u)' <=> Live(u)
      BY <2>1 DEF Live
    <3> QED
      BY <2>2, <2>4, <3>1 DEF PlaceInv, Present
  <2>7. Reasons'
    BY <2>1, <2>4 DEF PlaceInv, Reasons
  <2>8. doomed' \in {doomed, NoThread} /\ deleted' \subseteq deleted \cup ({doomed} \ {NoThread})
    BY <2>1 DEF Sleep, Run
  <2>9. Ended'
    BY <2>1, <2>8 DEF PlaceInv, Ended
  <2> QED
    BY <2>2, <2>5, <2>6, <2>7, <2>9 DEF PlaceInv
<1> QED
  BY <1>1, <1>2

\* ... or t wakes one that sleeps.
LEMMA PlaceWoken ==
  ASSUME Typed, PlaceInv, NEW s \in Sems, machine = "runs", V(s), \A t \in Threads :
         pc'[t] = pc[t] \/ (t = current /\ pc[t] \in DOMAIN After /\ Step(t)),
         UNCHANGED <<forked, meals>>
  PROVE  /\ PlaceInv'
         /\ queue[s] # <<>> => Head(queue[s]) \in Waiting(s) \ Waiting(s)'
         /\ \A r \in Sems : Waiting(r)' \subseteq Waiting(r)
<1> USE Names
<1>0. CpuOK /\ SemsOK /\ UpOnce /\ value \in [Sems -> Nat] /\ queue \in [Sems -> Seq(Threads)]
      /\ pc \in [Threads -> DOMAIN After \cup {"forks", "yields", "ends", "done"}]
  BY DEF Typed, PlaceInv, SemsOK, ProgramOK
<1>1. /\ UNCHANGED <<current, doomed, deleted, machine>>
      /\ value' = [value EXCEPT ![s] = @ + 1]
  BY DEF V
<1>2. /\ \A r \in Sems \ {s} : queue'[r] = queue[r] /\ Waiting(r)' = Waiting(r)
      /\ UpOnce' /\ Once(queue'[s])
      /\ IF queue[s] = <<>>
           THEN Up' = Up /\ Waiting(s)' = Waiting(s)
           ELSE /\ Head(queue[s]) \in Waiting(s)
                /\ Up' = Up \cup {Head(queue[s])}
                /\ Waiting(s)' = Waiting(s) \ {Head(queue[s])}
  <2>1. CASE queue[s] = <<>>
    BY <1>0, <1>1, <2>1 DEF V, UpOnce, Up, Waiting, PlaceInv, Alone
  <2>2. CASE queue[s] # <<>>
    <3> DEFINE h == Head(queue[s])
    <3>1. queue' = [queue EXCEPT ![s] = Tail(@)] /\ ready' = Append(ready, h)
      BY <2>2 DEF V
    <3>2. /\ h \in Threads /\ h \in Waiting(s) /\ Once(Tail(queue[s]))
          /\ Listed(Tail(queue[s])) = Waiting(s) \ {h}
      BY <1>0, <2>2, TailListed DEF PlaceInv, Alone, Waiting
    <3>3. h \notin Up /\ ready \in Seq(Threads)
      BY <3>2 DEF PlaceInv, Alone, Typed, CpuOK
    <3> HIDE DEF h
    <3>4. queue'[s] = Tail(queue[s]) /\ \A r \in Sems \ {s} : queue'[r] = queue[r]
      BY <1>0, <3>1
    <3>5. Listed(ready') = Listed(ready) \cup {h} /\ Once(ready')
      BY <3>1, <3>2, <3>3, AppendListed DEF Up, PlaceInv, UpOnce
    <3>6. UpOnce' /\ Up' = Up \cup {h}
      BY <1>1, <3>3, <3>5 DEF UpOnce, Up, PlaceInv
    <3> QED
      BY <2>2, <3>2, <3>4, <3>6 DEF Waiting, h
  <2> QED
    BY <2>1, <2>2
<1>3. Waiting(s)' \subseteq Waiting(s) /\ \A r \in Sems : Waiting(r)' \subseteq Waiting(r)
  BY <1>2
<1>4. Alone'
  BY <1>2, <1>3 DEF PlaceInv, Alone
<1>5. \A t \in Threads : /\ pc'[t] = "done" <=> pc[t] = "done"
                         /\ pc'[t] = "ends" => pc[t] = "ends"
                         /\ pc'[t] = "forks" <=> pc[t] = "forks"
  <2> SUFFICES ASSUME NEW t \in Threads, pc'[t] # pc[t]
               PROVE  pc[t] \notin {"done", "forks"} /\ pc'[t] \notin {"done", "ends", "forks"}
    OBVIOUS
  <2>1. pc[t] \in DOMAIN After /\ pc'[t] = After[pc[t]]
    BY <1>0 DEF Step
  <2> QED
    BY <2>1 DEF After
<1>6. Present'
  <2>1. \A u \in Threads : Live(u)' <=> Live(u)
    BY <1>5 DEF Live
  <2>2. \A u \in Threads : (u \in Up \/ \E r \in Sems : u \in Waiting(r))
                           <=> (u \in Up' \/ \E r \in Sems : u \in Waiting(r)')
    BY <1>2, <1>3
  <2> QED
    BY <2>1, <2>2 DEF PlaceInv, Present
<1>7. Reasons'
  <2>1. \A r \in Sems : current \notin Waiting(r)
    BY DEF PlaceInv, Alone, Up
  <2>2. \A r \in Sems : \A u \in Waiting(r) : u \in Threads /\ pc'[u] = pc[u]
    BY <1>0, <2>1 DEF Waiting, Listed
  <2>3. ASSUME NEW i \in Philosophers, NEW u \in Waiting(i)'
        PROVE  value'[i] = 0
    <3>1. i # s
      <4> SUFFICES ASSUME i = s PROVE FALSE
        OBVIOUS
      <4>1. \A w \in Waiting(s) : w = i
        BY DEF PlaceInv, Reasons
      <4>2. queue[s] # <<>>
        BY <1>3, <2>3, EmptyListed DEF Waiting
      <4> QED
        BY <1>2, <2>3, <4>1, <4>2
    <3> QED
      BY <1>0, <1>1, <1>3, <2>3, <3>1 DEF PlaceInv, Reasons
  <2> QED
    BY <1>3, <2>2, <2>3 DEF PlaceInv, Reasons
<1>8. Ended'
  <2>1. \A u \in deleted' : pc'[u] = "done"
    BY <1>1, <1>5 DEF PlaceInv, Ended, Typed, CpuOK
  <2>2. doomed' # NoThread => pc'[doomed'] = "done"
    BY <1>1, <1>5 DEF PlaceInv, Ended, Typed, CpuOK
  <2>3. \A i \in Philosophers : i >= forked' => pc'[i] = "starts"
    <3>1. current = Main \/ current < forked
      BY DEF PlaceInv, Present, Live, Up, Typed, CpuOK
    <3>2. \A i \in Philosophers : i >= forked => i # current
      <4> SUFFICES ASSUME current \in Philosophers, current >= forked, current < forked PROVE FALSE
        BY <3>1
      <4>1. current \in Nat /\ forked \in Nat
        BY TableAssumption DEF Philosophers, Typed, ProgramOK
      <4> QED
        BY <4>1
    <3> QED
      BY <3>2 DEF PlaceInv, Ended
  <2>4. pc'[Main] \in {"forks", "done"} /\ (pc'[Main] = "done" => forked' = N)
    BY <1>5, MainAssumption DEF PlaceInv, Ended
  <2>5. \A i \in Philosophers : pc'[i] \in {"ends", "done"} => meals'[i] = Rounds
    BY <1>5 DEF PlaceInv, Ended
  <2> QED
    BY <2>1, <2>2, <2>3, <2>4, <2>5 DEF Ended
<1> QED
  BY <1>2, <1>3, <1>4, <1>6, <1>7, <1>8 DEF PlaceInv


LEMMA PlaceNext ==
  ASSUME Typed, PlaceInv, MealInv, machine # "aborted", machine' # "aborted", NEW t \in Philosophers, Philo(t)
  PROVE  PlaceInv'
<1> USE Names
<1>0. /\ CpuOK /\ SemsOK /\ UpOnce /\ t \in Threads /\ t \in Sems /\ t # Main
      /\ pc \in [Threads -> DOMAIN After \cup {"forks", "yields", "ends", "done"}]
      /\ Running(t) /\ pc[t] # "done" /\ machine = "runs"
  BY DEF Typed, ProgramOK, PlaceInv, Philo, YieldOnce, EndRound, AcquireP, AcquireOwn,
         ReleaseDisown, ReleaseV, Hungry, WaitSelf, Thinks, Tests, At, Running
<1>1. CASE YieldOnce(t)
  <2>1. UpOnce' /\ Up' = Up
    BY <1>0, <1>1, YieldMoves DEF YieldOnce
  <2>2. doomed' \in {doomed, NoThread} /\ deleted' \subseteq deleted \cup ({doomed} \ {NoThread})
    BY <1>1 DEF YieldOnce, Yield, Run
  <2>3. pc'[t] \in {"pickupP", "putdownP"} /\ \A u \in Threads \ {t} : pc'[u] = pc[u]
    BY <1>0, <1>1 DEF YieldOnce, At, Step, After
  <2> QED
    BY <1>0, <1>1, <2>1, <2>2, <2>3, PlaceKept DEF YieldOnce, sems
<1>2. CASE EndRound(t)
  <2>1. UpOnce' /\ Up' = Up
    BY <1>0, <1>2, YieldMoves DEF EndRound
  <2>2. doomed' \in {doomed, NoThread} /\ deleted' \subseteq deleted \cup ({doomed} \ {NoThread})
    BY <1>2 DEF EndRound, Yield, Run
  <2>3. /\ pc'[t] = IF meals[t] + 1 < Rounds THEN "pickupP" ELSE "ends"
        /\ \A u \in Threads \ {t} : pc'[u] = pc[u]
        /\ \A u \in Philosophers \ {t} : meals'[u] = meals[u]
        /\ meals'[t] = meals[t] + 1
    BY <1>0, <1>2 DEF EndRound, Typed, ProgramOK
  <2>4. pc'[t] = "ends" => meals'[t] = Rounds
    <3>1. meals[t] \in Nat /\ Rounds \in Nat /\ meals[t] < Rounds
      BY <1>2, TableAssumption DEF EndRound, At, Typed, MealsLeft, ProgramOK
    <3> QED
      BY <2>3, <3>1
  <2> QED
    BY <1>0, <1>2, <2>1, <2>2, <2>3, <2>4, PlaceKept DEF EndRound, sems
<1>3. CASE AcquireP(t)
  <2>1. pc[t] \in {"pickupP", "putdownP"} /\ pc[t] \in DOMAIN After
    BY <1>3 DEF AcquireP, At, After
  <2> QED
    BY <1>0, <1>3, <2>1, PlacePut DEF AcquireP
<1>4. CASE AcquireOwn(t) \/ ReleaseDisown(t)
  <2>1. /\ UNCHANGED <<current, ready, doomed, deleted, machine, value, queue, meals, forked>>
    BY <1>0, <1>4 DEF AcquireOwn, ReleaseDisown, Own, Disown, cpu, sems, CpuOK, PlaceInv
  <2>2. pc'[t] \in DOMAIN After /\ \A u \in Threads \ {t} : pc'[u] = pc[u]
    BY <1>0, <1>4 DEF AcquireOwn, ReleaseDisown, At, Step, After
  <2>3. pc'[t] \notin {"ends", "done"}
    BY <2>2 DEF After
  <2>4. UpOnce' /\ Up' = Up
    BY <1>0, <2>1 DEF UpOnce, Up
  <2> QED
    BY <1>0, <2>1, <2>2, <2>3, <2>4, PlaceKept
<1>5. CASE ReleaseV(t)
  <2>1. pc[t] \in DOMAIN After /\ current = t
    BY <1>5 DEF ReleaseV, At, After, Running
  <2>2. \A u \in Threads : pc'[u] = pc[u] \/ u = t
    BY <1>0, <1>5 DEF ReleaseV, Step
  <2> QED
    BY <1>0, <1>5, <2>1, <2>2, PlaceWoken DEF ReleaseV
<1>6. CASE Hungry(t) \/ Thinks(t) \/ Tests(t)
  <2>1. pc[t] \in DOMAIN After /\ current = t /\ Step(t)
    BY <1>6 DEF Hungry, Thinks, Tests, At, After, Running
  <2>2. \A u \in Threads : pc'[u] = pc[u] \/ u = t
    BY <1>0, <2>1 DEF Step
  <2>3. PICK i \in Philosophers : \E st : Test(i, st)
    BY <1>6, Seats DEF Hungry, Thinks, Tests
  <2>4. CASE V(i)
    BY <1>0, <1>6, <2>1, <2>2, <2>4, PlaceWoken DEF Hungry, Thinks, Tests
  <2>5. CASE UNCHANGED <<cpu, sems>>
    <3>1. pc'[t] \in DOMAIN After
      BY <1>0, <1>6 DEF Hungry, Thinks, Tests, At, Step, After
    <3>2. pc'[t] \notin {"ends", "done"}
      BY <3>1 DEF After
    <3>3. UpOnce' /\ Up' = Up
      BY <1>0, <2>5 DEF UpOnce, Up, cpu
    <3> QED
      BY <1>0, <1>6, <2>2, <2>5, <3>2, <3>3, PlaceKept DEF Hungry, Thinks, Tests, cpu, sems
  <2> QED
    BY <2>3, <2>4, <2>5 DEF Test
<1>7. CASE WaitSelf(t)
  <2>1. pc[t] = "self" /\ pc[t] \in DOMAIN After
    BY <1>7 DEF WaitSelf, At, After
  <2> QED
    BY <1>0, <1>7, <2>1, PlacePut DEF WaitSelf
<1> QED
  BY <1>1, <1>2, <1>3, <1>4, <1>5, <1>6, <1>7 DEF Philo

\* ThreadTest, the end of a thread and the end of a time slice.
LEMMA PlaceForks ==
  ASSUME Typed, PlaceInv, ForkPhilosopher
  PROVE  PlaceInv'
<1> USE Names
<1>0. /\ CpuOK /\ UpOnce /\ machine = "runs" /\ ready \in Seq(Threads)
      /\ pc \in [Threads -> DOMAIN After \cup {"forks", "yields", "ends", "done"}]
  BY DEF Typed, ProgramOK, PlaceInv, ForkPhilosopher, At, Running, CpuOK
<1>1. N \in Nat /\ forked \in Nat /\ forked < N /\ forked \in Philosophers /\ forked \in Threads
  BY TableAssumption DEF ForkPhilosopher, Typed, ProgramOK, Philosophers
<1>2. /\ ready' = Append(ready, forked) /\ forked' = forked + 1
      /\ UNCHANGED <<current, doomed, deleted, machine, value, queue, pc, meals>>
  BY DEF ForkPhilosopher, Fork, sems
<1>3. forked \notin Up /\ \A s \in Sems : forked \notin Waiting(s)
  <2>1. ~Live(forked)
    BY <1>1 DEF Live
  <2> QED
    BY <1>1, <2>1 DEF PlaceInv, Present
<1>4. Listed(ready') = Listed(ready) \cup {forked} /\ Once(ready')
  BY <1>0, <1>1, <1>2, <1>3, AppendListed DEF Up, UpOnce
<1>5. UpOnce' /\ Up' = Up \cup {forked}
  BY <1>0, <1>2, <1>3, <1>4 DEF UpOnce, Up
<1>6. Alone'
  BY <1>2, <1>3, <1>5 DEF PlaceInv, Alone, Waiting
<1>7. Present'
  <2>1. ASSUME NEW u \in Threads PROVE Live(u)' <=> Live(u) \/ u = forked
    <3>1. CASE u = Main
      BY <1>1, <1>2, <3>1 DEF Live
    <3>2. CASE u \in Philosophers
      <4>1. u \in Nat /\ (u < forked + 1 <=> u < forked \/ u = forked)
        BY <1>1, <3>2 DEF Philosophers
      <4>2. pc[forked] = "starts"
        BY <1>1 DEF PlaceInv, Ended
      <4> QED
        BY <1>1, <1>2, <3>2, <4>1, <4>2 DEF Live
    <3> QED
      BY <3>1, <3>2, TableAssumption
  <2> QED
    BY <1>2, <1>5, <2>1 DEF PlaceInv, Present, Waiting
<1>8. Reasons'
  BY <1>2 DEF PlaceInv, Reasons, Waiting
<1>9. Ended'
  <2>1. \A i \in Philosophers : i >= forked + 1 => i >= forked
    BY <1>1 DEF Philosophers
  <2>2. pc[Main] = "forks"
    BY DEF ForkPhilosopher, At
  <2> QED
    BY <1>2, <2>1, <2>2 DEF PlaceInv, Ended
<1> QED
  BY <1>5, <1>6, <1>7, <1>8, <1>9 DEF PlaceInv

LEMMA PlaceEnds ==
  ASSUME Typed, PlaceInv, NEW t \in Threads, End(t)
  PROVE  PlaceInv'
<1> USE Names
<1>0. /\ CpuOK /\ UpOnce /\ machine = "runs" /\ Running(t)
      /\ pc \in [Threads -> DOMAIN After \cup {"forks", "yields", "ends", "done"}]
      /\ UNCHANGED <<value, queue, forked, meals>> /\ Sleep(t)
      /\ pc'[t] = "done" /\ (\A u \in Threads \ {t} : pc'[u] = pc[u])
  BY DEF Typed, ProgramOK, PlaceInv, End, At, Running, Finish, sems
<1>1. UpOnce' /\ Up' = Up \ {t} /\ t \in Up
  BY <1>0, SleepMoves
<1>2. \A s \in Sems : t \notin Waiting(s) /\ Waiting(s)' = Waiting(s)
  BY <1>0, <1>1 DEF PlaceInv, Alone, Waiting
<1>3. Alone'
  BY <1>0, <1>1, <1>2 DEF PlaceInv, Alone
<1>4. Present'
  <2>1. \A u \in Threads : Live(u)' <=> Live(u) /\ u # t
    BY <1>0 DEF Live
  <2> QED
    BY <1>1, <1>2, <2>1 DEF PlaceInv, Present
<1>5. Reasons'
  <2>1. \A s \in Sems : \A u \in Waiting(s) : u \in Threads
    BY DEF Waiting, Listed, Typed, SemsOK
  <2> QED
    BY <1>0, <1>2, <2>1 DEF PlaceInv, Reasons
<1>6. Ended'
  <2>1. doomed' \in {t, NoThread} /\ deleted' \subseteq deleted \cup {t}
    BY <1>0, MainAssumption DEF Sleep, Run
  <2>2. t = Main => forked = N
    BY DEF End, At, PlaceInv, Ended
  <2>3. \A i \in Philosophers : i = t => pc[i] = "ends"
    BY DEF End, At
  <2>4. (\A u \in deleted' : pc'[u] = "done") /\ (doomed' # NoThread => pc'[doomed'] = "done")
    BY <1>0, <2>1 DEF PlaceInv, Ended, CpuOK
  <2>5. \A i \in Philosophers : i >= forked => i # t
    BY <2>3 DEF PlaceInv, Ended
  <2>6. /\ \A i \in Philosophers : i >= forked' => pc'[i] = "starts"
        /\ \A i \in Philosophers : pc'[i] \in {"ends", "done"} => meals'[i] = Rounds
    BY <1>0, <2>3, <2>5 DEF PlaceInv, Ended
  <2>7. pc'[Main] \in {"forks", "done"} /\ (pc'[Main] = "done" => forked' = N)
    BY <1>0, <2>2, MainAssumption DEF PlaceInv, Ended
  <2> QED
    BY <2>4, <2>6, <2>7 DEF Ended
<1> QED
  BY <1>1, <1>3, <1>4, <1>5, <1>6 DEF PlaceInv

LEMMA PlaceSlice ==
  ASSUME Typed, PlaceInv, NEW t \in Threads, Slice(t)
  PROVE  PlaceInv'
<1>0. CpuOK /\ UpOnce /\ Running(t) /\ Yield(t)
      /\ UNCHANGED <<value, queue, forked, meals, pc>> /\ Live(t)
  BY DEF Typed, PlaceInv, Slice, Preempt, sems, Present, Up, Running
<1>1. UpOnce' /\ Up' = Up
  BY <1>0, YieldMoves
<1>2. doomed' \in {doomed, NoThread} /\ deleted' \subseteq deleted \cup ({doomed} \ {NoThread})
  BY <1>0 DEF Yield, Run
<1>3. pc[t] \notin {"done"} /\ (pc[t] = "ends" => t = Main \/ meals[t] = Rounds)
  BY <1>0, TableAssumption DEF Live, PlaceInv, Ended
<1>4. pc[t] = "ends" => meals[t] = Rounds
  BY <1>3 DEF PlaceInv, Ended
<1> QED
  BY <1>0, <1>1, <1>2, <1>3, <1>4, PlaceKept


-----------------------------------------------------------------------------
(* Nobody waits for a wakeup that nobody owes.                             *)

Seeks == {"pickupP", "putdownP"}

\* Who waits for the lock waits for somebody that holds it, or that was woken
\* and has not come to look at its value yet.
LockOwed ==
  Waiting(Dp) # {} =>
    \E t \in Philosophers : pc[t] \in Places \/ (pc[t] \in Seeks /\ t \notin Waiting(Dp))

\* Who is hungry waits for a neighbour that eats, or that has put its sticks
\* down and is about to test.
MealOwed ==
  \A i \in Philosophers :
    state[i] = "Hungry" =>
      \/ state[Left(i)] = "Eating" \/ state[Right(i)] = "Eating"
      \/ pc[Left(i)] = "tests"

LEMMA LockOwedNext ==
  ASSUME Typed, LockInv, LockInv', PlaceInv, LockOwed, machine # "aborted",
         NEW t \in Philosophers, Philo(t)
  PROVE  LockOwed'
<1> USE Names
<1>0. /\ pc \in [Threads -> DOMAIN After \cup {"forks", "yields", "ends", "done"}]
      /\ SemsOK /\ t \in Threads /\ t \in Sems /\ value \in [Sems -> Nat]
      /\ queue \in [Sems -> Seq(Threads)]
  BY DEF Typed, ProgramOK, SemsOK
<1>1. CASE AcquireP(t)
  <2>1. CASE Passes(Dp)
    <3>1. pc[t] \in Seeks /\ pc'[t] = After[pc[t]]
      BY <1>0, <1>1, <2>1 DEF AcquireP, At, Step, Seeks
    <3>2. pc'[t] \in Places
      BY <3>1 DEF After, Seeks, Places
    <3> QED
      BY <3>2 DEF LockOwed
  <2>2. CASE ~Passes(Dp)
    <3>1. value[Dp] = 0 /\ pc' = pc
      BY <1>1, <2>2 DEF AcquireP, Passes
    <3> QED
      BY <3>1 DEF LockInv, LockOwed
  <2> QED
    BY <2>1, <2>2
<1>2. CASE ReleaseV(t)
  <2>1. CASE queue[Dp] = <<>>
    BY <1>2, <2>1, EmptyListed DEF ReleaseV, V, LockOwed, Waiting
  <2>2. CASE queue[Dp] # <<>>
    <3> DEFINE h == Head(queue[Dp])
    <3>1. queue'[Dp] = Tail(queue[Dp])
      BY <1>0, <1>2, <2>2 DEF ReleaseV, V
    <3>2. h \in Waiting(Dp) /\ h \notin Waiting(Dp)'
      BY <1>0, <2>2, <3>1, TailListed DEF Waiting, PlaceInv, Alone
    <3> HIDE DEF h
    <3>3. h \in Philosophers /\ pc[h] \in Seeks
      BY <3>2 DEF PlaceInv, Reasons, Seeks
    <3>4. pc[t] \in {"pickupV", "putdownV"} /\ \A u \in Threads \ {t} : pc'[u] = pc[u]
      BY <1>0, <1>2 DEF ReleaseV, At, Step
    <3>5. pc'[h] = pc[h]
      BY <3>3, <3>4 DEF Seeks
    <3> QED
      BY <3>2, <3>3, <3>5 DEF LockOwed
  <2> QED
    BY <2>1, <2>2
<1>3. CASE ~AcquireP(t) /\ ~ReleaseV(t)
  <2>1. queue'[Dp] = queue[Dp]
    <3>1. CASE YieldOnce(t) \/ EndRound(t) \/ AcquireOwn(t) \/ ReleaseDisown(t)
      BY <1>3, <3>1 DEF YieldOnce, EndRound, AcquireOwn, ReleaseDisown, Own, Disown, sems
    <3>2. CASE WaitSelf(t)
      BY <1>0, <3>2 DEF WaitSelf, P
    <3>3. CASE Hungry(t) \/ Thinks(t) \/ Tests(t)
      <4>1. PICK i \in Philosophers : \E st : Test(i, st)
        BY <3>3, Seats DEF Hungry, Thinks, Tests
      <4> QED
        BY <1>0, <4>1 DEF Test, V, sems
    <3> QED
      BY <1>3, <3>1, <3>2, <3>3 DEF Philo
  <2>2. Waiting(Dp)' = Waiting(Dp)
    BY <2>1 DEF Waiting
  <2>3. \A u \in Threads \ {t} : pc'[u] = pc[u]
    BY <1>0, <1>3 DEF Philo, YieldOnce, EndRound, AcquireOwn, ReleaseDisown, Hungry,
                      WaitSelf, Thinks, Tests, Step
  <2>4. pc[t] \notin Seeks
    BY <1>3 DEF Philo, YieldOnce, EndRound, AcquireOwn, ReleaseDisown, Hungry,
                      WaitSelf, Thinks, Tests, At, Seeks
  <2>5. pc[t] \in Places => pc'[t] \in Places
    BY <1>0, <1>3 DEF Philo, YieldOnce, EndRound, AcquireOwn, ReleaseDisown, Hungry,
                      WaitSelf, Thinks, Tests, At, Step, Places, After
  <2> QED
    BY <2>2, <2>3, <2>4, <2>5 DEF LockOwed
<1> QED
  BY <1>1, <1>2, <1>3

LEMMA MealOwedNext ==
  ASSUME Typed, MealInv, MealOwed, machine # "aborted", NEW t \in Philosophers, Philo(t)
  PROVE  MealOwed'
<1> USE Names
<1>0. /\ pc \in [Threads -> DOMAIN After \cup {"forks", "yields", "ends", "done"}]
      /\ state \in [Philosophers -> {"Thinking", "Hungry", "Eating"}] /\ t \in Threads
  BY DEF Typed, ProgramOK
<1>1. CASE ~(Hungry(t) \/ Thinks(t) \/ Tests(t))
  <2>1. state' = state /\ \A u \in Threads \ {t} : pc'[u] = pc[u]
    BY <1>0, <1>1 DEF Philo, YieldOnce, EndRound, AcquireP, AcquireOwn, ReleaseDisown, ReleaseV,
                      WaitSelf, Step
  <2>2. pc[t] # "tests"
    BY <1>0, <1>1 DEF Philo, YieldOnce, EndRound, AcquireP, AcquireOwn, ReleaseDisown, ReleaseV,
                      WaitSelf, At
  <2> QED
    BY <2>1, <2>2, Seats DEF MealOwed
<1>2. CASE Hungry(t)
  <2> DEFINE st == [state EXCEPT ![t] = "Hungry"]
  <2>1. pc[t] = "hungry" /\ \A u \in Threads \ {t} : pc'[u] = pc[u]
    BY <1>0, <1>2 DEF Hungry, At, Step
  <2>2. state[t] = "Thinking" /\ Test(t, st)
    BY <1>2, <2>1 DEF MealInv, StateInv, Hungry
  <2>3. st[t] = "Hungry" /\ \A j \in Philosophers \ {t} : st[j] = state[j]
    BY <1>0
  <2>4. st \in [Philosophers -> {"Thinking", "Hungry", "Eating"}]
    BY <1>0
  <2> HIDE DEF st
  <2>5. /\ \A j \in Philosophers \ {t} : state'[j] = state[j]
        /\ state'[t] = IF MayEat(t, st) THEN "Eating" ELSE "Hungry"
    BY <2>2, <2>3, <2>4, TestDoes
  <2>6. ~MayEat(t, st) => state[Left(t)] = "Eating" \/ state[Right(t)] = "Eating"
    BY <2>3, Seats DEF MayEat
  <2> QED
    BY <2>1, <2>2, <2>5, <2>6, Seats DEF MealOwed
<1>3. CASE Thinks(t)
  <2> DEFINE st == [state EXCEPT ![t] = "Thinking"]
             l == Left(t)
  <2>1. pc'[t] = "tests" /\ pc[t] = "thinks" /\ \A u \in Threads \ {t} : pc'[u] = pc[u]
    BY <1>0, <1>3 DEF Thinks, At, Step, After
  <2>2. Test(l, st) /\ l \in Philosophers /\ l # t /\ Right(l) = t
    BY <1>3, Seats DEF Thinks
  <2>3. st[t] = "Thinking" /\ \A j \in Philosophers \ {t} : st[j] = state[j]
    BY <1>0
  <2>4. st \in [Philosophers -> {"Thinking", "Hungry", "Eating"}]
    BY <1>0
  <2> HIDE DEF st, l
  <2>5. /\ \A j \in Philosophers \ {l} : state'[j] = st[j]
        /\ state'[l] = IF MayEat(l, st) THEN "Eating" ELSE st[l]
    BY <2>2, <2>4, TestDoes
  <2>6. ~MayEat(l, st) => st[l] # "Hungry" \/ st[Left(l)] = "Eating"
    BY <2>2, <2>3 DEF MayEat
  <2>7. state'[t] = "Thinking"
    BY <2>2, <2>3, <2>5
  <2>8. ASSUME NEW i \in Philosophers, state'[i] = "Hungry"
        PROVE  \/ state'[Left(i)] = "Eating" \/ state'[Right(i)] = "Eating"
               \/ pc'[Left(i)] = "tests"
    <3>1. i # t /\ state[i] = "Hungry"
      BY <2>2, <2>3, <2>5, <2>7, <2>8
    <3>2. Left(i) \in Philosophers /\ Right(i) \in Philosophers /\ Right(Left(i)) = i
          /\ Left(Right(i)) = i /\ Left(i) # i
      BY Seats
    <3>3. CASE Left(i) = t
      BY <2>1, <3>3
    <3>4. CASE Right(i) = t
      <4>1. i = l
        BY <3>2, <3>4 DEF l
      <4>2. ~MayEat(l, st) /\ st[l] = "Hungry"
        BY <2>5, <2>8, <4>1
      <4>3. st[Left(i)] = "Eating"
        BY <2>6, <4>1, <4>2
      <4> QED
        BY <2>5, <3>2, <4>1, <4>3
    <3>5. CASE Left(i) # t /\ Right(i) # t
      <4>1. \A j \in {Left(i), Right(i)} : state[j] = "Eating" => state'[j] = "Eating"
        BY <2>3, <2>5, <3>2, <3>5
      <4>2. pc[Left(i)] = "tests" => pc'[Left(i)] = "tests"
        BY <2>1, <3>2, <3>5
      <4> QED
        BY <3>1, <4>1, <4>2 DEF MealOwed
    <3> QED
      BY <3>3, <3>4, <3>5
  <2> QED
    BY <2>8 DEF MealOwed
<1>4. CASE Tests(t)
  <2> DEFINE r == Right(t)
  <2>1. pc[t] = "tests" /\ \A u \in Threads \ {t} : pc'[u] = pc[u]
    BY <1>0, <1>4 DEF Tests, At, Step
  <2>2. Test(r, state) /\ r \in Philosophers /\ r # t /\ Left(r) = t
    BY <1>4, Seats DEF Tests
  <2>3. /\ \A i \in Philosophers : Left(i) = t => i = r
        /\ state[t] = "Thinking"
    BY <2>1, Seats DEF MealInv, StateInv
  <2> HIDE DEF r
  <2>4. /\ \A j \in Philosophers \ {r} : state'[j] = state[j]
        /\ state'[r] = IF MayEat(r, state) THEN "Eating" ELSE state[r]
    BY <1>0, <2>2, TestDoes
  <2>5. ~MayEat(r, state) /\ state[r] = "Hungry" => state[Right(r)] = "Eating"
    BY <2>2, <2>3 DEF MayEat
  <2>6. ASSUME NEW i \in Philosophers, state'[i] = "Hungry"
        PROVE  \/ state'[Left(i)] = "Eating" \/ state'[Right(i)] = "Eating"
               \/ pc'[Left(i)] = "tests"
    <3>1. Left(i) \in Philosophers /\ Right(i) \in Philosophers /\ Right(i) # i
      BY Seats
    <3>2. CASE i = r
      BY <2>4, <2>5, <2>6, <3>1, <3>2
    <3>3. CASE i # r
      <4>1. state[i] = "Hungry" /\ Left(i) # t
        BY <2>3, <2>4, <2>6, <3>3
      <4>2. \A j \in {Left(i), Right(i)} : state[j] = "Eating" => state'[j] = "Eating"
        BY <2>4, <3>1
      <4>3. pc[Left(i)] = "tests" => pc'[Left(i)] = "tests"
        BY <2>1, <3>1, <4>1
      <4> QED
        BY <4>1, <4>2, <4>3 DEF MealOwed
    <3> QED
      BY <3>2, <3>3
  <2> QED
    BY <2>6 DEF MealOwed
<1> QED
  BY <1>1, <1>2, <1>3, <1>4

-----------------------------------------------------------------------------
(* The whole invariant, and what follows from it.                          *)

FullInv == IInv /\ PlaceInv /\ LockOwed /\ MealOwed

LEMMA InitFull == Init => FullInv
<1> SUFFICES ASSUME Init PROVE FullInv
  OBVIOUS
<1> USE Names DEF Init, SynchInit
<1>1. IInv
  BY InitInv
<1>2. \A s \in Sems : Waiting(s) = {} /\ Once(queue[s])
  BY EmptyListed DEF Waiting
<1>3. Up = {Main} /\ UpOnce
  BY EmptyListed DEF Up, UpOnce
<1>4. pc[Main] = "forks" /\ \A i \in Philosophers : pc[i] = "starts"
  BY MainAssumption
<1>5. \A i \in Philosophers : ~(i < forked)
  BY DEF Philosophers
<1>6. Alone /\ Present /\ Reasons
  BY <1>2, <1>3, <1>4, <1>5, TableAssumption DEF Alone, Present, Reasons, Live
<1>7. Ended
  BY <1>4 DEF Ended
<1>8. LockOwed /\ MealOwed
  BY <1>2 DEF LockOwed, MealOwed
<1> QED
  BY <1>1, <1>3, <1>6, <1>7, <1>8 DEF FullInv, PlaceInv

\* Steps that are no philosopher's leave the queues alone and move nobody
\* that is at the table.
LEMMA OwedKept ==
  ASSUME IInv, LockOwed, MealOwed, UNCHANGED <<queue, state>>,
         \A t \in Philosophers : pc'[t] = pc[t] \/ (pc[t] = "ends" /\ pc'[t] = "done")
  PROVE  LockOwed' /\ MealOwed'
<1>1. \A t \in Philosophers : /\ pc'[t] \in Places <=> pc[t] \in Places
                              /\ pc'[t] \in Seeks <=> pc[t] \in Seeks
                              /\ pc'[t] = "tests" <=> pc[t] = "tests"
  BY DEF Places, Seeks
<1> QED
  BY <1>1, Seats DEF LockOwed, MealOwed, Waiting

LEMMA NextFull == FullInv /\ [Next]_vars => FullInv'
<1> SUFFICES ASSUME FullInv, [Next]_vars PROVE FullInv'
  OBVIOUS
<1> USE Names
<1>0. /\ IInv /\ IInv' /\ Typed /\ PlaceInv /\ LockOwed /\ MealOwed
      /\ machine # "aborted" /\ machine' # "aborted"
      /\ pc \in [Threads -> DOMAIN After \cup {"forks", "yields", "ends", "done"}]
  BY NextInv DEF FullInv, IInv, NeverAborts, Typed, ProgramOK
<1>1. ASSUME NEW t \in Philosophers, Philo(t)
      PROVE  FullInv'
  BY <1>0, <1>1, PlaceNext, LockOwedNext, MealOwedNext DEF FullInv, IInv
<1>2. CASE ForkPhilosopher
  BY <1>0, <1>2, PlaceForks, OwedKept DEF FullInv, ForkPhilosopher, sems
<1>3. ASSUME NEW t \in Threads, End(t)
      PROVE  FullInv'
  <2>1. pc' = [pc EXCEPT ![t] = "done"] /\ (t = Main \/ pc[t] = "ends")
    BY <1>3 DEF End, At
  <2>2. \A u \in Philosophers : pc'[u] = pc[u] \/ (pc[u] = "ends" /\ pc'[u] = "done")
    BY <1>0, <2>1
  <2> QED
    BY <1>0, <1>3, <2>2, PlaceEnds, OwedKept DEF FullInv, End, sems
<1>4. ASSUME NEW t \in Threads, Slice(t)
      PROVE  FullInv'
  BY <1>0, <1>4, PlaceSlice, OwedKept DEF FullInv, Slice, Preempt, sems
<1>5. CASE UNCHANGED vars
  <2>1. PlaceInv'
    BY <1>0, <1>5 DEF vars, synch, cpu, sems, PlaceInv, UpOnce, Alone, Present, Reasons, Ended,
                      Live, Waiting, Up
  <2> QED
    BY <1>0, <1>5, <2>1, OwedKept DEF FullInv, vars, synch, sems
<1> QED
  BY <1>1, <1>2, <1>3, <1>4, <1>5 DEF Next

LEMMA FullInvariant == Spec => []FullInv
BY InitFull, NextFull, PTL DEF Spec

\* No thread is lost or in two places, and only threads that have ended are
\* deleted.
THEOREM DiningOnePlace == Spec => []OnePlace
<1>1. ASSUME FullInv PROVE OnePlace
  <2> SUFFICES ASSUME machine = "runs", NEW t \in Threads
      PROVE  LET here == IF current = t THEN 1 ELSE 0
                 waits == {q \in Sems : Times(t, queue[q]) > 0}
                 gone == pc[t] = "done" \/ (t # Main /\ t >= forked)
             IN  /\ \A q \in waits : waits = {q} /\ Times(t, queue[q]) = 1
                 /\ here + Times(t, ready) + (IF waits = {} THEN 0 ELSE 1)
                      = IF gone THEN 0 ELSE 1
                 /\ t \in deleted => pc[t] = "done"
    BY DEF OnePlace
  <2> DEFINE here == IF current = t THEN 1 ELSE 0
             waits == {q \in Sems : Times(t, queue[q]) > 0}
             gone == pc[t] = "done" \/ (t # Main /\ t >= forked)
  <2> USE <1>1 DEF FullInv, PlaceInv
  <2>1. ready \in Seq(Threads) /\ \A q \in Sems : queue[q] \in Seq(Threads)
    BY DEF IInv, Typed, CpuOK, SemsOK
  <2>2. Times(t, ready) = IF t \in Listed(ready) THEN 1 ELSE 0
    BY <2>1, TimesListed DEF UpOnce
  <2>3. \A q \in Sems : Times(t, queue[q]) = IF t \in Waiting(q) THEN 1 ELSE 0
    BY <2>1, TimesListed DEF Alone, Waiting
  <2>4. waits = {q \in Sems : t \in Waiting(q)}
    BY <2>3
  <2>5. \A q \in waits : waits = {q} /\ Times(t, queue[q]) = 1
    BY <2>3, <2>4 DEF Alone
  <2>6. ~gone <=> Live(t)
    <3>1. t # Main => t \in Nat /\ forked \in Nat
      BY TableAssumption DEF Philosophers, IInv, Typed, ProgramOK
    <3>2. t # Main => (t >= forked <=> ~(t < forked))
      BY <3>1
    <3> QED
      BY <3>2 DEF Live
  <2>7. here + Times(t, ready) = IF t \in Up THEN 1 ELSE 0
    BY <2>2 DEF Up, UpOnce
  <2>8. (IF t \in Up THEN 1 ELSE 0) + (IF waits = {} THEN 0 ELSE 1) = IF gone THEN 0 ELSE 1
    <3>1. Live(t) <=> t \in Up \/ waits # {}
      BY <2>4 DEF Present
    <3>2. ~(t \in Up /\ waits # {})
      BY <2>4 DEF Alone
    <3> QED
      BY <2>6, <3>1, <3>2
  <2>9. t \in deleted => pc[t] = "done"
    BY DEF Ended
  <2> QED
    BY <2>5, <2>7, <2>8, <2>9
<1> QED
  BY <1>1, FullInvariant, PTL

\* The philosophers never wait for each other: when the machine halts, all of
\* them have eaten all their meals.
THEOREM DiningHaltsWhenDone == Spec => []HaltsWhenDone
<1>1. ASSUME FullInv PROVE HaltsWhenDone
  <2> SUFFICES ASSUME machine = "halted", NEW i \in Philosophers
               PROVE  meals[i] = Rounds /\ pc[i] = "done"
    BY DEF HaltsWhenDone
  <2> USE <1>1, Names DEF FullInv, PlaceInv
  <2>1. \A t \in Threads : Live(t) => \E s \in Sems : t \in Waiting(s)
    BY EmptyListed DEF Present, Up, UpOnce
  <2>2. pc[Main] = "done" /\ forked = N
    <3>1. \A s \in Sems : Main \notin Waiting(s)
      BY TableAssumption DEF Reasons
    <3>2. ~Live(Main)
      BY <2>1, <3>1, MainAssumption
    <3> QED
      BY <3>2 DEF Live, Ended
  <2>3. \A t \in Philosophers : pc[t] = "done" \/ t \in Waiting(Dp) \/ t \in Waiting(t)
    <3>1. \A t \in Philosophers : t < forked
      BY <2>2, TableAssumption DEF Philosophers
    <3>2. \A t \in Philosophers : pc[t] = "done" \/ \E s \in Sems : t \in Waiting(s)
      BY <2>1, <3>1 DEF Live
    <3> QED
      BY <3>2, TableAssumption DEF Reasons
  <2>4. \A t \in Philosophers : \/ pc[t] = "done"
                                \/ pc[t] \in Seeks /\ t \in Waiting(Dp)
                                \/ pc[t] = "self" /\ value[t] = 0
    BY <2>3 DEF Reasons, Seeks
  <2>5. Waiting(Dp) = {}
    BY <2>4 DEF LockOwed, Places, Seeks
  <2>6. \A t \in Philosophers : pc[t] = "done" \/ (pc[t] = "self" /\ state[t] = "Hungry")
    BY <2>4, <2>5 DEF IInv, MealInv, OnePermit, StateInv
  <2>7. \A t \in Philosophers : state[t] # "Eating" /\ pc[t] # "tests"
    BY <2>6 DEF IInv, MealInv, StateInv
  <2>8. \A t \in Philosophers : state[t] # "Hungry"
    BY <2>7, Seats DEF MealOwed
  <2> QED
    BY <2>6, <2>8 DEF Ended
<1> QED
  BY <1>1, FullInvariant, PTL

=============================================================================
