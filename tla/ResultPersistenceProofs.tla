----------------------- MODULE ResultPersistenceProofs -----------------------
(***************************************************************************)
(* Proofs about ResultPersistence, for any set of workers, timers, messages *)
(* and results, any hit size and any number of failures and restarts.       *)
(***************************************************************************)
EXTENDS ResultPersistence, SequenceTheorems, TLAPS

\* Who is between lock() and unlock() owns the lock; a leaked lock is owned
\* by nobody inside. unlock() is only called with a hold to give back.
LockInv ==
  /\ \A t \in Threads : pc[t] \in Inside => owner = t
  /\ owner # NoThread => holds > 0

\* Until the list is cleared it still holds all of the copy; without a thread
\* inside there is no copy.
CopyInv ==
  /\ Clearing => \A r \in Results : pojos[r] =< buffer[r]
  /\ (\A t \in Threads : pc[t] \notin Inside) => pojos = Zero

IInv == TypeOK /\ LockInv /\ CopyInv

USE DEF Threads, Counts, Zero, Inside, WorkerPc, TimerPc

LEMMA ZeroCounts == Zero \in Counts
  OBVIOUS

LEMMA PlusCounts ==
  ASSUME NEW f \in Counts, NEW g \in Counts
  PROVE  Plus(f, g) \in Counts
  BY DEF Plus

LEMMA PlusOnceCounts ==
  ASSUME NEW f \in Counts, NEW S
  PROVE  PlusOnce(f, S) \in Counts
  BY DEF PlusOnce

\* Replacing the head of the work by what is left of it keeps its type.
LEMMA WorkTyped ==
  ASSUME NEW S, NEW e \in Seq(Seq(S)), e # <<>>
  PROVE  /\ Tail(e) \in Seq(Seq(S))
         /\ Head(e) \in Seq(S)
         /\ Head(e) # <<>> => <<Tail(Head(e))>> \o Tail(e) \in Seq(Seq(S))
  <1>1. Tail(e) \in Seq(Seq(S)) /\ Head(e) \in Seq(S)
    BY HeadTailProperties
  <1>2. Head(e) # <<>> => Tail(Head(e)) \in Seq(S)
    BY <1>1, HeadTailProperties
  <1>3. Head(e) # <<>> => <<Tail(Head(e))>> \in Seq(Seq(S))
    BY <1>2
  <1>4. QED
    BY <1>1, <1>3, ConcatProperties

LEMMA TypeInit == Init => TypeOK
  BY PersistenceAssumption, ZeroCounts, EmptySeq DEF Init, TypeOK, RestPc, NoWork

LEMMA TypeStep == TypeOK /\ LockInv /\ [Next]_vars => TypeOK'
  <1> SUFFICES ASSUME TypeOK, LockInv, [Next]_vars PROVE TypeOK'
    OBVIOUS
  <1> USE PersistenceAssumption
  <1>1. ASSUME NEW m \in Messages, Emit(m) PROVE TypeOK'
    BY <1>1 DEF Emit, TypeOK
  <1>2. ASSUME NEW w \in Workers, NEW m \in Messages, TakeMessage(w, m) PROVE TypeOK'
    BY <1>2 DEF TakeMessage, TypeOK
  <1>3. ASSUME NEW w \in Workers, NEW t \in Timers, CreateScheduler(w, t) PROVE TypeOK'
    BY <1>3 DEF CreateScheduler, TypeOK
  <1>4. ASSUME NEW w \in Workers, AddResults(w) PROVE TypeOK'
    <2>1. buffer' \in Counts /\ stages' \in Counts
      BY <1>4, PlusOnceCounts DEF AddResults, TypeOK
    <2>2. <<Tail(Entity(w))>> \o Tail(todo[w]) \in Seq(Seq(SUBSET Results))
      BY <1>4, WorkTyped DEF AddResults, TypeOK, Entity
    <2>3. todo' \in [Workers -> Seq(Seq(SUBSET Results))]
      BY <1>4, <2>2 DEF AddResults, TypeOK
    <2>4. QED
      BY <1>4, <2>1, <2>3 DEF AddResults, TypeOK
  <1>5. ASSUME NEW w \in Workers, GetResultFails(w) PROVE TypeOK'
    BY <1>5, EmptySeq DEF GetResultFails, TypeOK
  <1>6. ASSUME NEW w \in Workers, CountEntity(w) PROVE TypeOK'
    <2>1. Tail(todo[w]) \in Seq(Seq(SUBSET Results))
      BY <1>6, WorkTyped DEF CountEntity, TypeOK
    <2>2. QED
      BY <1>6, <2>1 DEF CountEntity, TypeOK
  <1>7. ASSUME NEW w \in Workers, CheckHit(w) PROVE TypeOK'
    BY <1>7 DEF CheckHit, TypeOK
  <1>8. ASSUME NEW t \in Threads, Snapshot(t) PROVE TypeOK'
    <2>1. CASE buffer = Zero
      <3>1. pc' = [pc EXCEPT ![t] = "idle"] /\ UNCHANGED <<owner, holds, pojos>>
        BY <1>8, <2>1 DEF Snapshot
      <3>2. QED
        BY <1>8, <3>1 DEF Snapshot, TypeOK
    <2>2. CASE buffer # Zero
      <3>1. /\ pc' = [pc EXCEPT ![t] = "clear"]
            /\ owner' = t /\ holds' = holds + 1 /\ pojos' = buffer
        BY <1>8, <2>2 DEF Snapshot
      <3>2. QED
        BY <1>8, <3>1 DEF Snapshot, TypeOK
    <2>3. QED
      BY <2>1, <2>2
  <1>9. ASSUME NEW t \in Threads, ClearList(t) PROVE TypeOK'
    BY <1>9, ZeroCounts DEF ClearList, TypeOK
  <1>10. ASSUME NEW t \in Threads, ResetAdder(t) PROVE TypeOK'
    BY <1>10 DEF ResetAdder, TypeOK
  <1>11. ASSUME NEW t \in Threads, SaveResult(t) PROVE TypeOK'
    <2>1. rows' \in Counts /\ pojos' \in Counts
      BY <1>11, PlusCounts, ZeroCounts DEF SaveResult, TypeOK
    <2>2. owner = t /\ owner # NoThread
      BY <1>11 DEF SaveResult, LockInv, TypeOK
    <2>3. holds' \in Nat
      BY <1>11, <2>2 DEF SaveResult, LockInv, TypeOK
    <2>4. QED
      BY <1>11, <2>1, <2>3 DEF SaveResult, TypeOK
  <1>12. ASSUME NEW t \in Threads, SaveResultFails(t) PROVE TypeOK'
    BY <1>12, ZeroCounts DEF SaveResultFails, TypeOK
  <1>13. CASE Crash
    BY <1>13, ZeroCounts, EmptySeq DEF Crash, TypeOK, RestPc, NoWork
  <1>14. CASE UNCHANGED vars
    BY <1>14 DEF TypeOK, vars, memory
  <1>15. QED
    BY <1>1, <1>2, <1>3, <1>4, <1>5, <1>6, <1>7, <1>8, <1>9, <1>10, <1>11, <1>12,
       <1>13, <1>14 DEF Next, Collect, Persistence

LEMMA LockInit == Init => LockInv
  BY PersistenceAssumption DEF Init, LockInv, RestPc

LEMMA LockStep == TypeOK /\ LockInv /\ [Next]_vars => LockInv'
  <1> SUFFICES ASSUME TypeOK, LockInv, [Next]_vars PROVE LockInv'
    OBVIOUS
  <1> USE PersistenceAssumption
  <1>1. ASSUME NEW m \in Messages, Emit(m) PROVE LockInv'
    BY <1>1 DEF Emit, LockInv
  <1>2. ASSUME NEW w \in Workers, NEW m \in Messages, TakeMessage(w, m) PROVE LockInv'
    BY <1>2 DEF TakeMessage, TypeOK, LockInv
  <1>3. ASSUME NEW w \in Workers, NEW t \in Timers, CreateScheduler(w, t) PROVE LockInv'
    BY <1>3 DEF CreateScheduler, TypeOK, LockInv
  <1>4. ASSUME NEW w \in Workers, AddResults(w) PROVE LockInv'
    BY <1>4 DEF AddResults, LockInv
  <1>5. ASSUME NEW w \in Workers, GetResultFails(w) PROVE LockInv'
    BY <1>5 DEF GetResultFails, TypeOK, LockInv
  <1>6. ASSUME NEW w \in Workers, CountEntity(w) PROVE LockInv'
    BY <1>6 DEF CountEntity, LockInv
  <1>7. ASSUME NEW w \in Workers, CheckHit(w) PROVE LockInv'
    BY <1>7 DEF CheckHit, TypeOK, LockInv
  <1>8. ASSUME NEW t \in Threads, Snapshot(t) PROVE LockInv'
    <2>1. \A u \in Threads \ {t} : pc[u] \notin Inside
      BY <1>8 DEF Snapshot, LockInv
    <2>2. CASE buffer = Zero
      <3>1. pc' = [pc EXCEPT ![t] = "idle"] /\ UNCHANGED <<owner, holds>>
        BY <1>8, <2>2 DEF Snapshot
      <3>2. QED
        BY <3>1 DEF TypeOK, LockInv
    <2>3. CASE buffer # Zero
      <3>1. pc' = [pc EXCEPT ![t] = "clear"] /\ owner' = t /\ holds' = holds + 1
        BY <1>8, <2>3 DEF Snapshot
      <3>2. QED
        BY <2>1, <3>1 DEF TypeOK, LockInv
    <2>4. QED
      BY <2>2, <2>3
  <1>9. ASSUME NEW t \in Threads, ClearList(t) PROVE LockInv'
    BY <1>9 DEF ClearList, TypeOK, LockInv
  <1>10. ASSUME NEW t \in Threads, ResetAdder(t) PROVE LockInv'
    BY <1>10 DEF ResetAdder, TypeOK, LockInv
  <1>11. ASSUME NEW t \in Threads, SaveResult(t) PROVE LockInv'
    <2>1. owner = t /\ holds > 0
      BY <1>11 DEF SaveResult, LockInv
    <2>2. \A u \in Threads : pc'[u] \notin Inside
      BY <1>11, <2>1 DEF SaveResult, TypeOK, LockInv
    <2>3. owner' # NoThread => holds' > 0
      BY <1>11, <2>1 DEF SaveResult, TypeOK
    <2>4. QED
      BY <2>2, <2>3 DEF LockInv
  <1>12. ASSUME NEW t \in Threads, SaveResultFails(t) PROVE LockInv'
    BY <1>12 DEF SaveResultFails, TypeOK, LockInv
  <1>13. CASE Crash
    BY <1>13 DEF Crash, LockInv, RestPc
  <1>14. CASE UNCHANGED vars
    BY <1>14 DEF LockInv, vars, memory
  <1>15. QED
    BY <1>1, <1>2, <1>3, <1>4, <1>5, <1>6, <1>7, <1>8, <1>9, <1>10, <1>11, <1>12,
       <1>13, <1>14 DEF Next, Collect, Persistence

\* The lock excludes: a thread inside is inside alone.
LEMMA InsideAlone ==
  ASSUME LockInv, NEW t \in Threads, pc[t] \in Inside
  PROVE  \A u \in Threads \ {t} : pc[u] \notin Inside
  BY DEF LockInv

LEMMA CopyInit == Init => CopyInv
  BY PersistenceAssumption DEF Init, CopyInv, RestPc, Clearing

LEMMA CopyStep == IInv /\ [Next]_vars => CopyInv'
  <1> SUFFICES ASSUME TypeOK, LockInv, CopyInv, [Next]_vars PROVE CopyInv'
    BY DEF IInv
  <1> USE PersistenceAssumption
  <1>1. ASSUME NEW m \in Messages, Emit(m) PROVE CopyInv'
    BY <1>1 DEF Emit, CopyInv, Clearing
  <1>2. ASSUME NEW w \in Workers, NEW m \in Messages, TakeMessage(w, m) PROVE CopyInv'
    BY <1>2 DEF TakeMessage, TypeOK, CopyInv, Clearing
  <1>3. ASSUME NEW w \in Workers, NEW t \in Timers, CreateScheduler(w, t) PROVE CopyInv'
    BY <1>3 DEF CreateScheduler, TypeOK, CopyInv, Clearing
  <1>4. ASSUME NEW w \in Workers, AddResults(w) PROVE CopyInv'
    <2>1. \A r \in Results : buffer[r] =< buffer'[r]
      BY <1>4 DEF AddResults, PlusOnce, TypeOK
    <2>2. Clearing' = Clearing /\ pc' = pc /\ pojos' = pojos
      BY <1>4 DEF AddResults, Clearing
    <2>3. Clearing' => \A r \in Results : pojos'[r] =< buffer'[r]
      <3> SUFFICES ASSUME Clearing, NEW r \in Results PROVE pojos[r] =< buffer'[r]
        BY <2>2
      <3>1. pojos[r] =< buffer[r] /\ buffer[r] =< buffer'[r]
        BY <2>1 DEF CopyInv
      <3>2. pojos[r] \in Nat /\ buffer[r] \in Nat /\ buffer'[r] \in Nat
        BY <1>4 DEF TypeOK, AddResults, PlusOnce
      <3>3. QED
        BY <3>1, <3>2
    <2>4. QED
      BY <2>2, <2>3 DEF CopyInv
  <1>5. ASSUME NEW w \in Workers, GetResultFails(w) PROVE CopyInv'
    BY <1>5 DEF GetResultFails, TypeOK, CopyInv, Clearing
  <1>6. ASSUME NEW w \in Workers, CountEntity(w) PROVE CopyInv'
    BY <1>6 DEF CountEntity, CopyInv, Clearing
  <1>7. ASSUME NEW w \in Workers, CheckHit(w) PROVE CopyInv'
    BY <1>7 DEF CheckHit, TypeOK, CopyInv, Clearing
  <1>8. ASSUME NEW t \in Threads, Snapshot(t) PROVE CopyInv'
    <2>1. \A u \in Threads : pc[u] \notin Inside
      BY <1>8 DEF Snapshot, WantsFlush, LockInv
    <2>2. CASE buffer = Zero
      <3>1. pc' = [pc EXCEPT ![t] = "idle"] /\ UNCHANGED <<buffer, pojos>>
        BY <1>8, <2>2 DEF Snapshot
      <3>2. QED
        BY <2>1, <3>1 DEF TypeOK, CopyInv, Clearing
    <2>3. CASE buffer # Zero
      <3>1. pc' = [pc EXCEPT ![t] = "clear"] /\ pojos' = buffer /\ buffer' = buffer
        BY <1>8, <2>3 DEF Snapshot
      <3>2. QED
        BY <3>1 DEF TypeOK, CopyInv, Clearing
    <2>4. QED
      BY <2>2, <2>3
  <1>9. ASSUME NEW t \in Threads, ClearList(t) PROVE CopyInv'
    <2>1. \A u \in Threads : pc'[u] # "clear"
      BY <1>9, InsideAlone DEF ClearList, TypeOK
    <2>2. pc'[t] \in Inside
      BY <1>9 DEF ClearList, TypeOK
    <2>3. QED
      BY <2>1, <2>2 DEF CopyInv, Clearing
  <1>10. ASSUME NEW t \in Threads, ResetAdder(t) PROVE CopyInv'
    BY <1>10, InsideAlone DEF ResetAdder, TypeOK, CopyInv, Clearing
  <1>11. ASSUME NEW t \in Threads, SaveResult(t) PROVE CopyInv'
    BY <1>11, InsideAlone DEF SaveResult, TypeOK, CopyInv, Clearing
  <1>12. ASSUME NEW t \in Threads, SaveResultFails(t) PROVE CopyInv'
    BY <1>12, InsideAlone DEF SaveResultFails, TypeOK, CopyInv, Clearing
  <1>13. CASE Crash
    BY <1>13 DEF Crash, CopyInv, Clearing, RestPc
  <1>14. CASE UNCHANGED vars
    BY <1>14 DEF CopyInv, Clearing, vars, memory
  <1>15. QED
    BY <1>1, <1>2, <1>3, <1>4, <1>5, <1>6, <1>7, <1>8, <1>9, <1>10, <1>11, <1>12,
       <1>13, <1>14 DEF Next, Collect, Persistence

\* The lock, the copy and the types are as every thread expects them, always.
THEOREM InductiveInvariant == Spec => []IInv
  <1>1. Init => IInv
    BY TypeInit, LockInit, CopyInit DEF IInv
  <1>2. IInv /\ [Next]_vars => IInv'
    BY TypeStep, LockStep, CopyStep DEF IInv
  <1>3. QED
    BY <1>1, <1>2, PTL DEF Spec

\* Every variable keeps its type: in particular adder never goes below zero
\* and unlock() is never called without a hold.
THEOREM TypeCorrect == Spec => []TypeOK
  <1>1. IInv => TypeOK
    BY DEF IInv
  <1>2. QED
    BY <1>1, InductiveInvariant, PTL

\* persistence() is a critical section, although a failed save leaks the lock.
THEOREM FlushesExclude == Spec => []OneFlushAtATime
  <1>1. IInv => OneFlushAtATime
    BY DEF IInv, LockInv, OneFlushAtATime
  <1>2. QED
    BY <1>1, InductiveInvariant, PTL

------------------------------------------------------------------------------
(* The hit size.                                                            *)

\* Someone will still test adder, wait for the lock, or clear the list.
Minding(t) == pc[t] \in {"work", "lock", "clear"}

HitInv ==
  failures = 0 /\ adder >= HitSize /\ buffer # Zero => \E t \in Threads : Minding(t)

LEMMA HitStep ==
  ASSUME TypeOK, HitInv, [Next]_vars
  PROVE  HitInv'
<1>1. HitSize \in Nat \ {0} /\ failures \in Nat
  BY PersistenceAssumption DEF TypeOK
<1>2. ASSUME UNCHANGED <<buffer, adder>>, failures' = failures,
             \A t \in Threads : Minding(t) => Minding(t)'
      PROVE  HitInv'
  BY <1>2 DEF HitInv, Zero
<1>3. ASSUME NEW t \in Threads, Minding(t)'
      PROVE  HitInv'
  BY <1>3 DEF HitInv
<1>4. ASSUME failures' = failures + 1
      PROVE  HitInv'
  BY <1>1, <1>4 DEF HitInv
<1>5. ASSUME buffer' = Zero
      PROVE  HitInv'
  BY <1>5 DEF HitInv, Zero
<1>6. ASSUME NEW t \in Threads, NEW where, pc' = [pc EXCEPT ![t] = where], ~Minding(t),
             UNCHANGED <<buffer, adder, failures>>
      PROVE  HitInv'
  <2>1. \A u \in Threads : Minding(u) => Minding(u)'
    BY <1>6 DEF Minding, TypeOK
  <2> QED
    BY <1>2, <1>6, <2>1
<1>7. CASE \/ \E m \in Messages : Emit(m)
           \/ UNCHANGED vars
  BY <1>2, <1>7 DEF Emit, Minding, vars, memory
<1>8. ASSUME NEW w \in Workers, NEW m \in Messages, TakeMessage(w, m)
      PROVE  HitInv'
  <2>1. ~Minding(w) /\ w \in Threads
    BY <1>8 DEF TakeMessage, Minding, Threads
  <2> QED
    BY <1>6, <1>8, <2>1 DEF TakeMessage
<1>9. ASSUME NEW w \in Workers, NEW t \in Timers, CreateScheduler(w, t)
      PROVE  HitInv'
  <2>1. w \in Threads /\ w # t /\ pc'[w] = "work"
    BY <1>9, PersistenceAssumption DEF CreateScheduler, TypeOK, Threads
  <2> QED
    BY <1>3, <2>1 DEF Minding
<1>10. ASSUME NEW w \in Workers, AddResults(w) \/ CountEntity(w)
       PROVE  HitInv'
  <2>1. w \in Threads /\ pc'[w] = "work"
    BY <1>10 DEF AddResults, CountEntity, Threads
  <2> QED
    BY <1>3, <2>1 DEF Minding
<1>11. ASSUME NEW w \in Workers, CheckHit(w)
       PROVE  HitInv'
  <2>1. CASE adder >= HitSize
    <3>1. w \in Threads /\ pc'[w] = "lock"
      BY <1>11, <2>1 DEF CheckHit, TypeOK, Threads
    <3> QED
      BY <1>3, <3>1 DEF Minding
  <2>2. CASE ~ (adder >= HitSize)
    BY <1>11, <2>2 DEF CheckHit, HitInv
  <2> QED
    BY <2>1, <2>2
<1>12. ASSUME NEW t \in Threads, Snapshot(t)
       PROVE  HitInv'
  <2>1. CASE buffer = Zero
    BY <1>5, <1>12, <2>1 DEF Snapshot
  <2>2. CASE buffer # Zero
    <3>1. pc'[t] = "clear"
      BY <1>12, <2>2 DEF Snapshot, TypeOK
    <3> QED
      BY <1>3, <3>1 DEF Minding
  <2> QED
    BY <2>1, <2>2
<1>13. ASSUME NEW t \in Threads, ResetAdder(t)
       PROVE  HitInv'
  BY <1>1, <1>13 DEF ResetAdder, HitInv
<1>14. ASSUME NEW t \in Threads, SaveResult(t)
       PROVE  HitInv'
  <2>1. ~Minding(t)
    BY <1>14 DEF SaveResult, Minding
  <2> QED
    BY <1>6, <1>14, <2>1 DEF SaveResult
<1>15. CASE \/ \E w \in Workers : GetResultFails(w)
            \/ \E t \in Threads : SaveResultFails(t)
  BY <1>4, <1>15 DEF GetResultFails, SaveResultFails
<1>16. CASE \/ \E t \in Threads : ClearList(t)
            \/ Crash
  BY <1>5, <1>16 DEF ClearList, Crash
<1> QED
  BY <1>7, <1>8, <1>9, <1>10, <1>11, <1>12, <1>13, <1>14, <1>15, <1>16
     DEF Next, Collect, Persistence

\* While nothing fails, a list that has reached the hit size is never left to
\* the timers: some thread still has to test adder or is flushing.
THEOREM HitSizeMinded == Spec => []HitFlushed
  <1>1. Init => HitInv
    BY DEF Init, HitInv
  <1>2. IInv /\ HitInv /\ [Next]_vars => HitInv'
    BY HitStep DEF IInv
  <1>3. IInv /\ HitInv => HitFlushed
    <2> SUFFICES ASSUME TypeOK, HitInv, failures = 0,
                        \A t \in Threads : pc[t] \in {"none", "idle"}
                 PROVE  adder < HitSize \/ buffer = Zero
      BY DEF IInv, HitFlushed
    <2>1. \A t \in Threads : ~Minding(t)
      BY DEF Minding
    <2>2. adder \in Nat /\ HitSize \in Nat
      BY PersistenceAssumption DEF TypeOK
    <2>3. adder >= HitSize \/ adder < HitSize
      BY <2>2
    <2> QED
      BY <2>1, <2>3 DEF HitInv
  <1>4. QED
    BY <1>1, <1>2, <1>3, InductiveInvariant, PTL DEF Spec

------------------------------------------------------------------------------
(* Who flushes the list: the safety half of ListDrains.                     *)

\* A flag is set only after its timer was made, a worker fills the list only
\* after its flag was set, and without failures the lock is held once, by the
\* thread inside.
FlushInv ==
  /\ \A w \in Workers : pc[w] = "work" => Serves[w] \in inited
  /\ buffer # Zero => inited # {}
  /\ inited # {} => \E t \in Timers : pc[t] # "none"
  /\ failures = 0 => /\ owner # NoThread => pc[owner] \in Inside /\ holds = 1
                     /\ owner = NoThread => holds = 0

LEMMA FlushStep ==
  ASSUME IInv, FlushInv, [Next]_vars
  PROVE  FlushInv'
<1> USE PersistenceAssumption
<1>1. /\ TypeOK /\ LockInv /\ failures \in Nat
      /\ pc \in [Threads -> WorkerPc \cup TimerPc] /\ owner \in Threads \cup {NoThread}
  BY DEF IInv, TypeOK
\* A step of one thread that creates no timer and changes neither flags nor lock.
<1>2. ASSUME NEW t \in Threads, NEW p, p # "none",
             pc' = [pc EXCEPT ![t] = p], inited' = inited
      PROVE  inited' # {} => \E u \in Timers : pc'[u] # "none"
  BY <1>1, <1>2 DEF FlushInv
<1>3. ASSUME NEW m \in Messages, Emit(m) PROVE FlushInv'
  BY <1>3 DEF Emit, FlushInv
<1>4. ASSUME NEW w \in Workers, NEW m \in Messages, TakeMessage(w, m) PROVE FlushInv'
  <2>1. owner # w \/ failures # 0
    BY <1>4 DEF TakeMessage, FlushInv
  <2> QED
    BY <1>1, <1>2, <1>4, <2>1 DEF TakeMessage, FlushInv
<1>5. ASSUME NEW w \in Workers, NEW t \in Timers, CreateScheduler(w, t) PROVE FlushInv'
  <2>1. failures = 0 => owner # w /\ owner # t
    BY <1>5 DEF CreateScheduler, FlushInv
  <2>2. pc'[t] # "none"
    BY <1>1, <1>5 DEF CreateScheduler
  <2>3. \A v \in Workers : pc'[v] = "work" => Serves[v] \in inited'
    BY <1>1, <1>5 DEF CreateScheduler, FlushInv
  <2>4. inited' # {}
    BY <1>5 DEF CreateScheduler
  <2>5. failures' = 0 =>
          /\ owner' # NoThread => pc'[owner'] \in Inside /\ holds' = 1
          /\ owner' = NoThread => holds' = 0
    <3>1. \A u \in Threads : failures = 0 /\ u = owner => pc'[u] = pc[u]
      BY <1>1, <1>5, <2>1 DEF CreateScheduler
    <3> QED
      BY <1>1, <1>5, <3>1 DEF CreateScheduler, FlushInv
  <2> QED
    BY <2>2, <2>3, <2>4, <2>5 DEF FlushInv
<1>6. ASSUME NEW w \in Workers, AddResults(w) PROVE FlushInv'
  BY <1>6 DEF AddResults, FlushInv
<1>7. ASSUME NEW w \in Workers, CountEntity(w) PROVE FlushInv'
  BY <1>7 DEF CountEntity, FlushInv
<1>8. ASSUME NEW w \in Workers, CheckHit(w) PROVE FlushInv'
  <2>1. failures = 0 => owner # w
    BY <1>8 DEF CheckHit, FlushInv
  <2> QED
    BY <1>1, <1>2, <1>8, <2>1 DEF CheckHit, FlushInv
<1>9. ASSUME NEW w \in Workers, GetResultFails(w) PROVE FlushInv'
  <2>1. inited' # {} => \E u \in Timers : pc'[u] # "none"
    BY <1>2, <1>9 DEF GetResultFails
  <2>2. failures' # 0
    BY <1>1, <1>9 DEF GetResultFails
  <2>3. \A v \in Workers : pc'[v] = "work" => Serves[v] \in inited'
    BY <1>1, <1>9 DEF GetResultFails, FlushInv
  <2> QED
    BY <1>9, <2>1, <2>2, <2>3 DEF GetResultFails, FlushInv
<1>10. ASSUME NEW t \in Threads, Snapshot(t) PROVE FlushInv'
  <2>1. failures = 0 => owner = NoThread /\ holds = 0
    BY <1>10 DEF Snapshot, WantsFlush, FlushInv
  <2>2. CASE buffer = Zero
    BY <1>1, <1>2, <1>10, <2>1, <2>2 DEF Snapshot, FlushInv
  <2>3. CASE buffer # Zero
    BY <1>1, <1>2, <1>10, <2>1, <2>3 DEF Snapshot, FlushInv
  <2> QED
    BY <2>2, <2>3
<1>11. ASSUME NEW t \in Threads, ClearList(t) PROVE FlushInv'
  BY <1>1, <1>2, <1>11 DEF ClearList, FlushInv
<1>12. ASSUME NEW t \in Threads, ResetAdder(t) PROVE FlushInv'
  BY <1>1, <1>2, <1>12 DEF ResetAdder, FlushInv
<1>13. ASSUME NEW t \in Threads, SaveResult(t) PROVE FlushInv'
  <2>1. owner = t /\ t # NoThread
    BY <1>1, <1>13 DEF SaveResult, LockInv
  <2>2. failures' = 0 => owner' = NoThread /\ holds' = 0
    BY <1>13, <2>1 DEF SaveResult, FlushInv
  <2> QED
    BY <1>1, <1>2, <1>13, <2>2 DEF SaveResult, FlushInv
<1>14. ASSUME NEW t \in Threads, SaveResultFails(t) PROVE FlushInv'
  BY <1>1, <1>2, <1>14 DEF SaveResultFails, FlushInv
<1>15. CASE Crash
  BY <1>15 DEF Crash, RestPc, FlushInv
<1>16. CASE UNCHANGED vars
  BY <1>16 DEF vars, memory, FlushInv
<1> QED
  BY <1>3, <1>4, <1>5, <1>6, <1>7, <1>8, <1>9, <1>10, <1>11, <1>12, <1>13, <1>14,
     <1>15, <1>16 DEF Next, Collect, Persistence

\* While nothing fails, rows in the list have a timer that is to flush them, and
\* nobody waits for a lock that will not be given back.
THEOREM FlushersStay == Spec => []FlusherThere
  <1>1. Init => FlushInv
    BY PersistenceAssumption DEF Init, RestPc, FlushInv
  <1>2. IInv /\ FlushInv /\ [Next]_vars => FlushInv'
    BY FlushStep
  <1>3. FlushInv => FlusherThere
    BY DEF FlushInv, FlusherThere
  <1>4. QED
    BY <1>1, <1>2, <1>3, InductiveInvariant, PTL DEF Spec

------------------------------------------------------------------------------
(* The refinement of ResultStore.                                           *)

Pending == [r \in Results |-> Waiting(r)]

\* Counting the rows that wait, with and without a copy that is not cleared.
LEMMA PendingValue ==
  ASSUME TypeOK
  PROVE  /\ Pending \in Counts
         /\ \A r \in Results : Pending[r] = Waiting(r)
         /\ Clearing => \A r \in Results : Pending[r] = buffer[r]
         /\ ~Clearing => \A r \in Results : Pending[r] = buffer[r] + pojos[r]
  BY DEF TypeOK, Pending, Waiting, Clearing

\* The same of the state after a step.
LEMMA PendingNext ==
  ASSUME TypeOK'
  PROVE  /\ Pending' \in Counts
         /\ \A r \in Results : Pending'[r] = Waiting(r)'
         /\ Clearing' => \A r \in Results : Pending'[r] = buffer'[r]
         /\ ~Clearing' => \A r \in Results : Pending'[r] = buffer'[r] + pojos'[r]
  BY DEF TypeOK, Pending, Waiting, Clearing

\* A step that touches neither rows nor list nor copy is none of the store's.
LEMMA NoStoreStep ==
  ASSUME UNCHANGED <<buffer, pojos, rows, stages>>, Clearing' = Clearing
  PROVE  UNCHANGED <<stages, Pending, rows>>
  BY DEF Pending, Waiting

LEMMA InitStore == Init => Store!StoreInit
  <1> SUFFICES ASSUME Init PROVE Store!StoreInit
    OBVIOUS
  <1>1. ~Clearing /\ buffer = Zero /\ pojos = Zero /\ rows = Zero /\ stages = Zero
    BY PersistenceAssumption DEF Init, Clearing, RestPc
  <1>2. [r \in Results |-> Waiting(r)] = Zero
    BY <1>1 DEF Waiting
  <1>3. QED
    BY <1>1, <1>2 DEF Store!StoreInit, Store!Zero

\* Every step of the threads is a step of the store or invisible to it.
LEMMA StepStore ==
  IInv /\ IInv' /\ [Next]_vars => [Store!StoreNext]_(Store!storeVars)
  <1> SUFFICES ASSUME TypeOK, LockInv, CopyInv, TypeOK', [Next]_vars
               PROVE  Store!StoreNext \/ UNCHANGED <<stages, Pending, rows>>
    BY DEF IInv, Store!storeVars, Pending
  <1> USE PersistenceAssumption
  <1> DEFINE Step == Store!StoreNext \/ UNCHANGED <<stages, Pending, rows>>
  <1>nat. \A r \in Results : buffer[r] \in Nat /\ pojos[r] \in Nat /\ rows[r] \in Nat
    BY DEF TypeOK
  <1>drop. ASSUME UNCHANGED <<stages, rows>>,
                  \A r \in Results : Pending'[r] =< Pending[r]
           PROVE  Step
    <2>1. Pending' \in Counts
      BY PendingValue, PendingNext
    <2>2. Store!Drop
      BY <1>drop, <2>1 DEF Store!Drop, Store!Counts, Pending
    <2>3. QED
      BY <2>2 DEF Store!StoreNext
  <1>1. ASSUME NEW m \in Messages, Emit(m) PROVE Step
    BY <1>1, NoStoreStep DEF Emit, Clearing
  <1>2. ASSUME NEW w \in Workers, NEW m \in Messages, TakeMessage(w, m) PROVE Step
    BY <1>2, NoStoreStep DEF TakeMessage, TypeOK, Clearing
  <1>3. ASSUME NEW w \in Workers, NEW t \in Timers, CreateScheduler(w, t) PROVE Step
    BY <1>3, NoStoreStep DEF CreateScheduler, TypeOK, Clearing
  <1>4. ASSUME NEW w \in Workers, AddResults(w) PROVE Step
    <2> DEFINE batch == Head(Entity(w))
    <2>1. batch \in SUBSET Results
      <3>1. Entity(w) \in Seq(SUBSET Results) /\ Entity(w) # <<>>
        BY <1>4, WorkTyped DEF AddResults, TypeOK, Entity
      <3>2. QED
        BY <3>1, HeadTailProperties
    <2>2. Clearing' = Clearing /\ UNCHANGED <<pojos, rows>>
      BY <1>4 DEF AddResults, Clearing
    <2>3. stages' = [r \in Results |-> IF r \in batch THEN stages[r] + 1 ELSE stages[r]]
      BY <1>4 DEF AddResults, PlusOnce
    <2>4. \A r \in Results : buffer'[r] = IF r \in batch THEN buffer[r] + 1 ELSE buffer[r]
      BY <1>4 DEF AddResults, PlusOnce
    <2>5. \A r \in Results : Pending'[r] = IF r \in batch THEN Pending[r] + 1 ELSE Pending[r]
      <3>1. CASE Clearing
        BY <2>2, <2>4, <3>1, PendingValue, PendingNext
      <3>2. CASE ~Clearing
        <4>1. \A r \in Results : /\ buffer[r] \in Nat /\ pojos[r] \in Nat
                                 /\ Pending[r] = buffer[r] + pojos[r]
                                 /\ Pending'[r] = buffer'[r] + pojos[r]
          BY <1>nat, <2>2, <3>2, PendingValue, PendingNext
        <4>2. QED
          BY <4>1, <2>4
      <3>3. QED
        BY <3>1, <3>2
    <2>6. Pending' = [r \in Results |-> IF r \in batch THEN Pending[r] + 1 ELSE Pending[r]]
      BY <2>5, PendingValue, PendingNext DEF Pending
    <2>7. Store!Submit(batch)
      BY <2>2, <2>3, <2>6 DEF Store!Submit, Pending
    <2>8. QED
      BY <2>1, <2>7 DEF Store!StoreNext
  <1>5. ASSUME NEW w \in Workers, GetResultFails(w) PROVE Step
    BY <1>5, NoStoreStep DEF GetResultFails, TypeOK, Clearing
  <1>6. ASSUME NEW w \in Workers, CountEntity(w) PROVE Step
    BY <1>6, NoStoreStep DEF CountEntity, Clearing
  <1>7. ASSUME NEW w \in Workers, CheckHit(w) PROVE Step
    BY <1>7, NoStoreStep DEF CheckHit, TypeOK, Clearing
  <1>8. ASSUME NEW t \in Threads, Snapshot(t) PROVE Step
    <2>1. (\A u \in Threads : pc[u] \notin Inside) /\ UNCHANGED <<buffer, rows, stages>>
      BY <1>8 DEF Snapshot, WantsFlush, LockInv
    <2>2. ~Clearing /\ pojos = Zero
      BY <2>1 DEF Clearing, CopyInv
    <2>3. \A r \in Results : Pending[r] = buffer[r]
      BY <1>nat, <2>2, PendingValue
    <2>4. CASE buffer = Zero
      <3>1. pc' = [pc EXCEPT ![t] = "idle"] /\ UNCHANGED pojos
        BY <1>8, <2>4 DEF Snapshot
      <3>2. ~Clearing'
        BY <2>1, <3>1 DEF TypeOK, Clearing
      <3>3. Clearing' = Clearing
        BY <2>2, <3>2 DEF Clearing
      <3>4. QED
        BY <2>1, <3>1, <3>3, NoStoreStep
    <2>5. CASE buffer # Zero
      <3>1. pc' = [pc EXCEPT ![t] = "clear"]
        BY <1>8, <2>5 DEF Snapshot
      <3>2. Clearing'
        BY <3>1 DEF TypeOK, Clearing
      <3>3. \A r \in Results : Pending'[r] = Pending[r]
        BY <2>1, <2>3, <3>2, PendingValue, PendingNext
      <3>4. Pending' = Pending
        BY <3>3, PendingValue, PendingNext DEF Pending
      <3>5. QED
        BY <2>1, <3>4
    <2>6. QED
      BY <2>4, <2>5
  <1>9. ASSUME NEW t \in Threads, ClearList(t) PROVE Step
    <2>1. Clearing /\ ~Clearing'
      BY <1>9, InsideAlone DEF ClearList, TypeOK, Clearing
    <2>2. buffer' = Zero /\ UNCHANGED <<pojos, rows, stages>>
      BY <1>9 DEF ClearList
    <2>3. \A r \in Results : /\ pojos[r] \in Nat /\ pojos[r] =< buffer[r]
                             /\ Pending[r] = buffer[r]
                             /\ Pending'[r] = 0 + pojos[r]
      BY <1>nat, <2>1, <2>2, PendingValue, PendingNext DEF CopyInv
    <2>4. \A r \in Results : Pending'[r] =< Pending[r]
      BY <2>3
    <2>5. QED
      BY <1>drop, <2>2, <2>4
  <1>10. ASSUME NEW t \in Threads, ResetAdder(t) PROVE Step
    BY <1>10, InsideAlone, NoStoreStep DEF ResetAdder, TypeOK, Clearing
  <1>save. ASSUME NEW t \in Threads, pc[t] = "save", pojos' = Zero,
                  NEW p \in {"idle", "dead"}, pc' = [pc EXCEPT ![t] = p],
                  UNCHANGED <<buffer, stages>>
           PROVE  \A r \in Results : /\ pojos[r] \in Nat /\ buffer[r] \in Nat
                                     /\ Pending[r] = buffer[r] + pojos[r]
                                     /\ Pending'[r] = buffer[r]
    <2>1. ~Clearing /\ ~Clearing'
      BY <1>save, InsideAlone DEF TypeOK, Clearing
    <2>2. \A r \in Results : Pending[r] = buffer[r] + pojos[r]
      BY <2>1, PendingValue
    <2>3. \A r \in Results : Pending'[r] = buffer[r] + 0
      BY <1>save, <2>1, PendingNext
    <2>4. QED
      BY <1>nat, <2>2, <2>3
  <1>11. ASSUME NEW t \in Threads, SaveResult(t) PROVE Step
    <2>1. \A r \in Results : /\ pojos[r] \in Nat /\ buffer[r] \in Nat
                             /\ Pending[r] = buffer[r] + pojos[r]
                             /\ Pending'[r] = buffer[r]
      BY <1>11, <1>save DEF SaveResult
    <2>2. \A r \in Results : rows'[r] = rows[r] + pojos[r]
      BY <1>11 DEF SaveResult, Plus
    <2>3. \A r \in Results : /\ Pending'[r] =< Pending[r]
                             /\ rows'[r] = rows[r] + (Pending[r] - Pending'[r])
      BY <1>nat, <2>1, <2>2
    <2>4. Pending' \in Counts /\ rows' \in Counts
      BY PendingValue, PendingNext DEF TypeOK
    <2>5. Store!StoreSome
      BY <1>11, <2>3, <2>4 DEF SaveResult, Store!StoreSome, Store!Counts, Pending
    <2>6. QED
      BY <2>5 DEF Store!StoreNext
  <1>12. ASSUME NEW t \in Threads, SaveResultFails(t) PROVE Step
    <2>1. \A r \in Results : /\ pojos[r] \in Nat /\ buffer[r] \in Nat
                             /\ Pending[r] = buffer[r] + pojos[r]
                             /\ Pending'[r] = buffer[r]
      BY <1>12, <1>save DEF SaveResultFails
    <2>2. \A r \in Results : Pending'[r] =< Pending[r]
      BY <2>1
    <2>3. QED
      BY <1>12, <1>drop, <2>2 DEF SaveResultFails
  <1>13. CASE Crash
    <2>1. ~Clearing' /\ buffer' = Zero /\ pojos' = Zero /\ UNCHANGED <<stages, rows>>
      BY <1>13 DEF Crash, Clearing, RestPc
    <2>2. \A r \in Results : Pending'[r] = 0 /\ Pending[r] \in Nat
      BY <2>1, PendingValue, PendingNext
    <2>3. QED
      BY <1>drop, <2>1, <2>2
  <1>14. CASE UNCHANGED vars
    BY <1>14, NoStoreStep DEF Clearing, vars, memory
  <1>15. QED
    BY <1>1, <1>2, <1>3, <1>4, <1>5, <1>6, <1>7, <1>8, <1>9, <1>10, <1>11, <1>12,
       <1>13, <1>14 DEF Next, Collect, Persistence

\* PersistenceServiceActivator implements the store that never writes a second
\* row, whatever its threads, its failures and its restarts.
THEOREM Refinement == Spec => ImplementsStore
  <1>1. IInv /\ IInv' /\ [Next]_vars => [Store!StoreNext]_(Store!storeVars)
    BY StepStore
  <1>2. QED
    BY <1>1, InitStore, InductiveInvariant, PTL DEF Spec, ImplementsStore, Store!StoreSpec

\* No result gets more rows than its stages were saved.
THEOREM NoSecondRow == Spec => []AtMostOnce
  <1>1. Init => AtMostOnce
    BY PersistenceAssumption DEF Init, AtMostOnce, Waiting, Clearing, RestPc
  <1>2. IInv /\ IInv' /\ [Next]_vars /\ AtMostOnce => AtMostOnce'
    <2> SUFFICES ASSUME TypeOK, TypeOK', AtMostOnce,
                        [Store!StoreNext]_(Store!storeVars)
                 PROVE  AtMostOnce'
      BY StepStore DEF IInv
    <2>1. /\ \A r \in Results : /\ Pending[r] = Waiting(r) /\ Pending[r] \in Nat
                                /\ rows[r] \in Nat /\ stages[r] \in Nat
                                /\ rows[r] + Pending[r] =< stages[r]
          /\ \A r \in Results : /\ Pending'[r] = Waiting(r)' /\ Pending'[r] \in Nat
                                /\ rows'[r] \in Nat /\ stages'[r] \in Nat
      BY PendingValue, PendingNext DEF TypeOK, AtMostOnce
    <2> SUFFICES \A r \in Results : rows'[r] + Pending'[r] =< stages'[r]
      BY <2>1 DEF AtMostOnce
    <2>2. ASSUME NEW batch \in SUBSET Results, Store!Submit(batch)
          PROVE  \A r \in Results : rows'[r] + Pending'[r] =< stages'[r]
      BY <2>1, <2>2 DEF Store!Submit, Pending
    <2>3. CASE Store!StoreSome
      BY <2>1, <2>3 DEF Store!StoreSome, Pending
    <2>4. CASE Store!Drop
      BY <2>1, <2>4 DEF Store!Drop, Pending
    <2>5. CASE UNCHANGED Store!storeVars
      BY <2>1, <2>5 DEF Store!storeVars, Pending
    <2>6. QED
      BY <2>2, <2>3, <2>4, <2>5 DEF Store!StoreNext
  <1>3. QED
    BY <1>1, <1>2, InductiveInvariant, PTL DEF Spec
==============================================================================
