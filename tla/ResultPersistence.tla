-------------------------- MODULE ResultPersistence --------------------------
(***************************************************************************)
(* PersistenceServiceActivator: the threads that take executed results from *)
(* the two output channels, collect their rows in the shared resultsList    *)
(* and write them to re_result in batches, either when adder reaches the    *)
(* hit size or when a scheduled flush fires.                                *)
(*                                                                          *)
(* A worker is a thread that polls an output channel (persistOrderRules or  *)
(* persistRule); a timer is a task made by scheduleAtFixedRate.  Both run   *)
(* persistence(), whose ReentrantLock does not cover the workers' addAll.   *)
(* A payload is a sequence of entities (RuleEntity), an entity a sequence   *)
(* of batches: the results of one match type that one getResult converts.   *)
(* What a row says is abstracted; resultsList, pojos and the two tables are *)
(* bags, as functions from a result to the number of its copies.            *)
(***************************************************************************)
EXTENDS Naturals, Sequences

CONSTANTS
  Workers,       \* threads of taskExecutor and singleTaskExecutor
  Timers,        \* scheduled flush tasks that can come to exist
  Channels,      \* ruleSetOutputChannel and rulesOutputChannel
  Serves,        \* Serves[w]: the channel worker w polls
  Messages,      \* messages the executors put on the output channels
  ChannelOf,     \* ChannelOf[m]: the channel of message m
  Payload,       \* Payload[m]: the entities message m carries
  Results,       \* results, each of one rule in one execution
  NoThread,      \* the lock has no owner
  HitSize,       \* si.db.persistence.hit.size
  MaxFailures,   \* bound: exceptions of the database or of a check
  MaxCrashes     \* bound: restarts of the process

Threads == Workers \cup Timers

ASSUME PersistenceAssumption ==
  /\ Workers \cap Timers = {}
  /\ NoThread \notin Threads
  /\ Serves \in [Workers -> Channels]
  /\ ChannelOf \in [Messages -> Channels]
  /\ Payload \in [Messages -> Seq(Seq(SUBSET Results))]
  /\ HitSize \in Nat \ {0}
  /\ MaxFailures \in Nat
  /\ MaxCrashes \in Nat

VARIABLES
  unsent,     \* messages the executors have not put on a channel yet
  inbox,      \* messages in the two in-memory QueueChannels
  inited,     \* channels whose scheduler flag (inited, singleInited) is set
  pc,         \* where each thread is
  todo,       \* entities each worker still has to convert, the head in part
  buffer,     \* resultsList
  adder,      \* adder
  owner,      \* the thread that owns lock
  holds,      \* lock's hold count
  pojos,      \* the copy that the thread inside persistence() took
  rows,       \* table re_result
  stages,     \* table re_match_stage: how often the stages of a result are there
  failures, crashes

memory == <<inbox, inited, pc, todo, buffer, adder, owner, holds, pojos>>
vars == <<memory, unsent, rows, stages, failures, crashes>>

Counts == [Results -> Nat]
Zero == [r \in Results |-> 0]
Plus(f, g) == [r \in Results |-> f[r] + g[r]]
PlusOnce(f, S) == [r \in Results |-> IF r \in S THEN f[r] + 1 ELSE f[r]]

WorkerPc == {"idle", "create", "work", "lock", "clear", "reset", "save"}
TimerPc == {"none", "idle", "clear", "reset", "save", "dead"}
Inside == {"clear", "reset", "save"}

TypeOK ==
  /\ unsent \subseteq Messages
  /\ inbox \subseteq Messages
  /\ inited \subseteq Channels
  /\ pc \in [Threads -> WorkerPc \cup TimerPc]
  /\ \A w \in Workers : pc[w] \in WorkerPc
  /\ \A t \in Timers : pc[t] \in TimerPc
  /\ todo \in [Workers -> Seq(Seq(SUBSET Results))]
  /\ buffer \in Counts /\ pojos \in Counts
  /\ rows \in Counts /\ stages \in Counts
  /\ adder \in Nat
  /\ owner \in Threads \cup {NoThread}
  /\ holds \in Nat
  /\ failures \in 0..MaxFailures
  /\ crashes \in 0..MaxCrashes

\* No thread has anything to do and no scheduler exists.
RestPc == [t \in Threads |-> IF t \in Workers THEN "idle" ELSE "none"]
NoWork == [w \in Workers |-> <<>>]

Init ==
  /\ unsent = Messages
  /\ inbox = {}
  /\ inited = {}
  /\ pc = RestPc
  /\ todo = NoWork
  /\ buffer = Zero
  /\ adder = 0
  /\ owner = NoThread
  /\ holds = 0
  /\ pojos = Zero
  /\ rows = Zero
  /\ stages = Zero
  /\ failures = 0
  /\ crashes = 0

------------------------------------------------------------------------------
(* The activators before this one put executed results on a channel.        *)

Emit(m) ==
  /\ m \in unsent
  /\ unsent' = unsent \ {m}
  /\ inbox' = inbox \cup {m}
  /\ UNCHANGED <<inited, pc, todo, buffer, adder, owner, holds, pojos,
                 rows, stages, failures, crashes>>

(* persistOrderRules and persistRule, up to the test of the adder.          *)

\* A poll hands a message to an idle worker, which reads its scheduler flag.
TakeMessage(w, m) ==
  /\ pc[w] = "idle"
  /\ m \in inbox
  /\ ChannelOf[m] = Serves[w]
  /\ inbox' = inbox \ {m}
  /\ todo' = [todo EXCEPT ![w] = Payload[m]]
  /\ pc' = [pc EXCEPT ![w] = IF Serves[w] \in inited THEN "work" ELSE "create"]
  /\ UNCHANGED <<unsent, inited, buffer, adder, owner, holds, pojos,
                 rows, stages, failures, crashes>>

\* A slip: the flag is set, and whoever sees it first leaves the scheduling to
\* the others.
CreateSchedulerLeft(w, t) ==
  /\ pc[w] = "create"
  /\ pc[t] = "none"
  /\ pc' = [pc EXCEPT ![w] = "work"]
  /\ inited' = inited \cup {Serves[w]}
  /\ UNCHANGED <<unsent, inbox, todo, buffer, adder, owner, holds, pojos,
                 rows, stages, failures, crashes>>

\* The worker found the flag unset: it schedules a flush and then sets it,
\* however many others are doing the same.
CreateScheduler(w, t) ==
  /\ pc[w] = "create"
  /\ pc[t] = "none"
  /\ pc' = [pc EXCEPT ![w] = "work", ![t] = "idle"]
  /\ inited' = inited \cup {Serves[w]}
  /\ UNCHANGED <<unsent, inbox, todo, buffer, adder, owner, holds, pojos,
                 rows, stages, failures, crashes>>

Entity(w) == Head(todo[w])

\* getResult commits the stages of a batch, then its rows join the list. A
\* crash between the two loses what a crash right after them would lose.
AddResults(w) ==
  /\ pc[w] = "work"
  /\ todo[w] # <<>>
  /\ Entity(w) # <<>>
  /\ stages' = PlusOnce(stages, Head(Entity(w)))
  /\ buffer' = PlusOnce(buffer, Head(Entity(w)))
  /\ todo' = [todo EXCEPT ![w] = <<Tail(Entity(w))>> \o Tail(todo[w])]
  /\ UNCHANGED <<unsent, inbox, inited, pc, adder, owner, holds, pojos,
                 rows, failures, crashes>>

\* getResult throws (the bizType is gone, the database fails): what is left
\* of the message is dropped, what was added stays, adder misses the entity.
GetResultFails(w) ==
  /\ pc[w] = "work"
  /\ todo[w] # <<>>
  /\ Entity(w) # <<>>
  /\ failures < MaxFailures
  /\ failures' = failures + 1
  /\ pc' = [pc EXCEPT ![w] = "idle"]
  /\ todo' = [todo EXCEPT ![w] = <<>>]
  /\ UNCHANGED <<unsent, inbox, inited, buffer, adder, owner, holds, pojos,
                 rows, stages, crashes>>

\* All batches of an entity are in the list.
CountEntity(w) ==
  /\ pc[w] = "work"
  /\ todo[w] # <<>>
  /\ Entity(w) = <<>>
  /\ adder' = adder + 1
  /\ todo' = [todo EXCEPT ![w] = Tail(todo[w])]
  /\ UNCHANGED <<unsent, inbox, inited, pc, buffer, owner, holds, pojos,
                 rows, stages, failures, crashes>>

\* A slip: the batch is written only once the hit size is exceeded.
CheckHitExceeded(w) ==
  /\ pc[w] = "work"
  /\ todo[w] = <<>>
  /\ pc' = [pc EXCEPT ![w] = IF adder > HitSize THEN "lock" ELSE "idle"]
  /\ UNCHANGED <<unsent, inbox, inited, todo, buffer, adder, owner, holds,
                 pojos, rows, stages, failures, crashes>>

\* After the last entity the worker compares adder with the hit size.
CheckHit(w) ==
  /\ pc[w] = "work"
  /\ todo[w] = <<>>
  /\ pc' = [pc EXCEPT ![w] = IF adder >= HitSize THEN "lock" ELSE "idle"]
  /\ UNCHANGED <<unsent, inbox, inited, todo, buffer, adder, owner, holds,
                 pojos, rows, stages, failures, crashes>>

(* persistence(), run by a worker at the hit size and by every timer.       *)

\* Where a thread goes when persistence() returns.
WantsFlush(t) == IF t \in Workers THEN pc[t] = "lock" ELSE pc[t] = "idle"

\* A slip: the lock is not waited for.
SnapshotUnlocked(t) ==
  /\ WantsFlush(t)
  /\ IF buffer = Zero
       THEN /\ pc' = [pc EXCEPT ![t] = "idle"]
            /\ UNCHANGED <<owner, holds, pojos>>
       ELSE /\ pc' = [pc EXCEPT ![t] = "clear"]
            /\ owner' = t
            /\ holds' = holds + 1
            /\ pojos' = buffer
  /\ UNCHANGED <<unsent, inbox, inited, todo, buffer, adder, rows, stages,
                 failures, crashes>>

\* lock(), the size test and pojos.addAll(resultsList). The list can only
\* grow meanwhile, so the three make one step; with an empty list the lock
\* is given back at once. The lock is reentrant.
Snapshot(t) ==
  /\ WantsFlush(t)
  /\ owner \in {NoThread, t}
  /\ IF buffer = Zero
       THEN /\ pc' = [pc EXCEPT ![t] = "idle"]
            /\ UNCHANGED <<owner, holds, pojos>>
       ELSE /\ pc' = [pc EXCEPT ![t] = "clear"]
            /\ owner' = t
            /\ holds' = holds + 1
            /\ pojos' = buffer
  /\ UNCHANGED <<unsent, inbox, inited, todo, buffer, adder, rows, stages,
                 failures, crashes>>

\* A slip: the list is left as it is, as if saving it emptied it.
ClearForgotten(t) ==
  /\ pc[t] = "clear"
  /\ pc' = [pc EXCEPT ![t] = "reset"]
  /\ UNCHANGED <<unsent, inbox, inited, todo, buffer, adder, owner, holds, pojos,
                 rows, stages, failures, crashes>>

\* resultsList.clear(): also what was added since the copy was taken.
ClearList(t) ==
  /\ pc[t] = "clear"
  /\ buffer' = Zero
  /\ pc' = [pc EXCEPT ![t] = "reset"]
  /\ UNCHANGED <<unsent, inbox, inited, todo, adder, owner, holds, pojos,
                 rows, stages, failures, crashes>>

\* A slip: one batch's worth is taken off the adder, as if a flush came only
\* at the hit size.
ResetByHitSize(t) ==
  /\ pc[t] = "reset"
  /\ adder' = adder - HitSize
  /\ pc' = [pc EXCEPT ![t] = "save"]
  /\ UNCHANGED <<unsent, inbox, inited, todo, buffer, owner, holds, pojos,
                 rows, stages, failures, crashes>>

ResetAdder(t) ==
  /\ pc[t] = "reset"
  /\ adder' = 0
  /\ pc' = [pc EXCEPT ![t] = "save"]
  /\ UNCHANGED <<unsent, inbox, inited, todo, buffer, owner, holds, pojos,
                 rows, stages, failures, crashes>>

\* A slip: unlock() is missing on the way out.
SaveResultLocked(t) ==
  /\ pc[t] = "save"
  /\ rows' = Plus(rows, pojos)
  /\ pojos' = Zero
  /\ pc' = [pc EXCEPT ![t] = "idle"]
  /\ UNCHANGED <<unsent, inbox, inited, todo, buffer, adder, owner, holds, stages,
                 failures, crashes>>

\* saveResult commits the batch, unlock() gives back one hold.
SaveResult(t) ==
  /\ pc[t] = "save"
  /\ rows' = Plus(rows, pojos)
  /\ pojos' = Zero
  /\ holds' = holds - 1
  /\ owner' = IF holds = 1 THEN NoThread ELSE owner
  /\ pc' = [pc EXCEPT ![t] = "idle"]
  /\ UNCHANGED <<unsent, inbox, inited, todo, buffer, adder, stages,
                 failures, crashes>>

\* saveResult throws: the batch is gone and the lock is kept. The worker goes
\* back to its pool; scheduleAtFixedRate never runs the timer again.
SaveResultFails(t) ==
  /\ pc[t] = "save"
  /\ failures < MaxFailures
  /\ failures' = failures + 1
  /\ pojos' = Zero
  /\ pc' = [pc EXCEPT ![t] = IF t \in Workers THEN "idle" ELSE "dead"]
  /\ UNCHANGED <<unsent, inbox, inited, todo, buffer, adder, owner, holds,
                 rows, stages, crashes>>

\* The process stops and starts again: only the tables are left.
Crash ==
  /\ crashes < MaxCrashes
  /\ crashes' = crashes + 1
  /\ inbox' = {}
  /\ inited' = {}
  /\ pc' = RestPc
  /\ todo' = NoWork
  /\ buffer' = Zero
  /\ adder' = 0
  /\ owner' = NoThread
  /\ holds' = 0
  /\ pojos' = Zero
  /\ UNCHANGED <<unsent, rows, stages, failures>>

Collect(w) ==
  \/ \E t \in Timers : CreateScheduler(w, t)
  \/ AddResults(w)
  \/ CountEntity(w)
  \/ CheckHit(w)

Persistence(t) ==
  \/ Snapshot(t)
  \/ ClearList(t)
  \/ ResetAdder(t)
  \/ SaveResult(t)

Next ==
  \/ \E m \in Messages : Emit(m)
  \/ \E w \in Workers : \/ \E m \in Messages : TakeMessage(w, m)
                        \/ Collect(w)
                        \/ GetResultFails(w)
  \/ \E t \in Threads : \/ Persistence(t)
                        \/ SaveResultFails(t)
  \/ Crash

Spec == Init /\ [][Next]_vars

\* A running thread goes on; the scheduler keeps firing its tasks. Nothing is
\* assumed of the pollers or of the executors before them.
Fairness ==
  /\ \A w \in Workers : WF_vars(Collect(w))
  /\ \A t \in Threads : WF_vars(Persistence(t))

FairSpec == Spec /\ Fairness
------------------------------------------------------------------------------
(* Properties.                                                              *)

Clearing == \E t \in Threads : pc[t] = "clear"

\* Rows of r that still may be written: between the copy and the clear the
\* list and the copy hold the same rows.
Waiting(r) == IF Clearing THEN buffer[r] ELSE buffer[r] + pojos[r]

\* persistence() takes the list, clears it and saves the copy under the lock:
\* however flushes, additions, failures and restarts interleave, a result that
\* was converted once (its stages were saved once) never gets two rows.
AtMostOnce == \A r \in Results : rows[r] + Waiting(r) =< stages[r]

\* The lock does its work although a failed save never gives it back and it is
\* reentrant: two threads are never between lock() and unlock() together.
OneFlushAtATime ==
  \A t, u \in Threads : pc[t] \in Inside /\ pc[u] \in Inside => t = u

\* The hit size is never overlooked: when every thread rests and nothing has
\* failed, adder has reached the hit size only if the list is empty. (adder is
\* counted up after the rows are in the list, and reset after they left it.)
HitFlushed ==
  (failures = 0 /\ \A t \in Threads : pc[t] \in {"none", "idle"})
    => adder < HitSize \/ buffer = Zero

\* What is in the list can leave it: while nothing fails some timer is scheduled,
\* and a lock that is taken is held by a thread on its way to unlock(). The
\* flags, tested and set apart, must not be set without a timer.
FlusherThere ==
  failures = 0 /\ buffer # Zero =>
    /\ \E t \in Timers : pc[t] # "none"
    /\ owner # NoThread => pc[owner] \in Inside

\* Nothing is lost while nothing fails: "all executed results were ready to
\* redis queue and waiting for persistence" (RuleExeServiceActivator). The
\* clear after the copy makes it false.
NothingLost ==
  failures = 0 /\ crashes = 0
    => \A r \in Results : rows[r] + Waiting(r) = stages[r]

\* What is in the list leaves it: some timer or worker flushes it.
ListDrains == \A r \in Results : buffer[r] > 0 ~> buffer[r] = 0

\* The batched persistence implements the store that promises no second row.
Store == INSTANCE ResultStore WITH
  traced <- stages, stored <- rows, pending <- [r \in Results |-> Waiting(r)]
ImplementsStore == Store!StoreSpec
==============================================================================
