---------------------------- MODULE ReferenceData ----------------------------
(***************************************************************************)
(* getReferenceData of ReferenceDataServiceImpl for one conditionsValue:    *)
(* clients poll with the same conditions, a task of the provider (W2D) is   *)
(* asked for once, polled until it is finished, and its data are stored and *)
(* answered until they expire.  Each call is one transaction of MySQL at    *)
(* its default isolation (no transaction manager here sets another):        *)
(*   - its first plain select (bizTypeExisted) fixes the snapshot which     *)
(*     loadReferenceData reads later;                                       *)
(*   - loadStatusWithLock reads the newest row and locks it to the end, or, *)
(*     when there is none, only the gap, which others may lock as well: an  *)
(*     insert then waits for every other holder of the gap, and of two that *)
(*     wait for each other one is rolled back.                              *)
(* Nothing but the provider remembers a task whose transaction is rolled    *)
(* back after the provider was asked.                                       *)
(***************************************************************************)
EXTENDS Naturals, Sequences, SequencesExt

CONSTANTS
  Clients,      \* calls of getReferenceData that may overlap
  Expiry,       \* expiredInHours
  MaxTasks,     \* bound: tasks asked for at the provider
  MaxTime,      \* bound: the clock
  MaxFailures   \* bound: transactions that fail

ASSUME ReferenceAssumption ==
  /\ Expiry \in Nat \ {0}   \* setExpiredInHours
  /\ MaxTasks \in Nat /\ MaxTime \in Nat /\ MaxFailures \in Nat

VARIABLES
  statuses,   \* table re_reference_data_status, in the order of inserts
  datas,      \* table re_reference_data, in the order of inserts
  asked,      \* tasks the provider has accepted: 1 .. asked
  finished,   \* tasks the provider has finished
  step,       \* where each call is in getReferenceData
  snapshot,   \* how many rows of datas the transaction of each call sees
  task,       \* the task each call asked for or polls, 0 when none
  answer,     \* what each client was answered last
  now,        \* the clock
  failures

vars == <<statuses, datas, asked, finished, step, snapshot, task, answer, now, failures>>

\* begun: checked the arguments; load: row is done; check: row is not done;
\* ask: provider to be asked; asked: insert due; waiting: insert waits.
Steps == {"idle", "begun", "load", "check", "ask", "asked", "waiting"}
Locked == {"load", "check", "ask", "asked", "waiting"}

\* A row of datas, or no row: pending is null, error an exception.
Data(i) == [is |-> "data", row |-> i]
No(why) == [is |-> why, row |-> 0]

Init ==
  /\ statuses = <<>> /\ datas = <<>>
  /\ asked = 0 /\ finished = {}
  /\ step = [c \in Clients |-> "idle"]
  /\ snapshot = [c \in Clients |-> 0]
  /\ task = [c \in Clients |-> 0]
  /\ answer = [c \in Clients |-> No("none")]
  /\ now = 0 /\ failures = 0

Holders == {c \in Clients : step[c] \in Locked}
Alone(c) == Holders \subseteq {c}

\* The transaction ends; the client gets a.
End(c, a) ==
  /\ step' = [step EXCEPT ![c] = "idle"]
  /\ task' = [task EXCEPT ![c] = 0]
  /\ answer' = [answer EXCEPT ![c] = a]
  /\ UNCHANGED snapshot

------------------------------------------------------------------------------
(* The transaction of a call.                                               *)

\* The checks of the arguments read tables: the snapshot is taken.
Begin(c) ==
  /\ step[c] = "idle"
  /\ step' = [step EXCEPT ![c] = "begun"]
  /\ snapshot' = [snapshot EXCEPT ![c] = Len(datas)]
  /\ UNCHANGED <<statuses, datas, asked, finished, task, answer, now, failures>>

\* order by insertTime desc limit 1: any of the newest rows of one second.
NewestStatuses ==
  {i \in DOMAIN statuses : \A j \in DOMAIN statuses : statuses[j].time <= statuses[i].time}

\* loadStatusWithLock reads what is committed, not the snapshot. A waiting
\* insert whose gap has become free goes first.
LoadStatus(c) ==
  /\ step[c] = "begun"
  /\ statuses # <<>> => Holders = {}
  /\ ~ \E d \in Clients : step[d] = "waiting" /\ Alone(d)
  /\ \/ /\ statuses = <<>>
        /\ step' = [step EXCEPT ![c] = "ask"]
        /\ UNCHANGED task
     \/ \E i \in NewestStatuses :
          /\ step' = [step EXCEPT ![c] = IF statuses[i].done THEN "load" ELSE "check"]
          /\ task' = [task EXCEPT ![c] = IF statuses[i].done THEN 0 ELSE statuses[i].task]
  /\ UNCHANGED <<statuses, datas, asked, finished, snapshot, answer, now, failures>>

Expired(data) == data.time + Expiry < now

\* A slip: order by time without desc.
OldestDatas(c) ==
  {i \in 1 .. snapshot[c] : \A j \in 1 .. snapshot[c] : datas[i].time <= datas[j].time}

\* loadReferenceData: order by time desc limit 1, in the snapshot.
NewestDatas(c) ==
  {i \in 1 .. snapshot[c] : \A j \in 1 .. snapshot[c] : datas[j].time <= datas[i].time}

\* A slip: the data are never too old.
LoadDataForever(c) ==
  /\ step[c] = "load"
  /\ IF NewestDatas(c) = {} THEN End(c, No("error"))
     ELSE \E i \in NewestDatas(c) : End(c, Data(i))
  /\ UNCHANGED <<statuses, datas, asked, finished, now, failures>>

\* The row is done: rd.getTime() fails when the snapshot has no data yet.
LoadData(c) ==
  /\ step[c] = "load"
  /\ \/ /\ NewestDatas(c) = {}
        /\ End(c, No("error"))
     \/ \E i \in NewestDatas(c) :
          IF Expired(datas[i])
          THEN /\ step' = [step EXCEPT ![c] = "ask"]
               /\ UNCHANGED <<snapshot, task, answer>>
          ELSE End(c, Data(i))
  /\ UNCHANGED <<statuses, datas, asked, finished, now, failures>>

\* requestToProvider: the provider accepts the task, whatever becomes of the
\* transaction.
Ask(c) ==
  /\ step[c] = "ask"
  /\ asked < MaxTasks
  /\ asked' = asked + 1
  /\ task' = [task EXCEPT ![c] = asked + 1]
  /\ step' = [step EXCEPT ![c] = "asked"]
  /\ UNCHANGED <<statuses, datas, finished, snapshot, answer, now, failures>>

\* A slip: read committed, which locks no gap.
InsertStatusAtOnce(c) ==
  /\ step[c] \in {"asked", "waiting"}
  /\ statuses' = Append(statuses, [task |-> task[c], time |-> now, done |-> FALSE])
  /\ End(c, No("pending"))
  /\ UNCHANGED <<datas, asked, finished, now, failures>>

\* createStatus and the commit, when nobody else holds the gap.
InsertStatus(c) ==
  /\ step[c] \in {"asked", "waiting"}
  /\ Alone(c)
  /\ statuses' = Append(statuses, [task |-> task[c], time |-> now, done |-> FALSE])
  /\ End(c, No("pending"))
  /\ UNCHANGED <<datas, asked, finished, now, failures>>

WaitForGap(c) ==
  /\ step[c] = "asked"
  /\ ~ Alone(c)
  /\ step' = [step EXCEPT ![c] = "waiting"]
  /\ UNCHANGED <<statuses, datas, asked, finished, snapshot, task, answer, now, failures>>

\* Two inserts wait for each other: MySQL rolls one of them back.
Deadlock(c) ==
  /\ step[c] = "waiting"
  /\ \E d \in Clients \ {c} : step[d] = "waiting"
  /\ End(c, No("error"))
  /\ UNCHANGED <<statuses, datas, asked, finished, now, failures>>

\* The row that is not done: its task is still running ...
CheckRunning(c) ==
  /\ step[c] = "check"
  /\ task[c] \notin finished
  /\ End(c, No("pending"))
  /\ UNCHANGED <<statuses, datas, asked, finished, now, failures>>

\* A slip: the provider is not asked whether the task is finished.
StoreRunning(c) ==
  /\ step[c] = "check"
  /\ datas' = Append(datas, [task |-> task[c], time |-> now])
  /\ statuses' = [i \in DOMAIN statuses |->
                    IF statuses[i].task = task[c] THEN [statuses[i] EXCEPT !.done = TRUE]
                    ELSE statuses[i]]
  /\ End(c, Data(Len(datas) + 1))
  /\ UNCHANGED <<asked, finished, now, failures>>

\* A slip: the row stays open.
StoreKeepOpen(c) ==
  /\ step[c] = "check"
  /\ task[c] \in finished
  /\ datas' = Append(datas, [task |-> task[c], time |-> now])
  /\ End(c, Data(Len(datas) + 1))
  /\ UNCHANGED <<statuses, asked, finished, now, failures>>

\* A slip: the row is done, its data are answered but not stored.
StoreNothing(c) ==
  /\ step[c] = "check"
  /\ task[c] \in finished
  /\ statuses' = [i \in DOMAIN statuses |->
                    IF statuses[i].task = task[c] THEN [statuses[i] EXCEPT !.done = TRUE]
                    ELSE statuses[i]]
  /\ End(c, Data(Len(datas) + 1))
  /\ UNCHANGED <<datas, asked, finished, now, failures>>

\* ... or finished: queryFromProvider stores its data, sets the row to done
\* and commits both.
Store(c) ==
  /\ step[c] = "check"
  /\ task[c] \in finished
  /\ datas' = Append(datas, [task |-> task[c], time |-> now])
  /\ statuses' = [i \in DOMAIN statuses |->
                    IF statuses[i].task = task[c] THEN [statuses[i] EXCEPT !.done = TRUE]
                    ELSE statuses[i]]
  /\ End(c, Data(Len(datas) + 1))
  /\ UNCHANGED <<asked, finished, now, failures>>

\* An exception anywhere (the provider refuses, the connection is lost, the
\* data are empty): the transaction is rolled back.
Fail(c) ==
  /\ step[c] # "idle"
  /\ failures < MaxFailures
  /\ failures' = failures + 1
  /\ End(c, No("error"))
  /\ UNCHANGED <<statuses, datas, asked, finished, now>>

------------------------------------------------------------------------------
(* Around the calls.                                                        *)

\* The provider finishes a task.
Finish(t) ==
  /\ t \in 1 .. asked
  /\ t \notin finished
  /\ finished' = finished \cup {t}
  /\ UNCHANGED <<statuses, datas, asked, step, snapshot, task, answer, now, failures>>

Tick ==
  /\ now < MaxTime
  /\ now' = now + 1
  /\ UNCHANGED <<statuses, datas, asked, finished, step, snapshot, task, answer, failures>>

\* What a client and MySQL do by themselves: polling again, and everything a
\* transaction does but fail.
Call(c) ==
  \/ Begin(c) \/ LoadStatus(c) \/ LoadData(c) \/ Ask(c) \/ InsertStatus(c)
  \/ WaitForGap(c) \/ Deadlock(c) \/ CheckRunning(c) \/ Store(c)

Next ==
  \/ \E c \in Clients : Call(c) \/ Fail(c)
  \/ \E t \in 1 .. MaxTasks : Finish(t)
  \/ Tick

Spec == Init /\ [][Next]_vars

\* Clients poll until they have data, MySQL grants row locks in turn and the
\* provider finishes its tasks.
Fairness ==
  /\ \A c \in Clients : WF_vars(Call(c)) /\ SF_vars(LoadStatus(c))
  /\ \A t \in 1 .. MaxTasks : WF_vars(Finish(t))

FairSpec == Spec /\ Fairness

------------------------------------------------------------------------------
(* Properties.  insertTime has seconds.  When data are stored and asked for *)
(* again within the second in which their task was inserted (a call with an *)
(* old snapshot does that), two rows are the newest and MySQL returns       *)
(* either; the properties say what holds until then.                        *)

SameSecond ==
  \E i, j \in DOMAIN statuses : i # j /\ statuses[i].time = statuses[j].time

\* Types: rows name tasks the provider accepted, a snapshot is a prefix of
\* the table.
TypeOK ==
  /\ statuses \in Seq([task : 1 .. asked, time : 0 .. now, done : BOOLEAN])
  /\ datas \in Seq([task : finished, time : 0 .. now])
  /\ asked \in 0 .. MaxTasks /\ finished \subseteq 1 .. asked
  /\ step \in [Clients -> Steps]
  /\ snapshot \in [Clients -> 0 .. Len(datas)]
  /\ task \in [Clients -> 0 .. asked]
  /\ answer \in [Clients -> {Data(i) : i \in 1 .. Len(datas)}
                              \cup {No("none"), No("pending"), No("error")}]
  /\ now \in 0 .. MaxTime /\ failures \in 0 .. MaxFailures

\* One task at a time: however the first calls race for the gap and whatever
\* fails, no second row is inserted while the task of one is open.
OneOpenTask ==
  SameSecond \/ \A i \in DOMAIN statuses : ~ statuses[i].done => i = Len(statuses)

\* Every task is stored once: row i of the data is that of status row i, and
\* a row is done exactly when its data are there.
DataOfTasks ==
  SameSecond \/
    /\ Len(datas) <= Len(statuses)
    /\ \A i \in DOMAIN statuses : statuses[i].done <=> i \in DOMAIN datas
    /\ \A i \in DOMAIN datas : datas[i].task = statuses[i].task

\* A call that fails on missing data or asks the provider again although
\* data are there that have not expired read its snapshot before they were
\* committed: only then is the answer an error, or a second task, for no
\* reason the client can see.
StaleOnly ==
  SameSecond \/
    \A c \in Clients :
      /\ step[c] = "load" => datas # <<>>
      /\ step[c] \in {"ask", "asked", "waiting"} /\ datas # <<>> /\ ~ Expired(Last(datas))
           => snapshot[c] < Len(datas)

\* An answer with data has data that have not expired and are not older than
\* any that were there when the call began: whatever snapshots and lock
\* waits do to a client, it is never answered older data than before.
AnswersCurrent ==
  [][\A c \in Clients :
       step[c] # "idle" /\ step'[c] = "idle" /\ answer'[c].is = "data" =>
         LET given == datas'[answer'[c].row] IN
         /\ ~ Expired(given)
         /\ \A i \in 1 .. snapshot[c] : datas[i].time <= given.time]_vars

\* Every client that goes on polling is answered with data: no call waits
\* for ever for a gap or a row, and no victim is rolled back for ever.
ClientsServed == \A c \in Clients : <>(answer[c].is = "data")
==============================================================================
