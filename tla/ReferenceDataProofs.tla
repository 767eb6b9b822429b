------------------------- MODULE ReferenceDataProofs -------------------------
(***************************************************************************)
(* Proofs about ReferenceData for any clients, expiry and bounds.  As long  *)
(* as no two rows have the same second, the newest row is the last one; a   *)
(* call that holds its lock is then the only one, and what it has read of   *)
(* the tables stays true until it commits.  That is the inductive invariant *)
(* Sound: the two tables fit each other (TableOk), every call knows what    *)
(* its step says it knows (ClientOk), and only the first calls, which find  *)
(* no row to lock, are several at a time.                                   *)
(***************************************************************************)
EXTENDS ReferenceData, TLAPS

StatusRow(a, t) == [task : 1 .. a, time : 0 .. t, done : BOOLEAN]
DataRow(f, t) == [task : f, time : 0 .. t]

AllDone(st) == \A i \in DOMAIN st : st[i].done

\* Tasks are different, rows are in the order of time, only the last may be
\* open, and the data are those of the rows that are done.
TableOk(st, ds) ==
  /\ \A i, j \in DOMAIN st : st[i].task = st[j].task => i = j
  /\ \A i, j \in DOMAIN st : i <= j => st[i].time <= st[j].time
  /\ \A i \in DOMAIN st : ~ st[i].done => i = Len(st)
  /\ Len(ds) <= Len(st)
  /\ \A i \in DOMAIN st : st[i].done <=> i \in DOMAIN ds
  /\ \A i \in DOMAIN ds : ds[i].task = st[i].task

\* What a call at step s, with snapshot k and task t, knows of the tables.
ClientOk(st, ds, n, s, k, t) ==
  /\ s = "load" => st # <<>> /\ AllDone(st)
  /\ s = "check" => st # <<>> /\ t = st[Len(st)].task /\ ~ st[Len(st)].done
  /\ s \in {"ask", "asked", "waiting"} =>
       /\ AllDone(st)
       /\ ds # <<>> /\ ~ ds[Len(ds)].time + Expiry < n => k < Len(ds)
  /\ s \in {"asked", "waiting"} => \A i \in DOMAIN st : st[i].task # t

Asking == {"asked", "waiting"}

Sound ==
  /\ TableOk(statuses, datas)
  /\ \A c \in Clients : ClientOk(statuses, datas, now, step[c], snapshot[c], task[c])
  /\ \A c, d \in Clients : step[c] \in Asking /\ step[d] \in Asking /\ task[c] = task[d] => c = d
  /\ statuses # <<>> => \A c, d \in Holders : c = d

------------------------------------------------------------------------------
(* Tables.                                                                  *)

LEMMA SeqWidened ==
  ASSUME NEW A, NEW B, A \subseteq B, NEW s \in Seq(A)
  PROVE  s \in Seq(B)
  OBVIOUS

LEMMA AppendIs ==
  ASSUME NEW S, NEW s \in Seq(S), NEW x \in S
  PROVE  /\ Append(s, x) \in Seq(S) /\ Len(Append(s, x)) = Len(s) + 1
         /\ DOMAIN Append(s, x) = 1 .. Len(s) + 1
         /\ \A i \in DOMAIN s : Append(s, x)[i] = s[i]
         /\ Append(s, x)[Len(s) + 1] = x
         /\ Append(s, x) # <<>> /\ DOMAIN s = 1 .. Len(s) /\ Len(s) \in Nat
  OBVIOUS

\* A row is inserted when all are done.
LEMMA Inserted ==
  ASSUME NEW a \in Nat, NEW n \in Nat, NEW F, NEW st \in Seq(StatusRow(a, n)),
         NEW ds \in Seq(DataRow(F, n)), TableOk(st, ds), AllDone(st),
         NEW t \in 1 .. a, \A i \in DOMAIN st : st[i].task # t
  PROVE  TableOk(Append(st, [task |-> t, time |-> n, done |-> FALSE]), ds)
<1> DEFINE row == [task |-> t, time |-> n, done |-> FALSE]
           new == Append(st, row)
<1>1. row \in StatusRow(a, n) /\ row.task = t /\ row.time = n /\ row.done = FALSE
  BY DEF StatusRow
<1> HIDE DEF row
<1>2. /\ Len(new) = Len(st) + 1 /\ DOMAIN new = 1 .. Len(st) + 1 /\ new[Len(st) + 1] = row
      /\ DOMAIN st = 1 .. Len(st) /\ Len(st) \in Nat
      /\ \A i \in DOMAIN st : new[i] = st[i]
  BY <1>1, AppendIs
<1> HIDE DEF new
<1>3. Len(ds) \in Nat /\ DOMAIN ds = 1 .. Len(ds) /\ Len(ds) <= Len(st)
  BY DEF TableOk
<1>4. \A i \in DOMAIN st : st[i].time \in 0 .. n
  <2>1. \A i \in DOMAIN st : st[i] \in StatusRow(a, n)
    OBVIOUS
  <2> QED
    BY <2>1 DEF StatusRow
<1>5. \A i \in DOMAIN new : i \in DOMAIN st \/ i = Len(st) + 1
  BY <1>2
<1>6. \A i, j \in DOMAIN new : new[i].task = new[j].task => i = j
  BY <1>1, <1>2, <1>5 DEF TableOk
<1>7. \A i, j \in DOMAIN new : i <= j => new[i].time <= new[j].time
  <2> SUFFICES ASSUME NEW i \in DOMAIN new, NEW j \in DOMAIN new, i <= j
               PROVE  new[i].time <= new[j].time
    OBVIOUS
  <2>1. CASE j \in DOMAIN st
    <3>1. i \in DOMAIN st
      BY <1>2, <2>1
    <3> QED
      BY <1>2, <2>1, <3>1 DEF TableOk
  <2>2. CASE j = Len(st) + 1
    BY <1>1, <1>2, <1>4, <1>5, <2>2
  <2> QED
    BY <1>5, <2>1, <2>2
<1>8. \A i \in DOMAIN new : ~ new[i].done => i = Len(new)
  BY <1>2, <1>5 DEF AllDone
<1>9. \A i \in DOMAIN new : new[i].done <=> i \in DOMAIN ds
  <2> SUFFICES ASSUME NEW i \in DOMAIN new
               PROVE  new[i].done <=> i \in DOMAIN ds
    OBVIOUS
  <2>1. CASE i \in DOMAIN st
    BY <1>2, <2>1 DEF TableOk
  <2>2. CASE i = Len(st) + 1
    BY <1>1, <1>2, <1>3, <2>2
  <2> QED
    BY <1>5, <2>1, <2>2
<1>10. \A i \in DOMAIN ds : ds[i].task = new[i].task
  BY <1>2, <1>3 DEF TableOk
<1>11. Len(ds) <= Len(new)
  BY <1>2, <1>3
<1> QED
  BY <1>6, <1>7, <1>8, <1>9, <1>10, <1>11 DEF TableOk, new, row

\* The open row is done, and its data are stored.
Done(st, t) ==
  [i \in DOMAIN st |-> IF st[i].task = t THEN [st[i] EXCEPT !.done = TRUE] ELSE st[i]]

LEMMA DoneIs ==
  ASSUME NEW a \in Nat, NEW n \in Nat, NEW st \in Seq(StatusRow(a, n)), NEW t
  PROVE  /\ Done(st, t) \in Seq(StatusRow(a, n)) /\ Len(Done(st, t)) = Len(st)
         /\ DOMAIN Done(st, t) = DOMAIN st
         /\ \A i \in DOMAIN st : /\ Done(st, t)[i].task = st[i].task
                                 /\ Done(st, t)[i].time = st[i].time
                                 /\ st[i].task = t => Done(st, t)[i].done
                                 /\ st[i].task # t => Done(st, t)[i] = st[i]
<1> DEFINE new == Done(st, t)
<1>1. DOMAIN st = 1 .. Len(st) /\ Len(st) \in Nat
  OBVIOUS
<1>2. ASSUME NEW i \in DOMAIN st
      PROVE  /\ new[i] \in StatusRow(a, n) /\ new[i].task = st[i].task /\ new[i].time = st[i].time
             /\ st[i].task = t => new[i].done
             /\ st[i].task # t => new[i] = st[i]
  <2>1. st[i] \in StatusRow(a, n)
    OBVIOUS
  <2> QED
    BY <2>1 DEF Done, StatusRow
<1>3. new \in [1 .. Len(st) -> StatusRow(a, n)]
  BY <1>1, <1>2 DEF Done
<1> HIDE DEF new
<1>4. new \in Seq(StatusRow(a, n)) /\ Len(new) = Len(st) /\ DOMAIN new = DOMAIN st
  BY <1>1, <1>3
<1> QED
  BY <1>2, <1>4 DEF new

LEMMA Stored ==
  ASSUME NEW a \in Nat, NEW n \in Nat, NEW F, NEW st \in Seq(StatusRow(a, n)),
         NEW ds \in Seq(DataRow(F, n)), TableOk(st, ds), st # <<>>,
         NEW t \in F, t = st[Len(st)].task, ~ st[Len(st)].done
  PROVE  TableOk(Done(st, t), Append(ds, [task |-> t, time |-> n]))
<1> DEFINE row == [task |-> t, time |-> n]
           new == Done(st, t)
           more == Append(ds, row)
           last == Len(st)
<1>1. row \in DataRow(F, n) /\ row.task = t
  BY DEF DataRow
<1> HIDE DEF row
<1>2. last \in Nat /\ last >= 1 /\ DOMAIN st = 1 .. last /\ last \in DOMAIN st
  OBVIOUS
<1>3. /\ Len(more) = Len(ds) + 1 /\ DOMAIN more = 1 .. Len(ds) + 1 /\ more[Len(ds) + 1] = row
      /\ DOMAIN ds = 1 .. Len(ds) /\ Len(ds) \in Nat
      /\ \A i \in DOMAIN ds : more[i] = ds[i]
  BY <1>1, AppendIs
<1>4. /\ Len(new) = last /\ DOMAIN new = DOMAIN st
      /\ \A i \in DOMAIN st : /\ new[i].task = st[i].task /\ new[i].time = st[i].time
                              /\ i = last => new[i].done
                              /\ i # last => new[i] = st[i]
  <2>1. \A i \in DOMAIN st : st[i].task = t <=> i = last
    BY <1>2 DEF TableOk
  <2> QED
    BY <2>1, DoneIs
<1> HIDE DEF new, more
<1>5. Len(ds) = last - 1
  <2>1. last \notin DOMAIN ds /\ Len(ds) <= last
    BY <1>2 DEF TableOk
  <2>2. \A i \in DOMAIN st : i # last => i \in DOMAIN ds
    BY DEF TableOk
  <2> HIDE DEF last
  <2>3. last # 1 => last - 1 \in DOMAIN ds
    BY <1>2, <2>2
  <2> QED
    BY <1>2, <1>3, <2>1, <2>3
<1>6. \A i \in DOMAIN new : new[i].done
  BY <1>4 DEF TableOk
<1>7. DOMAIN more = DOMAIN new
  BY <1>2, <1>3, <1>4, <1>5
<1>8. \A i \in DOMAIN more : more[i].task = new[i].task
  <2> SUFFICES ASSUME NEW i \in DOMAIN more PROVE more[i].task = new[i].task
    OBVIOUS
  <2>1. CASE i = last
    BY <1>1, <1>2, <1>3, <1>4, <1>5, <2>1
  <2>2. CASE i # last
    <3>1. i \in DOMAIN ds /\ i \in DOMAIN st
      BY <1>2, <1>3, <1>5, <1>7, <1>4, <2>2
    <3> QED
      BY <1>3, <1>4, <3>1 DEF TableOk
  <2> QED
    BY <2>1, <2>2
<1>9. \A i, j \in DOMAIN new : new[i].task = new[j].task => i = j
  BY <1>4 DEF TableOk
<1>10. \A i, j \in DOMAIN new : i <= j => new[i].time <= new[j].time
  BY <1>4 DEF TableOk
<1>11. Len(more) <= Len(new)
  BY <1>2, <1>3, <1>4, <1>5
<1> QED
  BY <1>6, <1>7, <1>8, <1>9, <1>10, <1>11 DEF TableOk, new, more, row

------------------------------------------------------------------------------
(* Types.                                                                   *)

AnswersOf(n) ==
  {Data(i) : i \in 1 .. n} \cup {No("none"), No("pending"), No("error")}

LEMMA AnswersIs ==
  ASSUME NEW n \in Nat
  PROVE  /\ \A i \in 1 .. n : Data(i) \in AnswersOf(n)
         /\ No("none") \in AnswersOf(n) /\ No("pending") \in AnswersOf(n)
         /\ No("error") \in AnswersOf(n)
         /\ \A m \in Nat : n <= m => AnswersOf(n) \subseteq AnswersOf(m)
  BY DEF AnswersOf

RowsOk ==
  /\ statuses \in Seq(StatusRow(asked, now))
  /\ datas \in Seq(DataRow(finished, now))
  /\ asked \in 0 .. MaxTasks /\ finished \subseteq 1 .. asked
  /\ now \in 0 .. MaxTime /\ failures \in 0 .. MaxFailures

CallsOk ==
  /\ step \in [Clients -> Steps]
  /\ snapshot \in [Clients -> 0 .. Len(datas)]
  /\ task \in [Clients -> 0 .. asked]
  /\ answer \in [Clients -> AnswersOf(Len(datas))]
  /\ \A c \in Clients : step[c] \in Asking => task[c] # 0

ReferenceInv ==
  /\ RowsOk /\ CallsOk
  /\ SameSecond \/ Sound

LEMMA TypesAre == RowsOk /\ CallsOk => TypeOK
  BY DEF RowsOk, CallsOk, TypeOK, StatusRow, DataRow, AnswersOf

\* What an action does that ends a transaction.
LEMMA EndOk ==
  ASSUME RowsOk, CallsOk, NEW c \in Clients, NEW a \in AnswersOf(Len(datas)), End(c, a),
         datas' = datas, asked' = asked
  PROVE  CallsOk'
<1>1. asked \in Nat /\ Len(datas) \in Nat
  BY DEF RowsOk
<1>2. step' \in [Clients -> Steps] /\ task' \in [Clients -> 0 .. asked]
      /\ answer' \in [Clients -> AnswersOf(Len(datas))] /\ snapshot' = snapshot
  BY <1>1 DEF End, CallsOk, Steps
<1>3. \A d \in Clients : step'[d] \in Asking => task'[d] # 0
  BY DEF End, CallsOk, Asking
<1> QED
  BY <1>2, <1>3 DEF CallsOk

LEMMA TypeStep == RowsOk /\ CallsOk /\ [Next]_vars => RowsOk' /\ CallsOk'
<1> SUFFICES ASSUME RowsOk, CallsOk, [Next]_vars PROVE RowsOk' /\ CallsOk'
  OBVIOUS
<1>0. /\ asked \in Nat /\ now \in Nat /\ Len(datas) \in Nat /\ failures \in Nat
      /\ MaxTasks \in Nat /\ MaxTime \in Nat /\ MaxFailures \in Nat
  BY ReferenceAssumption DEF RowsOk
<1>a. ASSUME UNCHANGED <<statuses, datas, asked, finished, now, failures>> PROVE RowsOk'
  BY <1>a DEF RowsOk
<1>b. /\ No("pending") \in AnswersOf(Len(datas)) /\ No("error") \in AnswersOf(Len(datas))
      /\ \A i \in 1 .. Len(datas) : Data(i) \in AnswersOf(Len(datas))
  BY <1>0, AnswersIs
<1>1. ASSUME NEW c \in Clients, Begin(c) PROVE RowsOk' /\ CallsOk'
  BY <1>0, <1>1, <1>a DEF Begin, CallsOk, Steps, Asking
<1>2. ASSUME NEW c \in Clients, LoadStatus(c) PROVE RowsOk' /\ CallsOk'
  <2>1. \A i \in NewestStatuses : statuses[i].task \in 0 .. asked
    <3>1. \A i \in NewestStatuses : statuses[i] \in StatusRow(asked, now)
      BY DEF RowsOk, NewestStatuses
    <3> QED
      BY <1>0, <3>1 DEF StatusRow
  <2>2. step' \in [Clients -> Steps] /\ task' \in [Clients -> 0 .. asked]
    <3>1. CASE step' = [step EXCEPT ![c] = "ask"] /\ UNCHANGED task
      BY <3>1 DEF CallsOk, Steps
    <3>2. ASSUME NEW i \in NewestStatuses,
                 step' = [step EXCEPT ![c] = IF statuses[i].done THEN "load" ELSE "check"],
                 task' = [task EXCEPT ![c] = IF statuses[i].done THEN 0 ELSE statuses[i].task]
          PROVE  step' \in [Clients -> Steps] /\ task' \in [Clients -> 0 .. asked]
      BY <1>0, <2>1, <3>2 DEF CallsOk, Steps
    <3> QED
      BY <1>2, <3>1, <3>2 DEF LoadStatus
  <2>3. \A d \in Clients : step'[d] \in Asking => step[d] \in Asking /\ task'[d] = task[d]
    BY <1>2 DEF LoadStatus, CallsOk, Asking
  <2> QED
    BY <1>2, <1>a, <2>2, <2>3 DEF LoadStatus, CallsOk
<1>3. ASSUME NEW c \in Clients, LoadData(c) PROVE RowsOk' /\ CallsOk'
  <2>1. NewestDatas(c) \subseteq 1 .. Len(datas)
    BY <1>0, <1>3 DEF NewestDatas, CallsOk
  <2>2. CASE End(c, No("error"))
    BY <1>3, <1>a, <1>b, <2>2, EndOk DEF LoadData
  <2>3. ASSUME NEW i \in NewestDatas(c), End(c, Data(i)) PROVE RowsOk' /\ CallsOk'
    BY <1>3, <1>a, <1>b, <2>1, <2>3, EndOk DEF LoadData
  <2>4. CASE step' = [step EXCEPT ![c] = "ask"] /\ UNCHANGED <<snapshot, task, answer>>
    BY <1>3, <1>a, <2>4 DEF LoadData, CallsOk, Steps, Asking
  <2> QED
    BY <1>3, <2>2, <2>3, <2>4 DEF LoadData
<1>4. ASSUME NEW c \in Clients, Ask(c) PROVE RowsOk' /\ CallsOk'
  <2>1. asked' = asked + 1 /\ asked' \in 0 .. MaxTasks /\ 1 .. asked \subseteq 1 .. asked'
    BY <1>0, <1>4 DEF Ask
  <2>2. statuses \in Seq(StatusRow(asked', now))
    <3>1. StatusRow(asked, now) \subseteq StatusRow(asked', now)
      BY <2>1 DEF StatusRow
    <3> QED
      BY <3>1, SeqWidened DEF RowsOk
  <2>3. RowsOk'
    BY <1>4, <2>1, <2>2 DEF Ask, RowsOk
  <2>4. task' \in [Clients -> 0 .. asked'] /\ step' \in [Clients -> Steps]
    BY <1>0, <1>4, <2>1 DEF Ask, CallsOk, Steps
  <2>5. \A d \in Clients : step'[d] \in Asking => task'[d] # 0
    BY <1>0, <1>4 DEF Ask, CallsOk, Asking
  <2> QED
    BY <1>4, <2>3, <2>4, <2>5 DEF Ask, CallsOk
<1>5. ASSUME NEW c \in Clients, InsertStatus(c) PROVE RowsOk' /\ CallsOk'
  <2> DEFINE row == [task |-> task[c], time |-> now, done |-> FALSE]
  <2>1. row \in StatusRow(asked, now)
    BY <1>0, <1>5 DEF InsertStatus, CallsOk, Asking, StatusRow
  <2>2. statuses' \in Seq(StatusRow(asked, now))
    BY <1>5, <2>1, AppendIs DEF InsertStatus, RowsOk
  <2>3. RowsOk'
    BY <1>5, <2>2 DEF InsertStatus, RowsOk
  <2> QED
    BY <1>5, <1>b, <2>3, EndOk DEF InsertStatus
<1>6. ASSUME NEW c \in Clients, WaitForGap(c) PROVE RowsOk' /\ CallsOk'
  BY <1>6, <1>a DEF WaitForGap, CallsOk, Steps, Asking
<1>7. ASSUME NEW c \in Clients, Deadlock(c) \/ CheckRunning(c) PROVE RowsOk' /\ CallsOk'
  BY <1>7, <1>a, <1>b, EndOk DEF Deadlock, CheckRunning
<1>8. ASSUME NEW c \in Clients, Store(c) PROVE RowsOk' /\ CallsOk'
  <2> DEFINE row == [task |-> task[c], time |-> now]
             n == Len(datas) + 1
  <2>1. row \in DataRow(finished, now)
    BY <1>0, <1>8 DEF Store, DataRow
  <2>2. datas' \in Seq(DataRow(finished, now)) /\ Len(datas') = n
    BY <1>8, <2>1, AppendIs DEF Store, RowsOk
  <2>3. statuses' \in Seq(StatusRow(asked, now))
    <3>1. statuses' = Done(statuses, task[c])
      BY <1>8 DEF Store, Done
    <3> QED
      BY <1>0, <3>1, DoneIs DEF RowsOk
  <2>4. RowsOk'
    BY <1>8, <2>2, <2>3 DEF Store, RowsOk
  <2>5. n \in Nat /\ Len(datas) <= n /\ n \in 1 .. n
    BY <1>0
  <2>6. AnswersOf(Len(datas)) \subseteq AnswersOf(n) /\ Data(n) \in AnswersOf(n)
    BY <1>0, <2>5, AnswersIs
  <2> HIDE DEF n
  <2>7. answer' \in [Clients -> AnswersOf(n)]
    <3>1. answer' = [answer EXCEPT ![c] = Data(n)]
      BY <1>8 DEF Store, End, n
    <3> QED
      BY <2>6, <3>1 DEF CallsOk
  <2>8. step' \in [Clients -> Steps] /\ task' \in [Clients -> 0 .. asked]
        /\ snapshot' \in [Clients -> 0 .. n]
    BY <1>0, <1>8, <2>5 DEF Store, End, CallsOk, Steps
  <2>9. \A d \in Clients : step'[d] \in Asking => task'[d] # 0
    BY <1>8 DEF Store, End, CallsOk, Asking
  <2> QED
    BY <1>8, <2>2, <2>4, <2>7, <2>8, <2>9 DEF Store, CallsOk
<1>9. ASSUME NEW c \in Clients, Fail(c) PROVE RowsOk' /\ CallsOk'
  <2>1. RowsOk'
    BY <1>0, <1>9 DEF Fail, RowsOk
  <2> QED
    BY <1>9, <1>b, <2>1, EndOk DEF Fail
<1>10. ASSUME NEW t \in 1 .. MaxTasks, Finish(t) PROVE RowsOk' /\ CallsOk'
  <2>1. finished' \subseteq 1 .. asked
    BY <1>10 DEF Finish, RowsOk
  <2>2. datas \in Seq(DataRow(finished', now))
    <3>1. DataRow(finished, now) \subseteq DataRow(finished', now)
      BY <1>10 DEF Finish, DataRow
    <3> QED
      BY <3>1, SeqWidened DEF RowsOk
  <2> QED
    BY <1>10, <2>1, <2>2 DEF Finish, RowsOk, CallsOk
<1>11. CASE Tick
  <2>1. now' \in 0 .. MaxTime /\ 0 .. now \subseteq 0 .. now'
    BY <1>0, <1>11 DEF Tick
  <2>2. statuses \in Seq(StatusRow(asked, now')) /\ datas \in Seq(DataRow(finished, now'))
    <3>1. /\ StatusRow(asked, now) \subseteq StatusRow(asked, now')
          /\ DataRow(finished, now) \subseteq DataRow(finished, now')
      BY <2>1 DEF StatusRow, DataRow
    <3> QED
      BY <3>1, SeqWidened DEF RowsOk
  <2> QED
    BY <1>11, <2>1, <2>2 DEF Tick, RowsOk, CallsOk
<1>12. CASE UNCHANGED vars
  BY <1>12, <1>a DEF vars, CallsOk
<1> QED
  BY <1>1, <1>2, <1>3, <1>4, <1>5, <1>6, <1>7, <1>8, <1>9, <1>10, <1>11, <1>12 DEF Next, Call

------------------------------------------------------------------------------
(* The calls.                                                               *)

\* Of rows with different times the newest is the last.
LEMMA NewestIsLast ==
  ASSUME RowsOk, TableOk(statuses, datas), ~ SameSecond, NEW i \in NewestStatuses
  PROVE  i = Len(statuses) /\ statuses # <<>>
<1>1. /\ i \in DOMAIN statuses /\ DOMAIN statuses = 1 .. Len(statuses) /\ Len(statuses) \in Nat
      /\ \A j \in DOMAIN statuses : statuses[j].time <= statuses[i].time
  BY DEF RowsOk, NewestStatuses
<1> DEFINE last == Len(statuses)
<1>2. last \in DOMAIN statuses /\ i <= last
  BY <1>1
<1>3. statuses[i] \in StatusRow(asked, now) /\ statuses[last] \in StatusRow(asked, now)
  BY <1>1, <1>2 DEF RowsOk
<1> HIDE DEF last
<1>4. statuses[i].time <= statuses[last].time /\ statuses[last].time <= statuses[i].time
  BY <1>1, <1>2 DEF TableOk
<1>5. statuses[i].time \in Int /\ statuses[last].time \in Int
  BY <1>3 DEF StatusRow
<1>6. statuses[i].time = statuses[last].time
  BY <1>4, <1>5
<1> QED
  BY <1>1, <1>2, <1>6 DEF SameSecond, last

\* Call c moves on, the tables stay: it must know what its new step says,
\* and hold a lock alone.
LEMMA Moved ==
  ASSUME Sound, UNCHANGED <<statuses, datas, now>>, NEW c \in Clients,
         \A d \in Clients \ {c} :
           step'[d] = step[d] /\ snapshot'[d] = snapshot[d] /\ task'[d] = task[d],
         ClientOk(statuses, datas, now, step'[c], snapshot'[c], task'[c]),
         step'[c] \in Asking =>
           \A d \in Clients \ {c} : step[d] \in Asking => task[d] # task'[c],
         step'[c] \in Locked /\ statuses # <<>> => \A d \in Holders : d = c
  PROVE  Sound'
<1>1. \A d \in Clients : ClientOk(statuses', datas', now', step'[d], snapshot'[d], task'[d])
  BY DEF Sound
<1>2. \A d, e \in Clients : step'[d] \in Asking /\ step'[e] \in Asking /\ task'[d] = task'[e] => d = e
  BY DEF Sound
<1>3. statuses' # <<>> => \A d, e \in Holders' : d = e
  <2> SUFFICES ASSUME statuses # <<>>, NEW d \in Holders', NEW e \in Holders'
               PROVE  d = e
    OBVIOUS
  <2>1. \A f \in Holders' : f = c \/ f \in Holders
    BY DEF Holders
  <2>2. c \in Holders' => \A f \in Holders : f = c
    BY DEF Holders
  <2> QED
    BY <2>1, <2>2 DEF Sound
<1>4. TableOk(statuses', datas')
  BY DEF Sound
<1> QED
  BY <1>1, <1>2, <1>3, <1>4 DEF Sound

\* A call that ends knows nothing.
LEMMA Ended ==
  ASSUME CallsOk, Sound, UNCHANGED <<statuses, datas, now>>, NEW c \in Clients, NEW a, End(c, a)
  PROVE  Sound'
<1>1. /\ step'[c] = "idle"
      /\ \A d \in Clients \ {c} :
           step'[d] = step[d] /\ snapshot'[d] = snapshot[d] /\ task'[d] = task[d]
  BY DEF End, CallsOk
<1>2. step'[c] \notin Asking /\ step'[c] \notin Locked
  BY <1>1 DEF Asking, Locked
<1>3. ClientOk(statuses, datas, now, step'[c], snapshot'[c], task'[c])
  BY <1>1 DEF ClientOk
<1> QED
  BY <1>1, <1>2, <1>3, Moved

\* The only call that held a lock commits.
LEMMA Committed ==
  ASSUME CallsOk, NEW c \in Clients, Alone(c), NEW a, End(c, a), TableOk(statuses', datas')
  PROVE  Sound'
<1>1. \A d \in Clients : step'[d] \notin Locked
  BY DEF End, CallsOk, Alone, Holders, Locked
<1>2. \A d \in Clients : step'[d] \notin Asking /\ step'[d] \notin {"load", "check", "ask"}
  BY <1>1 DEF Asking, Locked
<1>3. \A d \in Clients : ClientOk(statuses', datas', now', step'[d], snapshot'[d], task'[d])
  BY <1>2 DEF ClientOk, Asking
<1>4. Holders' = {}
  BY <1>1 DEF Holders
<1> QED
  BY <1>2, <1>3, <1>4 DEF Sound

LEMMA SoundStep ==
  ASSUME RowsOk, CallsOk, Sound, ~ SameSecond, [Next]_vars
  PROVE  Sound'
<1>0. asked \in Nat /\ now \in Nat /\ Len(datas) \in Nat
      /\ DOMAIN datas = 1 .. Len(datas)
      /\ DOMAIN statuses = 1 .. Len(statuses) /\ Len(statuses) \in Nat
  BY DEF RowsOk
<1>a. \A c \in Clients : ClientOk(statuses, datas, now, step[c], snapshot[c], task[c])
  BY DEF Sound
<1>b. TableOk(statuses, datas)
  BY DEF Sound
<1>c. statuses # <<>> => \A c, d \in Holders : c = d
  BY DEF Sound
<1>d. statuses = <<>> => datas = <<>>
  BY <1>0, <1>b DEF TableOk
<1>1. ASSUME NEW c \in Clients, Begin(c) PROVE Sound'
  <2>1. /\ step'[c] = "begun"
        /\ \A d \in Clients \ {c} :
             step'[d] = step[d] /\ snapshot'[d] = snapshot[d] /\ task'[d] = task[d]
    BY <1>1 DEF Begin, CallsOk
  <2>2. step'[c] \notin Asking /\ step'[c] \notin Locked
    BY <2>1 DEF Asking, Locked
  <2>3. ClientOk(statuses, datas, now, step'[c], snapshot'[c], task'[c])
    BY <2>1 DEF ClientOk
  <2> QED
    BY <1>1, <2>1, <2>2, <2>3, Moved DEF Begin
<1>2. ASSUME NEW c \in Clients, LoadStatus(c) PROVE Sound'
  <2>1. /\ UNCHANGED <<statuses, datas, now>>
        /\ \A d \in Clients \ {c} :
             step'[d] = step[d] /\ snapshot'[d] = snapshot[d] /\ task'[d] = task[d]
    BY <1>2 DEF LoadStatus, CallsOk
  <2>2. step'[c] \notin Asking
    BY <1>2 DEF LoadStatus, CallsOk, Asking
  <2>3. statuses # <<>> => \A d \in Holders : d = c
    BY <1>2 DEF LoadStatus
  <2>4. CASE statuses = <<>> /\ step' = [step EXCEPT ![c] = "ask"]
    <3>1. step'[c] = "ask"
      BY <2>4 DEF CallsOk
    <3>2. ClientOk(statuses, datas, now, step'[c], snapshot'[c], task'[c])
      BY <1>0, <1>d, <2>4, <3>1 DEF ClientOk, AllDone
    <3> QED
      BY <2>1, <2>2, <2>3, <3>2, Moved
  <2>5. ASSUME NEW i \in NewestStatuses,
               step' = [step EXCEPT ![c] = IF statuses[i].done THEN "load" ELSE "check"],
               task' = [task EXCEPT ![c] = IF statuses[i].done THEN 0 ELSE statuses[i].task]
        PROVE  Sound'
    <3>1. i = Len(statuses) /\ statuses # <<>> /\ i \in DOMAIN statuses
      BY <1>b, NewestIsLast DEF NewestStatuses
    <3>2. /\ step'[c] = IF statuses[i].done THEN "load" ELSE "check"
          /\ task'[c] = IF statuses[i].done THEN 0 ELSE statuses[i].task
      BY <2>5 DEF CallsOk
    <3>3. statuses[i].done => AllDone(statuses)
      BY <1>b, <3>1 DEF TableOk, AllDone
    <3>4. ClientOk(statuses, datas, now, step'[c], snapshot'[c], task'[c])
      BY <3>1, <3>2, <3>3 DEF ClientOk
    <3> QED
      BY <2>1, <2>2, <2>3, <3>4, Moved
  <2> QED
    BY <1>2, <2>4, <2>5 DEF LoadStatus
<1>3. ASSUME NEW c \in Clients, LoadData(c) PROVE Sound'
  <2>1. ASSUME NEW a, End(c, a) PROVE Sound'
    BY <1>3, <2>1, Ended DEF LoadData
  <2>2. ASSUME NEW i \in NewestDatas(c), Expired(datas[i]),
               step' = [step EXCEPT ![c] = "ask"], UNCHANGED <<snapshot, task, answer>>
        PROVE  Sound'
    <3>1. step[c] = "load" /\ UNCHANGED <<statuses, datas, now>>
      BY <1>3 DEF LoadData
    <3>2. /\ step'[c] = "ask" /\ snapshot'[c] = snapshot[c]
          /\ \A d \in Clients \ {c} :
               step'[d] = step[d] /\ snapshot'[d] = snapshot[d] /\ task'[d] = task[d]
      BY <2>2 DEF CallsOk
    <3>3. statuses # <<>> /\ AllDone(statuses)
      BY <1>a, <3>1 DEF ClientOk
    <3>4. snapshot[c] \in 0 .. Len(datas) /\ i \in 1 .. snapshot[c]
          /\ \A j \in 1 .. snapshot[c] : datas[j].time <= datas[i].time
      BY <2>2 DEF NewestDatas, CallsOk
    <3>5. ~ datas[Len(datas)].time + Expiry < now => snapshot[c] < Len(datas)
      <4> SUFFICES ASSUME snapshot[c] = Len(datas)
                   PROVE  datas[Len(datas)].time + Expiry < now
        BY <1>0, <3>4
      <4> DEFINE last == Len(datas)
      <4>1. last \in DOMAIN datas /\ i \in DOMAIN datas /\ last \in 1 .. snapshot[c]
        BY <1>0, <3>4
      <4>2. datas[last] \in DataRow(finished, now) /\ datas[i] \in DataRow(finished, now)
        BY <4>1 DEF RowsOk
      <4> HIDE DEF last
      <4>3. datas[last].time \in Nat /\ datas[i].time \in Nat
            /\ datas[last].time <= datas[i].time
        BY <3>4, <4>1, <4>2 DEF DataRow
      <4>4. datas[i].time + Expiry < now
        BY <2>2 DEF Expired
      <4>5. datas[last].time + Expiry < now
        BY <1>0, <4>3, <4>4, ReferenceAssumption
      <4> QED
        BY <4>5 DEF last
    <3>6. ClientOk(statuses, datas, now, step'[c], snapshot'[c], task'[c])
      BY <3>2, <3>3, <3>5 DEF ClientOk
    <3>7. \A d \in Holders : d = c
      BY <1>c, <3>1, <3>3 DEF Holders, Locked
    <3>8. step'[c] \notin Asking
      BY <3>2 DEF Asking
    <3> QED
      BY <3>1, <3>2, <3>6, <3>7, <3>8, Moved
  <2> QED
    BY <1>3, <2>1, <2>2 DEF LoadData
<1>4. ASSUME NEW c \in Clients, Ask(c) PROVE Sound'
  <2>1. step[c] = "ask" /\ UNCHANGED <<statuses, datas, now>>
    BY <1>4 DEF Ask
  <2>2. /\ step'[c] = "asked" /\ snapshot'[c] = snapshot[c] /\ task'[c] = asked + 1
        /\ \A d \in Clients \ {c} :
             step'[d] = step[d] /\ snapshot'[d] = snapshot[d] /\ task'[d] = task[d]
    BY <1>4 DEF Ask, CallsOk
  <2>3. \A i \in DOMAIN statuses : statuses[i].task # asked + 1
    <3>1. \A i \in DOMAIN statuses : statuses[i] \in StatusRow(asked, now)
      BY DEF RowsOk
    <3>2. \A i \in DOMAIN statuses : statuses[i].task \in 1 .. asked
      BY <3>1 DEF StatusRow
    <3> QED
      BY <1>0, <3>2
  <2>4. ClientOk(statuses, datas, now, step'[c], snapshot'[c], task'[c])
    BY <1>a, <2>1, <2>2, <2>3 DEF ClientOk
  <2>5. \A d \in Clients : task[d] # asked + 1
    BY <1>0 DEF CallsOk
  <2>6. statuses # <<>> => \A d \in Holders : d = c
    BY <1>c, <2>1 DEF Holders, Locked
  <2> QED
    BY <2>1, <2>2, <2>4, <2>5, <2>6, Moved
<1>5. ASSUME NEW c \in Clients, InsertStatus(c) PROVE Sound'
  <2>1. /\ step[c] \in Asking /\ Alone(c) /\ End(c, No("pending")) /\ datas' = datas
        /\ statuses' = Append(statuses, [task |-> task[c], time |-> now, done |-> FALSE])
    BY <1>5 DEF InsertStatus, Asking
  <2>2. task[c] \in 1 .. asked
    BY <1>0, <2>1 DEF CallsOk
  <2>3. AllDone(statuses) /\ \A i \in DOMAIN statuses : statuses[i].task # task[c]
    BY <1>a, <2>1 DEF ClientOk, Asking
  <2>4. TableOk(statuses', datas')
    <3> DEFINE t == task[c]
               new == Append(statuses, [task |-> t, time |-> now, done |-> FALSE])
    <3>1. statuses \in Seq(StatusRow(asked, now)) /\ datas \in Seq(DataRow(finished, now))
      BY DEF RowsOk
    <3>2. t \in 1 .. asked /\ AllDone(statuses)
          /\ \A i \in DOMAIN statuses : statuses[i].task # t
      BY <2>2, <2>3 DEF t
    <3>3. statuses' = new /\ datas' = datas
      BY <2>1 DEF t, new
    <3>4. asked \in Nat /\ now \in Nat
      BY <1>0
    <3> HIDE DEF t
    <3>5. TableOk(new, datas)
      BY ONLY <1>b, <3>1, <3>2, <3>4, Inserted
    <3> HIDE DEF new
    <3> QED
      BY ONLY <3>3, <3>5
  <2> QED
    BY <2>1, <2>4, Committed
<1>6. ASSUME NEW c \in Clients, WaitForGap(c) PROVE Sound'
  <2>1. step[c] = "asked" /\ UNCHANGED <<statuses, datas, now>>
    BY <1>6 DEF WaitForGap
  <2>2. /\ step'[c] = "waiting" /\ snapshot'[c] = snapshot[c] /\ task'[c] = task[c]
        /\ \A d \in Clients \ {c} :
             step'[d] = step[d] /\ snapshot'[d] = snapshot[d] /\ task'[d] = task[d]
    BY <1>6 DEF WaitForGap, CallsOk
  <2>3. ClientOk(statuses, datas, now, step'[c], snapshot'[c], task'[c])
    BY <1>a, <2>1, <2>2 DEF ClientOk
  <2>4. \A d \in Clients \ {c} : step[d] \in Asking => task[d] # task'[c]
    BY <2>1, <2>2 DEF Sound, Asking
  <2>5. statuses # <<>> => \A d \in Holders : d = c
    BY <1>c, <2>1 DEF Holders, Locked
  <2> QED
    BY <2>1, <2>2, <2>3, <2>4, <2>5, Moved
<1>7. ASSUME NEW c \in Clients, Deadlock(c) \/ CheckRunning(c) \/ Fail(c) PROVE Sound'
  BY <1>7, Ended DEF Deadlock, CheckRunning, Fail
<1>8. ASSUME NEW c \in Clients, Store(c) PROVE Sound'
  <2>1. /\ step[c] = "check" /\ task[c] \in finished /\ End(c, Data(Len(datas) + 1))
        /\ datas' = Append(datas, [task |-> task[c], time |-> now])
        /\ statuses' = Done(statuses, task[c])
    BY <1>8 DEF Store, Done
  <2>2. statuses # <<>> /\ task[c] = statuses[Len(statuses)].task
        /\ ~ statuses[Len(statuses)].done
    BY <1>a, <2>1 DEF ClientOk
  <2>3. TableOk(statuses', datas')
    <3> DEFINE t == task[c]
    <3>1. /\ statuses \in Seq(StatusRow(asked, now)) /\ datas \in Seq(DataRow(finished, now))
          /\ t \in finished
      BY <2>1 DEF RowsOk
    <3> HIDE DEF t
    <3>2. t = statuses[Len(statuses)].task
      BY <2>2 DEF t
    <3>3. asked \in Nat /\ now \in Nat
      BY <1>0
    <3>4. TableOk(Done(statuses, t), Append(datas, [task |-> t, time |-> now]))
      BY ONLY <1>b, <2>2, <3>1, <3>2, <3>3, Stored
    <3>5. statuses' = Done(statuses, t) /\ datas' = Append(datas, [task |-> t, time |-> now])
      BY <2>1 DEF t
    <3> QED
      BY ONLY <3>4, <3>5
  <2>4. Alone(c)
    BY <1>c, <2>1, <2>2 DEF Alone, Holders, Locked
  <2> QED
    BY <2>1, <2>3, <2>4, Committed
<1>9. CASE Tick
  <2>1. now' = now + 1 /\ UNCHANGED <<statuses, datas, step, snapshot, task>>
    BY <1>9 DEF Tick
  <2>2. datas # <<>> /\ ~ datas[Len(datas)].time + Expiry < now + 1
          => ~ datas[Len(datas)].time + Expiry < now
    <3> SUFFICES ASSUME datas # <<>>, datas[Len(datas)].time + Expiry < now
                 PROVE  datas[Len(datas)].time + Expiry < now + 1
      OBVIOUS
    <3>1. datas[Len(datas)] \in DataRow(finished, now)
      BY <1>0 DEF RowsOk
    <3>2. datas[Len(datas)].time \in Nat
      BY <3>1 DEF DataRow
    <3> QED
      BY <1>0, <3>2, ReferenceAssumption
  <2>3. \A c \in Clients : ClientOk(statuses', datas', now', step'[c], snapshot'[c], task'[c])
    BY <1>a, <2>1, <2>2 DEF ClientOk
  <2> QED
    BY <2>1, <2>3 DEF Sound, Holders
<1>10. ASSUME UNCHANGED <<statuses, datas, now, step, snapshot, task>> PROVE Sound'
  BY <1>10 DEF Sound, Holders
<1> QED
  BY <1>1, <1>2, <1>3, <1>4, <1>5, <1>6, <1>7, <1>8, <1>9, <1>10 DEF Next, Call, Finish, vars

------------------------------------------------------------------------------
(* The theorems.                                                            *)

\* Rows keep their times: two of the same second stay that.
LEMMA SameSecondStays ==
  ASSUME RowsOk, [Next]_vars, SameSecond
  PROVE  SameSecond'
<1>1. asked \in Nat /\ now \in Nat /\ Len(statuses) \in Nat
  BY DEF RowsOk
<1>2. PICK i \in DOMAIN statuses, j \in DOMAIN statuses :
        i # j /\ statuses[i].time = statuses[j].time
  BY DEF SameSecond
<1>3. CASE UNCHANGED statuses
  BY <1>2, <1>3 DEF SameSecond
<1>4. ASSUME NEW c \in Clients, InsertStatus(c) PROVE SameSecond'
  <2> DEFINE row == [task |-> task[c], time |-> now, done |-> FALSE]
             S == StatusRow(asked, now) \cup {row}
  <2>1. statuses \in Seq(S) /\ row \in S
    BY SeqWidened DEF RowsOk
  <2>2. statuses' = Append(statuses, row)
    BY <1>4 DEF InsertStatus
  <2> HIDE DEF row, S
  <2>3. /\ DOMAIN statuses' = 1 .. Len(statuses) + 1
        /\ DOMAIN statuses = 1 .. Len(statuses)
        /\ \A k \in DOMAIN statuses : statuses'[k] = statuses[k]
    BY <2>1, <2>2, AppendIs
  <2> QED
    BY <1>1, <1>2, <2>3 DEF SameSecond
<1>5. ASSUME NEW c \in Clients, Store(c) PROVE SameSecond'
  <2>1. statuses' = Done(statuses, task[c])
    BY <1>5 DEF Store, Done
  <2>2. /\ DOMAIN statuses' = DOMAIN statuses
        /\ \A k \in DOMAIN statuses : statuses'[k].time = statuses[k].time
    BY <1>1, <2>1, DoneIs DEF RowsOk
  <2> QED
    BY <1>2, <2>2 DEF SameSecond
<1> QED
  BY <1>3, <1>4, <1>5 DEF Next, Call, vars, Begin, LoadStatus, LoadData, Ask, WaitForGap,
     Deadlock, CheckRunning, Fail, Finish, Tick

LEMMA ReferenceInit == Init => ReferenceInv
<1> SUFFICES ASSUME Init PROVE ReferenceInv
  OBVIOUS
<1>1. statuses = <<>> /\ datas = <<>> /\ Len(datas) = 0 /\ DOMAIN datas = {}
  BY DEF Init
<1>2. RowsOk
  BY <1>1, ReferenceAssumption DEF Init, RowsOk
<1>3. CallsOk
  <2>1. No("none") \in AnswersOf(0)
    BY AnswersIs
  <2> QED
    BY <1>1, <2>1 DEF Init, CallsOk, Steps, Asking
<1>4. Sound
  BY <1>1 DEF Init, Sound, TableOk, ClientOk, Asking
<1> QED
  BY <1>2, <1>3, <1>4 DEF ReferenceInv

LEMMA ReferenceStep == ReferenceInv /\ [Next]_vars => ReferenceInv'
  BY TypeStep, SoundStep, SameSecondStays DEF ReferenceInv

LEMMA ReferenceInvariant == Spec => []ReferenceInv
  BY ReferenceInit, ReferenceStep, PTL DEF Spec

\* Every variable keeps its type: the rows name tasks the provider accepted,
\* the stored data are those of finished ones.
THEOREM TypeCorrect == Spec => []TypeOK
<1>1. ReferenceInv => TypeOK
  BY TypesAre DEF ReferenceInv
<1> QED
  BY <1>1, ReferenceInvariant, PTL

\* No second task is inserted while one is open, for any number of clients
\* that race for the first row.
THEOREM OneTask == Spec => []OneOpenTask
<1>1. ReferenceInv => OneOpenTask
  BY DEF ReferenceInv, Sound, TableOk, OneOpenTask
<1> QED
  BY <1>1, ReferenceInvariant, PTL

\* The two tables fit each other, row by row.
THEOREM DataFit == Spec => []DataOfTasks
<1>1. ReferenceInv => DataOfTasks
  BY DEF ReferenceInv, Sound, TableOk, DataOfTasks
<1> QED
  BY <1>1, ReferenceInvariant, PTL

\* Only a call whose snapshot is older than the newest data fails on missing
\* data or asks again although the data have not expired.
THEOREM OnlyStale == Spec => []StaleOnly
<1>1. ReferenceInv => StaleOnly
  <2> SUFFICES ASSUME RowsOk, Sound, NEW c \in Clients
               PROVE  /\ step[c] = "load" => datas # <<>>
                      /\ step[c] \in {"ask", "asked", "waiting"} /\ datas # <<>>
                           /\ ~ Expired(Last(datas)) => snapshot[c] < Len(datas)
    BY DEF ReferenceInv, StaleOnly
  <2>1. ClientOk(statuses, datas, now, step[c], snapshot[c], task[c])
    BY DEF Sound
  <2>2. step[c] = "load" => datas # <<>>
    <3> SUFFICES ASSUME statuses # <<>>, AllDone(statuses) PROVE datas # <<>>
      BY <2>1 DEF ClientOk
    <3>1. 1 \in DOMAIN statuses
      BY DEF RowsOk
    <3>2. 1 \in DOMAIN datas
      BY <3>1 DEF Sound, TableOk, AllDone
    <3> QED
      BY <3>2
  <2>3. Last(datas) = datas[Len(datas)]
    BY DEF Last
  <2> QED
    BY <2>1, <2>2, <2>3 DEF ClientOk, Expired
<1> QED
  BY <1>1, ReferenceInvariant, PTL

\* Data that are answered have not expired and are not older than those that
\* were there when the call began.
THEOREM CurrentAnswers == Spec => AnswersCurrent
<1> DEFINE Current(c) ==
             step[c] # "idle" /\ step'[c] = "idle" /\ answer'[c].is = "data" =>
               /\ ~ Expired(datas'[answer'[c].row])
               /\ \A i \in 1 .. snapshot[c] : datas[i].time <= datas'[answer'[c].row].time
<1>1. ASSUME ReferenceInv, [Next]_vars, NEW c \in Clients PROVE Current(c)
  <2>0. RowsOk /\ CallsOk /\ now \in Nat /\ Len(datas) \in Nat /\ DOMAIN datas = 1 .. Len(datas)
    BY <1>1 DEF ReferenceInv, RowsOk
  <2>1. ASSUME NEW why \in {"pending", "error"}, NEW d \in Clients, End(d, No(why)) PROVE Current(c)
    BY <2>0, <2>1 DEF End, No, CallsOk
  <2>2. CASE step'[c] # "idle" \/ step[c] = "idle"
    BY <2>2
  <2>3. ASSUME NEW d \in Clients, LoadData(d) PROVE Current(c)
    <3>1. ASSUME NEW i \in NewestDatas(d), ~ Expired(datas[i]), End(d, Data(i)) PROVE Current(c)
      <4>1. CASE d = c
        <5>1. answer'[c].row = i /\ datas' = datas
          BY <2>0, <2>3, <3>1, <4>1 DEF LoadData, End, Data, CallsOk
        <5> QED
          BY <3>1, <4>1, <5>1 DEF NewestDatas
      <4>2. CASE d # c
        BY <2>0, <3>1, <4>2 DEF End, CallsOk
      <4> QED
        BY <4>1, <4>2
    <3>2. CASE step' = [step EXCEPT ![d] = "ask"]
      BY <2>0, <3>2 DEF CallsOk
    <3> QED
      BY <2>1, <2>3, <3>1, <3>2 DEF LoadData
  <2>4. ASSUME NEW d \in Clients, Store(d) PROVE Current(c)
    <3> DEFINE row == [task |-> task[d], time |-> now]
               n == Len(datas) + 1
    <3>1. End(d, Data(n)) /\ datas' = Append(datas, row) /\ task[d] \in finished
      BY <2>4 DEF Store
    <3>2. CASE d = c
      <4>1. answer'[c].row = n
        BY <2>0, <3>1, <3>2 DEF End, Data, CallsOk
      <4>2. row \in DataRow(finished, now) /\ row.time = now
        BY <2>0, <3>1 DEF DataRow
      <4> HIDE DEF row
      <4>3. datas'[n] = row
        BY <2>0, <3>1, <4>2, AppendIs DEF RowsOk
      <4>4. ~ Expired(row)
        BY <2>0, <4>2, ReferenceAssumption DEF Expired
      <4>5. \A i \in 1 .. snapshot[c] : datas[i].time <= now
        <5>1. \A i \in 1 .. snapshot[c] : i \in DOMAIN datas
          BY <2>0 DEF CallsOk
        <5>2. \A i \in DOMAIN datas : datas[i] \in DataRow(finished, now)
          BY <2>0 DEF RowsOk
        <5> QED
          BY <2>0, <5>1, <5>2 DEF DataRow
      <4> QED
        BY <4>1, <4>2, <4>3, <4>4, <4>5
    <3>3. CASE d # c
      BY <2>0, <3>1, <3>3 DEF End, CallsOk
    <3> QED
      BY <3>2, <3>3
  <2>5. ASSUME NEW d \in Clients,
               Begin(d) \/ LoadStatus(d) \/ Ask(d) \/ WaitForGap(d)
        PROVE  Current(c)
    <3>1. step'[c] = step[c] \/ step'[c] # "idle"
      BY <2>0, <2>5 DEF Begin, LoadStatus, Ask, WaitForGap, CallsOk
    <3> QED
      BY <3>1
  <2>6. CASE UNCHANGED step
    BY <2>6
  <2>7. ASSUME NEW d \in Clients,
               InsertStatus(d) \/ Deadlock(d) \/ CheckRunning(d) \/ Fail(d)
        PROVE  Current(c)
    BY <2>1, <2>7 DEF InsertStatus, Deadlock, CheckRunning, Fail
  <2> QED
    BY <1>1, <2>3, <2>4, <2>5, <2>6, <2>7 DEF Next, Call, Finish, Tick, vars
<1>2. ReferenceInv /\ [Next]_vars =>
        [\A c \in Clients :
           step[c] # "idle" /\ step'[c] = "idle" /\ answer'[c].is = "data" =>
             LET given == datas'[answer'[c].row] IN
             /\ ~ Expired(given)
             /\ \A i \in 1 .. snapshot[c] : datas[i].time <= given.time]_vars
  BY <1>1
<1> QED
  BY <1>2, ReferenceInvariant, PTL DEF Spec, AnswersCurrent
==============================================================================
