------------------------- MODULE RuleExecutionProofs -------------------------
(***************************************************************************)
(* Proofs about RuleExecution for any threads, rules and bounds: the stack  *)
(* of stages of every thread is its Java stack, the stages of an answer are *)
(* a finished tree, failures with a message reach the client, and the lists *)
(* of answers never change again.                                           *)
(*                                                                          *)
(* The inductive invariant has three parts: what holds of a list of stages  *)
(* (ListOk), of a running thread and its list (ThreadOk), and that no two   *)
(* executions share a list (OwnLists).  The lemmas about the first two are  *)
(* about values, so that each action only has to say which list it changes. *)
(***************************************************************************)
EXTENDS RuleExecution, TLAPS

\* Stage n is the n-th; only the first has no parent; traces are of its rule.
ListOk(list) ==
  \A i \in DOMAIN list :
    /\ list[i].id = i
    /\ list[i].parent \in IF i = 1 THEN {0} ELSE 1 .. i - 1
    /\ list[i].traces \subseteq {list[i].rule}

\* Frame k of the stack f, the status s and the list fit (StageStack).
FrameOk(s, f, list, k) ==
  /\ f[k].params = s.params
  /\ f[k].stage \in DOMAIN list
  /\ list[f[k].stage].rule = f[k].rule
  /\ list[f[k].stage].outcome = "open"
  /\ list[f[k].stage].parent = IF k = 1 THEN 0 ELSE f[k - 1].stage

\* A running thread: its frames (evaluate only outermost), its open
\* stages, which all belong to frames, and where a message has got to: below
\* the rule that is about to fail, which all rules with messages are under.
ThreadOk(s, f, th, list) ==
  /\ f # <<>>
  /\ s.current = f[Len(f)].stage
  /\ s.last = Len(list)
  /\ \A k \in DOMAIN f : FrameOk(s, f, list, k) /\ (k > 1 => f[k].rule # NoRule)
  /\ \A k, l \in DOMAIN f : k < l => f[k].stage < f[l].stage
  /\ \A i \in DOMAIN list : list[i].outcome = "open" => \E k \in DOMAIN f : f[k].stage = i
  /\ \A i \in DOMAIN list : list[i].outcome = "message" =>
       /\ th = "exception"
       /\ \A j \in DOMAIN list : j = list[i].parent => list[j].outcome \in {"open", "message"}

\* What a finished list is to its answer (AnswerComplete, ErrorsReachTop).
AnswerOk(a, list) ==
  /\ list # <<>>
  /\ list[1].rule = a.rule /\ list[1].outcome = a.outcome
  /\ \A i \in DOMAIN list :
       /\ list[i].outcome # "open"
       /\ list[i].outcome = "message" =>
            /\ a.outcome = "message"
            /\ \A j \in DOMAIN list : j = list[i].parent => list[j].outcome = "message"

\* Every list belongs to one execution: of one thread, or of one answer.
OwnLists ==
  /\ \A t \in Threads : status[t] # NoStatus => status[t].id \in 1 .. generated
  /\ \A t, u \in Threads : t # u /\ status[t] # NoStatus /\ status[u] # NoStatus
                             => status[t].id # status[u].id
  /\ \A a \in answers : /\ a.id \in 1 .. generated
                        /\ \A t \in Threads : status[t] # NoStatus => status[t].id # a.id
  /\ \A x \in ExecutionIds : x > generated => traced[x] = <<>>

ThreadsOk ==
  \A t \in Threads :
    /\ status[t] = NoStatus => frames[t] = <<>> /\ thrown[t] = NoProblem
    /\ status[t] # NoStatus => ThreadOk(status[t], frames[t], thrown[t], traced[status[t].id])

ListsOk ==
  /\ \A x \in ExecutionIds : ListOk(traced[x])
  /\ \A a \in answers : AnswerOk(a, traced[a.id])

ExecutionInv == TypeOK /\ OwnLists /\ ThreadsOk /\ ListsOk

------------------------------------------------------------------------------
(* What the steps do to one thread and its list.                            *)

LEMMA AppendIs ==
  ASSUME NEW S, NEW f \in Seq(S), NEW e \in S
  PROVE  /\ Append(f, e) \in Seq(S)
         /\ Len(Append(f, e)) = Len(f) + 1
         /\ DOMAIN Append(f, e) = 1 .. Len(f) + 1
         /\ Append(f, e)[Len(f) + 1] = e
         /\ \A k \in 1 .. Len(f) : Append(f, e)[k] = f[k]
         /\ Append(f, e) # <<>>
         /\ DOMAIN f = 1 .. Len(f) /\ Len(f) \in Nat
<1>1. Append(f, e) \in Seq(S) /\ Len(Append(f, e)) = Len(f) + 1
  OBVIOUS
<1>2. DOMAIN Append(f, e) = 1 .. Len(f) + 1
  BY <1>1
<1>3. Append(f, e)[Len(f) + 1] = e
  OBVIOUS
<1>4. \A k \in 1 .. Len(f) : Append(f, e)[k] = f[k]
  OBVIOUS
<1>5. Append(f, e) # <<>>
  <2>1. Len(<<>>) = 0 /\ Len(f) + 1 # 0
    OBVIOUS
  <2>. QED  BY <1>1, <2>1, Zenon
<1>. QED  BY <1>1, <1>2, <1>3, <1>4, <1>5

\* beginStage: a stage under the current one, and a frame for it.
LEMMA Pushed ==
  ASSUME ExecutionAssumption,
         NEW list \in Seq(Stages), ListOk(list), NEW f \in Seq(Frames),
         NEW s, s.current \in Nat, s.last \in Nat,
         NEW r \in Rules \cup {NoRule}, NEW p \in Params,
         \/ f = <<>> /\ list = <<>> /\ s.current = 0 /\ s.last = 0
         \/ ThreadOk(s, f, NoProblem, list) /\ s.params = p /\ r \in Rules,
         NEW v, v.current = s.last + 1, v.last = s.last + 1, v.params = p
  PROVE  LET g == Append(f, [rule |-> r, params |-> p, stage |-> s.last + 1])
             more == Append(list, NewStage(s, r))
         IN  ListOk(more) /\ ThreadOk(v, g, NoProblem, more)
<1> DEFINE n == s.last + 1
           g == Append(f, [rule |-> r, params |-> p, stage |-> n])
           more == Append(list, NewStage(s, r))
<1>1. /\ Len(list) = s.last
      /\ s.current = IF f = <<>> THEN 0 ELSE f[Len(f)].stage
      /\ f # <<>> => s.current \in 1 .. Len(list)
  BY DEF ThreadOk, FrameOk, Frames
<1>2. /\ Len(more) = n /\ more[n] = NewStage(s, r)
      /\ \A i \in 1 .. Len(list) : more[i] = list[i]
      /\ DOMAIN more = 1 .. n /\ DOMAIN list = 1 .. n - 1
  BY <1>1
<1>3. /\ Len(g) = Len(f) + 1 /\ DOMAIN g = 1 .. Len(f) + 1 /\ DOMAIN f = 1 .. Len(f)
      /\ g[Len(g)] = [rule |-> r, params |-> p, stage |-> n]
      /\ \A k \in 1 .. Len(f) : g[k] = f[k]
      /\ g # <<>> /\ Len(f) \in Nat
  <2> DEFINE e == [rule |-> r, params |-> p, stage |-> n]
  <2>1. e \in Frames
    BY DEF Frames
  <2> HIDE DEF e
  <2>3. g = Append(f, e)
    BY DEF e
  <2>. HIDE DEF g
  <2>2. /\ Len(Append(f, e)) = Len(f) + 1 /\ DOMAIN Append(f, e) = 1 .. Len(f) + 1
        /\ Append(f, e)[Len(f) + 1] = e /\ Append(f, e) # <<>>
        /\ \A k \in 1 .. Len(f) : Append(f, e)[k] = f[k]
        /\ DOMAIN f = 1 .. Len(f) /\ Len(f) \in Nat
    BY <2>1, AppendIs
  <2>. QED  BY <2>2, <2>3 DEF e
<1>4. /\ NewStage(s, r).id = n /\ NewStage(s, r).parent = s.current
      /\ NewStage(s, r).rule = r /\ NewStage(s, r).traces = {}
      /\ NewStage(s, r).outcome = "open"
  BY DEF NewStage, Stage
<1>5. f = <<>> <=> n = 1
  <2>1. f # <<>> => n > 1
    BY <1>1
  <2>. QED  BY <2>1 DEF ThreadOk
<1> HIDE DEF g, more
<1>6. ListOk(more)
  <2> SUFFICES ASSUME NEW i \in DOMAIN more
               PROVE  /\ more[i].id = i
                      /\ more[i].parent \in IF i = 1 THEN {0} ELSE 1 .. i - 1
                      /\ more[i].traces \subseteq {more[i].rule}
    BY DEF ListOk
  <2>1. CASE i = n
    BY <2>1, <1>1, <1>2, <1>4, <1>5
  <2>2. CASE i # n
    <3>1. i \in DOMAIN list /\ more[i] = list[i]
      BY <2>2, <1>2
    <3>. QED  BY <3>1 DEF ListOk
  <2>. QED  BY <2>1, <2>2
<1>7. ThreadOk(v, g, NoProblem, more)
  <2>1. \A k \in DOMAIN g : FrameOk(v, g, more, k) /\ (k > 1 => g[k].rule # NoRule)
    <3> SUFFICES ASSUME NEW k \in DOMAIN g
                 PROVE  FrameOk(v, g, more, k) /\ (k > 1 => g[k].rule # NoRule)
      OBVIOUS
    <3>1. CASE k = Len(f) + 1
      <4>1. f # <<>> => Len(f) > 0 /\ g[Len(f)] = f[Len(f)]
        BY <1>3
      <4>2. f = <<>> <=> k = 1
        BY <3>1
      <4>3. k > 1 => r \in Rules
        BY <4>2 DEF ThreadOk
      <4>4. g[k].stage = n /\ g[k].rule = r /\ g[k].params = p
        BY <3>1, <1>3
      <4>5. g[k].stage \in DOMAIN more /\ more[g[k].stage] = NewStage(s, r)
        BY <4>4, <1>2
      <4>6. s.current = IF k = 1 THEN 0 ELSE g[k - 1].stage
        BY <3>1, <4>1, <4>2, <1>1
      <4>7. FrameOk(v, g, more, k)
        BY <4>4, <4>5, <4>6, <1>4 DEF FrameOk
      <4>. QED  BY <4>3, <4>4, <4>7 DEF ExecutionAssumption
    <3>2. CASE k # Len(f) + 1
      <4>1. k \in 1 .. Len(f) /\ g[k] = f[k] /\ f # <<>>
        BY <3>2, <1>3
      <4>2. ThreadOk(s, f, NoProblem, list) /\ s.params = p
        BY <4>1
      <4>3. FrameOk(s, f, list, k) /\ (k > 1 => f[k].rule # NoRule)
        BY <4>1, <4>2 DEF ThreadOk
      <4>4. k # 1 => k - 1 \in 1 .. Len(f) /\ g[k - 1] = f[k - 1]
        BY <4>1, <1>3
      <4>5. f[k].stage \in DOMAIN list /\ more[f[k].stage] = list[f[k].stage]
        BY <4>3, <1>2 DEF FrameOk
      <4>6. f[k].stage \in DOMAIN more
        BY <4>5, <1>2
      <4>. QED  BY <4>1, <4>2, <4>3, <4>4, <4>5, <4>6 DEF FrameOk
    <3>. QED  BY <3>1, <3>2
  <2>2. \A k, l \in DOMAIN g : k < l => g[k].stage < g[l].stage
    <3> SUFFICES ASSUME NEW k \in DOMAIN g, NEW l \in DOMAIN g, k < l
                 PROVE  g[k].stage < g[l].stage
      OBVIOUS
    <3>1. k \in 1 .. Len(f) /\ g[k] = f[k] /\ f # <<>>
      BY <1>3
    <3>2. f[k].stage \in DOMAIN list
      BY <3>1 DEF ThreadOk, FrameOk
    <3>3. CASE l = Len(f) + 1
      BY <3>1, <3>2, <3>3, <1>2, <1>3
    <3>4. CASE l # Len(f) + 1
      <4>1. l \in DOMAIN f /\ g[l] = f[l]
        BY <3>4, <1>3
      <4>. QED  BY <3>1, <4>1 DEF ThreadOk
    <3>. QED  BY <3>3, <3>4
  <2>3. \A i \in DOMAIN more : more[i].outcome = "open" => \E k \in DOMAIN g : g[k].stage = i
    <3> SUFFICES ASSUME NEW i \in DOMAIN more, more[i].outcome = "open"
                 PROVE  \E k \in DOMAIN g : g[k].stage = i
      OBVIOUS
    <3>1. CASE i = n
      <4>1. Len(f) + 1 \in DOMAIN g /\ g[Len(f) + 1].stage = n
        BY <1>3
      <4>. QED  BY <3>1, <4>1
    <3>2. CASE i # n
      <4>1. i \in DOMAIN list /\ list[i].outcome = "open"
        BY <3>2, <1>2
      <4>2. \E k \in DOMAIN f : f[k].stage = i
        <5>1. list # <<>>
          BY <4>1
        <5>2. ThreadOk(s, f, NoProblem, list)
          BY <5>1
        <5>. QED  BY <4>1, <5>2 DEF ThreadOk
      <4>3. \A k \in DOMAIN f : k \in DOMAIN g /\ g[k] = f[k]
        BY <1>3
      <4>. QED  BY <4>2, <4>3
    <3>. QED  BY <3>1, <3>2
  <2>4. \A i \in DOMAIN more : more[i].outcome # "message"
    <3>1. \A i \in DOMAIN list : list[i].outcome # "message"
      BY DEF ThreadOk, ExecutionAssumption, Problems
    <3> SUFFICES ASSUME NEW i \in DOMAIN more
                 PROVE  more[i].outcome # "message"
      OBVIOUS
    <3>2. CASE i = n
      <4>1. more[i].outcome = "open"
        BY <3>2, <1>2, <1>4
      <4>. QED  BY <4>1
    <3>3. CASE i # n
      <4>1. i \in DOMAIN list /\ more[i] = list[i]
        BY <3>3, <1>2
      <4>. QED  BY <4>1, <3>1
    <3>. QED  BY <3>2, <3>3
  <2>. QED  BY <2>1, <2>2, <2>3, <2>4, <1>2, <1>3 DEF ThreadOk
<1>. QED  BY <1>6, <1>7 DEF g, more

LEMMA FrontIs ==
  ASSUME NEW S, NEW f \in Seq(S), f # <<>>
  PROVE  /\ Len(f) \in Nat \ {0} /\ DOMAIN f = 1 .. Len(f)
         /\ Front(f) \in Seq(S)
         /\ Len(Front(f)) = Len(f) - 1
         /\ DOMAIN Front(f) = 1 .. Len(f) - 1
         /\ \A k \in 1 .. Len(f) - 1 : Front(f)[k] = f[k]
         /\ Last(f) = f[Len(f)]
<1>1. Len(f) \in Nat \ {0} /\ DOMAIN f = 1 .. Len(f)
  OBVIOUS
<1>2. Front(f) \in Seq(S) /\ Len(Front(f)) = Len(f) - 1
  BY <1>1 DEF Front
<1>3. DOMAIN Front(f) = 1 .. Len(f) - 1
  BY <1>2
<1>4. \A k \in 1 .. Len(f) - 1 : Front(f)[k] = f[k]
  BY <1>1 DEF Front
<1>. QED  BY <1>1, <1>2, <1>3, <1>4 DEF Last

\* tracer.trace: the trace goes to the stage of the innermost frame.
LEMMA Noted ==
  ASSUME NEW list \in Seq(Stages), ListOk(list), NEW f \in Seq(Frames),
         NEW s, NEW th, ThreadOk(s, f, th, list)
  PROVE  LET more == [list EXCEPT ![s.current].traces = @ \cup {Last(f).rule}]
         IN  more \in Seq(Stages) /\ ListOk(more) /\ ThreadOk(s, f, th, more)
<1> DEFINE c == s.current
           more == [list EXCEPT ![c].traces = @ \cup {Last(f).rule}]
<1>1. /\ Len(f) \in DOMAIN f /\ Last(f) = f[Len(f)] /\ Last(f) \in Frames
      /\ c = f[Len(f)].stage /\ c \in DOMAIN list /\ list[c].rule = Last(f).rule
  <2>1. Len(f) \in DOMAIN f /\ Last(f) = f[Len(f)]
    <3>1. f # <<>>
      BY DEF ThreadOk
    <3>2. Len(f) \in Nat \ {0} /\ DOMAIN f = 1 .. Len(f) /\ Last(f) = f[Len(f)]
      BY <3>1, FrontIs
    <3>. QED  BY <3>2
  <2>2. c = f[Len(f)].stage /\ FrameOk(s, f, list, Len(f))
    BY <2>1 DEF ThreadOk
  <2>. QED  BY <2>1, <2>2 DEF FrameOk
<1>2. list[c] \in Stages /\ Last(f).rule \in Rules \cup {NoRule}
  BY <1>1 DEF Frames
<1>3. [list[c] EXCEPT !.traces = @ \cup {Last(f).rule}] \in Stages
  BY <1>2 DEF Stages
<1>4. more \in Seq(Stages) /\ DOMAIN more = DOMAIN list /\ Len(more) = Len(list)
  BY <1>1, <1>3
<1>5. \A i \in DOMAIN list :
        /\ more[i].id = list[i].id /\ more[i].parent = list[i].parent
        /\ more[i].rule = list[i].rule /\ more[i].outcome = list[i].outcome
        /\ more[i].traces \subseteq list[i].traces \cup IF i = c THEN {list[c].rule} ELSE {}
  BY <1>1, <1>2 DEF Stages
<1> HIDE DEF more, c
<1>6. ListOk(more)
  BY <1>4, <1>5 DEF ListOk
<1>7. \A k \in DOMAIN f : FrameOk(s, f, more, k) /\ (k > 1 => f[k].rule # NoRule)
  <2> SUFFICES ASSUME NEW k \in DOMAIN f
               PROVE  FrameOk(s, f, more, k) /\ (k > 1 => f[k].rule # NoRule)
    OBVIOUS
  <2>1. FrameOk(s, f, list, k) /\ (k > 1 => f[k].rule # NoRule)
    BY DEF ThreadOk
  <2>2. f[k].stage \in DOMAIN list
    BY <2>1 DEF FrameOk
  <2>. QED  BY <2>1, <2>2, <1>4, <1>5 DEF FrameOk
<1>8. ThreadOk(s, f, th, more)
  <2>1. f # <<>> /\ s.current = f[Len(f)].stage /\ s.last = Len(more)
        /\ \A k, l \in DOMAIN f : k < l => f[k].stage < f[l].stage
    BY <1>4 DEF ThreadOk
  <2>2. \A i \in DOMAIN more : more[i].outcome = "open" => \E k \in DOMAIN f : f[k].stage = i
    BY <1>4, <1>5 DEF ThreadOk
  <2>3. ASSUME NEW i \in DOMAIN more, more[i].outcome = "message"
        PROVE  /\ th = "exception"
               /\ \A j \in DOMAIN more : j = more[i].parent => more[j].outcome \in {"open", "message"}
    <3>1. i \in DOMAIN list /\ list[i].outcome = "message" /\ more[i].parent = list[i].parent
      BY <2>3, <1>4, <1>5
    <3>2. /\ th = "exception"
          /\ \A j \in DOMAIN list : j = list[i].parent => list[j].outcome \in {"open", "message"}
      BY <3>1 DEF ThreadOk
    <3>3. \A j \in DOMAIN list : more[j].outcome = list[j].outcome
      BY <1>5
    <3>. QED  BY <3>1, <3>2, <3>3, <1>4
  <2>. QED  BY <2>1, <2>2, <2>3, <1>7 DEF ThreadOk
<1>. QED  BY <1>4, <1>6, <1>8 DEF more, c

\* What endStage makes of a list: the stage below goes on, or it is done.
EndedOk(f, s, o, more, up) ==
  /\ more \in Seq(Stages) /\ ListOk(more)
  /\ up = 0 <=> Len(f) = 1
  /\ up \in Nat
  /\ Len(f) # 1 => \A v : v.current = up /\ v.last = s.last /\ v.params = s.params
                            => ThreadOk(v, Front(f), ProblemOf(o), more)
  /\ Len(f) = 1 => \A a : a.rule = Last(f).rule /\ a.outcome = o => AnswerOk(a, more)

LEMMA Ended ==
  ASSUME ExecutionAssumption,
         NEW list \in Seq(Stages), ListOk(list), NEW f \in Seq(Frames),
         NEW s, NEW th, ThreadOk(s, f, th, list),
         NEW o \in Outcomes, th = "exception" => o = "message",
         NEW more, more = [list EXCEPT ![s.current].outcome = o],
         NEW up, up = list[s.current].parent
  PROVE  EndedOk(f, s, o, more, up)
<1> DEFINE c == s.current
<1>1. /\ Len(f) \in Nat \ {0} /\ DOMAIN f = 1 .. Len(f) /\ Last(f) = f[Len(f)]
      /\ c = f[Len(f)].stage /\ FrameOk(s, f, list, Len(f))
  <2>1. Len(f) \in Nat \ {0} /\ DOMAIN f = 1 .. Len(f) /\ Last(f) = f[Len(f)]
    BY FrontIs DEF ThreadOk
  <2>2. Len(f) \in DOMAIN f
    BY <2>1
  <2>. QED  BY <2>1, <2>2 DEF ThreadOk
<1>2. /\ c \in DOMAIN list /\ list[c].rule = Last(f).rule /\ list[c].outcome = "open"
      /\ up = IF Len(f) = 1 THEN 0 ELSE f[Len(f) - 1].stage
  BY <1>1 DEF FrameOk
<1>3. list[c] \in Stages /\ [list[c] EXCEPT !.outcome = o] \in Stages
  <2>1. list[c] \in Stages
    BY <1>2
  <2>. QED  BY <2>1 DEF Stages
<1>4. more \in Seq(Stages) /\ DOMAIN more = DOMAIN list /\ Len(more) = Len(list)
  BY <1>2, <1>3
<1>5. \A i \in DOMAIN list :
        /\ more[i].id = list[i].id /\ more[i].parent = list[i].parent
        /\ more[i].rule = list[i].rule /\ more[i].traces = list[i].traces
        /\ more[i].outcome = IF i = c THEN o ELSE list[i].outcome
  BY <1>2, <1>3 DEF Stages
<1> HIDE DEF c
<1>6. ListOk(more)
  BY <1>4, <1>5 DEF ListOk
<1>7. Len(f) # 1 => Len(f) - 1 \in DOMAIN f /\ FrameOk(s, f, list, Len(f) - 1)
  <2>1. Len(f) # 1 => Len(f) - 1 \in DOMAIN f
    BY <1>1
  <2>. QED  BY <2>1 DEF ThreadOk
<1>8. up \in Nat /\ (up = 0 <=> Len(f) = 1)
  <2>1. Len(f) # 1 => up \in DOMAIN list
    BY <1>2, <1>7 DEF FrameOk
  <2>2. DOMAIN list = 1 .. Len(list) /\ Len(list) \in Nat
    OBVIOUS
  <2>. QED  BY <2>1, <2>2, <1>2
<1>9. ASSUME Len(f) # 1, NEW v, v.current = up, v.last = s.last, v.params = s.params
      PROVE  ThreadOk(v, Front(f), ProblemOf(o), more)
  <2> DEFINE g == Front(f)
  <2>1. /\ Len(g) = Len(f) - 1 /\ DOMAIN g = 1 .. Len(f) - 1
        /\ \A k \in 1 .. Len(f) - 1 : g[k] = f[k]
    BY FrontIs DEF ThreadOk
  <2>2. g # <<>>
    <3>1. 1 \in DOMAIN g
      BY <2>1, <1>1, <1>9
    <3>. QED  BY <3>1
  <2> HIDE DEF g
  <2>3. v.current = g[Len(g)].stage
    <3>1. g[Len(g)] = f[Len(f) - 1]
      <4>1. Len(f) - 1 \in 1 .. Len(f) - 1
        BY <1>1, <1>9
      <4>. QED  BY <4>1, <2>1
    <3>. QED  BY <3>1, <1>2, <1>9
  <2>4. \A k \in DOMAIN g : FrameOk(v, g, more, k) /\ (k > 1 => g[k].rule # NoRule)
    <3> SUFFICES ASSUME NEW k \in DOMAIN g
                 PROVE  FrameOk(v, g, more, k) /\ (k > 1 => g[k].rule # NoRule)
      OBVIOUS
    <3>1. k \in DOMAIN f /\ g[k] = f[k] /\ k < Len(f)
      BY <1>1, <2>1
    <3>2. FrameOk(s, f, list, k) /\ (k > 1 => f[k].rule # NoRule)
      BY <3>1 DEF ThreadOk
    <3>3. k # 1 => g[k - 1] = f[k - 1]
      BY <1>1, <2>1, <3>1
    <3>4. f[k].stage # c
      <4>1. f[k].stage < f[Len(f)].stage
        BY <3>1, <1>1 DEF ThreadOk
      <4>2. f[k].stage \in Nat /\ f[Len(f)].stage \in Nat
        <5>1. f[k] \in Frames /\ f[Len(f)] \in Frames
          BY <3>1, <1>1
        <5>. QED  BY <5>1 DEF Frames
      <4>. QED  BY <4>1, <4>2, <1>1
    <3>. QED  BY <3>1, <3>2, <3>3, <3>4, <1>4, <1>5, <1>9 DEF FrameOk
  <2>5. \A k, l \in DOMAIN g : k < l => g[k].stage < g[l].stage
    <3> SUFFICES ASSUME NEW k \in DOMAIN g, NEW l \in DOMAIN g, k < l
                 PROVE  g[k].stage < g[l].stage
      OBVIOUS
    <3>1. k \in DOMAIN f /\ l \in DOMAIN f /\ g[k] = f[k] /\ g[l] = f[l]
      BY <1>1, <2>1
    <3>. QED  BY <3>1 DEF ThreadOk
  <2>6. \A i \in DOMAIN more : more[i].outcome = "open" => \E k \in DOMAIN g : g[k].stage = i
    <3> SUFFICES ASSUME NEW i \in DOMAIN more, more[i].outcome = "open"
                 PROVE  \E k \in DOMAIN g : g[k].stage = i
      OBVIOUS
    <3>1. i \in DOMAIN list /\ i # c /\ list[i].outcome = "open"
      BY <1>4, <1>5 DEF Outcomes
    <3>2. PICK k \in DOMAIN f : f[k].stage = i
      BY <3>1 DEF ThreadOk
    <3>3. k # Len(f)
      BY <3>1, <3>2, <1>1
    <3>4. k \in DOMAIN g /\ g[k] = f[k]
      BY <3>3, <1>1, <2>1
    <3>. QED  BY <3>2, <3>4
  <2>7. ASSUME NEW i \in DOMAIN more, more[i].outcome = "message"
        PROVE  /\ ProblemOf(o) = "exception"
               /\ \A j \in DOMAIN more : j = more[i].parent
                                           => more[j].outcome \in {"open", "message"}
    <3>1. o = "message"
      BY <2>7, <1>4, <1>5 DEF ThreadOk
    <3>2. CASE i = c
      <4>1. more[i].parent = f[Len(f) - 1].stage /\ list[f[Len(f) - 1].stage].outcome = "open"
        BY <3>2, <1>2, <1>4, <1>5, <1>7, <1>9 DEF FrameOk, c
      <4>. QED  BY <3>1, <4>1, <1>4, <1>5 DEF ProblemOf
    <3>3. CASE i # c
      BY <3>1, <3>3, <2>7, <1>4, <1>5 DEF ThreadOk, ProblemOf
    <3>. QED  BY <3>2, <3>3
  <2>8. s.last = Len(list)
    BY DEF ThreadOk
  <2>9. ThreadOk(v, g, ProblemOf(o), more)
    BY <2>2, <2>3, <2>4, <2>5, <2>6, <2>7, <2>8, <1>4, <1>9 DEF ThreadOk
  <2>. QED  BY <2>9 DEF g
<1>10. ASSUME Len(f) = 1, NEW a, a.rule = Last(f).rule, a.outcome = o
       PROVE  AnswerOk(a, more)
  <2>1. c = 1 /\ 1 \in DOMAIN list
    <3>1. list[c].parent = 0
      BY <1>2, <1>10 DEF c
    <3>. QED  BY <3>1, <1>2 DEF ListOk
  <2>2. \A i \in DOMAIN more : more[i].outcome # "open"
    <3> SUFFICES ASSUME NEW i \in DOMAIN more, more[i].outcome = "open"
                 PROVE  FALSE
      OBVIOUS
    <3>1. i \in DOMAIN list /\ i # c /\ list[i].outcome = "open"
      BY <1>4, <1>5 DEF Outcomes
    <3>2. PICK k \in DOMAIN f : f[k].stage = i
      BY <3>1 DEF ThreadOk
    <3>. QED  BY <3>1, <3>2, <1>1, <1>10
  <2>3. ASSUME NEW i \in DOMAIN more, more[i].outcome = "message"
        PROVE  /\ o = "message"
               /\ \A j \in DOMAIN more : j = more[i].parent => more[j].outcome = "message"
    <3>1. o = "message"
      BY <2>3, <1>4, <1>5 DEF ThreadOk
    <3>2. CASE i = c
      <4>1. more[i].parent = 0
        BY <3>2, <1>2, <1>5, <1>10 DEF c
      <4>2. 0 \notin DOMAIN more
        BY <1>4
      <4>. QED  BY <3>1, <4>1, <4>2
    <3>3. CASE i # c
      <4>1. \A j \in DOMAIN more : j = more[i].parent => list[j].outcome \in {"open", "message"}
        BY <3>3, <2>3, <1>4, <1>5 DEF ThreadOk
      <4>. QED  BY <3>1, <4>1, <2>2, <1>4, <1>5
    <3>. QED  BY <3>2, <3>3
  <2>4. more # <<>>
    BY <2>1, <1>4
  <2>. QED  BY <2>1, <2>2, <2>3, <2>4, <1>2, <1>4, <1>5, <1>10 DEF AnswerOk
<1>. QED  BY <1>4, <1>6, <1>8, <1>9, <1>10 DEF EndedOk

------------------------------------------------------------------------------
(* The steps keep the invariant.  Each changes one thread and one list.     *)

\* A step of thread t that changes the list x of its status, and answers
\* nothing: the other threads and the answers have other lists.
LEMMA OneList ==
  ASSUME ExecutionInv, NEW t \in Threads, NEW x \in ExecutionIds,
         x > generated \/ (status[t] # NoStatus /\ x = status[t].id)
  PROVE  /\ \A u \in Threads : u # t /\ status[u] # NoStatus => status[u].id # x
         /\ \A a \in answers : a.id # x
<1>1. generated \in Nat
  BY DEF ExecutionInv, TypeOK
<1>2. \A u \in Threads : status[u] # NoStatus => status[u].id \in 1 .. generated
  BY DEF ExecutionInv, OwnLists
<1>3. \A a \in answers : a.id \in 1 .. generated
  BY DEF ExecutionInv, OwnLists
<1>4. CASE x > generated
  BY <1>1, <1>2, <1>3, <1>4
<1>5. CASE status[t] # NoStatus /\ x = status[t].id
  BY <1>5 DEF ExecutionInv, OwnLists
<1>. QED  BY <1>4, <1>5

LEMMA InitInv ==
  ASSUME ExecutionAssumption, Init
  PROVE  ExecutionInv
<1>1. TypeOK
  BY DEF Init, TypeOK, ExecutionAssumption
<1>2. OwnLists /\ ThreadsOk /\ ListsOk
  BY DEF Init, OwnLists, ThreadsOk, ListsOk, ListOk
<1>. QED  BY <1>1, <1>2 DEF ExecutionInv

LEMMA BeginStep ==
  ASSUME ExecutionAssumption, ExecutionInv, NEW t \in Threads,
         NEW r \in Rules \cup {NoRule}, NEW p \in Params,
         \/ status[t] = NoStatus
         \/ Running(t) /\ status[t] # NoStatus /\ r \in Rules /\ p = status[t].params,
         Begin(t, r, p)
  PROVE  ExecutionInv'
<1> DEFINE s == StatusFor(t, p)
           n == s.last + 1
           x == s.id
           v == [id |-> s.id, current |-> n, last |-> n, params |-> p]
           fr == [rule |-> r, params |-> p, stage |-> n]
           list == traced[x]
           more == Append(list, NewStage(s, r))
           g == Append(frames[t], fr)
<1>1. /\ TypeOK /\ OwnLists /\ ThreadsOk /\ ListsOk
      /\ generated \in Nat
  BY DEF ExecutionInv, TypeOK
<1>2. status[t] # NoStatus => status[t] \in Statuses
  BY <1>1 DEF TypeOK
<1>3. /\ s.id \in Nat /\ s.current \in Nat /\ s.last \in Nat /\ s.params = p
      /\ v.id = x /\ v.current = n /\ v.last = n /\ v.params = p
      /\ v = [id |-> x, current |-> n, last |-> n, params |-> p]
  <2>1. s.id \in Nat /\ s.current \in Nat /\ s.last \in Nat /\ s.params = p
    BY <1>1, <1>2 DEF StatusFor, Statuses, ExecutionIds
  <2> HIDE DEF s
  <2>. QED  BY <2>1
<1>4. /\ x <= MaxExecutions
      /\ generated' = IF status[t] = NoStatus THEN generated + 1 ELSE generated
      /\ traced' = [traced EXCEPT ![x] = more]
      /\ status' = [status EXCEPT ![t] = v]
      /\ frames' = [frames EXCEPT ![t] = g]
      /\ thrown' = thrown /\ answers' = answers
  BY DEF Begin
<1>5. x = IF status[t] = NoStatus THEN generated + 1 ELSE status[t].id
  BY DEF StatusFor
<1>6. x \in ExecutionIds /\ (x > generated \/ (status[t] # NoStatus /\ x = status[t].id))
      /\ x \in 1 .. generated'
  <2>1. x \in Nat /\ x # 0
    BY <1>1, <1>2, <1>5 DEF Statuses, ExecutionIds
  <2>2. status[t] # NoStatus => x \in 1 .. generated
    BY <1>1, <1>5 DEF OwnLists
  <2>. QED  BY <1>1, <1>4, <1>5, <2>1, <2>2 DEF ExecutionIds, ExecutionAssumption
<1>7. /\ list \in Seq(Stages) /\ frames[t] \in Seq(Frames) /\ ListOk(list)
  BY <1>1, <1>6 DEF TypeOK, ListsOk
<1>8. /\ status[t] = NoStatus => frames[t] = <<>> /\ list = <<>> /\ s.current = 0 /\ s.last = 0
      /\ status[t] # NoStatus => ThreadOk(s, frames[t], NoProblem, list) /\ r \in Rules
      /\ thrown[t] = NoProblem
  <2>1. ASSUME status[t] = NoStatus
        PROVE  /\ frames[t] = <<>> /\ list = <<>> /\ s.current = 0 /\ s.last = 0
               /\ thrown[t] = NoProblem
    BY <2>1, <1>1, <1>5, <1>6 DEF ThreadsOk, OwnLists, StatusFor
  <2>2. ASSUME status[t] # NoStatus
        PROVE  /\ ThreadOk(s, frames[t], NoProblem, list) /\ r \in Rules
               /\ thrown[t] = NoProblem
    <3>1. r \in Rules /\ thrown[t] = NoProblem /\ p = status[t].params
      BY <2>2 DEF Running
    <3>2. s = status[t]
      BY <3>1, <2>2, <1>2 DEF StatusFor, Statuses
    <3>. QED  BY <3>1, <3>2, <2>2, <1>1, <1>5 DEF ThreadsOk
  <2>. QED  BY <2>1, <2>2
<1> HIDE DEF s, v, x, list
<1>9. ListOk(more) /\ ThreadOk(v, g, NoProblem, more)
  BY <1>3, <1>7, <1>8, Pushed
<1>10. /\ \A u \in Threads : u # t /\ status[u] # NoStatus => status[u].id # x
       /\ \A a \in answers : a.id # x
  BY <1>6, OneList
<1>11. NewStage(s, r) \in Stages /\ fr \in Frames /\ v \in Statuses
  BY <1>3, <1>6 DEF NewStage, Stage, Stages, Frames, Statuses
<1>12. more \in Seq(Stages) /\ g \in Seq(Frames)
  BY <1>7, <1>11
<1> HIDE DEF more, g
<1>13. TypeOK'
  <2>1. generated' \in 0 .. MaxExecutions
    BY <1>1, <1>3, <1>4, <1>5 DEF TypeOK, ExecutionAssumption
  <2>. QED  BY <2>1, <1>1, <1>4, <1>6, <1>11, <1>12 DEF TypeOK
<1>14. /\ traced'[x] = more /\ \A y \in ExecutionIds : y # x => traced'[y] = traced[y]
       /\ status'[t] = v /\ \A u \in Threads : u # t => status'[u] = status[u]
       /\ frames'[t] = g /\ \A u \in Threads : u # t => frames'[u] = frames[u]
       /\ v # NoStatus
  BY <1>1, <1>4, <1>6, <1>11 DEF TypeOK, ExecutionAssumption
<1>15. OwnLists'
  <2>1. \A u \in Threads : status'[u] # NoStatus => status'[u].id \in 1 .. generated'
    BY <1>1, <1>3, <1>4, <1>6, <1>14 DEF OwnLists
  <2>2. \A u, w \in Threads : u # w /\ status'[u] # NoStatus /\ status'[w] # NoStatus
                               => status'[u].id # status'[w].id
    BY <1>1, <1>3, <1>10, <1>14 DEF OwnLists
  <2>3. \A a \in answers : /\ a.id \in 1 .. generated'
                           /\ \A u \in Threads : status'[u] # NoStatus => status'[u].id # a.id
    BY <1>1, <1>3, <1>4, <1>10, <1>14 DEF OwnLists
  <2>4. \A y \in ExecutionIds : y > generated' => traced'[y] = <<>>
    <3> SUFFICES ASSUME NEW y \in ExecutionIds, y > generated'
                 PROVE  traced'[y] = <<>>
      OBVIOUS
    <3>1. generated' \in Nat /\ generated <= generated'
      BY <1>1, <1>4
    <3>2. y # x /\ y > generated
      BY <3>1, <1>1, <1>6 DEF ExecutionIds
    <3>. QED  BY <3>2, <1>1, <1>14 DEF OwnLists
  <2>. QED  BY <2>1, <2>2, <2>3, <2>4, <1>4 DEF OwnLists
<1>16. ThreadsOk'
  <2> SUFFICES ASSUME NEW u \in Threads
               PROVE  /\ status'[u] = NoStatus => frames'[u] = <<>> /\ thrown'[u] = NoProblem
                      /\ status'[u] # NoStatus =>
                           ThreadOk(status'[u], frames'[u], thrown'[u], traced'[status'[u].id])
    BY DEF ThreadsOk
  <2>1. CASE u = t
    BY <2>1, <1>3, <1>4, <1>8, <1>9, <1>14
  <2>2. CASE u # t
    <3>1. status[u] # NoStatus => status[u].id \in ExecutionIds /\ status[u].id # x
      BY <2>2, <1>1, <1>10 DEF TypeOK, Statuses
    <3>. QED  BY <2>2, <3>1, <1>1, <1>4, <1>14 DEF ThreadsOk
  <2>. QED  BY <2>1, <2>2
<1>17. ListsOk'
  <2>1. \A y \in ExecutionIds : ListOk(traced'[y])
    BY <1>1, <1>9, <1>14 DEF ListsOk
  <2>2. \A a \in answers : AnswerOk(a, traced'[a.id])
    BY <1>1, <1>10, <1>14 DEF ListsOk, TypeOK
  <2>. QED  BY <2>1, <2>2, <1>4 DEF ListsOk
<1>. QED  BY <1>13, <1>15, <1>16, <1>17 DEF ExecutionInv

\* A running thread has a status, and so a list.
LEMMA RunningThread ==
  ASSUME ExecutionAssumption, ExecutionInv, NEW t \in Threads, frames[t] # <<>>
  PROVE  /\ status[t] # NoStatus /\ status[t] \in Statuses
         /\ status[t].id \in ExecutionIds
         /\ ThreadOk(status[t], frames[t], thrown[t], traced[status[t].id])
         /\ ListOk(traced[status[t].id])
         /\ traced[status[t].id] \in Seq(Stages)
         /\ frames[t] \in Seq(Frames)
<1>1. status[t] # NoStatus /\ ThreadOk(status[t], frames[t], thrown[t], traced[status[t].id])
  BY DEF ExecutionInv, ThreadsOk
<1>2. status[t] \in Statuses /\ status[t].id \in ExecutionIds
  BY <1>1 DEF ExecutionInv, TypeOK, Statuses
<1>. QED  BY <1>1, <1>2 DEF ExecutionInv, TypeOK, ListsOk

LEMMA TraceStep ==
  ASSUME ExecutionAssumption, ExecutionInv, NEW t \in Threads, Trace(t)
  PROVE  ExecutionInv'
<1> DEFINE x == status[t].id
           list == traced[x]
           more == [list EXCEPT ![status[t].current].traces = @ \cup {Last(frames[t]).rule}]
<1>1. /\ status[t] # NoStatus /\ x \in ExecutionIds
      /\ more \in Seq(Stages) /\ ListOk(more)
      /\ ThreadOk(status[t], frames[t], thrown[t], more)
  BY RunningThread, Noted DEF Trace, Running
<1>2. /\ \A u \in Threads : u # t /\ status[u] # NoStatus => status[u].id # x
      /\ \A a \in answers : a.id # x
  BY <1>1, OneList
<1>3. /\ traced' = [traced EXCEPT ![x] = more]
      /\ status' = status /\ frames' = frames /\ thrown' = thrown
      /\ generated' = generated /\ answers' = answers
  BY DEF Trace
<1> HIDE DEF x, more
<1>4. TypeOK'
  BY <1>1, <1>3 DEF ExecutionInv, TypeOK
<1>5. traced'[x] = more /\ \A y \in ExecutionIds : y # x => traced'[y] = traced[y]
  BY <1>1, <1>3 DEF ExecutionInv, TypeOK
<1>6. OwnLists'
  <2>1. x <= generated /\ generated \in Nat
    BY <1>1 DEF ExecutionInv, TypeOK, OwnLists, x
  <2>2. \A y \in ExecutionIds : y > generated => traced'[y] = <<>>
    BY <2>1, <1>5 DEF ExecutionInv, OwnLists, ExecutionIds
  <2>. QED  BY <2>2, <1>3 DEF ExecutionInv, OwnLists
<1>7. ThreadsOk'
  <2> SUFFICES ASSUME NEW u \in Threads
               PROVE  /\ status[u] = NoStatus => frames[u] = <<>> /\ thrown[u] = NoProblem
                      /\ status[u] # NoStatus =>
                           ThreadOk(status[u], frames[u], thrown[u], traced'[status[u].id])
    BY <1>3 DEF ThreadsOk
  <2>1. CASE u = t
    BY <2>1, <1>1, <1>5 DEF x
  <2>2. CASE u # t
    <3>1. status[u] # NoStatus => status[u].id \in ExecutionIds /\ status[u].id # x
      BY <2>2, <1>2 DEF ExecutionInv, TypeOK, Statuses
    <3>. QED  BY <3>1, <1>5 DEF ExecutionInv, ThreadsOk
  <2>. QED  BY <2>1, <2>2
<1>8. ListsOk'
  <2>1. \A y \in ExecutionIds : ListOk(traced'[y])
    BY <1>1, <1>5 DEF ExecutionInv, ListsOk
  <2>2. \A a \in answers : AnswerOk(a, traced'[a.id])
    BY <1>2, <1>5 DEF ExecutionInv, ListsOk, TypeOK
  <2>. QED  BY <2>1, <2>2, <1>3 DEF ListsOk
<1>. QED  BY <1>4, <1>6, <1>7, <1>8 DEF ExecutionInv

LEMMA FailStep ==
  ASSUME ExecutionAssumption, ExecutionInv, NEW t \in Threads, Fail(t)
  PROVE  ExecutionInv'
<1>1. PICK p \in Problems : thrown' = [thrown EXCEPT ![t] = p]
  BY DEF Fail
<1>2. /\ status' = status /\ frames' = frames /\ traced' = traced
      /\ generated' = generated /\ answers' = answers /\ frames[t] # <<>>
      /\ thrown[t] = NoProblem
  BY DEF Fail, Running
<1>3. TypeOK' /\ OwnLists' /\ ListsOk'
  BY <1>1, <1>2 DEF ExecutionInv, TypeOK, OwnLists, ListsOk
<1>4. ThreadsOk'
  <2>1. \A u \in Threads : u # t => thrown'[u] = thrown[u]
    BY <1>1 DEF ExecutionInv, TypeOK
  <2>2. status[t] # NoStatus /\ ThreadOk(status[t], frames[t], NoProblem, traced[status[t].id])
    BY <1>2 DEF ExecutionInv, ThreadsOk
  <2>3. NoProblem # "exception"
    BY DEF ExecutionAssumption, Problems
  <2>4. ThreadOk(status[t], frames[t], thrown'[t], traced[status[t].id])
    BY <2>2, <2>3 DEF ThreadOk
  <2>. QED  BY <1>2, <2>1, <2>2, <2>4 DEF ExecutionInv, ThreadsOk
<1>. QED  BY <1>3, <1>4 DEF ExecutionInv

\* endStage and what becomes of the status and of the stack.
LEMMA EndStep ==
  ASSUME ExecutionAssumption, ExecutionInv, NEW t \in Threads, frames[t] # <<>>,
         NEW o \in Outcomes, thrown[t] = "exception" => o = "message",
         EndStage(t, o), frames' = [frames EXCEPT ![t] = Front(@)], generated' = generated,
         \/ Answer(t, o)
         \/ /\ Len(frames[t]) = 1 /\ answers' = answers
            /\ thrown' = [thrown EXCEPT ![t] = NoProblem]
  PROVE  ExecutionInv'
<1> DEFINE s == status[t]
           x == s.id
           f == frames[t]
           list == traced[x]
           th == thrown[t]
           up == list[s.current].parent
           more == [list EXCEPT ![s.current].outcome = o]
           v == [s EXCEPT !.current = up]
           answer == [id |-> x, rule |-> Last(f).rule, params |-> Last(f).params, outcome |-> o]
<1>1. /\ s # NoStatus /\ s \in Statuses /\ x \in ExecutionIds
      /\ ThreadOk(s, f, thrown[t], list) /\ ListOk(list)
      /\ list \in Seq(Stages) /\ f \in Seq(Frames)
  BY RunningThread
<1>2. /\ more \in Seq(Stages) /\ ListOk(more) /\ up \in Nat
      /\ up = 0 <=> Len(f) = 1
      /\ Len(f) # 1 => \A w : w.current = up /\ w.last = s.last /\ w.params = s.params
                                => ThreadOk(w, Front(f), ProblemOf(o), more)
      /\ Len(f) = 1 => \A a : a.rule = Last(f).rule /\ a.outcome = o => AnswerOk(a, more)
  <2>1. /\ more = [list EXCEPT ![s.current].outcome = o] /\ up = list[s.current].parent
        /\ th = "exception" => o = "message"
        /\ ThreadOk(s, f, th, list) /\ ListOk(list) /\ list \in Seq(Stages) /\ f \in Seq(Frames)
    BY <1>1
  <2> HIDE DEF x, f, s, list, up, more, th
  <2>2. EndedOk(f, s, o, more, up)
    BY <2>1, Ended
  <2>. QED  BY <2>2 DEF EndedOk
<1>3. /\ v.id = x /\ v.current = up /\ v.last = s.last /\ v.params = s.params
      /\ up # 0 => v \in Statuses
  BY <1>1, <1>2 DEF Statuses
<1>4. /\ traced' = [traced EXCEPT ![x] = more]
      /\ status' = [status EXCEPT ![t] = IF up = 0 THEN NoStatus ELSE v]
      /\ frames' = [frames EXCEPT ![t] = Front(f)]
      /\ generated' = generated
  BY DEF EndStage, Current
<1>5. /\ Front(f) \in Seq(Frames) /\ Last(f) \in Frames
      /\ Len(f) = 1 => Front(f) = <<>>
  <2>1. f # <<>> /\ Len(f) \in Nat \ {0} /\ Len(f) \in DOMAIN f
    BY <1>1
  <2>2. Front(f) \in Seq(Frames) /\ Len(Front(f)) = Len(f) - 1 /\ Last(f) = f[Len(f)]
    BY <1>1, <2>1, FrontIs
  <2>3. Last(f) \in Frames
    BY <1>1, <2>1, <2>2
  <2>. QED  BY <2>2, <2>3
<1>6. /\ \A u \in Threads : u # t /\ status[u] # NoStatus => status[u].id # x
      /\ \A a \in answers : a.id # x
  BY <1>1, OneList
<1>7. \/ /\ Len(f) = 1 /\ answers' = answers \cup {answer}
         /\ thrown' = [thrown EXCEPT ![t] = NoProblem]
      \/ /\ Len(f) = 1 /\ answers' = answers
         /\ thrown' = [thrown EXCEPT ![t] = NoProblem]
      \/ /\ Len(f) # 1 /\ answers' = answers
         /\ thrown' = [thrown EXCEPT ![t] = ProblemOf(o)]
  BY DEF Answer
<1>8. answer \in [id : ExecutionIds, rule : Rules \cup {NoRule}, params : Params,
                  outcome : Outcomes]
  BY <1>1, <1>5 DEF Frames
<1>9. answer.id = x /\ answer.rule = Last(f).rule /\ answer.outcome = o
  OBVIOUS
<1>10. ProblemOf(o) \in Problems \cup {NoProblem}
  BY DEF ProblemOf, Problems
<1> HIDE DEF x, f, s, list, up, more, v, answer
<1>11. TypeOK'
  <2>1. status' \in [Threads -> Statuses \cup {NoStatus}]
    BY <1>3, <1>4 DEF ExecutionInv, TypeOK
  <2>2. frames' \in [Threads -> Seq(Frames)] /\ traced' \in [ExecutionIds -> Seq(Stages)]
    BY <1>2, <1>4, <1>5 DEF ExecutionInv, TypeOK
  <2>3. thrown' \in [Threads -> Problems \cup {NoProblem}]
    BY <1>7, <1>10 DEF ExecutionInv, TypeOK
  <2>4. answers' \subseteq [id : ExecutionIds, rule : Rules \cup {NoRule}, params : Params,
                            outcome : Outcomes]
    BY <1>7, <1>8 DEF ExecutionInv, TypeOK
  <2>. QED  BY <2>1, <2>2, <2>3, <2>4, <1>4 DEF ExecutionInv, TypeOK
<1>12. /\ traced'[x] = more /\ \A y \in ExecutionIds : y # x => traced'[y] = traced[y]
       /\ status'[t] = IF up = 0 THEN NoStatus ELSE v
       /\ \A u \in Threads : u # t => status'[u] = status[u]
       /\ frames'[t] = Front(f) /\ \A u \in Threads : u # t => frames'[u] = frames[u]
       /\ thrown'[t] = IF Len(f) = 1 THEN NoProblem ELSE ProblemOf(o)
       /\ \A u \in Threads : u # t => thrown'[u] = thrown[u]
  <2>1. /\ traced'[x] = more /\ \A y \in ExecutionIds : y # x => traced'[y] = traced[y]
        /\ status'[t] = IF up = 0 THEN NoStatus ELSE v
        /\ \A u \in Threads : u # t => status'[u] = status[u]
        /\ frames'[t] = Front(f) /\ \A u \in Threads : u # t => frames'[u] = frames[u]
    BY <1>1, <1>4 DEF ExecutionInv, TypeOK
  <2>2. /\ thrown'[t] = IF Len(f) = 1 THEN NoProblem ELSE ProblemOf(o)
        /\ \A u \in Threads : u # t => thrown'[u] = thrown[u]
    BY <1>7 DEF ExecutionInv, TypeOK
  <2>. QED  BY <2>1, <2>2
<1>13. x \in 1 .. generated
  BY <1>1 DEF ExecutionInv, OwnLists, x, s
<1>14. \A a \in answers' : a \in answers \/ (a = answer /\ Len(f) = 1)
  BY <1>7
<1>15. OwnLists'
  <2>1. \A u \in Threads : status'[u] # NoStatus => status'[u].id \in 1 .. generated
    BY <1>3, <1>12, <1>13 DEF ExecutionInv, OwnLists
  <2>2. \A u, w \in Threads : u # w /\ status'[u] # NoStatus /\ status'[w] # NoStatus
                               => status'[u].id # status'[w].id
    BY <1>3, <1>6, <1>12 DEF ExecutionInv, OwnLists
  <2>3. \A a \in answers' : /\ a.id \in 1 .. generated
                            /\ \A u \in Threads : status'[u] # NoStatus => status'[u].id # a.id
    <3> SUFFICES ASSUME NEW a \in answers'
                 PROVE  /\ a.id \in 1 .. generated
                        /\ \A u \in Threads : status'[u] # NoStatus => status'[u].id # a.id
      OBVIOUS
    <3>1. CASE a \in answers
      BY <3>1, <1>3, <1>6, <1>12 DEF ExecutionInv, OwnLists
    <3>2. CASE a = answer /\ Len(f) = 1
      BY <3>2, <1>2, <1>6, <1>9, <1>12, <1>13
    <3>. QED  BY <3>1, <3>2, <1>14
  <2>4. \A y \in ExecutionIds : y > generated => traced'[y] = <<>>
    <3>1. generated \in Nat
      BY DEF ExecutionInv, TypeOK
    <3>2. \A y \in ExecutionIds : y > generated => y # x
      BY <3>1, <1>13 DEF ExecutionIds
    <3>. QED  BY <3>2, <1>12 DEF ExecutionInv, OwnLists
  <2>. QED  BY <2>1, <2>2, <2>3, <2>4, <1>4 DEF OwnLists
<1>16. ThreadsOk'
  <2> SUFFICES ASSUME NEW u \in Threads
               PROVE  /\ status'[u] = NoStatus => frames'[u] = <<>> /\ thrown'[u] = NoProblem
                      /\ status'[u] # NoStatus =>
                           ThreadOk(status'[u], frames'[u], thrown'[u], traced'[status'[u].id])
    BY DEF ThreadsOk
  <2>1. CASE u = t
    <3>1. CASE up = 0
      BY <2>1, <3>1, <1>2, <1>5, <1>12
    <3>2. CASE up # 0
      <4>1. v # NoStatus
        BY <3>2, <1>3 DEF ExecutionAssumption
      <4>2. ThreadOk(v, Front(f), ProblemOf(o), more)
        BY <3>2, <1>2, <1>3
      <4>. QED  BY <2>1, <3>2, <4>1, <4>2, <1>2, <1>3, <1>12
    <3>. QED  BY <3>1, <3>2
  <2>2. CASE u # t
    <3>1. status[u] # NoStatus => status[u].id \in ExecutionIds /\ status[u].id # x
      BY <2>2, <1>6 DEF ExecutionInv, TypeOK, Statuses
    <3>. QED  BY <2>2, <3>1, <1>12 DEF ExecutionInv, ThreadsOk
  <2>. QED  BY <2>1, <2>2
<1>17. ListsOk'
  <2>1. \A y \in ExecutionIds : ListOk(traced'[y])
    BY <1>2, <1>12 DEF ExecutionInv, ListsOk
  <2>2. \A a \in answers : AnswerOk(a, traced'[a.id])
    BY <1>6, <1>12 DEF ExecutionInv, ListsOk, TypeOK
  <2>3. Len(f) = 1 => AnswerOk(answer, traced'[answer.id])
    BY <1>2, <1>9, <1>12
  <2>4. \A a \in answers' : AnswerOk(a, traced'[a.id])
    BY <2>2, <2>3, <1>14
  <2>. QED  BY <2>1, <2>4 DEF ListsOk
<1>. QED  BY <1>11, <1>15, <1>16, <1>17 DEF ExecutionInv

LEMMA NextInv ==
  ASSUME ExecutionAssumption, ExecutionInv, [Next]_vars
  PROVE  ExecutionInv'
<1>1. CASE UNCHANGED vars
  BY <1>1 DEF vars, ExecutionInv, TypeOK, OwnLists, ThreadsOk, ListsOk
<1>2. ASSUME NEW t \in Threads, NEW r \in Rules, NEW p \in Params, Execute(t, r, p)
      PROVE  ExecutionInv'
  <2>1. status[t] = NoStatus
    BY <1>2 DEF Execute, ExecutionInv, ThreadsOk, ThreadOk
  <2>. QED  BY <1>2, <2>1, BeginStep DEF Execute
<1>3. ASSUME NEW t \in Threads, NEW p \in Params, Evaluate(t, p)
      PROVE  ExecutionInv'
  <2>1. status[t] = NoStatus
    BY <1>3 DEF Evaluate, ExecutionInv, ThreadsOk, ThreadOk
  <2>. QED  BY <1>3, <2>1, BeginStep DEF Evaluate
<1>4. ASSUME NEW t \in Threads, NEW r \in Rules, Call(t, r)
      PROVE  ExecutionInv'
  <2>1. status[t] # NoStatus /\ status[t].params \in Params
    BY <1>4, RunningThread DEF Call, Running, Statuses
  <2>. QED  BY <1>4, <2>1, BeginStep DEF Call
<1>5. ASSUME NEW t \in Threads, Trace(t)
      PROVE  ExecutionInv'
  BY <1>5, TraceStep
<1>6. ASSUME NEW t \in Threads, Fail(t)
      PROVE  ExecutionInv'
  BY <1>6, FailStep
<1>7. ASSUME NEW t \in Threads, Return(t)
      PROVE  ExecutionInv'
  <2>1. frames[t] # <<>> /\ thrown[t] # "exception" /\ generated' = generated
    BY <1>7 DEF Return, Running, ExecutionAssumption, Problems
  <2>2. PICK o \in {"value", "null"} : EndStage(t, o) /\ Answer(t, o)
    BY <1>7 DEF Return
  <2>3. o \in Outcomes /\ frames' = [frames EXCEPT ![t] = Front(@)]
    BY <2>2 DEF Outcomes, Answer
  <2>. QED  BY <2>1, <2>2, <2>3, EndStep
<1>8. ASSUME NEW t \in Threads, Catch(t)
      PROVE  ExecutionInv'
  <2> DEFINE o == IF thrown[t] = "silent" THEN "silent" ELSE "message"
  <2>1. frames[t] # <<>> /\ generated' = generated /\ EndStage(t, o) /\ Answer(t, o)
    BY <1>8 DEF Catch
  <2>2. o \in Outcomes /\ (thrown[t] = "exception" => o = "message")
    BY DEF Outcomes
  <2>3. frames' = [frames EXCEPT ![t] = Front(@)]
    BY <2>1 DEF Answer
  <2> HIDE DEF o
  <2>. QED  BY <2>1, <2>2, <2>3, EndStep
<1>9. ASSUME NEW t \in Threads, Escape(t)
      PROVE  ExecutionInv'
  <2>1. /\ frames[t] # <<>> /\ thrown[t] # "exception" /\ EndStage(t, "silent")
        /\ frames' = [frames EXCEPT ![t] = Front(@)] /\ generated' = generated
        /\ thrown' = [thrown EXCEPT ![t] = NoProblem] /\ answers' = answers
        /\ Last(frames[t]).rule = NoRule
    BY <1>9 DEF Escape
  <2>2. Len(frames[t]) = 1
    <3>1. /\ Last(frames[t]) = frames[t][Len(frames[t])] /\ Len(frames[t]) \in Nat \ {0}
          /\ Len(frames[t]) \in DOMAIN frames[t]
      <4>1. frames[t] \in Seq(Frames)
        BY <2>1, RunningThread
      <4>2. /\ Last(frames[t]) = frames[t][Len(frames[t])] /\ Len(frames[t]) \in Nat \ {0}
            /\ DOMAIN frames[t] = 1 .. Len(frames[t])
        BY <2>1, <4>1, FrontIs
      <4>. QED  BY <4>2
    <3>2. Len(frames[t]) > 1 => frames[t][Len(frames[t])].rule # NoRule
      BY <2>1, <3>1, RunningThread DEF ThreadOk
    <3>3. ~ (Len(frames[t]) > 1)
      BY <2>1, <3>1, <3>2
    <3>4. \A n \in Nat \ {0} : ~ (n > 1) => n = 1
      OBVIOUS
    <3>. QED  BY <3>1, <3>3, <3>4, Zenon
  <2>3. "silent" \in Outcomes
    BY DEF Outcomes
  <2>. QED  BY <2>1, <2>2, <2>3, EndStep
<1>. QED  BY <1>1, <1>2, <1>3, <1>4, <1>5, <1>6, <1>7, <1>8, <1>9 DEF Next

\* The invariant holds in every reachable state.
THEOREM Inductive == Spec => []ExecutionInv
<1>1. Init => ExecutionInv
  BY InitInv, ExecutionAssumption
<1>2. ExecutionInv /\ [Next]_vars => ExecutionInv'
  BY NextInv, ExecutionAssumption
<1>. QED  BY <1>1, <1>2, PTL DEF Spec

------------------------------------------------------------------------------
(* What follows from the invariant.                                         *)

LEMMA InvStack == ASSUME ExecutionAssumption, ExecutionInv PROVE StageStack
<1> SUFFICES ASSUME NEW t \in Threads
             PROVE  /\ frames[t] = <<>> <=> status[t] = NoStatus
                    /\ frames[t] # <<>> =>
                         /\ status[t].current = Last(frames[t]).stage
                         /\ \A k \in DOMAIN frames[t] :
                              FrameOk(status[t], frames[t], traced[status[t].id], k)
  BY DEF StageStack, FrameOk
<1>1. frames[t] = <<>> <=> status[t] = NoStatus
  BY DEF ExecutionInv, ThreadsOk, ThreadOk
<1>2. ASSUME frames[t] # <<>>
      PROVE  /\ status[t].current = Last(frames[t]).stage
             /\ \A k \in DOMAIN frames[t] :
                  FrameOk(status[t], frames[t], traced[status[t].id], k)
  <2>1. /\ ThreadOk(status[t], frames[t], thrown[t], traced[status[t].id])
        /\ frames[t] \in Seq(Frames)
    BY <1>2, RunningThread
  <2>2. Last(frames[t]) = frames[t][Len(frames[t])]
    BY DEF Last
  <2>. QED  BY <2>1, <2>2 DEF ThreadOk
<1>. QED  BY <1>1, <1>2

LEMMA InvAnswers ==
  ASSUME ExecutionAssumption, ExecutionInv
  PROVE  TracesOwnRule /\ AnswerComplete /\ ErrorsReachTop
<1>1. \A a \in answers : a.id \in ExecutionIds /\ AnswerOk(a, traced[a.id]) /\ ListOk(traced[a.id])
  BY DEF ExecutionInv, TypeOK, ListsOk
<1>2. TracesOwnRule
  BY DEF ExecutionInv, ListsOk, ListOk, TracesOwnRule
<1>3. AnswerComplete
  BY <1>1 DEF AnswerComplete, AnswerOk, ListOk
<1>4. ErrorsReachTop
  BY <1>1 DEF ErrorsReachTop, AnswerOk
<1>. QED  BY <1>2, <1>3, <1>4

\* No step touches the list of an answer: it changes the list of a running
\* execution, or starts a new one.
LEMMA AnsweredStays ==
  ASSUME ExecutionAssumption, ExecutionInv, Next, NEW a \in answers
  PROVE  traced'[a.id] = traced[a.id]
<1>1. a.id \in 1 .. generated /\ a.id \in ExecutionIds /\ generated \in Nat
      /\ \A t \in Threads : status[t] # NoStatus => a.id # status[t].id
  BY DEF ExecutionInv, TypeOK, OwnLists
<1>2. ASSUME NEW t \in Threads, NEW r, NEW p, Begin(t, r, p)
      PROVE  traced'[a.id] = traced[a.id]
  <2>1. StatusFor(t, p).id = IF status[t] = NoStatus THEN generated + 1 ELSE status[t].id
    BY DEF StatusFor
  <2>2. a.id # StatusFor(t, p).id
    BY <2>1, <1>1
  <2>3. traced' = [traced EXCEPT ![StatusFor(t, p).id] = Append(@, NewStage(StatusFor(t, p), r))]
    BY <1>2 DEF Begin
  <2>. QED  BY <2>2, <2>3, <1>1 DEF ExecutionInv, TypeOK
<1>3. ASSUME NEW t \in Threads, frames[t] # <<>>
      PROVE  a.id # status[t].id
  BY <1>1, <1>3, RunningThread
<1>4. ASSUME NEW t \in Threads, NEW o, frames[t] # <<>>, EndStage(t, o)
      PROVE  traced'[a.id] = traced[a.id]
  BY <1>1, <1>3, <1>4 DEF EndStage, ExecutionInv, TypeOK
<1>5. ASSUME NEW t \in Threads, Trace(t)
      PROVE  traced'[a.id] = traced[a.id]
  <2>1. a.id # status[t].id
    BY <1>3, <1>5 DEF Trace, Running
  <2>. QED  BY <2>1, <1>1, <1>5 DEF Trace, ExecutionInv, TypeOK
<1>6. ASSUME NEW t \in Threads, Return(t) \/ Catch(t) \/ Escape(t)
      PROVE  traced'[a.id] = traced[a.id]
  <2>1. frames[t] # <<>>
    BY <1>6 DEF Return, Catch, Escape, Running
  <2>2. \E o : EndStage(t, o)
    BY <1>6 DEF Return, Catch, Escape
  <2>. QED  BY <2>1, <2>2, <1>4
<1>7. PICK t \in Threads :
        \/ \E r, p : Begin(t, r, p)
        \/ Trace(t) \/ Fail(t) \/ Return(t) \/ Catch(t) \/ Escape(t)
  BY DEF Next, Execute, Evaluate, Call
<1>8. Fail(t) => traced' = traced
  BY DEF Fail
<1>. QED  BY <1>2, <1>5, <1>6, <1>7, <1>8

\* TypeOK: the status of a thread always has a current stage, or is gone.
THEOREM ExecutionType == Spec => []TypeOK
<1>1. ExecutionInv => TypeOK
  BY DEF ExecutionInv
<1>. QED  BY <1>1, Inductive, PTL

\* StageStack: beginStage and endStage keep the open stages of each thread
\* equal to its Java stack, however rules call each other and fail.
THEOREM StagesFollowStack == Spec => []StageStack
<1>1. ExecutionInv => StageStack
  BY InvStack, ExecutionAssumption
<1>. QED  BY <1>1, Inductive, PTL

\* TracesOwnRule: no script writes into the stage of another rule.
THEOREM TracesAreOwn == Spec => []TracesOwnRule
<1>1. ExecutionInv => TracesOwnRule
  BY InvAnswers, ExecutionAssumption
<1>. QED  BY <1>1, Inductive, PTL

\* AnswerComplete: the stages saved with an answer are a finished tree.
THEOREM AnswersAreComplete == Spec => []AnswerComplete
<1>1. ExecutionInv => AnswerComplete
  BY InvAnswers, ExecutionAssumption
<1>. QED  BY <1>1, Inductive, PTL

\* ErrorsReachTop: a failure with a message fails every rule above it.
THEOREM MessagesReachTop == Spec => []ErrorsReachTop
<1>1. ExecutionInv => ErrorsReachTop
  BY InvAnswers, ExecutionAssumption
<1>. QED  BY <1>1, Inductive, PTL

\* ListsFinal: the list an answer shares with the tracer never changes again.
THEOREM AnswersKeepLists == Spec => ListsFinal
<1>1. ExecutionInv /\ [Next]_vars => [\A a \in answers : traced'[a.id] = traced[a.id]]_vars
  BY AnsweredStays, ExecutionAssumption
<1>. QED  BY <1>1, Inductive, PTL DEF Spec, ListsFinal
==============================================================================
