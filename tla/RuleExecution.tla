---------------------------- MODULE RuleExecution ----------------------------
(***************************************************************************)
(* How a rule runs: JexlAcceptanceExecutor (JexlScoreExecutor and           *)
(* JexlTextExecutor do the same), RuleCallerImpl for the rules a rule       *)
(* calls, and ThreadLocalExecutionTracer, which keeps for each thread the   *)
(* stages of the running execution.  The executors, the caller and the      *)
(* tracer are shared by all threads; everything about an execution is in    *)
(* the thread-local status and on the Java stack (frames).  A status is     *)
(* found again by the next execution on the same pool thread unless the     *)
(* outermost endStage removes it.  The list of stages is shared: the status *)
(* and every result of the execution refer to the same one (traced).        *)
(* What a script computes is left out: it traces, calls rules, returns, or  *)
(* fails.                                                                   *)
(***************************************************************************)
EXTENDS Naturals, Sequences, SequencesExt

CONSTANTS
  Threads,        \* threads that run rules
  Rules,          \* rules (with their version)
  Params,         \* parameter maps of a request
  NoRule,         \* an expression is evaluated without a rule
  NoStatus,       \* the thread has no execution status
  NoProblem,      \* no exception is on its way
  MaxExecutions,  \* bound: executions started
  MaxStages       \* bound: MaxStages[x] rules run in execution x (the code has none)

ExecutionIds == 1 .. MaxExecutions

\* ExecutionStatus. Stage n is the n-th of the list, so last is its length.
Statuses == [id : ExecutionIds, current : Nat \ {0}, last : Nat \ {0}, params : Params]

\* "exception" has a message, as all have that leave a script; "silent" has
\* none (buildScript of a rule without expression); "error" is no Exception.
Problems == {"exception", "silent", "error"}

ASSUME ExecutionAssumption ==
  /\ NoRule \notin Rules
  /\ NoStatus \notin Statuses
  /\ NoProblem \notin Problems
  /\ MaxExecutions \in Nat
  /\ MaxStages \in [1 .. MaxExecutions -> Nat \ {0}]

\* Outcomes that end a stage. A null result and a silent failure look alike.
Outcomes == {"value", "null", "message", "silent"}

VARIABLES
  status,      \* executionStatus: the thread-local ExecutionStatus, or NoStatus
  frames,      \* the executions on the Java stack of each thread, outermost first,
               \* and which stage each began (only the properties read stage)
  thrown,      \* the exception on its way up each thread
  traced,      \* the list of stages of each execution, by its id
  generated,   \* executionIds generated so far
  answers      \* results the outermost execute or evaluate returned

vars == <<status, frames, thrown, traced, generated, answers>>

\* traces: the rules whose scripts have written a trace into the stage.
Stage(id, parent, rule) ==
  [id |-> id, parent |-> parent, rule |-> rule, traces |-> {}, outcome |-> "open"]

Init ==
  /\ status = [t \in Threads |-> NoStatus]
  /\ frames = [t \in Threads |-> <<>>]
  /\ thrown = [t \in Threads |-> NoProblem]
  /\ traced = [x \in ExecutionIds |-> <<>>]
  /\ generated = 0
  /\ answers = {}

Running(t) == frames[t] # <<>> /\ thrown[t] = NoProblem

\* The stage status.currentStageId names: stage n is the n-th of the list.
Current(t) == traced[status[t].id][status[t].current]

------------------------------------------------------------------------------
(* Begin a rule: setParams and beginStage.  The status is made by the first *)
(* access of the thread.                                                    *)

\* The status setParams finds or makes on thread t, with parameters p.
StatusFor(t, p) ==
  IF status[t] = NoStatus
  THEN [id |-> generated + 1, current |-> 0, last |-> 0, params |-> p]
  ELSE [status[t] EXCEPT !.params = p]

\* A slip: the parent of a stage is the stage begun before it.
StageUnderLast(s, r) == Stage(s.last + 1, s.last, r)

\* The stage beginStage makes for rule r.
NewStage(s, r) == Stage(s.last + 1, s.current, r)

Begin(t, r, p) ==
  LET s == StatusFor(t, p)
      n == s.last + 1
  IN  /\ s.id <= MaxExecutions
      /\ n <= MaxStages[s.id]
      /\ generated' = IF status[t] = NoStatus THEN generated + 1 ELSE generated
      /\ traced' = [traced EXCEPT ![s.id] = Append(@, NewStage(s, r))]
      /\ status' = [status EXCEPT ![t] = [id |-> s.id, current |-> n, last |-> n,
                                          params |-> p]]
      /\ frames' = [frames EXCEPT ![t] = Append(@, [rule |-> r, params |-> p, stage |-> n])]
      /\ UNCHANGED <<thrown, answers>>

\* RuleExecutor.execute and evaluate, called by a match or an evaluation.
Execute(t, r, p) == frames[t] = <<>> /\ Begin(t, r, p)
Evaluate(t, p) == frames[t] = <<>> /\ Begin(t, NoRule, p)

\* rules.call(...) in a script: the rule runs with the tracer's parameters.
Call(t, r) == Running(t) /\ Begin(t, r, status[t].params)

------------------------------------------------------------------------------
(* What else a script does.                                                 *)

\* tracer.trace(message) in the script of the innermost rule.
Trace(t) ==
  /\ Running(t)
  /\ traced' = [traced EXCEPT ![status[t].id][status[t].current].traces =
                                @ \cup {Last(frames[t]).rule}]
  /\ UNCHANGED <<status, frames, thrown, generated, answers>>

\* The script, a getRule of call() or the conversion of the value fails.
Fail(t) ==
  /\ Running(t)
  /\ \E p \in Problems : thrown' = [thrown EXCEPT ![t] = p]
  /\ UNCHANGED <<status, frames, traced, generated, answers>>

------------------------------------------------------------------------------
(* End of a rule: the stage gets the outcome, endStage goes back to its     *)
(* parent and removes the status after the outermost one, and the caller    *)
(* gets the answer: the client, or call() of the rule below.                *)

\* A slip: the status outlives the outermost stage.
EndStageKeepStatus(t, outcome) ==
  LET up == Current(t).parent
  IN  /\ traced' = [traced EXCEPT ![status[t].id][status[t].current].outcome = outcome]
      /\ status' = [status EXCEPT ![t] = [@ EXCEPT !.current = up]]

\* A slip: the ended stage stays the current one, unless it is the outermost.
EndStageStay(t, outcome) ==
  LET up == Current(t).parent
  IN  /\ traced' = [traced EXCEPT ![status[t].id][status[t].current].outcome = outcome]
      /\ status' = [status EXCEPT ![t] = IF up = 0 THEN NoStatus ELSE @]

EndStage(t, outcome) ==
  LET up == Current(t).parent
  IN  /\ traced' = [traced EXCEPT ![status[t].id][status[t].current].outcome = outcome]
      /\ status' = [status EXCEPT ![t] = IF up = 0 THEN NoStatus ELSE [@ EXCEPT !.current = up]]

\* A slip: call() takes a failed answer as a null result.
NoProblemOf(outcome) == NoProblem

\* What call() makes of the answer: only a message tells it of a failure.
ProblemOf(outcome) == IF outcome = "message" THEN "exception" ELSE NoProblem

Answer(t, outcome) ==
  LET top == Last(frames[t])
  IN  /\ frames' = [frames EXCEPT ![t] = Front(@)]
      /\ IF Len(frames[t]) = 1
         THEN /\ answers' = answers \cup {[id |-> status[t].id, rule |-> top.rule,
                                           params |-> top.params, outcome |-> outcome]}
              /\ thrown' = [thrown EXCEPT ![t] = NoProblem]
         ELSE /\ thrown' = [thrown EXCEPT ![t] = ProblemOf(outcome)]
              /\ UNCHANGED answers

\* The script returns a value or null.
Return(t) ==
  /\ Running(t)
  /\ \E outcome \in {"value", "null"} : EndStage(t, outcome) /\ Answer(t, outcome)
  /\ UNCHANGED generated

\* A slip: the stage of a failed rule below the outermost is not ended.
CatchOpen(t) ==
  /\ frames[t] # <<>>
  /\ thrown[t] # NoProblem
  /\ Last(frames[t]).rule = NoRule => thrown[t] # "error"
  /\ LET outcome == IF thrown[t] = "silent" THEN "silent" ELSE "message"
     IN  /\ IF Len(frames[t]) = 1 THEN EndStage(t, outcome) ELSE UNCHANGED <<traced, status>>
         /\ Answer(t, outcome)
  /\ UNCHANGED generated

\* execute catches every Throwable, evaluate every Exception.
Catch(t) ==
  /\ frames[t] # <<>>
  /\ thrown[t] # NoProblem
  /\ Last(frames[t]).rule = NoRule => thrown[t] # "error"
  /\ LET outcome == IF thrown[t] = "silent" THEN "silent" ELSE "message"
     IN  EndStage(t, outcome) /\ Answer(t, outcome)
  /\ UNCHANGED generated

\* An Error passes through evaluate to the client: finally ends the stage,
\* which has neither result nor message, and no answer is returned.
Escape(t) ==
  /\ frames[t] # <<>>
  /\ Last(frames[t]).rule = NoRule
  /\ thrown[t] = "error"
  /\ EndStage(t, "silent")
  /\ frames' = [frames EXCEPT ![t] = Front(@)]
  /\ thrown' = [thrown EXCEPT ![t] = NoProblem]
  /\ UNCHANGED <<generated, answers>>

Next ==
  \E t \in Threads :
    \/ \E r \in Rules, p \in Params : Execute(t, r, p)
    \/ \E p \in Params : Evaluate(t, p)
    \/ \E r \in Rules : Call(t, r)
    \/ Trace(t)
    \/ Fail(t)
    \/ Return(t)
    \/ Catch(t)
    \/ Escape(t)

Spec == Init /\ [][Next]_vars

------------------------------------------------------------------------------
(* Properties.                                                              *)

Stages == [id : Nat, parent : Nat, rule : Rules \cup {NoRule},
           traces : SUBSET (Rules \cup {NoRule}), outcome : Outcomes \cup {"open"}]

Frames == [rule : Rules \cup {NoRule}, params : Params, stage : Nat \ {0}]

\* Types: between two calls a thread has no status, or one with a current
\* stage (line 168 of the tracer removes it at stage 0).
TypeOK ==
  /\ status \in [Threads -> Statuses \cup {NoStatus}]
  /\ frames \in [Threads -> Seq(Frames)]
  /\ thrown \in [Threads -> Problems \cup {NoProblem}]
  /\ traced \in [ExecutionIds -> Seq(Stages)]
  /\ generated \in 0 .. MaxExecutions
  /\ answers \subseteq [id : ExecutionIds, rule : Rules \cup {NoRule}, params : Params,
                        outcome : Outcomes]

\* The stages that are open on thread t, innermost first, are those of the
\* rules on its stack, each below the stage of the rule that called it; all
\* run with the parameters of the request. So tracer.trace, setResult and
\* setErrorMessage reach the stage of the rule that called them.
StageStack ==
  \A t \in Threads :
    /\ frames[t] = <<>> <=> status[t] = NoStatus
    /\ frames[t] # <<>> =>
         /\ status[t].current = Last(frames[t]).stage
         /\ \A k \in DOMAIN frames[t] :
              LET f == frames[t][k]
                  stage == traced[status[t].id][f.stage]
              IN  /\ f.params = status[t].params
                  /\ f.stage \in DOMAIN traced[status[t].id]
                  /\ stage.rule = f.rule /\ stage.outcome = "open"
                  /\ stage.parent = IF k = 1 THEN 0 ELSE frames[t][k - 1].stage

\* Every trace a script writes is in a stage of its own rule: the trace shown
\* for a rule in result.html was written by it.
TracesOwnRule ==
  \A x \in ExecutionIds : \A i \in DOMAIN traced[x] :
    traced[x][i].traces \subseteq {traced[x][i].rule}

\* The stages of an answer are one finished execution: the first is the rule
\* that was asked for with the answer's outcome, every other one is under an
\* earlier stage (buildStageTree of result.html finds its parent), and no
\* stage is still open when saveStages writes them.
AnswerComplete ==
  \A a \in answers :
    LET list == traced[a.id]
    IN  /\ list # <<>>
        /\ list[1].rule = a.rule /\ list[1].outcome = a.outcome
        /\ \A i \in DOMAIN list :
             /\ list[i].id = i
             /\ list[i].parent \in IF i = 1 THEN {0} ELSE 1 .. i - 1
             /\ list[i].outcome # "open"

\* A failure that has a message is not taken for a result by any rule above:
\* each of them fails with a message too, up to the answer of the client.
ErrorsReachTop ==
  \A a \in answers : \A i \in DOMAIN traced[a.id] :
    traced[a.id][i].outcome = "message" =>
      /\ a.outcome = "message"
      /\ \A j \in DOMAIN traced[a.id] :
           j = traced[a.id][i].parent => traced[a.id][j].outcome = "message"

\* The stages of a returned answer never change again, whatever runs later on
\* the same pool thread: the answer holds the tracer's own list.
ListsFinal == [][\A a \in answers : traced'[a.id] = traced[a.id]]_vars
==============================================================================
