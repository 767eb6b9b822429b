------------------------------ MODULE ResultFlow ------------------------------
(***************************************************************************)
(* What the engine promises of the results of match requests, with no node, *)
(* list, channel or thread in sight.  A request is accepted, and may then   *)
(* be refused if nothing of it has run.  Its rules run at most once each,   *)
(* one at a time; those of an ordered rule set in their order, so that at   *)
(* any time a first part of them has run.  A result is converted (its trace *)
(* stages are saved) after its rule has run, one of an ordered rule set     *)
(* only after all of its rules have, and never again, and is stored after   *)
(* that.  Any result may get lost before each of these steps; what is       *)
(* stored stays.                                                            *)
(***************************************************************************)
EXTENDS Naturals

CONSTANTS
  Requests,
  Results,
  Of,         \* Of[q]: the results request q is to have, in the order of the rules
  Sequential  \* the requests whose rules run in this order

VARIABLES status,     \* of each request: new, accepted or refused
          ran,        \* how often the rule of each result has run
          converted,  \* results whose stages have been saved
          stored      \* results that have a row

flowVars == <<status, ran, converted, stored>>

FlowInit ==
  /\ status = [q \in Requests |-> "new"]
  /\ ran = [x \in Results |-> 0]
  /\ converted = {}
  /\ stored = {}

Accept(q) ==
  /\ status[q] = "new"
  /\ status' = [status EXCEPT ![q] = "accepted"]
  /\ UNCHANGED <<ran, converted, stored>>

Refuse(q) ==
  /\ status[q] = "accepted"
  /\ \A i \in DOMAIN Of[q] : ran[Of[q][i]] = 0
  /\ status' = [status EXCEPT ![q] = "refused"]
  /\ UNCHANGED <<ran, converted, stored>>

Run(q, i) ==
  /\ status[q] = "accepted"
  /\ ran[Of[q][i]] = 0
  /\ q \in Sequential => \A j \in DOMAIN Of[q] : j < i => ran[Of[q][j]] = 1
  /\ ran' = [ran EXCEPT ![Of[q][i]] = 1]
  /\ UNCHANGED <<status, converted, stored>>

Complete(q) == \A i \in DOMAIN Of[q] : ran[Of[q][i]] = 1

\* Results whose rules have run join the converted ones.
Convert ==
  /\ converted \subseteq converted' /\ converted' \subseteq Results
  /\ \A x \in converted' \ converted : ran[x] = 1
  /\ \A q \in Sequential : \A i \in DOMAIN Of[q] :
       Of[q][i] \in converted' \ converted => Complete(q)
  /\ UNCHANGED <<status, ran, stored>>

\* Converted results join the stored ones.
Store ==
  /\ stored \subseteq stored' /\ stored' \subseteq converted
  /\ UNCHANGED <<status, ran, converted>>

FlowNext ==
  \/ \E q \in Requests : \/ Accept(q) \/ Refuse(q)
                         \/ \E i \in DOMAIN Of[q] : Run(q, i)
  \/ Convert
  \/ Store

FlowSpec == FlowInit /\ [][FlowNext]_flowVars
==============================================================================
