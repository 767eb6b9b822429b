----------------------------- MODULE ResultStore -----------------------------
(***************************************************************************)
(* What the batched persistence of match results promises, with no thread, *)
(* lock, list or counter in sight.  A result that has been handed over has *)
(* its trace stages saved at once (traced), waits for its row (pending)    *)
(* and then either gets it (stored) or is dropped.  A row is never made    *)
(* from nothing, and one hand-over never makes two rows.                   *)
(***************************************************************************)
EXTENDS Naturals

CONSTANT Results

VARIABLES traced,   \* how often the stages of each result were saved
          pending,  \* rows of each result still to be written
          stored    \* rows of each result in re_result

storeVars == <<traced, pending, stored>>

Counts == [Results -> Nat]
Zero == [r \in Results |-> 0]

StoreTypeOK ==
  /\ traced \in Counts
  /\ pending \in Counts
  /\ stored \in Counts

StoreInit ==
  /\ traced = Zero
  /\ pending = Zero
  /\ stored = Zero

\* A batch of results is handed over, each once.
Submit(batch) ==
  /\ traced' = [r \in Results |-> IF r \in batch THEN traced[r] + 1 ELSE traced[r]]
  /\ pending' = [r \in Results |-> IF r \in batch THEN pending[r] + 1 ELSE pending[r]]
  /\ UNCHANGED stored

\* A batch of the waiting rows is written in one transaction; the rest waits on.
StoreSome ==
  /\ \A r \in Results :
       /\ pending'[r] =< pending[r]
       /\ stored'[r] = stored[r] + (pending[r] - pending'[r])
  /\ pending' \in Counts
  /\ stored' \in Counts
  /\ UNCHANGED traced

\* Rows that wait are forgotten: lost with the process, by a failed
\* transaction, or by the list being cleared after it grew.
Drop ==
  /\ pending' \in Counts
  /\ \A r \in Results : pending'[r] =< pending[r]
  /\ UNCHANGED <<traced, stored>>

StoreNext ==
  \/ \E batch \in SUBSET Results : Submit(batch)
  \/ StoreSome
  \/ Drop

StoreSpec == StoreInit /\ [][StoreNext]_storeVars

\* Rows saved and rows waiting never exceed what was handed over: no result
\* is written twice for one hand-over.
NeverTwice == \A r \in Results : stored[r] + pending[r] =< traced[r]
==============================================================================
