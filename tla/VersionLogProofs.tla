--------------------------- MODULE VersionLogProofs ---------------------------
(***************************************************************************)
(* The rule set tables and the rule tables of RuleCatalog each implement    *)
(* VersionLog: a commit makes exactly the next version, with the contents   *)
(* it was given, and archives the one it replaces, a set's whole and a      *)
(* rule's without its design; versions archived before stay as they were.   *)
(***************************************************************************)
EXTENDS RuleVersionsProofs

------------------------------------------------------------------------------
(* Lists of versions, and the rows that versions are found in.              *)

\* What the archives keep of an answer, and the versions of a code when the last
\* of them has been archived.
KeptOfSet == [answers \in SUBSET SetBody |-> answers]
AllArchived(answers) == {Archived(a) : a \in answers}
KeptOfRule == [answers \in SUBSET RuleText |-> AllArchived(answers)]
LastArchived(kept, few) ==
  [v \in DOMAIN few |-> IF v = Len(few) THEN kept[few[v]] ELSE few[v]]

LEMMA KeptType ==
  /\ KeptOfSet \in [SUBSET SetBody -> SUBSET SetBody]
  /\ KeptOfRule \in [SUBSET RuleText -> SUBSET RuleText]
<1>1. \A a \in RuleText : Archived(a) \in RuleText
  BY DEF RuleText, Archived
<1> QED
  BY <1>1 DEF KeptOfSet, KeptOfRule, AllArchived

LEMMA LastArchivedIs ==
  ASSUME NEW C, NEW kept \in [C -> C], NEW n \in Nat, NEW few \in [1 .. n -> C]
  PROVE  /\ Len(few) = n
         /\ LastArchived(kept, few) \in [1 .. n -> C]
         /\ \A v \in 1 .. n :
              LastArchived(kept, few)[v] = IF v = n THEN kept[few[v]] ELSE few[v]
<1>1. Len(few) = n /\ DOMAIN few = 1 .. n
  OBVIOUS
<1>2. \A v \in 1 .. n : (IF v = n THEN kept[few[v]] ELSE few[v]) \in C
  OBVIOUS
<1> QED
  BY <1>1, <1>2 DEF LastArchived

\* A list that agrees with a shorter one on all its versions is that list with
\* one more.
LEMMA OneMore ==
  ASSUME NEW C, NEW n \in Nat, NEW few \in [1 .. n -> C], NEW more \in [1 .. n + 1 -> C],
         \A v \in 1 .. n : more[v] = few[v]
  PROVE  /\ Len(more) = n + 1
         /\ more[Len(more)] \in C
         /\ more = Append(few, more[Len(more)])
<1>1. few \in Seq(C) /\ Len(few) = n /\ more \in Seq(C) /\ Len(more) = n + 1
  OBVIOUS
<1>2. more[n + 1] \in C
  OBVIOUS
<1>3. more = Append(few, more[n + 1])
  <2> DEFINE last == more[n + 1]
  <2>1. last \in C
    BY <1>2
  <2> HIDE DEF last
  <2>2. /\ Append(few, last) \in Seq(C) /\ Len(Append(few, last)) = n + 1
        /\ Append(few, last)[n + 1] = last
        /\ \A v \in 1 .. n : Append(few, last)[v] = few[v]
    BY <1>1, <2>1
  <2>3. \A v \in 1 .. n + 1 : Append(few, last)[v] = more[v]
    <3>1. \A v \in 1 .. n + 1 : v \in 1 .. n \/ v = n + 1
      OBVIOUS
    <3> QED
      BY <2>2, <3>1 DEF last
  <2> QED
    BY <1>1, <2>2, <2>3 DEF last
<1> QED
  BY <1>1, <1>2, <1>3

\* Each earlier version has one row in the history, at its own place.
LEMMA EarlierRow ==
  ASSUME NEW R, NEW row, NEW history \in Seq(R), row # NoRow, row.version \in Versions,
         Numbered(row, history), NEW v \in 1 .. row.version, v # row.version
  PROVE  v \in DOMAIN history /\ RowsOf(history, v) = {v} /\ history[v] \in R
<1>1. v \in DOMAIN history
  BY DEF Numbered, Versions
<1>2. RowsOf(history, v) = {v}
  BY <1>1 DEF Numbered, RowsOf
<1> QED
  BY <1>1, <1>2

------------------------------------------------------------------------------
(* Rule sets.                                                               *)

\* SetAnswers, of any row and history.
SetAnswersIn(row, history, v) ==
  IF row.version = v THEN {row.body} ELSE {history[i].body : i \in RowsOf(history, v)}

LEMMA SetAnswersType ==
  ASSUME NEW row \in SetRow, NEW history \in Seq(SetRow), NEW v
  PROVE  SetAnswersIn(row, history, v) \in SUBSET SetBody
<1>1. \A i \in RowsOf(history, v) : history[i] \in SetRow
  BY SeqElement DEF RowsOf
<1> QED
  BY <1>1 DEF SetAnswersIn, SetRow

LEMMA SetAnswersStay ==
  ASSUME NEW row \in SetRow, NEW next, NEW history \in Seq(SetRow), row # NoRow, next # NoRow,
         next.version = row.version + 1, Numbered(row, history), NEW v \in 1 .. row.version
  PROVE  SetAnswersIn(next, Append(history, row), v) = SetAnswersIn(row, history, v)
<1> DEFINE more == Append(history, row)
<1>1. row.version \in Versions /\ next.version \in Versions /\ more \in Seq(SetRow)
  BY DEF SetRow, Versions
<1>2. Numbered(next, more)
  BY <1>1, NumberedNext
<1>3. v \in 1 .. next.version /\ v # next.version /\ next # NoRow
  BY <1>1 DEF Versions
<1> HIDE DEF more
<1>4. RowsOf(more, v) = {v}
  BY <1>1, <1>2, <1>3, EarlierRow
<1>5. SetAnswersIn(next, more, v) = {more[v].body}
  BY <1>3, <1>4 DEF SetAnswersIn
<1>6. CASE v = row.version
  <2>1. more[v] = row
    BY <1>1, <1>6 DEF Numbered, Versions, more
  <2>2. SetAnswersIn(row, history, v) = {row.body}
    BY <1>6 DEF SetAnswersIn
  <2> QED
    BY <1>5, <2>1, <2>2 DEF more
<1>7. CASE v # row.version
  <2>1. v \in DOMAIN history /\ RowsOf(history, v) = {v}
    BY <1>1, <1>7, EarlierRow
  <2>2. more[v] = history[v]
    BY <1>1, <2>1 DEF more
  <2>3. SetAnswersIn(row, history, v) = {history[v].body}
    BY <1>7, <2>1 DEF SetAnswersIn
  <2> QED
    BY <1>5, <2>2, <2>3 DEF more
<1> QED
  BY <1>6, <1>7 DEF more

\* What SetLog takes for the log.
SetVersions == [k \in RuleSets |->
  IF set[k] = NoRow \/ ~SetNeverRemoved(k) THEN <<>>
  ELSE [version \in 1..set[k].version |-> SetAnswers(k, version)]]

LEMMA SetVersionsAre ==
  ASSUME NEW k \in RuleSets
  PROVE  /\ set[k] = NoRow \/ ~SetNeverRemoved(k) => SetVersions[k] = <<>>
         /\ set[k] # NoRow /\ SetNeverRemoved(k) =>
              SetVersions[k] = [v \in 1 .. set[k].version |-> SetAnswersIn(set[k], setHistory[k], v)]
         /\ (set[k] = NoRow \/ ~SetNeverRemoved(k))' => SetVersions'[k] = <<>>
         /\ (set[k] # NoRow /\ SetNeverRemoved(k))' =>
              SetVersions'[k] = [v \in 1 .. set'[k].version |->
                                   SetAnswersIn(set'[k], setHistory'[k], v)]
BY DEF SetVersions, SetAnswers, SetAnswersIn

\* A commit publishes one more version.
LEMMA SetPublished ==
  ASSUME CatalogInv, CatalogInv', NEW k \in RuleSets, SetNeverRemoved(k), SetNeverRemoved(k)',
         NEW s \in Sessions, NewSet(k, s) \/ NextSet(k, s)
  PROVE  LET few == SetVersions[k]
             more == SetVersions'[k]
         IN /\ Len(more) = Len(few) + 1
            /\ more[Len(more)] \in SUBSET SetBody
            /\ more = Append(LastArchived(KeptOfSet, few), more[Len(more)])
<1> USE DEF CatalogInv
<1> DEFINE few == SetVersions[k]
           more == SetVersions'[k]
           after == [v \in 1 .. set'[k].version |-> SetAnswersIn(set'[k], setHistory'[k], v)]
<1>1. /\ set'[k] # NoRow /\ set'[k] \in SetRow /\ set'[k].version \in Versions
      /\ setHistory'[k] \in Seq(SetRow)
  BY DEF NewSet, NextSet, TypeOK, SetRow
<1>2. more = after
  BY <1>1, SetVersionsAre
<1>3. more \in [1 .. set'[k].version -> SUBSET SetBody]
  BY <1>1, <1>2, SetAnswersType
<1>4. CASE NewSet(k, s)
  <2>1. set[k] = NoRow /\ set'[k].version = 1
    BY <1>4 DEF NewSet
  <2>2. few = <<>>
    BY <2>1, SetVersionsAre
  <2> DEFINE n == 0
  <2>3. n \in Nat /\ few \in [1 .. n -> SUBSET SetBody]
    BY <2>2
  <2> HIDE DEF few, more
  <2>4. /\ more \in [1 .. n + 1 -> SUBSET SetBody]
        /\ \A v \in 1 .. n : more[v] = IF v = n THEN KeptOfSet[few[v]] ELSE few[v]
    BY <1>3, <2>1
  <2> HIDE DEF n
  <2> DEFINE C == SUBSET SetBody
             kept == KeptOfSet
             old == LastArchived(kept, few)
  <2> HIDE DEF C, kept
  <2>5. /\ few \in [1 .. n -> C] /\ more \in [1 .. n + 1 -> C] /\ n \in Nat /\ kept \in [C -> C]
        /\ \A v \in 1 .. n : more[v] = IF v = n THEN kept[few[v]] ELSE few[v]
    BY <2>3, <2>4, KeptType DEF C, kept
  <2>6. /\ Len(few) = n /\ old \in [1 .. n -> C]
        /\ \A v \in 1 .. n : old[v] = IF v = n THEN kept[few[v]] ELSE few[v]
    BY ONLY <2>5, LastArchivedIs
  <2> HIDE DEF old
  <2>7. \A v \in 1 .. n : more[v] = old[v]
    BY <2>5, <2>6
  <2>8. Len(more) = n + 1 /\ more[Len(more)] \in C /\ more = Append(old, more[Len(more)])
    BY ONLY <2>5, <2>6, <2>7, OneMore
  <2> QED
    BY <2>6, <2>8 DEF few, more, old, kept, C
<1>5. CASE NextSet(k, s)
  <2>1. /\ set[k] # NoRow /\ set'[k].version = set[k].version + 1
        /\ set[k].version = session[s].old.version
        /\ setHistory'[k] = Append(setHistory[k], session[s].old)
    BY <1>5 DEF NextSet
  <2>2. session[s].old = set[k]
    BY <1>5, <2>1 DEF NextSet, SetInv, SetUpdateOk
  <2>3. /\ set[k] \in SetRow /\ set[k].version \in Versions
        /\ setHistory[k] \in Seq(SetRow) /\ Numbered(set[k], setHistory[k])
    BY <2>1 DEF TypeOK, SetRow, SetInv, SetsArchived
  <2> DEFINE n == set[k].version
  <2>4. few = [v \in 1 .. n |-> SetAnswersIn(set[k], setHistory[k], v)]
    BY <2>1, SetVersionsAre
  <2>5. few \in [1 .. n -> SUBSET SetBody]
    BY <2>3, <2>4, SetAnswersType
  <2>6. ASSUME NEW v \in 1 .. n
        PROVE  more[v] = IF v = n THEN KeptOfSet[few[v]] ELSE few[v]
    <3>1. SetAnswersIn(set'[k], Append(setHistory[k], set[k]), v)
            = SetAnswersIn(set[k], setHistory[k], v)
      BY <1>1, <2>1, <2>3, SetAnswersStay
    <3>2. v \in 1 .. set'[k].version
      BY <2>1, <2>3 DEF Versions
    <3>3. more[v] = few[v]
      BY <1>2, <2>1, <2>2, <2>4, <3>1, <3>2
    <3>4. few[v] \in SUBSET SetBody
      BY <2>5
    <3> QED
      BY <3>3, <3>4 DEF KeptOfSet
  <2> HIDE DEF few, more
  <2>7. n \in Nat /\ more \in [1 .. n + 1 -> SUBSET SetBody]
    BY <1>3, <2>1, <2>3 DEF Versions
  <2> HIDE DEF n
  <2> DEFINE C == SUBSET SetBody
             kept == KeptOfSet
             old == LastArchived(kept, few)
  <2> HIDE DEF C, kept
  <2>8. /\ few \in [1 .. n -> C] /\ more \in [1 .. n + 1 -> C] /\ n \in Nat /\ kept \in [C -> C]
        /\ \A v \in 1 .. n : more[v] = IF v = n THEN kept[few[v]] ELSE few[v]
    BY <2>5, <2>6, <2>7, KeptType DEF C, kept
  <2>9. /\ Len(few) = n /\ old \in [1 .. n -> C]
        /\ \A v \in 1 .. n : old[v] = IF v = n THEN kept[few[v]] ELSE few[v]
    BY ONLY <2>8, LastArchivedIs
  <2> HIDE DEF old
  <2>10. Len(more) = n + 1 /\ more[Len(more)] \in C /\ more = Append(old, more[Len(more)])
    BY ONLY <2>8, <2>9, OneMore
  <2> QED
    BY <2>9, <2>10 DEF few, more, old, kept, C
<1> QED
  BY <1>4, <1>5

\* What VersionLog asks of a step, in terms of the versions.
SetPublish(k) ==
  /\ k \notin setRemoved /\ setRemoved' = setRemoved
  /\ Len(SetVersions'[k]) = Len(SetVersions[k]) + 1
  /\ SetVersions'[k][Len(SetVersions'[k])] \in SUBSET SetBody
  /\ SetVersions' = [SetVersions EXCEPT
                       ![k] = Append(LastArchived(KeptOfSet, @),
                                     SetVersions'[k][Len(SetVersions'[k])])]

SetWithdraw(k) ==
  /\ k \notin setRemoved /\ setRemoved' = setRemoved \cup {k}
  /\ SetVersions' = [SetVersions EXCEPT ![k] = <<>>]

LEMMA SetLogNextIs ==
  ASSUME NEW k \in RuleSets, SetPublish(k) \/ SetWithdraw(k)
  PROVE  SetLog!LogNext
<1>1. CASE SetPublish(k)
  <2>1. SetLog!Publish(k)
    BY <1>1 DEF SetLog!Publish, SetLog!Superseded, SetPublish, SetVersions, LastArchived, KeptOfSet
  <2> QED
    BY <2>1 DEF SetLog!LogNext
<1>2. CASE SetWithdraw(k)
  <2>1. SetLog!Withdraw(k)
    BY <1>2 DEF SetLog!Withdraw, SetWithdraw, SetVersions
  <2> QED
    BY <2>1 DEF SetLog!LogNext
<1> QED
  BY <1>1, <1>2

LEMMA SetLogStep ==
  ASSUME CatalogInv, CatalogInv', [Next]_vars
  PROVE  [SetLog!LogNext]_(SetLog!logVars)
<1> USE DEF CatalogInv
<1>1. ASSUME SetVersions' = SetVersions, setRemoved' = setRemoved
      PROVE  UNCHANGED SetLog!logVars
  BY <1>1 DEF SetLog!logVars, SetVersions
<1>2. ASSUME NEW k \in RuleSets, SameSet(k), k \in setRemoved <=> k \in setRemoved'
      PROVE  SetVersions'[k] = SetVersions[k]
  BY <1>2 DEF SetVersions, SetAnswers, SameSet, SetNeverRemoved
<1>3. /\ SetVersions = [k \in RuleSets |-> SetVersions[k]]
      /\ SetVersions' = [k \in RuleSets |-> SetVersions'[k]]
  BY DEF SetVersions
<1>4. CASE setRemoved' = setRemoved /\ \A k \in RuleSets : SameSet(k)
  <2>1. SetVersions' = SetVersions
    BY <1>2, <1>3, <1>4
  <2> QED
    BY <1>1, <1>4, <2>1
<1>5. ASSUME NEW k \in RuleSets, \A j \in RuleSets \ {k} : SameSet(j), setRemoved' = setRemoved,
             NEW s \in Sessions, NewSet(k, s) \/ NextSet(k, s)
      PROVE  [SetLog!LogNext]_(SetLog!logVars)
  <2>1. \A j \in RuleSets \ {k} : SetVersions'[j] = SetVersions[j]
    BY <1>2, <1>5
  <2>2. SetVersions' = [SetVersions EXCEPT ![k] = SetVersions'[k]]
    BY <1>3, <2>1
  <2>3. CASE SetNeverRemoved(k)
    <3>1. SetNeverRemoved(k)'
      BY <1>5, <2>3 DEF SetNeverRemoved
    <3>2. SetPublish(k)
      BY <1>5, <2>2, <2>3, <3>1, SetPublished DEF SetPublish, SetNeverRemoved
    <3> QED
      BY <3>2, SetLogNextIs
  <2>4. CASE ~SetNeverRemoved(k)
    <3>1. ~SetNeverRemoved(k)'
      BY <1>5, <2>4 DEF SetNeverRemoved
    <3>2. SetVersions[k] = <<>> /\ SetVersions'[k] = <<>>
      BY <2>4, <3>1, SetVersionsAre
    <3>3. SetVersions' = SetVersions
      BY <1>3, <2>1, <3>2
    <3> QED
      BY <1>1, <1>5, <3>3
  <2> QED
    BY <2>3, <2>4
<1>6. ASSUME NEW k \in RuleSets, \A j \in RuleSets \ {k} : SameSet(j),
             k \notin setRemoved, setRemoved' = setRemoved \cup {k}
      PROVE  [SetLog!LogNext]_(SetLog!logVars)
  <2>1. \A j \in RuleSets \ {k} : SetVersions'[j] = SetVersions[j]
    BY <1>2, <1>6
  <2>2. ~SetNeverRemoved(k)'
    BY <1>6 DEF SetNeverRemoved
  <2>3. SetVersions'[k] = <<>>
    BY <2>2, SetVersionsAre
  <2>4. SetVersions' = [SetVersions EXCEPT ![k] = <<>>]
    BY <1>3, <2>1, <2>3
  <2>5. SetWithdraw(k)
    BY <1>6, <2>4 DEF SetWithdraw
  <2> QED
    BY <2>5, SetLogNextIs
<1> QED
  BY <1>4, <1>5, <1>6, SetStepIs

\* The rule set tables implement the log: whatever sessions run at the same
\* time, a commit adds one version and changes none.
THEOREM SetsAreLogged == Spec => ImplementsSetLog
<1>1. Init => SetLog!LogInit
  BY DEF Init, SetLog!LogInit
<1>2. CatalogInv /\ CatalogInv' /\ [Next]_vars => [SetLog!LogNext]_(SetLog!logVars)
  BY SetLogStep
<1> QED
  BY <1>1, <1>2, CatalogInvariant, PTL DEF Spec, ImplementsSetLog, SetLog!LogSpec

------------------------------------------------------------------------------
(* Rules: a version is in two pairs of tables.                              *)

\* RuleAnswers, of any rows.
RuleAnswersIn(row, history, current, archived, v) ==
  IF row.version = v
    THEN {RuleTextOf(row, {e.text : e \in current})}
    ELSE {RuleTextOf(history[i], Texts(archived, v)) : i \in RowsOf(history, v)}

LEMMA RuleTextType ==
  ASSUME NEW row \in RuleRow, NEW texts \in SUBSET Sqls
  PROVE  RuleTextOf(row, texts) \in RuleText
BY DEF RuleRow, RuleText, RuleTextOf

LEMMA RuleAnswersType ==
  ASSUME NEW row \in RuleRow, NEW history \in Seq(RuleRow), NEW current \in SUBSET SqlRow,
         NEW archived \in SUBSET SqlRow, NEW v
  PROVE  RuleAnswersIn(row, history, current, archived, v) \in SUBSET RuleText
<1> DEFINE texts == {e.text : e \in current}
           old == Texts(archived, v)
<1>1. texts \in SUBSET Sqls /\ old \in SUBSET Sqls
  BY DEF Texts, SqlRow
<1> HIDE DEF texts, old
<1>2. RuleTextOf(row, texts) \in RuleText
  BY <1>1, RuleTextType
<1>3. \A i \in RowsOf(history, v) : RuleTextOf(history[i], old) \in RuleText
  <2>1. \A i \in RowsOf(history, v) : history[i] \in RuleRow
    BY SeqElement DEF RowsOf
  <2> QED
    BY <1>1, <2>1, RuleTextType
<1> QED
  BY <1>2, <1>3 DEF RuleAnswersIn, texts, old

LEMMA ArchivedText ==
  ASSUME NEW row \in RuleRow, NEW texts
  PROVE  RuleTextOf(Archived(row), texts) = Archived(RuleTextOf(row, texts))
BY DEF RuleRow, RuleTextOf, Archived

LEMMA RuleAnswersStay ==
  ASSUME NEW row \in RuleRow, NEW next, NEW history \in Seq(RuleRow),
         NEW current \in SUBSET SqlRow, NEW later, NEW archived \in SUBSET SqlRow,
         row # NoRow, next # NoRow, next.version = row.version + 1, Numbered(row, history),
         \A e \in current : e.version = row.version,
         \A e \in archived : e.version < row.version,
         NEW v \in 1 .. row.version
  PROVE  RuleAnswersIn(next, Append(history, Archived(row)), later, archived \cup current, v)
           = IF v = row.version
               THEN AllArchived(RuleAnswersIn(row, history, current, archived, v))
               ELSE RuleAnswersIn(row, history, current, archived, v)
<1> DEFINE kept == Archived(row)
           more == Append(history, kept)
           all == archived \cup current
<1>1. /\ row.version \in Versions /\ next.version \in Versions
      /\ kept \in RuleRow /\ kept.version = row.version /\ more \in Seq(RuleRow)
  BY ArchivedRow DEF RuleRow, Versions
<1> HIDE DEF kept
<1>2. Numbered(next, more)
  BY <1>1, NumberedNext
<1>3. v \in 1 .. next.version /\ v # next.version /\ next # NoRow
  BY <1>1 DEF Versions
<1> HIDE DEF more
<1>4. RowsOf(more, v) = {v}
  BY <1>1, <1>2, <1>3, EarlierRow
<1> HIDE DEF all
<1>5. RuleAnswersIn(next, more, later, all, v) = {RuleTextOf(more[v], Texts(all, v))}
  BY <1>3, <1>4 DEF RuleAnswersIn
<1>6. CASE v = row.version
  <2>1. more[v] = kept
    BY <1>1, <1>6 DEF Numbered, Versions, more
  <2>2. \A e \in archived : e.version # v
    BY <1>6 DEF SqlRow, Versions
  <2>3. {e \in all : e.version = v} = current
    BY <1>6, <2>2 DEF all
  <2>4. Texts(all, v) = {e.text : e \in current}
    BY <2>3 DEF Texts
  <2>5. RuleAnswersIn(row, history, current, archived, v)
          = {RuleTextOf(row, {e.text : e \in current})}
    BY <1>6 DEF RuleAnswersIn
  <2>6. AllArchived(RuleAnswersIn(row, history, current, archived, v))
          = {Archived(RuleTextOf(row, {e.text : e \in current}))}
    BY <2>5 DEF AllArchived
  <2>7. RuleTextOf(kept, {e.text : e \in current})
          = Archived(RuleTextOf(row, {e.text : e \in current}))
    BY ArchivedText DEF kept
  <2> QED
    BY <1>5, <1>6, <2>1, <2>4, <2>6, <2>7 DEF more, all, kept
<1>7. CASE v # row.version
  <2>1. v \in DOMAIN history /\ RowsOf(history, v) = {v}
    BY <1>1, <1>7, EarlierRow
  <2>2. more[v] = history[v]
    BY <1>1, <2>1 DEF more
  <2>3. {e \in all : e.version = v} = {e \in archived : e.version = v}
    BY <1>7 DEF all
  <2>4. Texts(all, v) = Texts(archived, v)
    BY <2>3 DEF Texts
  <2>5. RuleAnswersIn(row, history, current, archived, v)
          = {RuleTextOf(history[v], Texts(archived, v))}
    BY <1>7, <2>1 DEF RuleAnswersIn
  <2> QED
    BY <1>5, <1>7, <2>2, <2>4, <2>5 DEF more, all, kept
<1> QED
  BY <1>6, <1>7

\* The archived extract SQLs are those of earlier versions.
SqlsArchived ==
  \A c \in Rules : NeverRemoved(c) =>
    \A e \in sqlHistory[c] : rule[c] # NoRow /\ e.version < rule[c].version

LEMMA SqlsArchivedStep ==
  ASSUME CatalogInv, SqlsArchived, [Next]_vars
  PROVE  SqlsArchived'
<1> USE DEF CatalogInv
<1> SUFFICES ASSUME NEW c \in Rules, NeverRemoved(c)', NEW e \in sqlHistory'[c]
             PROVE  rule'[c] # NoRow /\ e.version < rule'[c].version
  BY DEF SqlsArchived
<1>1. NeverRemoved(c) /\ (SameRule(c) \/ NewRule(c) \/ NextRule(c))
  BY RuleStepIs DEF NeverRemoved
<1>2. e \in sqlHistory[c] => rule[c] # NoRow /\ e.version < rule[c].version
  BY <1>1 DEF SqlsArchived
<1>3. CASE SameRule(c)
  BY <1>2, <1>3 DEF SameRule
<1>4. CASE NewRule(c)
  BY <1>2, <1>4 DEF NewRule
<1>5. CASE NextRule(c)
  <2>1. /\ rule[c] # NoRow /\ rule'[c] # NoRow /\ rule'[c].version = rule[c].version + 1
        /\ e \in sqlHistory[c] \/ e \in sqls[c]
    BY <1>5 DEF NextRule
  <2>2. rule[c].version \in Nat
    BY <2>1 DEF TypeOK, RuleRow, Versions
  <2>3. sqlHistory[c] \in SUBSET SqlRow /\ sqls[c] \in SUBSET SqlRow
    BY DEF TypeOK
  <2>4. e.version \in Nat
    BY <2>1, <2>3 DEF SqlRow, Versions
  <2>5. e.version =< rule[c].version
    BY <1>2, <2>1, <2>2, <2>4 DEF RuleInv, SqlsFollow
  <2> QED
    BY <2>1, <2>2, <2>4, <2>5
<1> QED
  BY <1>1, <1>3, <1>4, <1>5

\* What RuleLog takes for the log.
RuleVersions == [c \in Rules |->
  IF rule[c] = NoRow \/ ~NeverRemoved(c) THEN <<>>
  ELSE [version \in 1..rule[c].version |-> RuleAnswers(c, version)]]

\* What the tables answer of one rule.
RuleTold(c, v) == RuleAnswersIn(rule[c], ruleHistory[c], sqls[c], sqlHistory[c], v)

LEMMA RuleVersionsAre ==
  ASSUME NEW c \in Rules
  PROVE  /\ rule[c] = NoRow \/ ~NeverRemoved(c) => RuleVersions[c] = <<>>
         /\ rule[c] # NoRow /\ NeverRemoved(c) =>
              RuleVersions[c] = [v \in 1 .. rule[c].version |-> RuleTold(c, v)]
         /\ (rule[c] = NoRow \/ ~NeverRemoved(c))' => RuleVersions'[c] = <<>>
         /\ (rule[c] # NoRow /\ NeverRemoved(c))' =>
              RuleVersions'[c] = [v \in 1 .. rule'[c].version |-> RuleTold(c, v)']
BY DEF RuleVersions, RuleTold, RuleAnswers, RuleAnswersIn

\* A commit publishes one more version of the rule.
LEMMA RulePublished ==
  ASSUME CatalogInv, CatalogInv', SqlsArchived, NEW c \in Rules, NeverRemoved(c),
         NeverRemoved(c)', NewRule(c) \/ NextRule(c)
  PROVE  LET few == RuleVersions[c]
             more == RuleVersions'[c]
         IN /\ Len(more) = Len(few) + 1
            /\ more[Len(more)] \in SUBSET RuleText
            /\ more = Append(LastArchived(KeptOfRule, few), more[Len(more)])
<1> USE DEF CatalogInv
<1> DEFINE few == RuleVersions[c]
           more == RuleVersions'[c]
<1>1. /\ rule'[c] # NoRow /\ rule'[c] \in RuleRow /\ rule'[c].version \in Versions
      /\ ruleHistory'[c] \in Seq(RuleRow)
      /\ sqls'[c] \in SUBSET SqlRow /\ sqlHistory'[c] \in SUBSET SqlRow
  BY DEF NewRule, NextRule, TypeOK, RuleRow
<1>2. more = [v \in 1 .. rule'[c].version |-> RuleTold(c, v)']
  BY <1>1, RuleVersionsAre
<1>3. more \in [1 .. rule'[c].version -> SUBSET RuleText]
  <2>1. ASSUME NEW v
        PROVE  RuleTold(c, v)' \in SUBSET RuleText
    BY <1>1, RuleAnswersType DEF RuleTold
  <2> QED
    BY <1>2, <2>1
<1>4. CASE NewRule(c)
  <2>1. rule[c] = NoRow /\ rule'[c].version = 1
    BY <1>4 DEF NewRule
  <2>2. few = <<>>
    BY <2>1, RuleVersionsAre
  <2> DEFINE n == 0
  <2>3. n \in Nat /\ few \in [1 .. n -> SUBSET RuleText]
    BY <2>2
  <2> HIDE DEF few, more
  <2>4. /\ more \in [1 .. n + 1 -> SUBSET RuleText]
        /\ \A v \in 1 .. n : more[v] = IF v = n THEN KeptOfRule[few[v]] ELSE few[v]
    BY <1>3, <2>1
  <2> HIDE DEF n
  <2> DEFINE C == SUBSET RuleText
             kept == KeptOfRule
             old == LastArchived(kept, few)
  <2> HIDE DEF C, kept
  <2>5. /\ few \in [1 .. n -> C] /\ more \in [1 .. n + 1 -> C] /\ n \in Nat /\ kept \in [C -> C]
        /\ \A v \in 1 .. n : more[v] = IF v = n THEN kept[few[v]] ELSE few[v]
    BY <2>3, <2>4, KeptType DEF C, kept
  <2>6. /\ Len(few) = n /\ old \in [1 .. n -> C]
        /\ \A v \in 1 .. n : old[v] = IF v = n THEN kept[few[v]] ELSE few[v]
    BY ONLY <2>5, LastArchivedIs
  <2> HIDE DEF old
  <2>7. \A v \in 1 .. n : more[v] = old[v]
    BY <2>5, <2>6
  <2>8. Len(more) = n + 1 /\ more[Len(more)] \in C /\ more = Append(old, more[Len(more)])
    BY ONLY <2>5, <2>6, <2>7, OneMore
  <2> QED
    BY <2>6, <2>8 DEF few, more, old, kept, C
<1>5. CASE NextRule(c)
  <2>1. /\ rule[c] # NoRow /\ rule'[c].version = rule[c].version + 1
        /\ ruleHistory'[c] = Append(ruleHistory[c], Archived(rule[c]))
        /\ sqlHistory'[c] = sqlHistory[c] \cup sqls[c]
    BY <1>5 DEF NextRule
  <2>2. /\ rule[c] \in RuleRow /\ rule[c].version \in Versions
        /\ ruleHistory[c] \in Seq(RuleRow) /\ Numbered(rule[c], ruleHistory[c])
        /\ sqls[c] \in SUBSET SqlRow /\ sqlHistory[c] \in SUBSET SqlRow
    BY <2>1 DEF TypeOK, RuleRow, RuleInv, RulesArchived
  <2>3. /\ \A e \in sqls[c] : e.version = rule[c].version
        /\ \A e \in sqlHistory[c] : e.version < rule[c].version
    BY DEF RuleInv, SqlsFollow, SqlsArchived
  <2> DEFINE n == rule[c].version
  <2>4. few = [v \in 1 .. n |-> RuleTold(c, v)]
    BY <2>1, RuleVersionsAre
  <2>5. ASSUME NEW v
        PROVE  RuleTold(c, v) \in SUBSET RuleText
    BY <2>2, RuleAnswersType DEF RuleTold
  <2>6. few \in [1 .. n -> SUBSET RuleText]
    BY <2>4, <2>5
  <2>7. ASSUME NEW v \in 1 .. n
        PROVE  more[v] = IF v = n THEN KeptOfRule[few[v]] ELSE few[v]
    <3>1. RuleAnswersIn(rule'[c], Append(ruleHistory[c], Archived(rule[c])), sqls'[c],
                        sqlHistory[c] \cup sqls[c], v)
            = IF v = rule[c].version
                THEN AllArchived(RuleTold(c, v)) ELSE RuleTold(c, v)
      <4> DEFINE row == rule[c]
                 next == rule'[c]
                 history == ruleHistory[c]
                 current == sqls[c]
                 archived == sqlHistory[c]
                 later == sqls'[c]
      <4>1. /\ row \in RuleRow /\ history \in Seq(RuleRow)
            /\ current \in SUBSET SqlRow /\ archived \in SUBSET SqlRow
            /\ row # NoRow /\ next # NoRow /\ next.version = row.version + 1
            /\ Numbered(row, history)
            /\ \A e \in current : e.version = row.version
            /\ \A e \in archived : e.version < row.version
            /\ v \in 1 .. row.version
        BY <1>1, <2>1, <2>2, <2>3
      <4> HIDE DEF row, next, history, current, archived, later
      <4>2. RuleAnswersIn(next, Append(history, Archived(row)), later, archived \cup current, v)
              = IF v = row.version
                  THEN AllArchived(RuleAnswersIn(row, history, current, archived, v))
                  ELSE RuleAnswersIn(row, history, current, archived, v)
        BY ONLY <4>1, RuleAnswersStay
      <4> QED
        BY <4>2 DEF RuleTold, row, next, history, current, archived, later
    <3>2. RuleTold(c, v)' = IF v = n THEN AllArchived(RuleTold(c, v)) ELSE RuleTold(c, v)
      BY <2>1, <3>1 DEF RuleTold
    <3>3. v \in 1 .. rule'[c].version
      BY <2>1, <2>2 DEF Versions
    <3>4. RuleTold(c, v) \in SUBSET RuleText
      BY <2>5
    <3>5. KeptOfRule[RuleTold(c, v)] = AllArchived(RuleTold(c, v))
      BY <3>4 DEF KeptOfRule
    <3>6. more[v] = RuleTold(c, v)' /\ few[v] = RuleTold(c, v)
      BY <1>2, <2>4, <3>3
    <3> QED
      BY <3>2, <3>5, <3>6
  <2> HIDE DEF few, more
  <2>8. n \in Nat /\ more \in [1 .. n + 1 -> SUBSET RuleText]
    BY <1>3, <2>1, <2>2 DEF Versions
  <2> HIDE DEF n
  <2> DEFINE C == SUBSET RuleText
             kept == KeptOfRule
             old == LastArchived(kept, few)
  <2> HIDE DEF C, kept
  <2>9. /\ few \in [1 .. n -> C] /\ more \in [1 .. n + 1 -> C] /\ n \in Nat /\ kept \in [C -> C]
        /\ \A v \in 1 .. n : more[v] = IF v = n THEN kept[few[v]] ELSE few[v]
    BY <2>6, <2>7, <2>8, KeptType DEF C, kept
  <2>10. /\ Len(few) = n /\ old \in [1 .. n -> C]
         /\ \A v \in 1 .. n : old[v] = IF v = n THEN kept[few[v]] ELSE few[v]
    BY ONLY <2>9, LastArchivedIs
  <2> HIDE DEF old
  <2>11. \A v \in 1 .. n : more[v] = old[v]
    BY <2>9, <2>10
  <2>12. Len(more) = n + 1 /\ more[Len(more)] \in C /\ more = Append(old, more[Len(more)])
    BY ONLY <2>9, <2>10, <2>11, OneMore
  <2> QED
    BY <2>10, <2>12 DEF few, more, old, kept, C
<1> QED
  BY <1>4, <1>5

RulePublish(c) ==
  /\ c \notin ruleRemoved /\ ruleRemoved' = ruleRemoved
  /\ Len(RuleVersions'[c]) = Len(RuleVersions[c]) + 1
  /\ RuleVersions'[c][Len(RuleVersions'[c])] \in SUBSET RuleText
  /\ RuleVersions' = [RuleVersions EXCEPT
                        ![c] = Append(LastArchived(KeptOfRule, @),
                                      RuleVersions'[c][Len(RuleVersions'[c])])]

RuleWithdraw(c) ==
  /\ c \notin ruleRemoved /\ ruleRemoved' = ruleRemoved \cup {c}
  /\ RuleVersions' = [RuleVersions EXCEPT ![c] = <<>>]

LEMMA RuleLogNextIs ==
  ASSUME NEW c \in Rules, RulePublish(c) \/ RuleWithdraw(c)
  PROVE  RuleLog!LogNext
<1>1. CASE RulePublish(c)
  <2>1. RuleLog!Publish(c)
    BY <1>1 DEF RuleLog!Publish, RuleLog!Superseded, RulePublish, RuleVersions, LastArchived,
                 KeptOfRule, AllArchived
  <2> QED
    BY <2>1 DEF RuleLog!LogNext
<1>2. CASE RuleWithdraw(c)
  <2>1. RuleLog!Withdraw(c)
    BY <1>2 DEF RuleLog!Withdraw, RuleWithdraw, RuleVersions
  <2> QED
    BY <2>1 DEF RuleLog!LogNext
<1> QED
  BY <1>1, <1>2

LEMMA RuleLogStep ==
  ASSUME CatalogInv, CatalogInv', SqlsArchived, [Next]_vars
  PROVE  [RuleLog!LogNext]_(RuleLog!logVars)
<1> USE DEF CatalogInv
<1>1. ASSUME RuleVersions' = RuleVersions, ruleRemoved' = ruleRemoved
      PROVE  UNCHANGED RuleLog!logVars
  BY <1>1 DEF RuleLog!logVars, RuleVersions
<1>2. ASSUME NEW c \in Rules, SameRule(c), c \in ruleRemoved <=> c \in ruleRemoved'
      PROVE  RuleVersions'[c] = RuleVersions[c]
  BY <1>2 DEF RuleVersions, RuleAnswers, SameRule, NeverRemoved
<1>3. /\ RuleVersions = [c \in Rules |-> RuleVersions[c]]
      /\ RuleVersions' = [c \in Rules |-> RuleVersions'[c]]
  BY DEF RuleVersions
<1>4. CASE ruleRemoved' = ruleRemoved /\ \A c \in Rules : SameRule(c)
  <2>1. RuleVersions' = RuleVersions
    BY <1>2, <1>3, <1>4
  <2> QED
    BY <1>1, <1>4, <2>1
<1>5. ASSUME NEW c \in Rules, \A d \in Rules \ {c} : SameRule(d), ruleRemoved' = ruleRemoved,
             NeverRemoved(c) => NewRule(c) \/ NextRule(c)
      PROVE  [RuleLog!LogNext]_(RuleLog!logVars)
  <2>1. \A d \in Rules \ {c} : RuleVersions'[d] = RuleVersions[d]
    BY <1>2, <1>5
  <2>2. RuleVersions' = [RuleVersions EXCEPT ![c] = RuleVersions'[c]]
    BY <1>3, <2>1
  <2>3. CASE NeverRemoved(c)
    <3>1. NeverRemoved(c)'
      BY <1>5, <2>3 DEF NeverRemoved
    <3>2. RulePublish(c)
      BY <1>5, <2>2, <2>3, <3>1, RulePublished DEF RulePublish, NeverRemoved
    <3> QED
      BY <3>2, RuleLogNextIs
  <2>4. CASE ~NeverRemoved(c)
    <3>1. ~NeverRemoved(c)'
      BY <1>5, <2>4 DEF NeverRemoved
    <3>2. RuleVersions[c] = <<>> /\ RuleVersions'[c] = <<>>
      BY <2>4, <3>1, RuleVersionsAre
    <3>3. RuleVersions' = RuleVersions
      BY <1>3, <2>1, <3>2
    <3> QED
      BY <1>1, <1>5, <3>3
  <2> QED
    BY <2>3, <2>4
<1>6. ASSUME NEW c \in Rules, \A d \in Rules \ {c} : SameRule(d),
             c \notin ruleRemoved, ruleRemoved' = ruleRemoved \cup {c}
      PROVE  [RuleLog!LogNext]_(RuleLog!logVars)
  <2>1. \A d \in Rules \ {c} : RuleVersions'[d] = RuleVersions[d]
    BY <1>2, <1>6
  <2>2. ~NeverRemoved(c)'
    BY <1>6 DEF NeverRemoved
  <2>3. RuleVersions'[c] = <<>>
    BY <2>2, RuleVersionsAre
  <2>4. RuleVersions' = [RuleVersions EXCEPT ![c] = <<>>]
    BY <1>3, <2>1, <2>3
  <2>5. RuleWithdraw(c)
    BY <1>6, <2>4 DEF RuleWithdraw
  <2> QED
    BY <2>5, RuleLogNextIs
<1> QED
  BY <1>4, <1>5, <1>6, RuleStepIs

\* The four rule tables implement the log: an update adds one version, takes the
\* design, and nothing else, from the one it replaces (getRule clears designValue
\* and updateRule does not fill it again), and changes no version archived before.
THEOREM RulesAreLogged == Spec => ImplementsRuleLog
<1>1. Init => RuleLog!LogInit /\ SqlsArchived
  BY DEF Init, RuleLog!LogInit, SqlsArchived
<1>2. CatalogInv /\ SqlsArchived /\ [Next]_vars => SqlsArchived'
  BY SqlsArchivedStep
<1>3. CatalogInv /\ CatalogInv' /\ SqlsArchived /\ [Next]_vars
        => [RuleLog!LogNext]_(RuleLog!logVars)
  BY RuleLogStep
<1> QED
  BY <1>1, <1>2, <1>3, CatalogInvariant, PTL DEF Spec, ImplementsRuleLog, RuleLog!LogSpec
==============================================================================
