-------------------------- MODULE RuleCatalogProofs --------------------------
(***************************************************************************)
(* Proofs about RuleCatalog, for any sessions, codes, drafts and number of  *)
(* transactions.                                                            *)
(***************************************************************************)
EXTENDS RuleCatalog, TLAPS

LEMMA SessionKind ==
  ASSUME TypeOK, NEW s \in Sessions
  PROVE  /\ session[s].op = "updateRule" => session[s] \in Updating
         /\ session[s].op = "updateSet" => session[s] \in SavingSet
         /\ session[s].op = "createSet" => session[s] \in MakingSet
         /\ session[s].op = "assign" => session[s] \in Assigning
  <1>1. session[s] \in {Idle} \cup Updating \cup SavingSet \cup MakingSet
                          \cup Assigning \cup Reading
    BY DEF TypeOK
  <1>2. /\ Idle.op = "idle"
        /\ \A w \in Updating : w.op = "updateRule"
        /\ \A w \in SavingSet : w.op = "updateSet"
        /\ \A w \in MakingSet : w.op = "createSet"
        /\ \A w \in Assigning : w.op = "assign"
        /\ \A w \in Reading : w.op = "read"
    BY DEF Idle, Updating, SavingSet, MakingSet, Assigning, Reading
  <1> QED
    BY <1>1, <1>2

LEMMA SeqElement ==
  ASSUME NEW S, NEW q \in Seq(S), NEW i \in DOMAIN q
  PROVE  q[i] \in S
  OBVIOUS

LEMMA OnlyRowType ==
  ASSUME NEW R, NEW h \in Seq(R), NEW v
  PROVE  OnlyRowOf(h, v) \in R \cup {NoRow}
  <1> DEFINE found == RowsOf(h, v)
  <1>1. CASE \E i \in found : found = {i}
    <2>1. (CHOOSE i \in found : TRUE) \in DOMAIN h
      BY <1>1 DEF RowsOf
    <2>2. OnlyRowOf(h, v) = h[CHOOSE i \in found : TRUE]
      BY <1>1 DEF OnlyRowOf
    <2> QED
      BY <2>1, <2>2
  <1>2. CASE ~ \E i \in found : found = {i}
    BY <1>2 DEF OnlyRowOf
  <1> QED
    BY <1>1, <1>2

LEMMA RuleVersionType ==
  ASSUME TypeOK, NEW c \in Rules, NEW v
  PROVE  RuleVersion(c, v) \in RuleRow \cup {NoRow}
  <1>1. ruleHistory[c] \in Seq(RuleRow) /\ rule[c] \in RuleRow \cup {NoRow}
    BY DEF TypeOK
  <1>2. OnlyRowOf(ruleHistory[c], v) \in RuleRow \cup {NoRow}
    BY <1>1, OnlyRowType
  <1> QED
    BY <1>1, <1>2 DEF RuleVersion

LEMMA BodyType ==
  ASSUME TypeOK, NEW draft \in SetDrafts, Fits(draft)
  PROVE  Body(draft) \in SetBody
  <1>1. draft.biz \in BizTypes /\ draft.asked \in Seq([rule : Rules, version : Nat])
    BY CatalogAssumption DEF SetDraft
  <1>2. ASSUME NEW a \in FirstChoices(draft.asked)
        PROVE  a.rule \in Rules /\ Pinned(a).version \in Versions
    <2>1. a.rule \in Rules
      <3>1. PICK i \in DOMAIN draft.asked : a = draft.asked[i]
        BY DEF FirstChoices
      <3>2. draft.asked[i] \in [rule : Rules, version : Nat]
        BY <1>1, <3>1, SeqElement
      <3> QED
        BY <3>1, <3>2
    <2>2. Pinned(a) \in RuleRow \cup {NoRow}
      <3>1. rule[a.rule] \in RuleRow \cup {NoRow}
        BY <2>1 DEF TypeOK
      <3>2. RuleVersion(a.rule, a.version) \in RuleRow \cup {NoRow}
        BY <2>1, RuleVersionType
      <3> QED
        BY <3>1, <3>2 DEF Pinned
    <2>3. Pinned(a) # NoRow
      BY DEF Fits
    <2> QED
      BY <2>1, <2>2, <2>3 DEF RuleRow
  <1> QED
    BY <1>1, <1>2 DEF Body, SetBody, Ref

\* What a session may be working on keeps its type.
LEMMA BeginType ==
  ASSUME TypeOK, NEW s \in Sessions, NEW work, Begin(s, work),
         work \in Updating \cup SavingSet \cup MakingSet \cup Assigning \cup Reading
  PROVE  session' \in [Sessions -> {Idle} \cup Updating \cup SavingSet \cup MakingSet
                                     \cup Assigning \cup Reading]
  <1> DEFINE W == {Idle} \cup Updating \cup SavingSet \cup MakingSet \cup Assigning \cup Reading
  <1>1. session \in [Sessions -> W] /\ work \in W
    BY DEF TypeOK
  <1>2. session' = [session EXCEPT ![s] = work]
    BY DEF Begin
  <1> HIDE DEF W
  <1>3. session' \in [Sessions -> W]
    BY <1>1, <1>2
  <1> QED
    BY <1>3 DEF W

LEMMA EndType ==
  ASSUME TypeOK, NEW s \in Sessions, End(s)
  PROVE  session' \in [Sessions -> {Idle} \cup Updating \cup SavingSet \cup MakingSet
                                     \cup Assigning \cup Reading]
  <1> DEFINE W == {Idle} \cup Updating \cup SavingSet \cup MakingSet \cup Assigning \cup Reading
  <1>1. session \in [Sessions -> W] /\ Idle \in W
    BY DEF TypeOK
  <1>2. session' = [session EXCEPT ![s] = Idle]
    BY DEF End
  <1> HIDE DEF W
  <1>3. session' \in [Sessions -> W]
    BY <1>1, <1>2
  <1> QED
    BY <1>3 DEF W

LEMMA CommitsType ==
  ASSUME TypeOK, Commits
  PROVE  writes' \in 0..MaxWrites
  BY CatalogAssumption DEF TypeOK, Commits

LEMMA SqlRowsType ==
  ASSUME NEW texts \in SUBSET Sqls, NEW v \in Versions
  PROVE  SqlRows(texts, v) \in SUBSET SqlRow
  BY DEF SqlRows, SqlRow

\* The row that a draft becomes, and what is archived of a row.
LEMMA RowOfDraft ==
  ASSUME NEW draft \in RuleDraft, NEW v \in Versions
  PROVE  /\ RowOf(draft, v) \in RuleRow
         /\ RowOf(draft, v) # NoRow
         /\ RowOf(draft, v).version = v
  BY NoRowAssumption DEF RowOf, RuleDraft, RuleRow

LEMMA ArchivedRow ==
  ASSUME NEW old \in RuleRow
  PROVE  /\ Archived(old) \in RuleRow
         /\ Archived(old) # NoRow
         /\ Archived(old).version = old.version
         /\ Archived(old).biz = old.biz
         /\ Archived(old).design = NoDesign
  BY NoRowAssumption DEF Archived, RuleRow

\* A commit of a rule update knows what it writes.
LEMMA RuleWork ==
  ASSUME TypeOK, NEW s \in Sessions, session[s].op = "updateRule"
  PROVE  /\ session[s].code \in Rules
         /\ session[s].draft \in RuleDraft
         /\ session[s].draft.sqls \in SUBSET Sqls
         /\ session[s].old \in RuleRow
         /\ session[s].old.version \in Versions
         /\ session[s].old.version + 1 \in Versions
         /\ session[s].sqls \in SUBSET SqlRow
  BY SessionKind DEF Updating, RuleDraft, RuleRow, Versions

LEMMA SetWork ==
  ASSUME TypeOK, NEW s \in Sessions, session[s].op = "updateSet"
  PROVE  /\ session[s].code \in RuleSets
         /\ session[s].body \in SetBody
         /\ session[s].old \in SetRow
         /\ session[s].old.version \in Versions
         /\ session[s].old.version + 1 \in Versions
  BY SessionKind DEF SavingSet, SetRow, Versions

LEMMA TypeStep == TypeOK /\ [Next]_vars => TypeOK'
  <1> SUFFICES ASSUME TypeOK, [Next]_vars
               PROVE  TypeOK'
    OBVIOUS
  <1> USE DEF ruleTables, setTables, bizTables
  <1>1. ASSUME NEW c \in Rules, NEW draft \in RuleDrafts, CreateRule(c, draft)
        PROVE  TypeOK'
    <2>1. draft \in RuleDraft /\ draft.sqls \in SUBSET Sqls
      BY CatalogAssumption DEF RuleDraft
    <2>2. RowOf(draft, 1) \in RuleRow
      BY <2>1, RowOfDraft DEF Versions
    <2>3. rule' \in [Rules -> RuleRow \cup {NoRow}]
      BY <1>1, <2>2 DEF CreateRule, TypeOK
    <2>4. SqlRows(draft.sqls, 1) \in SUBSET SqlRow
      BY <2>1, SqlRowsType DEF Versions
    <2>5. sqls' \in [Rules -> SUBSET SqlRow]
      BY <1>1, <2>4 DEF CreateRule, TypeOK
    <2>6. writes' \in 0..MaxWrites
      BY <1>1, CommitsType DEF CreateRule
    <2> QED
      BY <1>1, <2>3, <2>5, <2>6 DEF CreateRule, TypeOK
  <1>2. ASSUME NEW s \in Sessions, NEW c \in Rules, NEW draft \in RuleDrafts,
               BeginUpdateRule(s, c, draft)
        PROVE  TypeOK'
    <2> DEFINE work == [op |-> "updateRule", code |-> c, draft |-> draft,
                        old |-> rule[c], sqls |-> sqls[c]]
    <2>1. rule[c] \in RuleRow /\ sqls[c] \in SUBSET SqlRow
      BY <1>2 DEF BeginUpdateRule, TypeOK
    <2>2. draft \in RuleDraft
      BY CatalogAssumption
    <2>3. work \in Updating
      BY <2>1, <2>2 DEF Updating
    <2>4. Begin(s, work)
      BY <1>2 DEF BeginUpdateRule
    <2> HIDE DEF work
    <2>5. session' \in [Sessions -> {Idle} \cup Updating \cup SavingSet \cup MakingSet
                                      \cup Assigning \cup Reading]
      BY <2>3, <2>4, BeginType
    <2> QED
      BY <1>2, <2>5 DEF BeginUpdateRule, TypeOK
  <1>3. ASSUME NEW s \in Sessions, CommitUpdateRule(s)
        PROVE  TypeOK'
    <2> DEFINE c == session[s].code
               draft == session[s].draft
               old == session[s].old
               kept == Archived(old)
               row == RowOf(draft, old.version + 1)
    <2>1. session[s].op = "updateRule"
      BY <1>3 DEF CommitUpdateRule
    <2>2. /\ c \in Rules /\ kept \in RuleRow
          /\ row \in RuleRow
          /\ SqlRows(draft.sqls, old.version + 1) \in SUBSET SqlRow
          /\ session[s].sqls \in SUBSET SqlRow
      BY <2>1, RuleWork, SqlRowsType, RowOfDraft, ArchivedRow
    <2>3. rule' \in [Rules -> RuleRow \cup {NoRow}]
      <3>1. rule' = [rule EXCEPT ![c] = row]
        BY <1>3 DEF CommitUpdateRule
      <3> HIDE DEF row, c
      <3> QED
        BY <2>2, <3>1 DEF TypeOK
    <2>4. sqls' \in [Rules -> SUBSET SqlRow]
      <3>1. sqls' = [sqls EXCEPT ![c] = SqlRows(draft.sqls, old.version + 1)]
        BY <1>3 DEF CommitUpdateRule
      <3> HIDE DEF c, draft, old
      <3> QED
        BY <2>2, <3>1 DEF TypeOK
    <2>5. ruleHistory' \in [Rules -> Seq(RuleRow)]
      <3>1. ruleHistory' = [ruleHistory EXCEPT ![c] = Append(@, kept)]
        BY <1>3 DEF CommitUpdateRule
      <3> HIDE DEF kept
      <3>2. ruleHistory[c] \in Seq(RuleRow)
        BY <2>2 DEF TypeOK
      <3>3. Append(ruleHistory[c], kept) \in Seq(RuleRow)
        BY <2>2, <3>2
      <3> HIDE DEF c
      <3> QED
        BY <2>2, <3>1, <3>3 DEF TypeOK
    <2>6. sqlHistory' \in [Rules -> SUBSET SqlRow]
      <3>1. sqlHistory' = [sqlHistory EXCEPT ![c] = @ \cup session[s].sqls]
        BY <1>3 DEF CommitUpdateRule
      <3> HIDE DEF c
      <3> QED
        BY <2>2, <3>1 DEF TypeOK
    <2>7. session' \in [Sessions -> {Idle} \cup Updating \cup SavingSet \cup MakingSet
                                      \cup Assigning \cup Reading]
      BY <1>3, EndType DEF CommitUpdateRule
    <2>8. writes' \in 0..MaxWrites
      BY <1>3, CommitsType DEF CommitUpdateRule
    <2>9. UNCHANGED <<ruleRemoved, setTables, bizTables>>
      BY <1>3 DEF CommitUpdateRule
    <2> HIDE DEF c, draft, old, kept, row
    <2> QED
      BY <2>3, <2>4, <2>5, <2>6, <2>7, <2>8, <2>9 DEF TypeOK
  <1>4. ASSUME NEW c \in Rules, RemoveRule(c)
        PROVE  TypeOK'
    <2>1. writes' \in 0..MaxWrites
      BY <1>4, CommitsType DEF RemoveRule
    <2> QED
      BY <1>4, <2>1 DEF RemoveRule, TypeOK
  <1>5. ASSUME NEW s \in Sessions, NEW c \in Rules, NEW v \in AskedVersions,
               BeginReadRule(s, c, v)
        PROVE  TypeOK'
    <2> DEFINE work == [op |-> "read", code |-> c, version |-> v,
                        current |-> v = rule[c].version]
    <2>1. work \in Reading
      BY CatalogAssumption DEF Reading, AskedVersions, Versions
    <2>2. Begin(s, work)
      BY <1>5 DEF BeginReadRule
    <2> HIDE DEF work
    <2>3. session' \in [Sessions -> {Idle} \cup Updating \cup SavingSet \cup MakingSet
                                      \cup Assigning \cup Reading]
      BY <2>1, <2>2, BeginType
    <2> QED
      BY <1>5, <2>3 DEF BeginReadRule, TypeOK
  <1>6. ASSUME NEW s \in Sessions, EndReadRule(s) \/ Rollback(s)
        PROVE  TypeOK'
    <2>1. session' \in [Sessions -> {Idle} \cup Updating \cup SavingSet \cup MakingSet
                                      \cup Assigning \cup Reading]
      BY <1>6, EndType DEF EndReadRule, Rollback
    <2> QED
      BY <1>6, <2>1 DEF EndReadRule, Rollback, TypeOK
  <1>7. ASSUME NEW s \in Sessions, NEW k \in RuleSets, NEW draft \in SetDrafts,
               BeginCreateSet(s, k, draft)
        PROVE  TypeOK'
    <2> DEFINE work == [op |-> "createSet", code |-> k, body |-> Body(draft)]
    <2>1. work \in MakingSet
      BY <1>7, BodyType DEF BeginCreateSet, MakingSet
    <2>2. Begin(s, work)
      BY <1>7 DEF BeginCreateSet
    <2> HIDE DEF work
    <2>3. session' \in [Sessions -> {Idle} \cup Updating \cup SavingSet \cup MakingSet
                                      \cup Assigning \cup Reading]
      BY <2>1, <2>2, BeginType
    <2> QED
      BY <1>7, <2>3 DEF BeginCreateSet, TypeOK
  <1>8. ASSUME NEW s \in Sessions, CommitCreateSet(s)
        PROVE  TypeOK'
    <2> DEFINE k == session[s].code
               row == [version |-> 1, body |-> session[s].body]
    <2>1. k \in RuleSets /\ row \in SetRow
      BY <1>8, SessionKind DEF CommitCreateSet, MakingSet, SetRow, Versions
    <2>2. set' \in [RuleSets -> SetRow \cup {NoRow}]
      <3>1. set' = [set EXCEPT ![k] = row]
        BY <1>8 DEF CommitCreateSet
      <3> HIDE DEF k, row
      <3> QED
        BY <2>1, <3>1 DEF TypeOK
    <2>3. session' \in [Sessions -> {Idle} \cup Updating \cup SavingSet \cup MakingSet
                                      \cup Assigning \cup Reading]
      BY <1>8, EndType DEF CommitCreateSet
    <2>4. writes' \in 0..MaxWrites
      BY <1>8, CommitsType DEF CommitCreateSet
    <2> QED
      BY <1>8, <2>2, <2>3, <2>4 DEF CommitCreateSet, TypeOK
  <1>9. ASSUME NEW s \in Sessions, NEW k \in RuleSets, NEW draft \in SetDrafts,
               BeginUpdateSet(s, k, draft)
        PROVE  TypeOK'
    <2> DEFINE work == [op |-> "updateSet", code |-> k, body |-> Body(draft), old |-> set[k]]
    <2>1. set[k] \in SetRow
      BY <1>9 DEF BeginUpdateSet, TypeOK
    <2>2. work \in SavingSet
      BY <1>9, <2>1, BodyType DEF BeginUpdateSet, SavingSet
    <2>3. Begin(s, work)
      BY <1>9 DEF BeginUpdateSet
    <2> HIDE DEF work
    <2>4. session' \in [Sessions -> {Idle} \cup Updating \cup SavingSet \cup MakingSet
                                      \cup Assigning \cup Reading]
      BY <2>2, <2>3, BeginType
    <2> QED
      BY <1>9, <2>4 DEF BeginUpdateSet, TypeOK
  <1>10. ASSUME NEW s \in Sessions, CommitUpdateSet(s)
         PROVE  TypeOK'
    <2> DEFINE k == session[s].code
               old == session[s].old
               row == [version |-> old.version + 1, body |-> session[s].body]
    <2>1. session[s].op = "updateSet"
      BY <1>10 DEF CommitUpdateSet
    <2>2. k \in RuleSets /\ old \in SetRow /\ row \in SetRow
      BY <2>1, SetWork DEF SetRow
    <2>3. set' \in [RuleSets -> SetRow \cup {NoRow}]
      <3>1. set' = [set EXCEPT ![k] = row]
        BY <1>10 DEF CommitUpdateSet
      <3> HIDE DEF k, row
      <3> QED
        BY <2>2, <3>1 DEF TypeOK
    <2>4. setHistory' \in [RuleSets -> Seq(SetRow)]
      <3>1. setHistory' = [setHistory EXCEPT ![k] = Append(@, old)]
        BY <1>10 DEF CommitUpdateSet
      <3>2. setHistory[k] \in Seq(SetRow)
        BY <2>2 DEF TypeOK
      <3>3. Append(setHistory[k], old) \in Seq(SetRow)
        BY <2>2, <3>2
      <3> HIDE DEF k, old
      <3> QED
        BY <2>2, <3>1, <3>3 DEF TypeOK
    <2>5. session' \in [Sessions -> {Idle} \cup Updating \cup SavingSet \cup MakingSet
                                      \cup Assigning \cup Reading]
      BY <1>10, EndType DEF CommitUpdateSet
    <2>6. writes' \in 0..MaxWrites
      BY <1>10, CommitsType DEF CommitUpdateSet
    <2>7. UNCHANGED <<ruleTables, setRemoved, bizTables>>
      BY <1>10 DEF CommitUpdateSet
    <2> HIDE DEF k, old, row
    <2> QED
      BY <2>3, <2>4, <2>5, <2>6, <2>7 DEF TypeOK
  <1>11. ASSUME NEW k \in RuleSets, RemoveSet(k)
         PROVE  TypeOK'
    <2>1. writes' \in 0..MaxWrites
      BY <1>11, CommitsType DEF RemoveSet
    <2> QED
      BY <1>11, <2>1 DEF RemoveSet, TypeOK
  <1>12. ASSUME NEW b \in BizTypes, CreateBizType(b) \/ RemoveBizType(b)
         PROVE  TypeOK'
    <2>1. writes' \in 0..MaxWrites
      BY <1>12, CommitsType DEF CreateBizType, RemoveBizType
    <2> QED
      BY <1>12, <2>1 DEF CreateBizType, RemoveBizType, TypeOK
  <1>13. ASSUME NEW s \in Sessions, NEW b \in BizTypes, NEW k \in RuleSets,
                NEW v \in AskedVersions, BeginAssignRuleSet(s, b, k, v)
         PROVE  TypeOK'
    <2> DEFINE work == [op |-> "assign", biz |-> b, set |-> k, version |-> v]
    <2>1. work \in Assigning
      BY CatalogAssumption DEF Assigning, AskedVersions, Versions
    <2>2. Begin(s, work)
      BY <1>13 DEF BeginAssignRuleSet
    <2> HIDE DEF work
    <2>3. session' \in [Sessions -> {Idle} \cup Updating \cup SavingSet \cup MakingSet
                                      \cup Assigning \cup Reading]
      BY <2>1, <2>2, BeginType
    <2> QED
      BY <1>13, <2>3 DEF BeginAssignRuleSet, TypeOK
  <1>14. ASSUME NEW s \in Sessions, CommitAssignRuleSet(s)
         PROVE  TypeOK'
    <2>1. session[s] \in Assigning
      BY <1>14, SessionKind DEF CommitAssignRuleSet
    <2>2. assigned' \in [BizTypes -> Assigned \cup {NoRow}]
      BY <1>14, <2>1 DEF CommitAssignRuleSet, Assigning, Assigned, TypeOK
    <2>3. session' \in [Sessions -> {Idle} \cup Updating \cup SavingSet \cup MakingSet
                                      \cup Assigning \cup Reading]
      BY <1>14, EndType DEF CommitAssignRuleSet
    <2>4. writes' \in 0..MaxWrites
      BY <1>14, CommitsType DEF CommitAssignRuleSet
    <2> QED
      BY <1>14, <2>2, <2>3, <2>4 DEF CommitAssignRuleSet, TypeOK
  <1>15. CASE UNCHANGED vars
    BY <1>15 DEF vars, TypeOK
  <1> QED
    BY <1>1, <1>2, <1>3, <1>4, <1>5, <1>6, <1>7, <1>8, <1>9, <1>10, <1>11, <1>12, <1>13,
       <1>14, <1>15 DEF Next, RuleStep, SetStep, BizStep

LEMMA TypeInit == Init => TypeOK
  BY CatalogAssumption DEF Init, TypeOK

\* Every reachable state of the tables and of the sessions is well-typed;
\* no version goes below 1.
THEOREM TypeCorrect == Spec => []TypeOK
  <1>1. Init => TypeOK
    BY TypeInit
  <1>2. TypeOK /\ [Next]_vars => TypeOK'
    BY TypeStep
  <1> QED
    BY <1>1, <1>2, PTL DEF Spec

------------------------------------------------------------------------------
(* Updates of rules that run at the same time.                              *)

\* What an update has read is older than what it would write over, or it is
\* what is there.
RuleUpdateOk(s) ==
  session[s].op = "updateRule" /\ NeverRemoved(session[s].code) =>
    /\ rule[session[s].code] # NoRow
    /\ session[s].old.version =< rule[session[s].code].version
    /\ session[s].old.version = rule[session[s].code].version =>
         session[s].old = rule[session[s].code] /\ session[s].sqls = sqls[session[s].code]

\* The versions of a history count up to the one before the row's.
Numbered(row, history) ==
  /\ Len(history) = (IF row = NoRow THEN 0 ELSE row.version - 1)
  /\ \A i \in DOMAIN history : history[i].version = i

RulesArchived == \A c \in Rules : NeverRemoved(c) => Numbered(rule[c], ruleHistory[c])
RuleInv == RulesArchived /\ SqlsFollow /\ \A s \in Sessions : RuleUpdateOk(s)

\* The history of a row that gets its next version, when what is kept of it has
\* its version.
LEMMA NumberedNext ==
  ASSUME NEW R, NEW row, NEW kept \in R, NEW history \in Seq(R), NEW next,
         row # NoRow, next # NoRow, row.version \in Versions, kept.version = row.version,
         next.version = row.version + 1, Numbered(row, history)
  PROVE  Numbered(next, Append(history, kept))
  <1> DEFINE n == Len(history)
  <1>1. n = row.version - 1 /\ n \in Nat /\ row.version = n + 1
    BY DEF Numbered, Versions
  <1>2. /\ Append(history, kept) \in Seq(R)
        /\ Len(Append(history, kept)) = n + 1
        /\ DOMAIN Append(history, kept) = 1..(n + 1)
    OBVIOUS
  <1>3. Len(Append(history, kept)) = next.version - 1
    BY <1>1, <1>2
  <1>4. ASSUME NEW i \in 1..(n + 1)
        PROVE  Append(history, kept)[i].version = i
    <2>1. CASE i = n + 1
      <3>1. Append(history, kept)[n + 1] = kept
        OBVIOUS
      <3> QED
        BY <1>1, <2>1, <3>1
    <2>2. CASE i # n + 1
      <3>1. i \in 1..n /\ i \in DOMAIN history
        BY <1>1, <2>2
      <3>2. Append(history, kept)[i] = history[i]
        BY <3>1
      <3> QED
        BY <3>1, <3>2 DEF Numbered
    <2> QED
      BY <2>1, <2>2
  <1> QED
    BY <1>2, <1>3, <1>4 DEF Numbered

\* A step that leaves the rule tables alone and begins no update of a rule.
LEMMA RuleInvStays ==
  ASSUME RuleInv, UNCHANGED ruleTables,
         \A s \in Sessions : session'[s] = session[s] \/ session'[s].op # "updateRule"
  PROVE  RuleInv'
  <1>1. RulesArchived' /\ SqlsFollow'
    BY DEF RuleInv, RulesArchived, SqlsFollow, NeverRemoved, ruleTables
  <1>2. ASSUME NEW s \in Sessions
        PROVE  RuleUpdateOk(s)'
    BY DEF RuleInv, RuleUpdateOk, NeverRemoved, ruleTables
  <1> QED
    BY <1>1, <1>2 DEF RuleInv

LEMMA OthersBegin ==
  ASSUME TypeOK, NEW s \in Sessions, NEW work, Begin(s, work)
  PROVE  /\ session'[s] = work
         /\ \A r \in Sessions : r # s => session'[r] = session[r]
  BY DEF TypeOK, Begin

LEMMA OthersEnd ==
  ASSUME TypeOK, NEW s \in Sessions, End(s)
  PROVE  /\ session'[s] = Idle
         /\ Idle.op = "idle"
         /\ \A r \in Sessions : r # s => session'[r] = session[r]
  BY DEF TypeOK, End, Idle

LEMMA RuleInvStep == TypeOK /\ RuleInv /\ [Next]_vars => RuleInv'
  <1> SUFFICES ASSUME TypeOK, RuleInv, [Next]_vars
               PROVE  RuleInv'
    OBVIOUS
  <1>1. ASSUME NEW c \in Rules, NEW draft \in RuleDrafts, CreateRule(c, draft)
        PROVE  RuleInv'
    <2> DEFINE row == RowOf(draft, 1)
    <2>1. /\ rule[c] = NoRow
          /\ rule' = [rule EXCEPT ![c] = row]
          /\ sqls' = [sqls EXCEPT ![c] = SqlRows(draft.sqls, 1)]
          /\ UNCHANGED <<ruleRemoved, ruleHistory, sqlHistory, session>>
      BY <1>1 DEF CreateRule
    <2>2. row \in RuleRow /\ row # NoRow /\ row.version = 1
      BY CatalogAssumption, RowOfDraft DEF Versions
    <2>3. \A e \in SqlRows(draft.sqls, 1) : e.version = 1
      BY DEF SqlRows
    <2> HIDE DEF row
    <2>4. rule'[c] = row /\ \A d \in Rules : d # c => rule'[d] = rule[d]
      BY <2>1 DEF TypeOK
    <2>5. sqls'[c] = SqlRows(draft.sqls, 1) /\ \A d \in Rules : d # c => sqls'[d] = sqls[d]
      BY <2>1 DEF TypeOK
    <2>6. RulesArchived'
      BY <2>1, <2>2, <2>4 DEF RuleInv, RulesArchived, Numbered, NeverRemoved
    <2>7. SqlsFollow'
      BY <2>2, <2>3, <2>4, <2>5 DEF RuleInv, SqlsFollow
    <2>8. ASSUME NEW s \in Sessions
          PROVE  RuleUpdateOk(s)'
      <3>1. CASE session[s].op = "updateRule" /\ NeverRemoved(session[s].code)
        <4>1. session[s].code \in Rules /\ rule[session[s].code] # NoRow
          BY <3>1, RuleWork DEF RuleInv, RuleUpdateOk
        <4>2. session[s].code # c
          BY <2>1, <4>1
        <4> QED
          BY <2>1, <2>4, <2>5, <4>1, <4>2 DEF RuleInv, RuleUpdateOk, NeverRemoved
      <3>2. CASE ~ (session[s].op = "updateRule" /\ NeverRemoved(session[s].code))
        BY <2>1, <3>2 DEF RuleUpdateOk, NeverRemoved
      <3> QED
        BY <3>1, <3>2
    <2> QED
      BY <2>6, <2>7, <2>8 DEF RuleInv
  <1>2. ASSUME NEW s \in Sessions, NEW c \in Rules, NEW draft \in RuleDrafts,
               BeginUpdateRule(s, c, draft)
        PROVE  RuleInv'
    <2> DEFINE work == [op |-> "updateRule", code |-> c, draft |-> draft,
                        old |-> rule[c], sqls |-> sqls[c]]
    <2>1. rule[c] # NoRow /\ UNCHANGED ruleTables
      BY <1>2 DEF BeginUpdateRule
    <2>2. Begin(s, work)
      BY <1>2 DEF BeginUpdateRule
    <2>3. work.code = c /\ work.old = rule[c] /\ work.sqls = sqls[c]
      OBVIOUS
    <2> HIDE DEF work
    <2>4. session'[s] = work /\ \A r \in Sessions : r # s => session'[r] = session[r]
      BY <2>2, OthersBegin
    <2>5. RulesArchived' /\ SqlsFollow'
      BY <2>1 DEF RuleInv, RulesArchived, SqlsFollow, NeverRemoved, ruleTables
    <2>6. rule[c].version =< rule[c].version
      BY <2>1 DEF TypeOK, RuleRow, Versions
    <2>7. RuleUpdateOk(s)'
      BY <2>1, <2>3, <2>4, <2>6 DEF RuleUpdateOk, ruleTables
    <2>8. ASSUME NEW r \in Sessions, r # s
          PROVE  RuleUpdateOk(r)'
      BY <2>1, <2>4, <2>8 DEF RuleInv, RuleUpdateOk, NeverRemoved, ruleTables
    <2> QED
      BY <2>5, <2>7, <2>8 DEF RuleInv
  <1>3. ASSUME NEW s \in Sessions, CommitUpdateRule(s)
        PROVE  RuleInv'
    <2> DEFINE c == session[s].code
               draft == session[s].draft
               old == session[s].old
               kept == Archived(old)
               row == RowOf(draft, old.version + 1)
               texts == SqlRows(draft.sqls, old.version + 1)
    <2>1. /\ rule[c] # NoRow /\ rule[c].version = old.version
          /\ rule' = [rule EXCEPT ![c] = row]
          /\ sqls' = [sqls EXCEPT ![c] = texts]
          /\ ruleHistory' = [ruleHistory EXCEPT ![c] = Append(@, kept)]
          /\ ruleRemoved' = ruleRemoved
          /\ End(s)
          /\ session[s].op = "updateRule"
      BY <1>3 DEF CommitUpdateRule
    <2>2. /\ c \in Rules /\ old \in RuleRow /\ old.version \in Versions
          /\ kept \in RuleRow /\ kept.version = old.version
      BY <2>1, RuleWork, ArchivedRow
    <2>3. row # NoRow /\ row.version = old.version + 1
      BY <2>1, RuleWork, RowOfDraft
    <2>4. \A e \in texts : e.version = old.version + 1
      BY DEF SqlRows
    <2>5. NeverRemoved(c) => old = rule[c]
      BY <2>1 DEF RuleInv, RuleUpdateOk
    <2>6. session'[s].op = "idle" /\ \A r \in Sessions : r # s => session'[r] = session[r]
      BY <2>1, OthersEnd
    <2> HIDE DEF row, kept, old, draft, texts, c
    <2>7. rule'[c] = row /\ \A d \in Rules : d # c => rule'[d] = rule[d]
      BY <2>1, <2>2 DEF TypeOK
    <2>8. sqls'[c] = texts /\ \A d \in Rules : d # c => sqls'[d] = sqls[d]
      BY <2>1, <2>2 DEF TypeOK
    <2>9. /\ ruleHistory'[c] = Append(ruleHistory[c], kept)
          /\ \A d \in Rules : d # c => ruleHistory'[d] = ruleHistory[d]
      BY <2>1, <2>2 DEF TypeOK
    <2>10. RulesArchived'
      <3>1. ASSUME NeverRemoved(c)
            PROVE  Numbered(row, Append(ruleHistory[c], kept))
        <4>1. Numbered(old, ruleHistory[c]) /\ old # NoRow /\ ruleHistory[c] \in Seq(RuleRow)
          BY <2>1, <2>2, <2>5, <3>1 DEF RuleInv, RulesArchived, TypeOK
        <4> QED
          BY <2>2, <2>3, <4>1, NumberedNext
      <3>2. ASSUME NEW d \in Rules, NeverRemoved(d)
            PROVE  Numbered(rule'[d], ruleHistory'[d])
        <4>1. CASE d = c
          BY <2>7, <2>9, <3>1, <3>2, <4>1
        <4>2. CASE d # c
          BY <2>7, <2>9, <3>2, <4>2 DEF RuleInv, RulesArchived
        <4> QED
          BY <4>1, <4>2
      <3> QED
        BY <2>1, <3>2 DEF RulesArchived, NeverRemoved, Numbered
    <2>11. SqlsFollow'
      BY <2>2, <2>3, <2>4, <2>7, <2>8 DEF RuleInv, SqlsFollow
    <2>12. ASSUME NEW r \in Sessions
           PROVE  RuleUpdateOk(r)'
      <3>1. CASE r = s
        BY <2>6, <3>1 DEF RuleUpdateOk
      <3>2. CASE r # s /\ session[r].op = "updateRule" /\ NeverRemoved(session[r].code)
        <4> DEFINE d == session[r].code
        <4>1. /\ d \in Rules /\ rule[d] # NoRow /\ session[r].old.version =< rule[d].version
              /\ session[r].old.version \in Versions
              /\ session[r].old.version = rule[d].version =>
                   session[r].old = rule[d] /\ session[r].sqls = sqls[d]
          BY <3>2, RuleWork DEF RuleInv, RuleUpdateOk
        <4> HIDE DEF d
        <4>2. CASE d = c
          <5>1. session[r].old.version =< old.version
            BY <2>1, <4>1, <4>2
          <5>2. /\ session[r].old.version =< row.version
                /\ session[r].old.version # row.version
            BY <2>2, <2>3, <4>1, <5>1 DEF Versions
          <5> QED
            BY <2>3, <2>6, <2>7, <3>2, <4>2, <5>2 DEF RuleUpdateOk, d
        <4>3. CASE d # c
          BY <2>6, <2>7, <2>8, <3>2, <4>1, <4>3 DEF RuleUpdateOk, d
        <4> QED
          BY <4>2, <4>3
      <3>3. CASE r # s /\ ~ (session[r].op = "updateRule" /\ NeverRemoved(session[r].code))
        BY <2>1, <2>6, <3>3 DEF RuleUpdateOk, NeverRemoved
      <3> QED
        BY <3>1, <3>2, <3>3
    <2> QED
      BY <2>10, <2>11, <2>12 DEF RuleInv
  <1>4. ASSUME NEW c \in Rules, RemoveRule(c)
        PROVE  RuleInv'
    <2>1. /\ rule' = [rule EXCEPT ![c] = NoRow]
          /\ sqls' = [sqls EXCEPT ![c] = {}]
          /\ ruleRemoved' = ruleRemoved \cup {c}
          /\ UNCHANGED <<ruleHistory, session>>
      BY <1>4 DEF RemoveRule
    <2>2. \A d \in Rules : d # c => rule'[d] = rule[d] /\ sqls'[d] = sqls[d]
      BY <2>1 DEF TypeOK
    <2>3. sqls'[c] = {}
      BY <2>1 DEF TypeOK
    <2>4. \A d : NeverRemoved(d)' => NeverRemoved(d) /\ d # c
      BY <2>1 DEF NeverRemoved
    <2>5. RulesArchived'
      BY <2>1, <2>2, <2>4 DEF RuleInv, RulesArchived, Numbered
    <2>6. SqlsFollow'
      BY <2>2, <2>3 DEF RuleInv, SqlsFollow
    <2>7. ASSUME NEW s \in Sessions
          PROVE  RuleUpdateOk(s)'
      <3>1. session[s].op = "updateRule" => session[s].code \in Rules
        BY RuleWork
      <3> QED
        BY <2>1, <2>2, <2>4, <3>1 DEF RuleInv, RuleUpdateOk
    <2> QED
      BY <2>5, <2>6, <2>7 DEF RuleInv
  <1>5. ASSUME UNCHANGED ruleTables, NEW s \in Sessions, NEW work, Begin(s, work),
               work.op # "updateRule"
        PROVE  RuleInv'
    <2>1. session'[s] = work /\ \A r \in Sessions : r # s => session'[r] = session[r]
      BY <1>5, OthersBegin
    <2> QED
      BY <1>5, <2>1, RuleInvStays
  <1>6. ASSUME UNCHANGED ruleTables, NEW s \in Sessions, End(s)
        PROVE  RuleInv'
    <2>1. session'[s].op = "idle" /\ \A r \in Sessions : r # s => session'[r] = session[r]
      BY <1>6, OthersEnd
    <2> QED
      BY <1>6, <2>1, RuleInvStays
  <1>7. ASSUME UNCHANGED <<ruleTables, session>>
        PROVE  RuleInv'
    BY <1>7, RuleInvStays
  <1>8. ASSUME NEW s \in Sessions, NEW c \in Rules, NEW v \in AskedVersions,
               BeginReadRule(s, c, v)
        PROVE  RuleInv'
    <2> DEFINE work == [op |-> "read", code |-> c, version |-> v,
                        current |-> v = rule[c].version]
    <2>1. UNCHANGED ruleTables /\ Begin(s, work) /\ work.op # "updateRule"
      BY <1>8 DEF BeginReadRule
    <2> QED
      BY <2>1, <1>5
  <1>9. ASSUME NEW s \in Sessions, NEW k \in RuleSets, NEW draft \in SetDrafts,
               BeginCreateSet(s, k, draft) \/ BeginUpdateSet(s, k, draft)
        PROVE  RuleInv'
    <2>1. PICK work : UNCHANGED ruleTables /\ Begin(s, work) /\ work.op # "updateRule"
      <3>1. CASE BeginCreateSet(s, k, draft)
        <4> DEFINE w == [op |-> "createSet", code |-> k, body |-> Body(draft)]
        <4>1. UNCHANGED ruleTables /\ Begin(s, w) /\ w.op # "updateRule"
          BY <3>1 DEF BeginCreateSet
        <4> QED
          BY <4>1
      <3>2. CASE BeginUpdateSet(s, k, draft)
        <4> DEFINE w == [op |-> "updateSet", code |-> k, body |-> Body(draft), old |-> set[k]]
        <4>1. UNCHANGED ruleTables /\ Begin(s, w) /\ w.op # "updateRule"
          BY <3>2 DEF BeginUpdateSet
        <4> QED
          BY <4>1
      <3> QED
        BY <1>9, <3>1, <3>2
    <2> QED
      BY <2>1, <1>5
  <1>10. ASSUME NEW s \in Sessions, NEW b \in BizTypes, NEW k \in RuleSets,
                NEW v \in AskedVersions, BeginAssignRuleSet(s, b, k, v)
         PROVE  RuleInv'
    <2> DEFINE work == [op |-> "assign", biz |-> b, set |-> k, version |-> v]
    <2>1. UNCHANGED ruleTables /\ Begin(s, work) /\ work.op # "updateRule"
      BY <1>10 DEF BeginAssignRuleSet
    <2> QED
      BY <2>1, <1>5
  <1>11. ASSUME NEW s \in Sessions,
                \/ EndReadRule(s) \/ CommitCreateSet(s) \/ CommitUpdateSet(s)
                \/ CommitAssignRuleSet(s) \/ Rollback(s)
         PROVE  RuleInv'
    <2>1. UNCHANGED ruleTables /\ End(s)
      BY <1>11 DEF EndReadRule, CommitCreateSet, CommitUpdateSet, CommitAssignRuleSet, Rollback
    <2> QED
      BY <2>1, <1>6
  <1>12. ASSUME \/ \E k \in RuleSets : RemoveSet(k)
                \/ \E b \in BizTypes : CreateBizType(b) \/ RemoveBizType(b)
                \/ UNCHANGED vars
         PROVE  RuleInv'
    <2>1. UNCHANGED <<ruleTables, session>>
      BY <1>12 DEF RemoveSet, CreateBizType, RemoveBizType, vars
    <2> QED
      BY <2>1, <1>7
  <1> QED
    BY <1>1, <1>2, <1>3, <1>4, <1>8, <1>9, <1>10, <1>11, <1>12
       DEF Next, RuleStep, SetStep, BizStep

------------------------------------------------------------------------------
(* Updates of rule sets that run at the same time.                          *)

SetUpdateOk(s) ==
  session[s].op = "updateSet" /\ SetNeverRemoved(session[s].code) =>
    /\ set[session[s].code] # NoRow
    /\ session[s].old.version =< set[session[s].code].version
    /\ session[s].old.version = set[session[s].code].version =>
         session[s].old = set[session[s].code]

SetsArchived == \A k \in RuleSets : SetNeverRemoved(k) => Numbered(set[k], setHistory[k])
SetInv == SetsArchived /\ \A s \in Sessions : SetUpdateOk(s)

\* A step that leaves the set tables alone and begins no update of a set.
LEMMA SetInvStays ==
  ASSUME SetInv, UNCHANGED setTables,
         \A s \in Sessions : session'[s] = session[s] \/ session'[s].op # "updateSet"
  PROVE  SetInv'
  <1>1. SetsArchived'
    BY DEF SetInv, SetsArchived, SetNeverRemoved, setTables
  <1>2. ASSUME NEW s \in Sessions
        PROVE  SetUpdateOk(s)'
    BY DEF SetInv, SetUpdateOk, SetNeverRemoved, setTables
  <1> QED
    BY <1>1, <1>2 DEF SetInv

LEMMA SetInvStep == TypeOK /\ SetInv /\ [Next]_vars => SetInv'
  <1> SUFFICES ASSUME TypeOK, SetInv, [Next]_vars
               PROVE  SetInv'
    OBVIOUS
  <1>1. ASSUME NEW s \in Sessions, CommitCreateSet(s)
        PROVE  SetInv'
    <2> DEFINE k == session[s].code
               row == [version |-> 1, body |-> session[s].body]
    <2>1. /\ set[k] = NoRow
          /\ set' = [set EXCEPT ![k] = row]
          /\ UNCHANGED <<setRemoved, setHistory>>
          /\ End(s)
      BY <1>1 DEF CommitCreateSet
    <2>2. k \in RuleSets /\ row \in SetRow
      BY <1>1, SessionKind DEF CommitCreateSet, MakingSet, SetRow, Versions
    <2>3. row # NoRow /\ row.version = 1
      BY <2>2, NoRowAssumption
    <2>4. session'[s].op = "idle" /\ \A r \in Sessions : r # s => session'[r] = session[r]
      BY <2>1, OthersEnd
    <2> HIDE DEF k, row
    <2>5. set'[k] = row /\ \A j \in RuleSets : j # k => set'[j] = set[j]
      BY <2>1, <2>2 DEF TypeOK
    <2>6. SetsArchived'
      BY <2>1, <2>3, <2>5 DEF SetInv, SetsArchived, Numbered, SetNeverRemoved
    <2>7. ASSUME NEW r \in Sessions
          PROVE  SetUpdateOk(r)'
      <3>1. CASE r = s
        BY <2>4, <3>1 DEF SetUpdateOk
      <3>2. CASE r # s /\ session[r].op = "updateSet" /\ SetNeverRemoved(session[r].code)
        <4>1. session[r].code \in RuleSets /\ set[session[r].code] # NoRow
          BY <3>2, SetWork DEF SetInv, SetUpdateOk
        <4>2. session[r].code # k
          BY <2>1, <4>1
        <4> QED
          BY <2>1, <2>4, <2>5, <3>2, <4>1, <4>2 DEF SetInv, SetUpdateOk, SetNeverRemoved
      <3>3. CASE r # s /\ ~ (session[r].op = "updateSet" /\ SetNeverRemoved(session[r].code))
        BY <2>1, <2>4, <3>3 DEF SetUpdateOk, SetNeverRemoved
      <3> QED
        BY <3>1, <3>2, <3>3
    <2> QED
      BY <2>6, <2>7 DEF SetInv
  <1>2. ASSUME NEW s \in Sessions, NEW k \in RuleSets, NEW draft \in SetDrafts,
               BeginUpdateSet(s, k, draft)
        PROVE  SetInv'
    <2> DEFINE work == [op |-> "updateSet", code |-> k, body |-> Body(draft), old |-> set[k]]
    <2>1. set[k] # NoRow /\ UNCHANGED setTables
      BY <1>2 DEF BeginUpdateSet
    <2>2. Begin(s, work)
      BY <1>2 DEF BeginUpdateSet
    <2>3. work.code = k /\ work.old = set[k]
      OBVIOUS
    <2> HIDE DEF work
    <2>4. session'[s] = work /\ \A r \in Sessions : r # s => session'[r] = session[r]
      BY <2>2, OthersBegin
    <2>5. SetsArchived'
      BY <2>1 DEF SetInv, SetsArchived, SetNeverRemoved, setTables
    <2>6. set[k].version =< set[k].version
      BY <2>1 DEF TypeOK, SetRow, Versions
    <2>7. SetUpdateOk(s)'
      BY <2>1, <2>3, <2>4, <2>6 DEF SetUpdateOk, setTables
    <2>8. ASSUME NEW r \in Sessions, r # s
          PROVE  SetUpdateOk(r)'
      BY <2>1, <2>4, <2>8 DEF SetInv, SetUpdateOk, SetNeverRemoved, setTables
    <2> QED
      BY <2>5, <2>7, <2>8 DEF SetInv
  <1>3. ASSUME NEW s \in Sessions, CommitUpdateSet(s)
        PROVE  SetInv'
    <2> DEFINE k == session[s].code
               old == session[s].old
               row == [version |-> old.version + 1, body |-> session[s].body]
    <2>1. /\ set[k] # NoRow /\ set[k].version = old.version
          /\ set' = [set EXCEPT ![k] = row]
          /\ setHistory' = [setHistory EXCEPT ![k] = Append(@, old)]
          /\ setRemoved' = setRemoved
          /\ End(s)
          /\ session[s].op = "updateSet"
      BY <1>3 DEF CommitUpdateSet
    <2>2. k \in RuleSets /\ old \in SetRow /\ old.version \in Versions /\ row \in SetRow
      BY <2>1, SetWork DEF SetRow
    <2>3. row # NoRow /\ row.version = old.version + 1
      BY <2>2, NoRowAssumption
    <2>4. SetNeverRemoved(k) => old = set[k]
      BY <2>1 DEF SetInv, SetUpdateOk
    <2>5. session'[s].op = "idle" /\ \A r \in Sessions : r # s => session'[r] = session[r]
      BY <2>1, OthersEnd
    <2> HIDE DEF row, old, k
    <2>6. set'[k] = row /\ \A j \in RuleSets : j # k => set'[j] = set[j]
      BY <2>1, <2>2 DEF TypeOK
    <2>7. /\ setHistory'[k] = Append(setHistory[k], old)
          /\ \A j \in RuleSets : j # k => setHistory'[j] = setHistory[j]
      BY <2>1, <2>2 DEF TypeOK
    <2>8. SetsArchived'
      <3>1. ASSUME SetNeverRemoved(k)
            PROVE  Numbered(row, Append(setHistory[k], old))
        <4>1. Numbered(old, setHistory[k]) /\ old # NoRow /\ setHistory[k] \in Seq(SetRow)
          BY <2>1, <2>2, <2>4, <3>1 DEF SetInv, SetsArchived, TypeOK
        <4> QED
          BY <2>2, <2>3, <4>1, NumberedNext
      <3>2. ASSUME NEW j \in RuleSets, SetNeverRemoved(j)
            PROVE  Numbered(set'[j], setHistory'[j])
        <4>1. CASE j = k
          BY <2>6, <2>7, <3>1, <3>2, <4>1
        <4>2. CASE j # k
          BY <2>6, <2>7, <3>2, <4>2 DEF SetInv, SetsArchived
        <4> QED
          BY <4>1, <4>2
      <3> QED
        BY <2>1, <3>2 DEF SetsArchived, SetNeverRemoved, Numbered
    <2>9. ASSUME NEW r \in Sessions
          PROVE  SetUpdateOk(r)'
      <3>1. CASE r = s
        BY <2>5, <3>1 DEF SetUpdateOk
      <3>2. CASE r # s /\ session[r].op = "updateSet" /\ SetNeverRemoved(session[r].code)
        <4> DEFINE j == session[r].code
        <4>1. /\ j \in RuleSets /\ set[j] # NoRow /\ session[r].old.version =< set[j].version
              /\ session[r].old.version \in Versions
              /\ session[r].old.version = set[j].version => session[r].old = set[j]
          BY <3>2, SetWork DEF SetInv, SetUpdateOk
        <4> HIDE DEF j
        <4>2. CASE j = k
          <5>1. session[r].old.version =< old.version
            BY <2>1, <4>1, <4>2
          <5>2. /\ session[r].old.version =< row.version
                /\ session[r].old.version # row.version
            BY <2>2, <2>3, <4>1, <5>1 DEF Versions
          <5> QED
            BY <2>3, <2>5, <2>6, <3>2, <4>2, <5>2 DEF SetUpdateOk, j
        <4>3. CASE j # k
          BY <2>5, <2>6, <3>2, <4>1, <4>3 DEF SetUpdateOk, j
        <4> QED
          BY <4>2, <4>3
      <3>3. CASE r # s /\ ~ (session[r].op = "updateSet" /\ SetNeverRemoved(session[r].code))
        BY <2>1, <2>5, <3>3 DEF SetUpdateOk, SetNeverRemoved
      <3> QED
        BY <3>1, <3>2, <3>3
    <2> QED
      BY <2>8, <2>9 DEF SetInv
  <1>4. ASSUME NEW k \in RuleSets, RemoveSet(k)
        PROVE  SetInv'
    <2>1. /\ set' = [set EXCEPT ![k] = NoRow]
          /\ setRemoved' = setRemoved \cup {k}
          /\ UNCHANGED <<setHistory, session>>
      BY <1>4 DEF RemoveSet
    <2>2. \A j \in RuleSets : j # k => set'[j] = set[j]
      BY <2>1 DEF TypeOK
    <2>3. \A j : SetNeverRemoved(j)' => SetNeverRemoved(j) /\ j # k
      BY <2>1 DEF SetNeverRemoved
    <2>4. SetsArchived'
      BY <2>1, <2>2, <2>3 DEF SetInv, SetsArchived, Numbered
    <2>5. ASSUME NEW s \in Sessions
          PROVE  SetUpdateOk(s)'
      <3>1. session[s].op = "updateSet" => session[s].code \in RuleSets
        BY SetWork
      <3> QED
        BY <2>1, <2>2, <2>3, <3>1 DEF SetInv, SetUpdateOk
    <2> QED
      BY <2>4, <2>5 DEF SetInv
  <1>5. ASSUME UNCHANGED setTables, NEW s \in Sessions, NEW work, Begin(s, work),
               work.op # "updateSet"
        PROVE  SetInv'
    <2>1. session'[s] = work /\ \A r \in Sessions : r # s => session'[r] = session[r]
      BY <1>5, OthersBegin
    <2> QED
      BY <1>5, <2>1, SetInvStays
  <1>6. ASSUME UNCHANGED setTables, NEW s \in Sessions, End(s)
        PROVE  SetInv'
    <2>1. session'[s].op = "idle" /\ \A r \in Sessions : r # s => session'[r] = session[r]
      BY <1>6, OthersEnd
    <2> QED
      BY <1>6, <2>1, SetInvStays
  <1>7. ASSUME UNCHANGED <<setTables, session>>
        PROVE  SetInv'
    BY <1>7, SetInvStays
  <1>8. ASSUME NEW s \in Sessions, NEW c \in Rules, NEW draft \in RuleDrafts,
               BeginUpdateRule(s, c, draft)
        PROVE  SetInv'
    <2> DEFINE work == [op |-> "updateRule", code |-> c, draft |-> draft,
                        old |-> rule[c], sqls |-> sqls[c]]
    <2>1. UNCHANGED setTables /\ Begin(s, work) /\ work.op # "updateSet"
      BY <1>8 DEF BeginUpdateRule
    <2> QED
      BY <2>1, <1>5
  <1>9. ASSUME NEW s \in Sessions, NEW c \in Rules, NEW v \in AskedVersions,
               BeginReadRule(s, c, v)
        PROVE  SetInv'
    <2> DEFINE work == [op |-> "read", code |-> c, version |-> v,
                        current |-> v = rule[c].version]
    <2>1. UNCHANGED setTables /\ Begin(s, work) /\ work.op # "updateSet"
      BY <1>9 DEF BeginReadRule
    <2> QED
      BY <2>1, <1>5
  <1>10. ASSUME NEW s \in Sessions, NEW k \in RuleSets, NEW draft \in SetDrafts,
                BeginCreateSet(s, k, draft)
         PROVE  SetInv'
    <2> DEFINE work == [op |-> "createSet", code |-> k, body |-> Body(draft)]
    <2>1. UNCHANGED setTables /\ Begin(s, work) /\ work.op # "updateSet"
      BY <1>10 DEF BeginCreateSet
    <2> QED
      BY <2>1, <1>5
  <1>11. ASSUME NEW s \in Sessions, NEW b \in BizTypes, NEW k \in RuleSets,
                NEW v \in AskedVersions, BeginAssignRuleSet(s, b, k, v)
         PROVE  SetInv'
    <2> DEFINE work == [op |-> "assign", biz |-> b, set |-> k, version |-> v]
    <2>1. UNCHANGED setTables /\ Begin(s, work) /\ work.op # "updateSet"
      BY <1>11 DEF BeginAssignRuleSet
    <2> QED
      BY <2>1, <1>5
  <1>12. ASSUME NEW s \in Sessions,
                \/ EndReadRule(s) \/ CommitUpdateRule(s)
                \/ CommitAssignRuleSet(s) \/ Rollback(s)
         PROVE  SetInv'
    <2>1. UNCHANGED setTables /\ End(s)
      BY <1>12 DEF EndReadRule, CommitUpdateRule, CommitAssignRuleSet, Rollback
    <2> QED
      BY <2>1, <1>6
  <1>13. ASSUME \/ \E c \in Rules : \/ RemoveRule(c)
                                    \/ \E draft \in RuleDrafts : CreateRule(c, draft)
                \/ \E b \in BizTypes : CreateBizType(b) \/ RemoveBizType(b)
                \/ UNCHANGED vars
         PROVE  SetInv'
    <2>1. UNCHANGED <<setTables, session>>
      BY <1>13 DEF RemoveRule, CreateRule, CreateBizType, RemoveBizType, vars
    <2> QED
      BY <2>1, <1>7
  <1> QED
    BY <1>1, <1>2, <1>3, <1>4, <1>8, <1>9, <1>10, <1>11, <1>12, <1>13
       DEF Next, RuleStep, SetStep, BizStep

CatalogInv == TypeOK /\ RuleInv /\ SetInv

\* What a transaction has read is older than what it would write over or is
\* still there, the versions of a history count up to the row's, and the
\* extract SQLs have the row's version: this is inductive.
THEOREM CatalogInvariant == Spec => []CatalogInv
  <1>1. Init => CatalogInv
    <2> SUFFICES ASSUME Init
                 PROVE  CatalogInv
      OBVIOUS
    <2>1. \A s \in Sessions : session[s].op = "idle"
      BY DEF Init, Idle
    <2>2. RuleInv
      BY <2>1 DEF Init, RuleInv, RulesArchived, Numbered, SqlsFollow, RuleUpdateOk
    <2>3. SetInv
      BY <2>1 DEF Init, SetInv, SetsArchived, Numbered, SetUpdateOk
    <2> QED
      BY <2>2, <2>3, TypeInit DEF CatalogInv
  <1>2. CatalogInv /\ [Next]_vars => CatalogInv'
    BY TypeStep, RuleInvStep, SetInvStep DEF CatalogInv
  <1> QED
    BY <1>1, <1>2, PTL DEF Spec

\* No update of a rule or of a rule set is lost and none is archived twice,
\* however many callers update at the same time.
THEOREM HistoriesComplete == Spec => []ArchiveComplete
  <1>1. CatalogInv => ArchiveComplete
    BY DEF CatalogInv, RuleInv, SetInv, RulesArchived, SetsArchived, Numbered, ArchiveComplete
  <1> QED
    BY <1>1, CatalogInvariant, PTL

\* The extract SQLs of a rule go with its row, whatever updates commit or roll
\* back.
THEOREM SqlsWithRow == Spec => []SqlsFollow
  <1>1. CatalogInv => SqlsFollow
    BY DEF CatalogInv, RuleInv
  <1> QED
    BY <1>1, CatalogInvariant, PTL
==============================================================================
