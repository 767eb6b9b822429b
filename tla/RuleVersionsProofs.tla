-------------------------- MODULE RuleVersionsProofs --------------------------
(***************************************************************************)
(* Proofs about the versions of RuleCatalog: a version of a code that was   *)
(* never removed stays, a rule's but for its design, so that references of  *)
(* rule sets and assignments of bizTypes go on fitting.                     *)
(*                                                                          *)
(* The lemmas about tables say once what a step may do to one code: leave   *)
(* it alone, make its first row, or archive its row and make the next.      *)
(***************************************************************************)
EXTENDS RuleCatalogProofs

------------------------------------------------------------------------------
(* A row with its history, for any rows that have versions.                 *)

\* The row that has a version, as RuleVersion and SetVersion find it.
VersionIn(row, history, v) ==
  IF row # NoRow /\ row.version # v THEN OnlyRowOf(history, v) ELSE row

\* In a history that counts, the row of a version is at its place.
LEMMA OnlyRowNumbered ==
  ASSUME NEW R, NEW history \in Seq(R), NEW v,
         \A i \in DOMAIN history : history[i].version = i
  PROVE  OnlyRowOf(history, v) = IF v \in DOMAIN history THEN history[v] ELSE NoRow
<1> DEFINE found == RowsOf(history, v)
<1>1. CASE v \in DOMAIN history
  <2>1. found = {v}
    BY <1>1 DEF RowsOf
  <2>2. (CHOOSE i \in found : TRUE) = v
    BY <2>1
  <2>3. \E i \in found : found = {i}
    BY <2>1
  <2> QED
    BY <1>1, <2>2, <2>3 DEF OnlyRowOf
<1>2. CASE v \notin DOMAIN history
  <2>1. found = {}
    BY <1>2 DEF RowsOf
  <2>2. ~ \E i \in found : found = {i}
    BY <2>1
  <2> QED
    BY <1>2, <2>2 DEF OnlyRowOf
<1> QED
  BY <1>1, <1>2

\* The row that is found has the version that was asked for.
LEMMA VersionInHasIt ==
  ASSUME NEW row, NEW history, NEW v, VersionIn(row, history, v) # NoRow
  PROVE  VersionIn(row, history, v).version = v
<1>1. CASE row # NoRow /\ row.version # v
  <2> DEFINE found == RowsOf(history, v)
  <2>1. VersionIn(row, history, v) = OnlyRowOf(history, v)
    BY <1>1 DEF VersionIn
  <2>2. /\ \E i \in found : found = {i}
        /\ OnlyRowOf(history, v) = history[CHOOSE i \in found : TRUE]
    BY <2>1 DEF OnlyRowOf
  <2>3. (CHOOSE i \in found : TRUE) \in found
    BY <2>2
  <2> QED
    BY <2>1, <2>2, <2>3 DEF RowsOf
<1>2. CASE ~ (row # NoRow /\ row.version # v)
  BY <1>2 DEF VersionIn
<1> QED
  BY <1>1, <1>2

\* When a row is archived, its version is what is kept of it, and the versions
\* before it are found as they were.
LEMMA VersionInStays ==
  ASSUME NEW R, NEW row, NEW kept \in R, NEW history \in Seq(R), NEW next, NEW v,
         row # NoRow, next # NoRow, row.version \in Versions, kept.version = row.version,
         next.version = row.version + 1, Numbered(row, history),
         VersionIn(row, history, v) # NoRow
  PROVE  VersionIn(next, Append(history, kept), v)
           = IF v = row.version THEN kept ELSE VersionIn(row, history, v)
<1> DEFINE n == row.version
           more == Append(history, kept)
<1>1. n \in Nat /\ n # 0 /\ Len(history) = n - 1 /\ DOMAIN history = 1 .. n - 1
  BY DEF Numbered, Versions
<1>2. /\ more \in Seq(R) /\ DOMAIN more = 1 .. n /\ more[n] = kept
      /\ \A i \in 1 .. n - 1 : more[i] = history[i]
  BY <1>1
<1>3. \A i \in DOMAIN history : history[i].version = i
  BY DEF Numbered
<1> HIDE DEF more
<1>4. \A i \in DOMAIN more : more[i].version = i
  BY <1>1, <1>2, <1>3
<1>5. OnlyRowOf(more, v) = IF v \in DOMAIN more THEN more[v] ELSE NoRow
  BY <1>2, <1>4, OnlyRowNumbered
<1>6. OnlyRowOf(history, v) = IF v \in DOMAIN history THEN history[v] ELSE NoRow
  BY <1>3, OnlyRowNumbered
<1>7. CASE v = n
  <2>1. VersionIn(next, more, v) = more[n]
    BY <1>1, <1>2, <1>5, <1>7 DEF VersionIn
  <2> QED
    BY <1>2, <1>7, <2>1 DEF more
<1>8. CASE v # n
  <2>1. v \in 1 .. n - 1 /\ VersionIn(row, history, v) = history[v]
    BY <1>1, <1>6, <1>8 DEF VersionIn
  <2>2. v \in 1 .. n /\ next.version # v
    BY <1>1, <2>1
  <2>3. VersionIn(next, more, v) = more[v]
    BY <1>2, <1>5, <2>2 DEF VersionIn
  <2> QED
    BY <1>2, <1>8, <2>1, <2>3 DEF more
<1> QED
  BY <1>7, <1>8

------------------------------------------------------------------------------
(* What a step does to the tables of one rule.                              *)

SameRule(c) ==
  /\ rule'[c] = rule[c] /\ ruleHistory'[c] = ruleHistory[c]
  /\ sqls'[c] = sqls[c] /\ sqlHistory'[c] = sqlHistory[c]

NewRule(c) ==
  /\ rule[c] = NoRow /\ rule'[c] # NoRow /\ rule'[c].version = 1
  /\ ruleHistory'[c] = ruleHistory[c] /\ sqlHistory'[c] = sqlHistory[c]

NextRule(c) ==
  /\ rule[c] # NoRow /\ rule'[c] # NoRow /\ rule'[c].version = rule[c].version + 1
  /\ ruleHistory'[c] = Append(ruleHistory[c], Archived(rule[c]))
  /\ sqlHistory'[c] = sqlHistory[c] \cup sqls[c]

LEMMA RuleStepIs ==
  ASSUME TypeOK, RuleInv, [Next]_vars
  PROVE  \/ ruleRemoved' = ruleRemoved /\ \A c \in Rules : SameRule(c)
         \/ \E c \in Rules :
              /\ \A d \in Rules \ {c} : SameRule(d)
              /\ \/ ruleRemoved' = ruleRemoved /\ (NeverRemoved(c) => NewRule(c) \/ NextRule(c))
                 \/ c \notin ruleRemoved /\ ruleRemoved' = ruleRemoved \cup {c}
<1> USE DEF SameRule
<1>1. ASSUME UNCHANGED ruleTables
      PROVE  ruleRemoved' = ruleRemoved /\ \A c \in Rules : SameRule(c)
  BY <1>1 DEF ruleTables
<1>2. ASSUME NEW c \in Rules, NEW draft \in RuleDrafts, CreateRule(c, draft)
      PROVE  /\ ruleRemoved' = ruleRemoved /\ NewRule(c)
             /\ \A d \in Rules \ {c} : SameRule(d)
  <2> DEFINE row == RowOf(draft, 1)
  <2>1. /\ rule[c] = NoRow /\ rule' = [rule EXCEPT ![c] = row]
        /\ sqls' = [sqls EXCEPT ![c] = SqlRows(draft.sqls, 1)]
        /\ UNCHANGED <<ruleRemoved, ruleHistory, sqlHistory>>
    BY <1>2 DEF CreateRule
  <2>2. row \in RuleRow /\ row # NoRow /\ row.version = 1
    BY CatalogAssumption, RowOfDraft DEF Versions
  <2> HIDE DEF row
  <2>3. rule'[c] = row /\ \A d \in Rules \ {c} : rule'[d] = rule[d] /\ sqls'[d] = sqls[d]
    BY <2>1 DEF TypeOK
  <2> QED
    BY <2>1, <2>2, <2>3 DEF NewRule
<1>3. ASSUME NEW s \in Sessions, CommitUpdateRule(s)
      PROVE  \E c \in Rules : /\ \A d \in Rules \ {c} : SameRule(d)
                              /\ ruleRemoved' = ruleRemoved
                              /\ NeverRemoved(c) => NextRule(c)
  <2> DEFINE c == session[s].code
             old == session[s].old
             kept == Archived(old)
             row == RowOf(session[s].draft, old.version + 1)
             texts == SqlRows(session[s].draft.sqls, old.version + 1)
  <2>1. /\ rule[c] # NoRow /\ rule[c].version = old.version
        /\ rule' = [rule EXCEPT ![c] = row]
        /\ sqls' = [sqls EXCEPT ![c] = texts]
        /\ ruleHistory' = [ruleHistory EXCEPT ![c] = Append(@, kept)]
        /\ sqlHistory' = [sqlHistory EXCEPT ![c] = @ \cup session[s].sqls]
        /\ ruleRemoved' = ruleRemoved
        /\ session[s].op = "updateRule"
    BY <1>3 DEF CommitUpdateRule
  <2>2. c \in Rules /\ row # NoRow /\ row.version = old.version + 1
    BY <2>1, RuleWork, RowOfDraft
  <2>3. NeverRemoved(c) => old = rule[c] /\ session[s].sqls = sqls[c]
    BY <2>1 DEF RuleInv, RuleUpdateOk
  <2>4. NeverRemoved(c) => kept = Archived(rule[c]) /\ session[s].sqls = sqls[c]
    BY <2>3
  <2> HIDE DEF row, kept, old, texts, c
  <2>5. rule'[c] = row /\ \A d \in Rules \ {c} : rule'[d] = rule[d] /\ sqls'[d] = sqls[d]
    BY <2>1, <2>2 DEF TypeOK
  <2>6. /\ ruleHistory'[c] = Append(ruleHistory[c], kept)
        /\ \A d \in Rules \ {c} : ruleHistory'[d] = ruleHistory[d]
    BY <2>1, <2>2 DEF TypeOK
  <2>7. /\ sqlHistory'[c] = sqlHistory[c] \cup session[s].sqls
        /\ \A d \in Rules \ {c} : sqlHistory'[d] = sqlHistory[d]
    BY <2>1, <2>2 DEF TypeOK
  <2>8. NeverRemoved(c) => NextRule(c)
    BY <2>1, <2>2, <2>4, <2>5, <2>6, <2>7 DEF NextRule
  <2> QED
    BY <2>1, <2>2, <2>5, <2>6, <2>7, <2>8
<1>4. ASSUME NEW c \in Rules, RemoveRule(c)
      PROVE  /\ c \notin ruleRemoved /\ ruleRemoved' = ruleRemoved \cup {c}
             /\ \A d \in Rules \ {c} : SameRule(d)
  BY <1>4 DEF RemoveRule, TypeOK
<1>5. ASSUME \/ \E s \in Sessions :
                   \/ EndReadRule(s) \/ Rollback(s)
                   \/ \E c \in Rules :
                        \/ \E draft \in RuleDrafts : BeginUpdateRule(s, c, draft)
                        \/ \E version \in AskedVersions : BeginReadRule(s, c, version)
             \/ SetStep \/ BizStep \/ UNCHANGED vars
      PROVE  UNCHANGED ruleTables
  BY <1>5 DEF EndReadRule, Rollback, BeginUpdateRule, BeginReadRule, SetStep, BizStep, vars,
              RemoveSet, CommitCreateSet, CommitUpdateSet, BeginCreateSet, BeginUpdateSet,
              CreateBizType, RemoveBizType, CommitAssignRuleSet, BeginAssignRuleSet
<1> HIDE DEF SameRule
<1>6. \/ \E c \in Rules, draft \in RuleDrafts : CreateRule(c, draft)
      \/ \E s \in Sessions : CommitUpdateRule(s)
      \/ \E c \in Rules : RemoveRule(c)
      \/ UNCHANGED ruleTables
  BY <1>5 DEF Next, RuleStep
<1> QED
  BY <1>1, <1>2, <1>3, <1>4, <1>6

\* The version of a rule stays until the rule is removed; it may lose its design.
LEMMA RuleVersionStays ==
  ASSUME TypeOK, RuleInv, [Next]_vars, NEW c \in Rules, NeverRemoved(c)', NEW v,
         RuleVersion(c, v) # NoRow
  PROVE  /\ NeverRemoved(c)
         /\ RuleVersion(c, v)' \in {RuleVersion(c, v), Archived(RuleVersion(c, v))}
         /\ RuleVersion(c, v)' # NoRow
         /\ RuleVersion(c, v)'.biz = RuleVersion(c, v).biz
<1>1. NeverRemoved(c) /\ (SameRule(c) \/ NewRule(c) \/ NextRule(c))
  BY RuleStepIs DEF NeverRemoved
<1>2. /\ RuleVersion(c, v) = VersionIn(rule[c], ruleHistory[c], v)
      /\ RuleVersion(c, v)' = VersionIn(rule'[c], ruleHistory'[c], v)
  BY DEF RuleVersion, VersionIn
<1>3. CASE SameRule(c)
  BY <1>1, <1>2, <1>3 DEF SameRule
<1>4. CASE NewRule(c)
  BY <1>4 DEF NewRule, RuleVersion
<1>5. CASE NextRule(c)
  <2>1. /\ rule[c] \in RuleRow /\ rule[c].version \in Versions
        /\ ruleHistory[c] \in Seq(RuleRow) /\ Numbered(rule[c], ruleHistory[c])
    BY <1>1, <1>5 DEF NextRule, TypeOK, RuleRow, RuleInv, RulesArchived
  <2>2. /\ rule[c] # NoRow /\ rule'[c] # NoRow /\ rule'[c].version = rule[c].version + 1
        /\ ruleHistory'[c] = Append(ruleHistory[c], Archived(rule[c]))
    BY <1>5 DEF NextRule
  <2>3. VersionIn(rule[c], ruleHistory[c], v) # NoRow
    BY <1>2
  <2>4. /\ Archived(rule[c]) \in RuleRow /\ Archived(rule[c]) # NoRow
        /\ Archived(rule[c]).version = rule[c].version
        /\ Archived(rule[c]).biz = rule[c].biz
    BY <2>1, ArchivedRow
  <2>5. VersionIn(rule'[c], Append(ruleHistory[c], Archived(rule[c])), v)
          = IF v = rule[c].version THEN Archived(rule[c])
            ELSE VersionIn(rule[c], ruleHistory[c], v)
    BY ONLY <2>1, <2>2, <2>3, <2>4, VersionInStays
  <2>6. v = rule[c].version => VersionIn(rule[c], ruleHistory[c], v) = rule[c]
    BY DEF VersionIn
  <2> QED
    BY <1>1, <1>2, <2>2, <2>3, <2>4, <2>5, <2>6
<1> QED
  BY <1>1, <1>3, <1>4, <1>5

------------------------------------------------------------------------------
(* What a step does to the tables of one rule set.                          *)

SameSet(k) == set'[k] = set[k] /\ setHistory'[k] = setHistory[k]

\* The bodies are those of the session that commits.
NewSet(k, s) ==
  /\ session[s].op = "createSet" /\ session[s].code = k
  /\ set[k] = NoRow
  /\ set'[k] # NoRow /\ set'[k].version = 1 /\ set'[k].body = session[s].body
  /\ setHistory'[k] = setHistory[k]

NextSet(k, s) ==
  /\ session[s].op = "updateSet" /\ session[s].code = k
  /\ set[k] # NoRow /\ set[k].version = session[s].old.version
  /\ set'[k] # NoRow /\ set'[k].version = set[k].version + 1
  /\ set'[k].body = session[s].body
  /\ setHistory'[k] = Append(setHistory[k], session[s].old)

LEMMA SetStepIs ==
  ASSUME TypeOK, [Next]_vars
  PROVE  \/ setRemoved' = setRemoved /\ \A k \in RuleSets : SameSet(k)
         \/ \E k \in RuleSets :
              /\ \A j \in RuleSets \ {k} : SameSet(j)
              /\ \/ /\ setRemoved' = setRemoved
                    /\ \E s \in Sessions : NewSet(k, s) \/ NextSet(k, s)
                 \/ /\ k \notin setRemoved /\ setRemoved' = setRemoved \cup {k}
                    /\ set'[k] = NoRow /\ setHistory'[k] = setHistory[k]
<1> USE DEF SameSet
<1>1. ASSUME UNCHANGED setTables
      PROVE  setRemoved' = setRemoved /\ \A k \in RuleSets : SameSet(k)
  BY <1>1 DEF setTables
<1>2. ASSUME NEW s \in Sessions, CommitCreateSet(s)
      PROVE  \E k \in RuleSets : /\ \A j \in RuleSets \ {k} : SameSet(j)
                                 /\ setRemoved' = setRemoved /\ NewSet(k, s)
  <2> DEFINE k == session[s].code
             body == session[s].body
             row == [version |-> 1, body |-> body]
  <2>1. /\ set[k] = NoRow /\ set' = [set EXCEPT ![k] = row]
        /\ UNCHANGED <<setRemoved, setHistory>>
        /\ session[s].op = "createSet"
    BY <1>2 DEF CommitCreateSet
  <2>2. k \in RuleSets /\ row \in SetRow
    BY <2>1, SessionKind DEF MakingSet, SetRow, Versions
  <2>3. row # NoRow /\ row.version = 1 /\ row.body = body
    BY <2>2, NoRowAssumption
  <2>4. k = session[s].code /\ body = session[s].body
    OBVIOUS
  <2> HIDE DEF k, row, body
  <2>5. set'[k] = row /\ \A j \in RuleSets \ {k} : set'[j] = set[j]
    BY <2>1, <2>2 DEF TypeOK
  <2>6. NewSet(k, s)
    BY <2>1, <2>3, <2>4, <2>5 DEF NewSet
  <2> QED
    BY <2>1, <2>2, <2>5, <2>6
<1>3. ASSUME NEW s \in Sessions, CommitUpdateSet(s)
      PROVE  \E k \in RuleSets : /\ \A j \in RuleSets \ {k} : SameSet(j)
                                 /\ setRemoved' = setRemoved /\ NextSet(k, s)
  <2> DEFINE k == session[s].code
             old == session[s].old
             body == session[s].body
             row == [version |-> old.version + 1, body |-> body]
  <2>1. /\ set[k] # NoRow /\ set[k].version = old.version
        /\ set' = [set EXCEPT ![k] = row]
        /\ setHistory' = [setHistory EXCEPT ![k] = Append(@, old)]
        /\ setRemoved' = setRemoved
        /\ session[s].op = "updateSet"
    BY <1>3 DEF CommitUpdateSet
  <2>2. k \in RuleSets /\ row \in SetRow
    BY <2>1, SetWork DEF SetRow
  <2>3. row # NoRow /\ row.version = old.version + 1 /\ row.body = body
    BY <2>2, NoRowAssumption
  <2>4. k = session[s].code /\ old = session[s].old /\ body = session[s].body
    OBVIOUS
  <2> HIDE DEF row, old, body, k
  <2>5. set'[k] = row /\ \A j \in RuleSets \ {k} : set'[j] = set[j]
    BY <2>1, <2>2 DEF TypeOK
  <2>6. /\ setHistory'[k] = Append(setHistory[k], old)
        /\ \A j \in RuleSets \ {k} : setHistory'[j] = setHistory[j]
    BY <2>1, <2>2 DEF TypeOK
  <2>7. NextSet(k, s)
    BY <2>1, <2>3, <2>4, <2>5, <2>6 DEF NextSet
  <2> QED
    BY <2>1, <2>2, <2>5, <2>6, <2>7
<1>4. ASSUME NEW k \in RuleSets, RemoveSet(k)
      PROVE  /\ k \notin setRemoved /\ setRemoved' = setRemoved \cup {k}
             /\ set'[k] = NoRow /\ setHistory'[k] = setHistory[k]
             /\ \A j \in RuleSets \ {k} : SameSet(j)
  BY <1>4 DEF RemoveSet, TypeOK
<1>5. ASSUME \/ \E s \in Sessions, k \in RuleSets, draft \in SetDrafts :
                   BeginCreateSet(s, k, draft) \/ BeginUpdateSet(s, k, draft)
             \/ \E s \in Sessions : Rollback(s)
             \/ RuleStep \/ BizStep \/ UNCHANGED vars
      PROVE  UNCHANGED setTables
  BY <1>5 DEF BeginCreateSet, BeginUpdateSet, Rollback, RuleStep, BizStep, vars,
              RemoveRule, CreateRule, CommitUpdateRule, EndReadRule, BeginUpdateRule,
              BeginReadRule, CreateBizType, RemoveBizType, CommitAssignRuleSet, BeginAssignRuleSet
<1> HIDE DEF SameSet
<1>6. \/ \E s \in Sessions : CommitCreateSet(s) \/ CommitUpdateSet(s)
      \/ \E k \in RuleSets : RemoveSet(k)
      \/ UNCHANGED setTables
  BY <1>5 DEF Next, SetStep
<1> QED
  BY <1>1, <1>2, <1>3, <1>4, <1>6

\* So does the version of a rule set.
LEMMA SetVersionStays ==
  ASSUME TypeOK, SetInv, [Next]_vars, NEW k \in RuleSets, SetNeverRemoved(k)', NEW v,
         SetVersion(k, v) # NoRow
  PROVE  SetNeverRemoved(k) /\ SetVersion(k, v)' = SetVersion(k, v)
<1>1. SetNeverRemoved(k) /\ (SameSet(k) \/ \E s \in Sessions : NewSet(k, s) \/ NextSet(k, s))
  BY SetStepIs DEF SetNeverRemoved
<1>2. /\ SetVersion(k, v) = VersionIn(set[k], setHistory[k], v)
      /\ SetVersion(k, v)' = VersionIn(set'[k], setHistory'[k], v)
  BY DEF SetVersion, VersionIn
<1>3. CASE SameSet(k)
  BY <1>1, <1>2, <1>3 DEF SameSet
<1>4. CASE \E s \in Sessions : NewSet(k, s)
  BY <1>4 DEF NewSet, SetVersion
<1>5. ASSUME NEW s \in Sessions, NextSet(k, s)
      PROVE  SetVersion(k, v)' = SetVersion(k, v)
  <2>1. /\ set[k] # NoRow /\ set'[k] # NoRow /\ set'[k].version = set[k].version + 1
        /\ set[k].version = session[s].old.version
        /\ setHistory'[k] = Append(setHistory[k], session[s].old)
    BY <1>5 DEF NextSet
  <2>2. session[s].old = set[k]
    BY <1>1, <1>5, <2>1 DEF NextSet, SetInv, SetUpdateOk
  <2>3. /\ set[k] \in SetRow /\ set[k].version \in Versions
        /\ setHistory[k] \in Seq(SetRow) /\ Numbered(set[k], setHistory[k])
    BY <1>1, <2>1 DEF TypeOK, SetRow, SetInv, SetsArchived
  <2>4. VersionIn(set[k], setHistory[k], v) # NoRow
    BY <1>2
  <2>5. VersionIn(set'[k], Append(setHistory[k], set[k]), v)
          = IF v = set[k].version THEN set[k] ELSE VersionIn(set[k], setHistory[k], v)
    BY ONLY <2>1, <2>3, <2>4, VersionInStays
  <2>6. v = set[k].version => VersionIn(set[k], setHistory[k], v) = set[k]
    BY DEF VersionIn
  <2> QED
    BY <1>2, <2>1, <2>2, <2>5, <2>6
<1> QED
  BY <1>1, <1>3, <1>4, <1>5

------------------------------------------------------------------------------
(* References and assignments.                                              *)

\* The rules of a body are there, in the versions it names and of its
\* bizType.
BodyOk(body) ==
  \A ref \in body.refs :
    NeverRemoved(ref.rule) =>
      /\ RuleVersion(ref.rule, ref.version) # NoRow
      /\ RuleVersion(ref.rule, ref.version).biz = body.biz

\* A session holds a body that it will write, and the row it will archive.
SessionBodiesOk(s) ==
  /\ session[s].op \in {"createSet", "updateSet"} => BodyOk(session[s].body)
  /\ session[s].op = "updateSet" => BodyOk(session[s].old.body)

BodiesOk ==
  /\ \A k \in RuleSets : set[k] # NoRow => BodyOk(set[k].body)
  /\ \A k \in RuleSets : \A i \in DOMAIN setHistory[k] : BodyOk(setHistory[k][i].body)
  /\ \A s \in Sessions : SessionBodiesOk(s)

\* A bizType has a version of a set, or is about to get it.
Assignable(b, k, v) ==
  SetNeverRemoved(k) => SetVersion(k, v) # NoRow /\ SetVersion(k, v).body.biz = b

AssignsOk ==
  /\ \A b \in BizTypes : assigned[b] # NoRow =>
       Assignable(b, assigned[b].set, assigned[b].version)
  /\ \A s \in Sessions : session[s].op = "assign" =>
       Assignable(session[s].biz, session[s].set, session[s].version)

\* What a session does to itself.
LEMMA SessionStepIs ==
  ASSUME TypeOK, [Next]_vars, NEW s \in Sessions
  PROVE  \/ session'[s] = session[s]
         \/ session'[s].op \in {"idle", "updateRule", "read"}
         \/ \E k \in RuleSets, draft \in SetDrafts :
              /\ Fits(draft) /\ session'[s].op = "createSet"
              /\ session'[s].body = Body(draft)
         \/ \E k \in RuleSets, draft \in SetDrafts :
              /\ Fits(draft) /\ set[k] # NoRow /\ session'[s].op = "updateSet"
              /\ session'[s].body = Body(draft) /\ session'[s].old = set[k]
         \/ \E b \in BizTypes, k \in RuleSets, v \in AskedVersions :
              /\ SetReadable(k, v) /\ SetVersion(k, v).body.biz = b
              /\ session'[s].op = "assign" /\ session'[s].biz = b
              /\ session'[s].set = k /\ session'[s].version = v
<1> DEFINE Goal ==
  \/ session'[s] = session[s]
  \/ session'[s].op \in {"idle", "updateRule", "read"}
  \/ \E k \in RuleSets, draft \in SetDrafts :
       /\ Fits(draft) /\ session'[s].op = "createSet"
       /\ session'[s].body = Body(draft)
  \/ \E k \in RuleSets, draft \in SetDrafts :
       /\ Fits(draft) /\ set[k] # NoRow /\ session'[s].op = "updateSet"
       /\ session'[s].body = Body(draft) /\ session'[s].old = set[k]
  \/ \E b \in BizTypes, k \in RuleSets, v \in AskedVersions :
       /\ SetReadable(k, v) /\ SetVersion(k, v).body.biz = b
       /\ session'[s].op = "assign" /\ session'[s].biz = b
       /\ session'[s].set = k /\ session'[s].version = v
<1>1. ASSUME session' = session PROVE Goal
  BY <1>1
<1>2. ASSUME NEW r \in Sessions, End(r) PROVE Goal
  <2>1. session'[r].op = "idle" /\ (s # r => session'[s] = session[s])
    BY <1>2, OthersEnd
  <2> QED
    BY <2>1
<1>3. ASSUME NEW r \in Sessions, NEW work, Begin(r, work), work.op \in {"updateRule", "read"}
      PROVE  Goal
  <2>1. session'[r] = work /\ (s # r => session'[s] = session[s])
    BY <1>3, OthersBegin
  <2> QED
    BY <1>3, <2>1
<1>4. ASSUME NEW r \in Sessions, NEW k \in RuleSets, NEW draft \in SetDrafts,
             BeginCreateSet(r, k, draft)
      PROVE  Goal
  <2> DEFINE work == [op |-> "createSet", code |-> k, body |-> Body(draft)]
  <2>1. Fits(draft) /\ Begin(r, work)
    BY <1>4 DEF BeginCreateSet
  <2>2. work.op = "createSet" /\ work.body = Body(draft)
    OBVIOUS
  <2> HIDE DEF work
  <2>3. session'[r] = work /\ (s # r => session'[s] = session[s])
    BY <2>1, OthersBegin
  <2> QED
    BY <2>1, <2>2, <2>3
<1>5. ASSUME NEW r \in Sessions, NEW k \in RuleSets, NEW draft \in SetDrafts,
             BeginUpdateSet(r, k, draft)
      PROVE  Goal
  <2> DEFINE work == [op |-> "updateSet", code |-> k, body |-> Body(draft), old |-> set[k]]
  <2>1. Fits(draft) /\ set[k] # NoRow /\ Begin(r, work)
    BY <1>5 DEF BeginUpdateSet
  <2>2. work.op = "updateSet" /\ work.body = Body(draft) /\ work.old = set[k]
    OBVIOUS
  <2> HIDE DEF work
  <2>3. session'[r] = work /\ (s # r => session'[s] = session[s])
    BY <2>1, OthersBegin
  <2> QED
    BY <2>1, <2>2, <2>3
<1>6. ASSUME NEW r \in Sessions, NEW b \in BizTypes, NEW k \in RuleSets,
             NEW v \in AskedVersions, BeginAssignRuleSet(r, b, k, v)
      PROVE  Goal
  <2> DEFINE work == [op |-> "assign", biz |-> b, set |-> k, version |-> v]
  <2>1. SetReadable(k, v) /\ SetVersion(k, v).body.biz = b /\ Begin(r, work)
    BY <1>6 DEF BeginAssignRuleSet
  <2>2. work.op = "assign" /\ work.biz = b /\ work.set = k /\ work.version = v
    OBVIOUS
  <2> HIDE DEF work
  <2>3. session'[r] = work /\ (s # r => session'[s] = session[s])
    BY <2>1, OthersBegin
  <2> QED
    BY <2>1, <2>2, <2>3
<1> HIDE DEF Goal
<1>7. ASSUME NEW r \in Sessions, NEW c \in Rules,
             \/ \E draft \in RuleDrafts : BeginUpdateRule(r, c, draft)
             \/ \E v \in AskedVersions : BeginReadRule(r, c, v)
      PROVE  Goal
  <2>1. ASSUME NEW draft \in RuleDrafts, BeginUpdateRule(r, c, draft) PROVE Goal
    <3> DEFINE work == [op |-> "updateRule", code |-> c, draft |-> draft,
                        old |-> rule[c], sqls |-> sqls[c]]
    <3>1. Begin(r, work) /\ work.op \in {"updateRule", "read"}
      BY <2>1 DEF BeginUpdateRule
    <3> QED
      BY <3>1, <1>3
  <2>2. ASSUME NEW v \in AskedVersions, BeginReadRule(r, c, v) PROVE Goal
    <3> DEFINE work == [op |-> "read", code |-> c, version |-> v,
                        current |-> v = rule[c].version]
    <3>1. Begin(r, work) /\ work.op \in {"updateRule", "read"}
      BY <2>2 DEF BeginReadRule
    <3> QED
      BY <3>1, <1>3
  <2> QED
    BY <1>7, <2>1, <2>2
<1>8. ASSUME NEW r \in Sessions,
             \/ CommitUpdateRule(r) \/ EndReadRule(r) \/ CommitCreateSet(r)
             \/ CommitUpdateSet(r) \/ CommitAssignRuleSet(r) \/ Rollback(r)
      PROVE  Goal
  <2>1. End(r)
    BY <1>8 DEF CommitUpdateRule, EndReadRule, CommitCreateSet, CommitUpdateSet,
                CommitAssignRuleSet, Rollback
  <2> QED
    BY <2>1, <1>2
<1>9. ASSUME \/ \E c \in Rules : \/ RemoveRule(c)
                                 \/ \E draft \in RuleDrafts : CreateRule(c, draft)
             \/ \E k \in RuleSets : RemoveSet(k)
             \/ \E b \in BizTypes : CreateBizType(b) \/ RemoveBizType(b)
             \/ UNCHANGED vars
      PROVE  Goal
  <2>1. session' = session
    BY <1>9 DEF RemoveRule, CreateRule, RemoveSet, CreateBizType, RemoveBizType, vars
  <2> QED
    BY <2>1, <1>1
<1>10. Goal
  BY <1>4, <1>5, <1>6, <1>7, <1>8, <1>9 DEF Next, RuleStep, SetStep, BizStep
<1> QED
  BY <1>10 DEF Goal

LEMMA BodyStays ==
  ASSUME TypeOK, RuleInv, [Next]_vars, NEW body \in SetBody, BodyOk(body)
  PROVE  BodyOk(body)'
<1> SUFFICES ASSUME NEW ref \in body.refs, NeverRemoved(ref.rule)'
             PROVE  /\ RuleVersion(ref.rule, ref.version)' # NoRow
                    /\ RuleVersion(ref.rule, ref.version)'.biz = body.biz
  BY DEF BodyOk
<1>1. ref.rule \in Rules
  BY DEF SetBody, Ref
<1>2. NeverRemoved(ref.rule)
  BY RuleStepIs DEF NeverRemoved
<1>3. /\ RuleVersion(ref.rule, ref.version) # NoRow
      /\ RuleVersion(ref.rule, ref.version).biz = body.biz
  BY <1>2 DEF BodyOk
<1>4. /\ RuleVersion(ref.rule, ref.version)' # NoRow
      /\ RuleVersion(ref.rule, ref.version)'.biz = RuleVersion(ref.rule, ref.version).biz
  BY <1>1, <1>3, RuleVersionStays
<1> QED
  BY <1>3, <1>4

\* What a caller asks for is looked up before it becomes a body.
LEMMA FitsBodyOk ==
  ASSUME TypeOK, NEW draft \in SetDrafts, Fits(draft)
  PROVE  Body(draft) \in SetBody /\ BodyOk(Body(draft))
<1>1. ASSUME NEW a \in FirstChoices(draft.asked)
      PROVE  /\ RuleVersion(a.rule, Pinned(a).version) = Pinned(a)
             /\ Pinned(a) # NoRow /\ Pinned(a).biz = draft.biz
  <2>1. Pinned(a) # NoRow /\ Pinned(a).biz = draft.biz
    BY DEF Fits
  <2>2. CASE a.version > 0
    <3>1. Pinned(a) = RuleVersion(a.rule, a.version)
      BY <2>2 DEF Pinned
    <3>2. RuleVersion(a.rule, a.version) = VersionIn(rule[a.rule], ruleHistory[a.rule], a.version)
      BY DEF RuleVersion, VersionIn
    <3>3. VersionIn(rule[a.rule], ruleHistory[a.rule], a.version) # NoRow
      BY <2>1, <3>1, <3>2
    <3>4. VersionIn(rule[a.rule], ruleHistory[a.rule], a.version).version = a.version
      BY ONLY <3>3, VersionInHasIt
    <3>5. Pinned(a).version = a.version
      BY <3>1, <3>2, <3>4
    <3> QED
      BY <2>1, <3>1, <3>5
  <2>3. CASE ~ (a.version > 0)
    <3>1. Pinned(a) = rule[a.rule]
      BY <2>3 DEF Pinned
    <3> QED
      BY <2>1, <3>1 DEF RuleVersion
  <2> QED
    BY <2>2, <2>3
<1>2. ASSUME NEW ref \in Body(draft).refs
      PROVE  /\ RuleVersion(ref.rule, ref.version) # NoRow
             /\ RuleVersion(ref.rule, ref.version).biz = Body(draft).biz
  <2>1. PICK a \in FirstChoices(draft.asked) :
          ref = [rule |-> a.rule, version |-> Pinned(a).version]
    BY DEF Body
  <2>2. ref.rule = a.rule /\ ref.version = Pinned(a).version /\ Body(draft).biz = draft.biz
    BY <2>1 DEF Body
  <2> QED
    BY <1>1, <2>2
<1> QED
  BY <1>2, BodyType DEF BodyOk

LEMMA SessionBodyTypes ==
  ASSUME TypeOK, NEW s \in Sessions
  PROVE  /\ session[s].op \in {"createSet", "updateSet"} => session[s].body \in SetBody
         /\ session[s].op = "updateSet" => session[s].old.body \in SetBody
BY SessionKind DEF MakingSet, SavingSet, SetRow

\* A body that is written, archived or held was written, archived or held
\* before, or has just been looked up.
LEMMA BodiesStep ==
  ASSUME CatalogInv, BodiesOk, [Next]_vars
  PROVE  BodiesOk'
<1> USE DEF CatalogInv
<1>1. ASSUME NEW k \in RuleSets, set[k] # NoRow
      PROVE  set[k].body \in SetBody /\ BodyOk(set[k].body)
  BY <1>1 DEF TypeOK, SetRow, BodiesOk
<1>2. ASSUME NEW k \in RuleSets, NEW i \in DOMAIN setHistory[k]
      PROVE  setHistory[k][i].body \in SetBody /\ BodyOk(setHistory[k][i].body)
  <2>1. setHistory[k] \in Seq(SetRow)
    BY DEF TypeOK
  <2>2. setHistory[k][i] \in SetRow
    BY <2>1, SeqElement
  <2> QED
    BY <2>2 DEF SetRow, BodiesOk
<1>3. ASSUME NEW s \in Sessions
      PROVE  /\ session[s].op \in {"createSet", "updateSet"} =>
                  session[s].body \in SetBody /\ BodyOk(session[s].body)
             /\ session[s].op = "updateSet" =>
                  session[s].old.body \in SetBody /\ BodyOk(session[s].old.body)
  BY SessionBodyTypes DEF BodiesOk, SessionBodiesOk
<1>4. ASSUME NEW k \in RuleSets, set'[k] # NoRow
      PROVE  BodyOk(set[k].body)'
  <2>1. \/ SameSet(k)
        \/ \E s \in Sessions : NewSet(k, s) \/ NextSet(k, s)
    BY <1>4, SetStepIs
  <2>2. \E body \in SetBody : body = set'[k].body /\ BodyOk(body)
    BY <1>1, <1>3, <1>4, <2>1 DEF SameSet, NewSet, NextSet
  <2>3. PICK body \in SetBody : body = set'[k].body /\ BodyOk(body)
    BY <2>2
  <2>4. BodyOk(body)'
    BY <2>3, BodyStays
  <2> QED
    BY <2>3, <2>4
<1>5. ASSUME NEW k \in RuleSets, NEW i \in DOMAIN setHistory'[k]
      PROVE  BodyOk(setHistory[k][i].body)'
  <2>1. \/ setHistory'[k] = setHistory[k]
        \/ \E s \in Sessions : NextSet(k, s)
    BY SetStepIs DEF SameSet, NewSet
  <2>2. CASE setHistory'[k] = setHistory[k]
    <3>1. PICK body \in SetBody : body = setHistory'[k][i].body /\ BodyOk(body)
      BY <1>2, <1>5, <2>2
    <3>2. BodyOk(body)'
      BY <3>1, BodyStays
    <3> QED
      BY <3>1, <3>2
  <2>3. ASSUME NEW s \in Sessions, NextSet(k, s)
        PROVE  BodyOk(setHistory[k][i].body)'
    <3>1. /\ setHistory'[k] = Append(setHistory[k], session[s].old)
          /\ session[s].op = "updateSet"
      BY <2>3 DEF NextSet
    <3>2. setHistory[k] \in Seq(SetRow) /\ session[s].old \in SetRow
      BY <3>1, SetWork DEF TypeOK
    <3>3. \/ i \in DOMAIN setHistory[k] /\ setHistory'[k][i] = setHistory[k][i]
          \/ setHistory'[k][i] = session[s].old
      BY <1>5, <3>1, <3>2
    <3>4. PICK body \in SetBody : body = setHistory'[k][i].body /\ BodyOk(body)
      BY <1>2, <1>3, <3>1, <3>3
    <3>5. BodyOk(body)'
      BY <3>4, BodyStays
    <3> QED
      BY <3>4, <3>5
  <2> QED
    BY <2>1, <2>2, <2>3
<1>6. ASSUME NEW s \in Sessions
      PROVE  SessionBodiesOk(s)'
  <2>1. ASSUME session'[s].op \in {"createSet", "updateSet"}
        PROVE  BodyOk(session[s].body)'
    <3>1. PICK body \in SetBody : body = session'[s].body /\ BodyOk(body)
      BY <1>3, <2>1, SessionStepIs, FitsBodyOk
    <3>2. BodyOk(body)'
      BY <3>1, BodyStays
    <3> QED
      BY <3>1, <3>2
  <2>2. ASSUME session'[s].op = "updateSet"
        PROVE  BodyOk(session[s].old.body)'
    <3>1. PICK body \in SetBody : body = session'[s].old.body /\ BodyOk(body)
      BY <1>1, <1>3, <2>2, SessionStepIs
    <3>2. BodyOk(body)'
      BY <3>1, BodyStays
    <3> QED
      BY <3>1, <3>2
  <2> QED
    BY <2>1, <2>2 DEF SessionBodiesOk
<1> QED
  BY <1>4, <1>5, <1>6 DEF BodiesOk

\* The rules of a rule set, current or archived, can be loaded in the versions
\* it names and are of its bizType, whatever is updated at the same time.
THEOREM ReferencesResolve == Spec => []RefsResolve
<1>1. Init => BodiesOk
  BY DEF Init, BodiesOk, SessionBodiesOk, Idle
<1>2. CatalogInv /\ BodiesOk /\ [Next]_vars => BodiesOk'
  BY BodiesStep
<1>3. CatalogInv /\ BodiesOk => RefsResolve
  <2> SUFFICES ASSUME CatalogInv, BodiesOk, NEW k \in RuleSets,
                      NEW row \in Range(setHistory[k]) \cup ({set[k]} \ {NoRow})
               PROVE  BodyOk(row.body)
    BY DEF RefsResolve, BodyOk
  <2>1. CASE row \in Range(setHistory[k])
    BY <2>1 DEF Range, BodiesOk
  <2>2. CASE row \in {set[k]} \ {NoRow}
    BY <2>2 DEF BodiesOk
  <2> QED
    BY <2>1, <2>2
<1> QED
  BY <1>1, <1>2, <1>3, CatalogInvariant, PTL DEF Spec

\* What becomes of the rule set of a bizType.
LEMMA AssignedStepIs ==
  ASSUME TypeOK, [Next]_vars, NEW b \in BizTypes
  PROVE  \/ assigned'[b] = assigned[b]
         \/ assigned'[b] = NoRow
         \/ \E s \in Sessions :
              /\ session[s].op = "assign" /\ session[s].biz = b
              /\ assigned'[b] = [set |-> session[s].set, version |-> session[s].version]
<1> DEFINE Goal ==
  \/ assigned'[b] = assigned[b]
  \/ assigned'[b] = NoRow
  \/ \E s \in Sessions :
       /\ session[s].op = "assign" /\ session[s].biz = b
       /\ assigned'[b] = [set |-> session[s].set, version |-> session[s].version]
<1>1. ASSUME assigned' = assigned PROVE Goal
  BY <1>1
<1>2. ASSUME NEW a \in BizTypes, assigned' = [assigned EXCEPT ![a] = NoRow] PROVE Goal
  <2>1. assigned'[b] = assigned[b] \/ assigned'[b] = NoRow
    BY <1>2 DEF TypeOK
  <2> QED
    BY <2>1
<1>3. ASSUME NEW s \in Sessions, CommitAssignRuleSet(s) PROVE Goal
  <2> DEFINE a == session[s].biz
             given == [set |-> session[s].set, version |-> session[s].version]
  <2>1. /\ session[s].op = "assign"
        /\ assigned' = [assigned EXCEPT ![a] = IF a \in bizTypes THEN given ELSE @]
    BY <1>3 DEF CommitAssignRuleSet
  <2>2. a = session[s].biz /\ given = [set |-> session[s].set, version |-> session[s].version]
    OBVIOUS
  <2> HIDE DEF a, given
  <2>3. \/ assigned'[b] = assigned[b]
        \/ a = b /\ assigned'[b] = given
    BY <2>1 DEF TypeOK
  <2> QED
    BY <2>1, <2>2, <2>3
<1> HIDE DEF Goal
<1>4. ASSUME NEW a \in BizTypes, CreateBizType(a) \/ RemoveBizType(a) PROVE Goal
  BY <1>2, <1>4 DEF CreateBizType, RemoveBizType
<1>5. ASSUME \/ RuleStep \/ SetStep \/ UNCHANGED vars
             \/ \E s \in Sessions :
                  \/ Rollback(s)
                  \/ \E a \in BizTypes, k \in RuleSets, v \in AskedVersions :
                       BeginAssignRuleSet(s, a, k, v)
      PROVE  Goal
  <2>1. assigned' = assigned
    BY <1>5 DEF RuleStep, SetStep, Rollback, BeginAssignRuleSet, vars, bizTables,
                RemoveRule, CreateRule, CommitUpdateRule, EndReadRule, BeginUpdateRule,
                BeginReadRule, RemoveSet, CommitCreateSet, CommitUpdateSet,
                BeginCreateSet, BeginUpdateSet
  <2> QED
    BY <2>1, <1>1
<1>6. Goal
  BY <1>3, <1>4, <1>5 DEF Next, BizStep
<1> QED
  BY <1>6 DEF Goal

\* A version that may be assigned stays so, and a step assigns no other.
LEMMA AssignsStep ==
  ASSUME CatalogInv, AssignsOk, [Next]_vars
  PROVE  AssignsOk'
<1> USE DEF CatalogInv
<1>1. ASSUME NEW b \in BizTypes, NEW k \in RuleSets, NEW v, Assignable(b, k, v)
      PROVE  Assignable(b, k, v)'
  <2> SUFFICES ASSUME SetNeverRemoved(k)'
               PROVE  SetVersion(k, v)' # NoRow /\ SetVersion(k, v)'.body.biz = b
    BY DEF Assignable
  <2>1. SetNeverRemoved(k)
    BY SetStepIs DEF SetNeverRemoved
  <2>2. SetVersion(k, v) # NoRow /\ SetVersion(k, v).body.biz = b
    BY <1>1, <2>1 DEF Assignable
  <2>3. SetVersion(k, v)' = SetVersion(k, v)
    BY <2>2, SetVersionStays
  <2> QED
    BY <2>2, <2>3
<1>2. ASSUME NEW s \in Sessions, session[s].op = "assign"
      PROVE  /\ session[s].biz \in BizTypes /\ session[s].set \in RuleSets
             /\ session[s].version \in Versions
             /\ Assignable(session[s].biz, session[s].set, session[s].version)
  BY <1>2, SessionKind DEF AssignsOk, Assigning
<1>3. ASSUME NEW b \in BizTypes, assigned'[b] # NoRow
      PROVE  Assignable(b, assigned[b].set, assigned[b].version)'
  <2>1. PICK k \in RuleSets, v \in Versions : /\ assigned'[b].set = k /\ assigned'[b].version = v
                                 /\ Assignable(b, k, v)
    <3>1. CASE assigned'[b] = assigned[b]
      <4>1. assigned[b] \in Assigned
        BY <1>3, <3>1 DEF TypeOK
      <4>2. assigned[b].set \in RuleSets /\ assigned[b].version \in Versions
        BY <4>1 DEF Assigned
      <4> QED
        BY <1>3, <3>1, <4>2 DEF AssignsOk
    <3>2. ASSUME NEW s \in Sessions, session[s].op = "assign", session[s].biz = b,
                 assigned'[b] = [set |-> session[s].set, version |-> session[s].version]
          PROVE  \E k \in RuleSets, v \in Versions : /\ assigned'[b].set = k /\ assigned'[b].version = v
                                        /\ Assignable(b, k, v)
      <4>1. assigned'[b].set = session[s].set /\ assigned'[b].version = session[s].version
        BY <3>2
      <4> QED
        BY <1>2, <3>2, <4>1
    <3> QED
      BY <1>3, <3>1, <3>2, AssignedStepIs
  <2>2. Assignable(b, k, v)'
    BY <1>1, <2>1
  <2> QED
    BY <2>1, <2>2
<1>4. ASSUME NEW s \in Sessions, session'[s].op = "assign"
      PROVE  Assignable(session[s].biz, session[s].set, session[s].version)'
  <2>1. PICK b \in BizTypes, k \in RuleSets, v \in Versions :
          /\ session'[s].biz = b /\ session'[s].set = k /\ session'[s].version = v
          /\ Assignable(b, k, v)
    <3>1. CASE session'[s] = session[s]
      BY <1>2, <1>4, <3>1
    <3>2. ASSUME NEW b \in BizTypes, NEW k \in RuleSets, NEW v \in Versions,
                 SetReadable(k, v), SetVersion(k, v).body.biz = b,
                 session'[s].biz = b, session'[s].set = k, session'[s].version = v
          PROVE  \E a \in BizTypes, j \in RuleSets, w \in Versions :
                   /\ session'[s].biz = a /\ session'[s].set = j /\ session'[s].version = w
                   /\ Assignable(a, j, w)
      <4>1. Assignable(b, k, v)
        BY <3>2 DEF SetReadable, Assignable
      <4> QED
        BY <3>2, <4>1
    <3>3. AskedVersions \subseteq Versions
      BY CatalogAssumption DEF AskedVersions, Versions
    <3>4. \/ session'[s] = session[s]
          \/ \E b \in BizTypes, k \in RuleSets, v \in Versions :
               /\ SetReadable(k, v) /\ SetVersion(k, v).body.biz = b
               /\ session'[s].biz = b /\ session'[s].set = k /\ session'[s].version = v
      BY <1>4, <3>3, SessionStepIs
    <3> QED
      BY <3>1, <3>2, <3>4
  <2>2. Assignable(b, k, v)'
    BY <1>1, <2>1
  <2> QED
    BY <2>1, <2>2
<1> QED
  BY <1>3, <1>4 DEF AssignsOk

\* A bizType's rule set is of that bizType, although the check and the
\* assignment are two steps and the set may be updated between or after them.
THEOREM AssignmentsFit == Spec => []AssignedFits
<1>1. Init => AssignsOk
  BY DEF Init, AssignsOk, Idle
<1>2. CatalogInv /\ AssignsOk /\ [Next]_vars => AssignsOk'
  BY AssignsStep
<1>3. AssignsOk => AssignedFits
  BY DEF AssignsOk, AssignedFits, Assignable
<1> QED
  BY <1>1, <1>2, <1>3, CatalogInvariant, PTL DEF Spec
==============================================================================
