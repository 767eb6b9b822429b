----------------------------- MODULE RuleCatalog -----------------------------
(***************************************************************************)
(* RuleServiceImpl and BizTypeServiceImpl over their tables: rules, rule    *)
(* sets and bizTypes, created, updated, removed and read by sessions that   *)
(* run at the same time.                                                    *)
(*                                                                          *)
(* An update runs in a transaction with two steps here: it reads (at the    *)
(* default isolation of InnoDB all reads see one snapshot), then it writes  *)
(* and commits; the row lock taken by "update ... where code = and version  *)
(* =" orders the commits.  A create or a remove takes nothing from what it  *)
(* read to what it writes, so it is one step.  A plain read runs in no      *)
(* transaction, and each of its selects sees the tables of its own moment.  *)
(* Of a rule version only its bizType, its design and its extract SQLs are  *)
(* modelled, of a set version its bizType and which versions of which rules *)
(* it has.                                                                  *)
(* Tables are functions of the code; the history tables are sequences in    *)
(* the order of their ids.  No cache stands before the services, as in the  *)
(* web application's profiles that load them; the configuration of          *)
(* ruleengine-core alone has caches.                                        *)
(***************************************************************************)
EXTENDS Naturals, Sequences, SequencesExt

CONSTANTS
  Sessions,    \* callers of the services
  Rules,       \* rule codes
  RuleSets,    \* rule set codes
  BizTypes,    \* bizType codes
  Sqls,        \* extract SQLs a rule may have
  Designs,     \* designs a rule may have; no rule is made without one
  RuleDrafts,  \* what callers ask a rule to be: [biz, design, sqls]
  SetDrafts,   \* what they ask a rule set to be: [biz, asked]
  NoRow,       \* no enabled row of this code
  NoDesign,    \* null in column designValue
  MaxWrites    \* bound: transactions that commit

RuleDraft == [biz : BizTypes, design : Designs, sqls : SUBSET Sqls]
\* A caller names a rule with a version, or with 0 for the current one.
SetDraft == [biz : BizTypes, asked : Seq([rule : Rules, version : Nat])]

ASSUME CatalogAssumption ==
  /\ RuleDrafts \subseteq RuleDraft
  /\ SetDrafts \subseteq SetDraft
  /\ MaxWrites \in Nat

Versions == Nat \ {0}
RuleRow == [version : Versions, biz : BizTypes, design : Designs \cup {NoDesign}]
SqlRow == [version : Versions, text : Sqls]
Ref == [rule : Rules, version : Versions]
SetBody == [biz : BizTypes, refs : SUBSET Ref]
SetRow == [version : Versions, body : SetBody]
Assigned == [set : RuleSets, version : Versions]

ASSUME NoRowAssumption ==
  /\ NoRow \notin RuleRow
  /\ NoRow \notin SetRow
  /\ NoRow \notin Assigned

VARIABLES
  rule,           \* re_rule, the enabled rows
  ruleRemoved,    \* re_rule, codes that have a row named _removed_...
  sqls,           \* re_extractsql
  ruleHistory,    \* re_rule_history
  sqlHistory,     \* re_extractsql_history
  set, setRemoved, setHistory,  \* re_ruleset and re_ruleset_history
  bizTypes, bizRemoved,         \* re_biztype
  assigned,       \* the rule set of each bizType, NoRow when none
  session,        \* what each session has read
  writes          \* commits so far

ruleTables == <<rule, ruleRemoved, sqls, ruleHistory, sqlHistory>>
setTables == <<set, setRemoved, setHistory>>
bizTables == <<bizTypes, bizRemoved, assigned>>
vars == <<ruleTables, setTables, bizTables, session, writes>>

Idle == [op |-> "idle"]
Updating == [op : {"updateRule"}, code : Rules, draft : RuleDraft,
             old : RuleRow, sqls : SUBSET SqlRow]
SavingSet == [op : {"updateSet"}, code : RuleSets, body : SetBody, old : SetRow]
MakingSet == [op : {"createSet"}, code : RuleSets, body : SetBody]
Assigning == [op : {"assign"}, biz : BizTypes, set : RuleSets, version : Versions]
Reading == [op : {"read"}, code : Rules, version : Versions, current : BOOLEAN]

TypeOK ==
  /\ rule \in [Rules -> RuleRow \cup {NoRow}]
  /\ ruleRemoved \subseteq Rules
  /\ sqls \in [Rules -> SUBSET SqlRow]
  /\ ruleHistory \in [Rules -> Seq(RuleRow)]
  /\ sqlHistory \in [Rules -> SUBSET SqlRow]
  /\ set \in [RuleSets -> SetRow \cup {NoRow}]
  /\ setRemoved \subseteq RuleSets
  /\ setHistory \in [RuleSets -> Seq(SetRow)]
  /\ bizTypes \subseteq BizTypes
  /\ bizRemoved \subseteq BizTypes
  /\ assigned \in [BizTypes -> Assigned \cup {NoRow}]
  /\ session \in [Sessions -> {Idle} \cup Updating \cup SavingSet \cup MakingSet
                                \cup Assigning \cup Reading]
  /\ writes \in 0..MaxWrites

Init ==
  /\ rule = [c \in Rules |-> NoRow]
  /\ ruleRemoved = {}
  /\ sqls = [c \in Rules |-> {}]
  /\ ruleHistory = [c \in Rules |-> <<>>]
  /\ sqlHistory = [c \in Rules |-> {}]
  /\ set = [k \in RuleSets |-> NoRow]
  /\ setRemoved = {}
  /\ setHistory = [k \in RuleSets |-> <<>>]
  /\ bizTypes = BizTypes
  /\ bizRemoved = {}
  /\ assigned = [b \in BizTypes |-> NoRow]
  /\ session = [s \in Sessions |-> Idle]
  /\ writes = 0

\* A transaction of session s commits.
Commits ==
  /\ writes < MaxWrites
  /\ writes' = writes + 1

Begin(s, work) ==
  /\ session[s] = Idle
  /\ session' = [session EXCEPT ![s] = work]

End(s) == session' = [session EXCEPT ![s] = Idle]

------------------------------------------------------------------------------
(* Rules.                                                                   *)

RowOf(draft, version) == [version |-> version, biz |-> draft.biz, design |-> draft.design]
SqlRows(texts, version) == {[version |-> version, text |-> x] : x \in texts}

CreateRule(c, draft) ==
  /\ Commits
  /\ rule[c] = NoRow
  /\ draft.biz \in bizTypes
  /\ rule' = [rule EXCEPT ![c] = RowOf(draft, 1)]
  /\ sqls' = [sqls EXCEPT ![c] = SqlRows(draft.sqls, 1)]
  /\ UNCHANGED <<ruleRemoved, ruleHistory, sqlHistory, setTables, bizTables, session>>

BeginUpdateRule(s, c, draft) ==
  /\ draft.biz \in bizTypes
  /\ rule[c] # NoRow
  /\ Begin(s, [op |-> "updateRule", code |-> c, draft |-> draft,
               old |-> rule[c], sqls |-> sqls[c]])
  /\ UNCHANGED <<ruleTables, setTables, bizTables, writes>>

\* The row that goes to the history is put together from what getRule answers.
\* It has made an object of column designValue and cleared it; updateRule fills
\* the other such columns again, and not this one.
Archived(old) == [old EXCEPT !.design = NoDesign]

\* A slip: "where code =", without the version.
UpdateRuleUnchecked(s) ==
  /\ session[s].op = "updateRule"
  /\ Commits
  /\ LET c == session[s].code  draft == session[s].draft  old == session[s].old IN
     /\ rule[c] # NoRow
     /\ rule' = [rule EXCEPT ![c] = RowOf(draft, @.version + 1)]
     /\ sqls' = [sqls EXCEPT ![c] = SqlRows(draft.sqls, old.version + 1)]
     /\ ruleHistory' = [ruleHistory EXCEPT ![c] = Append(@, Archived(old))]
     /\ sqlHistory' = [sqlHistory EXCEPT ![c] = @ \cup session[s].sqls]
  /\ End(s)
  /\ UNCHANGED <<ruleRemoved, setTables, bizTables>>

\* A slip: only the rule's own row is archived.
UpdateRuleSqlsDropped(s) ==
  /\ session[s].op = "updateRule"
  /\ Commits
  /\ LET c == session[s].code  draft == session[s].draft  old == session[s].old IN
     /\ rule[c] # NoRow /\ rule[c].version = old.version
     /\ rule' = [rule EXCEPT ![c] = RowOf(draft, old.version + 1)]
     /\ sqls' = [sqls EXCEPT ![c] = SqlRows(draft.sqls, old.version + 1)]
     /\ ruleHistory' = [ruleHistory EXCEPT ![c] = Append(@, Archived(old))]
  /\ End(s)
  /\ UNCHANGED <<ruleRemoved, sqlHistory, setTables, bizTables>>

\* A slip: the extract SQLs keep the version the caller sent with the rule,
\* which was set to the old one.
UpdateRuleOldSqls(s) ==
  /\ session[s].op = "updateRule"
  /\ Commits
  /\ LET c == session[s].code  draft == session[s].draft  old == session[s].old IN
     /\ rule[c] # NoRow /\ rule[c].version = old.version
     /\ rule' = [rule EXCEPT ![c] = RowOf(draft, old.version + 1)]
     /\ sqls' = [sqls EXCEPT ![c] = SqlRows(draft.sqls, old.version)]
     /\ ruleHistory' = [ruleHistory EXCEPT ![c] = Append(@, Archived(old))]
     /\ sqlHistory' = [sqlHistory EXCEPT ![c] = @ \cup session[s].sqls]
  /\ End(s)
  /\ UNCHANGED <<ruleRemoved, setTables, bizTables>>

\* The old row and its SQLs go to the histories, and the row gets the draft
\* and the next version, if it still has the version that was read; if not,
\* StaleObjectStateException rolls back.
CommitUpdateRule(s) ==
  /\ session[s].op = "updateRule"
  /\ Commits
  /\ LET c == session[s].code  draft == session[s].draft  old == session[s].old IN
     /\ rule[c] # NoRow /\ rule[c].version = old.version
     /\ rule' = [rule EXCEPT ![c] = RowOf(draft, old.version + 1)]
     /\ sqls' = [sqls EXCEPT ![c] = SqlRows(draft.sqls, old.version + 1)]
     /\ ruleHistory' = [ruleHistory EXCEPT ![c] = Append(@, Archived(old))]
     /\ sqlHistory' = [sqlHistory EXCEPT ![c] = @ \cup session[s].sqls]
  /\ End(s)
  /\ UNCHANGED <<ruleRemoved, setTables, bizTables>>

\* The row is renamed: a second row _removed_... of one code violates the
\* primary key. The histories stay.
RemoveRule(c) ==
  /\ Commits
  /\ rule[c] # NoRow
  /\ c \notin ruleRemoved
  /\ rule' = [rule EXCEPT ![c] = NoRow]
  /\ ruleRemoved' = ruleRemoved \cup {c}
  /\ sqls' = [sqls EXCEPT ![c] = {}]
  /\ UNCHANGED <<ruleHistory, sqlHistory, setTables, bizTables, session>>

\* The rows of a history that have a version.
RowsOf(history, version) == {i \in DOMAIN history : history[i].version = version}
OnlyRowOf(history, version) ==
  LET found == RowsOf(history, version)
  IN IF \E i \in found : found = {i} THEN history[CHOOSE i \in found : TRUE] ELSE NoRow

\* What getRule(code, version) finds: the enabled row if it has the version,
\* else the row of the history; none, or a failing select if there are several.
RuleVersion(c, version) ==
  IF rule[c] # NoRow /\ rule[c].version # version
    THEN OnlyRowOf(ruleHistory[c], version)
    ELSE rule[c]

\* getRule(code, version) has its row and is about to select the extract SQLs.
BeginReadRule(s, c, version) ==
  /\ RuleVersion(c, version) # NoRow
  /\ Begin(s, [op |-> "read", code |-> c, version |-> version,
               current |-> version = rule[c].version])
  /\ UNCHANGED <<ruleTables, setTables, bizTables, writes>>

EndReadRule(s) ==
  /\ session[s].op = "read"
  /\ End(s)
  /\ UNCHANGED <<ruleTables, setTables, bizTables, writes>>

------------------------------------------------------------------------------
(* Rule sets.                                                               *)

\* Of several choices of one rule the first counts.
FirstChoices(asked) ==
  {asked[i] : i \in {j \in DOMAIN asked : \A h \in 1..(j - 1) : asked[h].rule # asked[j].rule}}

\* The version a caller's choice of a rule comes to.
Pinned(a) == IF a.version > 0 THEN RuleVersion(a.rule, a.version) ELSE rule[a.rule]

\* Every rule is there, in this version, and is of the bizType.
Fits(draft) ==
  /\ draft.biz \in bizTypes
  /\ \A a \in FirstChoices(draft.asked) : Pinned(a) # NoRow /\ Pinned(a).biz = draft.biz

\* A slip: a rule named without a version stays so.
BodyAsAsked(draft) == [biz |-> draft.biz, refs |-> FirstChoices(draft.asked)]

Body(draft) ==
  [biz |-> draft.biz,
   refs |-> {[rule |-> a.rule, version |-> Pinned(a).version] : a \in FirstChoices(draft.asked)}]

BeginCreateSet(s, k, draft) ==
  /\ set[k] = NoRow
  /\ draft.asked # <<>>
  /\ Fits(draft)
  /\ Begin(s, [op |-> "createSet", code |-> k, body |-> Body(draft)])
  /\ UNCHANGED <<ruleTables, setTables, bizTables, writes>>

CommitCreateSet(s) ==
  /\ session[s].op = "createSet"
  /\ Commits
  /\ LET k == session[s].code IN
     /\ set[k] = NoRow
     /\ set' = [set EXCEPT ![k] = [version |-> 1, body |-> session[s].body]]
  /\ End(s)
  /\ UNCHANGED <<ruleTables, setRemoved, setHistory, bizTables>>

\* A slip: the bizType of the rules is not compared.
BeginUpdateSetUnfit(s, k, draft) ==
  /\ set[k] # NoRow
  /\ draft.biz \in bizTypes
  /\ \A a \in FirstChoices(draft.asked) : Pinned(a) # NoRow
  /\ Begin(s, [op |-> "updateSet", code |-> k, body |-> Body(draft), old |-> set[k]])
  /\ UNCHANGED <<ruleTables, setTables, bizTables, writes>>

\* The test for an empty list of rules never holds, so none may be asked for.
BeginUpdateSet(s, k, draft) ==
  /\ set[k] # NoRow
  /\ Fits(draft)
  /\ Begin(s, [op |-> "updateSet", code |-> k, body |-> Body(draft), old |-> set[k]])
  /\ UNCHANGED <<ruleTables, setTables, bizTables, writes>>

\* A slip: the set as it will be goes to the history.
CommitUpdateSetLate(s) ==
  /\ session[s].op = "updateSet"
  /\ Commits
  /\ LET k == session[s].code  old == session[s].old IN
     /\ set[k] # NoRow /\ set[k].version = old.version
     /\ set' = [set EXCEPT ![k] = [version |-> old.version + 1, body |-> session[s].body]]
     /\ setHistory' = [setHistory EXCEPT
                         ![k] = Append(@, [old EXCEPT !.body = session[s].body])]
  /\ End(s)
  /\ UNCHANGED <<ruleTables, setRemoved, bizTables>>

CommitUpdateSet(s) ==
  /\ session[s].op = "updateSet"
  /\ Commits
  /\ LET k == session[s].code  old == session[s].old IN
     /\ set[k] # NoRow /\ set[k].version = old.version
     /\ set' = [set EXCEPT ![k] = [version |-> old.version + 1, body |-> session[s].body]]
     /\ setHistory' = [setHistory EXCEPT ![k] = Append(@, old)]
  /\ End(s)
  /\ UNCHANGED <<ruleTables, setRemoved, bizTables>>

RemoveSet(k) ==
  /\ Commits
  /\ set[k] # NoRow
  /\ k \notin setRemoved
  /\ set' = [set EXCEPT ![k] = NoRow]
  /\ setRemoved' = setRemoved \cup {k}
  /\ UNCHANGED <<ruleTables, setHistory, bizTables, session>>

\* loadRules: getRule throws when a rule of the set is not there.
Loadable(row) == \A ref \in row.body.refs : RuleVersion(ref.rule, ref.version) # NoRow

\* What getRuleSet(code, version) finds; it loads the enabled row's rules first.
SetVersion(k, version) ==
  IF set[k] # NoRow /\ set[k].version # version
    THEN OnlyRowOf(setHistory[k], version)
    ELSE set[k]
SetReadable(k, version) ==
  /\ SetVersion(k, version) # NoRow
  /\ Loadable(set[k])
  /\ Loadable(SetVersion(k, version))

------------------------------------------------------------------------------
(* BizTypes.                                                                *)

\* bizTypeExisted, then the insert: no rule set is assigned yet.
CreateBizType(b) ==
  /\ Commits
  /\ b \notin bizTypes
  /\ bizTypes' = bizTypes \cup {b}
  /\ assigned' = [assigned EXCEPT ![b] = NoRow]
  /\ UNCHANGED <<bizRemoved, ruleTables, setTables, session>>

RemoveBizType(b) ==
  /\ Commits
  /\ b \in bizTypes
  /\ b \notin bizRemoved
  /\ bizTypes' = bizTypes \ {b}
  /\ bizRemoved' = bizRemoved \cup {b}
  /\ assigned' = [assigned EXCEPT ![b] = NoRow]
  /\ UNCHANGED <<ruleTables, setTables, session>>

\* A slip: any version of any rule set will do.
BeginAssignAny(s, b, k, version) ==
  /\ b \in bizTypes
  /\ SetReadable(k, version)
  /\ Begin(s, [op |-> "assign", biz |-> b, set |-> k, version |-> version])
  /\ UNCHANGED <<ruleTables, setTables, bizTables, writes>>

BeginAssignRuleSet(s, b, k, version) ==
  /\ b \in bizTypes
  /\ SetReadable(k, version)
  /\ SetVersion(k, version).body.biz = b
  /\ Begin(s, [op |-> "assign", biz |-> b, set |-> k, version |-> version])
  /\ UNCHANGED <<ruleTables, setTables, bizTables, writes>>

\* The update finds the bizType or, if it was removed meanwhile, no row.
CommitAssignRuleSet(s) ==
  /\ session[s].op = "assign"
  /\ Commits
  /\ LET work == session[s] IN
     assigned' = [assigned EXCEPT
                    ![work.biz] = IF work.biz \in bizTypes
                                    THEN [set |-> work.set, version |-> work.version]
                                    ELSE @]
  /\ End(s)
  /\ UNCHANGED <<bizTypes, bizRemoved, ruleTables, setTables>>

\* A transaction fails, because of what it finds or of the database.
Rollback(s) ==
  /\ session[s].op \notin {"idle", "read"}
  /\ End(s)
  /\ UNCHANGED <<ruleTables, setTables, bizTables, writes>>

------------------------------------------------------------------------------
AskedVersions == 1..(MaxWrites + 1)

RuleStep ==
  \/ \E c \in Rules : \/ RemoveRule(c)
                      \/ \E draft \in RuleDrafts : CreateRule(c, draft)
  \/ \E s \in Sessions :
       \/ CommitUpdateRule(s)
       \/ EndReadRule(s)
       \/ \E c \in Rules :
            \/ \E draft \in RuleDrafts : BeginUpdateRule(s, c, draft)
            \/ \E version \in AskedVersions : BeginReadRule(s, c, version)

SetStep ==
  \/ \E k \in RuleSets : RemoveSet(k)
  \/ \E s \in Sessions :
       \/ CommitCreateSet(s)
       \/ CommitUpdateSet(s)
       \/ \E k \in RuleSets, draft \in SetDrafts :
            BeginCreateSet(s, k, draft) \/ BeginUpdateSet(s, k, draft)

BizStep ==
  \/ \E b \in BizTypes : CreateBizType(b) \/ RemoveBizType(b)
  \/ \E s \in Sessions :
       \/ CommitAssignRuleSet(s)
       \/ \E b \in BizTypes, k \in RuleSets, version \in AskedVersions :
            BeginAssignRuleSet(s, b, k, version)

Next ==
  \/ RuleStep
  \/ SetStep
  \/ BizStep
  \/ \E s \in Sessions : Rollback(s)

Spec == Init /\ [][Next]_vars

------------------------------------------------------------------------------
(* Properties.                                                              *)

NeverRemoved(c) == c \notin ruleRemoved
SetNeverRemoved(k) == k \notin setRemoved

\* Whatever updates run at the same time, the history of a rule or a rule set
\* that was never removed has each version before the current one once: no
\* update is lost between the read and the write, and none is archived twice.
ArchiveComplete ==
  /\ \A c \in Rules : NeverRemoved(c) =>
       /\ Len(ruleHistory[c]) = (IF rule[c] = NoRow THEN 0 ELSE rule[c].version - 1)
       /\ \A i \in DOMAIN ruleHistory[c] : ruleHistory[c][i].version = i
  /\ \A k \in RuleSets : SetNeverRemoved(k) =>
       /\ Len(setHistory[k]) = (IF set[k] = NoRow THEN 0 ELSE set[k].version - 1)
       /\ \A i \in DOMAIN setHistory[k] : setHistory[k][i].version = i

\* The extract SQLs in re_extractsql are those of the enabled row, in two
\* tables that each update writes one after the other.
SqlsFollow ==
  \A c \in Rules : \A e \in sqls[c] : rule[c] # NoRow /\ e.version = rule[c].version

\* A rule set, current or archived, goes on naming one version of each rule
\* that was never removed, of the set's own bizType, whatever has become of
\* the rule since, also between the set's check and its commit.
RefsResolve ==
  \A k \in RuleSets :
    \A row \in Range(setHistory[k]) \cup ({set[k]} \ {NoRow}) :
      \A ref \in row.body.refs :
        NeverRemoved(ref.rule) =>
          /\ RuleVersion(ref.rule, ref.version) # NoRow
          /\ RuleVersion(ref.rule, ref.version).biz = row.body.biz

\* A bizType's rule set is of that bizType, even if the set is given to another
\* one before, while or after it is assigned: the version that was assigned
\* stays what it was.
AssignedFits ==
  \A b \in BizTypes :
    assigned[b] # NoRow /\ SetNeverRemoved(assigned[b].set) =>
      LET row == SetVersion(assigned[b].set, assigned[b].version)
      IN row # NoRow /\ row.body.biz = b

\* "根据code和版本号获取规则信息" (RuleService.getRule): the SQLs a read gets are
\* those of the version it asked for. The second select of a plain read may
\* see the next version's.
ReadsOneVersion ==
  \A s \in Sessions :
    session[s].op = "read" /\ session[s].current =>
      \A e \in sqls[session[s].code] : e.version = session[s].version

\* What the versions of a rule say, as getRule(code, version) gathers it from
\* the two pairs of tables; a set, since the history may answer with several.
RuleText == [biz : BizTypes, design : Designs \cup {NoDesign}, sqls : SUBSET Sqls]
RuleTextOf(row, texts) == [biz |-> row.biz, design |-> row.design, sqls |-> texts]
Texts(rows, version) == {e.text : e \in {x \in rows : x.version = version}}
RuleAnswers(c, version) ==
  IF rule[c].version = version
    THEN {RuleTextOf(rule[c], {e.text : e \in sqls[c]})}
    ELSE {RuleTextOf(ruleHistory[c][i], Texts(sqlHistory[c], version)) :
            i \in RowsOf(ruleHistory[c], version)}

SetAnswers(k, version) ==
  IF set[k].version = version
    THEN {set[k].body}
    ELSE {setHistory[k][i].body : i \in RowsOf(setHistory[k], version)}

\* The rule tables implement a log in which versions are only added. The version
\* that an update replaces loses its design, and nothing else, on its way to the
\* history; from then on it never changes.
RuleLog == INSTANCE VersionLog WITH
  Codes <- Rules,
  Contents <- SUBSET RuleText,
  Kept <- [answers \in SUBSET RuleText |-> {Archived(a) : a \in answers}],
  gone <- ruleRemoved,
  log <- [c \in Rules |->
            IF rule[c] = NoRow \/ ~NeverRemoved(c) THEN <<>>
            ELSE [version \in 1..rule[c].version |-> RuleAnswers(c, version)]]
ImplementsRuleLog == RuleLog!LogSpec

\* The rule set tables implement one whose versions never change at all.
SetLog == INSTANCE VersionLog WITH
  Codes <- RuleSets,
  Contents <- SUBSET SetBody,
  Kept <- [answers \in SUBSET SetBody |-> answers],
  gone <- setRemoved,
  log <- [k \in RuleSets |->
            IF set[k] = NoRow \/ ~SetNeverRemoved(k) THEN <<>>
            ELSE [version \in 1..set[k].version |-> SetAnswers(k, version)]]
ImplementsSetLog == SetLog!LogSpec
==============================================================================
