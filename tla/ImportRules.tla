----------------------------- MODULE ImportRules -----------------------------
(***************************************************************************)
(* What an administrator leaves out of a previewed file or corrects in it, *)
(* and what is billed in the end.  The screen (App.vue, importPreviewTools)*)
(* keeps its own account of which lines are out and shows the totals of    *)
(* the rest; what it sends are rules, and the server (rules.go) applies    *)
(* them to the preview it has stored.                                      *)
(*                                                                         *)
(* Rows are picked one by one or as a selection or as what a filter shows: *)
(* any set of rows.                                                        *)
(***************************************************************************)
EXTENDS Integers, FiniteSets, Functions

CONSTANTS
    Preview,        \* details: id, sheet, batch, original, cn, category, quantity, amount;
                    \* amounts in cents; no sheet and no batch has an empty id
    Categories      \* categories an administrator may write

Columns == {"id", "sheet", "batch", "original", "cn", "category", "quantity", "amount"}

ASSUME RuleConstants ==
    /\ IsFiniteSet(Preview)
    /\ \A d \in Preview :
        /\ DOMAIN d = Columns /\ d.quantity \in Int /\ d.amount \in Int
        /\ d.sheet # "" /\ d.batch # ""
    /\ \A d, e \in Preview : d.id = e.id => d = e
    /\ \A d, e \in Preview : d.original = e.original => d.cn = e.cn
    /\ \A d, e \in Preview : d.batch = e.batch => d.sheet = e.sheet

VARIABLES
    includedSheetIds, excludedCNRules, excludedDetailIds, categoryOverrides

ruleVars == <<includedSheetIds, excludedCNRules, excludedDetailIds, categoryOverrides>>

(* resetPreviewAdjustments: every preview starts from here.                *)
RulesInit ==
    /\ includedSheetIds = {d.sheet : d \in Preview}
    /\ excludedCNRules = {}
    /\ excludedDetailIds = {}
    /\ categoryOverrides = {}

-----------------------------------------------------------------------------
(* The screen                                                              *)

SetSheetIncluded(s) ==
    /\ includedSheetIds' = (includedSheetIds \cup {s}) \ (includedSheetIds \cap {s})
    /\ UNCHANGED <<excludedCNRules, excludedDetailIds, categoryOverrides>>

(* One rule per sheet, batch and CN, as it is spelled in the row last used.*)
CNRuleKey(d) == <<d.sheet, d.batch, d.cn>>
CNRule(d) == [key |-> CNRuleKey(d), sheet |-> d.sheet, batch |-> d.batch, cn |-> d.original]
OtherCNRules(R) == {x \in excludedCNRules : \A d \in R : x.key # CNRuleKey(d)}

ExcludeCNs(R) ==
    /\ \E last \in SUBSET R :
        /\ \A d \in R : \E e \in last : CNRuleKey(d) = CNRuleKey(e)
        /\ \A d, e \in last : CNRuleKey(d) = CNRuleKey(e) => d = e
        /\ excludedCNRules' = OtherCNRules(R) \cup {CNRule(d) : d \in last}
    /\ UNCHANGED <<includedSheetIds, excludedDetailIds, categoryOverrides>>

IncludeCN(d) ==
    /\ excludedCNRules' = OtherCNRules({d})
    /\ UNCHANGED <<includedSheetIds, excludedDetailIds, categoryOverrides>>

ExcludeDetails(R) ==
    /\ excludedDetailIds' = excludedDetailIds \cup {d.id : d \in R}
    /\ UNCHANGED <<includedSheetIds, excludedCNRules, categoryOverrides>>

IncludeDetails(R) ==
    /\ excludedDetailIds' = excludedDetailIds \ {d.id : d \in R}
    /\ UNCHANGED <<includedSheetIds, excludedCNRules, categoryOverrides>>

Overrides(R, category) ==
    {o \in categoryOverrides : \A d \in R : o.id # d.id}
    \cup {[id |-> d.id, category |-> category] : d \in R}

(* Writing a line's own category, or none, takes its correction back; a    *)
(* category set for many lines at once is kept for each of them.           *)
SetDetailCategory(d, category) ==
    /\ categoryOverrides' = IF category \in {"", d.category}
                            THEN {o \in categoryOverrides : o.id # d.id}
                            ELSE Overrides({d}, category)
    /\ UNCHANGED <<includedSheetIds, excludedCNRules, excludedDetailIds>>

ApplyBulkCategory(R, category) ==
    /\ category # ""
    /\ categoryOverrides' = Overrides(R, category)
    /\ UNCHANGED <<includedSheetIds, excludedCNRules, excludedDetailIds>>

RestoreBulkCategory(R) ==
    /\ categoryOverrides' = {o \in categoryOverrides : \A d \in R : o.id # d.id}
    /\ UNCHANGED <<includedSheetIds, excludedCNRules, excludedDetailIds>>

RulesNext ==
    \/ \E s \in {d.sheet : d \in Preview} : SetSheetIncluded(s)
    \/ \E d \in Preview : IncludeCN(d) \/ \E c \in Categories \cup {""} : SetDetailCategory(d, c)
    \/ \E R \in SUBSET Preview :
        /\ R # {}
        /\ \/ ExcludeCNs(R) \/ ExcludeDetails(R) \/ IncludeDetails(R) \/ RestoreBulkCategory(R)
           \/ \E c \in Categories : ApplyBulkCategory(R, c)

RulesSpec == RulesInit /\ [][RulesNext]_ruleVars

IsRowExcluded(d) ==
    \/ d.sheet \notin includedSheetIds \/ d.id \in excludedDetailIds
    \/ \E x \in excludedCNRules : x.key = CNRuleKey(d)

DetailCategory(d) ==
    IF \E o \in categoryOverrides : o.id = d.id
    THEN (CHOOSE o \in categoryOverrides : o.id = d.id).category ELSE d.category

Summary(details) ==
    [cnCount |-> Cardinality({d.cn : d \in details}),
     detailCount |-> Cardinality(details),
     totalQuantity |-> SumFunctionOnSet([d \in details |-> d.quantity], details),
     totalAmount |-> SumFunctionOnSet([d \in details |-> d.amount], details)]

Shown == {d \in Preview : ~IsRowExcluded(d)}

-----------------------------------------------------------------------------
(* What is sent, and what the server makes of it                           *)

BuildConfirmRules ==
    [excludedSheetIDs |-> {d.sheet : d \in Preview} \ includedSheetIds,
     excludedCNs |-> {[sheet |-> x.sheet, batch |-> x.batch, cn |-> x.cn] : x \in excludedCNRules},
     excludedItemIDs |-> excludedDetailIds,
     categoryRules |-> {[detailIDs |-> {o.id}, category |-> o.category] : o \in categoryOverrides}]

NormalCN(original) == (CHOOSE d \in Preview : d.original = original).cn

FaultyShouldExclude(d, exclusions) ==
    \E rule \in exclusions :
        /\ rule.cn = d.original
        /\ rule.sheet \in {"", d.sheet}
        /\ rule.batch \in {"", d.batch}

ShouldExcludeDetail(d, exclusions) ==
    \E rule \in exclusions :
        /\ NormalCN(rule.cn) = d.cn
        /\ rule.sheet \in {"", d.sheet}
        /\ rule.batch \in {"", d.batch}

(* Each line is named by one rule at most, so their order does not matter. *)
CorrectedCategory(d, rules) ==
    LET named == {r \in rules : d.id \in r.detailIDs}
    IN  IF named = {} THEN d.category ELSE (CHOOSE r \in named : TRUE).category

ApplyImportRules(rules) ==
    {[d EXCEPT !.category = CorrectedCategory(d, rules.categoryRules)] :
        d \in {d \in Preview :
                /\ d.sheet \notin rules.excludedSheetIDs
                /\ d.id \notin rules.excludedItemIDs
                /\ ~ShouldExcludeDetail(d, rules.excludedCNs)}}

-----------------------------------------------------------------------------
(* Whatever was left out and taken back on the screen, line by line, by CN,*)
(* by sheet and in bulk, the lines the server bills are the ones shown as  *)
(* not excluded, under the categories shown, and the totals of the summary *)
(* are those of the confirmation.                                          *)
BilledAsShown ==
    LET billed == ApplyImportRules(BuildConfirmRules)
    IN  /\ billed = {[d EXCEPT !.category = DetailCategory(d)] : d \in Shown}
        /\ Summary(billed) = Summary(Shown)
=============================================================================
