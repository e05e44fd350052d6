---------------------------- MODULE Office_proofs ----------------------------
(***************************************************************************)
(* Proofs about the smaller components, each by itself: import batches,    *)
(* the rules of an import, the migration runner, QR codes, the intake of   *)
(* proofs, feedback, the codes of an administrator, the login limiters,    *)
(* and one item's account.                                                 *)
(***************************************************************************)
EXTENDS ImportBatch, ImportRules, Migrations, PaymentQR, ProofIntake, Feedback, AdminCodes,
        LoginLimiter, ItemAccount, LedgerRules_proofs, FiniteSetTheorems, TLAPS

-----------------------------------------------------------------------------
(* Import batches.  A file whose lines were stored has a project, for good,*)
(* so that another confirmation of it fails whatever its status says.      *)
ImportInv ==
    /\ batch \in [Files -> [status : {"none", "previewed", "confirmed", "reverted"},
                            project : BOOLEAN]]
    /\ stored \in [Files -> Nat] /\ revoked \in [Files -> Nat]
    /\ orders \in [Files -> {"none", "submitted", "cancelled"}]
    /\ \A f \in Files :
        /\ stored[f] = (IF batch[f].project THEN 1 ELSE 0) /\ revoked[f] <= stored[f]
        /\ batch[f].status = "confirmed" => stored[f] = 1 /\ revoked[f] = 0
        /\ batch[f].status = "reverted" => stored[f] = revoked[f] /\ orders[f] = "cancelled"

LEMMA ImportStep ==
    ASSUME ImportInv, [ImportNext]_importVars,
           \A j \in Uploads : upload[j] = NoUpload \/ upload[j].file \in Files
    PROVE  ImportInv'
<1>1. ASSUME UNCHANGED <<batch, stored, revoked, orders>> PROVE ImportInv'
  BY <1>1 DEF ImportInv
<1>2. ASSUME NEW j \in Uploads, SavePreview(j) PROVE ImportInv'
  <2> DEFINE f == upload[j].file
  <2>1. /\ f \in Files /\ UNCHANGED <<stored, revoked, orders>>
        /\ UNCHANGED batch \/ batch' = [batch EXCEPT ![f].status = "previewed"]
    BY <1>2 DEF SavePreview
  <2>2. CASE batch' = [batch EXCEPT ![f].status = "previewed"]
    BY <2>1, <2>2 DEF ImportInv
  <2> QED
    BY <1>1, <2>1, <2>2
<1>3. ASSUME NEW f \in Files, NEW allow \in BOOLEAN, NEW S \in SUBSET Billed[f],
             ConfirmImport(f, allow, S)
      PROVE  ImportInv'
  <2>1. /\ ~batch[f].project /\ stored' = [stored EXCEPT ![f] = @ + 1]
        /\ batch' = [batch EXCEPT ![f] = [status |-> "confirmed", project |-> TRUE]]
        /\ orders' = [orders EXCEPT ![f] = "submitted"] /\ UNCHANGED revoked
    BY <1>3 DEF ConfirmImport, InsertProject
  <2> QED
    BY <2>1 DEF ImportInv
<1>4. ASSUME NEW f \in Files, RevokeImport(f) PROVE ImportInv'
  BY <1>4 DEF RevokeImport, ImportInv
<1>5. CASE UNCHANGED importVars
  BY <1>1, <1>5 DEF importVars
<1>6. CASE ImportNext
  BY <1>1, <1>2, <1>3, <1>4, <1>6 DEF ImportNext, FindImportFile
<1> QED
  BY <1>5, <1>6

LEMMA UploadStep ==
    ASSUME \A j \in Uploads : upload[j] = NoUpload \/ upload[j].file \in Files,
           upload = [j \in Uploads |-> upload[j]], [ImportNext]_importVars
    PROVE  /\ \A j \in Uploads : upload'[j] = NoUpload \/ upload'[j].file \in Files
           /\ upload' = [j \in Uploads |-> upload'[j]]
<1>1. ASSUME NEW j \in Uploads, NEW f \in Files, FindImportFile(j, f)
      PROVE  /\ \A i \in Uploads : upload'[i] = NoUpload \/ upload'[i].file \in Files
             /\ upload' = [i \in Uploads |-> upload'[i]]
  BY <1>1 DEF FindImportFile
<1>2. ASSUME NEW j \in Uploads, SavePreview(j)
      PROVE  /\ \A i \in Uploads : upload'[i] = NoUpload \/ upload'[i].file \in Files
             /\ upload' = [i \in Uploads |-> upload'[i]]
  BY <1>2 DEF SavePreview
<1>3. CASE UNCHANGED upload
  BY <1>3
<1> QED
  BY <1>1, <1>2, <1>3 DEF ImportNext, ConfirmImport, RevokeImport, importVars

(* However previews, confirmations and revocations of a file interleave,   *)
(* its lines are stored once; a confirmed file has them and a reverted one *)
(* has not.                                                                *)
THEOREM FilesImportedOnce == ImportSpec => []ImportedOnce
<1> DEFINE Uploading == /\ \A j \in Uploads : upload[j] = NoUpload \/ upload[j].file \in Files
                        /\ upload = [j \in Uploads |-> upload[j]]
<1>1. ImportInit => ImportInv /\ Uploading
  BY DEF ImportInit, ImportInv
<1>2. ImportInv /\ Uploading /\ [ImportNext]_importVars => ImportInv' /\ Uploading'
  BY ImportStep, UploadStep
<1>3. ImportInv => ImportedOnce
  BY DEF ImportInv, ImportedOnce
<1> QED
  BY <1>1, <1>2, <1>3, PTL DEF ImportSpec

-----------------------------------------------------------------------------
(* The rules of an import.  The screen and the server decide about a line  *)
(* by different means: identities and keys there, rules here.              *)
(* The screen's rules: each is the rule of a line, by its key, and a line  *)
(* has one corrected category at most.                                     *)
RuleInv ==
    /\ \A x \in excludedCNRules : \E d \in Preview : x = CNRule(d)
    /\ \A o, p \in categoryOverrides : o.id = p.id => o = p

LEMMA RulesStep == RuleInv /\ [RulesNext]_ruleVars => RuleInv'
<1> SUFFICES ASSUME RuleInv, [RulesNext]_ruleVars PROVE RuleInv'
  OBVIOUS
<1>1. ASSUME NEW s, SetSheetIncluded(s) PROVE RuleInv'
  BY <1>1 DEF SetSheetIncluded, RuleInv
<1>2. ASSUME NEW R \in SUBSET Preview, ExcludeCNs(R) PROVE RuleInv'
  BY <1>2 DEF ExcludeCNs, RuleInv, OtherCNRules
<1>3. ASSUME NEW d \in Preview, IncludeCN(d) PROVE RuleInv'
  BY <1>3 DEF IncludeCN, RuleInv, OtherCNRules
<1>4. ASSUME NEW R, ExcludeDetails(R) \/ IncludeDetails(R) PROVE RuleInv'
  BY <1>4 DEF ExcludeDetails, IncludeDetails, RuleInv
<1>5. ASSUME NEW R \in SUBSET Preview, NEW c
      PROVE  \A o, p \in Overrides(R, c) : o.id = p.id => o = p
  BY DEF Overrides, RuleInv
<1>6. ASSUME NEW d \in Preview, NEW c, SetDetailCategory(d, c) PROVE RuleInv'
  BY <1>5, <1>6 DEF SetDetailCategory, RuleInv
<1>7. ASSUME NEW R \in SUBSET Preview, NEW c, ApplyBulkCategory(R, c) PROVE RuleInv'
  BY <1>5, <1>7 DEF ApplyBulkCategory, RuleInv
<1>8. ASSUME NEW R \in SUBSET Preview, RestoreBulkCategory(R) PROVE RuleInv'
  BY <1>8 DEF RestoreBulkCategory, RuleInv
<1>9. CASE UNCHANGED ruleVars
  BY <1>9 DEF ruleVars, RuleInv
<1> QED
  BY <1>1, <1>2, <1>3, <1>4, <1>6, <1>7, <1>8, <1>9 DEF RulesNext

(* The server leaves out the lines the screen does: a rule names its CN as *)
(* one line spells it, and the server takes it for all lines of that CN,   *)
(* sheet and batch.                                                        *)
LEMMA SameLinesOut ==
    ASSUME RuleInv, NEW d \in Preview
    PROVE  IsRowExcluded(d) <=>
              \/ d.sheet \in BuildConfirmRules.excludedSheetIDs
              \/ d.id \in BuildConfirmRules.excludedItemIDs
              \/ ShouldExcludeDetail(d, BuildConfirmRules.excludedCNs)
<1> DEFINE sent(x) == [sheet |-> x.sheet, batch |-> x.batch, cn |-> x.cn]
<1>1. ShouldExcludeDetail(d, BuildConfirmRules.excludedCNs) <=>
        \E x \in excludedCNRules :
            NormalCN(x.cn) = d.cn /\ x.sheet \in {"", d.sheet} /\ x.batch \in {"", d.batch}
  <2>1. BuildConfirmRules.excludedCNs = {sent(x) : x \in excludedCNRules}
    BY DEF BuildConfirmRules
  <2>2. \A x : sent(x).sheet = x.sheet /\ sent(x).batch = x.batch /\ sent(x).cn = x.cn
    OBVIOUS
  <2> HIDE DEF sent
  <2>3. ShouldExcludeDetail(d, {sent(x) : x \in excludedCNRules}) <=>
          \E x \in excludedCNRules :
            NormalCN(sent(x).cn) = d.cn /\ sent(x).sheet \in {"", d.sheet}
            /\ sent(x).batch \in {"", d.batch}
    BY DEF ShouldExcludeDetail
  <2> QED
    BY <2>1, <2>2, <2>3
<1>2. ASSUME NEW x \in excludedCNRules
      PROVE  (NormalCN(x.cn) = d.cn /\ x.sheet \in {"", d.sheet} /\ x.batch \in {"", d.batch})
                <=> x.key = CNRuleKey(d)
  <2>1. PICK e \in Preview : x = CNRule(e)
    BY DEF RuleInv
  <2>2. NormalCN(e.original) = e.cn
    BY RuleConstants DEF NormalCN
  <2>3. e.sheet # "" /\ e.batch # ""
    BY RuleConstants
  <2> QED
    BY <2>1, <2>2, <2>3 DEF CNRule, CNRuleKey
<1>3. d.sheet \in BuildConfirmRules.excludedSheetIDs <=> d.sheet \notin includedSheetIds
  BY DEF BuildConfirmRules
<1>4. BuildConfirmRules.excludedItemIDs = excludedDetailIds
  BY DEF BuildConfirmRules
<1> QED
  BY <1>1, <1>2, <1>3, <1>4 DEF IsRowExcluded

LEMMA SameCategory ==
    ASSUME RuleInv, NEW d \in Preview
    PROVE  CorrectedCategory(d, BuildConfirmRules.categoryRules) = DetailCategory(d)
<1> DEFINE rules == {[detailIDs |-> {o.id}, category |-> o.category] : o \in categoryOverrides}
           named == {r \in rules : d.id \in r.detailIDs}
<1>1. CorrectedCategory(d, BuildConfirmRules.categoryRules) =
        IF named = {} THEN d.category ELSE (CHOOSE r \in named : TRUE).category
  BY DEF CorrectedCategory, BuildConfirmRules
<1>2. CASE \E o \in categoryOverrides : o.id = d.id
  <2>1. PICK o \in categoryOverrides : o.id = d.id
    BY <1>2
  <2>2. \A p \in categoryOverrides : p.id = d.id => p = o
    BY <2>1 DEF RuleInv
  <2> DEFINE rule == [detailIDs |-> {o.id}, category |-> o.category]
  <2>3. named = {rule}
    BY <2>1, <2>2
  <2>4. (CHOOSE r \in {rule} : TRUE) = rule
    OBVIOUS
  <2>5. DetailCategory(d) = o.category
    BY <2>1, <2>2 DEF DetailCategory
  <2>6. rule.category = o.category
    OBVIOUS
  <2> HIDE DEF named, rule
  <2> QED
    BY <1>1, <2>3, <2>4, <2>5, <2>6
<1>3. CASE ~\E o \in categoryOverrides : o.id = d.id
  <2>1. named = {}
    BY <1>3
  <2> HIDE DEF named
  <2> QED
    BY <1>1, <1>3, <2>1 DEF DetailCategory
<1> QED
  BY <1>2, <1>3

(* Correcting categories changes no line otherwise, so the totals of the   *)
(* corrected lines are those of the lines.                                 *)
LEMMA SameSummary ==
    ASSUME NEW L \in SUBSET Preview, NEW c
    PROVE  Summary({[d EXCEPT !.category = c[d]] : d \in L}) = Summary(L)
<1> DEFINE name == [d \in L |-> [d EXCEPT !.category = c[d]]]
           B == {name[d] : d \in L}
<1>1. IsFiniteSet(L)
  BY FS_Subset, RuleConstants
<1>2. ASSUME NEW d \in L
      PROVE  /\ name[d].id = d.id /\ name[d].cn = d.cn
             /\ name[d].quantity = d.quantity /\ name[d].amount = d.amount
             /\ d.quantity \in Int /\ d.amount \in Int
  <2>1. DOMAIN d = Columns /\ d.quantity \in Int /\ d.amount \in Int
    BY RuleConstants
  <2> QED
    BY <2>1 DEF Columns
<1>4. {[d EXCEPT !.category = c[d]] : d \in L} = B /\ DOMAIN name = L
  OBVIOUS
<1> HIDE DEF name
<1>3. \A d, e \in L : name[d] = name[e] => d = e
  <2>1. \A d, e \in L : d.id = e.id => d = e
    BY RuleConstants
  <2>2. \A d, e \in L : name[d] = name[e] => d.id = e.id
    BY <1>2
  <2> QED
    BY <2>1, <2>2
<1>5. {d.cn : d \in B} = {d.cn : d \in L}
  BY <1>2
<1>6. Cardinality(B) = Cardinality(L)
  <2> DEFINE f == [d \in L |-> name[d]]
  <2>1. f \in [L -> B] /\ (\A b \in B : \E d \in L : f[d] = b)
    OBVIOUS
  <2>2. \A d, e \in L : f[d] = f[e] => d = e
    BY <1>3
  <2> HIDE DEF f
  <2>3. f \in Bijection(L, B)
    BY <2>1, <2>2 DEF Bijection, Injection, IsInjective, Surjection
  <2> HIDE DEF B
  <2>4. ExistsBijection(L, B)
    BY <2>3 DEF ExistsBijection
  <2> QED
    BY <1>1, <2>4, FS_Bijection
<1>7. SumFunctionOnSet([d \in B |-> d.quantity], B) = SumFunctionOnSet([d \in L |-> d.quantity], L)
  <2> DEFINE f == [d \in B |-> d.quantity]
             g == [d \in L |-> d.quantity]
  <2>1. \A d \in L : g[d] \in Int /\ f[name[d]] = g[d]
    BY <1>2
  <2> HIDE DEF f, g
  <2>2. SumFunctionOnSet(f, {name[d] : d \in L}) = SumFunctionOnSet(g, L)
    BY <1>1, <1>3, <2>1, SumRenamed
  <2> QED
    BY <2>2 DEF f, g
<1>8. SumFunctionOnSet([d \in B |-> d.amount], B) = SumFunctionOnSet([d \in L |-> d.amount], L)
  <2> DEFINE f == [d \in B |-> d.amount]
             g == [d \in L |-> d.amount]
  <2>1. \A d \in L : g[d] \in Int /\ f[name[d]] = g[d]
    BY <1>2
  <2> HIDE DEF f, g
  <2>2. SumFunctionOnSet(f, {name[d] : d \in L}) = SumFunctionOnSet(g, L)
    BY <1>1, <1>3, <2>1, SumRenamed
  <2> QED
    BY <2>2 DEF f, g
<1> HIDE DEF B
<1> QED
  BY <1>4, <1>5, <1>6, <1>7, <1>8 DEF Summary

LEMMA RulesAgree == RuleInv => BilledAsShown
<1> SUFFICES ASSUME RuleInv PROVE BilledAsShown
  OBVIOUS
<1> DEFINE c == [d \in Shown |-> DetailCategory(d)]
           billed == {[d EXCEPT !.category = DetailCategory(d)] : d \in Shown}
<1>1. ApplyImportRules(BuildConfirmRules) = billed
  BY SameLinesOut, SameCategory DEF ApplyImportRules, Shown
<1>2. billed = {[d EXCEPT !.category = c[d]] : d \in Shown}
  OBVIOUS
<1>3. Summary(billed) = Summary(Shown)
  <2>1. Shown \in SUBSET Preview
    BY DEF Shown
  <2> HIDE DEF c, billed
  <2>2. Summary({[d EXCEPT !.category = c[d]] : d \in Shown}) = Summary(Shown)
    BY <2>1, SameSummary
  <2> QED
    BY <1>2, <2>2
<1> HIDE DEF billed
<1> QED
  BY <1>1, <1>3 DEF BilledAsShown, billed

(* However lines were left out, taken back and corrected on the screen, in *)
(* whatever order and number, what the server bills is what is shown, line *)
(* by line and in total.                                                   *)
THEOREM ImportBilledAsShown == RulesSpec => []BilledAsShown
<1>1. RulesInit => RuleInv
  BY DEF RulesInit, RuleInv
<1> QED
  BY <1>1, RulesStep, RulesAgree, PTL DEF RulesSpec

-----------------------------------------------------------------------------
(* Migrations.  What a server has passed is listed, and what is listed ran *)
(* once.                                                                   *)
MigrationsInv ==
    /\ ran \in [Versions -> {0, 1}]
    /\ server \in [Servers -> [at : {"down", "looks", "applies", "serves"}, past : SUBSET listed]]
    /\ MigratedOnce

LEMMA MigrationsStep == MigrationsInv /\ [MigrationsNext]_migrationVars => MigrationsInv'
<1> SUFFICES ASSUME MigrationsInv, [MigrationsNext]_migrationVars PROVE MigrationsInv'
  OBVIOUS
<1> DEFINE ServerSet(S) == [at : {"down", "looks", "applies", "serves"}, past : SUBSET S]
<1>0. /\ ran \in [Versions -> {0, 1}] /\ server \in [Servers -> ServerSet(listed)]
      /\ \A v \in Versions : ran[v] = IF v \in listed THEN 1 ELSE 0
      /\ \A s \in Servers : server[s].at = "serves" => Shipped[s] \subseteq listed
  BY DEF MigrationsInv, MigratedOnce
<1>1. ASSUME NEW s \in Servers, NEW x \in ServerSet(listed), server' = [server EXCEPT ![s] = x],
             x.at = "serves" => Shipped[s] \subseteq listed, UNCHANGED <<listed, ran>>
      PROVE  MigrationsInv'
  BY <1>0, <1>1 DEF MigrationsInv, MigratedOnce
<1>2. ASSUME NEW s \in Servers, Start(s) \/ Stop(s) PROVE MigrationsInv'
  <2>1. Down \in ServerSet(listed) /\ Down.at = "down"
    BY DEF Down
  <2>2. [server[s] EXCEPT !.at = "looks"] \in ServerSet(listed)
    BY <1>0
  <2>3. [server[s] EXCEPT !.at = "looks"].at # "serves"
    BY <1>0
  <2>4. CASE Start(s)
    BY <1>1, <2>2, <2>3, <2>4 DEF Start
  <2>5. CASE Stop(s)
    BY <1>1, <2>1, <2>5 DEF Stop
  <2> QED
    BY <1>2, <2>4, <2>5
<1>3. ASSUME NEW s \in Servers, LookUp(s) PROVE MigrationsInv'
  <2> DEFINE v == NextVersion(s)
             y == server[s]
             passed == [y EXCEPT !.past = y.past \cup {v}]
             applies == [y EXCEPT !.at = "applies"]
  <2>1. /\ y.at = "looks" /\ y \in ServerSet(listed) /\ UNCHANGED <<listed, ran>>
    BY <1>0, <1>3 DEF LookUp
  <2>2. \/ v \in listed /\ server' = [server EXCEPT ![s] = passed]
        \/ server' = [server EXCEPT ![s] = applies]
    BY <1>3 DEF LookUp
  <2> HIDE DEF y, v
  <2>3. v \in listed => passed \in ServerSet(listed) /\ passed.at = "looks"
    BY <2>1
  <2>4. applies \in ServerSet(listed) /\ applies.at = "applies"
    BY <2>1
  <2> HIDE DEF passed, applies
  <2> QED
    BY <1>1, <2>1, <2>2, <2>3, <2>4
<1>4. ASSUME NEW s \in Servers, ApplyMigration(s) PROVE MigrationsInv'
  <2> DEFINE v == NextVersion(s)
             x == [at |-> "looks", past |-> server[s].past \cup {v}]
  <2>1. /\ v \notin listed /\ listed' = listed \cup {v} /\ ran' = [ran EXCEPT ![v] = @ + 1]
        /\ server' = [server EXCEPT ![s] = x]
    BY <1>4 DEF ApplyMigration, FreeVersion
  <2>2. x \in ServerSet(listed') /\ x.at = "looks"
    <3>1. server[s].past \subseteq listed
      BY <1>0
    <3> QED
      BY <2>1, <3>1
  <2> HIDE DEF v, x
  <2>3. /\ ran' \in [Versions -> {0, 1}]
        /\ \A w \in Versions : ran'[w] = IF w \in listed' THEN 1 ELSE 0
    <3>1. CASE v \in Versions
      <4>1. ran[v] = 0
        BY <1>0, <2>1, <3>1
      <4> QED
        BY <1>0, <2>1, <3>1, <4>1
    <3>2. CASE v \notin Versions
      BY <1>0, <2>1, <3>2
    <3> QED
      BY <3>1, <3>2
  <2>4. server' \in [Servers -> ServerSet(listed')]
    BY <1>0, <2>1, <2>2
  <2>5. \A o \in Servers : server'[o].at = "serves" => Shipped[o] \subseteq listed'
    BY <1>0, <2>1, <2>2
  <2> QED
    BY <2>3, <2>4, <2>5 DEF MigrationsInv, MigratedOnce
<1>5. ASSUME NEW s \in Servers, Serve(s) PROVE MigrationsInv'
  <2>1. /\ server' = [server EXCEPT ![s] = [server[s] EXCEPT !.at = "serves"]]
        /\ UNCHANGED <<listed, ran>> /\ Shipped[s] \subseteq server[s].past
    BY <1>5 DEF Serve, Ahead
  <2>2. server[s] \in ServerSet(listed)
    BY <1>0
  <2>3. [server[s] EXCEPT !.at = "serves"] \in ServerSet(listed)
    BY <2>2
  <2>4. Shipped[s] \subseteq listed
    BY <2>1, <2>2
  <2> QED
    BY <1>1, <2>1, <2>3, <2>4
<1>6. CASE UNCHANGED migrationVars
  BY <1>6 DEF migrationVars, MigrationsInv, MigratedOnce
<1> QED
  BY <1>2, <1>3, <1>4, <1>5, <1>6 DEF MigrationsNext

(* Servers of any releases, started together and stopped at any moment,    *)
(* commit each migration once, and none serves before all of its own are.  *)
THEOREM EachMigrationOnce == MigrationsSpec => []MigratedOnce
<1>1. MigrationsInit => MigrationsInv
  BY DEF MigrationsInit, MigrationsInv, MigratedOnce, Down
<1>2. MigrationsInv => MigratedOnce
  BY DEF MigrationsInv
<1> QED
  BY <1>1, <1>2, MigrationsStep, PTL DEF MigrationsSpec

-----------------------------------------------------------------------------
(* QR codes.  An advisory lock has one holder, and while it is held the    *)
(* images it has disabled are those that are enabled.                      *)
EditSet == [op : {"none", "upload", "disable"}, method : QRMethods \cup {"none"},
            at : {"start", "locked", "disabled"}, off : SUBSET Nat]

QRInv ==
    /\ image \in [QRMethods -> Seq(BOOLEAN)]
    /\ editor \in [Editors -> EditSet]
    /\ \A e \in Editors : editor[e].at # "start" => editor[e].method \in QRMethods
    /\ \A e, o \in Editors :
        editor[e].at # "start" /\ editor[o].at # "start" /\ editor[e].method = editor[o].method
            => e = o
    /\ \A e \in Editors : editor[e].at = "disabled" => editor[e].off = Enabled(editor[e].method)
    /\ \A m \in QRMethods : \A i, k \in Enabled(m) : i = k

LEMMA EditorChanges ==
    ASSUME QRInv, NEW e \in Editors, NEW x \in EditSet, editor' = [editor EXCEPT ![e] = x],
           UNCHANGED image,
           x.at # "start" =>
                /\ x.method \in QRMethods
                /\ \A o \in Editors \ {e} : editor[o].method = x.method => editor[o].at = "start",
           x.at = "disabled" => x.off = Enabled(x.method)
    PROVE  QRInv'
<1>1. /\ image' = image /\ image \in [QRMethods -> Seq(BOOLEAN)]
      /\ editor \in [Editors -> EditSet] /\ editor' \in [Editors -> EditSet]
  BY DEF QRInv
<1>2. \A m : Enabled(m)' = Enabled(m)
  BY <1>1 DEF Enabled
<1>3. \A o \in Editors : editor'[o] = IF o = e THEN x ELSE editor[o]
  BY <1>1
<1>4. \A o \in Editors : editor'[o].at # "start" => editor'[o].method \in QRMethods
  BY <1>3 DEF QRInv
<1>5. \A o, p \in Editors :
        editor'[o].at # "start" /\ editor'[p].at # "start" /\ editor'[o].method = editor'[p].method
            => o = p
  BY <1>3 DEF QRInv
<1>6. ASSUME NEW o \in Editors, editor'[o].at = "disabled"
      PROVE  (editor[o].off = Enabled(editor[o].method))'
  <2>1. editor'[o].off = Enabled(editor'[o].method)
    BY <1>3, <1>6 DEF QRInv
  <2> QED
    BY <1>1, <2>1 DEF Enabled
<1>7. \A m \in QRMethods : \A i, k \in Enabled(m)' : i = k
  BY <1>2 DEF QRInv
<1> QED
  BY <1>1, <1>4, <1>5, <1>6, <1>7 DEF QRInv

(* What a commit leaves: one image enabled at most.                        *)
LEMMA EditorCommits ==
    ASSUME QRInv, NEW e \in Editors, editor[e].at = "disabled", editor' = [editor EXCEPT ![e] = NoEdit],
           NEW q \in Seq(BOOLEAN), image' = [image EXCEPT ![editor[e].method] = q],
           \A i, k \in DOMAIN q : q[i] /\ q[k] => i = k
    PROVE  QRInv'
<1>1. NoEdit \in EditSet /\ NoEdit.at = "start"
  BY DEF NoEdit, EditSet
<1>2. PICK m \in QRMethods : m = editor[e].method /\ image' = [image EXCEPT ![m] = q]
  BY DEF QRInv
<1>3. \A n \in QRMethods : n # m => Enabled(n)' = Enabled(n)
  BY <1>2 DEF QRInv, Enabled
<1>4. \A i, k \in Enabled(m)' : i = k
  BY <1>2 DEF QRInv, Enabled
<1>5. \A o \in Editors \ {e} : editor[o].at # "start" => editor[o].method # m
  BY <1>2 DEF QRInv
<1>6. \A o \in Editors : editor'[o].at # "start" => o # e /\ editor'[o] = editor[o]
  BY <1>1 DEF QRInv
<1>7. image' \in [QRMethods -> Seq(BOOLEAN)] /\ editor' \in [Editors -> EditSet]
  BY <1>1, <1>2 DEF QRInv
<1>8. \A o \in Editors : editor'[o].at = "disabled" =>
        (editor[o].off = Enabled(editor[o].method))'
  <2> SUFFICES ASSUME NEW o \in Editors, editor'[o].at = "disabled"
               PROVE  (editor[o].off = Enabled(editor[o].method))'
    OBVIOUS
  <2>1. o # e /\ editor'[o] = editor[o] /\ editor[o].method # m /\ editor[o].method \in QRMethods
    BY <1>5, <1>6 DEF QRInv
  <2>2. editor[o].off = Enabled(editor[o].method)
    BY <2>1 DEF QRInv
  <2>3. image'[editor[o].method] = image[editor[o].method]
    BY <1>2, <2>1 DEF QRInv
  <2> QED
    BY <2>1, <2>2, <2>3 DEF Enabled
<1>9. ASSUME NEW n \in QRMethods PROVE \A i, k \in Enabled(n)' : i = k
  <2>1. CASE n = m
    BY <1>4, <2>1
  <2>2. CASE n # m
    <3>1. Enabled(n)' = Enabled(n)
      BY <1>3, <2>2
    <3> QED
      BY <3>1 DEF QRInv
  <2> QED
    BY <2>1, <2>2
<1>10. \A a, o \in Editors :
        editor'[a].at # "start" /\ editor'[o].at # "start" /\ editor'[a].method = editor'[o].method
            => a = o
  BY <1>6 DEF QRInv
<1>11. \A o \in Editors : editor'[o].at # "start" => editor'[o].method \in QRMethods
  BY <1>6 DEF QRInv
<1> QED
  BY <1>7, <1>8, <1>9, <1>10, <1>11 DEF QRInv

LEMMA QRStep == QRInv /\ [QRNext]_qrVars => QRInv'
<1> SUFFICES ASSUME QRInv, [QRNext]_qrVars PROVE QRInv'
  OBVIOUS
<1>0. /\ image \in [QRMethods -> Seq(BOOLEAN)] /\ editor \in [Editors -> EditSet]
  BY DEF QRInv
<1>1. ASSUME NEW e \in Editors, NEW m \in QRMethods, NEW op \in {"upload", "disable"},
             TakeLock(e, m, op)
      PROVE  QRInv'
  <2> DEFINE x == [op |-> op, method |-> m, at |-> "locked", off |-> {}]
  <2>1. x \in EditSet /\ x.at = "locked" /\ x.method = m
    BY DEF EditSet
  <2>2. /\ editor' = [editor EXCEPT ![e] = x] /\ UNCHANGED image
        /\ \A o \in Editors : editor[o].method = m => editor[o].at = "start"
    BY <1>1 DEF TakeLock, AdvisoryLock, Holds
  <2> HIDE DEF x
  <2> QED
    BY <2>1, <2>2, EditorChanges
<1>2. ASSUME NEW e \in Editors, DisableStatement(e) PROVE QRInv'
  <2> DEFINE y == editor[e]
             x == [y EXCEPT !.at = "disabled", !.off = Enabled(y.method)]
  <2>1. y \in EditSet /\ y.at = "locked" /\ y.method \in QRMethods
    BY <1>0, <1>2 DEF DisableStatement, QRInv
  <2>2. editor' = [editor EXCEPT ![e] = x] /\ UNCHANGED image
    BY <1>2 DEF DisableStatement
  <2>3. Enabled(y.method) \subseteq Nat
    BY <1>0, <2>1 DEF Enabled
  <2>4. \A o \in Editors \ {e} : editor[o].method = y.method => editor[o].at = "start"
    BY <2>1 DEF QRInv
  <2> HIDE DEF y
  <2>5. /\ x \in EditSet /\ x.at = "disabled" /\ x.off = Enabled(y.method)
        /\ x.method = y.method
    BY <2>1, <2>3 DEF EditSet
  <2> HIDE DEF x
  <2> QED
    BY <2>1, <2>2, <2>4, <2>5, EditorChanges
<1>3. ASSUME NEW e \in Editors, editor[e].at = "disabled"
      PROVE  /\ After(e) \in Seq(BOOLEAN) /\ \A i \in DOMAIN After(e) : ~After(e)[i]
             /\ editor[e].method \in QRMethods
  <2> DEFINE m == editor[e].method
  <2>1. m \in QRMethods /\ image[m] \in Seq(BOOLEAN) /\ editor[e].off = Enabled(m)
    BY <1>0, <1>3 DEF QRInv
  <2>2. After(e) = [i \in 1..Len(image[m]) |-> image[m][i] /\ i \notin Enabled(m)]
    BY <2>1 DEF After
  <2>3. \A i \in 1..Len(image[m]) : (image[m][i] /\ i \notin Enabled(m)) = FALSE
    BY <2>1 DEF Enabled
  <2>4. After(e) = [i \in 1..Len(image[m]) |-> FALSE]
    BY <2>2, <2>3
  <2> QED
    BY <2>1, <2>4
<1>4. ASSUME NEW e \in Editors, Upload(e) PROVE QRInv'
  <2> DEFINE q == Append(After(e), TRUE)
  <2>1. /\ editor[e].at = "disabled" /\ editor' = [editor EXCEPT ![e] = NoEdit]
        /\ image' = [image EXCEPT ![editor[e].method] = q]
    BY <1>4 DEF Upload
  <2>2. /\ q \in Seq(BOOLEAN)
        /\ \A i \in DOMAIN q : q[i] => i = Len(After(e)) + 1
    BY <1>3, <2>1
  <2> HIDE DEF q
  <2> QED
    BY <2>1, <2>2, EditorCommits
<1>5. ASSUME NEW e \in Editors, Disable(e) PROVE QRInv'
  BY <1>3, <1>5, EditorCommits DEF Disable
<1>6. ASSUME NEW e \in Editors, EditFails(e) PROVE QRInv'
  <2>1. NoEdit \in EditSet /\ NoEdit.at = "start"
    BY DEF NoEdit, EditSet
  <2> QED
    BY <1>6, <2>1, EditorChanges DEF EditFails
<1>7. CASE UNCHANGED qrVars
  BY <1>7 DEF qrVars, QRInv, Enabled
<1> QED
  BY <1>1, <1>2, <1>4, <1>5, <1>6, <1>7 DEF QRNext

(* Of a method one image at most is shown, and an upload that has disabled *)
(* the one before never runs into the index of the enabled ones.           *)
THEOREM QRUploadsSucceed == QRSpec => []UploadsSucceed
<1>1. QRInit => QRInv
  BY DEF QRInit, QRInv, NoEdit, EditSet, Enabled
<1>2. QRInv => UploadsSucceed
  <2> SUFFICES ASSUME QRInv PROVE UploadsSucceed
    OBVIOUS
  <2>1. ASSUME NEW m \in QRMethods PROVE Cardinality(Enabled(m)) <= 1
    <3>1. CASE Enabled(m) = {}
      BY <3>1, FS_EmptySet
    <3>2. CASE Enabled(m) # {}
      <4>1. PICK i \in Enabled(m) : TRUE
        BY <3>2
      <4>2. Enabled(m) = {i}
        BY <4>1 DEF QRInv
      <4>3. Cardinality({i}) = 1
        BY FS_Singleton
      <4> QED
        BY <4>2, <4>3
    <3> QED
      BY <3>1, <3>2
  <2>2. ASSUME NEW e \in Editors, editor[e].op = "upload", editor[e].at = "disabled"
        PROVE  Enabled(editor[e].method) \subseteq editor[e].off
    BY <2>2 DEF QRInv
  <2>3. \A m \in QRMethods : Cardinality(Enabled(m)) <= 1
    BY <2>1
  <2>4. \A e \in Editors : editor[e].op = "upload" /\ editor[e].at = "disabled" => IndexAllows(e)
    BY <2>2 DEF IndexAllows
  <2> QED
    BY <2>3, <2>4 DEF UploadsSucceed
<1> QED
  BY <1>1, <1>2, QRStep, PTL DEF QRSpec

-----------------------------------------------------------------------------
(* The intake of proofs.  A request has one row at most, rows only change  *)
(* their status, and an answered request points to the row of its id.      *)
ProofSet == [id : RequestIds \cup {NoRequest}, amount : 0..MaxDebt,
             status : {"pending", "approved", "rejected"}]
AttemptSet ==
    [at : {"unsent", "read", "again", "answered", "failed"},
     id : RequestIds \cup {NoRequest}, amount : 0..MaxDebt, row : Nat,
     status : {"none", "pending", "approved", "rejected"}]

Answered(x, rows) ==
    x.at = "answered" =>
        /\ x.row \in DOMAIN rows
        /\ rows[x.row].id = x.id /\ rows[x.row].amount = x.amount

IntakeInv ==
    /\ debt \in 0..MaxDebt
    /\ proof \in Seq(ProofSet)
    /\ attempt \in [Attempts -> AttemptSet]
    /\ \A i, k \in DOMAIN proof :
        proof[i].id = proof[k].id /\ proof[i].id # NoRequest => i = k
    /\ \A a \in Attempts : Answered(attempt[a], proof)

LEMMA IntakeStep == IntakeInv /\ [IntakeNext]_intakeVars => IntakeInv'
<1> SUFFICES ASSUME IntakeInv, [IntakeNext]_intakeVars PROVE IntakeInv'
  OBVIOUS
<1>0. /\ debt \in 0..MaxDebt /\ proof \in Seq(ProofSet) /\ attempt \in [Attempts -> AttemptSet]
      /\ \A a \in Attempts : Answered(attempt[a], proof)
  BY DEF IntakeInv
<1>1. ASSUME NEW a \in Attempts, NEW x \in AttemptSet, attempt' = [attempt EXCEPT ![a] = x],
             UNCHANGED <<debt, proof>>, Answered(x, proof)
      PROVE  IntakeInv'
  <2>1. attempt' \in [Attempts -> AttemptSet]
        /\ \A b \in Attempts : attempt'[b] = IF b = a THEN x ELSE attempt[b]
    BY <1>0, <1>1
  <2>2. \A b \in Attempts : Answered(attempt'[b], proof)
    BY <1>0, <1>1, <2>1
  <2> QED
    BY <1>1, <2>1, <2>2 DEF IntakeInv, Answered
<1>2. ASSUME NEW a \in Attempts, NEW id \in RequestIds \cup {NoRequest}, OutstandingPrincipal(a, id)
      PROVE  IntakeInv'
  <2> DEFINE x == [Unsent EXCEPT !.at = "read", !.id = id, !.amount = debt]
  <2>1. x \in AttemptSet /\ Answered(x, proof)
    BY <1>0 DEF Unsent, AttemptSet, Answered
  <2>2. attempt' = [attempt EXCEPT ![a] = x] /\ UNCHANGED <<debt, proof>>
    BY <1>2 DEF OutstandingPrincipal
  <2> HIDE DEF x
  <2> QED
    BY <1>1, <2>1, <2>2
<1>3. ASSUME NEW a \in Attempts, InsertProof(a) PROVE IntakeInv'
  <2> DEFINE y == attempt[a]
             n == Len(proof) + 1
             x == [y EXCEPT !.at = "answered", !.row = n, !.status = "pending"]
             r == [id |-> y.id, amount |-> y.amount, status |-> "pending"]
  <2>1. y \in AttemptSet
    BY <1>0
  <2>2. /\ attempt' = [attempt EXCEPT ![a] = x] /\ proof' = Append(proof, r) /\ UNCHANGED debt
        /\ \A i \in DOMAIN proof : proof[i].id = y.id => y.id = NoRequest
    BY <1>3 DEF InsertProof, Conflict, OfRequest
  <2>0. n \in Nat
    BY <1>0
  <2> HIDE DEF y, n
  <2>3. /\ x \in AttemptSet /\ x.id = y.id /\ x.amount = y.amount /\ x.row = n
        /\ r \in ProofSet /\ r.id = y.id /\ r.amount = y.amount
    BY <2>0, <2>1 DEF AttemptSet, ProofSet
  <2> HIDE DEF x, r
  <2>4. /\ proof' \in Seq(ProofSet)
        /\ Len(proof') = Len(proof) + 1
        /\ \A i \in 1..Len(proof) : proof'[i] = proof[i]
        /\ proof'[Len(proof) + 1] = r
    BY <1>0, <2>2, <2>3
  <2>5. /\ DOMAIN proof' = 1..n /\ DOMAIN proof = 1..(n - 1)
        /\ \A i \in DOMAIN proof : proof'[i] = proof[i]
        /\ proof'[n] = r
        /\ n \in DOMAIN proof' /\ \A i \in DOMAIN proof' : i \in DOMAIN proof \/ i = n
    BY <1>0, <2>0, <2>4 DEF n
  <2>6. ASSUME NEW i \in DOMAIN proof', NEW k \in DOMAIN proof',
               proof'[i].id = proof'[k].id, proof'[i].id # NoRequest
        PROVE  i = k
    <3>1. CASE i \in DOMAIN proof /\ k \in DOMAIN proof
      BY <2>5, <2>6, <3>1 DEF IntakeInv
    <3>2. CASE i = n \/ k = n
      BY <2>2, <2>3, <2>5, <2>6, <3>2
    <3> QED
      BY <2>5, <3>1, <3>2
  <2>7. /\ attempt' \in [Attempts -> AttemptSet]
        /\ \A b \in Attempts : attempt'[b] = IF b = a THEN x ELSE attempt[b]
    BY <1>0, <2>2, <2>3
  <2>8. Answered(x, proof')
    BY <2>3, <2>5 DEF Answered
  <2>9. \A b \in Attempts : Answered(attempt[b], proof')
    BY <1>0, <2>5 DEF Answered
  <2>10. \A b \in Attempts : Answered(attempt'[b], proof')
    BY <2>7, <2>8, <2>9
  <2> QED
    BY <1>0, <2>2, <2>4, <2>6, <2>7, <2>10 DEF IntakeInv, Answered
<1>4. ASSUME NEW a \in Attempts, DoNothing(a) \/ IntakeFails(a) PROVE IntakeInv'
  <2> DEFINE y == attempt[a]
  <2>1. y \in AttemptSet
    BY <1>0
  <2>2. /\ \/ attempt' = [attempt EXCEPT ![a] = [y EXCEPT !.at = "again"]]
           \/ attempt' = [attempt EXCEPT ![a] = [y EXCEPT !.at = "failed"]]
        /\ UNCHANGED <<debt, proof>>
    BY <1>4 DEF DoNothing, IntakeFails
  <2> HIDE DEF y
  <2>3. \A at \in {"again", "failed"} :
            [y EXCEPT !.at = at] \in AttemptSet /\ Answered([y EXCEPT !.at = at], proof)
    BY <2>1 DEF AttemptSet, Answered
  <2> QED
    BY <1>1, <2>2, <2>3
<1>5. ASSUME NEW a \in Attempts, AnswerAgain(a) PROVE IntakeInv'
  <2> DEFINE y == attempt[a]
  <2>1. y \in AttemptSet
    BY <1>0
  <2>2. PICK i \in DOMAIN proof :
            /\ proof[i].id = y.id
            /\ attempt' = [attempt EXCEPT ![a] =
                    [y EXCEPT !.at = "answered", !.row = i, !.amount = proof[i].amount,
                              !.status = proof[i].status]]
    BY <1>5 DEF AnswerAgain, OfRequest
  <2>3. i \in Nat /\ proof[i] \in ProofSet
    BY <1>0, <2>2
  <2> DEFINE x == [y EXCEPT !.at = "answered", !.row = i, !.amount = proof[i].amount,
                            !.status = proof[i].status]
  <2> HIDE DEF y
  <2>4. x \in AttemptSet /\ Answered(x, proof)
    BY <2>1, <2>2, <2>3 DEF AttemptSet, ProofSet, Answered
  <2>5. attempt' = [attempt EXCEPT ![a] = x] /\ UNCHANGED <<debt, proof>>
    BY <1>5, <2>2 DEF AnswerAgain
  <2> HIDE DEF x
  <2> QED
    BY <1>1, <2>4, <2>5
<1>6. CASE DebtChanges
  BY <1>6 DEF DebtChanges, IntakeInv, Answered
<1>7. ASSUME NEW i \in DOMAIN proof, ReviewOf(i) PROVE IntakeInv'
  <2>1. PICK new \in {"approved", "rejected"} : proof' = [proof EXCEPT ![i].status = new]
    BY <1>7 DEF ReviewOf
  <2> DEFINE y == proof[i]
             x == [y EXCEPT !.status = new]
  <2>2. y \in ProofSet /\ proof' = [proof EXCEPT ![i] = x]
    BY <1>0, <2>1
  <2>3. x \in ProofSet /\ x.id = y.id /\ x.amount = y.amount
    BY <2>2 DEF ProofSet
  <2> HIDE DEF x
  <2>4. /\ proof' \in Seq(ProofSet) /\ DOMAIN proof' = DOMAIN proof
        /\ \A k \in DOMAIN proof : proof'[k].id = proof[k].id /\ proof'[k].amount = proof[k].amount
    BY <1>0, <2>2, <2>3
  <2>5. UNCHANGED <<debt, attempt>>
    BY <1>7 DEF ReviewOf
  <2>6. \A a \in Attempts : Answered(attempt[a], proof')
    BY <1>0, <2>4 DEF Answered
  <2>7. \A j, k \in DOMAIN proof' :
            proof'[j].id = proof'[k].id /\ proof'[j].id # NoRequest => j = k
    BY <2>4 DEF IntakeInv
  <2> QED
    BY <1>0, <2>4, <2>5, <2>6, <2>7 DEF IntakeInv, Answered
<1>8. CASE UNCHANGED intakeVars
  BY <1>8 DEF intakeVars, IntakeInv, Answered
<1> QED
  BY <1>2, <1>3, <1>4, <1>5, <1>6, <1>7, <1>8 DEF IntakeNext

(* Any number of requests, sent again at any moment: one proof per request *)
(* id, and every answer names it with the amount stored in it.             *)
THEOREM OneProofPerRequest == IntakeSpec => []RetriesTellTheProof
<1>1. IntakeInit => IntakeInv
  BY IntakeConstants DEF IntakeInit, IntakeInv, Unsent, AttemptSet, Answered
<1>2. IntakeInv => RetriesTellTheProof
  BY DEF IntakeInv, Answered, RetriesTellTheProof
<1> QED
  BY <1>1, <1>2, IntakeStep, PTL DEF IntakeSpec

-----------------------------------------------------------------------------
(* Feedback.  One request at a time is past the check, and what it found   *)
(* (no row of its text that is late enough) stays true until it writes.    *)
FeedbackInv ==
    /\ TwinWindow \in Int /\ clock \in Int
    /\ note \subseteq [text : Texts \cup {"none"}, at : Int, by : Writers,
                       status : {"new", "processed"}]
    /\ writer \in [Writers -> [text : Texts \cup {"none"}, began : Int,
                               at : {"none", "waits", "writes"}]]
    /\ \A w, x \in Writers : writer[w].at = "writes" /\ writer[x].at = "writes" => w = x
    /\ \A w \in Writers : writer[w].at = "writes" => Lately(w) = {}
    /\ NoTwins

LEMMA FeedbackStep == FeedbackInv /\ [FeedbackNext]_feedbackVars => FeedbackInv'
<1> SUFFICES ASSUME FeedbackInv, [FeedbackNext]_feedbackVars PROVE FeedbackInv'
  OBVIOUS
<1> DEFINE Shape == [text : Texts \cup {"none"}, began : Int, at : {"none", "waits", "writes"}]
<1>0. NoWriter \in [text : {"none"}, began : Int, at : {"none"}]
  BY DEF NoWriter
<1>1. ASSUME NEW w \in Writers, NEW x \in Shape, writer' = [writer EXCEPT ![w] = x],
             x.at # "writes", UNCHANGED <<clock, note>>
      PROVE  FeedbackInv'
  BY <1>1 DEF FeedbackInv, Lately, NoTwins
<1>2. ASSUME NEW w \in Writers, NEW t \in Texts, CreateBegin(w, t) PROVE FeedbackInv'
  <2> DEFINE x == [text |-> t, began |-> clock, at |-> "waits"]
  <2>1. x \in Shape /\ x.at # "writes"
    BY DEF FeedbackInv
  <2>2. writer' = [writer EXCEPT ![w] = x] /\ UNCHANGED <<clock, note>>
    BY <1>2 DEF CreateBegin
  <2> QED
    BY <1>1, <2>1, <2>2
<1>3. ASSUME NEW w \in Writers, LookForTwin(w) PROVE FeedbackInv'
  <2>1. CASE Lately(w) = {}
    <3>1. /\ writer' = [writer EXCEPT ![w] = [writer[w] EXCEPT !.at = "writes"]]
          /\ \A x \in Writers : writer[x].at # "writes" /\ UNCHANGED <<clock, note>>
      BY <1>3, <2>1 DEF LookForTwin, UserLock
    <3>2. /\ \A x \in Writers \ {w} : writer'[x].at # "writes"
          /\ writer' \in [Writers -> Shape]
          /\ writer'[w].text = writer[w].text /\ writer'[w].began = writer[w].began
      BY <3>1 DEF FeedbackInv
    <3> QED
      BY <2>1, <3>1, <3>2 DEF FeedbackInv, Lately, NoTwins
  <2>2. CASE Lately(w) # {}
    BY <1>0, <1>1, <1>3, <2>2 DEF LookForTwin
  <2> QED
    BY <2>1, <2>2
<1>4. ASSUME NEW w \in Writers, Create(w) PROVE FeedbackInv'
  <2> DEFINE new == [text |-> writer[w].text, at |-> writer[w].began, by |-> w, status |-> "new"]
  <2>1. /\ writer[w].at = "writes" /\ note' = note \cup {new} /\ clock' = clock
        /\ writer' = [writer EXCEPT ![w] = NoWriter]
    BY <1>4 DEF Create
  <2>2. \A x \in Writers : writer'[x].at # "writes"
    BY <1>0, <2>1 DEF FeedbackInv
  <2>3. /\ \A n \in note : n.text = new.text => new.at > n.at + TwinWindow
        /\ new \in [text : Texts \cup {"none"}, at : Int, by : Writers, status : {"new", "processed"}]
    BY <2>1 DEF FeedbackInv, Lately
  <2>4. NoTwins'
    BY <2>1, <2>3 DEF FeedbackInv, NoTwins
  <2> QED
    BY <1>0, <2>1, <2>2, <2>3, <2>4 DEF FeedbackInv
<1>5. ASSUME NEW w \in Writers, CreateFails(w) PROVE FeedbackInv'
  BY <1>0, <1>1, <1>5 DEF CreateFails
<1>6. ASSUME NEW n \in note, NEW s \in {"new", "processed"}, UpdateStatus(n, s)
      PROVE  FeedbackInv'
  <2> DEFINE m == [n EXCEPT !.status = s]
  <2>1. /\ m \in [text : Texts \cup {"none"}, at : Int, by : Writers, status : {"new", "processed"}]
        /\ m.text = n.text /\ m.at = n.at
    BY DEF FeedbackInv
  <2>2. note' = (note \ {n}) \cup {m} /\ UNCHANGED <<clock, writer>>
    BY <1>6 DEF UpdateStatus
  <2> HIDE DEF m
  <2>3. NoTwins'
    BY <2>1, <2>2 DEF FeedbackInv, NoTwins
  <2>4. \A w \in Writers : Lately(w) = {} => Lately(w)' = {}
    BY <2>1, <2>2 DEF Lately
  <2> QED
    BY <2>1, <2>2, <2>3, <2>4 DEF FeedbackInv
<1>7. CASE Passes
  BY <1>7 DEF Passes, FeedbackInv, Lately, NoTwins
<1>8. CASE UNCHANGED feedbackVars
  BY <1>8 DEF feedbackVars, FeedbackInv, Lately, NoTwins
<1> QED
  BY <1>2, <1>3, <1>4, <1>5, <1>6, <1>7, <1>8 DEF FeedbackNext

(* A user's clicks and retries, in whatever order they get the lock, leave *)
(* no two rows of a text within the window.                                *)
THEOREM TextsStoredOnce == TwinWindow \in Int /\ FeedbackSpec => []NoTwins
<1>1. TwinWindow \in Int /\ FeedbackInit => FeedbackInv
  BY DEF FeedbackInit, FeedbackInv, NoWriter, NoTwins
<1>2. FeedbackInv => NoTwins
  BY DEF FeedbackInv
<1> QED
  BY <1>1, <1>2, FeedbackStep, PTL DEF FeedbackSpec

-----------------------------------------------------------------------------
(* The codes of an administrator.  A row is filled once, by the request it *)
(* is named after, and keeps its kind; a live recovery code is unused.     *)
CodesInv ==
    /\ slip \in [Rows -> [kind : Kinds \cup {"none"}, live : BOOLEAN, uses : Nat,
                          tries : Int, expired : BOOLEAN]]
    /\ ask \in [Asks -> [op : {"none", "made", "replace", "stored", "use", "verify"},
                         kind : Kinds \cup {"none"}, rows : SUBSET Rows]]
    /\ \A c \in Rows :
        /\ slip[c].kind # "none" => ask[c[1]] = Settled
        /\ slip[c].live => slip[c].kind # "none"
        /\ slip[c].live /\ slip[c].kind = "recovery" => slip[c].uses = 0
    /\ \A q \in Asks : ask[q].op \in {"use", "replace", "stored"} => ask[q].kind # "none"
    /\ \A q \in Asks : ask[q].op = "stored" => ask[q].kind = "bind"
    /\ \A q \in Asks : ask[q].op = "use" =>
        \A c \in ask[q].rows : slip[c].kind = ask[q].kind
    /\ RecoveryCodeUsedOnce

(* A step that leaves the rows alone, and one that leaves every row's kind *)
(* and revives none.                                                       *)
LEMMA AskStep ==
    ASSUME CodesInv, NEW q \in Asks, NEW x, ask' = [ask EXCEPT ![q] = x],
           x \in [op : {"none", "made", "replace", "stored", "use", "verify"},
                  kind : Kinds \cup {"none"}, rows : SUBSET Rows],
           ask[q] # Settled, UNCHANGED slip,
           x.op \in {"use", "replace", "stored"} => x.kind # "none",
           x.op = "stored" => x.kind = "bind",
           x.op = "use" => \A c \in x.rows : slip[c].kind = x.kind
    PROVE  CodesInv'
  BY DEF CodesInv, RecoveryCodeUsedOnce, Rows

LEMMA SlipStep ==
    ASSUME CodesInv,
           slip' \in [Rows -> [kind : Kinds \cup {"none"}, live : BOOLEAN, uses : Nat,
                               tries : Int, expired : BOOLEAN]],
           \A c \in Rows :
               /\ slip'[c].kind = slip[c].kind
               /\ slip'[c].live => slip[c].live /\ slip'[c].uses = slip[c].uses
               /\ slip[c].kind = "recovery" => slip'[c].uses <= 1,
           UNCHANGED ask
    PROVE  CodesInv'
  BY DEF CodesInv, RecoveryCodeUsedOnce

(* Requests that only begin, wait, or end.                                 *)
LEMMA AsksSafe ==
    ASSUME CodesInv, NEW q \in Asks,
           \/ OwnerRecoveryCodes(q) \/ RecoveryEmailResetRequest(q)
           \/ UpsertPendingRecoveryEmail(q) \/ CreateBindCode(q)
           \/ \E c \in Rows : UseBegin(q, c)
           \/ MarkRecoveryEmailVerified(q) \/ AskFails(q)
    PROVE  CodesInv'
<1> DEFINE Shape == [op : {"none", "made", "replace", "stored", "use", "verify"},
                     kind : Kinds \cup {"none"}, rows : SUBSET Rows]
<1>1. \A k \in Kinds : Live(k) \in SUBSET Rows
  BY DEF Live
<1>2. ASSUME NEW k \in Kinds, Begins(q, k), UNCHANGED slip PROVE CodesInv'
  <2> DEFINE x == [op |-> "replace", kind |-> k, rows |-> Live(k)]
  <2>1. x \in Shape /\ ask[q] # Settled /\ ask' = [ask EXCEPT ![q] = x] /\ x.kind # "none"
    BY <1>1, <1>2 DEF Begins, StartAsk, NotAsked, Settled, Kinds
  <2> QED
    BY <1>2, <2>1, AskStep
<1>3. ASSUME UpsertPendingRecoveryEmail(q) PROVE CodesInv'
  <2> DEFINE x == [op |-> "stored", kind |-> "bind", rows |-> {}]
  <2>1. x \in Shape /\ ask[q] # Settled /\ ask' = [ask EXCEPT ![q] = x] /\ x.kind # "none"
    BY <1>3 DEF UpsertPendingRecoveryEmail, StartAsk, NotAsked, Settled, Kinds
  <2> QED
    BY <1>3, <2>1, AskStep DEF UpsertPendingRecoveryEmail
<1>4. ASSUME CreateBindCode(q) PROVE CodesInv'
  <2> DEFINE x == [ask[q] EXCEPT !.op = "replace", !.rows = Live("bind")]
  <2>1. ask[q] \in Shape /\ ask[q].op = "stored" /\ ask[q].kind # "none"
    BY <1>4 DEF CreateBindCode, CodesInv
  <2>2. x \in Shape /\ x.op = "replace" /\ x.kind # "none"
    BY <1>1, <2>1 DEF Kinds
  <2>3. ask[q] # Settled /\ ask' = [ask EXCEPT ![q] = x] /\ UNCHANGED slip
    BY <1>4, <2>1 DEF CreateBindCode, Settled
  <2> HIDE DEF x
  <2> QED
    BY <2>2, <2>3, AskStep
<1>5. ASSUME NEW c \in Rows, UseBegin(q, c) PROVE CodesInv'
  <2> DEFINE x == [op |-> "use", kind |-> slip[c].kind, rows |-> {c}]
  <2>1. x \in Shape /\ x.kind # "none"
    BY <1>5 DEF UseBegin, Usable, CodesInv
  <2>2. ask[q] # Settled /\ ask' = [ask EXCEPT ![q] = x] /\ UNCHANGED slip
    BY <1>5 DEF UseBegin, StartAsk, NotAsked, Settled
  <2> QED
    BY <2>1, <2>2, AskStep
<1>6. ASSUME MarkRecoveryEmailVerified(q) \/ AskFails(q) PROVE CodesInv'
  <2>1. NotAsked \in Shape /\ NotAsked.op = "none"
    BY DEF NotAsked
  <2>2. ask[q] # Settled /\ ask' = [ask EXCEPT ![q] = NotAsked] /\ UNCHANGED slip
    BY <1>6 DEF MarkRecoveryEmailVerified, AskFails, EndAsk, InProgress, Settled
  <2> QED
    BY <2>1, <2>2, AskStep
<1> QED
  BY <1>2, <1>3, <1>4, <1>5, <1>6 DEF OwnerRecoveryCodes, RecoveryEmailResetRequest, Kinds

(* A new batch takes rows nobody has filled.                               *)
LEMMA ReplaceSafe ==
    ASSUME CodesInv, NEW q \in Asks, ReplaceCodes(q)
    PROVE  CodesInv'
<1> DEFINE k == ask[q].kind
           Code == [kind : Kinds \cup {"none"}, live : BOOLEAN, uses : Nat, tries : Int,
                    expired : BOOLEAN]
           new == [NoSlip EXCEPT !.kind = k, !.live = TRUE]
<1>1. /\ ask[q].op = "replace" /\ k \in Kinds /\ ask' = [ask EXCEPT ![q] = Settled]
      /\ slip \in [Rows -> Code]
  BY DEF ReplaceCodes, CodesInv
<1>2. new \in Code /\ new.kind = k /\ new.live /\ new.uses = 0
  <2>1. NoSlip \in Code /\ NoSlip.uses = 0
    BY DEF NoSlip
  <2>2. new \in Code /\ new.kind = k /\ new.uses = 0
    BY <1>1, <2>1
  <2>3. new.live
    BY <1>1, <2>1
  <2> QED
    BY <2>2, <2>3
<1>3. \A c \in Batch(q, k) : c[1] = q /\ (c \in Rows => slip[c].kind = "none")
  <2>1. \A c \in Batch(q, k) : c[1] = q
    BY DEF Batch
  <2>2. ask[q] # Settled
    BY <1>1 DEF Settled
  <2> QED
    BY <2>1, <2>2 DEF CodesInv
<1> HIDE DEF new
<1>4. slip' = [c \in Rows |->
                IF c \in Batch(q, k) THEN new
                ELSE IF c \in ask[q].rows THEN [slip[c] EXCEPT !.live = FALSE]
                ELSE slip[c]]
  BY DEF ReplaceCodes, new
<1>5. ASSUME NEW c \in Rows
      PROVE  /\ slip'[c] \in Code
             /\ c \in Batch(q, k) => slip'[c] = new
             /\ c \notin Batch(q, k) => /\ slip'[c].kind = slip[c].kind
                                        /\ slip'[c].uses = slip[c].uses
                                        /\ slip'[c].live => slip[c].live
  BY <1>1, <1>2, <1>4
<1>6. slip' \in [Rows -> Code]
  BY <1>4, <1>5
<1>7. /\ ask' \in [Asks -> [op : {"none", "made", "replace", "stored", "use", "verify"},
                            kind : Kinds \cup {"none"}, rows : SUBSET Rows]]
      /\ ask'[q] = Settled /\ Settled.op = "made"
      /\ \A r \in Asks \ {q} : ask'[r] = ask[r]
  BY <1>1 DEF Settled, CodesInv
<1>8. \A c \in Rows : slip'[c].kind # "none" => ask'[c[1]] = Settled
  <2> SUFFICES ASSUME NEW c \in Rows, slip'[c].kind # "none" PROVE ask'[c[1]] = Settled
    OBVIOUS
  <2>1. c[1] \in Asks
    BY DEF Rows
  <2> QED
    BY <1>3, <1>5, <1>7, <2>1 DEF CodesInv
<1>9. \A r \in Asks : ask'[r].op = "use" => \A c \in ask'[r].rows : slip'[c].kind = ask'[r].kind
  <2> SUFFICES ASSUME NEW r \in Asks, ask'[r].op = "use", NEW c \in ask'[r].rows
               PROVE  slip'[c].kind = ask'[r].kind
    OBVIOUS
  <2>1. r # q /\ ask'[r] = ask[r]
    BY <1>7
  <2>2. c \in Rows /\ slip[c].kind = ask[r].kind /\ ask[r].kind # "none"
    BY <2>1 DEF CodesInv
  <2> QED
    BY <1>3, <1>5, <2>1, <2>2
<1>10. \A c \in Rows :
        /\ slip'[c].live => slip'[c].kind # "none"
        /\ slip'[c].live /\ slip'[c].kind = "recovery" => slip'[c].uses = 0
        /\ slip'[c].kind = "recovery" => slip'[c].uses <= 1
  BY <1>1, <1>2, <1>5 DEF CodesInv, Kinds, RecoveryCodeUsedOnce
<1>11. \A r \in Asks :
        /\ ask'[r].op \in {"use", "replace", "stored"} => ask'[r].kind # "none"
        /\ ask'[r].op = "stored" => ask'[r].kind = "bind"
  BY <1>7 DEF CodesInv
<1> QED
  BY <1>6, <1>7, <1>8, <1>9, <1>10, <1>11 DEF CodesInv, RecoveryCodeUsedOnce

(* A code is spent: the rows first, then the end of the request.           *)
LEMMA SpendSafe ==
    ASSUME CodesInv, NEW q \in Asks, UseRecoveryCode(q) \/ UseResetCode(q) \/ UseBindCode(q)
    PROVE  CodesInv'
<1> DEFINE Code == [kind : Kinds \cup {"none"}, live : BOOLEAN, uses : Nat, tries : Int,
                    expired : BOOLEAN]
           Shape == [op : {"none", "made", "replace", "stored", "use", "verify"},
                     kind : Kinds \cup {"none"}, rows : SUBSET Rows]
<1>1. /\ slip \in [Rows -> Code] /\ ask \in [Asks -> Shape] /\ ask[q].op = "use"
      /\ \A c \in ask[q].rows : c \in Rows /\ slip[c].kind = ask[q].kind
  BY DEF CodesInv, UseRecoveryCode, UseResetCode, UseBindCode
<1>2. slip' = [c \in Rows |-> IF c \in ask[q].rows
                              THEN [slip[c] EXCEPT !.live = FALSE, !.uses = slip[c].uses + 1]
                              ELSE slip[c]]
  BY DEF UseRecoveryCode, UseResetCode, UseBindCode, Spend
<1>3. ASSUME NEW c \in Rows
      PROVE  /\ slip'[c] \in Code /\ slip'[c].kind = slip[c].kind
             /\ slip'[c].live => slip[c].live /\ slip'[c].uses = slip[c].uses
             /\ c \in ask[q].rows => slip'[c].uses = slip[c].uses + 1
             /\ c \notin ask[q].rows => slip'[c].uses = slip[c].uses
  <2>1. CASE c \in ask[q].rows
    <3>1. slip[c] \in Code
      BY <1>1
    <3>2. slip'[c] = [kind |-> slip[c].kind, live |-> FALSE, uses |-> slip[c].uses + 1,
                      tries |-> slip[c].tries, expired |-> slip[c].expired]
      BY <1>2, <2>1, <3>1
    <3>3. /\ slip[c].kind \in Kinds \cup {"none"} /\ slip[c].uses \in Nat
          /\ slip[c].tries \in Int /\ slip[c].expired \in BOOLEAN
      BY <3>1
    <3> QED
      BY <2>1, <3>2, <3>3
  <2>2. CASE c \notin ask[q].rows
    BY <1>1, <1>2, <2>2
  <2> QED
    BY <2>1, <2>2
<1>4. \A c \in Rows : slip'[c].kind = "recovery" => slip'[c].uses <= 1
  <2> SUFFICES ASSUME NEW c \in Rows, slip'[c].kind = "recovery" PROVE slip'[c].uses <= 1
    OBVIOUS
  <2>1. CASE c \in ask[q].rows
    <3>1. UseRecoveryCode(q)
      BY <1>1, <1>3, <2>1 DEF UseResetCode, UseBindCode
    <3>2. slip[c].live /\ slip[c].uses = 0
      BY <1>3, <2>1, <3>1 DEF UseRecoveryCode, CodesInv
    <3> QED
      BY <1>3, <2>1, <3>2
  <2>2. CASE c \notin ask[q].rows
    BY <1>3, <2>2 DEF CodesInv, RecoveryCodeUsedOnce
  <2> QED
    BY <2>1, <2>2
<1>5. PICK x \in Shape : ask' = [ask EXCEPT ![q] = x] /\ x.op \in {"none", "verify"}
  <2>1. /\ NotAsked \in Shape /\ NotAsked.op = "none"
        /\ [op |-> "verify", kind |-> "bind", rows |-> {}] \in Shape
    BY DEF NotAsked, Kinds
  <2> QED
    BY <2>1 DEF UseRecoveryCode, UseResetCode, UseBindCode, EndAsk
<1>6. \A c \in Rows : slip'[c].kind # "none" => ask'[c[1]] = Settled
  <2> SUFFICES ASSUME NEW c \in Rows, slip'[c].kind # "none" PROVE ask'[c[1]] = Settled
    OBVIOUS
  <2>1. ask[c[1]] = Settled /\ ask[q] # Settled
    BY <1>1, <1>3 DEF CodesInv, Settled
  <2> QED
    BY <1>1, <1>5, <2>1 DEF Rows
<1>7. /\ slip' \in [Rows -> Code] /\ ask' \in [Asks -> Shape]
      /\ ask'[q] = x /\ \A r \in Asks \ {q} : ask'[r] = ask[r]
  BY <1>1, <1>2, <1>3, <1>5
<1> QED
  BY <1>3, <1>4, <1>5, <1>6, <1>7 DEF CodesInv, RecoveryCodeUsedOnce

LEMMA CodesStep == CodesInv /\ [CodesNext]_codeVars => CodesInv'
<1> SUFFICES ASSUME CodesInv, [CodesNext]_codeVars PROVE CodesInv'
  OBVIOUS
<1>1. ASSUME NEW k \in {"bind", "reset"}, WrongEmailCode(k) PROVE CodesInv'
  <2>1. slip' = [c \in Rows |->
            IF c \in Live(k) /\ ~slip[c].expired
            THEN [slip[c] EXCEPT !.tries = IF slip[c].tries < MaxTries THEN slip[c].tries + 1
                                           ELSE slip[c].tries]
            ELSE slip[c]]
        /\ UNCHANGED ask
    BY <1>1 DEF WrongEmailCode
  <2> QED
    BY <2>1, SlipStep DEF CodesInv, RecoveryCodeUsedOnce
<1>2. ASSUME NEW c \in Rows, CodeExpires(c) PROVE CodesInv'
  <2>1. slip' = [slip EXCEPT ![c] = [slip[c] EXCEPT !.expired = TRUE]] /\ UNCHANGED ask
    BY <1>2 DEF CodeExpires
  <2>2. slip[c] \in [kind : Kinds \cup {"none"}, live : BOOLEAN, uses : Nat, tries : Int,
                     expired : BOOLEAN]
    BY DEF CodesInv
  <2>3. slip'[c] = [kind |-> slip[c].kind, live |-> slip[c].live, uses |-> slip[c].uses,
                    tries |-> slip[c].tries, expired |-> TRUE]
    BY <2>1, <2>2 DEF CodesInv
  <2>4. \A d \in Rows \ {c} : slip'[d] = slip[d]
    BY <2>1 DEF CodesInv
  <2>5. slip' \in [Rows -> [kind : Kinds \cup {"none"}, live : BOOLEAN, uses : Nat,
                            tries : Int, expired : BOOLEAN]]
    BY <2>1, <2>2, <2>3, <2>4 DEF CodesInv
  <2> QED
    BY <2>1, <2>3, <2>4, <2>5, SlipStep DEF CodesInv, RecoveryCodeUsedOnce
<1>3. CASE UNCHANGED codeVars
  BY <1>3 DEF codeVars, CodesInv, RecoveryCodeUsedOnce
<1> QED
  BY <1>1, <1>2, <1>3, AsksSafe, ReplaceSafe, SpendSafe DEF CodesNext

(* Two requests that both found a recovery code unused do not both reset   *)
(* the password with it.                                                   *)
THEOREM RecoveryCodesOneTime == CodesSpec => []RecoveryCodeUsedOnce
<1>1. CodesInit => CodesInv
  BY DEF CodesInit, CodesInv, NoSlip, NotAsked, RecoveryCodeUsedOnce
<1>2. CodesInv => RecoveryCodeUsedOnce
  BY DEF CodesInv
<1> QED
  BY <1>1, <1>2, CodesStep, PTL DEF CodesSpec

(* Requests that were open together know of each other, and a request that *)
(* is about to make codes has seen every live code of its kind, except the *)
(* codes of requests that were open beside it.                             *)
Neighbours ==
    /\ beside \in [Asks -> SUBSET Asks]
    /\ \A q, o \in Asks : o \in beside[q] => q \in beside[o]
    /\ \A q \in Asks : ask[q].op = "none" => beside[q] = {}
    /\ \A q, o \in InProgress : q # o => o \in beside[q]

Supersedes ==
    \A q \in Asks : ask[q].op = "replace" =>
        \A c \in Rows : slip[c].live /\ slip[c].kind = ask[q].kind =>
            c \in ask[q].rows \/ c[1] \in beside[q]

OverlapInv == CodesInv /\ Neighbours /\ Supersedes /\ TwoLiveMeansOverlap

(* A step of the rows that revives none.                                   *)
Dying == \A c \in Rows : /\ slip'[c].kind = slip[c].kind
                         /\ slip'[c].live => slip[c].live

(* A code that is live was made by a request that is over.                 *)
LEMMA MakersSettled ==
    ASSUME CodesInv, NEW c \in Rows, slip[c].live
    PROVE  c[1] \in Asks /\ ask[c[1]].op = "made" /\ c[1] \notin InProgress
  BY DEF CodesInv, Rows, Settled, InProgress

LEMMA AskOverlap ==
    ASSUME OverlapInv, NEW q \in Asks, NEW x, StartAsk(q, x), UNCHANGED slip,
           x.op \in {"stored", "use"} \/ (x.op = "replace" /\ x.rows = Live(x.kind))
    PROVE  Neighbours' /\ Supersedes' /\ TwoLiveMeansOverlap'
<1> DEFINE P == InProgress
<1>1. /\ q \notin P /\ P \subseteq Asks /\ ask' = [ask EXCEPT ![q] = x]
      /\ beside' = [o \in Asks |-> IF o = q THEN P
                                   ELSE IF o \in P THEN beside[o] \cup {q} ELSE beside[o]]
      /\ beside \in [Asks -> SUBSET Asks] /\ ask[q].op = "none"
  BY DEF StartAsk, InProgress, NotAsked, OverlapInv, Neighbours
<1>2. /\ ask'[q] = x /\ \A o \in Asks \ {q} : ask'[o] = ask[o]
      /\ beside'[q] = P
      /\ \A o \in P : beside'[o] = beside[o] \cup {q}
      /\ \A o \in (Asks \ P) \ {q} : beside'[o] = beside[o]
  BY <1>1 DEF OverlapInv, CodesInv
<1>3. InProgress' = P \cup {q}
  BY <1>2 DEF InProgress
<1>4. \A o \in Asks : q \notin beside[o]
  BY <1>1 DEF OverlapInv, Neighbours
<1> HIDE DEF P
<1>5. Neighbours'
  <2>1. beside' \in [Asks -> SUBSET Asks]
    BY <1>1
  <2>2. \A r, o \in Asks : o \in beside'[r] => r \in beside'[o]
    BY <1>1, <1>2, <1>4 DEF OverlapInv, Neighbours
  <2>3. \A r \in Asks : ask'[r].op = "none" => beside'[r] = {}
    <3> SUFFICES ASSUME NEW r \in Asks, ask'[r].op = "none" PROVE beside'[r] = {}
      OBVIOUS
    <3>1. r # q /\ ask[r].op = "none" /\ r \notin P
      BY <1>2 DEF P, InProgress
    <3> QED
      BY <3>1, <1>2 DEF OverlapInv, Neighbours
  <2>4. \A r, o \in InProgress' : r # o => o \in beside'[r]
    BY <1>1, <1>2, <1>3 DEF OverlapInv, Neighbours, P
  <2> QED
    BY <2>1, <2>2, <2>3, <2>4 DEF Neighbours
<1>6. Supersedes'
  <2> SUFFICES ASSUME NEW r \in Asks, ask'[r].op = "replace",
                      NEW c \in Rows, slip[c].live, slip[c].kind = ask'[r].kind
               PROVE  c \in ask'[r].rows \/ c[1] \in beside'[r]
    BY DEF Supersedes, Rows
  <2>1. CASE r = q
    BY <1>2, <2>1 DEF Live
  <2>2. CASE r # q
    BY <1>1, <1>2, <2>2 DEF OverlapInv, Supersedes
  <2> QED
    BY <2>1, <2>2
<1>7. TwoLiveMeansOverlap'
  <2> SUFFICES ASSUME NEW c \in Rows, NEW d \in Rows, slip[c].kind = slip[d].kind,
                      slip[c].live, slip[d].live, c[1] # d[1]
               PROVE  c[1] \in beside'[d[1]] /\ d[1] \in beside'[c[1]]
    BY DEF TwoLiveMeansOverlap, Rows
  <2>1. c[1] \in Asks /\ d[1] \in Asks /\ c[1] \in beside[d[1]] /\ d[1] \in beside[c[1]]
    BY MakersSettled DEF OverlapInv, TwoLiveMeansOverlap
  <2>2. beside[d[1]] \subseteq beside'[d[1]] /\ beside[c[1]] \subseteq beside'[c[1]]
    BY <1>1, <1>2, <1>4, <2>1 DEF OverlapInv, Neighbours
  <2> QED
    BY <2>1, <2>2
<1> QED
  BY <1>5, <1>6, <1>7

LEMMA EndOverlap ==
    ASSUME OverlapInv, NEW q \in InProgress, EndAsk(q), Dying
    PROVE  Neighbours' /\ Supersedes' /\ TwoLiveMeansOverlap'
<1>1. /\ q \in Asks /\ beside \in [Asks -> SUBSET Asks]
      /\ ask'[q] = NotAsked /\ \A o \in Asks \ {q} : ask'[o] = ask[o]
      /\ beside' = [o \in Asks |-> IF o = q THEN {} ELSE beside[o] \ {q}]
  BY DEF EndAsk, InProgress, OverlapInv, CodesInv, Neighbours
<1>2. InProgress' = InProgress \ {q}
  BY <1>1 DEF InProgress, NotAsked
<1>3. Neighbours'
  <2>1. beside' \in [Asks -> SUBSET Asks]
    BY <1>1
  <2>2. \A r, o \in Asks : o \in beside'[r] => r \in beside'[o]
    BY <1>1 DEF OverlapInv, Neighbours
  <2>3. \A r \in Asks : ask'[r].op = "none" => beside'[r] = {}
    BY <1>1 DEF OverlapInv, Neighbours
  <2>4. \A r, o \in InProgress' : r # o => o \in beside'[r]
    BY <1>1, <1>2 DEF OverlapInv, Neighbours, InProgress
  <2> QED
    BY <2>1, <2>2, <2>3, <2>4 DEF Neighbours
<1>4. \A c \in Rows : slip'[c].live => slip[c].live /\ c[1] \in Asks \ {q}
  BY MakersSettled DEF Dying, OverlapInv
<1>5. Supersedes'
  <2> SUFFICES ASSUME NEW r \in Asks, ask'[r].op = "replace",
                      NEW c \in Rows, slip'[c].live, slip'[c].kind = ask'[r].kind
               PROVE  c \in ask'[r].rows \/ c[1] \in beside'[r]
    BY DEF Supersedes, Rows
  <2>1. r # q /\ ask'[r] = ask[r] /\ slip[c].live /\ slip[c].kind = ask[r].kind /\ c[1] # q
    BY <1>1, <1>4 DEF Dying, NotAsked
  <2> QED
    BY <1>1, <2>1 DEF OverlapInv, Supersedes
<1>6. TwoLiveMeansOverlap'
  <2> SUFFICES ASSUME NEW c \in Rows, NEW d \in Rows, slip'[c].kind = slip'[d].kind,
                      slip'[c].live, slip'[d].live, c[1] # d[1]
               PROVE  c[1] \in beside'[d[1]] /\ d[1] \in beside'[c[1]]
    BY DEF TwoLiveMeansOverlap, Rows
  <2>1. c[1] \in beside[d[1]] /\ d[1] \in beside[c[1]]
    BY <1>4 DEF Dying, OverlapInv, TwoLiveMeansOverlap
  <2> QED
    BY <1>1, <1>4, <2>1
<1> QED
  BY <1>3, <1>5, <1>6

LEMMA StayOverlap ==
    ASSUME OverlapInv, UNCHANGED beside, Dying, InProgress' = InProgress,
           \A q \in Asks : ask'[q].op = "none" => ask[q].op = "none",
           \A q \in Asks : ask'[q].op = "replace" =>
                ask'[q] = ask[q] \/ (UNCHANGED slip /\ ask'[q].rows = Live(ask'[q].kind))
    PROVE  Neighbours' /\ Supersedes' /\ TwoLiveMeansOverlap'
<1>1. Neighbours'
  BY DEF OverlapInv, Neighbours
<1>2. Supersedes'
  <2> SUFFICES ASSUME NEW r \in Asks, ask'[r].op = "replace",
                      NEW c \in Rows, slip'[c].live, slip'[c].kind = ask'[r].kind
               PROVE  c \in ask'[r].rows \/ c[1] \in beside'[r]
    BY DEF Supersedes, Rows
  <2>1. CASE ask'[r] = ask[r]
    BY <2>1 DEF OverlapInv, Supersedes, Dying
  <2>2. CASE UNCHANGED slip /\ ask'[r].rows = Live(ask'[r].kind)
    BY <2>2 DEF Live
  <2> QED
    BY <2>1, <2>2
<1>3. TwoLiveMeansOverlap'
  BY DEF OverlapInv, TwoLiveMeansOverlap, Dying, Rows
<1> QED
  BY <1>1, <1>2, <1>3

(* A batch takes effect: what its request saw is dead, and what it did not *)
(* see was made beside it.                                                 *)
LEMMA ReplaceOverlap ==
    ASSUME OverlapInv, NEW q \in Asks, ReplaceCodes(q)
    PROVE  Neighbours' /\ Supersedes' /\ TwoLiveMeansOverlap'
<1> DEFINE k == ask[q].kind
           new == [NoSlip EXCEPT !.kind = k, !.live = TRUE]
<1>1. /\ ask[q].op = "replace" /\ k \in Kinds /\ UNCHANGED beside /\ q \in InProgress
      /\ ask'[q] = Settled /\ \A o \in Asks \ {q} : ask'[o] = ask[o]
  BY DEF ReplaceCodes, OverlapInv, CodesInv, InProgress
<1>2. InProgress' = InProgress \ {q}
  BY <1>1 DEF InProgress, Settled
<1>3. new.kind = k
  BY DEF NoSlip
<1> HIDE DEF new
<1>4. slip' = [c \in Rows |->
                IF c \in Batch(q, k) THEN new
                ELSE IF c \in ask[q].rows THEN [slip[c] EXCEPT !.live = FALSE]
                ELSE slip[c]]
  BY DEF ReplaceCodes, new
<1>5. ASSUME NEW c \in Rows, slip'[c].live
      PROVE  \/ c[1] = q /\ slip'[c].kind = k
             \/ slip'[c] = slip[c] /\ c \notin ask[q].rows /\ c[1] \in Asks /\ c[1] # q
  <2>1. CASE c \in Batch(q, k)
    BY <1>3, <1>4, <2>1 DEF Batch
  <2>2. CASE c \notin Batch(q, k) /\ c \in ask[q].rows
    BY <1>4, <1>5, <2>2 DEF OverlapInv, CodesInv
  <2>3. CASE c \notin Batch(q, k) /\ c \notin ask[q].rows
    BY <1>1, <1>4, <1>5, <2>3, MakersSettled DEF OverlapInv
  <2> QED
    BY <2>1, <2>2, <2>3
<1>6. Neighbours'
  <2>1. \A r \in Asks : ask'[r].op = "none" => ask[r].op = "none"
    BY <1>1 DEF Settled
  <2> QED
    BY <1>1, <1>2, <2>1 DEF OverlapInv, Neighbours
<1>7. Supersedes'
  <2> SUFFICES ASSUME NEW r \in Asks, ask'[r].op = "replace",
                      NEW c \in Rows, slip'[c].live, slip'[c].kind = ask'[r].kind
               PROVE  c \in ask'[r].rows \/ c[1] \in beside'[r]
    BY DEF Supersedes, Rows
  <2>1. r # q /\ ask'[r] = ask[r] /\ r \in InProgress
    BY <1>1 DEF Settled, InProgress
  <2>2. CASE c[1] = q
    BY <1>1, <2>1, <2>2 DEF OverlapInv, Neighbours
  <2>3. CASE slip'[c] = slip[c]
    BY <1>1, <2>1, <2>3 DEF OverlapInv, Supersedes
  <2> QED
    BY <1>5, <2>2, <2>3
<1>8. ASSUME NEW c \in Rows, slip'[c].live, slip'[c].kind = k, c[1] # q
      PROVE  c[1] \in beside[q] /\ q \in beside[c[1]]
  <2>1. slip'[c] = slip[c] /\ c \notin ask[q].rows /\ c[1] \in Asks
    BY <1>5, <1>8
  <2>2. c[1] \in beside[q]
    BY <1>1, <1>8, <2>1 DEF OverlapInv, Supersedes
  <2> QED
    BY <2>1, <2>2 DEF OverlapInv, Neighbours
<1>9. TwoLiveMeansOverlap'
  <2> SUFFICES ASSUME NEW c \in Rows, NEW d \in Rows, slip'[c].kind = slip'[d].kind,
                      slip'[c].live, slip'[d].live, c[1] # d[1]
               PROVE  c[1] \in beside'[d[1]] /\ d[1] \in beside'[c[1]]
    BY DEF TwoLiveMeansOverlap, Rows
  <2>1. CASE c[1] = q
    BY <1>1, <1>5, <1>8, <2>1
  <2>2. CASE d[1] = q
    BY <1>1, <1>5, <1>8, <2>2
  <2>3. CASE c[1] # q /\ d[1] # q
    BY <1>1, <1>5, <2>3 DEF OverlapInv, TwoLiveMeansOverlap
  <2> QED
    BY <2>1, <2>2, <2>3
<1> QED
  BY <1>6, <1>7, <1>9

LEMMA OverlapStep == OverlapInv /\ [CodesNext]_codeVars => OverlapInv'
<1> SUFFICES ASSUME OverlapInv, [CodesNext]_codeVars
             PROVE  Neighbours' /\ Supersedes' /\ TwoLiveMeansOverlap'
  BY CodesStep DEF OverlapInv
<1>1. ASSUME NEW q \in Asks, NEW k \in Kinds, Begins(q, k), UNCHANGED slip
      PROVE  Neighbours' /\ Supersedes' /\ TwoLiveMeansOverlap'
  BY <1>1, AskOverlap DEF Begins
<1>2. ASSUME NEW q \in Asks, UpsertPendingRecoveryEmail(q)
      PROVE  Neighbours' /\ Supersedes' /\ TwoLiveMeansOverlap'
  BY <1>2, AskOverlap DEF UpsertPendingRecoveryEmail
<1>3. ASSUME NEW q \in Asks, NEW c \in Rows, UseBegin(q, c)
      PROVE  Neighbours' /\ Supersedes' /\ TwoLiveMeansOverlap'
  BY <1>3, AskOverlap DEF UseBegin
<1>4. ASSUME NEW q \in Asks, CreateBindCode(q)
      PROVE  Neighbours' /\ Supersedes' /\ TwoLiveMeansOverlap'
  <2>1. /\ ask[q].op = "stored" /\ ask[q].kind = "bind" /\ UNCHANGED <<slip, beside>>
        /\ ask' = [ask EXCEPT ![q] = [ask[q] EXCEPT !.op = "replace", !.rows = Live("bind")]]
        /\ ask \in [Asks -> [op : {"none", "made", "replace", "stored", "use", "verify"},
                            kind : Kinds \cup {"none"}, rows : SUBSET Rows]]
    BY <1>4 DEF CreateBindCode, OverlapInv, CodesInv
  <2>2. /\ ask'[q].op = "replace" /\ ask'[q].kind = "bind" /\ ask'[q].rows = Live("bind")
        /\ \A r \in Asks \ {q} : ask'[r] = ask[r]
    BY <2>1
  <2>3. InProgress' = InProgress /\ Dying
    BY <2>1, <2>2 DEF InProgress, Dying
  <2> QED
    BY <2>1, <2>2, <2>3, StayOverlap
<1>5. ASSUME NEW q \in Asks, UseRecoveryCode(q) \/ UseResetCode(q) \/ UseBindCode(q)
      PROVE  Dying /\ q \in InProgress
  <2>1. /\ q \in InProgress
        /\ slip' = [c \in Rows |-> IF c \in ask[q].rows
                                   THEN [slip[c] EXCEPT !.live = FALSE, !.uses = slip[c].uses + 1]
                                   ELSE slip[c]]
    BY <1>5 DEF UseRecoveryCode, UseResetCode, UseBindCode, Spend, InProgress
  <2>2. \A c \in Rows : slip[c] \in [kind : Kinds \cup {"none"}, live : BOOLEAN, uses : Nat,
                                     tries : Int, expired : BOOLEAN]
    BY DEF OverlapInv, CodesInv
  <2> QED
    BY <2>1, <2>2 DEF Dying
<1>6. ASSUME NEW q \in Asks, UseBindCode(q)
      PROVE  Neighbours' /\ Supersedes' /\ TwoLiveMeansOverlap'
  <2>1. /\ ask' = [ask EXCEPT ![q] = [op |-> "verify", kind |-> "bind", rows |-> {}]]
        /\ ask[q].op = "use" /\ UNCHANGED beside
    BY <1>6 DEF UseBindCode
  <2>2. ask'[q].op = "verify" /\ \A r \in Asks \ {q} : ask'[r] = ask[r]
    BY <2>1 DEF OverlapInv, CodesInv
  <2>3. InProgress' = InProgress
    BY <2>1, <2>2 DEF InProgress
  <2> QED
    BY <1>5, <1>6, <2>1, <2>2, <2>3, StayOverlap
<1>7. ASSUME NEW q \in Asks, UseRecoveryCode(q) \/ UseResetCode(q)
      PROVE  Neighbours' /\ Supersedes' /\ TwoLiveMeansOverlap'
  BY <1>5, <1>7, EndOverlap DEF UseRecoveryCode, UseResetCode
<1>8. ASSUME NEW q \in Asks, MarkRecoveryEmailVerified(q) \/ AskFails(q)
      PROVE  Neighbours' /\ Supersedes' /\ TwoLiveMeansOverlap'
  <2>1. q \in InProgress /\ EndAsk(q) /\ UNCHANGED slip
    BY <1>8 DEF MarkRecoveryEmailVerified, AskFails, InProgress
  <2> QED
    BY <2>1, EndOverlap DEF Dying
<1>9. ASSUME Dying, UNCHANGED <<ask, beside>>
      PROVE  Neighbours' /\ Supersedes' /\ TwoLiveMeansOverlap'
  BY <1>9, StayOverlap DEF InProgress
<1>10. ASSUME NEW k, WrongEmailCode(k) PROVE Dying /\ UNCHANGED <<ask, beside>>
  BY <1>10 DEF WrongEmailCode, Dying, OverlapInv, CodesInv
<1>11. ASSUME NEW c \in Rows, CodeExpires(c) PROVE Dying /\ UNCHANGED <<ask, beside>>
  BY <1>11 DEF CodeExpires, Dying, OverlapInv, CodesInv
<1>12. CASE UNCHANGED codeVars
  BY <1>9, <1>12 DEF codeVars, Dying
<1>13. CASE CodesNext
  BY <1>1, <1>2, <1>3, <1>4, <1>6, <1>7, <1>8, <1>9, <1>10, <1>11, <1>13, ReplaceOverlap
  DEF CodesNext, OwnerRecoveryCodes, RecoveryEmailResetRequest, Kinds
<1> QED
  BY <1>12, <1>13

(* Codes of one kind from two requests are live together only if the two   *)
(* requests were open at the same time: a batch supersedes every code that *)
(* had been made when its request began.                                   *)
THEOREM TwoLiveOnlyTogether == CodesSpec => []TwoLiveMeansOverlap
<1>1. CodesInit => OverlapInv
  BY DEF CodesInit, OverlapInv, CodesInv, Neighbours, Supersedes, TwoLiveMeansOverlap,
         RecoveryCodeUsedOnce, NoSlip, NotAsked, InProgress
<1>2. OverlapInv => TwoLiveMeansOverlap
  BY DEF OverlapInv
<1> QED
  BY <1>1, <1>2, OverlapStep, PTL DEF CodesSpec

-----------------------------------------------------------------------------
(* The tables of a limiter.  A cleaned table is a part of what it was.     *)
LEMMA CleanFacts ==
    ASSUME NEW f
    PROVE  /\ DOMAIN CleanAttempts(f) \subseteq DOMAIN f
           /\ DOMAIN CleanFailures(f) \subseteq DOMAIN f
           /\ DOMAIN CleanAudits(f) \subseteq DOMAIN f
           /\ \A p \in DOMAIN f : now <= f[p].until => p \in DOMAIN CleanFailures(f)
           /\ \A p \in DOMAIN CleanFailures(f) : CleanFailures(f)[p] = f[p]
  BY DEF CleanAttempts, CleanFailures, CleanAudits, Restrict

LEMMA DropFacts ==
    ASSUME NEW f, NEW k
    PROVE  /\ DOMAIN Drop(f, k) = DOMAIN f \ {k}
           /\ \A p \in DOMAIN Drop(f, k) : Drop(f, k)[p] = f[p]
  BY DEF Drop, Restrict

LEMMA WithFacts ==
    ASSUME NEW f, NEW k, NEW v
    PROVE  /\ DOMAIN With(f, k, v) = DOMAIN f \cup {k} /\ With(f, k, v)[k] = v
           /\ \A p \in DOMAIN f : p # k => With(f, k, v)[p] = f[p]
  BY DEF With

(* A table within its bound, and one with room.                            *)
Bounded(f) == IsFiniteSet(DOMAIN f) /\ Size(f) <= MaxTrackedKeys
Roomy(f) == IsFiniteSet(DOMAIN f) /\ Size(f) < MaxTrackedKeys

LEMMA PartBounded ==
    ASSUME NEW f, NEW g, Bounded(f), DOMAIN g \subseteq DOMAIN f
    PROVE  Bounded(g)
<1>1. IsFiniteSet(DOMAIN g) /\ Cardinality(DOMAIN g) <= Cardinality(DOMAIN f)
  BY FS_Subset DEF Bounded
<1>2. Cardinality(DOMAIN f) \in Nat /\ Cardinality(DOMAIN g) \in Nat /\ MaxTrackedKeys \in Nat
  BY <1>1, FS_CardinalityType, LimiterConstants DEF Bounded
<1> QED
  BY <1>1, <1>2 DEF Bounded, Size

LEMMA WithBounded ==
    ASSUME NEW f, NEW k, NEW v, Roomy(f)
    PROVE  Bounded(With(f, k, v))
<1> DEFINE D == DOMAIN f
<1>1. IsFiniteSet(D) /\ Cardinality(D) < MaxTrackedKeys
  BY DEF Roomy, Size
<1> HIDE DEF D
<1>2. /\ IsFiniteSet(D \cup {k}) /\ Cardinality(D) \in Nat
      /\ Cardinality(D \cup {k}) = IF k \in D THEN Cardinality(D) ELSE Cardinality(D) + 1
  BY <1>1, FS_AddElement, FS_CardinalityType
<1>3. Cardinality(D \cup {k}) <= MaxTrackedKeys
  BY <1>1, <1>2, LimiterConstants
<1>4. DOMAIN With(f, k, v) = D \cup {k}
  BY WithFacts DEF D
<1> QED
  BY <1>2, <1>3, <1>4 DEF Bounded, Size

LEMMA DropRoomy ==
    ASSUME NEW f, NEW k \in DOMAIN f, Bounded(f)
    PROVE  Roomy(Drop(f, k))
<1> DEFINE D == DOMAIN f
<1>1. IsFiniteSet(D) /\ Cardinality(D) <= MaxTrackedKeys /\ k \in D
  BY DEF Bounded, Size
<1> HIDE DEF D
<1>2. IsFiniteSet(D \ {k}) /\ Cardinality(D) \in Nat /\ Cardinality(D \ {k}) = Cardinality(D) - 1
  BY <1>1, FS_RemoveElement, FS_CardinalityType
<1>3. Cardinality(D \ {k}) < MaxTrackedKeys
  BY <1>1, <1>2, LimiterConstants
<1>4. DOMAIN Drop(f, k) = D \ {k}
  BY DropFacts DEF D
<1> QED
  BY <1>2, <1>3, <1>4 DEF Roomy, Size

(* A table that has made room has it.                                      *)
LEMMA RoomMade ==
    ASSUME NEW f, Bounded(f)
    PROVE  /\ \A g \in AttemptsRoom(f) : Roomy(g)
           /\ \A g \in FailuresRoom(f) : Roomy(g)
<1>1. Size(f) < MaxTrackedKeys => Roomy(f)
  BY DEF Bounded, Roomy
<1>2. ASSUME NEW g \in AttemptsRoom(f) PROVE Roomy(g)
  BY <1>1, <1>2, DropRoomy DEF AttemptsRoom, Oldest
<1>3. ASSUME NEW g \in FailuresRoom(f) PROVE Roomy(g)
  <2> DEFINE h == CleanFailures(f)
  <2>1. Bounded(h)
    BY CleanFacts, PartBounded
  <2>2. Size(h) < MaxTrackedKeys => Roomy(h)
    BY <2>1 DEF Bounded, Roomy
  <2>3. \A p \in DOMAIN h : Roomy(Drop(h, p))
    BY <2>1, DropRoomy
  <2> HIDE DEF h
  <2>4. \/ g = f /\ Size(f) < MaxTrackedKeys
        \/ g = h /\ Size(h) < MaxTrackedKeys
        \/ \E p \in DOMAIN h : g = Drop(h, p)
    BY <1>3 DEF FailuresRoom, Oldest, h
  <2> QED
    BY <1>1, <2>2, <2>3, <2>4
<1> QED
  BY <1>2, <1>3

BoundedInv == Bounded(attempts) /\ Bounded(failures) /\ Bounded(audits)

LEMMA TablesStep ==
    ASSUME BoundedInv, NEW i, NEW f \in Tables(i)
    PROVE  Bounded(Count(f, i))
<1>1. Bounded(CleanAttempts(attempts))
  BY CleanFacts, PartBounded DEF BoundedInv
<1>2. Bounded(f)
  BY <1>1, RoomMade, WithBounded DEF Tables
<1>3. DOMAIN Count(f, i) = DOMAIN f
  BY DEF Count
<1> QED
  BY <1>2, <1>3, PartBounded

LEMMA BoundedStep == BoundedInv /\ [LimiterNext]_limiterVars => BoundedInv'
<1> SUFFICES ASSUME BoundedInv, [LimiterNext]_limiterVars PROVE BoundedInv'
  OBVIOUS
<1>1. /\ Bounded(CleanAttempts(attempts)) /\ Bounded(CleanFailures(failures))
      /\ Bounded(CleanAudits(audits))
  BY CleanFacts, PartBounded DEF BoundedInv
<1>2. ASSUME NEW f, NEW p, Bounded(f) PROVE Bounded(Touched(f, p)) /\ Bounded(Drop(f, p))
  <2>1. DOMAIN Touched(f, p) = DOMAIN f /\ DOMAIN Drop(f, p) \subseteq DOMAIN f
    BY DropFacts DEF Touched
  <2> QED
    BY <1>2, <2>1, PartBounded
<1>3. ASSUME NEW p \in Pairs, Allow(p) PROVE BoundedInv'
  BY <1>1, <1>2, <1>3, TablesStep DEF Allow, BoundedInv
<1>4. ASSUME NEW p \in Pairs, Refuse(p) PROVE BoundedInv'
  <2>1. Bounded(AfterAudit(p))
    <3>1. Size(CleanAudits(audits)) < MaxTrackedKeys => Roomy(CleanAudits(audits))
      BY <1>1 DEF Bounded, Roomy
    <3> QED
      BY <1>1, <3>1, WithBounded DEF AfterAudit
  <2>2. Bounded(attempts') /\ Bounded(failures')
    BY <1>1, <1>2, <1>4, TablesStep DEF Refuse
  <2> QED
    BY <1>4, <2>1, <2>2 DEF Refuse, BoundedInv
<1>5. ASSUME NEW p \in Pairs, RecordFailure(p) PROVE BoundedInv'
  <2>1. Bounded(attempts') /\ Bounded(audits')
    BY <1>1, <1>5 DEF RecordFailure, BoundedInv
  <2>2. CASE p \in DOMAIN failures
    <3>1. DOMAIN failures' = DOMAIN failures
      BY <1>5, <2>2 DEF RecordFailure
    <3> QED
      BY <2>1, <3>1, PartBounded DEF BoundedInv
  <2>3. CASE p \notin DOMAIN failures
    <3>1. \/ \E f \in FailuresRoom(failures) : failures' = With(f, p, Failed(NewTracked))
          \/ failures' \in {CleanFailures(failures), failures}
      BY <1>5, <2>3 DEF RecordFailure
    <3>2. Bounded(failures')
      BY <1>1, <3>1, RoomMade, WithBounded DEF BoundedInv
    <3> QED
      BY <2>1, <3>2 DEF BoundedInv
  <2> QED
    BY <2>2, <2>3
<1>6. ASSUME NEW p \in Pairs, RecordSuccess(p) PROVE BoundedInv'
  BY <1>2, <1>6 DEF RecordSuccess, BoundedInv
<1>7. ASSUME NEW p \in Pairs, NothingRecorded(p) PROVE BoundedInv'
  BY <1>7 DEF NothingRecorded, BoundedInv
<1>8. ASSUME NEW p \in Pairs, Release(p) PROVE BoundedInv'
  <2>1. DOMAIN attempts' = DOMAIN attempts /\ failures' = Drop(failures, p) /\ UNCHANGED audits
    BY <1>8 DEF Release
  <2> QED
    BY <1>2, <2>1, PartBounded DEF BoundedInv
<1>9. ASSUME NEW n \in Names, ReleaseForCN(n) PROVE BoundedInv'
  <2>1. DOMAIN failures' \subseteq DOMAIN failures /\ UNCHANGED <<attempts, audits>>
    BY <1>9 DEF ReleaseForCN, Restrict
  <2> QED
    BY <2>1, PartBounded DEF BoundedInv
<1>10. ASSUME Tick PROVE BoundedInv'
  BY <1>10 DEF Tick, BoundedInv
<1>11. CASE UNCHANGED limiterVars
  BY <1>11 DEF limiterVars, BoundedInv
<1> QED
  BY <1>3, <1>4, <1>5, <1>6, <1>7, <1>8, <1>9, <1>10, <1>11 DEF LimiterNext

(* However many addresses and names call, and however many requests are    *)
(* between allow and their record, no table of a limiter outgrows its      *)
(* bound.                                                                  *)
THEOREM LimiterTablesBounded == LimiterSpec => []TablesBounded
<1>1. LimiterInit => BoundedInv
  <2> SUFFICES ASSUME LimiterInit PROVE BoundedInv
    OBVIOUS
  <2>1. DOMAIN attempts = {} /\ DOMAIN failures = {} /\ DOMAIN audits = {}
    BY DEF LimiterInit
  <2> QED
    BY <2>1, FS_EmptySet, LimiterConstants DEF BoundedInv, Bounded, Size
<1>2. BoundedInv => TablesBounded
  BY DEF BoundedInv, Bounded, TablesBounded
<1> QED
  BY <1>1, <1>2, BoundedStep, PTL DEF LimiterSpec
(* No pair is blocked for longer than one block from now: a failure that   *)
(* blocks a pair again never shortens its block.                           *)
Entry == [since : Int, count : Int, until : Int, seen : Int]
Timely(f, t) == \A p \in DOMAIN f : f[p] \in Entry /\ f[p].until <= t + BlockDuration
BlockInv == now \in Nat /\ Timely(failures, now)

(* A table of failures that no pair leaves before its block is over, but   *)
(* for the pairs of S.                                                     *)
Keeps(f, g, S) ==
    \A p \in DOMAIN f : p \notin S /\ now < f[p].until =>
        p \in DOMAIN g /\ g[p].until >= f[p].until

LEMMA FailedFacts ==
    ASSUME now \in Nat, NEW e \in Entry, e.until <= now + BlockDuration
    PROVE  /\ Failed(e) \in Entry
           /\ e.until <= Failed(e).until /\ Failed(e).until <= now + BlockDuration
<1> DEFINE c == IF now - e.since >= FailureWindow
                THEN [e EXCEPT !.since = now, !.count = 1, !.seen = Seen]
                ELSE [e EXCEPT !.count = e.count + 1, !.seen = Seen]
<1>1. Seen \in Int /\ BlockDuration \in Nat /\ FailureWindow \in Nat /\ MaxFailures \in Nat
  BY LimiterConstants DEF Seen
<1>2. c \in Entry /\ c.until = e.until
  <2>1. CASE now - e.since >= FailureWindow
    <3>1. c = [since |-> now, count |-> 1, until |-> e.until, seen |-> Seen]
      BY <2>1 DEF Entry
    <3> QED
      BY <1>1, <3>1 DEF Entry
  <2>2. CASE ~(now - e.since >= FailureWindow)
    <3>1. c = [since |-> e.since, count |-> e.count + 1, until |-> e.until, seen |-> Seen]
      BY <2>2 DEF Entry
    <3> QED
      BY <1>1, <3>1 DEF Entry
  <2> QED
    BY <2>1, <2>2
<1>3. Failed(e) = IF c.count >= MaxFailures
                  THEN [c EXCEPT !.until = now + BlockDuration, !.count = 0, !.since = now]
                  ELSE c
  BY DEF Failed
<1> HIDE DEF c
<1>4. CASE c.count >= MaxFailures
  <2>1. Failed(e) = [since |-> now, count |-> 0, until |-> now + BlockDuration, seen |-> c.seen]
    BY <1>2, <1>3, <1>4 DEF Entry
  <2>2. c.seen \in Int /\ e.until \in Int
    BY <1>2 DEF Entry
  <2> QED
    BY <1>1, <2>1, <2>2 DEF Entry
<1>5. CASE ~(c.count >= MaxFailures)
  BY <1>2, <1>3, <1>5 DEF Entry
<1> QED
  BY <1>4, <1>5

(* Cleaning, marking as seen and making room keep every block.             *)
LEMMA KeptByAll ==
    ASSUME BlockInv
    PROVE  /\ Timely(CleanFailures(failures), now)
           /\ Keeps(failures, CleanFailures(failures), {})
           /\ \A p : LET g == Touched(CleanFailures(failures), p)
                       IN  Timely(g, now) /\ Keeps(failures, g, {})
           /\ \A p : Timely(Drop(failures, p), now) /\ Keeps(failures, Drop(failures, p), {p})
           /\ \A g \in FailuresRoom(failures) : Timely(g, now) /\ Keeps(failures, g, {})
<1> DEFINE h == CleanFailures(failures)
<1>1. Timely(h, now) /\ \A p \in DOMAIN h : p \in DOMAIN failures /\ h[p] = failures[p]
  BY CleanFacts DEF BlockInv, Timely
<1>2. \A p \in DOMAIN failures : now < failures[p].until => p \in DOMAIN h
  BY CleanFacts DEF BlockInv, Timely, Entry
<1> HIDE DEF h
<1>3. Keeps(failures, h, {})
  BY <1>1, <1>2 DEF Keeps, BlockInv, Timely, Entry
<1>4. ASSUME NEW p PROVE Timely(Touched(h, p), now) /\ Keeps(failures, Touched(h, p), {})
  <2>1. CASE p \notin DOMAIN h
    BY <1>1, <1>3, <2>1 DEF Touched
  <2>2. CASE p \in DOMAIN h
    <3>1. Seen \in Int
      BY DEF Seen, BlockInv
    <3>2. /\ DOMAIN Touched(h, p) = DOMAIN h
          /\ \A o \in DOMAIN h : o # p => Touched(h, p)[o] = h[o]
          /\ Touched(h, p)[p] = [h[p] EXCEPT !.seen = Seen]
      BY <2>2 DEF Touched
    <3>3. h[p] \in Entry
      BY <1>1, <2>2 DEF Timely
    <3>4. Touched(h, p)[p] = [since |-> h[p].since, count |-> h[p].count,
                              until |-> h[p].until, seen |-> Seen]
      BY <3>2, <3>3 DEF Entry
    <3>5. Touched(h, p)[p] \in Entry /\ Touched(h, p)[p].until = h[p].until
      BY <3>1, <3>3, <3>4 DEF Entry
    <3> QED
      <4>1. \A o \in DOMAIN h : /\ Touched(h, p)[o] \in Entry
                                /\ Touched(h, p)[o].until = h[o].until
        BY <1>1, <3>2, <3>5 DEF Timely
      <4>2. Timely(Touched(h, p), now)
        BY <1>1, <3>2, <4>1 DEF Timely
      <4>3. Keeps(failures, Touched(h, p), {})
        BY <1>3, <3>2, <4>1 DEF Keeps
      <4> QED
        BY <4>2, <4>3
  <2> QED
    BY <2>1, <2>2
<1>5. ASSUME NEW p PROVE Timely(Drop(failures, p), now) /\ Keeps(failures, Drop(failures, p), {p})
  <2>1. /\ DOMAIN Drop(failures, p) = DOMAIN failures \ {p}
        /\ \A o \in DOMAIN failures \ {p} : Drop(failures, p)[o] = failures[o]
    BY DropFacts
  <2>2. \A o \in DOMAIN failures : failures[o] \in Entry /\ failures[o].until >= failures[o].until
    BY DEF BlockInv, Timely, Entry
  <2> QED
    BY <2>1, <2>2 DEF Timely, Keeps, BlockInv
<1>6. ASSUME NEW g \in FailuresRoom(failures) PROVE Timely(g, now) /\ Keeps(failures, g, {})
  <2>1. \/ g = failures \/ g = h
        \/ \E p \in DOMAIN h : now >= h[p].until /\ g = Drop(h, p)
    BY <1>6 DEF FailuresRoom, Oldest, h
  <2>2. CASE g = failures
    BY <2>2 DEF Keeps, BlockInv, Timely, Entry
  <2>3. CASE g = h
    BY <1>1, <1>3, <2>3
  <2>4. ASSUME NEW p \in DOMAIN h, now >= h[p].until, g = Drop(h, p)
        PROVE  Timely(g, now) /\ Keeps(failures, g, {})
    <3>1. DOMAIN g = DOMAIN h \ {p} /\ \A o \in DOMAIN g : g[o] = h[o]
      BY <2>4, DropFacts
    <3>2. \A o \in DOMAIN failures : now < failures[o].until => o \in DOMAIN g
      BY <1>1, <1>2, <2>4, <3>1 DEF BlockInv, Timely, Entry
    <3> QED
      BY <1>1, <1>3, <3>1, <3>2 DEF Timely, Keeps
  <2> QED
    BY <2>1, <2>2, <2>3, <2>4
<1> QED
  BY <1>1, <1>3, <1>4, <1>5, <1>6 DEF h

(* What one step does to the table of failures.                            *)
LEMMA BlockStep ==
    ASSUME BlockInv, [LimiterNext]_limiterVars
    PROVE  /\ BlockInv'
           /\ \A p \in Pairs :
                Blocked(p) => \/ now' >= failures[p].until
                              \/ p \in DOMAIN failures' /\ failures'[p].until >= failures[p].until
                              \/ RecordSuccess(p) \/ Release(p) \/ ReleaseForCN(p[2])
<1> DEFINE Held(p) == \/ now' >= failures[p].until
                      \/ p \in DOMAIN failures' /\ failures'[p].until >= failures[p].until
                      \/ RecordSuccess(p) \/ Release(p) \/ ReleaseForCN(p[2])
           Goal == BlockInv' /\ \A p \in Pairs : Blocked(p) => Held(p)
<1>1. ASSUME UNCHANGED now, Timely(failures', now), Keeps(failures, failures', {})
      PROVE  Goal
  BY <1>1 DEF BlockInv, Keeps, Blocked, Timely
<1>2. ASSUME NEW p \in Pairs, Allow(p) PROVE Goal
  BY <1>1, <1>2, KeptByAll DEF Allow
<1>3. ASSUME NEW p \in Pairs, Refuse(p) PROVE Goal
  <2>1. UNCHANGED now /\ \/ failures' = CleanFailures(failures)
                         \/ failures' = Touched(CleanFailures(failures), p)
    BY <1>3 DEF Refuse
  <2> QED
    BY <1>1, <2>1, KeptByAll
<1>4. ASSUME NEW p \in Pairs, RecordFailure(p) PROVE Goal
  <2>1. UNCHANGED now
    BY <1>4 DEF RecordFailure, Done
  <2>2. CASE p \in DOMAIN failures
    <3>1. failures' = [failures EXCEPT ![p] = Failed(failures[p])]
      BY <1>4, <2>2 DEF RecordFailure
    <3>2. /\ Failed(failures[p]) \in Entry
          /\ failures[p].until <= Failed(failures[p]).until
          /\ Failed(failures[p]).until <= now + BlockDuration
      BY <2>2, FailedFacts DEF BlockInv, Timely
    <3>3. Timely(failures', now)
      BY <3>1, <3>2 DEF BlockInv, Timely
    <3>4. Keeps(failures, failures', {})
      BY <3>1, <3>2 DEF BlockInv, Timely, Keeps, Entry
    <3> QED
      BY <1>1, <2>1, <3>3, <3>4
  <2>3. CASE p \notin DOMAIN failures
    <3>1. \/ \E f \in FailuresRoom(failures) : failures' = With(f, p, Failed(NewTracked))
          \/ failures' \in {CleanFailures(failures), failures}
      BY <1>4, <2>3 DEF RecordFailure
    <3>2. CASE failures' \in {CleanFailures(failures), failures}
      <4>1. Timely(failures', now) /\ Keeps(failures, failures', {})
        BY <3>2, KeptByAll DEF BlockInv, Timely, Keeps, Entry
      <4> QED
        BY <1>1, <2>1, <4>1
    <3>3. ASSUME NEW f \in FailuresRoom(failures), failures' = With(f, p, Failed(NewTracked))
          PROVE  Goal
      <4>1. Timely(f, now) /\ Keeps(failures, f, {})
        BY KeptByAll
      <4>2. NewTracked \in Entry /\ NewTracked.until <= now + BlockDuration
        BY LimiterConstants DEF NewTracked, Entry, Seen, BlockInv
      <4>3. Failed(NewTracked) \in Entry /\ Failed(NewTracked).until <= now + BlockDuration
        BY <4>2, FailedFacts DEF BlockInv
      <4>4. /\ DOMAIN failures' = DOMAIN f \cup {p} /\ failures'[p] = Failed(NewTracked)
            /\ \A o \in DOMAIN f : o # p => failures'[o] = f[o]
        <5> DEFINE v == Failed(NewTracked)
        <5>1. failures' = With(f, p, v)
          BY <3>3
        <5> HIDE DEF v
        <5>2. /\ DOMAIN With(f, p, v) = DOMAIN f \cup {p} /\ With(f, p, v)[p] = v
              /\ \A o \in DOMAIN f : o # p => With(f, p, v)[o] = f[o]
          BY DEF With
        <5>3. v = Failed(NewTracked)
          BY DEF v
        <5> QED
          BY <5>1, <5>2, <5>3
      <4>5. Timely(failures', now)
        BY <4>1, <4>3, <4>4 DEF Timely
      <4>6. Keeps(failures, failures', {})
        BY <2>3, <4>1, <4>4 DEF Keeps
      <4> QED
        BY <1>1, <2>1, <4>5, <4>6
    <3> QED
      BY <3>1, <3>2, <3>3
  <2> QED
    BY <2>2, <2>3
<1>5. ASSUME NEW p \in Pairs, RecordSuccess(p) \/ Release(p) PROVE Goal
  <2>1. UNCHANGED now /\ failures' = Drop(failures, p)
    BY <1>5 DEF RecordSuccess, Release, Done
  <2>2. Timely(failures', now) /\ Keeps(failures, failures', {p})
    BY <2>1, KeptByAll
  <2>3. \A o \in Pairs : Blocked(o) => Held(o)
    BY <1>5, <2>2 DEF Blocked, Keeps
  <2> QED
    BY <2>1, <2>2, <2>3 DEF BlockInv
<1>6. ASSUME NEW p \in Pairs, NothingRecorded(p) PROVE Goal
  BY <1>6 DEF NothingRecorded, Done, BlockInv, Timely, Blocked, Entry
<1>7. ASSUME NEW n \in Names, ReleaseForCN(n) PROVE Goal
  <2>1. /\ UNCHANGED now /\ \A p \in DOMAIN failures' : p \in DOMAIN failures /\ failures'[p] = failures[p]
        /\ \A p \in DOMAIN failures : p[2] # n => p \in DOMAIN failures'
    BY <1>7 DEF ReleaseForCN, Restrict
  <2>2. BlockInv'
    BY <2>1 DEF BlockInv, Timely
  <2>3. \A p \in Pairs : Blocked(p) => Held(p)
    BY <1>7, <2>1 DEF Blocked, BlockInv, Timely, Entry
  <2> QED
    BY <2>2, <2>3
<1>8. ASSUME Tick PROVE Goal
  BY <1>8, LimiterConstants DEF Tick, BlockInv, Timely, Blocked, Entry
<1>9. CASE UNCHANGED limiterVars
  BY <1>9 DEF limiterVars, BlockInv, Timely, Blocked, Entry
<1> QED
  BY <1>2, <1>3, <1>4, <1>5, <1>6, <1>7, <1>8, <1>9 DEF LimiterNext

(* A pair that is blocked stays blocked until its time is over, unless it  *)
(* logs in or is released: neither cleaning the table, nor a full table,   *)
(* nor another failure of the pair itself ends its block.                  *)
THEOREM BlocksHold == LimiterSpec => BlockHolds
<1>1. LimiterInit => BlockInv
  BY DEF LimiterInit, BlockInv, Timely
<1>2. BlockInv /\ [LimiterNext]_limiterVars =>
        BlockInv' /\ [\A p \in Pairs :
            Blocked(p) => \/ now' >= failures[p].until
                          \/ p \in DOMAIN failures' /\ failures'[p].until >= failures[p].until
                          \/ RecordSuccess(p) \/ Release(p) \/ ReleaseForCN(p[2])]_limiterVars
  BY BlockStep
<1> QED
  BY <1>1, <1>2, PTL DEF LimiterSpec, BlockHolds

-----------------------------------------------------------------------------
(* One item's account.  Only finitely many payments are approved at a time,*)
(* since each step approves at most one more: their sum is well defined for*)
(* any set of payments that may still come.                                *)
AccountInv ==
    /\ amount \in Nat /\ applied \in [Instalments -> Nat]
    /\ IsFiniteSet(Approved) /\ PaidSum <= amount

LEMMA AccountFacts ==
    ASSUME AccountInv
    PROVE  /\ PaidSum \in Nat
           /\ PaidSum = 0 <=> Approved = {}
           /\ \A p \in Approved : applied[p] \in Nat /\ applied[p] > 0
  <1>1. \A p \in Approved : applied[p] \in Nat /\ applied[p] > 0
    BY DEF AccountInv, Approved
  <1>2. IsFiniteSet(Approved)
    BY DEF AccountInv
  <1> QED
    BY <1>1, <1>2, SumNat DEF PaidSum

LEMMA AccountInit == Init => AccountInv
  <1> SUFFICES ASSUME Init
               PROVE  AccountInv
    OBVIOUS
  <1>1. amount \in Nat /\ applied \in [Instalments -> Nat] /\ Approved = {}
    BY AccountConstants DEF Init, Approved
  <1>2. IsFiniteSet(Approved) /\ PaidSum = 0
    BY <1>1, FS_EmptySet, SumUnfold DEF PaidSum
  <1> QED
    BY <1>1, <1>2 DEF AccountInv

LEMMA PayStep ==
    ASSUME AccountInv, NEW p \in Instalments, NEW cents \in Cents, Pay(p, cents)
    PROVE  AccountInv'
  <1>1. /\ cents \in Nat \ {0} /\ amount' = amount /\ p \notin Approved
        /\ applied' = [applied EXCEPT ![p] = cents] /\ applied' \in [Instalments -> Nat]
        /\ ~ExceedsRemaining(cents, PaidSum, amount)
    BY AccountConstants DEF Pay, AccountInv, Approved
  <1>2. Approved' = Approved \cup {p}
    BY <1>1 DEF AccountInv, Approved
  <1>3. IsFiniteSet(Approved')
    BY <1>2, FS_AddElement DEF AccountInv
  <1>4. PaidSum' = applied'[p] + SumFunctionOnSet(applied', Approved' \ {p})
    <2>1. \A x \in Approved' : applied'[x] \in Int
      BY <1>1 DEF Approved
    <2>2. p \in Approved'
      BY <1>2
    <2> QED
      BY <2>1, <2>2, <1>3, SumRemove DEF PaidSum
  <1>5. SumFunctionOnSet(applied', Approved' \ {p}) = PaidSum
    <2>1. Approved' \ {p} = Approved /\ \A x \in Approved : applied'[x] = applied[x]
      BY <1>1, <1>2 DEF AccountInv, Approved
    <2>2. SumFunctionOnSet(applied', Approved) = SumFunctionOnSet(applied, Approved)
      BY <2>1, SumSame DEF AccountInv
    <2> QED
      BY <2>1, <2>2 DEF PaidSum
  <1>6. PaidSum' = cents + PaidSum
    BY <1>1, <1>4, <1>5 DEF AccountInv
  <1>7. PaidSum + cents <= amount
    BY <1>1, AccountFacts, AllowedPaymentFits DEF AccountInv
  <1>8. PaidSum' <= amount'
    BY <1>1, <1>6, <1>7, AccountFacts
  <1> QED
    BY <1>1, <1>3, <1>8 DEF AccountInv

LEMMA VoidStep ==
    ASSUME AccountInv, NEW p \in Instalments, Void(p)
    PROVE  AccountInv'
  <1>1. /\ amount' = amount /\ p \in Approved
        /\ applied' = [applied EXCEPT ![p] = 0] /\ applied' \in [Instalments -> Nat]
    BY DEF Void, AccountInv, Approved
  <1>2. Approved' = Approved \ {p}
    BY <1>1 DEF AccountInv, Approved
  <1>3. IsFiniteSet(Approved')
    BY <1>2, FS_RemoveElement DEF AccountInv
  <1>4. PaidSum = applied[p] + SumFunctionOnSet(applied, Approved \ {p})
    BY <1>1, AccountFacts, SumRemove DEF PaidSum, AccountInv
  <1>5. PaidSum' = SumFunctionOnSet(applied, Approved \ {p})
    <2>1. \A x \in Approved' : applied'[x] = applied[x]
      BY <1>1, <1>2 DEF AccountInv, Approved
    <2>2. SumFunctionOnSet(applied', Approved') = SumFunctionOnSet(applied, Approved')
      BY <2>1, <1>3, SumSame
    <2> QED
      BY <2>2, <1>2 DEF PaidSum
  <1>6. SumFunctionOnSet(applied, Approved \ {p}) \in Nat
    BY <1>2, <1>3, AccountFacts, SumNat
  <1>7. PaidSum' <= amount'
    BY <1>1, <1>4, <1>5, <1>6, AccountFacts DEF AccountInv
  <1> QED
    BY <1>1, <1>3, <1>7 DEF AccountInv

LEMMA AccountStep == AccountInv /\ [Next]_vars => AccountInv'
  <1> SUFFICES ASSUME AccountInv, [Next]_vars
               PROVE  AccountInv'
    OBVIOUS
  <1>1. CASE UNCHANGED vars
    BY <1>1 DEF AccountInv, vars, Approved, PaidSum
  <1> QED
    BY <1>1, PayStep, VoidStep DEF Next

(* However many instalments and voids of whatever amounts, one at a time   *)
(* they never pay more than the item costs: the 0.005 that CreatePaymentTx *)
(* tolerates is less than a cent and does not add up over payments.        *)
THEOREM ItemNeverOverPaid == Spec => []NeverOverPaid
  <1>1. AccountInv => NeverOverPaid
    BY DEF AccountInv, NeverOverPaid
  <1> QED
    BY <1>1, AccountInit, AccountStep, PTL DEF Spec

(* The status of the item says exactly whether all, some or none of it is  *)
(* paid; it rests on the sum never being above the amount.                 *)
THEOREM ItemStatusExact == Spec => []StatusIsExact
  <1>1. AccountInv => StatusIsExact
    <2> SUFFICES ASSUME AccountInv
                 PROVE  StatusIsExact
      OBVIOUS
    <2>1. PaidSum \in Nat /\ amount \in Nat /\ PaidSum <= amount
      BY AccountFacts DEF AccountInv
    <2>2. /\ Status = "unpaid" <=> PaidSum = 0
          /\ Status = "paid" <=> PaidSum > 0 /\ PaidSum >= amount
      BY <2>1, ItemStatusIsExact DEF Status
    <2>3. Status = "paid" <=> PaidSum > 0 /\ PaidSum = amount
      BY <2>1, <2>2
    <2> QED
      BY <2>2, <2>3, AccountFacts DEF StatusIsExact
  <1> QED
    BY <1>1, AccountInit, AccountStep, PTL DEF Spec

(* Fees that are rounded up one by one lose nothing, and cost less than a  *)
(* cent each.                                                              *)
LEMMA FeesAddUp ==
    ASSUME NEW f, NEW g, NEW S, IsFiniteSet(S),
           \A x \in S : /\ f[x] \in Nat /\ g[x] \in Nat
                        /\ f[x] <= 1000 * g[x] /\ 1000 * g[x] <= f[x] + 999
    PROVE  /\ SumFunctionOnSet(f, S) <= 1000 * SumFunctionOnSet(g, S)
           /\ 1000 * SumFunctionOnSet(g, S) <= SumFunctionOnSet(f, S) + 999 * Cardinality(S)
  <1> DEFINE Between(T) ==
                /\ SumFunctionOnSet(f, T) <= 1000 * SumFunctionOnSet(g, T)
                /\ 1000 * SumFunctionOnSet(g, T)
                        <= SumFunctionOnSet(f, T) + 999 * Cardinality(T)
             B == {T \in SUBSET S : ~Between(T)}
  <1> SUFFICES ASSUME B # {}
               PROVE  FALSE
    OBVIOUS
  <1>1. PICK T \in B : \A U \in SUBSET T : U # T => U \notin B
    <2>1. B \in SUBSET SUBSET S
      OBVIOUS
    <2> HIDE DEF B
    <2> QED
      BY <2>1, Smallest
  <1>2. IsFiniteSet(T) /\ T \in SUBSET S
    BY FS_Subset
  <1>3. T # {}
    <2>1. /\ SumFunctionOnSet(f, {}) = 0 /\ SumFunctionOnSet(g, {}) = 0
          /\ Cardinality({}) = 0
      BY SumEmpty, FS_EmptySet
    <2>2. Between({})
      BY <2>1
    <2> HIDE DEF Between
    <2> QED
      BY <2>2
  <1>4. PICK x \in T : TRUE
    BY <1>3
  <1>5. Between(T \ {x})
    BY <1>1, <1>2
  <1>6. /\ IsFiniteSet(T \ {x}) /\ Cardinality(T \ {x}) = Cardinality(T) - 1
        /\ Cardinality(T) \in Nat
    BY <1>2, FS_RemoveElement, FS_CardinalityType
  <1>7. /\ SumFunctionOnSet(f, T) = f[x] + SumFunctionOnSet(f, T \ {x})
        /\ SumFunctionOnSet(g, T) = g[x] + SumFunctionOnSet(g, T \ {x})
    BY <1>2, SumRemove
  <1>8. SumFunctionOnSet(f, T \ {x}) \in Nat /\ SumFunctionOnSet(g, T \ {x}) \in Nat
    BY <1>2, <1>6, SumNat
  <1>9. /\ f[x] \in Nat /\ g[x] \in Nat
        /\ f[x] <= 1000 * g[x] /\ 1000 * g[x] <= f[x] + 999
    BY <1>2
  <1>10. Between(T)
    BY <1>5, <1>6, <1>7, <1>8, <1>9
  <1> QED
    BY <1>10

(* The fee of the whole is the least that covers a thousandth; instalments *)
(* never lower what is paid in fees and add less than a cent each, however *)
(* many there are.                                                         *)
THEOREM ItemFeesRoundUp == Spec => []FeeRoundsUp
  <1>1. AccountInv => FeeRoundsUp
    <2> SUFFICES ASSUME AccountInv
                 PROVE  FeeRoundsUp
      OBVIOUS
    <2> DEFINE whole == Fee(PaidSum, "wechat")
               fee == [p \in Instalments |-> Fee(applied[p], "wechat")]
               parts == SumFunctionOnSet(fee, Approved)
               n == Cardinality(Approved)
    <2>1. PaidSum \in Nat /\ IsFiniteSet(Approved) /\ n \in Nat
      BY AccountFacts, FS_CardinalityType DEF AccountInv
    <2>2. /\ whole \in Nat
          /\ 1000 * whole >= PaidSum /\ 1000 * whole < PaidSum + 1000
      BY <2>1, WechatFee
    <2>3. \A p \in Approved : /\ applied[p] \in Nat /\ fee[p] \in Nat
                              /\ applied[p] <= 1000 * fee[p]
                              /\ 1000 * fee[p] <= applied[p] + 999
      <3> TAKE p \in Approved
      <3>1. applied[p] \in Nat /\ fee[p] = Fee(applied[p], "wechat")
        BY AccountFacts DEF Approved
      <3>2. /\ Fee(applied[p], "wechat") \in Nat
            /\ 1000 * Fee(applied[p], "wechat") >= applied[p]
            /\ 1000 * Fee(applied[p], "wechat") < applied[p] + 1000
        BY <3>1, WechatFee
      <3> HIDE DEF fee
      <3> QED
        BY <3>1, <3>2
    <2>4. parts \in Nat /\ PaidSum <= 1000 * parts /\ 1000 * parts <= PaidSum + 999 * n
      <3> HIDE DEF fee
      <3> QED
        BY <2>1, <2>3, SumNat, FeesAddUp DEF PaidSum
    <2>5. whole <= parts /\ (Approved # {} => parts < whole + n)
      <3>1. Approved # {} => n > 0
        BY <2>1, FS_EmptySet
      <3> HIDE DEF whole, parts, n
      <3> QED
        BY <2>1, <2>2, <2>4, <3>1
    <2>6. 1000 * whole >= PaidSum /\ 1000 * (whole - 1) < PaidSum
      <3> HIDE DEF whole
      <3> QED
        BY <2>1, <2>2
    <2>7. \A m \in Methods \ {"wechat"} : Payable(PaidSum, m) = PaidSum
      BY <2>1 DEF Payable, Fee
    <2> QED
      BY <2>5, <2>6, <2>7 DEF FeeRoundsUp
  <1> QED
    BY <1>1, AccountInit, AccountStep, PTL DEF Spec
=============================================================================
