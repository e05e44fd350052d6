------------------------------ MODULE MCOffice ------------------------------
(* Components that share no state, each checked by itself in one run:      *)
(* "part" says which one takes its steps.                                  *)
EXTENDS ItemAccount, AdminAccounts, AdminCodes, LoginLimiter, ImportBatch, PaymentQR,
        Feedback, Migrations, ProofIntake, ImportRules, MCSheets, TLC

VARIABLE part

officeVars == <<part, vars, adminVars, codeVars, limiterVars, importVars, qrVars, feedbackVars,
                migrationVars, intakeVars, ruleVars, sheetVars>>

Parts == {"item", "accounts", "codes", "limiter", "imports", "qr", "feedback", "migrations",
          "intake", "rules", "sheets"}

NoSheet == [template |-> "simple", rows |-> 0, cols |-> 0, blocks |-> <<>>]

OfficeInit ==
    /\ part \in Parts
    /\ Init /\ AdminInit /\ CodesInit /\ LimiterInit /\ ImportInit /\ QRInit /\ FeedbackInit
    /\ MigrationsInit /\ IntakeInit /\ RulesInit
    /\ IF part = "sheets" THEN SheetInit ELSE layout = NoSheet /\ grid = <<>> /\ edits = 0
    /\ part # "item" => amount = 0
    /\ part # "limiter" => limiter = "query"
    /\ part # "intake" => debt = 0

Only(p) ==
    /\ part = p /\ UNCHANGED part
    /\ p # "item" => UNCHANGED vars
    /\ p # "accounts" => UNCHANGED adminVars
    /\ p # "codes" => UNCHANGED codeVars
    /\ p # "limiter" => UNCHANGED limiterVars
    /\ p # "imports" => UNCHANGED importVars
    /\ p # "qr" => UNCHANGED qrVars
    /\ p # "feedback" => UNCHANGED feedbackVars
    /\ p # "migrations" => UNCHANGED migrationVars
    /\ p # "intake" => UNCHANGED intakeVars
    /\ p # "rules" => UNCHANGED ruleVars
    /\ p # "sheets" => UNCHANGED sheetVars

OfficeNext ==
    \/ Only("item") /\ Next
    \/ Only("accounts") /\ AdminNext
    \/ Only("codes") /\ CodesNext
    \/ Only("limiter") /\ LimiterNext
    \/ Only("imports") /\ ImportNext
    \/ Only("qr") /\ QRNext
    \/ Only("feedback") /\ FeedbackNext
    \/ Only("migrations") /\ MigrationsNext
    \/ Only("intake") /\ IntakeNext
    \/ Only("rules") /\ RulesNext
    \/ Only("sheets") /\ SheetNext

OfficeSpec == OfficeInit /\ [][OfficeNext]_officeVars

MCBilled == ("f1" :> {"cn1", "cn2"}) @@ ("f2" :> {"cn2"})
MCFlaw == ("f1" :> "warning") @@ ("f2" :> "none")
MCShipped == ("old" :> {1, 3}) @@ ("older" :> {1, 3}) @@ ("new" :> {1, 2, 3})
Detail(i, s, b, o, c) ==
    [id |-> i, sheet |-> s, batch |-> b, original |-> o, cn |-> c, category |-> "badge",
     quantity |-> 1, amount |-> i * i]
MCPreview == {Detail(1, "s1", "b1", "Ann", "ann"), Detail(2, "s1", "b1", "ann", "ann"),
              Detail(3, "s2", "b2", "Ann", "ann")}
(* Model values are shared between the parts, so that the group of all      *)
(* permutations stays small.                                               *)
SymOffice == Permutations(Admins) \cup Permutations(AdminJobs)
             \cup Permutations(AdminSessions)
=============================================================================
