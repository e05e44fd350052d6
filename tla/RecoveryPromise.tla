--------------------------- MODULE RecoveryPromise ---------------------------
(***************************************************************************)
(* What the recovery of a forgotten query code promises one user: a code   *)
(* is issued, becomes usable once it has been mailed, is turned into the   *)
(* right to set a new query code once, and that right is used once.  At    *)
(* any moment the user has one thing in hand at most; whatever is begun    *)
(* anew puts an end to what was begun before, and what has ended stays so. *)
(*                                                                         *)
(* No clock, no mail and no transaction appears here: MailedCodes is shown *)
(* to implement this.                                                      *)
(***************************************************************************)
CONSTANT Codes      \* identities a recovery code can get

VARIABLE stage      \* how far each code has come

Stages == {"new", "issued", "usable", "proved", "changed", "dead"}
Open == {"issued", "usable", "proved"}

Init == stage = [c \in Codes |-> "new"]

(* Code c comes to s; everything else that is open ends.                   *)
Only(c, s) ==
    stage' = [d \in Codes |-> IF d = c THEN s
                              ELSE IF stage[d] \in Open THEN "dead" ELSE stage[d]]

Issue(c)  == stage[c] = "new"    /\ Only(c, "issued")
Admit(c)  == stage[c] = "issued" /\ Only(c, "usable")
Prove(c)  == stage[c] = "usable" /\ Only(c, "proved")
Change(c) == stage[c] = "proved" /\ Only(c, "changed")

(* Expiry, a lost mail, too many wrong entries, or an administrator.       *)
End(c) == stage[c] \in Open /\ stage' = [stage EXCEPT ![c] = "dead"]

Next == \E c \in Codes : Issue(c) \/ Admit(c) \/ Prove(c) \/ Change(c) \/ End(c)

Spec == Init /\ [][Next]_stage

-----------------------------------------------------------------------------
(* The user holds one code or one reset session at most, never both (the   *)
(* two partial unique indexes of migration 0018, and more: they do not     *)
(* relate codes to sessions).                                              *)
OneOpen == \A c, d \in Codes : stage[c] \in Open /\ stage[d] \in Open => c = d
=============================================================================
