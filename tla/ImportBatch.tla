----------------------------- MODULE ImportBatch -----------------------------
(***************************************************************************)
(* The life of an import batch: a file is previewed, confirmed and        *)
(* revoked.  Package importpreview, handler.go; what the file says is in   *)
(* ImportRules, what becomes of the orders afterwards in PaymentLedger.    *)
(*                                                                         *)
(* A confirmation and a revocation lock the row of their batch and are one *)
(* action each.  A preview locks nothing: it looks for a batch of the same *)
(* file in one statement and writes in another, so a confirmation or a     *)
(* revocation may come between.  A batch is named by its file, which is    *)
(* unique (file_hash); so is the code of the project that a confirmation   *)
(* makes of it.                                                            *)
(***************************************************************************)
EXTENDS Integers, FiniteSets

CONSTANTS
    Files,
    CNs,
    Billed,         \* of a file: the CNs its preview bills
    Flaw,           \* of a file: "none", "warning" or "fatal"
    Uploads         \* requests that preview a file, in flight

ASSUME ImportConstants ==
    /\ Billed \in [Files -> SUBSET CNs]
    /\ Flaw \in [Files -> {"none", "warning", "fatal"}]

VARIABLES
    batch,          \* import_batches: status; projects: whether the batch has one
    stored, revoked,\* how often the file's items were stored, and revoked
    orders,         \* status of the batch's orders
    known,          \* users, by CN
    upload          \* what a preview has read

importVars == <<batch, stored, revoked, orders, known, upload>>

NoUpload == [file |-> "none", read |-> "none"]

ImportTypeOK ==
    /\ batch \in [Files -> [status : {"none", "previewed", "confirmed", "reverted"},
                            project : BOOLEAN]]
    /\ stored \in [Files -> Nat] /\ revoked \in [Files -> Nat]
    /\ orders \in [Files -> {"none", "submitted", "cancelled"}]
    /\ known \subseteq CNs
    /\ \A j \in Uploads : upload[j] = NoUpload \/ upload[j].file \in Files

ImportInit ==
    /\ batch = [f \in Files |-> [status |-> "none", project |-> FALSE]]
    /\ stored = [f \in Files |-> 0]
    /\ revoked = [f \in Files |-> 0]
    /\ orders = [f \in Files |-> "none"]
    /\ known = {}
    /\ upload = [j \in Uploads |-> NoUpload]

-----------------------------------------------------------------------------
(* Preview: FindImportFile and the status of the batch, then one write.    *)

FindImportFile(j, f) ==
    /\ upload[j] = NoUpload
    /\ upload' = [upload EXCEPT ![j] = [file |-> f, read |-> batch[f].status]]
    /\ UNCHANGED <<batch, stored, revoked, orders, known>>

(* A batch it has not found is inserted, unless another upload of the file *)
(* was faster (file_hash is unique, the request ends in an error); one it  *)
(* found previewed is written over, whatever it is by now; any other stays.*)
SavePreview(j) ==
    /\ upload[j] # NoUpload
    /\ LET f == upload[j].file
       IN  batch' =
            IF upload[j].read = "previewed"
               \/ (upload[j].read = "none" /\ batch[f].status = "none")
            THEN [batch EXCEPT ![f].status = "previewed"] ELSE batch
    /\ upload' = [upload EXCEPT ![j] = NoUpload]
    /\ UNCHANGED <<stored, revoked, orders, known>>

-----------------------------------------------------------------------------
(* ConfirmImport with rules that leave the CNs of S something to pay.      *)

Confirmable(f, allow, S) ==
    /\ batch[f].status = "previewed"
    /\ Flaw[f] # "fatal"
    /\ Flaw[f] = "warning" => allow
    /\ S # {}

FaultyInsertProject(f) == TRUE

(* insertProject: the code "import-<id>" is taken by an earlier one.       *)
InsertProject(f) == ~batch[f].project

ConfirmImport(f, allow, S) ==
    /\ Confirmable(f, allow, S) /\ InsertProject(f)
    /\ batch' = [batch EXCEPT ![f] = [status |-> "confirmed", project |-> TRUE]]
    /\ known' = known \cup S
    /\ stored' = [stored EXCEPT ![f] = @ + 1]
    /\ orders' = [orders EXCEPT ![f] = "submitted"]
    /\ UNCHANGED <<revoked, upload>>

(* RevokeImport needs something to revoke; orders left with nothing are    *)
(* cancelled.                                                              *)
RevokeImport(f) ==
    /\ batch[f].status = "confirmed"
    /\ stored[f] > revoked[f]
    /\ revoked' = [revoked EXCEPT ![f] = stored[f]]
    /\ orders' = [orders EXCEPT ![f] = "cancelled"]
    /\ batch' = [batch EXCEPT ![f].status = "reverted"]
    /\ UNCHANGED <<stored, known, upload>>

-----------------------------------------------------------------------------
ImportNext ==
    \/ \E j \in Uploads : (\E f \in Files : FindImportFile(j, f)) \/ SavePreview(j)
    \/ \E f \in Files :
        \/ \E allow \in BOOLEAN, S \in SUBSET Billed[f] : ConfirmImport(f, allow, S)
        \/ RevokeImport(f)

ImportSpec == ImportInit /\ [][ImportNext]_importVars

-----------------------------------------------------------------------------
(* The items of a file are billed once and never again, also when a        *)
(* preview has turned a batch that was confirmed or reverted in the        *)
(* meantime back to "previewed"; and as long as no preview has, what the   *)
(* batch says and what its orders are agree.                               *)
ImportedOnce ==
    \A f \in Files :
        /\ stored[f] <= 1
        /\ batch[f].status = "confirmed" => stored[f] > revoked[f]
        /\ batch[f].status = "reverted" => stored[f] = revoked[f] /\ orders[f] = "cancelled"
=============================================================================
