------------------------------ MODULE PaymentQR ------------------------------
(***************************************************************************)
(* The QR codes users pay to, one enabled at most per method; older ones   *)
(* are kept, disabled.  Package paymentqr.  An upload and a disabling take *)
(* the advisory lock of their method, disable what is enabled, and an      *)
(* upload inserts its image, which an index refuses beside another enabled *)
(* one.                                                                    *)
(***************************************************************************)
EXTENDS Integers, FiniteSets, Sequences

CONSTANTS QRMethods, Editors, MaxImages     \* MaxImages: bound, per method

VARIABLES
    image,      \* payment_qr_codes: per method, whether each is enabled
    editor      \* per request: its method, where it is, the images it disables

qrVars == <<image, editor>>

NoEdit == [op |-> "none", method |-> "none", at |-> "start", off |-> {}]

QRInit ==
    /\ image = [m \in QRMethods |-> <<>>]
    /\ editor = [e \in Editors |-> NoEdit]

Enabled(m) == {i \in DOMAIN image[m] : image[m][i]}

-----------------------------------------------------------------------------
Holds(e, m) == editor[e].method = m /\ editor[e].at # "start"

FaultyAdvisoryLock(m) == TRUE
AdvisoryLock(m) == \A e \in Editors : ~Holds(e, m)

TakeLock(e, m, op) ==
    /\ editor[e] = NoEdit /\ AdvisoryLock(m)
    /\ op = "upload" => Len(image[m]) < MaxImages
    /\ editor' = [editor EXCEPT ![e] =
                    [op |-> op, method |-> m, at |-> "locked", off |-> {}]]
    /\ UNCHANGED image

(* The update waits for images that another transaction is disabling, and  *)
(* then leaves them.                                                       *)
DisableStatement(e) ==
    /\ editor[e].at = "locked"
    /\ LET m == editor[e].method
       IN  /\ \A o \in Editors : editor[o].method = m => editor[o].off = {}
           /\ editor' = [editor EXCEPT ![e].at = "disabled", ![e].off = Enabled(m)]
    /\ UNCHANGED image

IndexAllows(e) == Enabled(editor[e].method) \subseteq editor[e].off

After(e) ==
    [i \in DOMAIN image[editor[e].method] |->
        image[editor[e].method][i] /\ i \notin editor[e].off]

Upload(e) ==
    /\ editor[e].at = "disabled" /\ editor[e].op = "upload"
    /\ IndexAllows(e)
    /\ image' = [image EXCEPT ![editor[e].method] = Append(After(e), TRUE)]
    /\ editor' = [editor EXCEPT ![e] = NoEdit]

(* Nothing was enabled: ErrNotConfigured.                                  *)
Disable(e) ==
    /\ editor[e].at = "disabled" /\ editor[e].op = "disable"
    /\ editor[e].off # {}
    /\ image' = [image EXCEPT ![editor[e].method] = After(e)]
    /\ editor' = [editor EXCEPT ![e] = NoEdit]

EditFails(e) ==
    /\ editor[e] # NoEdit
    /\ editor' = [editor EXCEPT ![e] = NoEdit]
    /\ UNCHANGED image

QRNext ==
    \E e \in Editors :
        \/ \E m \in QRMethods, op \in {"upload", "disable"} : TakeLock(e, m, op)
        \/ DisableStatement(e) \/ Upload(e) \/ Disable(e) \/ EditFails(e)

QRSpec == QRInit /\ [][QRNext]_qrVars

-----------------------------------------------------------------------------
(* A method has one enabled code at most, and of two administrators that   *)
(* upload at a time none meets the index, "the ultimate backstop" (Upload):*)
(* the later one finds and disables what the earlier one has enabled.      *)
UploadsSucceed ==
    /\ \A m \in QRMethods : Cardinality(Enabled(m)) <= 1
    /\ \A e \in Editors :
        editor[e].op = "upload" /\ editor[e].at = "disabled" => IndexAllows(e)
=============================================================================
