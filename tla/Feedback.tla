------------------------------ MODULE Feedback ------------------------------
(***************************************************************************)
(* Users' feedback: the same text of a user is stored once per minute.     *)
(* Package feedback, Create and UpdateStatus.  A transaction's now() is    *)
(* the time it began, which is before it got the advisory lock of its      *)
(* user, so the rows of a user are not stored in the order of their times. *)
(* One user is modelled: two share nothing.                                *)
(***************************************************************************)
EXTENDS Integers, FiniteSets

CONSTANTS
    Texts, Writers,
    TwinWindow,     \* "60 seconds"
    LastMinute      \* bound on the clock

VARIABLES
    clock,
    note,           \* feedbacks: text, created_at, status
    writer          \* per request: its text, the time it began, what it does

feedbackVars == <<clock, note, writer>>

NoWriter == [text |-> "none", began |-> 0, at |-> "none"]

FeedbackInit ==
    /\ clock = 0
    /\ note = {}
    /\ writer = [w \in Writers |-> NoWriter]

-----------------------------------------------------------------------------
CreateBegin(w, t) ==
    /\ writer[w] = NoWriter
    /\ writer' = [writer EXCEPT ![w] = [text |-> t, began |-> clock, at |-> "waits"]]
    /\ UNCHANGED <<clock, note>>

FaultyUserLock == TRUE
UserLock == \A w \in Writers : writer[w].at # "writes"

(* Under the lock the request looks for its text; when it has been stored  *)
(* lately the request ends (ErrDuplicate).                                 *)
Lately(w) ==
    {n \in note : n.text = writer[w].text /\ n.at >= writer[w].began - TwinWindow}

LookForTwin(w) ==
    /\ writer[w].at = "waits" /\ UserLock
    /\ writer' = [writer EXCEPT ![w] =
                    IF Lately(w) = {} THEN [@ EXCEPT !.at = "writes"] ELSE NoWriter]
    /\ UNCHANGED <<clock, note>>

Create(w) ==
    /\ writer[w].at = "writes"
    /\ note' = note \cup {[text |-> writer[w].text, at |-> writer[w].began,
                           by |-> w, status |-> "new"]}
    /\ writer' = [writer EXCEPT ![w] = NoWriter]
    /\ UNCHANGED clock

CreateFails(w) ==
    /\ writer[w] # NoWriter
    /\ writer' = [writer EXCEPT ![w] = NoWriter]
    /\ UNCHANGED <<clock, note>>

UpdateStatus(n, new) ==
    /\ note' = (note \ {n}) \cup {[n EXCEPT !.status = new]}
    /\ UNCHANGED <<clock, writer>>

Passes ==
    /\ clock < LastMinute
    /\ clock' = clock + 1
    /\ UNCHANGED <<note, writer>>

FeedbackNext ==
    \/ \E w \in Writers : (\E t \in Texts : CreateBegin(w, t))
                          \/ LookForTwin(w) \/ Create(w) \/ CreateFails(w)
    \/ \E n \in note, new \in {"new", "processed"} : UpdateStatus(n, new)
    \/ Passes

FeedbackSpec == FeedbackInit /\ [][FeedbackNext]_feedbackVars

-----------------------------------------------------------------------------
(* However clicks and retries come together, and in whatever order they    *)
(* get the lock, no two rows of a text are as close as TwinWindow          *)
(* ("prevents double-click and concurrent retry duplicates", Create).      *)
NoTwins ==
    \A n, o \in note :
        n # o /\ n.text = o.text => n.at > o.at + TwinWindow \/ o.at > n.at + TwinWindow
=============================================================================
