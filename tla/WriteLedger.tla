---------------------------- MODULE WriteLedger ----------------------------
(***************************************************************************)
(* What mutation receipts promise a client (src/src/receipts.zig, header   *)
(* comment; PROTOCOL.md section 7): a write, named by its message ID, is   *)
(* decided at most once, for good, and a definitive verdict is the         *)
(* decision.  "failed" and "indeterminate" decide nothing, and neither     *)
(* does the rejection of a write to a table that takes none: it is all     *)
(* such a write is ever told.                                              *)
(***************************************************************************)
EXTENDS Naturals, Sequences

CONSTANTS
    Messages, Ids, Bodies, Outcomes, Statuses, IdOf, BodyOf,
    Unwritable   \* the messages that ask to write a table that takes no writes

VARIABLES
    ledger,   \* of each ID: the decisions committed to the database, in order
    told      \* of each message: the last verdict sent, or "none"

Decision == [body : Bodies, outcome : Outcomes]

Init ==
    /\ ledger = [id \in Ids |-> <<>>]
    /\ told = [m \in Messages |-> "none"]

(* A transaction decides any number of writes, none of them decided yet.   *)
Decide ==
    /\ \A id \in Ids :
           ledger'[id] # ledger[id] =>
               /\ ledger[id] = <<>>
               /\ \E d \in Decision : ledger'[id] = <<d>>
    /\ UNCHANGED told

(* The verdict s is one that message m may be sent.                        *)
Truthful(m, s) ==
    IF m \in Unwritable THEN s = "rejected"
    ELSE s \in Outcomes =>
           ledger[IdOf[m]] = <<[body |-> BodyOf[m], outcome |-> s]>>

Tell ==
    /\ told' \in [Messages -> Statuses]
    /\ \A m \in Messages : told'[m] # told[m] => Truthful(m, told'[m])
    /\ UNCHANGED ledger

Next == Decide \/ Tell

Spec == Init /\ [][Next]_<<ledger, told>>
=============================================================================
