------------------------------ MODULE Custody ------------------------------
(***************************************************************************)
(* What the process promises about the PDFs in its keeping, without its    *)
(* threads, names, queue or cache: which documents lie where, what a user  *)
(* has ordered for which, and the only ways a document moves.  An order is *)
(* given for a document that lies in the watchfolder and holds for that    *)
(* document alone.  Module Pipeline is shown to implement this module.     *)
(***************************************************************************)
CONSTANTS
    Docs,           \* the documents
    Unreadable,     \* those whose text cannot be extracted
    WhenFiled,      \* where the original goes after a filing: "delete", "trash"
    WhenRemoved     \* where it goes after a removal

VARIABLES
    known,          \* every document that ever arrived
    waiting,        \* the documents in the watchfolder
    rejected,       \* the documents in error/
    filed,          \* the documents with a copy in a target folder
    trash,          \* the documents in the trash
    orders          \* what users have ordered, and is being carried out

vars == <<known, waiting, rejected, filed, trash, orders>>

Order(d, kind) == [doc |-> d, kind |-> kind]

Init ==
    /\ known \subseteq Docs
    /\ waiting = known
    /\ rejected = {} /\ filed = {} /\ trash = {} /\ orders = {}

(* A document arrives once.                                                *)
Arrive(d) ==
    /\ d \notin known
    /\ known' = known \cup {d}
    /\ waiting' = waiting \cup {d}
    /\ UNCHANGED <<rejected, filed, trash, orders>>

(* Only an unreadable document is set aside, in the place of at most one   *)
(* other that was set aside before.                                        *)
Reject(d) ==
    /\ d \in waiting \cap Unreadable
    /\ waiting' = waiting \ {d}
    /\ \E e \in rejected \cup {d} : rejected' = (rejected \ {e}) \cup {d}
    /\ UNCHANGED <<known, filed, trash, orders>>

(* A user orders a waiting document to be filed or removed.                *)
Ask(d, kind) ==
    /\ d \in waiting
    /\ orders' = orders \cup {Order(d, kind)}
    /\ UNCHANGED <<known, waiting, rejected, filed, trash>>

(* Orders are carried out, refused, or forgotten in a crash.               *)
Settle ==
    /\ orders' \in SUBSET orders
    /\ UNCHANGED <<known, waiting, rejected, filed, trash>>

(* Only what was ordered to be filed is copied to a target.                *)
File(d) ==
    /\ d \in waiting
    /\ Order(d, "execute") \in orders
    /\ filed' = filed \cup {d}
    /\ UNCHANGED <<known, waiting, rejected, trash, orders>>

(* An original leaves the watchfolder when it has been filed as ordered,   *)
(* or when its removal was ordered.                                        *)
Retire(d, kind, mode) ==
    /\ d \in waiting
    /\ Order(d, kind) \in orders
    /\ kind = "execute" => d \in filed
    /\ waiting' = waiting \ {d}
    /\ trash' = IF mode = "trash" THEN trash \cup {d} ELSE trash
    /\ UNCHANGED <<known, rejected, filed, orders>>

Next ==
    \/ Settle
    \/ \E d \in Docs :
           \/ Arrive(d) \/ Reject(d) \/ File(d)
           \/ \E kind \in {"execute", "remove"} : Ask(d, kind)
           \/ Retire(d, "execute", WhenFiled)
           \/ Retire(d, "remove", WhenRemoved)

Spec == Init /\ [][Next]_vars
=============================================================================
