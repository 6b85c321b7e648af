------------------------------ MODULE Register ------------------------------
(***************************************************************************)
(* The in-memory register of documents awaiting review                     *)
(* (backend/src/zilpzalp/queue.py).                                        *)
(*                                                                         *)
(* Every method of class Queue takes the lock once, so each is one atomic  *)
(* operator here, from a register to the register it leaves behind.  The   *)
(* register is keyed by the resolved path: two spellings of a path are one *)
(* element of Names.  An entry keeps the id it was given when it was added *)
(* whatever happens to it later, and every transition on a name that is    *)
(* not registered does nothing.                                            *)
(***************************************************************************)
EXTENDS Naturals

CONSTANTS
    Names,      \* the paths a PDF can have in the watchfolder
    Docs,       \* the documents (file contents) that can appear under them
    None        \* the absent value of every optional field

Status == {"pending", "analyzing", "ready", "error"}

(* What suggest() computed: which document it read and under which version *)
(* of the configuration.  The fields of the form are functions of the two. *)
Suggestion == [doc : Docs, config : Nat]

Reason == {"unreadable", "technical"}

Entry == [id : Nat, status : Status, suggestion : Suggestion \cup {None},
          reason : Reason \cup {None}]

Registers == [Names -> Entry \cup {None}]

(* What set_ready stores with a ready entry stays with it.                 *)
ReadySuggested(reg) ==
    \A n \in Names : reg[n] # None /\ reg[n].status = "ready"
                     => reg[n].suggestion # None

EmptyRegister == [n \in Names |-> None]

Listed(reg, n) == reg[n] # None

HasStatus(reg, n, s) == Listed(reg, n) /\ reg[n].status = s

(* Queue.add returns True, and mints an id, only for a path it does not    *)
(* hold yet.                                                               *)
Add(reg, n, id) ==
    IF Listed(reg, n)
    THEN reg
    ELSE [reg EXCEPT ![n] = [id |-> id, status |-> "pending",
                             suggestion |-> None, reason |-> None]]

(* Queue.mark_analyzing keeps the suggestion of an earlier analysis.       *)
MarkAnalyzing(reg, n) ==
    IF Listed(reg, n)
    THEN [reg EXCEPT ![n] = [@ EXCEPT !.status = "analyzing", !.reason = None]]
    ELSE reg

SetReady(reg, n, s) ==
    IF Listed(reg, n)
    THEN [reg EXCEPT ![n] = [@ EXCEPT !.status = "ready", !.suggestion = s,
                                      !.reason = None]]
    ELSE reg

MarkError(reg, n, why) ==
    IF Listed(reg, n)
    THEN [reg EXCEPT ![n] = [@ EXCEPT !.status = "error", !.suggestion = None,
                                      !.reason = why]]
    ELSE reg

(* Mutation: the entry stays in the register as a tombstone.               *)
RemoveSoftly(reg, n) ==
    IF Listed(reg, n) THEN [reg EXCEPT ![n].status = "removed"] ELSE reg

Remove(reg, n) == [reg EXCEPT ![n] = None]
=============================================================================
