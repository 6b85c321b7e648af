------------------------------- MODULE Filing -------------------------------
(***************************************************************************)
(* Filing into several target folders: confirm and execute                 *)
(* (web/routes.py) with process (processor.py).  Several requests run at   *)
(* once, the target folders are open to everybody, a copy can fail half    *)
(* way, and the process can die between any two disk operations.           *)
(*                                                                         *)
(* Each document has a path of its own here; what happens when paths are   *)
(* reused is the subject of module Pipeline.                               *)
(***************************************************************************)
EXTENDS Naturals

CONSTANTS
    Docs,           \* the documents that are to be filed
    Others,         \* other files that somebody puts into a target folder
    Requests,       \* the threads that serve confirm and execute
    Targets,        \* the configured target folders
    Missing,        \* those that are not there
    FileNames,      \* the names that users choose
    WhenFiled,      \* originals.when_filed: "delete" or "trash"
    MaxCrashes,     \* bound: number of times the process dies
    None

(* Where a copy can be.                                                    *)
Places == Targets \X FileNames

ASSUME FilingAssumption ==
    /\ Missing \subseteq Targets
    /\ WhenFiled \in {"delete", "trash"}
    /\ MaxCrashes \in Nat
    /\ Docs \cap Others = {} /\ None \notin Docs \cup Others

VARIABLES
    folders,        \* the file at each place, or None
    torn,           \* the places where a copy broke off
    inbox, trash,   \* the documents in the watchfolder and in the trash
    listed,         \* the documents with a ready entry
    requests,       \* the filing requests
    crashes,
    \* History, for the properties.
    filedAt,        \* the places at which a disposed document was to be filed
    replaced        \* the complete copies that were overwritten, with the place

history == <<filedAt, replaced>>
vars == <<folders, torn, inbox, trash, listed, requests, crashes, history>>

Content == Docs \cup Others

(* A thread that serves no request, or has just refused one.  "todo" are   *)
(* the targets it has not written to; "saw", the places that were taken    *)
(* when process() looked, is history.                                      *)
NoRequest(pc) == [pc |-> pc, doc |-> None, name |-> None, targets |-> {}, todo |-> {},
                  saw |-> {}]

Idle == NoRequest("idle")

Free == {"idle", "refused"}

Place(r, t) == <<t, requests[r].name>>

Exists(place) == folders[place] # None

Init ==
    /\ folders \in [Places -> Others \cup {None}]
    /\ \A p \in Places : Exists(p) => p[1] \notin Missing
    /\ torn = {}
    /\ inbox = Docs /\ trash = {} /\ listed = Docs
    /\ requests = [r \in Requests |-> Idle]
    /\ crashes = 0
    /\ filedAt = [d \in Docs |-> {}] /\ replaced = {}

Goto(r, pc, next) ==
    /\ requests[r].pc = pc
    /\ requests' = [requests EXCEPT ![r].pc = next]

Refuse(r) == requests' = [requests EXCEPT ![r] = NoRequest("refused")]

End(r) == requests' = [requests EXCEPT ![r] = Idle]

-----------------------------------------------------------------------------
(* The user has filled in the form; the entry is ready.                    *)
Submit(r, d, f, ts) ==
    /\ requests[r].pc \in Free
    /\ d \in listed
    /\ requests' = [requests EXCEPT ![r] = [pc |-> "build", doc |-> d, name |-> f,
                                            targets |-> ts, todo |-> ts, saw |-> {}]]
    /\ UNCHANGED <<folders, torn, inbox, trash, listed, crashes, history>>

(* A conflict, or summary_mode, answers with the summary: the user decides *)
(* and comes again.                                                        *)
Summary(r) ==
    /\ requests[r].pc = "build"
    /\ Refuse(r)
    /\ UNCHANGED <<folders, torn, inbox, trash, listed, crashes, history>>

(* _build_request_state finds no conflict.                                 *)
Build(r) ==
    /\ \A t \in requests[r].targets : ~Exists(Place(r, t))
    /\ Goto(r, "build", "check")
    /\ UNCHANGED <<folders, torn, inbox, trash, listed, crashes, history>>

(* Mutation: one free target is enough.                                    *)
AcceptableSomewhere(r) ==
    /\ requests[r].targets # {}
    /\ requests[r].targets \cap Missing = {}
    /\ \E t \in requests[r].targets : ~Exists(Place(r, t))

(* The preconditions of process(): target folders and, again, no conflict. *)
Acceptable(r) ==
    /\ requests[r].targets # {}
    /\ requests[r].targets \cap Missing = {}
    /\ \A t \in requests[r].targets : ~Exists(Place(r, t))

Check(r) ==
    /\ requests[r].pc = "check"
    /\ IF Acceptable(r)
       THEN requests' = [requests EXCEPT ![r].pc = "copy",
                                         ![r].saw = {p \in Places : Exists(p)}]
       ELSE Refuse(r)
    /\ UNCHANGED <<folders, torn, inbox, trash, listed, crashes, history>>

(* shutil.copy2 opens the destination, whatever is there by now, and what  *)
(* was there is gone.                                                      *)
WriteTo(r, t) ==
    LET p == Place(r, t) IN
    /\ requests[r].pc = "copy" /\ t \in requests[r].todo
    /\ requests[r].doc \in inbox
    /\ folders' = [folders EXCEPT ![p] = requests[r].doc]
    /\ replaced' = IF folders[p] \in Docs /\ p \notin torn
                   THEN replaced \cup {<<p, folders[p]>>} ELSE replaced
    /\ UNCHANGED <<inbox, trash, listed, crashes, filedAt>>

Copied(r, t) == requests' = [requests EXCEPT ![r].todo = @ \ {t}]

(* Mutation: the conflicts are found out target by target.                 *)
CopyIfFree(r, t) ==
    \/ /\ WriteTo(r, t) /\ Copied(r, t)
       /\ ~Exists(Place(r, t))
       /\ torn' = torn \ {Place(r, t)}
    \/ /\ requests[r].pc = "copy" /\ t \in requests[r].todo
       /\ Exists(Place(r, t))
       /\ Refuse(r)
       /\ UNCHANGED <<folders, torn, inbox, trash, listed, crashes, history>>

(* One target has its copy.  They come in the order of the form; any order *)
(* is allowed here.                                                        *)
Copy(r, t) ==
    /\ WriteTo(r, t) /\ Copied(r, t)
    /\ torn' = torn \ {Place(r, t)}

(* Mutation: a copy that breaks off is passed over.                        *)
CopyBreaksIgnored(r, t) ==
    /\ WriteTo(r, t) /\ Copied(r, t)
    /\ torn' = torn \cup {Place(r, t)}

(* The disk is full: what was copied stays, the request ends with 500.     *)
CopyBreaks(r, t) ==
    /\ WriteTo(r, t)
    /\ torn' = torn \cup {Place(r, t)}
    /\ requests' = [requests EXCEPT ![r].pc = "failed"]

(* The source is gone, or the target cannot be written: an OSError before  *)
(* anything is written.                                                    *)
CopyFails(r) ==
    /\ requests[r].todo # {}
    /\ Goto(r, "copy", "failed")
    /\ UNCHANGED <<folders, torn, inbox, trash, listed, crashes, history>>

(* _dispose, after the last copy.                                          *)
Dispose(r) ==
    LET d == requests[r].doc IN
    /\ requests[r].todo = {}
    /\ d \in inbox
    /\ Goto(r, "copy", "unlist")
    /\ inbox' = inbox \ {d}
    /\ trash' = IF WhenFiled = "trash" THEN trash \cup {d} ELSE trash
    /\ filedAt' = [filedAt EXCEPT ![d] = {Place(r, t) : t \in requests[r].targets}]
    /\ UNCHANGED <<folders, torn, listed, crashes, replaced>>

(* Another request was faster: unlink does not mind, shutil.move raises.   *)
DisposeMissing(r) ==
    /\ requests[r].todo = {}
    /\ requests[r].doc \notin inbox
    /\ Goto(r, "copy", IF WhenFiled = "delete" THEN "unlist" ELSE "failed")
    /\ UNCHANGED <<folders, torn, inbox, trash, listed, crashes, history>>

(* Neither could be done to a file that is there: an OSError after the     *)
(* copies, which stay.                                                     *)
DisposeFails(r) ==
    /\ requests[r].todo = {}
    /\ requests[r].doc \in inbox
    /\ Goto(r, "copy", "failed")
    /\ UNCHANGED <<folders, torn, inbox, trash, listed, crashes, history>>

Unlist(r) ==
    /\ requests[r].pc = "unlist"
    /\ listed' = listed \ {requests[r].doc}
    /\ End(r)
    /\ UNCHANGED <<folders, torn, inbox, trash, crashes, history>>

(* The exception ends the request; the entry stays.                        *)
Fail(r) ==
    /\ requests[r].pc = "failed"
    /\ End(r)
    /\ UNCHANGED <<folders, torn, inbox, trash, listed, crashes, history>>

Step(r) ==
    \/ Summary(r) \/ Build(r) \/ Check(r)
    \/ \E t \in Targets : Copy(r, t) \/ CopyBreaks(r, t)
    \/ CopyFails(r)
    \/ Dispose(r) \/ DisposeMissing(r) \/ DisposeFails(r)
    \/ Unlist(r) \/ Fail(r)

-----------------------------------------------------------------------------
(* Somebody else puts a file into a target folder.                         *)
Appear(p, o) ==
    /\ ~Exists(p) /\ p[1] \notin Missing
    /\ \A q \in Places : folders[q] # o
    /\ folders' = [folders EXCEPT ![p] = o]
    /\ UNCHANGED <<torn, inbox, trash, listed, requests, crashes, history>>

(* The process dies and starts again: what is in the watchfolder becomes   *)
(* ready again.                                                            *)
Crash ==
    /\ crashes < MaxCrashes
    /\ crashes' = crashes + 1
    /\ listed' = inbox
    /\ requests' = [r \in Requests |-> Idle]
    /\ UNCHANGED <<folders, torn, inbox, trash, history>>

Next ==
    \/ \E r \in Requests, d \in Docs, f \in FileNames, ts \in SUBSET Targets :
           Submit(r, d, f, ts)
    \/ \E r \in Requests : Step(r)
    \/ \E p \in Places, o \in Others : Appear(p, o)
    \/ Crash

Spec == Init /\ [][Next]_vars

-----------------------------------------------------------------------------
PCs == Free \cup {"build", "check", "copy", "unlist", "failed"}

RequestType ==
    [pc : PCs,
     doc : Docs \cup {None}, name : FileNames \cup {None},
     targets : SUBSET Targets, todo : SUBSET Targets,
     saw : SUBSET Places]

TypeOK ==
    /\ folders \in [Places -> Content \cup {None}]
    /\ torn \subseteq Places
    /\ {inbox, trash, listed} \subseteq SUBSET Docs
    /\ requests \in [Requests -> RequestType]
    /\ \A r \in Requests : requests[r].pc \notin Free
                          => requests[r].doc \in Docs /\ requests[r].name \in FileNames
    /\ crashes \in Nat
    /\ filedAt \in [Docs -> SUBSET Places]
    /\ replaced \subseteq Places \X Docs

HasCopy(d, p) == (folders[p] = d /\ p \notin torn) \/ <<p, d>> \in replaced

(* A document leaves the watchfolder only when it has a complete copy in   *)
(* every folder that the user chose, whichever copies failed and whenever  *)
(* the process died; a copy that somebody replaced had been complete       *)
(* (processor.py process).                                                 *)
FiledCompletely ==
    \A d \in Docs \ inbox :
        filedAt[d] # {} /\ \A p \in filedAt[d] : HasCopy(d, p)

(* A refused request has not written anywhere (processor.py process: "a    *)
(* rejected call leaves the filesystem unchanged").                        *)
RefusedUntouched ==
    [][\A r \in Requests : requests[r].pc # "refused" /\ requests'[r].pc = "refused"
                          => requests[r].todo = requests[r].targets]_vars

(* What is overwritten, is overwritten by a request that had not seen it   *)
(* when it looked for conflicts (processor.py process).                    *)
CopiesOverwriteOnlyNewer ==
    [][\A p \in Places : Exists(p) /\ folders'[p] # folders[p]
           => \E r \in Requests :
                  /\ requests[r].pc = "copy"
                  /\ \E t \in requests[r].todo : p = Place(r, t)
                  /\ p \notin requests[r].saw]_vars

(* The documents that have, or had, a complete copy, and what the requests *)
(* are doing.                                                              *)
Filed == {d \in Docs : \E p \in Places : HasCopy(d, p)}
Orders ==
    {[doc |-> requests[r].doc, kind |-> "execute"] :
        r \in {q \in Requests : requests[q].pc \notin Free}}

Custodian == INSTANCE Custody
    WITH Unreadable <- {}, WhenRemoved <- WhenFiled, known <- Docs,
         waiting <- inbox, rejected <- {}, filed <- Filed, orders <- Orders

(* Filing into many folders keeps the promise that module Pipeline keeps   *)
(* with one: a complete copy first, and only for who ordered it, then the  *)
(* original goes where when_filed says (routes.py execute, processor.py    *)
(* process, _dispose).                                                     *)
KeepsCustody == Custodian!Spec
=============================================================================
