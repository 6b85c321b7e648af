------------------------------ MODULE Pipeline ------------------------------
(***************************************************************************)
(* The whole process: watcher, worker and handlers over the shared state   *)
(* of module System, from the drop of a PDF to its filing or removal, with *)
(* restarts.                                                               *)
(***************************************************************************)
EXTENDS Watcher, Worker, Handlers

(* Some documents lie in the watchfolder and the process is not running.   *)
Init ==
    /\ inbox \in [Names -> Docs \cup {None}]
    /\ \A m, n \in Names : inbox[m] = inbox[n] => m = n \/ inbox[n] = None
    /\ arrived = {d \in Docs : \E n \in Names : inbox[n] = d}
    /\ errorFolder = [n \in Names |-> None]
    /\ filed = {} /\ trash = {} /\ discarded = {} /\ overwritten = {}
    /\ cache = [s \in Stems |-> None]
    /\ configFile = 0 /\ config = 0
    /\ register = EmptyRegister /\ nextId = 0
    /\ work = <<>> /\ worker = IdleWorker
    /\ phase = "down" /\ batch = {} /\ events = <<>>
    /\ holding = [s \in Submitters |-> None]
    /\ requests = [r \in Requests |-> IdleRequest]
    /\ save = IdleSave
    /\ crashes = 0

Environment ==
    \/ \E n \in Names, d \in Docs : Drop(n, d)
    \/ \E r \in Requests, n \in Names, kind \in {"execute", "remove"} :
           Lookup(r, n, kind)
    \/ SaveFile
    \/ Crash

Next ==
    \/ Environment
    \/ Startup
    \/ Observer
    \/ WorkerNext
    \/ \E r \in Requests : RequestStep(r)
    \/ SaveStep

Spec == Init /\ [][Next]_vars

(* A thread that can go on goes on; Compose restarts a dead process.  What *)
(* users do, and crashes, need not happen.                                 *)
Fairness ==
    /\ WF_vars(Startup)
    /\ WF_vars(Observer)
    /\ WF_vars(WorkerNext)
    /\ \A r \in Requests : WF_vars(RequestStep(r))
    /\ WF_vars(SaveStep)

FairSpec == Spec /\ Fairness

-----------------------------------------------------------------------------
(* A job of this kind for n waits in the work queue.                       *)
Queued(kind, n) == \E i \in 1..Len(work) : work[i] = [kind |-> kind, name |-> n]

(* Somebody is going to extract n: a submitter that has yet to put the job *)
(* it added n for, the queue, or the worker that has just taken the job.   *)
ExtractionDue(n) ==
    \/ \E s \in Submitters : holding[s] = n
    \/ Queued("extract", n)
    \/ worker.pc = "mark" /\ worker.name = n /\ ~worker.reuse

(* An entry that waits for its analysis is not forgotten, although         *)
(* submit registers it and queues its job in two steps, removals come in   *)
(* between, and a name can be registered again while old jobs for it are   *)
(* still queued (worker.py submit, _process).                              *)
PendingHasJob ==
    \A n \in Names : HasStatus(register, n, "pending") => ExtractionDue(n)

(* The places where an extraction of n waits or runs: in the queue, with a *)
(* submitter that has yet to put it there, or in the worker.               *)
InQueue(n) == {i \in 1..Len(work) : work[i] = [kind |-> "extract", name |-> n]}
Submitting(n) == {s \in Submitters : holding[s] = n}
Extracting(n) == worker.name = n /\ ~worker.reuse

Outstanding(n) == InQueue(n) # {} \/ Submitting(n) # {} \/ Extracting(n)

(* The scan and the events of a start-up may announce the same file twice, *)
(* on two threads; it is extracted once: of all those places, at most one  *)
(* is taken (queue.py add, watcher.py start).                              *)
ExtractedOnce ==
    \A n \in Names :
        /\ \A i, k \in InQueue(n) : i = k
        /\ \A s, t \in Submitting(n) : s = t
        /\ InQueue(n) # {} => Submitting(n) = {} /\ ~Extracting(n)
        /\ Submitting(n) # {} => ~Extracting(n)

(* The documents that are somewhere, or are gone for an accepted reason:   *)
(* a user removed that PDF with when_removed = delete, or a later PDF of   *)
(* its name replaced it in error/.                                         *)
Accounted ==
    {inbox[n] : n \in Names} \cup {errorFolder[n] : n \in Names}
        \cup filed \cup trash \cup discarded \cup overwritten

(* Every PDF that ever reached the watchfolder is still there, in error/,  *)
(* in a target folder or in the trash, or is accounted for                 *)
(* (processor.py, worker.py _move_to_error).                               *)
NothingLost == arrived \subseteq Accounted

(* The suggestion that a reviewer sees was computed from the PDF that the  *)
(* review page shows and that Confirm would file (routes.py review_page).  *)
SuggestionFits ==
    \A n \in Names : HasStatus(register, n, "ready") /\ inbox[n] # None
                     => register[n].suggestion.doc = inbox[n]

(* The artifact that reanalysis and the extract pane would use for a ready *)
(* entry is that of its PDF (cache.py: keyed by the PDF's filename).       *)
ArtifactFits ==
    \A n \in Names : /\ HasStatus(register, n, "ready")
                     /\ inbox[n] # None /\ cache[StemOf[n]] # None
                     => cache[StemOf[n]] = inbox[n]

(* What a confirmation files is the document it was reviewed for, however  *)
(* many requests run at once (routes.py execute, processor.py process).    *)
FiledAsReviewed ==
    [][\A d \in filed' \ filed :
           \E r \in Requests : requests[r].kind = "execute"
                               /\ requests[r].suggested = d]_vars

(* Only what could not be read is moved to error/ (worker.py).             *)
ErrorFolderUnreadable ==
    \A n \in Names : errorFolder[n] \in Scans \cup Corrupt \cup {None}

(* A job ends with its entry ready, in error or gone.  The one exception:  *)
(* the cached artifact of a reanalysis vanished between exists() and       *)
(* read_text(), or does not parse (worker.py _run, cache.py load_document). *)
NeverLeftAnalyzing ==
    [][worker.pc \notin {"idle", "load"} /\ worker'.pc = "idle" /\ phase' # "down"
       => ~HasStatus(register', worker.name, "analyzing")]_vars

(* A file in the watchfolder gets an entry, or goes (watcher.py).          *)
InboxListed ==
    \A n \in Names : inbox[n] # None ~> Listed(register, n) \/ inbox[n] = None

(* A waiting entry becomes ready or an error, or is removed.               *)
PendingSettles ==
    \A n \in Names : HasStatus(register, n, "pending")
                     ~> ~Listed(register, n) \/ register[n].status \in {"ready", "error"}

(* A dropped PDF is analyzed: it ends up with a suggestion of its own, with *)
(* an error that can be its own, or out of the watchfolder.                *)
DropAnalyzed ==
    \A n \in Names, d \in Docs :
        inbox[n] = d ~> \/ inbox[n] # d
                        \/ /\ HasStatus(register, n, "ready")
                           /\ register[n].suggestion.doc = d
                        \/ /\ HasStatus(register, n, "error")
                           /\ register[n].reason = "technical" \/ d \in Scans \cup Corrupt

(* A reanalysis that was queued gives a ready entry a suggestion of the    *)
(* configuration in force, unless the entry is removed or fails            *)
(* (worker.py reanalyze_all, _process).                                    *)
ReanalysisRuns ==
    \A n \in Names :
        Queued("reanalyze", n) ~> \/ ~Listed(register, n)
                                  \/ HasStatus(register, n, "error")
                                  \/ /\ HasStatus(register, n, "ready")
                                     /\ register[n].suggestion.config = config

(* The documents under some names of a folder.                             *)
Contents(folder) == {folder[n] : n \in Names} \ {None}

(* What the running requests are doing for their users, and to what.       *)
Orders ==
    {[doc |-> requests[r].doc, kind |-> requests[r].kind] :
        r \in {q \in Requests : requests[q].pc # "idle" /\ requests[q].doc # None}}

Custodian == INSTANCE Custody
    WITH Unreadable <- Scans \cup Corrupt, known <- arrived,
         waiting <- Contents(inbox), rejected <- Contents(errorFolder),
         orders <- Orders

(* The process implements module Custody: in whatever order its threads    *)
(* run, it sets aside only what is unreadable, copies only what a user     *)
(* ordered to be filed, and disposes only of what was filed or was ordered *)
(* to be removed (worker.py _move_to_error, processor.py, routes.py).      *)
KeepsCustody == Custodian!Spec

(* No unreadable PDF is offered for review.                                *)
UnreadableNeverReady ==
    \A n \in Names : HasStatus(register, n, "ready")
                     => register[n].suggestion.doc \notin Scans

(* Once everything is quiet, every suggestion follows the current config.  *)
Quiet == work = <<>> /\ worker.pc = "idle" /\ save.pc = "idle" /\ events = <<>>
CurrentWhenQuiet ==
    \A n \in Names : Quiet /\ HasStatus(register, n, "ready")
                     => register[n].suggestion.config = config
=============================================================================
