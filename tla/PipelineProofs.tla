--------------------------- MODULE PipelineProofs ---------------------------
(* The safety properties of the process, for every value of its constants. *)
EXTENDS PipelineTypes

USE DEF documents, settings, listing, intake, handlers, alone, elsewhere

-----------------------------------------------------------------------------
(* Part 1: a pending entry always has a job (PendingHasJob).               *)

(* put leaves every job queued and queues the new one.                     *)
LEMMA PutKeepsQueued ==
    ASSUME TypeOK, NEW kind \in {"extract", "reanalyze"}, NEW n \in Names,
           work' = Enqueue(work, kind, n)
    PROVE  /\ Queued(kind, n)'
           /\ \A m \in Names : Queued("extract", m) => Queued("extract", m)'
<1> DEFINE j == [kind |-> kind, name |-> n]
<1>1. work \in Seq(Jobs) /\ j \in Jobs
  BY DEF TypeOK, Jobs
<1>2. work' = Append(work, j)
  BY DEF Enqueue
<1> HIDE DEF j
<1>3. Len(work') = Len(work) + 1 /\ work'[Len(work) + 1] = j
  BY <1>1, <1>2
<1>4. \A i \in 1..Len(work) : i \in 1..Len(work') /\ work'[i] = work[i]
  BY <1>1, <1>2, <1>3
<1>5. Len(work) + 1 \in 1..Len(work')
  BY <1>1, <1>3
<1> QED BY <1>3, <1>4, <1>5 DEF Queued, j

(* get takes the first job and leaves the others queued.                   *)
LEMMA TailKeeps ==
    ASSUME NEW queue \in Seq(Jobs), queue # <<>>, NEW i \in 1..Len(queue),
           queue[i] # Head(queue)
    PROVE  \E k \in 1..Len(Tail(queue)) : Tail(queue)[k] = queue[i]
<1>1. i # 1 /\ i - 1 \in 1..Len(Tail(queue)) /\ Tail(queue)[i - 1] = queue[i]
  OBVIOUS
<1> QED BY <1>1

(* Steps that leave the queue, the submitters and the taking of jobs alone. *)
LEMMA DueStays ==
    ASSUME UNCHANGED <<work, holding>>, worker' = worker \/ worker.pc # "mark",
           NEW n \in Names, ExtractionDue(n)
    PROVE  ExtractionDue(n)'
BY DEF ExtractionDue, Queued

(* ... and make no entry pending.                                          *)
LEMMA PendingStays ==
    ASSUME PendingHasJob, UNCHANGED <<work, holding>>,
           worker' = worker \/ worker.pc # "mark",
           \A n \in Names : HasStatus(register', n, "pending")
                            => HasStatus(register, n, "pending")
    PROVE  PendingHasJob'
BY DueStays DEF PendingHasJob

LEMMA PendingUntouched ==
    ASSUME PendingHasJob, UNCHANGED <<work, holding, register>>,
           worker' = worker \/ worker.pc # "mark"
    PROVE  PendingHasJob'
BY PendingStays

LEMMA PendingSubmitAdd ==
    ASSUME TypeOK, PendingHasJob, NEW s \in Submitters, NEW n \in Names,
           SubmitAdd(s, n), holding[s] = None, UNCHANGED <<work, worker>>
    PROVE  PendingHasJob'
<1> SUFFICES ASSUME NEW m \in Names, HasStatus(register', m, "pending")
             PROVE  ExtractionDue(m)'
    BY DEF PendingHasJob
<1> USE DEF TypeOK
<1>1. CASE HasStatus(register, m, "pending")
  <2>1. ExtractionDue(m)
    BY <1>1 DEF PendingHasJob
  <2>2. \A q \in Submitters : holding[q] = m => holding'[q] = m
    BY NoneAssumption DEF SubmitAdd
  <2> QED BY <2>1, <2>2 DEF ExtractionDue, Queued
<1>2. CASE ~HasStatus(register, m, "pending")
  <2>1. m = n /\ ~Listed(register, n)
    BY <1>2, PendingByAdd DEF SubmitAdd
  <2>2. holding'[s] = m
    BY <2>1 DEF SubmitAdd
  <2> QED BY <2>2 DEF ExtractionDue
<1> QED BY <1>1, <1>2

LEMMA PendingSubmitPut ==
    ASSUME TypeOK, PendingHasJob, NEW s \in Submitters, SubmitPut(s)
    PROVE  PendingHasJob'
<1>1. holding[s] \in Names
  BY DEF TypeOK, SubmitPut
<1>2. ASSUME NEW m \in Names, m = holding[s] \/ Queued("extract", m)
      PROVE  Queued("extract", m)'
  <2>1. CASE m = holding[s]
    BY <2>1, PutKeepsQueued DEF SubmitPut
  <2>2. CASE Queued("extract", m)
    BY <1>1, <2>2, PutKeepsQueued DEF SubmitPut
  <2> QED BY <1>2, <2>1, <2>2
<1>3. holding' = [holding EXCEPT ![s] = None] /\ UNCHANGED <<worker, register>>
  BY DEF SubmitPut
<1>4. ASSUME NEW n \in Names, ExtractionDue(n) PROVE ExtractionDue(n)'
  <2>1. CASE n = holding[s] \/ Queued("extract", n)
    <3>1. Queued("extract", n)'
      BY <1>2, <2>1
    <3> QED BY <3>1 DEF ExtractionDue
  <2>2. CASE \E t \in Submitters \ {s} : holding[t] = n
    BY <2>2, <1>3 DEF ExtractionDue, TypeOK
  <2>3. CASE worker.pc = "mark" /\ worker.name = n /\ ~worker.reuse
    BY <2>3, <1>3 DEF ExtractionDue
  <2> QED BY <1>4, <2>1, <2>2, <2>3 DEF ExtractionDue
<1> QED BY <1>3, <1>4 DEF PendingHasJob, HasStatus, Listed

LEMMA PendingTakeJob ==
    ASSUME TypeOK, PendingHasJob, TakeJob PROVE PendingHasJob'
<1>1. ASSUME NEW n \in Names, ExtractionDue(n) PROVE ExtractionDue(n)'
  <2>1. CASE \E s \in Submitters : holding[s] = n
    BY <2>1 DEF ExtractionDue, TakeJob
  <2>2. CASE Queued("extract", n)
    <3>1. PICK i \in 1..Len(work) : work[i] = [kind |-> "extract", name |-> n]
      BY <2>2 DEF Queued
    <3>2. CASE work[i] = Head(work)
      <4>1. Head(work).kind = "extract" /\ Head(work).name = n
        BY <3>1, <3>2
      <4>2. worker' = [pc |-> "mark", reuse |-> Head(work).kind = "reanalyze",
                       name |-> n, config |-> 0, doc |-> None]
        BY <4>1 DEF TakeJob
      <4>3. worker'.pc = "mark" /\ worker'.name = n /\ ~worker'.reuse
        BY <4>1, <4>2
      <4> QED BY <4>3 DEF ExtractionDue
    <3>3. CASE work[i] # Head(work)
      <4>1. \E k \in 1..Len(Tail(work)) : Tail(work)[k] = work[i]
        BY <3>3, TailKeeps DEF TakeJob, TypeOK
      <4> QED BY <3>1, <4>1 DEF TakeJob, ExtractionDue, Queued
    <3> QED BY <3>2, <3>3
  <2> QED BY <1>1, <2>1, <2>2 DEF ExtractionDue, TakeJob
<1> QED BY <1>1 DEF PendingHasJob, TakeJob

LEMMA PendingWorker ==
    ASSUME TypeOK, PendingHasJob, WorkerNext PROVE PendingHasJob'
<1>1. CASE TakeJob
  BY <1>1, PendingTakeJob
<1>2. CASE Mark
  <2>1. worker.name \in Names
    BY <1>2 DEF TypeOK, FieldsSet, Mark, Goto
  <2>2. ASSUME NEW n \in Names, HasStatus(register', n, "pending")
        PROVE  ExtractionDue(n)'
    <3>1. n # worker.name /\ HasStatus(register, n, "pending")
      BY <1>2, <2>1, <2>2, PendingEnds DEF Mark, TypeOK
    <3> QED BY <1>2, <3>1 DEF PendingHasJob, ExtractionDue, Mark, Queued
  <2> QED BY <2>2 DEF PendingHasJob
<1>3. CASE ReportError \/ Publish
  <2>1. worker.name \in Names /\ worker.pc # "mark"
    BY <1>3 DEF TypeOK, FieldsSet, ReportError, Publish
  <2>2. register' \in {MarkError(register, worker.name, why) : why \in Reason}
                     \cup {SetReady(register, worker.name, s) : s \in Suggestion}
    BY <1>3 DEF ReportError, Publish, Reason, Suggestion, TypeOK, FieldsSet
  <2>3. ASSUME NEW n \in Names, HasStatus(register', n, "pending")
        PROVE  HasStatus(register, n, "pending")
    BY <2>1, <2>2, <2>3, PendingEnds DEF TypeOK
  <2> QED BY <1>3, <2>1, <2>3, PendingStays DEF ReportError, Publish
<1>4. CASE ReadConfig \/ FindArtifact \/ LoadArtifact \/ LoadFails \/ Convert
           \/ NoOutput \/ ExtractionFails \/ StoreArtifact \/ ReadBack
           \/ MoveToError \/ MoveFails \/ AnalysisFails
  <2>1. UNCHANGED <<register, work, holding>> /\ worker.pc # "mark"
    BY <1>4 DEF ReadConfig, FindArtifact, LoadArtifact, LoadFails, Convert,
        NoOutput, ExtractionFails, StoreArtifact, ReadBack, MoveToError, MoveFails,
        AnalysisFails, Goto
  <2> QED BY <2>1, PendingUntouched
<1> QED BY <1>1, <1>2, <1>3, <1>4 DEF WorkerNext

LEMMA PendingHandlers ==
    ASSUME TypeOK, PendingHasJob,
           SaveFile \/ SaveStep \/ (\E r \in Requests : RequestStep(r))
    PROVE  PendingHasJob'
<1>1. CASE PutReanalysis
  <2>1. save.name \in Names
    BY <1>1 DEF PutReanalysis, TypeOK, FieldsSet
  <2>2. \A n \in Names : Queued("extract", n) => Queued("extract", n)'
    BY <1>1, <2>1, PutKeepsQueued DEF PutReanalysis
  <2> QED BY <1>1, <2>2 DEF PendingHasJob, ExtractionDue, PutReanalysis
<1>2. ASSUME NEW r \in Requests, Unlist(r) PROVE PendingHasJob'
  <2>1. NameOf(r) \in Names
    BY <1>2 DEF Unlist, NameOf, TypeOK, FieldsSet
  <2>2. ASSUME NEW n \in Names, HasStatus(register', n, "pending")
        PROVE  HasStatus(register, n, "pending")
    BY <1>2, <2>1, <2>2, PendingEnds DEF TypeOK, Unlist
  <2> QED BY <1>2, <2>2, PendingStays DEF Unlist
<1>3. ASSUME UNCHANGED <<register, work, worker, holding>> PROVE PendingHasJob'
  BY <1>3, PendingUntouched
<1>4. CASE SaveFile \/ SwapConfig \/ ListEntries \/ ReanalysisAborted \/ SaveDone
           \/ (\E n \in Names : CheckArtifact(n))
  BY <1>3, <1>4 DEF SaveFile, SwapConfig, ListEntries, ReanalysisAborted, SaveDone,
      CheckArtifact
<1>5. ASSUME NEW r \in Requests, Copy(r) \/ CopyRefused(r) \/ CheckSource(r)
              \/ Dispose(r) \/ DisposeMissing(r) \/ DisposeFails(r) \/ Uncache(r)
      PROVE  PendingHasJob'
  BY <1>3, <1>5 DEF Copy, CopyRefused, CheckSource, Dispose, DisposeMissing,
      DisposeFails, Uncache
<1> QED BY <1>1, <1>2, <1>4, <1>5 DEF SaveStep, RequestStep

(* Whatever the names, stems, requests and saves, a registered document    *)
(* that waits for its analysis is never without a job that will start it:  *)
(* submit's two steps, removals and reanalyses cannot lose it.             *)
THEOREM PendingCovered == Spec => []PendingHasJob
<1>1. Init => PendingHasJob
  BY DEF Init, PendingHasJob, HasStatus, Listed, EmptyRegister
<1>2. TypeOK /\ PendingHasJob /\ [Next]_vars => PendingHasJob'
  <2> SUFFICES ASSUME TypeOK, PendingHasJob, [Next]_vars PROVE PendingHasJob'
      OBVIOUS
  <2>1. ASSUME UNCHANGED <<register, work, worker, holding>> PROVE PendingHasJob'
    BY <2>1, PendingUntouched
  <2>2. ASSUME NEW n \in Names, NEW d \in Docs, Drop(n, d) PROVE PendingHasJob'
    BY <2>1, <2>2 DEF Drop
  <2>3. ASSUME NEW r \in Requests, NEW n \in Names,
               NEW kind \in {"execute", "remove"}, Lookup(r, n, kind)
        PROVE  PendingHasJob'
    BY <2>1, <2>3 DEF Lookup
  <2>4. CASE Crash
    BY <2>4 DEF Crash, PendingHasJob, HasStatus, Listed, EmptyRegister
  <2>5. CASE Start \/ ScanList \/ ScanDone \/ PruneList \/ PruneSweep
    BY <2>1, <2>5 DEF Start, ScanList, ScanDone, PruneList, PruneSweep
  <2>6. ASSUME NEW n \in Names, ScanSubmit(n) PROVE PendingHasJob'
    <3>1. CASE inbox[n] = None
      BY <2>1, <2>6, <3>1 DEF ScanSubmit
    <3>2. CASE inbox[n] # None
      BY <2>6, <3>2, PendingSubmitAdd DEF ScanSubmit, Submitters
    <3> QED BY <3>1, <3>2
  <2>7. CASE ObserverSubmit
    <3>1. Head(events) \in Names
      BY <2>7 DEF ObserverSubmit, TypeOK
    <3> QED BY <2>7, <3>1, PendingSubmitAdd DEF ObserverSubmit, Submitters
  <2>8. CASE SubmitPut("scan") \/ SubmitPut("observer")
    BY <2>8, PendingSubmitPut DEF Submitters
  <2>9. CASE WorkerNext
    BY <2>9, PendingWorker
  <2>10. CASE SaveFile \/ SaveStep \/ (\E r \in Requests : RequestStep(r))
    BY <2>10, PendingHandlers
  <2>11. CASE UNCHANGED vars
    BY <2>1, <2>11 DEF vars
  <2> QED BY <2>2, <2>3, <2>4, <2>5, <2>6, <2>7, <2>8, <2>9, <2>10, <2>11
          DEF Next, Environment, Startup, Observer
<1> QED BY <1>1, <1>2, TypeCorrect, PTL DEF Spec

-----------------------------------------------------------------------------
(* Part 2: no PDF is lost (NothingLost), if names are not reused while a   *)
(* request is running, or nothing is ever deleted.                         *)

Careful == FreshNames \/ (WhenFiled = "trash" /\ WhenRemoved = "trash")

(* A request that is about to delete a file knows it: it copied it to a    *)
(* target, or it was asked to remove it.                                   *)
Known(r) ==
    LET q == requests[r]
    IN  /\ q.pc = "copy" => q.kind = "execute"
        /\ q.pc = "exists" => q.kind = "remove"
        /\ q.kind = "execute" /\ q.pc = "dispose" => inbox[q.name] \in filed \cup {None}
        /\ q.kind = "remove" /\ q.pc \in {"exists", "dispose"}
                => inbox[q.name] \in {q.doc, None}

DisposesKnown == FreshNames => \A r \in Requests : Known(r)

(* Steps that touch no document lose none.                                 *)
LEMMA DocumentsStay ==
    ASSUME NothingLost, UNCHANGED documents PROVE NothingLost'
BY DEF NothingLost, Accounted

LEMMA DropKeeps ==
    ASSUME TypeOK, NothingLost, NEW n \in Names, NEW d \in Docs, Drop(n, d)
    PROVE  NothingLost'
<1>1. inbox' = [inbox EXCEPT ![n] = d] /\ inbox[n] = None /\ arrived' = arrived \cup {d}
      /\ UNCHANGED <<errorFolder, filed, trash, discarded, overwritten>>
  BY DEF Drop
<1>2. ASSUME NEW m \in Names, inbox[m] # None PROVE inbox[m] \in Accounted'
  <2>1. inbox'[m] = inbox[m]
    BY <1>1, <1>2 DEF TypeOK
  <2> QED BY <2>1 DEF Accounted
<1>3. d \in Accounted'
  <2>1. inbox'[n] = d
    BY <1>1 DEF TypeOK
  <2> QED BY <2>1 DEF Accounted
<1>4. None \notin arrived
  BY NoneAssumption DEF TypeOK
<1>5. ASSUME NEW x \in arrived PROVE x \in Accounted'
  <2>1. x \in Accounted /\ x # None
    BY <1>4 DEF NothingLost
  <2>2. CASE \E m \in Names : x = inbox[m]
    BY <1>2, <2>1, <2>2
  <2>3. CASE \E m \in Names : x = errorFolder[m]
    BY <1>1, <2>3 DEF Accounted
  <2> QED BY <1>1, <2>1, <2>2, <2>3 DEF Accounted
<1> QED BY <1>1, <1>3, <1>5 DEF NothingLost

LEMMA MoveToErrorKeeps ==
    ASSUME TypeOK, NothingLost, MoveToError PROVE NothingLost'
<1> DEFINE n == worker.name
<1>1. n \in Names
  BY DEF TypeOK, FieldsSet, MoveToError, Goto
<1> HIDE DEF n
<1>2. /\ errorFolder' = [errorFolder EXCEPT ![n] = inbox[n]]
      /\ inbox' = [inbox EXCEPT ![n] = None]
      /\ overwritten' = overwritten \cup ({errorFolder[n]} \ {None})
      /\ UNCHANGED <<filed, trash, discarded, arrived>>
  BY DEF MoveToError, n
<1>3. ASSUME NEW m \in Names PROVE inbox[m] \in Accounted'
  <2>1. CASE m = n
    <3>1. errorFolder'[n] = inbox[n]
      BY <1>1, <1>2 DEF TypeOK
    <3> QED BY <2>1, <3>1, <1>1 DEF Accounted
  <2>2. CASE m # n
    <3>1. inbox'[m] = inbox[m]
      BY <1>2, <2>2 DEF TypeOK
    <3> QED BY <3>1 DEF Accounted
  <2> QED BY <2>1, <2>2
<1>4. ASSUME NEW m \in Names, errorFolder[m] # None PROVE errorFolder[m] \in Accounted'
  <2>1. CASE m = n
    <3>1. errorFolder[m] \in overwritten'
      BY <1>2, <1>4, <2>1
    <3> QED BY <3>1 DEF Accounted
  <2>2. CASE m # n
    <3>1. errorFolder'[m] = errorFolder[m]
      BY <1>2, <2>2 DEF TypeOK
    <3> QED BY <3>1 DEF Accounted
  <2> QED BY <2>1, <2>2
<1>5. None \notin arrived
  BY NoneAssumption DEF TypeOK
<1>6. ASSUME NEW x \in arrived PROVE x \in Accounted'
  <2>1. x \in Accounted /\ x # None
    BY <1>5 DEF NothingLost
  <2>2. CASE \E m \in Names : x = inbox[m]
    BY <1>3, <2>2
  <2>3. CASE \E m \in Names : x = errorFolder[m]
    BY <1>4, <2>1, <2>3
  <2> QED BY <1>2, <2>1, <2>2, <2>3 DEF Accounted
<1> QED BY <1>2, <1>6 DEF NothingLost

LEMMA CopyKeeps ==
    ASSUME NothingLost, NEW r \in Requests, Copy(r) PROVE NothingLost'
BY DEF NothingLost, Accounted, Copy

LEMMA DisposeKeeps ==
    ASSUME Careful, TypeOK, NothingLost, DisposesKnown, NEW r \in Requests,
        Dispose(r)
    PROVE  NothingLost'
<1> DEFINE n == NameOf(r)
<1>1. n \in Names /\ requests[r].kind \in {"execute", "remove"} /\ inbox[n] \in Docs
      /\ requests[r].pc = "dispose"
  BY DEF TypeOK, FieldsSet, Dispose, NameOf, RequestState
<1> HIDE DEF n
<1>2. /\ inbox' = [inbox EXCEPT ![n] = None]
      /\ trash' = IF Mode(r) = "trash" THEN IntoTrash(inbox[n]) ELSE trash
      /\ discarded' = IF /\ Mode(r) = "delete"
                         /\ requests[r].kind = "remove"
                         /\ requests[r].doc = inbox[n]
                      THEN discarded \cup {inbox[n]} ELSE discarded
      /\ UNCHANGED <<errorFolder, filed, overwritten, arrived>>
  BY DEF Dispose, n
<1>3. trash \subseteq trash' /\ discarded \subseteq discarded'
  BY <1>2 DEF IntoTrash
<1>4. inbox[n] \in Accounted'
  <2>1. CASE Mode(r) = "trash"
    BY <1>2, <2>1 DEF IntoTrash, Accounted
  <2>2. CASE Mode(r) # "trash"
    <3>1. Mode(r) = "delete" /\ FreshNames
      BY <2>2, SystemAssumption DEF Mode, Careful
    <3>2. Known(r)
      BY <3>1 DEF DisposesKnown
    <3>3. CASE requests[r].kind = "execute"
      BY <1>1, <1>2, <3>2, <3>3, NoneAssumption DEF Known, n, NameOf, Accounted
    <3>4. CASE requests[r].kind = "remove"
      <4>1. requests[r].doc = inbox[n]
        BY <1>1, <3>2, <3>4, NoneAssumption DEF Known, n, NameOf
      <4> QED BY <1>2, <3>1, <3>4, <4>1 DEF Accounted
    <3> QED BY <1>1, <3>3, <3>4
  <2> QED BY <2>1, <2>2
<1>5. ASSUME NEW m \in Names PROVE inbox[m] \in Accounted'
  <2>1. CASE m = n
    BY <1>4, <2>1
  <2>2. CASE m # n
    <3>1. inbox'[m] = inbox[m]
      BY <1>2, <2>2 DEF TypeOK
    <3> QED BY <3>1 DEF Accounted
  <2> QED BY <2>1, <2>2
<1>6. ASSUME NEW x \in arrived PROVE x \in Accounted'
  <2>1. x \in Accounted
    BY DEF NothingLost
  <2>2. CASE \E m \in Names : x = inbox[m]
    BY <1>5, <2>2
  <2> QED BY <1>2, <1>3, <2>1, <2>2 DEF Accounted
<1> QED BY <1>2, <1>6 DEF NothingLost

LEMMA NothingLostStep ==
    ASSUME Careful, TypeOK, NothingLost, DisposesKnown, [Next]_vars
    PROVE  NothingLost'
<1>1. ASSUME NEW n \in Names, NEW d \in Docs, Drop(n, d) PROVE NothingLost'
  BY <1>1, DropKeeps
<1>2. ASSUME NEW r \in Requests, NEW n \in Names,
             NEW kind \in {"execute", "remove"}, Lookup(r, n, kind)
      PROVE  NothingLost'
  BY <1>2, DocumentsStay DEF Lookup
<1>3. CASE Crash \/ Startup \/ Observer
  BY <1>3, DocumentsStay DEF Crash, Startup, Start, ScanList, ScanSubmit, ScanDone,
      PruneList, PruneSweep, Observer, ObserverSubmit, SubmitPut
<1>4. CASE MoveToError
  BY <1>4, MoveToErrorKeeps
<1>5. CASE WorkerNext /\ ~MoveToError
  BY <1>5, DocumentsStay DEF WorkerNext, TakeJob, Mark, ReadConfig, FindArtifact,
      LoadArtifact, LoadFails, Convert, NoOutput, ExtractionFails,
      StoreArtifact, ReadBack, MoveFails, ReportError, AnalysisFails, Publish
<1>6. ASSUME NEW r \in Requests, RequestStep(r) PROVE NothingLost'
  <2>1. CASE Copy(r)
    BY <2>1, CopyKeeps
  <2>2. CASE Dispose(r)
    BY <2>2, DisposeKeeps
  <2> QED BY <1>6, <2>1, <2>2, DocumentsStay
          DEF RequestStep, CopyRefused, CheckSource, DisposeMissing,
              DisposeFails, Unlist, Uncache
<1>7. CASE SaveFile \/ SaveStep
  BY <1>7, DocumentsStay DEF SaveFile, SaveStep, SwapConfig, ListEntries,
      CheckArtifact, PutReanalysis, ReanalysisAborted, SaveDone
<1>8. CASE UNCHANGED vars
  BY <1>8, DocumentsStay DEF vars
<1> QED BY <1>1, <1>2, <1>3, <1>4, <1>5, <1>6, <1>7, <1>8 DEF Next, Environment

(* Files may go and copies may come while a request runs.                  *)
LEMMA KnownStays ==
    ASSUME TypeOK, NEW r \in Requests, Known(r), requests'[r] = requests[r],
           filed \subseteq filed',
           \A n \in Names : inbox'[n] = inbox[n] \/ inbox'[n] = None
                            \/ n # requests[r].name
    PROVE  Known(r)'
<1>1. requests[r].pc # "idle" => requests[r].name \in Names
  BY DEF TypeOK, FieldsSet
<1> QED BY <1>1 DEF Known

(* The step of one request, with the files it leaves.                      *)
LEMMA KnownOthers ==
    ASSUME TypeOK, DisposesKnown, FreshNames, NEW r \in Requests, Known(r)',
           \A q \in Requests : q # r => requests'[q] = requests[q],
           filed \subseteq filed',
           \A n \in Names : inbox'[n] = inbox[n] \/ inbox'[n] = None
    PROVE  DisposesKnown'
<1>1. ASSUME NEW q \in Requests, q # r PROVE Known(q)'
  BY <1>1, KnownStays DEF DisposesKnown
<1> QED BY <1>1 DEF DisposesKnown

LEMMA KnownRequest ==
    ASSUME TypeOK, DisposesKnown, FreshNames, NEW r \in Requests, RequestStep(r)
    PROVE  DisposesKnown'
<1> DEFINE q == requests[r]
           n == NameOf(r)
<1>1. Known(r)
  BY DEF DisposesKnown
<1>2. q.pc # "idle" /\ n \in Names /\ n = q.name /\ q \in RequestState
  BY DEF RequestStep, Copy, CopyRefused, CheckSource, Dispose, DisposeMissing,
      DisposeFails, Unlist,
      Uncache, Advance, NameOf, TypeOK, FieldsSet
<1>3. \A p \in Requests : p # r => requests'[p] = requests[p]
  BY DEF RequestStep, Copy, CopyRefused, CheckSource, Dispose, DisposeMissing,
      DisposeFails, Unlist,
      Uncache, Advance, TypeOK
<1>4. filed \subseteq filed'
  BY DEF RequestStep, Copy, CopyRefused, CheckSource, Dispose, DisposeMissing,
      DisposeFails, Unlist,
      Uncache
<1>5. \A m \in Names : inbox'[m] = inbox[m] \/ inbox'[m] = None
  BY DEF RequestStep, Copy, CopyRefused, CheckSource, Dispose, DisposeMissing,
      DisposeFails, Unlist,
      Uncache, TypeOK
<1>6. CASE Copy(r)
  <2>1. q.pc = "copy" /\ inbox' = inbox /\ inbox[n] \in filed'
    BY <1>6 DEF Copy
  <2>2. requests'[r] = [q EXCEPT !.pc = "dispose"]
    BY <1>6 DEF Copy, Advance, TypeOK
  <2>3. Known(r)'
    BY <1>1, <1>2, <2>1, <2>2 DEF Known, RequestState
  <2> QED BY <1>3, <1>4, <1>5, <2>3, KnownOthers
<1>7. CASE CheckSource(r)
  <2>1. q.pc = "exists" /\ inbox' = inbox
    BY <1>7 DEF CheckSource
  <2>2. requests'[r] \in {[q EXCEPT !.pc = "dispose"], [q EXCEPT !.pc = "unlist"]}
    BY <1>7 DEF CheckSource, Advance, TypeOK
  <2>3. Known(r)'
    BY <1>1, <1>2, <2>1, <2>2 DEF Known, RequestState
  <2> QED BY <1>3, <1>4, <1>5, <2>3, KnownOthers
<1>8. CASE CopyRefused(r) \/ Dispose(r) \/ DisposeMissing(r)
        \/ DisposeFails(r) \/ Unlist(r) \/ Uncache(r)
  <2>1. requests'[r] \in {[q EXCEPT !.pc = "unlist"], [q EXCEPT !.pc = "uncache"],
                          IdleRequest}
    BY <1>8 DEF CopyRefused, Dispose, DisposeMissing, DisposeFails, Unlist,
        Uncache, Advance, TypeOK
  <2>2. Known(r)'
    BY <1>2, <2>1 DEF Known, RequestState, IdleRequest
  <2> QED BY <1>3, <1>4, <1>5, <2>2, KnownOthers
<1> QED BY <1>6, <1>7, <1>8 DEF RequestStep

LEMMA KnownStep ==
    ASSUME TypeOK, DisposesKnown, [Next]_vars PROVE DisposesKnown'
<1> SUFFICES ASSUME FreshNames PROVE DisposesKnown'
    BY DEF DisposesKnown
<1>1. ASSUME NEW n \in Names, NEW d \in Docs, Drop(n, d) PROVE DisposesKnown'
  <2>1. ASSUME NEW r \in Requests PROVE Known(r)'
    <3>1. requests[r].name # n
      BY <1>1 DEF Drop, Forgotten
    <3>2. \A m \in Names : inbox'[m] = inbox[m] \/ m # requests[r].name
      BY <1>1, <3>1 DEF Drop, TypeOK
    <3> QED BY <1>1, <3>2, KnownStays DEF DisposesKnown, Drop
  <2> QED BY <2>1 DEF DisposesKnown
<1>2. ASSUME UNCHANGED <<inbox, filed, requests>> PROVE DisposesKnown'
  BY <1>2 DEF DisposesKnown, Known
<1>3. ASSUME NEW r \in Requests, NEW n \in Names,
             NEW kind \in {"execute", "remove"}, Lookup(r, n, kind)
      PROVE  DisposesKnown'
  <2>1. \A q \in Requests : q # r => requests'[q] = requests[q]
    BY <1>3 DEF Lookup, TypeOK
  <2>2. inbox' = inbox /\ filed' = filed
    BY <1>3 DEF Lookup
  <2>3. /\ requests'[r].pc = IF kind = "execute" THEN "copy" ELSE "exists"
        /\ requests'[r].kind = kind /\ requests'[r].name = n
        /\ requests'[r].doc = inbox[n]
    BY <1>3 DEF Lookup, TypeOK
  <2>4. Known(r)'
    BY <2>2, <2>3 DEF Known
  <2> QED BY <2>1, <2>2, <2>4, KnownOthers
<1>4. CASE Crash
  BY <1>4 DEF Crash, DisposesKnown, Known, IdleRequest
<1>5. CASE Startup \/ Observer
  BY <1>2, <1>5 DEF Startup, Start, ScanList, ScanSubmit, ScanDone, PruneList,
      PruneSweep, Observer, ObserverSubmit, SubmitPut
<1>6. CASE MoveToError
  <2>1. /\ UNCHANGED <<filed, requests>>
        /\ \A n \in Names : inbox'[n] = inbox[n] \/ inbox'[n] = None
    BY <1>6 DEF MoveToError, TypeOK
  <2> QED BY <2>1, KnownStays DEF DisposesKnown
<1>7. CASE WorkerNext /\ ~MoveToError
  BY <1>2, <1>7 DEF WorkerNext, TakeJob, Mark, ReadConfig, FindArtifact,
      LoadArtifact, LoadFails, Convert, NoOutput, ExtractionFails,
      StoreArtifact, ReadBack, MoveFails, ReportError, AnalysisFails, Publish
<1>8. ASSUME NEW r \in Requests, RequestStep(r) PROVE DisposesKnown'
  BY <1>8, KnownRequest
<1>9. CASE SaveFile \/ SaveStep
  BY <1>2, <1>9 DEF SaveFile, SaveStep, SwapConfig, ListEntries, CheckArtifact,
      PutReanalysis, ReanalysisAborted, SaveDone
<1>10. CASE UNCHANGED vars
  BY <1>2, <1>10 DEF vars
<1> QED BY <1>1, <1>3, <1>4, <1>5, <1>6, <1>7, <1>8, <1>9, <1>10 DEF Next, Environment

(* Whatever the names, requests, restarts and failures: every PDF that     *)
(* reached the watchfolder is somewhere, or was removed by a user or       *)
(* replaced in error/, provided that a file name is not reused while the   *)
(* process remembers it, or that originals only ever go to the trash.      *)
THEOREM NothingLostIfCareful == Careful => (Spec => []NothingLost)
<1> SUFFICES ASSUME Careful PROVE Spec => []NothingLost
    OBVIOUS
<1>1. Init => NothingLost /\ DisposesKnown
  <2>1. Init => NothingLost
    BY DEF Init, NothingLost, Accounted
  <2>2. Init => DisposesKnown
    BY DEF Init, DisposesKnown, Known, IdleRequest
  <2> QED BY <2>1, <2>2
<1>2. /\ TypeOK /\ NothingLost /\ DisposesKnown
      /\ [Next]_vars
      => NothingLost' /\ DisposesKnown'
  BY NothingLostStep, KnownStep
<1> QED BY <1>1, <1>2, TypeCorrect, PTL DEF Spec

-----------------------------------------------------------------------------
(* Part 3: the worker leaves no entry behind in analysis.                  *)

LEMMA VerdictStep ==
    ASSUME TypeOK, [Next]_vars, worker.pc \notin {"idle", "load"},
           worker'.pc = "idle", phase' # "down"
    PROVE  ~HasStatus(register', worker.name, "analyzing")
<1>1. ReportError \/ Publish
  <2>1. worker' # worker
    OBVIOUS
  <2>2. ~Crash
    BY DEF Crash
  <2>3. WorkerNext
    BY <2>1, <2>2 DEF vars, Next, Environment, Drop, Lookup, SaveFile, Startup, Start,
        ScanList, ScanSubmit, ScanDone, PruneList, PruneSweep, Observer,
        ObserverSubmit, SubmitPut, RequestStep, Copy, CopyRefused, CheckSource,
        Dispose, DisposeMissing, DisposeFails, Unlist, Uncache, SaveStep,
            SwapConfig,
        ListEntries, CheckArtifact, PutReanalysis, ReanalysisAborted, SaveDone
  <2> QED BY <2>3 DEF TypeOK, WorkerNext, TakeJob, Mark, ReadConfig, FindArtifact, LoadArtifact,
          LoadFails, Convert, NoOutput, ExtractionFails, StoreArtifact,
          ReadBack, MoveToError, MoveFails, AnalysisFails, Goto
<1>2. worker.name \in Names
  BY DEF TypeOK, FieldsSet
<1>3. CASE ReportError
  BY <1>2, <1>3, VerdictEndsAnalysis DEF ReportError, Reason, TypeOK
<1>4. CASE Publish
  <2>1. [doc |-> worker.doc, config |-> worker.config] \in Suggestion
    BY <1>4 DEF Publish, TypeOK, FieldsSet, Suggestion
  <2> QED BY <1>2, <1>4, <2>1, VerdictEndsAnalysis DEF Publish, TypeOK
<1> QED BY <1>1, <1>3, <1>4

(* Every job that gets past the loading of a cached artifact ends with a   *)
(* verdict: its entry is ready, in error, or was removed meanwhile.        *)
THEOREM AnalysisEndsWithVerdict == Spec => NeverLeftAnalyzing
<1>1. /\ TypeOK /\ [Next]_vars
      => [worker.pc \notin {"idle", "load"} /\ worker'.pc = "idle" /\ phase' # "down"
          => ~HasStatus(register', worker.name, "analyzing")]_vars
  BY VerdictStep
<1> QED BY <1>1, TypeCorrect, PTL DEF Spec, NeverLeftAnalyzing

-----------------------------------------------------------------------------
(* Part 4: a file is extracted once (ExtractedOnce), if no entry is removed *)
(* while its extraction is outstanding.                                    *)

(* Nobody extracts what is not registered: an entry keeps add from letting *)
(* a second submitter pass.                                                *)
OutstandingListed == \A n \in Names : Outstanding(n) => Listed(register, n)

OnceInv == ExtractedOnce /\ OutstandingListed

(* No place of an extraction of n is taken that was not taken before.      *)
NothingNew(n) ==
    /\ InQueue(n)' \subseteq InQueue(n)
    /\ Submitting(n)' \subseteq Submitting(n)
    /\ Extracting(n)' => Extracting(n)

LEMMA OnceKept ==
    ASSUME OnceInv, \A n \in Names : NothingNew(n),
           \A n \in Names : Outstanding(n) /\ Listed(register, n) => Listed(register', n)
    PROVE  OnceInv'
<1> SUFFICES ASSUME NEW n \in Names
             PROVE  /\ \A i, k \in InQueue(n)' : i = k
                    /\ \A s, t \in Submitting(n)' : s = t
                    /\ InQueue(n)' # {} => Submitting(n)' = {} /\ ~Extracting(n)'
                    /\ Submitting(n)' # {} => ~Extracting(n)'
                    /\ Outstanding(n)' => Listed(register', n)
    BY DEF OnceInv, ExtractedOnce, OutstandingListed, Listed
<1>1. /\ \A i, k \in InQueue(n) : i = k
      /\ \A s, t \in Submitting(n) : s = t
      /\ InQueue(n) # {} => Submitting(n) = {} /\ ~Extracting(n)
      /\ Submitting(n) # {} => ~Extracting(n)
      /\ Outstanding(n) => Listed(register, n)
  BY DEF OnceInv, ExtractedOnce, OutstandingListed
<1>2. Outstanding(n)' => Outstanding(n)
  BY DEF NothingNew, Outstanding
<1> QED BY <1>1, <1>2 DEF NothingNew

(* Only remove takes an entry out of the register.                         *)
LEMMA ListedStays ==
    ASSUME TypeOK, NEW n \in Names, NEW m \in Names, Listed(register, m),
           NEW new \in {MarkAnalyzing(register, n)}
                       \cup {MarkError(register, n, why) : why \in Reason}
                       \cup {SetReady(register, n, s) : s \in Suggestion}
    PROVE  Listed(new, m)
<1>1. register \in Registers /\ ReadySuggested(register)
  BY DEF TypeOK, FieldsSet
<1>2. None \notin Entry /\ None \notin Suggestion
  BY NoneAssumption
<1>3. CASE m = n
  <2>1. register[n] \in Entry
    BY <1>1, <1>3 DEF Listed, Registers
  <2>2. CASE new = MarkAnalyzing(register, n)
    <3>1. new[n] = [register[n] EXCEPT !.status = "analyzing", !.reason = None]
      BY <1>1, <1>3, <2>2 DEF MarkAnalyzing, Registers
    <3> QED BY <1>2, <1>3, <2>1, <3>1 DEF Entry, Status, Listed
  <2>3. ASSUME NEW why \in Reason, new = MarkError(register, n, why)
        PROVE  Listed(new, m)
    <3>1. new[n] = [register[n] EXCEPT !.status = "error", !.suggestion = None,
                                       !.reason = why]
      BY <1>1, <1>3, <2>3 DEF MarkError, Registers
    <3> QED BY <1>2, <1>3, <2>1, <3>1 DEF Entry, Status, Listed
  <2>4. ASSUME NEW s \in Suggestion, new = SetReady(register, n, s)
        PROVE  Listed(new, m)
    <3>1. new[n] = [register[n] EXCEPT !.status = "ready", !.suggestion = s,
                                       !.reason = None]
      BY <1>1, <1>3, <2>4 DEF SetReady, Registers
    <3> QED BY <1>2, <1>3, <2>1, <3>1 DEF Entry, Status, Listed
  <2> QED BY <2>2, <2>3, <2>4
<1>4. CASE m # n
  BY <1>1, <1>4 DEF MarkAnalyzing, MarkError, SetReady, Listed, Registers
<1> QED BY <1>3, <1>4

(* add registers the path, whether or not it was registered.               *)
LEMMA ListedByAdd ==
    ASSUME TypeOK, NEW n \in Names, register' = Add(register, n, nextId)
    PROVE  Listed(register', n)
<1> DEFINE e == [id |-> nextId, status |-> "pending", suggestion |-> None,
                 reason |-> None]
<1>1. e \in Entry
  BY DEF TypeOK, Entry, Status
<1>2. e # None
  BY <1>1, NoneAssumption
<1>3. register' = IF Listed(register, n) THEN register
                  ELSE [register EXCEPT ![n] = e]
  BY DEF Add
<1> HIDE DEF e
<1> QED BY <1>2, <1>3 DEF Listed, TypeOK, Registers

(* Steps that leave the queue and the submitters alone and give the worker *)
(* no other job.                                                           *)
LEMMA OnceUntouched ==
    ASSUME OnceInv, UNCHANGED <<work, holding>>,
           \/ worker'.name = worker.name /\ worker'.reuse = worker.reuse
           \/ worker' = IdleWorker,
           \A n \in Names : Outstanding(n) /\ Listed(register, n) => Listed(register', n)
    PROVE  OnceInv'
<1>1. ASSUME NEW n \in Names PROVE NothingNew(n)
  <2>1. InQueue(n)' = InQueue(n) /\ Submitting(n)' = Submitting(n)
    BY DEF InQueue, Submitting
  <2>2. n # None
    BY NoneAssumption
  <2>3. Extracting(n)' => Extracting(n)
    BY <2>2 DEF Extracting, IdleWorker
  <2> QED BY <2>1, <2>3 DEF NothingNew
<1> QED BY <1>1, OnceKept

(* A submitter passes add only for a path that nobody extracts.            *)
LEMMA OnceSubmitAdd ==
    ASSUME TypeOK, OnceInv, NEW s \in Submitters, NEW n \in Names,
           SubmitAdd(s, n), holding[s] = None, UNCHANGED <<work, worker>>
    PROVE  OnceInv'
<1>1. \A m \in Names : Listed(register, m) => Listed(register', m)
  BY NoneAssumption DEF SubmitAdd, Add, Listed, TypeOK, Registers
<1>2. CASE Listed(register, n)
  <2>1. holding' = holding
    BY <1>2 DEF SubmitAdd, TypeOK
  <2> QED BY <1>1, <2>1, OnceUntouched
<1>3. CASE ~Listed(register, n)
  <2>1. holding' = [holding EXCEPT ![s] = n]
    BY <1>3 DEF SubmitAdd
  <2>2. Listed(register', n)
    BY ListedByAdd DEF SubmitAdd
  <2>3. ~Outstanding(n)
    BY <1>3 DEF OnceInv, OutstandingListed
  <2>4. \A m \in Names : InQueue(m)' = InQueue(m) /\ (Extracting(m)' <=> Extracting(m))
    BY DEF InQueue, Extracting
  <2>5. Submitting(n)' = {s}
    BY <2>1, <2>3 DEF Submitting, Outstanding, TypeOK
  <2>6. \A m \in Names \ {n} : Submitting(m)' = Submitting(m)
    BY <2>1, NoneAssumption DEF Submitting, TypeOK
  <2>7. ExtractedOnce'
    <3> SUFFICES ASSUME NEW m \in Names
                 PROVE  /\ \A i, k \in InQueue(m)' : i = k
                        /\ \A t, u \in Submitting(m)' : t = u
                        /\ InQueue(m)' # {} => Submitting(m)' = {} /\ ~Extracting(m)'
                        /\ Submitting(m)' # {} => ~Extracting(m)'
        BY DEF ExtractedOnce
    <3>1. CASE m = n
      BY <2>3, <2>4, <2>5, <3>1 DEF Outstanding
    <3>2. CASE m # n
      BY <2>4, <2>6, <3>2 DEF OnceInv, ExtractedOnce
    <3> QED BY <3>1, <3>2
  <2>8. ASSUME NEW m \in Names, Outstanding(m)' PROVE Listed(register', m)
    <3>1. CASE m = n
      BY <2>2, <3>1
    <3>2. CASE m # n
      BY <1>1, <2>4, <2>6, <2>8, <3>2 DEF Outstanding, OnceInv, OutstandingListed
    <3> QED BY <3>1, <3>2
  <2> QED BY <2>7, <2>8 DEF OnceInv, OutstandingListed, Listed
<1> QED BY <1>2, <1>3

(* The jobs in the queue after put.                                        *)
LEMMA PutAddsOne ==
    ASSUME TypeOK, NEW kind \in {"extract", "reanalyze"}, NEW n \in Names,
           work' = Enqueue(work, kind, n), NEW m \in Names
    PROVE  InQueue(m)' = InQueue(m) \cup (IF kind = "extract" /\ m = n
                                          THEN {Len(work) + 1} ELSE {})
<1> DEFINE j == [kind |-> kind, name |-> n]
           e == [kind |-> "extract", name |-> m]
<1>1. work \in Seq(Jobs) /\ j \in Jobs
  BY DEF TypeOK, Jobs
<1>2. work' = Append(work, j)
  BY DEF Enqueue
<1>3. j = e <=> kind = "extract" /\ m = n
  <2>1. j.kind = kind /\ j.name = n /\ e.kind = "extract" /\ e.name = m
    OBVIOUS
  <2> QED BY <2>1
<1>4. InQueue(m) = {i \in 1..Len(work) : work[i] = e}
      /\ InQueue(m)' = {i \in 1..Len(work') : work'[i] = e}
  BY DEF InQueue
<1> HIDE DEF j, e
<1>5. Len(work') = Len(work) + 1 /\ work'[Len(work) + 1] = j /\ Len(work) \in Nat
  BY <1>1, <1>2
<1>6. \A i \in 1..Len(work) : work'[i] = work[i]
  BY <1>1, <1>2
<1>7. 1..Len(work') = 1..Len(work) \cup {Len(work) + 1} /\ Len(work) + 1 \notin 1..Len(work)
  BY <1>5
<1>8. InQueue(m)' = InQueue(m) \cup (IF j = e THEN {Len(work) + 1} ELSE {})
  BY <1>4, <1>5, <1>6, <1>7
<1> QED BY <1>3, <1>8

(* put takes the name from the submitter to the queue.                     *)
LEMMA OnceSubmitPut ==
    ASSUME TypeOK, OnceInv, NEW s \in Submitters, SubmitPut(s)
    PROVE  OnceInv'
<1>1. holding[s] \in Names
  BY DEF TypeOK, SubmitPut
<1>2. holding' = [holding EXCEPT ![s] = None] /\ UNCHANGED <<worker, register>>
      /\ work' = Enqueue(work, "extract", holding[s])
  BY DEF SubmitPut
<1>3. \A m \in Names : Extracting(m)' <=> Extracting(m)
  BY <1>2 DEF Extracting
<1>4. \A m \in Names : Submitting(m)' = Submitting(m) \ {s}
  BY <1>2, NoneAssumption DEF Submitting, TypeOK
<1>5. ASSUME NEW m \in Names, m # holding[s]
      PROVE  InQueue(m)' = InQueue(m) /\ Submitting(m)' = Submitting(m)
  <2>1. InQueue(m)' = InQueue(m) \cup (IF "extract" = "extract" /\ m = holding[s]
                                       THEN {Len(work) + 1} ELSE {})
    BY <1>1, <1>2, PutAddsOne
  <2>2. s \notin Submitting(m)
    BY <1>5 DEF Submitting
  <2> QED BY <1>4, <1>5, <2>1, <2>2
<1>6. ASSUME NEW m \in Names, m = holding[s]
      PROVE  /\ \E i : InQueue(m)' = {i}
             /\ Submitting(m)' = {}
             /\ ~Extracting(m)'
             /\ Listed(register, m)
  <2>1. s \in Submitting(m)
    BY <1>6 DEF Submitting
  <2>2. InQueue(m) = {} /\ Submitting(m) = {s} /\ ~Extracting(m)
    BY <2>1 DEF OnceInv, ExtractedOnce
  <2>3. InQueue(m)' = InQueue(m) \cup {Len(work) + 1}
    BY <1>1, <1>2, <1>6, PutAddsOne
  <2>4. Listed(register, m)
    BY <2>1 DEF OnceInv, OutstandingListed, Outstanding
  <2> QED BY <1>3, <1>4, <2>2, <2>3, <2>4
<1>7. ExtractedOnce'
  <2> SUFFICES ASSUME NEW m \in Names
               PROVE  /\ \A i, k \in InQueue(m)' : i = k
                      /\ \A t, u \in Submitting(m)' : t = u
                      /\ InQueue(m)' # {} => Submitting(m)' = {} /\ ~Extracting(m)'
                      /\ Submitting(m)' # {} => ~Extracting(m)'
      BY DEF ExtractedOnce
  <2>1. CASE m = holding[s]
    BY <1>6, <2>1
  <2>2. CASE m # holding[s]
    BY <1>3, <1>5, <2>2 DEF OnceInv, ExtractedOnce
  <2> QED BY <2>1, <2>2
<1>8. ASSUME NEW m \in Names, Outstanding(m)' PROVE Listed(register', m)
  <2>1. CASE m = holding[s]
    BY <1>2, <1>6, <2>1
  <2>2. CASE m # holding[s]
    BY <1>2, <1>3, <1>5, <1>8, <2>2 DEF Outstanding, OnceInv, OutstandingListed
  <2> QED BY <2>1, <2>2
<1> QED BY <1>7, <1>8 DEF OnceInv, OutstandingListed, Listed

(* The jobs in the queue after get: those that were, one place further on, *)
(* without the first.                                                      *)
LEMMA GetTakesFirst ==
    ASSUME NEW queue \in Seq(Jobs), queue # <<>>
    PROVE  /\ Head(queue) = queue[1] /\ 1 \in 1..Len(queue)
           /\ \A i \in 1..Len(Tail(queue)) : /\ i + 1 \in 1..Len(queue) /\ i + 1 # 1
                                             /\ Tail(queue)[i] = queue[i + 1]
OBVIOUS

(* get takes the name from the queue to the worker.                        *)
LEMMA OnceTakeJob ==
    ASSUME TypeOK, OnceInv, TakeJob PROVE OnceInv'
<1>1. work \in Seq(Jobs) /\ work # <<>> /\ work' = Tail(work)
      /\ UNCHANGED <<register, holding>>
  BY DEF TypeOK, TakeJob
<1>2. /\ worker'.name = Head(work).name
      /\ worker'.reuse = (Head(work).kind = "reanalyze")
  BY DEF TakeJob
<1>3. \A m \in Names : Submitting(m)' = Submitting(m)
  BY <1>1 DEF Submitting
<1>4. ASSUME NEW m \in Names, NEW i \in InQueue(m)' PROVE i + 1 \in InQueue(m) /\ i \in Nat
  BY <1>1, GetTakesFirst DEF InQueue
<1>5. ASSUME NEW m \in Names, Extracting(m)' PROVE 1 \in InQueue(m)
  <2>1. Head(work) \in Jobs
    BY <1>1
  <2>2. Head(work).name = m /\ Head(work).kind # "reanalyze"
    BY <1>2, <1>5 DEF Extracting
  <2>3. Head(work) = [kind |-> "extract", name |-> m]
    BY <2>1, <2>2 DEF Jobs
  <2> QED BY <1>1, <2>3, GetTakesFirst DEF InQueue
<1>6. ASSUME NEW m \in Names
      PROVE  /\ \A i, k \in InQueue(m)' : i = k
             /\ \A t, u \in Submitting(m)' : t = u
             /\ InQueue(m)' # {} => Submitting(m)' = {} /\ ~Extracting(m)'
             /\ Submitting(m)' # {} => ~Extracting(m)'
             /\ Outstanding(m)' => Outstanding(m)
  <2>1. /\ \A i, k \in InQueue(m) : i = k
        /\ \A t, u \in Submitting(m) : t = u
        /\ InQueue(m) # {} => Submitting(m) = {}
    BY DEF OnceInv, ExtractedOnce
  <2>2. \A i, k \in InQueue(m)' : i = k
    BY <1>4, <2>1
  <2>3. ASSUME NEW i \in InQueue(m)' PROVE Submitting(m)' = {} /\ ~Extracting(m)'
    <3>1. i + 1 \in InQueue(m) /\ i + 1 # 1
      BY <2>3, <1>4, <1>1, GetTakesFirst DEF InQueue
    <3>2. 1 \notin InQueue(m)
      BY <2>1, <3>1
    <3> QED BY <1>3, <1>5, <2>1, <3>1, <3>2
  <2>4. Submitting(m)' # {} => ~Extracting(m)'
    BY <1>3, <1>5, <2>1
  <2>5. Outstanding(m)' => Outstanding(m)
    BY <1>3, <1>4, <1>5 DEF Outstanding
  <2> QED BY <1>3, <2>1, <2>2, <2>3, <2>4, <2>5
<1>7. \A m \in Names : Outstanding(m)' => Listed(register', m)
  BY <1>1, <1>6 DEF OnceInv, OutstandingListed
<1> QED BY <1>6, <1>7 DEF OnceInv, ExtractedOnce, OutstandingListed, Listed

LEMMA OnceWorker ==
    ASSUME TypeOK, OnceInv, WorkerNext PROVE OnceInv'
<1>1. CASE TakeJob
  BY <1>1, OnceTakeJob
<1>2. CASE ~TakeJob
  <2>1. UNCHANGED <<work, holding>>
    BY <1>2 DEF WorkerNext, Mark, ReadConfig, FindArtifact, LoadArtifact,
        LoadFails, Convert, NoOutput, ExtractionFails, StoreArtifact, ReadBack,
        MoveToError, MoveFails, ReportError, AnalysisFails, Publish
  <2>2. \/ worker'.name = worker.name /\ worker'.reuse = worker.reuse
        \/ worker' = IdleWorker
    BY <1>2 DEF WorkerNext, Mark, ReadConfig, FindArtifact, LoadArtifact,
        LoadFails, Convert, NoOutput, ExtractionFails, StoreArtifact, ReadBack,
        MoveToError, MoveFails, ReportError, AnalysisFails, Publish, Goto, TypeOK
  <2>3. \A n \in Names : Listed(register, n) => Listed(register', n)
    <3>1. CASE Mark \/ ReportError \/ Publish
      <4>1. worker.name \in Names
        BY <3>1 DEF Mark, ReportError, Publish, Goto, TypeOK, FieldsSet
      <4>2. register' \in {MarkAnalyzing(register, worker.name)}
                 \cup {MarkError(register, worker.name, why) : why \in Reason}
                 \cup {SetReady(register, worker.name, s) : s \in Suggestion}
        BY <3>1 DEF Mark, ReportError, Publish, Goto, Reason, Suggestion, TypeOK, FieldsSet
      <4> QED BY <4>1, <4>2, ListedStays
    <3> QED BY <1>2, <3>1 DEF WorkerNext, ReadConfig, FindArtifact, LoadArtifact,
            LoadFails, Convert, NoOutput, ExtractionFails, StoreArtifact,
            ReadBack, MoveToError, MoveFails, AnalysisFails
  <2> QED BY <2>1, <2>2, <2>3, OnceUntouched
<1> QED BY <1>1, <1>2

LEMMA OnceHandlers ==
    ASSUME TypeOK, OnceInv,
           SaveFile \/ SaveStep \/ (\E r \in Requests : RequestStep(r)),
           \A r \in Requests : Unlist(r) => ~Outstanding(NameOf(r))
    PROVE  OnceInv'
<1>1. CASE PutReanalysis
  <2>1. save.name \in Names /\ work' = Enqueue(work, "reanalyze", save.name)
        /\ UNCHANGED <<register, worker, holding>>
    BY <1>1 DEF PutReanalysis, TypeOK, FieldsSet
  <2>2. \A n \in Names : InQueue(n)' = InQueue(n)
    BY <2>1, PutAddsOne
  <2>3. \A n \in Names : NothingNew(n)
    BY <2>1, <2>2 DEF NothingNew, Submitting, Extracting
  <2> QED BY <2>1, <2>3, OnceKept
<1>2. ASSUME NEW r \in Requests, Unlist(r) PROVE OnceInv'
  <2>1. register' = [register EXCEPT ![NameOf(r)] = None]
        /\ UNCHANGED <<work, worker, holding>>
    BY <1>2 DEF Unlist, Remove
  <2>2. ASSUME NEW n \in Names, Outstanding(n), Listed(register, n)
        PROVE  Listed(register', n)
    <3>1. n # NameOf(r)
      BY <1>2, <2>2
    <3> QED BY <2>1, <2>2, <3>1 DEF Listed, TypeOK, Registers
  <2> QED BY <2>1, <2>2, OnceUntouched
<1>3. ASSUME UNCHANGED <<register, work, worker, holding>> PROVE OnceInv'
  BY <1>3, OnceUntouched
<1>4. CASE SaveFile \/ SwapConfig \/ ListEntries \/ ReanalysisAborted \/ SaveDone
           \/ (\E n \in Names : CheckArtifact(n))
  BY <1>3, <1>4 DEF SaveFile, SwapConfig, ListEntries, ReanalysisAborted, SaveDone,
      CheckArtifact
<1>5. ASSUME NEW r \in Requests, Copy(r) \/ CopyRefused(r) \/ CheckSource(r)
              \/ Dispose(r) \/ DisposeMissing(r) \/ DisposeFails(r) \/ Uncache(r)
      PROVE  OnceInv'
  BY <1>3, <1>5 DEF Copy, CopyRefused, CheckSource, Dispose, DisposeMissing,
      DisposeFails, Uncache
<1> QED BY <1>1, <1>2, <1>4, <1>5 DEF SaveStep, RequestStep

(* Where nothing is outstanding, nothing is extracted twice.               *)
LEMMA OnceEmpty == work = <<>> /\ worker = IdleWorker
                   /\ holding = [s \in Submitters |-> None] => OnceInv
BY NoneAssumption DEF OnceInv, ExtractedOnce, OutstandingListed, Outstanding, InQueue,
    Submitting, Extracting, IdleWorker

LEMMA OnceStep ==
    ASSUME TypeOK, OnceInv, [Next]_vars,
           \A r \in Requests : Unlist(r) => ~Outstanding(NameOf(r))
    PROVE  OnceInv'
<1>1. ASSUME UNCHANGED <<register, work, worker, holding>> PROVE OnceInv'
  BY <1>1, OnceUntouched
<1>2. ASSUME NEW n \in Names, NEW d \in Docs, Drop(n, d) PROVE OnceInv'
  BY <1>1, <1>2 DEF Drop
<1>3. ASSUME NEW r \in Requests, NEW n \in Names,
             NEW kind \in {"execute", "remove"}, Lookup(r, n, kind)
      PROVE  OnceInv'
  BY <1>1, <1>3 DEF Lookup
<1>4. CASE Crash
  <2>1. work' = <<>> /\ worker' = IdleWorker /\ holding' = [s \in Submitters |-> None]
    BY <1>4 DEF Crash
  <2> QED BY <2>1, NoneAssumption DEF OnceInv, ExtractedOnce, OutstandingListed,
          Outstanding, InQueue, Submitting, Extracting, IdleWorker
<1>5. CASE Start \/ ScanList \/ ScanDone \/ PruneList \/ PruneSweep
  BY <1>1, <1>5 DEF Start, ScanList, ScanDone, PruneList, PruneSweep
<1>6. ASSUME NEW n \in Names, ScanSubmit(n) PROVE OnceInv'
  <2>1. CASE inbox[n] = None
    BY <1>1, <1>6, <2>1 DEF ScanSubmit
  <2>2. CASE inbox[n] # None
    BY <1>6, <2>2, OnceSubmitAdd DEF ScanSubmit, Submitters
  <2> QED BY <2>1, <2>2
<1>7. CASE ObserverSubmit
  <2>1. Head(events) \in Names
    BY <1>7 DEF ObserverSubmit, TypeOK
  <2> QED BY <1>7, <2>1, OnceSubmitAdd DEF ObserverSubmit, Submitters
<1>8. CASE SubmitPut("scan") \/ SubmitPut("observer")
  BY <1>8, OnceSubmitPut DEF Submitters
<1>9. CASE WorkerNext
  BY <1>9, OnceWorker
<1>10. CASE SaveFile \/ SaveStep \/ (\E r \in Requests : RequestStep(r))
  BY <1>10, OnceHandlers
<1>11. CASE UNCHANGED vars
  BY <1>1, <1>11 DEF vars
<1> QED BY <1>2, <1>3, <1>4, <1>5, <1>6, <1>7, <1>8, <1>9, <1>10, <1>11
        DEF Next, Environment, Startup, Observer

(* Whatever the files, the events, the saves and the restarts: a file has  *)
(* never two extractions outstanding, as long as no handler removes an     *)
(* entry whose extraction is (worker.py submit, queue.py add, remove).  A  *)
(* removal leaves the job in the queue, and the next event for the name    *)
(* queues a second one.                                                    *)
THEOREM ExtractedOnceIfKept ==
    Spec /\ [][\A r \in Requests : Unlist(r) => ~Outstanding(NameOf(r))]_vars
    => []ExtractedOnce
<1>1. Init => OnceInv
  BY OnceEmpty DEF Init
<1>2. /\ TypeOK /\ OnceInv /\ [Next]_vars
      /\ [\A r \in Requests : Unlist(r) => ~Outstanding(NameOf(r))]_vars
      => OnceInv'
  <2> SUFFICES ASSUME TypeOK, OnceInv, [Next]_vars,
                      [\A r \in Requests : Unlist(r) => ~Outstanding(NameOf(r))]_vars
               PROVE  OnceInv'
      OBVIOUS
  <2>1. CASE UNCHANGED vars
    BY <2>1, OnceUntouched DEF vars
  <2> QED BY <2>1, OnceStep
<1>3. OnceInv => ExtractedOnce
  BY DEF OnceInv
<1> QED BY <1>1, <1>2, <1>3, TypeCorrect, PTL DEF Spec

(* While a process starts up, and as long as nobody files or removes: a    *)
(* file that the scan and the observer both announce is extracted once     *)
(* (watcher.py start, queue.py add).                                       *)
THEOREM ExtractedOnceAtStartup == Requests = {} => (Spec => []ExtractedOnce)
<1> SUFFICES ASSUME Requests = {} PROVE Spec => []ExtractedOnce
    OBVIOUS
<1>1. Init => OnceInv
  BY OnceEmpty DEF Init
<1>2. TypeOK /\ OnceInv /\ [Next]_vars => OnceInv'
  BY OnceStep
<1>3. OnceInv => ExtractedOnce
  BY DEF OnceInv
<1> QED BY <1>1, <1>2, <1>3, TypeCorrect, PTL DEF Spec
=============================================================================
