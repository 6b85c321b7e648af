--------------------------- MODULE CustodyProofs ---------------------------
(* The process implements module Custody, for every instance in which a    *)
(* file name is reused only once the process has forgotten it; and until   *)
(* the configuration is saved, what is offered for review is what it seems. *)
EXTENDS PipelineProofs

USE DEF documents, settings, listing, intake, handlers, alone, elsewhere

-----------------------------------------------------------------------------
(* Part 1: the inductive invariant.                                        *)

(* A document lies in one place of the two folders, and has arrived.       *)
Apart ==
    /\ \A m, n \in Names : inbox[m] # None /\ inbox[m] = inbox[n] => m = n
    /\ \A m, n \in Names : errorFolder[m] # None /\ errorFolder[m] = errorFolder[n]
                           => m = n
    /\ \A m, n \in Names : inbox[m] # None => inbox[m] # errorFolder[n]
    /\ \A n \in Names : {inbox[n], errorFolder[n]} \subseteq arrived \cup {None}

(* What lies under the name of a job is what the job is about: the         *)
(* document just read, the one whose artifact is read back, or one that    *)
(* has been found unreadable.                                              *)
JobFits ==
    LET file == inbox[worker.name]
    IN  /\ worker.pc = "store" => file \in {worker.doc, None}
        /\ worker.pc = "readBack" => \/ Artifact = None
                                     \/ file \in {Artifact, None}
        /\ worker.pc = "moveToError" => file \in Scans \cup Corrupt \cup {None}

(* A request that still has to touch the file finds the one it was made    *)
(* for, or none.                                                           *)
OrderFits(r) ==
    LET q == requests[r]
    IN  q.pc \in {"copy", "exists", "dispose"} => inbox[q.name] \in {q.doc, None}

OrdersFit == \A r \in Requests : OrderFits(r)

CustodyInv ==
    /\ Apart /\ ErrorFolderUnreadable
    /\ JobFits /\ DisposesKnown /\ OrdersFit

LEMMA InitCustody == Init => CustodyInv
<1> SUFFICES ASSUME Init PROVE CustodyInv
    OBVIOUS
<1>1. Apart
  BY DEF Init, Apart
<1>2. ErrorFolderUnreadable
  BY DEF Init, ErrorFolderUnreadable
<1>3. JobFits
  BY DEF Init, JobFits, IdleWorker
<1>4. DisposesKnown /\ OrdersFit
  BY DEF Init, DisposesKnown, Known, OrdersFit, OrderFits, IdleRequest
<1> QED BY <1>1, <1>2, <1>3, <1>4 DEF CustodyInv

(* Apart.                                                                  *)
LEMMA ApartStep == TypeOK /\ Apart /\ [Next]_vars => Apart'
<1> SUFFICES ASSUME TypeOK, Apart, [Next]_vars PROVE Apart'
    OBVIOUS
<1>1. ASSUME UNCHANGED <<inbox, errorFolder, arrived>> PROVE Apart'
  BY <1>1 DEF Apart
<1>2. ASSUME NEW n \in Names, NEW d \in Docs, Drop(n, d) PROVE Apart'
  <2>1. inbox' = [inbox EXCEPT ![n] = d] /\ errorFolder' = errorFolder
        /\ arrived' = arrived \cup {d} /\ d \notin arrived /\ d # None
    BY <1>2, NoneAssumption DEF Drop
  <2>2. \A m \in Names : inbox'[m] = IF m = n THEN d ELSE inbox[m]
    BY <2>1 DEF TypeOK
  <2> QED BY <2>1, <2>2 DEF Apart
<1>3. CASE MoveToError
  <2> DEFINE w == worker.name
  <2>1. w \in Names
    BY <1>3 DEF TypeOK, FieldsSet, MoveToError, Goto
  <2>2. inbox' = [inbox EXCEPT ![w] = None] /\ arrived' = arrived
        /\ errorFolder' = [errorFolder EXCEPT ![w] = inbox[w]] /\ inbox[w] # None
    BY <1>3 DEF MoveToError
  <2> HIDE DEF w
  <2>3. \A m \in Names : /\ inbox'[m] = IF m = w THEN None ELSE inbox[m]
                         /\ errorFolder'[m] = IF m = w THEN inbox[w] ELSE errorFolder[m]
    BY <2>2 DEF TypeOK
  <2> QED BY <2>1, <2>2, <2>3 DEF Apart
<1>4. ASSUME NEW r \in Requests, Dispose(r) PROVE Apart'
  <2>1. UNCHANGED <<errorFolder, arrived>>
        /\ \A m \in Names : inbox'[m] = inbox[m] \/ inbox'[m] = None
    BY <1>4 DEF Dispose, TypeOK
  <2> QED BY <2>1 DEF Apart
<1>5. CASE UNCHANGED vars
  BY <1>1, <1>5 DEF vars
<1>6. CASE Crash \/ Startup \/ Observer \/ SaveFile \/ SaveStep
  BY <1>1, <1>6 DEF Crash, Startup, Start, ScanList, ScanSubmit, ScanDone, PruneList,
      PruneSweep, Observer, ObserverSubmit, SubmitPut, SaveFile, SaveStep, SwapConfig,
      ListEntries, CheckArtifact, PutReanalysis, ReanalysisAborted, SaveDone
<1>7. CASE WorkerNext /\ ~MoveToError
  BY <1>1, <1>7 DEF WorkerNext, TakeJob, Mark, ReadConfig, FindArtifact,
      LoadArtifact, LoadFails, Convert, NoOutput, ExtractionFails,
      StoreArtifact, ReadBack, MoveFails, ReportError, AnalysisFails, Publish
<1>8. ASSUME NEW r \in Requests, RequestStep(r), ~Dispose(r) PROVE Apart'
  BY <1>1, <1>8 DEF RequestStep, Copy, CopyRefused, CheckSource,
      DisposeMissing, DisposeFails,
      Unlist, Uncache
<1>9. ASSUME NEW r \in Requests, NEW n \in Names,
             NEW kind \in {"execute", "remove"}, Lookup(r, n, kind)
      PROVE  Apart'
  BY <1>1, <1>9 DEF Lookup
<1> QED BY <1>2, <1>3, <1>4, <1>5, <1>6, <1>7, <1>8, <1>9 DEF Next, Environment

(* Steps that leave the job and the files of the watchfolder alone, or take *)
(* files and artifacts away.                                               *)
LEMMA JobFitsStays ==
    ASSUME TypeOK, JobFits, worker' = worker,
           \A n \in Names : inbox'[n] = inbox[n] \/ inbox'[n] = None
                            \/ n # worker.name,
           \A s \in Stems : cache'[s] = cache[s] \/ cache'[s] = None
    PROVE  JobFits'
<1>1. worker.pc # "idle" => worker.name \in Names /\ StemOf[worker.name] \in Stems
  BY SystemAssumption DEF TypeOK, FieldsSet
<1> QED BY <1>1 DEF JobFits, Artifact

(* Of the worker's own steps these matter.                                 *)
LEMMA JobFitsWorker ==
    ASSUME TypeOK, JobFits, WorkerNext PROVE JobFits'
<1>1. worker.pc # "idle" => worker.name \in Names /\ StemOf[worker.name] \in Stems
  BY SystemAssumption DEF TypeOK, FieldsSet
<1>2. CASE Convert
  <2>1. worker' = [worker EXCEPT !.pc = "store", !.doc = inbox[worker.name]]
        /\ inbox' = inbox
    BY <1>2 DEF Convert
  <2>2. worker'.pc = "store" /\ worker'.doc = inbox[worker'.name]
    BY <2>1 DEF TypeOK
  <2> QED BY <2>1, <2>2 DEF JobFits
<1>3. CASE StoreArtifact
  <2>1. worker.pc = "store" /\ inbox' = inbox
        /\ worker' = [worker EXCEPT !.pc = "readBack"]
        /\ cache' = [cache EXCEPT ![StemOf[worker.name]] = worker.doc]
    BY <1>3 DEF StoreArtifact, Goto
  <2>2. worker'.pc = "readBack" /\ worker'.name = worker.name
    BY <2>1 DEF TypeOK
  <2>3. cache'[StemOf[worker.name]] = worker.doc
    BY <1>1, <2>1 DEF TypeOK
  <2> QED BY <2>1, <2>2, <2>3 DEF JobFits, Artifact
<1>4. CASE ReadBack
  <2>1. inbox' = inbox /\ worker.pc = "readBack"
        /\ worker'.name = worker.name
        /\ worker'.pc = CASE ~Parses(Artifact) -> "markTechnical"
                           [] Parses(Artifact) /\ Artifact \in Scans -> "moveToError"
                           [] OTHER -> "analyze"
    BY <1>4 DEF ReadBack, TypeOK
  <2>2. worker'.pc \notin {"store", "readBack"}
        /\ (worker'.pc = "moveToError" => Artifact \in Scans /\ Artifact # None)
    BY <2>1, NoneAssumption, SystemAssumption DEF Parses
  <2> QED BY <2>1, <2>2 DEF JobFits
<1>5. CASE NoOutput
  <2>1. inbox' = inbox /\ inbox[worker.name] \in Corrupt \cup {None}
        /\ worker' = [worker EXCEPT !.pc = "moveToError"]
    BY <1>5 DEF NoOutput, Goto
  <2>2. worker'.pc = "moveToError" /\ worker'.name = worker.name
    BY <2>1 DEF TypeOK
  <2> QED BY <2>1, <2>2 DEF JobFits
<1>6. ASSUME worker'.pc \notin {"store", "readBack", "moveToError"} PROVE JobFits'
  BY <1>6 DEF JobFits
<1>7. CASE TakeJob \/ ReportError \/ Publish \/ LoadFails
  BY <1>6, <1>7 DEF TakeJob, ReportError, Publish, LoadFails, IdleWorker
<1>8. CASE Mark \/ ReadConfig \/ FindArtifact \/ LoadArtifact
  BY <1>6, <1>8 DEF Mark, ReadConfig, FindArtifact, LoadArtifact, Goto, TypeOK
<1>9. CASE ExtractionFails \/ MoveToError \/ MoveFails \/ AnalysisFails
  BY <1>6, <1>9 DEF ExtractionFails, MoveToError, MoveFails, AnalysisFails, Goto, TypeOK
<1> QED BY <1>2, <1>3, <1>4, <1>5, <1>7, <1>8, <1>9 DEF WorkerNext

LEMMA JobFitsStep ==
    ASSUME TypeOK, FreshNames, JobFits, [Next]_vars PROVE JobFits'
<1>1. ASSUME NEW n \in Names, NEW d \in Docs, Drop(n, d) PROVE JobFits'
  <2>1. worker' = worker /\ cache' = cache /\ worker.name # n
        /\ inbox' = [inbox EXCEPT ![n] = d]
    BY <1>1 DEF Drop, Forgotten
  <2>2. \A m \in Names : inbox'[m] = inbox[m] \/ m # worker.name
    BY <2>1 DEF TypeOK
  <2> QED BY <2>1, <2>2, JobFitsStays
<1>2. CASE Crash
  BY <1>2 DEF Crash, JobFits, IdleWorker
<1>3. CASE WorkerNext
  BY <1>3, JobFitsWorker
<1>4. ASSUME UNCHANGED <<worker, inbox, cache>> PROVE JobFits'
  BY <1>4, JobFitsStays
<1>5. CASE PruneSweep
  <2>1. worker' = worker /\ inbox' = inbox
        /\ \A s \in Stems : cache'[s] = cache[s] \/ cache'[s] = None
    BY <1>5 DEF PruneSweep
  <2> QED BY <2>1, JobFitsStays
<1>6. ASSUME NEW r \in Requests, RequestStep(r) PROVE JobFits'
  <2>1. worker' = worker
        /\ (\A n \in Names : inbox'[n] = inbox[n] \/ inbox'[n] = None)
        /\ (\A s \in Stems : cache'[s] = cache[s] \/ cache'[s] = None)
    BY <1>6 DEF RequestStep, Copy, CopyRefused, CheckSource, Dispose,
        DisposeMissing, DisposeFails,
        Unlist, Uncache, TypeOK
  <2> QED BY <2>1, JobFitsStays
<1>7. CASE SaveFile \/ SaveStep \/ Observer \/ (Startup /\ ~PruneSweep)
  BY <1>4, <1>7 DEF Startup, Start, ScanList, ScanSubmit, ScanDone, PruneList,
      Observer, ObserverSubmit, SubmitPut, SaveFile, SaveStep, SwapConfig,
      ListEntries, CheckArtifact, PutReanalysis, ReanalysisAborted, SaveDone
<1>8. ASSUME NEW r \in Requests, NEW n \in Names,
             NEW kind \in {"execute", "remove"}, Lookup(r, n, kind)
      PROVE  JobFits'
  BY <1>4, <1>8 DEF Lookup
<1>9. CASE UNCHANGED vars
  BY <1>4, <1>9 DEF vars
<1> QED BY <1>1, <1>2, <1>3, <1>5, <1>6, <1>7, <1>8, <1>9 DEF Next, Environment

(* A request other than r, or a step that takes files away.                *)
LEMMA OrderFitsStays ==
    ASSUME TypeOK, NEW r \in Requests, OrderFits(r), requests'[r] = requests[r],
           \A n \in Names : inbox'[n] = inbox[n] \/ inbox'[n] = None
                            \/ n # requests[r].name
    PROVE  OrderFits(r)'
<1>1. requests[r].pc # "idle" => requests[r].name \in Names
  BY DEF TypeOK, FieldsSet
<1> QED BY <1>1 DEF OrderFits

LEMMA OrdersFitRequest ==
    ASSUME TypeOK, OrdersFit, NEW r \in Requests, RequestStep(r) PROVE OrdersFit'
<1>1. \A n \in Names : inbox'[n] = inbox[n] \/ inbox'[n] = None
  BY DEF RequestStep, Copy, CopyRefused, CheckSource, Dispose, DisposeMissing,
      DisposeFails, Unlist,
      Uncache, TypeOK
<1>2. ASSUME NEW q \in Requests, q # r PROVE OrderFits(q)'
  <2>1. requests'[q] = requests[q]
    BY <1>2 DEF RequestStep, Copy, CopyRefused, CheckSource, Dispose,
        DisposeMissing, DisposeFails,
        Unlist, Uncache, Advance, TypeOK
  <2> QED BY <1>1, <2>1, OrderFitsStays DEF OrdersFit
<1>3. OrderFits(r)'
  <2>1. CASE Copy(r) \/ CheckSource(r)
    <3>1. inbox' = inbox /\ requests[r].pc \in {"copy", "exists"}
      BY <2>1 DEF Copy, CheckSource
    <3>2. requests'[r] \in {[requests[r] EXCEPT !.pc = "dispose"],
                            [requests[r] EXCEPT !.pc = "unlist"]}
      BY <2>1 DEF Copy, CheckSource, Advance, TypeOK
    <3>3. requests[r] \in RequestState
      BY DEF TypeOK
    <3> QED BY <3>1, <3>2, <3>3 DEF OrderFits, OrdersFit, RequestState
  <2>2. CASE CopyRefused(r) \/ Dispose(r) \/ DisposeMissing(r)
          \/ DisposeFails(r) \/ Unlist(r)
             \/ Uncache(r)
    <3>1. requests'[r] \in {[requests[r] EXCEPT !.pc = "unlist"],
                            [requests[r] EXCEPT !.pc = "uncache"], IdleRequest}
      BY <2>2 DEF CopyRefused, Dispose, DisposeMissing, DisposeFails, Unlist,
          Uncache, Advance, TypeOK
    <3>2. requests[r] \in RequestState
      BY DEF TypeOK
    <3> QED BY <3>1, <3>2 DEF OrderFits, RequestState, IdleRequest
  <2> QED BY <2>1, <2>2 DEF RequestStep
<1> QED BY <1>2, <1>3 DEF OrdersFit

LEMMA OrdersFitStep ==
    ASSUME TypeOK, FreshNames, OrdersFit, [Next]_vars PROVE OrdersFit'
<1>1. ASSUME NEW n \in Names, NEW d \in Docs, Drop(n, d) PROVE OrdersFit'
  <2>1. ASSUME NEW r \in Requests PROVE OrderFits(r)'
    <3>1. requests' = requests /\ requests[r].name # n
          /\ inbox' = [inbox EXCEPT ![n] = d]
      BY <1>1 DEF Drop, Forgotten
    <3>2. \A m \in Names : inbox'[m] = inbox[m] \/ m # requests[r].name
      BY <3>1 DEF TypeOK
    <3> QED BY <3>1, <3>2, OrderFitsStays DEF OrdersFit
  <2> QED BY <2>1 DEF OrdersFit
<1>2. ASSUME requests' = requests,
             \A n \in Names : inbox'[n] = inbox[n] \/ inbox'[n] = None
      PROVE  OrdersFit'
  BY <1>2, OrderFitsStays DEF OrdersFit
<1>3. ASSUME NEW r \in Requests, NEW n \in Names,
             NEW kind \in {"execute", "remove"}, Lookup(r, n, kind)
      PROVE  OrdersFit'
  <2>1. inbox' = inbox /\ \A q \in Requests : q # r => requests'[q] = requests[q]
    BY <1>3 DEF Lookup, TypeOK
  <2>2. requests'[r].name = n /\ requests'[r].doc = inbox[n]
    BY <1>3 DEF Lookup, TypeOK
  <2> QED BY <2>1, <2>2, OrderFitsStays DEF OrdersFit, OrderFits
<1>4. CASE Crash
  BY <1>4 DEF Crash, OrdersFit, OrderFits, IdleRequest
<1>5. CASE WorkerNext
  <2>1. requests' = requests
        /\ \A n \in Names : inbox'[n] = inbox[n] \/ inbox'[n] = None
    BY <1>5 DEF WorkerNext, TakeJob, Mark, ReadConfig, FindArtifact, LoadArtifact,
        LoadFails, Convert, NoOutput, ExtractionFails, StoreArtifact, ReadBack,
        MoveToError, MoveFails, ReportError, AnalysisFails, Publish, TypeOK
  <2> QED BY <1>2, <2>1
<1>6. ASSUME NEW r \in Requests, RequestStep(r) PROVE OrdersFit'
  BY <1>6, OrdersFitRequest
<1>7. CASE SaveFile \/ SaveStep \/ Observer \/ Startup
  BY <1>2, <1>7 DEF Startup, Start, ScanList, ScanSubmit, ScanDone, PruneList,
      PruneSweep, Observer, ObserverSubmit, SubmitPut, SaveFile, SaveStep, SwapConfig,
      ListEntries, CheckArtifact, PutReanalysis, ReanalysisAborted, SaveDone
<1>8. CASE UNCHANGED vars
  BY <1>2, <1>8 DEF vars
<1> QED BY <1>1, <1>3, <1>4, <1>5, <1>6, <1>7, <1>8 DEF Next, Environment

(* Only MoveToError fills error/.                                          *)
LEMMA ErrorFolderStep ==
    ASSUME TypeOK, JobFits, ErrorFolderUnreadable, [Next]_vars
    PROVE  ErrorFolderUnreadable'
<1>1. CASE MoveToError
  <2>1. worker.pc = "moveToError" /\ inbox[worker.name] # None
        /\ errorFolder' = [errorFolder EXCEPT ![worker.name] = inbox[worker.name]]
    BY <1>1 DEF MoveToError, Goto
  <2>2. \A n \in Names : errorFolder'[n] = errorFolder[n]
                          \/ errorFolder'[n] = inbox[worker.name]
    BY <2>1 DEF TypeOK
  <2> QED BY <2>1, <2>2 DEF ErrorFolderUnreadable, JobFits
<1>2. CASE ~MoveToError
  <2>1. errorFolder' = errorFolder
    BY <1>2 DEF vars, Next, Environment, Drop, Lookup, SaveFile, Crash, Startup,
        Start, ScanList, ScanSubmit, ScanDone, PruneList, PruneSweep, Observer,
        ObserverSubmit, SubmitPut, WorkerNext, TakeJob, Mark, ReadConfig,
        FindArtifact, LoadArtifact, LoadFails, Convert, NoOutput,
        ExtractionFails, StoreArtifact, ReadBack, MoveFails, ReportError,
        AnalysisFails, Publish, RequestStep, Copy, CopyRefused, CheckSource,
            Dispose,
        DisposeMissing, DisposeFails, Unlist, Uncache, SaveStep, SwapConfig,
            ListEntries,
        CheckArtifact, PutReanalysis, ReanalysisAborted, SaveDone
  <2> QED BY <2>1 DEF ErrorFolderUnreadable
<1> QED BY <1>1, <1>2

LEMMA CustodyInvariant == FreshNames => (Spec => []CustodyInv)
<1> SUFFICES ASSUME FreshNames PROVE Spec => []CustodyInv
    OBVIOUS
<1>1. TypeOK /\ CustodyInv /\ [Next]_vars => CustodyInv'
  <2> SUFFICES ASSUME TypeOK, CustodyInv, [Next]_vars PROVE CustodyInv'
      OBVIOUS
  <2>1. Apart' /\ ErrorFolderUnreadable' /\ JobFits' /\ DisposesKnown' /\ OrdersFit'
    BY ApartStep, ErrorFolderStep, JobFitsStep, KnownStep, OrdersFitStep
       DEF CustodyInv
  <2> QED BY <2>1 DEF CustodyInv
<1> QED BY <1>1, InitCustody, TypeCorrect, PTL DEF Spec

(* Whatever the names, stems, requests, saves and crashes: only a PDF from *)
(* which no text can be extracted is ever moved to error/, provided that a *)
(* file name is not reused while the process remembers it.                 *)
THEOREM OnlyUnreadableRejected == FreshNames => (Spec => []ErrorFolderUnreadable)
<1>1. CustodyInv => ErrorFolderUnreadable
  BY DEF CustodyInv
<1> QED BY <1>1, CustodyInvariant, PTL

-----------------------------------------------------------------------------
(* Part 2: every step is a step of Custody, or changes nothing of it.      *)

(* The contents of a folder of which one name is emptied or filled.        *)
LEMMA TakeOut ==
    ASSUME NEW f \in [Names -> Docs \cup {None}], NEW n \in Names, f[n] # None,
           \A m \in Names : f[m] = f[n] => m = n
    PROVE  Contents([f EXCEPT ![n] = None]) = Contents(f) \ {f[n]}
BY DEF Contents

LEMMA PutIn ==
    ASSUME NEW f \in [Names -> Docs \cup {None}], NEW n \in Names, NEW d \in Docs,
           \A m \in Names : f[m] = f[n] /\ f[n] # None => m = n
    PROVE  Contents([f EXCEPT ![n] = d]) = (Contents(f) \ {f[n]}) \cup {d}
<1>1. d # None
  BY NoneAssumption
<1>2. \A m \in Names : [f EXCEPT ![n] = d][m] = IF m = n THEN d ELSE f[m]
  OBVIOUS
<1> QED BY <1>1, <1>2 DEF Contents

OrderOf(q) == [doc |-> q.doc, kind |-> q.kind]

Active(q) == q.pc # "idle" /\ q.doc # None

LEMMA OrdersAre == Orders = {OrderOf(requests[r]) : r \in {q \in Requests : Active(requests[q])}}
BY DEF Orders, OrderOf, Active

(* A step of a request keeps its order, or ends it.                        *)
LEMMA OrdersAdvance ==
    ASSUME TypeOK, NEW r \in Requests, NEW pc \in RequestPCs, NEW next \in RequestPCs,
           Advance(r, pc, next), pc # "idle"
    PROVE  /\ Orders' \subseteq Orders
           /\ next # "idle" => Orders' = Orders
<1> DEFINE q == requests[r]
<1>1. q \in RequestState /\ q.pc # "idle"
  BY DEF TypeOK, Advance
<1>2. /\ \A p \in Requests : p # r => requests'[p] = requests[p]
      /\ requests'[r] = IF next = "idle" THEN IdleRequest ELSE [q EXCEPT !.pc = next]
  BY DEF Advance, TypeOK
<1>3. CASE next = "idle"
  <2>1. ~Active(requests'[r])
    BY <1>2, <1>3 DEF Active, IdleRequest
  <2> QED BY <1>2, <1>3, <2>1, OrdersAre DEF Orders, OrderOf, Active
<1>4. CASE next # "idle"
  <2>1. requests'[r].doc = q.doc /\ requests'[r].kind = q.kind /\ requests'[r].pc = next
    BY <1>1, <1>2, <1>4 DEF RequestState
  <2>2. \A p \in Requests : /\ Active(requests'[p]) <=> Active(requests[p])
                            /\ OrderOf(requests'[p]) = OrderOf(requests[p])
    BY <1>1, <1>2, <1>4, <2>1 DEF Active, OrderOf
  <2>3. Orders' = {OrderOf(requests'[p]) : p \in {x \in Requests : Active(requests'[x])}}
    BY DEF Orders, OrderOf, Active
  <2> QED BY <1>4, <2>2, <2>3, OrdersAre
<1> QED BY <1>3, <1>4

LEMMA OrderOfRequest ==
    ASSUME TypeOK, NEW r \in Requests, requests[r].pc # "idle",
           inbox[NameOf(r)] # None, inbox[NameOf(r)] \in {requests[r].doc, None}
    PROVE  Custodian!Order(inbox[NameOf(r)], requests[r].kind) \in Orders
BY DEF Custodian!Order, Orders

LEMMA ArriveStep ==
    ASSUME TypeOK, Apart, NEW n \in Names, NEW d \in Docs, Drop(n, d)
    PROVE  Custodian!Arrive(d)
<1>1. inbox' = [inbox EXCEPT ![n] = d] /\ inbox[n] = None
      /\ arrived' = arrived \cup {d} /\ d \notin arrived
      /\ UNCHANGED <<errorFolder, filed, trash, requests>>
  BY DEF Drop
<1>2. Contents(inbox)' = Contents(inbox) \cup {d}
  <2>1. Contents(inbox)' = Contents([inbox EXCEPT ![n] = d])
    BY <1>1 DEF Contents
  <2>2. inbox[n] \notin Contents(inbox)
    BY <1>1 DEF Contents
  <2>3. inbox \in [Names -> Docs \cup {None}]
    BY DEF TypeOK
  <2>4. \A m \in Names : inbox[m] = inbox[n] /\ inbox[n] # None => m = n
    BY <1>1
  <2>5. Contents([inbox EXCEPT ![n] = d]) = (Contents(inbox) \ {inbox[n]}) \cup {d}
    BY <2>3, <2>4, PutIn
  <2> QED BY <2>1, <2>2, <2>5
<1>3. Contents(errorFolder)' = Contents(errorFolder) /\ Orders' = Orders
  BY <1>1 DEF Contents, Orders
<1> QED BY <1>1, <1>2, <1>3 DEF Custodian!Arrive

LEMMA RejectStep ==
    ASSUME TypeOK, Apart, JobFits, MoveToError
    PROVE  \E d \in Docs : Custodian!Reject(d)
<1> DEFINE w == worker.name
           d == inbox[w]
<1>1. w \in Names /\ d \in Docs /\ d \in Scans \cup Corrupt
  BY DEF TypeOK, FieldsSet, MoveToError, Goto, JobFits
<1>2. inbox' = [inbox EXCEPT ![w] = None] /\ errorFolder' = [errorFolder EXCEPT ![w] = d]
      /\ UNCHANGED <<arrived, filed, trash, requests>>
  BY DEF MoveToError
<1> HIDE DEF w
<1>3. d # None
  BY <1>1, NoneAssumption
<1>4. Contents(inbox)' = Contents(inbox) \ {d} /\ d \in Contents(inbox)
  <2>1. Contents(inbox)' = Contents([inbox EXCEPT ![w] = None])
    BY <1>2 DEF Contents
  <2>2. \A m \in Names : inbox[m] = inbox[w] => m = w
    BY <1>1, <1>3 DEF Apart
  <2>3. d \in Contents(inbox)
    BY <1>1, <1>3 DEF Contents
  <2> QED BY <1>1, <1>3, <2>1, <2>2, <2>3, TakeOut DEF TypeOK
<1>5. Contents(errorFolder)' = (Contents(errorFolder) \ {errorFolder[w]}) \cup {d}
  <2>1. Contents(errorFolder)' = Contents([errorFolder EXCEPT ![w] = d])
    BY <1>2 DEF Contents
  <2>2. \A m \in Names : errorFolder[m] = errorFolder[w] /\ errorFolder[w] # None => m = w
    BY <1>1 DEF Apart
  <2>3. errorFolder \in [Names -> Docs \cup {None}]
    BY DEF TypeOK
  <2>4. Contents([errorFolder EXCEPT ![w] = d])
            = (Contents(errorFolder) \ {errorFolder[w]}) \cup {d}
    <3> HIDE DEF d
    <3> QED BY <1>1, <2>2, <2>3, PutIn
  <2> QED BY <2>1, <2>4
<1>6. \E e \in Contents(errorFolder) \cup {d} :
          Contents(errorFolder)' = (Contents(errorFolder) \ {e}) \cup {d}
  <2>1. CASE errorFolder[w] = None
    <3>1. Contents(errorFolder)' = (Contents(errorFolder) \ {d}) \cup {d}
      BY <1>5, <2>1 DEF Contents
    <3> QED BY <3>1
  <2>2. CASE errorFolder[w] # None
    <3>1. errorFolder[w] \in Contents(errorFolder)
      BY <1>1, <2>2 DEF Contents
    <3> QED BY <1>5, <3>1
  <2> QED BY <2>1, <2>2
<1>7. Orders' = Orders
  BY <1>2 DEF Orders
<1>8. Custodian!Reject(d)
  BY <1>1, <1>2, <1>4, <1>6, <1>7 DEF Custodian!Reject
<1> QED BY <1>1, <1>8

(* What a request that touches its file knows about it.                    *)
LEMMA RequestFile ==
    ASSUME TypeOK, FreshNames, DisposesKnown, OrdersFit, NEW r \in Requests,
           requests[r].pc \in {"copy", "dispose"}, inbox[NameOf(r)] # None
    PROVE  /\ NameOf(r) \in Names /\ inbox[NameOf(r)] \in Docs
           /\ inbox[NameOf(r)] \in Contents(inbox)
           /\ requests[r].kind \in {"execute", "remove"}
           /\ requests[r].pc = "copy" => requests[r].kind = "execute"
           /\ requests[r].pc = "dispose" /\ requests[r].kind = "execute"
                => inbox[NameOf(r)] \in filed
           /\ Custodian!Order(inbox[NameOf(r)], requests[r].kind) \in Orders
<1>1. NameOf(r) = requests[r].name /\ NameOf(r) \in Names /\ Known(r) /\ OrderFits(r)
      /\ requests[r].kind \in {"execute", "remove"}
  BY DEF NameOf, TypeOK, FieldsSet, DisposesKnown, OrdersFit, RequestState
<1>2. inbox[NameOf(r)] \in Docs /\ inbox[NameOf(r)] \in Contents(inbox)
  BY <1>1 DEF TypeOK, Contents
<1>3. inbox[NameOf(r)] \in {requests[r].doc, None}
  BY <1>1 DEF OrderFits
<1>4. Custodian!Order(inbox[NameOf(r)], requests[r].kind) \in Orders
  BY <1>3, OrderOfRequest
<1> QED BY <1>1, <1>2, <1>4 DEF Known

LEMMA FileStep ==
    ASSUME TypeOK, FreshNames, DisposesKnown, OrdersFit, NEW r \in Requests, Copy(r)
    PROVE  Custodian!File(inbox[NameOf(r)])
<1>1. requests[r].pc = "copy" /\ inbox[NameOf(r)] # None /\ Advance(r, "copy", "dispose")
      /\ filed' = filed \cup {inbox[NameOf(r)]}
      /\ UNCHANGED <<inbox, errorFolder, arrived, trash>>
  BY DEF Copy
<1>2. Orders' = Orders
  BY <1>1, OrdersAdvance DEF RequestPCs
<1>3. Contents(inbox)' = Contents(inbox) /\ Contents(errorFolder)' = Contents(errorFolder)
  BY <1>1 DEF Contents
<1> QED BY <1>1, <1>2, <1>3, RequestFile DEF Custodian!File

LEMMA RetireStep ==
    ASSUME TypeOK, FreshNames, Apart, DisposesKnown, OrdersFit, NEW r \in Requests,
           Dispose(r)
    PROVE  /\ Custodian!Retire(inbox[NameOf(r)], requests[r].kind, Mode(r))
           /\ inbox[NameOf(r)] \in Docs /\ requests[r].kind \in {"execute", "remove"}
<1> DEFINE n == NameOf(r)
<1>1. /\ requests[r].pc = "dispose" /\ inbox[n] # None /\ Advance(r, "dispose", "unlist")
      /\ inbox' = [inbox EXCEPT ![n] = None]
      /\ trash' = IF Mode(r) = "trash" THEN IntoTrash(inbox[n]) ELSE trash
      /\ UNCHANGED <<errorFolder, filed, arrived>>
  BY DEF Dispose
<1> HIDE DEF n
<1>2. Orders' = Orders
  BY <1>1, OrdersAdvance DEF RequestPCs
<1>3. /\ n \in Names /\ inbox[n] \in Docs /\ inbox[n] \in Contents(inbox)
      /\ requests[r].kind \in {"execute", "remove"}
      /\ requests[r].kind = "execute" => inbox[n] \in filed
      /\ Custodian!Order(inbox[n], requests[r].kind) \in Orders
  BY <1>1, RequestFile DEF n
<1>4. Contents(inbox)' = Contents(inbox) \ {inbox[n]}
  <2>1. Contents(inbox)' = Contents([inbox EXCEPT ![n] = None])
    BY <1>1 DEF Contents
  <2>2. inbox \in [Names -> Docs \cup {None}]
    BY DEF TypeOK
  <2>3. \A m \in Names : inbox[m] = inbox[n] => m = n
    BY <1>1, <1>3 DEF Apart
  <2>4. Contents([inbox EXCEPT ![n] = None]) = Contents(inbox) \ {inbox[n]}
    BY <1>1, <1>3, <2>2, <2>3, TakeOut
  <2> QED BY <2>1, <2>4
<1>5. Contents(errorFolder)' = Contents(errorFolder)
  BY <1>1 DEF Contents
<1>6. Custodian!Retire(inbox[n], requests[r].kind, Mode(r))
  BY <1>1, <1>2, <1>3, <1>4, <1>5 DEF Custodian!Retire, IntoTrash
<1> QED BY <1>3, <1>6 DEF n

LEMMA AskStep ==
    ASSUME TypeOK, NEW r \in Requests, NEW n \in Names,
           NEW kind \in {"execute", "remove"}, Lookup(r, n, kind)
    PROVE  \/ inbox[n] \in Docs /\ Custodian!Ask(inbox[n], kind)
           \/ UNCHANGED Custodian!vars
<1>1. /\ \A q \in Requests : q # r => requests'[q] = requests[q]
      /\ requests'[r].doc = inbox[n] /\ requests'[r].kind = kind
      /\ requests'[r].pc \in {"copy", "exists"} /\ requests[r].pc = "idle"
  BY DEF Lookup, TypeOK
<1>2. UNCHANGED <<inbox, errorFolder, arrived, filed, trash>>
  BY DEF Lookup
<1>3. Contents(inbox)' = Contents(inbox) /\ Contents(errorFolder)' = Contents(errorFolder)
  BY <1>2 DEF Contents
<1>4. Orders' = {OrderOf(requests'[p]) : p \in {x \in Requests : Active(requests'[x])}}
  BY DEF Orders, OrderOf, Active
<1>5. CASE inbox[n] = None
  <2>1. \A q \in Requests : Active(requests'[q]) <=> Active(requests[q]) /\ q # r
    BY <1>1, <1>5 DEF Active
  <2>2. ~Active(requests[r])
    BY <1>1 DEF Active
  <2>3. Orders' = Orders
    BY <1>1, <1>4, <2>1, <2>2, OrdersAre
  <2> QED BY <1>2, <1>3, <2>3 DEF Custodian!vars
<1>6. CASE inbox[n] # None
  <2>1. inbox[n] \in Docs /\ inbox[n] \in Contents(inbox)
    BY <1>6 DEF TypeOK, Contents
  <2>2. Active(requests'[r]) /\ OrderOf(requests'[r]) = Custodian!Order(inbox[n], kind)
    BY <1>1, <1>6 DEF Active, OrderOf, Custodian!Order
  <2>3. ~Active(requests[r])
    BY <1>1 DEF Active
  <2>4. Orders' = Orders \cup {Custodian!Order(inbox[n], kind)}
    BY <1>1, <1>4, <2>2, <2>3, OrdersAre
  <2> QED BY <1>2, <1>3, <2>1, <2>4 DEF Custodian!Ask
<1> QED BY <1>5, <1>6

(* Steps that touch no document, and keep or end orders.                   *)
LEMMA SettleStep ==
    ASSUME UNCHANGED documents, Orders' \subseteq Orders PROVE Custodian!Settle
BY DEF Custodian!Settle, Contents

LEMMA CustodyStutter ==
    ASSUME UNCHANGED <<documents, requests>> PROVE UNCHANGED Custodian!vars
BY DEF Custodian!vars, Contents, Orders

LEMMA CustodyStep ==
    ASSUME TypeOK, FreshNames, CustodyInv, [Next]_vars
    PROVE  [Custodian!Next]_(Custodian!vars)
<1> USE DEF CustodyInv
<1>1. ASSUME NEW n \in Names, NEW d \in Docs, Drop(n, d) PROVE Custodian!Next
  BY <1>1, ArriveStep DEF Custodian!Next
<1>2. CASE MoveToError
  BY <1>2, RejectStep DEF Custodian!Next
<1>3. ASSUME NEW r \in Requests, RequestStep(r) PROVE Custodian!Next
  <2>1. CASE Copy(r)
    <3>1. inbox[NameOf(r)] \in Docs
      BY <2>1, RequestFile DEF Copy
    <3> QED BY <2>1, <3>1, FileStep DEF Custodian!Next
  <2>2. CASE Dispose(r)
    BY <2>2, RetireStep DEF Custodian!Next, Mode
  <2>3. CASE CopyRefused(r) \/ CheckSource(r) \/ DisposeMissing(r)
          \/ DisposeFails(r) \/ Unlist(r)
             \/ Uncache(r)
    <3>1. \E pc, next \in RequestPCs : Advance(r, pc, next) /\ pc # "idle"
      BY <2>3 DEF CopyRefused, CheckSource, DisposeMissing, DisposeFails,
          Unlist, Uncache, RequestPCs
    <3>2. UNCHANGED documents
      BY <2>3 DEF CopyRefused, CheckSource, DisposeMissing, DisposeFails,
          Unlist, Uncache
    <3> QED BY <3>1, <3>2, OrdersAdvance, SettleStep DEF Custodian!Next
  <2> QED BY <1>3, <2>1, <2>2, <2>3 DEF RequestStep
<1>4. ASSUME NEW r \in Requests, NEW n \in Names,
             NEW kind \in {"execute", "remove"}, Lookup(r, n, kind)
      PROVE  [Custodian!Next]_(Custodian!vars)
  BY <1>4, AskStep DEF Custodian!Next
<1>5. CASE Crash
  <2>1. UNCHANGED documents /\ Orders' = {}
    BY <1>5 DEF Crash, Orders, IdleRequest
  <2> QED BY <2>1, SettleStep DEF Custodian!Next
<1>6. CASE Startup \/ Observer
  BY <1>6, CustodyStutter DEF Startup, Start, ScanList, ScanSubmit, ScanDone,
      PruneList, PruneSweep, Observer, ObserverSubmit, SubmitPut
<1>7. CASE WorkerNext /\ ~MoveToError
  BY <1>7, CustodyStutter DEF WorkerNext, TakeJob, Mark, ReadConfig, FindArtifact,
      LoadArtifact, LoadFails, Convert, NoOutput, ExtractionFails,
      StoreArtifact, ReadBack, MoveFails, ReportError, AnalysisFails, Publish
<1>8. CASE SaveFile \/ SaveStep
  BY <1>8, CustodyStutter DEF SaveFile, SaveStep, SwapConfig, ListEntries,
      CheckArtifact, PutReanalysis, ReanalysisAborted, SaveDone
<1>9. CASE UNCHANGED vars
  BY <1>9, CustodyStutter DEF vars
<1> QED BY <1>1, <1>2, <1>3, <1>4, <1>5, <1>6, <1>7, <1>8, <1>9 DEF Next, Environment

(* Whatever the names, stems, requests, saves and crashes: the process with *)
(* all its threads implements module Custody, provided that a file name is *)
(* not reused while the process remembers it.                              *)
THEOREM ImplementsCustody == FreshNames => (Spec => KeepsCustody)
<1> SUFFICES ASSUME FreshNames PROVE Spec => KeepsCustody
    OBVIOUS
<1>1. Init => Custodian!Init
  <2> SUFFICES ASSUME Init PROVE Custodian!Init
      OBVIOUS
  <2>1. Contents(inbox) = arrived
    BY NoneAssumption DEF Init, Contents
  <2>2. Contents(errorFolder) = {}
    BY DEF Init, Contents
  <2>3. Orders = {}
    BY DEF Init, Orders, IdleRequest
  <2> QED BY <2>1, <2>2, <2>3 DEF Init, Custodian!Init
<1>2. TypeOK /\ CustodyInv /\ [Next]_vars => [Custodian!Next]_(Custodian!vars)
  BY CustodyStep
<1> QED BY <1>1, <1>2, TypeCorrect, CustodyInvariant, PTL
        DEF Spec, KeepsCustody, Custodian!Spec

-----------------------------------------------------------------------------
(* Part 3: until the configuration is saved, what is shown for a name is   *)
(* about the PDF of that name.                                             *)

(* No save, so that nothing is analyzed from an artifact of an earlier     *)
(* job.  After a save the job of reanalyze_all can come before the first   *)
(* extraction and find an artifact that a PDF of the past has left.        *)
NeverSaved == MaxConfig = 0

OwnStems == \A m, n \in Names : StemOf[m] = StemOf[n] => m = n

NoReanalysis ==
    /\ save.pc = "idle" /\ worker.reuse = FALSE /\ worker.pc \notin {"find", "load"}
    /\ \A i \in 1..Len(work) : work[i].kind = "extract"

(* From the extraction to the verdict the worker holds the document that   *)
(* has the name, and its artifact is the one in the cache, if any is.      *)
ReadingFits ==
    /\ worker.pc \in {"store", "readBack", "analyze"}
          => inbox[worker.name] \in {worker.doc, None}
    /\ worker.pc \in {"readBack", "analyze"} => Artifact \in {worker.doc, None}

ReadyFits ==
    \A n \in Names : HasStatus(register, n, "ready")
                     => inbox[n] \in {register[n].suggestion.doc, None}

(* What a confirmation is about to copy is what its reviewer read about.   *)
CopiesFit ==
    \A r \in Requests : requests[r].pc = "copy"
                        => inbox[requests[r].name] \in {requests[r].suggested, None}

ReviewInv == NoReanalysis /\ ReadingFits /\ ReadyFits /\ CopiesFit

LEMMA NoReanalysisStep ==
    ASSUME TypeOK, NeverSaved, NoReanalysis, [Next]_vars PROVE NoReanalysis'
<1>1. ASSUME UNCHANGED <<save, work, worker>> PROVE NoReanalysis'
  BY <1>1 DEF NoReanalysis
<1>2. ~SaveFile /\ ~SaveStep
  BY DEF TypeOK, NeverSaved, NoReanalysis, SaveFile, SaveStep, SwapConfig, ListEntries,
      CheckArtifact, PutReanalysis, ReanalysisAborted, SaveDone
<1>3. CASE TakeJob
  <2>1. work # <<>> /\ work' = Tail(work) /\ save' = save /\ work \in Seq(Jobs)
        /\ worker'.pc = "mark" /\ worker'.reuse = (Head(work).kind = "reanalyze")
    BY <1>3 DEF TakeJob, TypeOK
  <2>2. work[1].kind = "extract" /\ Head(work) = work[1]
    BY <2>1 DEF NoReanalysis
  <2>3. \A i \in 1..Len(work') : work'[i] = work[i + 1] /\ i + 1 \in 1..Len(work)
    BY <2>1
  <2> QED BY <2>1, <2>2, <2>3 DEF NoReanalysis
<1>4. CASE WorkerNext /\ ~TakeJob
  <2>1. UNCHANGED <<save, work>>
    BY <1>4 DEF WorkerNext, Mark, ReadConfig, FindArtifact, LoadArtifact,
        LoadFails, Convert, NoOutput, ExtractionFails, StoreArtifact, ReadBack,
        MoveToError, MoveFails, ReportError, AnalysisFails, Publish
  <2>2. ASSUME NEW pc, NEW next, Goto(pc, next), next \notin {"find", "load"}
        PROVE  worker'.reuse = FALSE /\ worker'.pc \notin {"find", "load"}
    BY <2>2 DEF Goto, NoReanalysis, TypeOK
  <2>3. worker'.reuse = FALSE /\ worker'.pc \notin {"find", "load"}
    <3>1. CASE Mark \/ NoOutput \/ ExtractionFails \/ StoreArtifact \/ MoveToError
               \/ MoveFails \/ AnalysisFails
      BY <2>2, <3>1 DEF Mark, NoOutput, ExtractionFails, StoreArtifact, MoveToError,
          MoveFails, AnalysisFails
    <3>2. CASE ReadConfig \/ Convert \/ ReadBack
      BY <3>2 DEF ReadConfig, Convert, ReadBack, NoReanalysis, TypeOK
    <3>3. CASE ReportError \/ Publish \/ LoadFails
      BY <3>3 DEF ReportError, Publish, LoadFails, IdleWorker
    <3>4. ~FindArtifact /\ ~LoadArtifact
      BY DEF NoReanalysis, FindArtifact, LoadArtifact, Goto
    <3> QED BY <1>4, <3>1, <3>2, <3>3, <3>4 DEF WorkerNext
  <2> QED BY <2>1, <2>3 DEF NoReanalysis
<1>5. ASSUME NEW s \in Submitters, SubmitPut(s) PROVE NoReanalysis'
  <2>1. UNCHANGED <<save, worker>>
        /\ work' = Append(work, [kind |-> "extract", name |-> holding[s]])
    BY <1>5 DEF SubmitPut, Enqueue
  <2>2. \A i \in 1..Len(work') : \/ i \in 1..Len(work) /\ work'[i] = work[i]
                                 \/ work'[i] = [kind |-> "extract", name |-> holding[s]]
    BY <2>1 DEF TypeOK
  <2> QED BY <2>1, <2>2 DEF NoReanalysis
<1>6. CASE Crash
  BY <1>6 DEF Crash, NoReanalysis, IdleWorker, IdleSave
<1>7. CASE Startup \/ Observer
  BY <1>1, <1>5, <1>7 DEF Startup, Start, ScanList, ScanSubmit, ScanDone, PruneList,
      PruneSweep, Observer, ObserverSubmit, Submitters
<1>8. ASSUME NEW r \in Requests, RequestStep(r) PROVE NoReanalysis'
  BY <1>1, <1>8 DEF RequestStep, Copy, CopyRefused, CheckSource, Dispose,
      DisposeMissing, DisposeFails, Unlist, Uncache
<1>9. ASSUME NEW n \in Names, NEW d \in Docs, Drop(n, d) PROVE NoReanalysis'
  BY <1>1, <1>9 DEF Drop
<1>10. ASSUME NEW r \in Requests, NEW n \in Names,
              NEW kind \in {"execute", "remove"}, Lookup(r, n, kind)
       PROVE  NoReanalysis'
  BY <1>1, <1>10 DEF Lookup
<1>11. CASE UNCHANGED vars
  BY <1>1, <1>11 DEF vars
<1> QED BY <1>2, <1>3, <1>4, <1>6, <1>7, <1>8, <1>9, <1>10, <1>11 DEF Next, Environment

(* A step changes the watchfolder and the cache in one of three ways: it   *)
(* drops a PDF under a forgotten name, the worker stores what it read, or  *)
(* things are taken away.                                                  *)
LEMMA FilesStep ==
    ASSUME TypeOK, FreshNames, [Next]_vars
    PROVE  \/ \E n \in Names, d \in Docs : Drop(n, d)
           \/ StoreArtifact
           \/ /\ \A n \in Names : inbox'[n] = inbox[n] \/ inbox'[n] = None
              /\ \A s \in Stems : cache'[s] = cache[s] \/ cache'[s] = None
<1> DEFINE Fewer == /\ \A n \in Names : inbox'[n] = inbox[n] \/ inbox'[n] = None
                    /\ \A s \in Stems : cache'[s] = cache[s] \/ cache'[s] = None
<1>1. CASE WorkerNext /\ ~StoreArtifact
  <2>1. Fewer
    BY <1>1 DEF WorkerNext, TakeJob, Mark, ReadConfig, FindArtifact, LoadArtifact,
        LoadFails, Convert, NoOutput, ExtractionFails, ReadBack, MoveToError,
        MoveFails, ReportError, AnalysisFails, Publish, TypeOK
  <2> QED BY <2>1
<1>2. ASSUME NEW r \in Requests, RequestStep(r) PROVE Fewer
  BY <1>2 DEF RequestStep, Copy, CopyRefused, CheckSource, Dispose,
      DisposeMissing, DisposeFails,
      Unlist, Uncache, TypeOK
<1>3. CASE SaveFile \/ SaveStep \/ Observer \/ Startup \/ Crash \/ UNCHANGED vars
  <2>1. Fewer
    BY <1>3 DEF vars, Crash, Startup, Start, ScanList, ScanSubmit, ScanDone, PruneList,
        PruneSweep, Observer, ObserverSubmit, SubmitPut, SaveFile, SaveStep,
        SwapConfig, ListEntries, CheckArtifact, PutReanalysis, ReanalysisAborted,
        SaveDone
  <2> QED BY <2>1
<1>4. ASSUME NEW r \in Requests, NEW n \in Names,
             NEW kind \in {"execute", "remove"}, Lookup(r, n, kind)
      PROVE  Fewer
  BY <1>4 DEF Lookup
<1> QED BY <1>1, <1>2, <1>3, <1>4 DEF Next, Environment, WorkerNext

LEMMA ReadingFitsStep ==
    ASSUME TypeOK, FreshNames, NoReanalysis, ReadingFits, [Next]_vars
    PROVE  ReadingFits'
<1>1. worker.pc # "idle" => worker.name \in Names /\ StemOf[worker.name] \in Stems
  BY SystemAssumption DEF TypeOK, FieldsSet
<1>2. CASE worker' = worker
  <2>1. ASSUME NEW n \in Names, NEW d \in Docs, Drop(n, d) PROVE ReadingFits'
    <3>1. cache' = cache /\ worker.name # n /\ inbox' = [inbox EXCEPT ![n] = d]
      BY <2>1 DEF Drop, Forgotten
    <3>2. \A m \in Names : inbox'[m] = inbox[m] \/ m # worker.name
      BY <3>1 DEF TypeOK
    <3> QED BY <1>1, <1>2, <3>1, <3>2 DEF ReadingFits, Artifact
  <2>2. ~StoreArtifact
    BY <1>2 DEF StoreArtifact, Goto, TypeOK
  <2> QED BY <1>1, <1>2, <2>1, <2>2, FilesStep DEF ReadingFits, Artifact
<1>3. CASE worker' # worker
  <2>1. Crash \/ WorkerNext
    BY <1>3 DEF vars, Next, Environment, Drop, Lookup, SaveFile, Startup, Start,
        ScanList, ScanSubmit, ScanDone, PruneList, PruneSweep, Observer,
        ObserverSubmit, SubmitPut, RequestStep, Copy, CopyRefused, CheckSource,
        Dispose, DisposeMissing, DisposeFails, Unlist, Uncache, SaveStep,
            SwapConfig, ListEntries,
        CheckArtifact, PutReanalysis, ReanalysisAborted, SaveDone
  <2>2. CASE Convert
    <3>1. worker' = [worker EXCEPT !.pc = "store", !.doc = inbox[worker.name]]
          /\ inbox' = inbox
      BY <2>2 DEF Convert
    <3>2. worker'.pc = "store" /\ worker'.doc = inbox[worker'.name]
      BY <3>1 DEF TypeOK
    <3> QED BY <3>1, <3>2 DEF ReadingFits
  <2>3. CASE StoreArtifact
    <3>1. worker.pc = "store" /\ inbox' = inbox
          /\ worker' = [worker EXCEPT !.pc = "readBack"]
          /\ cache' = [cache EXCEPT ![StemOf[worker.name]] = worker.doc]
      BY <2>3 DEF StoreArtifact, Goto
    <3>2. worker'.pc = "readBack" /\ worker'.name = worker.name /\ worker'.doc = worker.doc
      BY <3>1 DEF TypeOK
    <3>3. cache'[StemOf[worker.name]] = worker.doc
      BY <1>1, <3>1 DEF TypeOK
    <3> QED BY <3>1, <3>2, <3>3 DEF ReadingFits, Artifact
  <2>4. CASE ReadBack
    <3>1. inbox' = inbox /\ cache' = cache /\ worker.pc = "readBack"
          /\ worker'.name = worker.name /\ worker'.doc = Artifact
          /\ worker'.pc = CASE ~Parses(Artifact) -> "markTechnical"
                             [] Parses(Artifact) /\ Artifact \in Scans -> "moveToError"
                             [] OTHER -> "analyze"
      BY <2>4 DEF ReadBack, TypeOK
    <3>2. worker'.pc \notin {"store", "readBack"}
          /\ (worker'.pc = "analyze" => Artifact # None)
      BY <3>1, NoneAssumption, SystemAssumption DEF Parses
    <3> QED BY <3>1, <3>2 DEF ReadingFits, Artifact
  <2>5. ASSUME worker'.pc \notin {"store", "readBack", "analyze"} PROVE ReadingFits'
    BY <2>5 DEF ReadingFits
  <2>6. CASE TakeJob \/ ReportError \/ Publish \/ LoadFails \/ Crash
    BY <2>5, <2>6 DEF TakeJob, ReportError, Publish, LoadFails, Crash, IdleWorker
  <2>7. CASE Mark \/ ReadConfig \/ NoOutput \/ ExtractionFails \/ MoveToError
             \/ MoveFails \/ AnalysisFails
    BY <2>5, <2>7 DEF Mark, ReadConfig, NoOutput, ExtractionFails, MoveToError,
        MoveFails, AnalysisFails, Goto, TypeOK
  <2>8. ~FindArtifact /\ ~LoadArtifact
    BY DEF NoReanalysis, FindArtifact, LoadArtifact, Goto
  <2> QED BY <2>1, <2>2, <2>3, <2>4, <2>6, <2>7, <2>8 DEF WorkerNext
<1> QED BY <1>2, <1>3

(* What a step does to an entry that is ready after it.                    *)
LEMMA ReadyStep ==
    ASSUME TypeOK, [Next]_vars, NEW n \in Names, HasStatus(register', n, "ready")
    PROVE  \/ HasStatus(register, n, "ready") /\ register'[n] = register[n]
           \/ /\ Publish /\ n = worker.name
              /\ register'[n].suggestion.doc = worker.doc
<1> USE DEF HasStatus, Listed
<1>1. CASE register' = register
  BY <1>1
<1>2. ASSUME NEW s \in Submitters, NEW m \in Names, SubmitAdd(s, m)
      PROVE  HasStatus(register, n, "ready") /\ register'[n] = register[n]
  BY <1>2 DEF SubmitAdd, Add, TypeOK, Registers
<1>3. CASE Mark \/ ReportError
  <2>1. worker.name \in Names
    BY <1>3 DEF Mark, ReportError, Goto, TypeOK, FieldsSet
  <2>2. CASE Mark
    <3>1. register' = MarkAnalyzing(register, worker.name)
      BY <2>2 DEF Mark
    <3> QED BY <2>1, <3>1 DEF MarkAnalyzing, TypeOK, Registers, Entry
  <2>3. CASE ReportError
    <3>1. PICK why \in Reason : register' = MarkError(register, worker.name, why)
      BY <2>3 DEF ReportError, Reason
    <3> QED BY <2>1, <3>1 DEF MarkError, TypeOK, Registers, Entry
  <2> QED BY <1>3, <2>2, <2>3
<1>4. CASE Publish
  <2>1. worker.name \in Names
    BY <1>4 DEF Publish, TypeOK, FieldsSet
  <2>2. register' = SetReady(register, worker.name,
                             [doc |-> worker.doc, config |-> worker.config])
    BY <1>4 DEF Publish
  <2> QED BY <1>4, <2>1, <2>2 DEF SetReady, TypeOK, Registers, Entry
<1>5. ASSUME NEW r \in Requests, Unlist(r)
      PROVE  HasStatus(register, n, "ready") /\ register'[n] = register[n]
  BY <1>5 DEF Unlist, Remove, TypeOK, Registers
<1>6. CASE Crash
  BY <1>6 DEF Crash, EmptyRegister
<1>7. \/ register' = register
      \/ \E m \in Names, s \in Submitters : SubmitAdd(s, m)
      \/ Mark \/ ReportError \/ Publish \/ (\E r \in Requests : Unlist(r)) \/ Crash
  <2>1. CASE Environment \/ UNCHANGED vars
    BY <2>1 DEF Environment, Drop, Lookup, SaveFile, vars
  <2>2. CASE Startup
    BY <2>2 DEF Startup, Start, ScanList, ScanSubmit, ScanDone, SubmitPut, PruneList,
        PruneSweep, Submitters
  <2>3. CASE Observer
    <3>1. CASE ObserverSubmit
      <4>1. Head(events) \in Names /\ SubmitAdd("observer", Head(events))
        BY <3>1 DEF ObserverSubmit, TypeOK
      <4> QED BY <4>1 DEF Submitters
    <3> QED BY <2>3, <3>1 DEF Observer, SubmitPut
  <2>4. CASE WorkerNext
    BY <2>4 DEF WorkerNext, TakeJob, ReadConfig, FindArtifact, LoadArtifact,
        LoadFails, Convert, NoOutput, ExtractionFails, StoreArtifact, ReadBack,
        MoveToError, MoveFails, AnalysisFails
  <2>5. ASSUME NEW r \in Requests, RequestStep(r), ~Unlist(r) PROVE register' = register
    BY <2>5 DEF RequestStep, Copy, CopyRefused, CheckSource, Dispose,
        DisposeMissing, DisposeFails,
        Uncache
  <2>6. CASE SaveStep
    BY <2>6 DEF SaveStep, SwapConfig, ListEntries, CheckArtifact, PutReanalysis,
        ReanalysisAborted, SaveDone
  <2> QED BY <2>1, <2>2, <2>3, <2>4, <2>5, <2>6 DEF Next
<1> QED BY <1>1, <1>2, <1>3, <1>4, <1>5, <1>6, <1>7

LEMMA DropIsFresh ==
    ASSUME TypeOK, FreshNames, NEW n \in Names, NEW d \in Docs, Drop(n, d)
    PROVE  /\ \A m \in Names : inbox'[m] = inbox[m] \/ m = n
           /\ UNCHANGED <<cache, register, requests>> /\ ~Listed(register, n)
           /\ \A r \in Requests : requests[r].name # n
BY DEF Drop, Forgotten, TypeOK

LEMMA ReadyFitsStep ==
    ASSUME TypeOK, FreshNames, ReadingFits, ReadyFits, [Next]_vars PROVE ReadyFits'
<1> SUFFICES ASSUME NEW n \in Names, HasStatus(register', n, "ready")
             PROVE  inbox'[n] \in {register'[n].suggestion.doc, None}
    BY DEF ReadyFits
<1>1. ASSUME NEW m \in Names, NEW d \in Docs, Drop(m, d)
      PROVE  inbox'[n] \in {register'[n].suggestion.doc, None}
  BY <1>1, DropIsFresh DEF ReadyFits, HasStatus
<1>2. CASE Publish /\ n = worker.name /\ register'[n].suggestion.doc = worker.doc
  BY <1>2 DEF Publish, ReadingFits
<1>3. CASE /\ HasStatus(register, n, "ready") /\ register'[n] = register[n]
           /\ inbox'[n] \in {inbox[n], None}
  BY <1>3 DEF ReadyFits
<1>4. StoreArtifact => inbox' = inbox
  BY DEF StoreArtifact
<1> QED BY <1>1, <1>2, <1>3, <1>4, FilesStep, ReadyStep

LEMMA CopiesFitStep ==
    ASSUME TypeOK, FreshNames, ReadyFits, CopiesFit, [Next]_vars PROVE CopiesFit'
<1> SUFFICES ASSUME NEW r \in Requests, requests'[r].pc = "copy"
             PROVE  inbox'[requests'[r].name] \in {requests'[r].suggested, None}
    BY DEF CopiesFit
<1>1. requests[r].pc = "copy" => requests[r].name \in Names
  BY DEF TypeOK, FieldsSet
<1>2. ASSUME requests'[r] = requests[r], NEW m \in Names, NEW d \in Docs, Drop(m, d)
      PROVE  inbox'[requests'[r].name] \in {requests'[r].suggested, None}
  BY <1>1, <1>2, DropIsFresh DEF CopiesFit
<1>3. CASE requests'[r] = requests[r] /\ ~(\E m \in Names, d \in Docs : Drop(m, d))
  <2>1. StoreArtifact => inbox' = inbox
    BY DEF StoreArtifact
  <2> QED BY <1>1, <1>3, <2>1, FilesStep DEF CopiesFit
<1>4. ASSUME NEW n \in Names, NEW kind \in {"execute", "remove"}, Lookup(r, n, kind)
      PROVE  inbox'[requests'[r].name] \in {requests'[r].suggested, None}
  <2>1. inbox' = inbox /\ requests'[r] =
           [pc |-> IF kind = "execute" THEN "copy" ELSE "exists",
            kind |-> kind, name |-> n, doc |-> inbox[n],
            suggested |-> IF kind = "execute" THEN register[n].suggestion.doc
                          ELSE None]
    BY <1>4 DEF Lookup, TypeOK
  <2>2. kind = "execute" /\ HasStatus(register, n, "ready")
    BY <1>4, <2>1 DEF Lookup
  <2> QED BY <2>1, <2>2 DEF ReadyFits
<1>5. requests'[r] = requests[r]
      \/ \E n \in Names, kind \in {"execute", "remove"} : Lookup(r, n, kind)
  <2>1. CASE Environment
    BY <2>1 DEF Environment, Drop, Lookup, SaveFile, Crash, IdleRequest, TypeOK
  <2>2. ASSUME NEW q \in Requests, RequestStep(q) PROVE requests'[r] = requests[r]
    BY <2>2 DEF RequestStep, Copy, CopyRefused, CheckSource, Dispose,
        DisposeMissing, DisposeFails,
        Unlist, Uncache, Advance, IdleRequest, TypeOK, RequestState
  <2>3. CASE Startup \/ Observer \/ WorkerNext \/ SaveStep \/ UNCHANGED vars
    BY <2>3 DEF vars, Startup, Start, ScanList, ScanSubmit, ScanDone, PruneList,
        PruneSweep, Observer, ObserverSubmit, SubmitPut, SaveStep, SwapConfig,
        ListEntries, CheckArtifact, PutReanalysis, ReanalysisAborted, SaveDone,
        WorkerNext, TakeJob, Mark, ReadConfig, FindArtifact, LoadArtifact,
        LoadFails, Convert, NoOutput, ExtractionFails, StoreArtifact, ReadBack,
        MoveToError, MoveFails, ReportError, AnalysisFails, Publish
  <2> QED BY <2>1, <2>2, <2>3 DEF Next
<1> QED BY <1>2, <1>3, <1>4, <1>5

LEMMA ReviewInvariant == FreshNames /\ NeverSaved => (Spec => []ReviewInv)
<1> SUFFICES ASSUME FreshNames, NeverSaved PROVE Spec => []ReviewInv
    OBVIOUS
<1>1. Init => ReviewInv
  BY DEF Init, ReviewInv, NoReanalysis, ReadingFits, ReadyFits, CopiesFit, IdleWorker,
      IdleSave, IdleRequest, EmptyRegister, HasStatus, Listed
<1>2. TypeOK /\ ReviewInv /\ [Next]_vars => ReviewInv'
  <2> SUFFICES ASSUME TypeOK, ReviewInv, [Next]_vars PROVE ReviewInv'
      OBVIOUS
  <2>1. NoReanalysis' /\ ReadingFits' /\ ReadyFits' /\ CopiesFit'
    BY NoReanalysisStep, ReadingFitsStep, ReadyFitsStep, CopiesFitStep DEF ReviewInv
  <2> QED BY <2>1 DEF ReviewInv
<1> QED BY <1>1, <1>2, TypeCorrect, PTL DEF Spec

(* If names are used again only once forgotten, the suggestion under a     *)
(* name is that of the PDF under this name, whatever is filed or removed   *)
(* meanwhile and whenever the process dies, until the configuration is     *)
(* saved.                                                                  *)
THEOREM SuggestionsFitUntilSaved ==
    FreshNames /\ NeverSaved => (Spec => []SuggestionFits)
<1> SUFFICES ASSUME FreshNames, NeverSaved PROVE Spec => []SuggestionFits
    OBVIOUS
<1>1. ReviewInv => SuggestionFits
  BY DEF ReviewInv, ReadyFits, SuggestionFits
<1> QED BY <1>1, ReviewInvariant, PTL

(* ... and a confirmation files the PDF that was reviewed.                 *)
THEOREM FiledAsReviewedUntilSaved ==
    FreshNames /\ NeverSaved => (Spec => FiledAsReviewed)
<1> SUFFICES ASSUME FreshNames, NeverSaved PROVE Spec => FiledAsReviewed
    OBVIOUS
<1>1. TypeOK /\ CustodyInv /\ ReviewInv /\ [Next]_vars
      => [\A d \in filed' \ filed :
             \E r \in Requests : requests[r].kind = "execute"
                                 /\ requests[r].suggested = d]_vars
  <2> SUFFICES ASSUME TypeOK, CustodyInv, ReviewInv, [Next]_vars, NEW d \in filed' \ filed
               PROVE  \E r \in Requests : requests[r].kind = "execute"
                                          /\ requests[r].suggested = d
      OBVIOUS
  <2>1. PICK r \in Requests : Copy(r)
    BY DEF vars, Next, Environment, Drop, Lookup, SaveFile, Crash, Startup, Start,
        ScanList, ScanSubmit, ScanDone, PruneList, PruneSweep, Observer,
        ObserverSubmit, SubmitPut, WorkerNext, TakeJob, Mark, ReadConfig,
        FindArtifact, LoadArtifact, LoadFails, Convert, NoOutput,
        ExtractionFails, StoreArtifact, ReadBack, MoveToError, MoveFails, ReportError,
        AnalysisFails, Publish, RequestStep, CopyRefused, CheckSource, Dispose,
        DisposeMissing, DisposeFails, Unlist, Uncache, SaveStep, SwapConfig,
            ListEntries,
        CheckArtifact, PutReanalysis, ReanalysisAborted, SaveDone
  <2>2. requests[r].pc = "copy" /\ inbox[NameOf(r)] # None /\ d = inbox[NameOf(r)]
    BY <2>1 DEF Copy
  <2>3. requests[r].kind = "execute"
    BY <2>2, RequestFile DEF CustodyInv
  <2>4. requests[r].suggested = d
    BY <2>2 DEF ReviewInv, CopiesFit, NameOf
  <2> QED BY <2>3, <2>4
<1> QED BY <1>1, TypeCorrect, CustodyInvariant, ReviewInvariant, PTL
        DEF Spec, FiledAsReviewed

(* ... and if every name has a stem of its own, so has its artifact.       *)
THEOREM ArtifactsFitUntilSaved ==
    FreshNames /\ NeverSaved /\ OwnStems => (Spec => []ArtifactFits)
<1> SUFFICES ASSUME FreshNames, NeverSaved, OwnStems PROVE Spec => []ArtifactFits
    OBVIOUS
<1>1. Init => ArtifactFits
  BY DEF Init, ArtifactFits, EmptyRegister, HasStatus, Listed
<1>2. TypeOK /\ ReviewInv /\ ArtifactFits /\ [Next]_vars => ArtifactFits'
  <2> SUFFICES ASSUME TypeOK, ReviewInv, ArtifactFits, [Next]_vars, NEW n \in Names,
                      HasStatus(register', n, "ready"), inbox'[n] # None,
                      cache'[StemOf[n]] # None
               PROVE  cache'[StemOf[n]] = inbox'[n]
      BY DEF ArtifactFits
  <2>1. StemOf[n] \in Stems
    BY SystemAssumption
  <2>2. ASSUME NEW m \in Names, NEW d \in Docs, Drop(m, d)
        PROVE  cache'[StemOf[n]] = inbox'[n]
    BY <2>2, DropIsFresh DEF ArtifactFits, HasStatus
  <2>3. CASE StoreArtifact
    <3>1. worker.pc = "store" /\ inbox' = inbox /\ register' = register
          /\ cache' = [cache EXCEPT ![StemOf[worker.name]] = worker.doc]
      BY <2>3 DEF StoreArtifact, Goto
    <3>2. worker.name \in Names /\ inbox[worker.name] \in {worker.doc, None}
      BY <3>1 DEF TypeOK, FieldsSet, ReviewInv, ReadingFits
    <3>3. CASE n = worker.name
      BY <2>1, <3>1, <3>2, <3>3 DEF TypeOK
    <3>4. CASE n # worker.name
      <4>1. cache'[StemOf[n]] = cache[StemOf[n]]
        BY <2>1, <3>1, <3>2, <3>4 DEF OwnStems, TypeOK
      <4> QED BY <3>1, <4>1 DEF ArtifactFits
    <3> QED BY <3>3, <3>4
  <2>4. CASE /\ inbox'[n] = inbox[n] /\ cache'[StemOf[n]] = cache[StemOf[n]]
             /\ HasStatus(register, n, "ready")
    BY <2>4 DEF ArtifactFits
  <2>5. CASE Publish /\ n = worker.name
    BY <2>5 DEF Publish, ReviewInv, ReadingFits, Artifact
  <2> QED BY <2>1, <2>2, <2>3, <2>4, <2>5, FilesStep, ReadyStep
<1> QED BY <1>1, <1>2, TypeCorrect, ReviewInvariant, PTL DEF Spec

-----------------------------------------------------------------------------
(* Part 4: an unreadable PDF becomes ready by a reanalysis only, whatever  *)
(* becomes of names.                                                       *)

(* extract lets no text without a page through to the analysis.            *)
AnalyzedReadable == worker.pc = "analyze" => worker.doc \notin Scans

UnreadableInv == NoReanalysis /\ AnalyzedReadable /\ UnreadableNeverReady

(* Steps that neither take a PDF to the analysis nor make an entry ready.  *)
LEMMA NoneReadied ==
    ASSUME AnalyzedReadable, UnreadableNeverReady,
           worker' = worker \/ worker'.pc # "analyze",
           \A n \in Names : HasStatus(register', n, "ready")
                            => /\ HasStatus(register, n, "ready")
                               /\ register'[n].suggestion = register[n].suggestion
    PROVE  AnalyzedReadable' /\ UnreadableNeverReady'
<1>1. AnalyzedReadable'
  BY DEF AnalyzedReadable
<1>2. UnreadableNeverReady'
  BY DEF UnreadableNeverReady, HasStatus, Listed
<1> QED BY <1>1, <1>2

(* Neither add, nor mark_analyzing, mark_error, remove make one ready.     *)
LEMMA ReadyBySetReady ==
    ASSUME TypeOK, NEW n \in Names, NEW m \in Names,
           NEW new \in {Add(register, n, nextId), MarkAnalyzing(register, n),
                        Remove(register, n)}
                       \cup {MarkError(register, n, why) : why \in Reason},
           HasStatus(new, m, "ready")
    PROVE  HasStatus(register, m, "ready") /\ new[m].suggestion = register[m].suggestion
<1>1. register \in Registers
  BY DEF TypeOK
<1>2. CASE m = n /\ new # Add(register, n, nextId)
  BY <1>1, <1>2 DEF MarkAnalyzing, Remove, MarkError, HasStatus, Listed,
      Registers, Entry
<1>3. CASE m = n /\ new = Add(register, n, nextId)
  BY <1>1, <1>3 DEF Add, HasStatus, Listed, Registers
<1>4. CASE m # n
  BY <1>1, <1>4 DEF Add, MarkAnalyzing, Remove, MarkError, HasStatus, Listed, Registers
<1> QED BY <1>2, <1>3, <1>4

LEMMA UnreadableWorker ==
    ASSUME TypeOK, NoReanalysis, AnalyzedReadable, UnreadableNeverReady, WorkerNext
    PROVE  AnalyzedReadable' /\ UnreadableNeverReady'
<1>1. CASE TakeJob \/ ReadConfig \/ LoadFails \/ Convert \/ NoOutput
           \/ ExtractionFails \/ StoreArtifact \/ MoveToError \/ MoveFails \/ AnalysisFails
  <2>1. register' = register
    BY <1>1 DEF TakeJob, ReadConfig, LoadFails, Convert, NoOutput,
        ExtractionFails, StoreArtifact, MoveToError, MoveFails, AnalysisFails
  <2>2. worker'.pc # "analyze"
    <3>1. ASSUME NEW pc, NEW next, Goto(pc, next), next # "analyze"
          PROVE  worker'.pc # "analyze"
      BY <3>1 DEF Goto, TypeOK
    <3>2. CASE NoOutput \/ ExtractionFails \/ StoreArtifact \/ MoveToError \/ MoveFails
               \/ AnalysisFails
      BY <3>1, <3>2 DEF NoOutput, ExtractionFails, StoreArtifact, MoveToError, MoveFails,
          AnalysisFails
    <3>3. CASE TakeJob \/ ReadConfig \/ LoadFails \/ Convert
      <4>1. CASE TakeJob
        BY <4>1 DEF TakeJob
      <4>2. CASE ReadConfig
        BY <4>2 DEF ReadConfig, TypeOK, NoReanalysis
      <4>3. CASE LoadFails
        BY <4>3 DEF LoadFails, IdleWorker
      <4>4. CASE Convert
        BY <4>4 DEF Convert, TypeOK
      <4> QED BY <3>3, <4>1, <4>2, <4>3, <4>4
    <3> QED BY <1>1, <3>2, <3>3
  <2> QED BY <2>1, <2>2, NoneReadied
<1>2. ~FindArtifact /\ ~LoadArtifact
  BY DEF NoReanalysis, FindArtifact, LoadArtifact, Goto
<1>3. CASE ReadBack
  <2>1. worker'.pc = "analyze" => worker'.doc \notin Scans
    BY <1>3 DEF ReadBack, TypeOK
  <2>2. register' = register
    BY <1>3 DEF ReadBack
  <2> QED BY <2>1, <2>2 DEF AnalyzedReadable, UnreadableNeverReady, HasStatus, Listed
<1>4. CASE Mark \/ ReportError
  <2>1. worker.name \in Names /\ worker'.pc # "analyze"
    BY <1>4 DEF Mark, ReportError, Goto, IdleWorker, TypeOK, FieldsSet
  <2>2. register' \in {MarkAnalyzing(register, worker.name)}
                     \cup {MarkError(register, worker.name, why) : why \in Reason}
    BY <1>4 DEF Mark, ReportError, Reason
  <2> QED BY <2>1, <2>2, ReadyBySetReady, NoneReadied
<1>5. CASE Publish
  <2> DEFINE n == worker.name
             s == [doc |-> worker.doc, config |-> worker.config]
  <2>1. /\ worker' = IdleWorker /\ register' = SetReady(register, n, s)
        /\ n \in Names /\ worker.doc \notin Scans
    BY <1>5 DEF Publish, AnalyzedReadable, TypeOK, FieldsSet
  <2> HIDE DEF n
  <2>2. ASSUME NEW m \in Names, HasStatus(register', m, "ready")
        PROVE  register'[m].suggestion.doc \notin Scans
    <3>1. CASE m = n
      <4>1. register[n] \in Entry
        BY <2>1, <2>2, <3>1 DEF SetReady, HasStatus, Listed, TypeOK, Registers
      <4>2. register'[n] = [register[n] EXCEPT !.status = "ready", !.suggestion = s,
                                               !.reason = None]
        BY <2>1, <4>1, NoneAssumption DEF SetReady, Listed, TypeOK, Registers
      <4>3. register'[n].suggestion = s
        BY <4>1, <4>2 DEF Entry
      <4> QED BY <2>1, <3>1, <4>3
    <3>2. CASE m # n
      <4>1. register'[m] = register[m]
        BY <2>1, <3>2 DEF SetReady, TypeOK, Registers
      <4> QED BY <2>2, <4>1 DEF UnreadableNeverReady, HasStatus, Listed
    <3> QED BY <3>1, <3>2
  <2> QED BY <2>1, <2>2 DEF AnalyzedReadable, UnreadableNeverReady, IdleWorker
<1> QED BY <1>1, <1>2, <1>3, <1>4, <1>5 DEF WorkerNext

LEMMA UnreadableStep ==
    ASSUME TypeOK, NoReanalysis, AnalyzedReadable, UnreadableNeverReady, [Next]_vars
    PROVE  AnalyzedReadable' /\ UnreadableNeverReady'
<1> DEFINE Goal == AnalyzedReadable' /\ UnreadableNeverReady'
<1>1. ASSUME UNCHANGED <<register, worker>> PROVE Goal
  BY <1>1, NoneReadied
<1>2. ASSUME NEW n \in Names, NEW d \in Docs, Drop(n, d) PROVE Goal
  BY <1>1, <1>2 DEF Drop
<1>3. ASSUME NEW r \in Requests, NEW n \in Names,
             NEW kind \in {"execute", "remove"}, Lookup(r, n, kind)
      PROVE  Goal
  BY <1>1, <1>3 DEF Lookup
<1>4. CASE Crash
  BY <1>4 DEF Crash, IdleWorker, EmptyRegister, AnalyzedReadable, UnreadableNeverReady,
      HasStatus, Listed
<1>5. ASSUME NEW s \in Submitters, NEW n \in Names, SubmitAdd(s, n), worker' = worker
      PROVE  Goal
  BY <1>5, ReadyBySetReady, NoneReadied DEF SubmitAdd
<1>6. ASSUME NEW n \in Names, ScanSubmit(n) PROVE Goal
  <2>1. CASE inbox[n] = None
    BY <1>1, <1>6, <2>1 DEF ScanSubmit
  <2>2. CASE inbox[n] # None
    BY <1>5, <1>6, <2>2 DEF ScanSubmit, Submitters
  <2> QED BY <2>1, <2>2
<1>7. CASE ObserverSubmit
  <2>1. Head(events) \in Names
    BY <1>7 DEF ObserverSubmit, TypeOK
  <2> QED BY <1>5, <1>7, <2>1 DEF ObserverSubmit, Submitters
<1>8. ASSUME NEW r \in Requests, Unlist(r) PROVE Goal
  <2>1. NameOf(r) \in Names /\ register' = Remove(register, NameOf(r)) /\ worker' = worker
    BY <1>8 DEF Unlist, NameOf, TypeOK, FieldsSet
  <2> QED BY <2>1, ReadyBySetReady, NoneReadied
<1>9. CASE WorkerNext
  BY <1>9, UnreadableWorker
<1>10. CASE Start \/ ScanList \/ ScanDone \/ PruneList \/ PruneSweep
            \/ SubmitPut("scan") \/ SubmitPut("observer")
  BY <1>1, <1>10 DEF Start, ScanList, ScanDone, PruneList, PruneSweep, SubmitPut
<1>11. ASSUME NEW r \in Requests, RequestStep(r), ~Unlist(r) PROVE Goal
  BY <1>1, <1>11 DEF RequestStep, Copy, CopyRefused, CheckSource, Dispose,
      DisposeMissing, DisposeFails, Uncache
<1>12. CASE SaveFile \/ SaveStep
  BY <1>1, <1>12 DEF SaveFile, SaveStep, SwapConfig, ListEntries, CheckArtifact,
      PutReanalysis, ReanalysisAborted, SaveDone
<1>13. CASE UNCHANGED vars
  BY <1>1, <1>13 DEF vars
<1> QED BY <1>2, <1>3, <1>4, <1>6, <1>7, <1>8, <1>9, <1>10, <1>11, <1>12, <1>13
        DEF Next, Environment, Startup, Observer

(* Until the configuration is saved, no PDF without text is offered for    *)
(* review, whatever the names, removals and crashes (extractor.py extract, *)
(* worker.py _process).  A save is what the counterexample needs.          *)
THEOREM ReadableUntilSaved == NeverSaved => (Spec => []UnreadableNeverReady)
<1> SUFFICES ASSUME NeverSaved PROVE Spec => []UnreadableNeverReady
    OBVIOUS
<1>1. Init => UnreadableInv
  BY DEF Init, UnreadableInv, NoReanalysis, AnalyzedReadable, UnreadableNeverReady,
      IdleWorker, IdleSave, EmptyRegister, HasStatus, Listed
<1>2. TypeOK /\ UnreadableInv /\ [Next]_vars => UnreadableInv'
  BY NoReanalysisStep, UnreadableStep DEF UnreadableInv
<1>3. UnreadableInv => UnreadableNeverReady
  BY DEF UnreadableInv
<1> QED BY <1>1, <1>2, <1>3, TypeCorrect, PTL DEF Spec
=============================================================================
