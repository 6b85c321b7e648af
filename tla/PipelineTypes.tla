--------------------------- MODULE PipelineTypes ---------------------------
(* Type correctness of the whole process: Spec => []TypeOK.                *)
EXTENDS Pipeline, RegisterProofs

USE DEF documents, settings, listing, intake, handlers, alone, elsewhere

LEMMA InitType == Init => TypeOK
BY SystemAssumption DEF Init, TypeOK, FieldsSet, Registers, EmptyRegister,
    ReadySuggested, IdleWorker, IdleRequest, IdleSave, WorkerPCs,
    RequestPCs, RequestState, Submitters

LEMMA DropType == TypeOK /\ (\E n \in Names, d \in Docs : Drop(n, d)) => TypeOK'
BY DEF TypeOK, FieldsSet, Drop

LEMMA SubmitAddType ==
    ASSUME TypeOK, NEW s \in Submitters, NEW n \in Names, SubmitAdd(s, n)
    PROVE  /\ register' \in Registers /\ ReadySuggested(register')
           /\ nextId' \in Nat
           /\ holding' \in [Submitters -> Names \cup {None}]
BY AddType DEF SubmitAdd, TypeOK, FieldsSet

LEMMA StartupType == TypeOK /\ Startup => TypeOK'
<1> SUFFICES ASSUME TypeOK, Startup PROVE TypeOK'
    OBVIOUS
<1> USE DEF TypeOK, FieldsSet, Submitters
<1>1. CASE Start
  BY <1>1 DEF Start
<1>2. CASE ScanList
  BY <1>2 DEF ScanList
<1>3. ASSUME NEW n \in Names, ScanSubmit(n) PROVE TypeOK'
  <2>1. CASE inbox[n] = None
    BY <1>3, <2>1 DEF ScanSubmit
  <2>2. CASE inbox[n] # None
    BY <1>3, <2>2, SubmitAddType DEF ScanSubmit
  <2> QED BY <2>1, <2>2
<1>4. CASE ScanDone
  BY <1>4 DEF ScanDone
<1>5. CASE SubmitPut("scan")
  BY <1>5 DEF SubmitPut, Enqueue, Jobs
<1>6. CASE PruneList
  BY <1>6 DEF PruneList
<1>7. CASE PruneSweep
  BY <1>7 DEF PruneSweep
<1> QED BY <1>1, <1>2, <1>3, <1>4, <1>5, <1>6, <1>7 DEF Startup

LEMMA ObserverType == TypeOK /\ Observer => TypeOK'
<1> SUFFICES ASSUME TypeOK, Observer PROVE TypeOK'
    OBVIOUS
<1> USE DEF TypeOK, FieldsSet, Submitters
<1>1. CASE ObserverSubmit
  <2>1. Head(events) \in Names /\ Tail(events) \in Seq(Names)
    BY <1>1 DEF ObserverSubmit
  <2> QED BY <1>1, <2>1, SubmitAddType DEF ObserverSubmit
<1>2. CASE SubmitPut("observer")
  BY <1>2 DEF SubmitPut, Enqueue, Jobs
<1> QED BY <1>1, <1>2 DEF Observer

(* A crash leaves the initial memory and the files as they are.            *)
LEMMA CrashType == TypeOK /\ Crash => TypeOK'
BY DEF TypeOK, FieldsSet, Crash, ReadySuggested, EmptyRegister, Registers,
    IdleWorker, IdleRequest, IdleSave, WorkerPCs,
    RequestPCs, RequestState, Submitters

LEMMA WorkerType == TypeOK /\ WorkerNext => TypeOK'
<1> SUFFICES ASSUME TypeOK, WorkerNext PROVE TypeOK'
    OBVIOUS
<1> USE DEF TypeOK, FieldsSet, WorkerPCs
<1> USE SystemAssumption
<1>1. CASE TakeJob
  <2>1. Head(work) \in Jobs /\ Tail(work) \in Seq(Jobs)
    BY <1>1 DEF TakeJob
  <2> QED BY <1>1, <2>1 DEF TakeJob, Jobs
<1>2. CASE Mark
  BY <1>2, MarkAnalyzingType DEF Mark, Goto
<1>3. CASE ReadConfig
  BY <1>3 DEF ReadConfig
<1>4. CASE FindArtifact
  BY <1>4 DEF FindArtifact, Goto
<1>5. CASE LoadArtifact
  BY <1>5 DEF LoadArtifact, Artifact, Parses
<1>6. CASE LoadFails
  BY <1>6 DEF LoadFails, IdleWorker
<1>7. CASE Convert
  BY <1>7 DEF Convert
<1>8. CASE NoOutput
  BY <1>8 DEF NoOutput, Goto
<1>9. CASE ExtractionFails
  BY <1>9 DEF ExtractionFails, Goto
<1>10. CASE StoreArtifact
  BY <1>10 DEF StoreArtifact, Goto
<1>11. CASE ReadBack
  BY <1>11 DEF ReadBack, Artifact, Parses
<1>12. CASE MoveToError
  <2>1. worker.name \in Names
    BY <1>12 DEF MoveToError, Goto
  <2>2. overwritten' \in SUBSET Docs
    BY <1>12, <2>1 DEF MoveToError
  <2>3. /\ inbox' \in [Names -> Docs \cup {None}]
        /\ errorFolder' \in [Names -> Docs \cup {None}]
    BY <1>12, <2>1 DEF MoveToError
  <2>4. worker' = [worker EXCEPT !.pc = "markUnreadable"] /\ worker.pc = "moveToError"
    BY <1>12 DEF MoveToError, Goto
  <2>5. UNCHANGED <<filed, trash, arrived, discarded, cache, settings, listing,
                    work, intake, handlers, crashes>>
    BY <1>12 DEF MoveToError
  <2> QED BY <2>1, <2>2, <2>3, <2>4, <2>5
<1>13. CASE MoveFails
  BY <1>13 DEF MoveFails, Goto
<1>14. CASE ReportError
  <2>1. register' \in Registers /\ ReadySuggested(register')
    BY <1>14, MarkErrorType DEF ReportError, Reason
  <2> QED BY <1>14, <2>1 DEF ReportError, IdleWorker
<1>15. CASE AnalysisFails
  BY <1>15 DEF AnalysisFails, Goto
<1>16. CASE Publish
  <2>1. [doc |-> worker.doc, config |-> worker.config] \in Suggestion
    BY <1>16 DEF Publish, Suggestion
  <2>2. register' \in Registers /\ ReadySuggested(register')
    BY <1>16, <2>1, SetReadyType, NoneAssumption DEF Publish
  <2> QED BY <1>16, <2>2 DEF Publish, IdleWorker
<1> QED BY <1>1, <1>2, <1>3, <1>4, <1>5, <1>6, <1>7, <1>8, <1>9, <1>10, <1>11,
           <1>12, <1>13, <1>14, <1>15, <1>16 DEF WorkerNext

(* A handler that moves on keeps what it looked up until it is idle.       *)
LEMMA AdvanceType ==
    ASSUME TypeOK, NEW r \in Requests, NEW pc \in RequestPCs \ {"idle"},
           NEW next \in RequestPCs, Advance(r, pc, next)
    PROVE  /\ requests' \in [Requests -> RequestState]
           /\ \A q \in Requests : requests'[q].pc # "idle" =>
                  requests'[q].name \in Names /\ requests'[q].kind # None
           /\ requests[r].name \in Names
<1>1. requests[r] \in RequestState /\ requests[r].name \in Names /\ requests[r].kind # None
  BY DEF Advance, TypeOK, FieldsSet, RequestPCs
<1>2. CASE next = "idle"
  BY <1>1, <1>2 DEF Advance, TypeOK, FieldsSet, IdleRequest, RequestState, RequestPCs
<1>3. CASE next # "idle"
  <2> DEFINE new == [requests[r] EXCEPT !.pc = next]
  <2>1. new \in RequestState /\ new.name = requests[r].name /\ new.kind = requests[r].kind
    BY <1>1 DEF RequestState
  <2>2. requests' = [requests EXCEPT ![r] = new]
    BY <1>3 DEF Advance
  <2> QED BY <1>1, <2>1, <2>2 DEF TypeOK, FieldsSet
<1> QED BY <1>2, <1>3

LEMMA RequestType ==
    ASSUME TypeOK, NEW r \in Requests, RequestStep(r) PROVE TypeOK'
<1> USE SystemAssumption, AdvanceType DEF TypeOK, FieldsSet, NameOf, RequestPCs
<1>1. CASE Copy(r)
  BY <1>1 DEF Copy
<1>2. CASE CopyRefused(r)
  BY <1>2 DEF CopyRefused
<1>3. CASE CheckSource(r)
  BY <1>3 DEF CheckSource
<1>4. CASE Dispose(r)
  BY <1>4 DEF Dispose, IntoTrash
<1>5. CASE DisposeMissing(r)
  BY <1>5 DEF DisposeMissing
<1>6. CASE DisposeFails(r)
  BY <1>6 DEF DisposeFails
<1>7. CASE Unlist(r)
  <2>1. register' \in Registers /\ ReadySuggested(register')
    BY <1>7, RemoveType DEF Unlist
  <2> QED BY <1>7, <2>1 DEF Unlist
<1>8. CASE Uncache(r)
  BY <1>8 DEF Uncache
<1> QED BY <1>1, <1>2, <1>3, <1>4, <1>5, <1>6, <1>7, <1>8 DEF RequestStep

LEMMA LookupType ==
    ASSUME TypeOK, NEW r \in Requests, NEW n \in Names,
           NEW kind \in {"execute", "remove"}, Lookup(r, n, kind)
    PROVE  TypeOK'
<1>1. kind = "execute" => register[n].suggestion.doc \in Docs
  BY DEF Lookup, TypeOK, FieldsSet, ReadySuggested, HasStatus, Listed, Registers,
      Entry, Suggestion
<1>2. kind # None
  BY NoneAssumption
<1> QED BY <1>1, <1>2 DEF Lookup, TypeOK, FieldsSet, RequestState, RequestPCs

LEMMA SaveType == TypeOK /\ (SaveFile \/ SaveStep) => TypeOK'
<1> SUFFICES ASSUME TypeOK, SaveFile \/ SaveStep PROVE TypeOK'
    OBVIOUS
<1> USE DEF TypeOK, FieldsSet
<1>1. CASE SaveFile
  <2>1. configFile' \in Nat
    BY <1>1 DEF SaveFile
  <2>2. save' = [save EXCEPT !.pc = "swap"]
    BY <1>1 DEF SaveFile
  <2>3. UNCHANGED <<documents, cache, config, listing, work, worker, intake,
                    requests, crashes>>
    BY <1>1 DEF SaveFile
  <2> QED BY <2>1, <2>2, <2>3
<1>2. CASE SwapConfig
  BY <1>2 DEF SwapConfig
<1>3. CASE ListEntries
  BY <1>3 DEF ListEntries
<1>4. ASSUME NEW n \in Names, CheckArtifact(n) PROVE TypeOK'
  BY <1>4 DEF CheckArtifact
<1>5. CASE PutReanalysis
  <2>1. [kind |-> "reanalyze", name |-> save.name] \in Jobs
    BY <1>5 DEF PutReanalysis, Jobs
  <2>2. work' \in Seq(Jobs)
    BY <1>5, <2>1 DEF PutReanalysis, Enqueue
  <2> QED BY <1>5, <2>2 DEF PutReanalysis
<1>6. CASE ReanalysisAborted
  BY <1>6 DEF ReanalysisAborted, IdleSave
<1>7. CASE SaveDone
  BY <1>7 DEF SaveDone, IdleSave
<1> QED BY <1>1, <1>2, <1>3, <1>4, <1>5, <1>6, <1>7 DEF SaveStep

(* The type invariant, and with it that every thread finds the fields it   *)
(* uses set, holds for any documents, names, stems and number of requests. *)
THEOREM TypeCorrect == Spec => []TypeOK
<1>1. TypeOK /\ [Next]_vars => TypeOK'
  <2> SUFFICES ASSUME TypeOK, [Next]_vars PROVE TypeOK'
      OBVIOUS
  <2>1. CASE Environment
    BY <2>1, DropType, LookupType, SaveType, CrashType DEF Environment
  <2>2. CASE Startup
    BY <2>2, StartupType
  <2>3. CASE Observer
    BY <2>3, ObserverType
  <2>4. CASE WorkerNext
    BY <2>4, WorkerType
  <2>5. CASE \E r \in Requests : RequestStep(r)
    BY <2>5, RequestType
  <2>6. CASE SaveStep
    BY <2>6, SaveType
  <2>7. CASE UNCHANGED vars
    BY <2>7 DEF vars, TypeOK, FieldsSet
  <2> QED BY <2>1, <2>2, <2>3, <2>4, <2>5, <2>6, <2>7 DEF Next
<1> QED BY InitType, <1>1, PTL DEF Spec
=============================================================================
