------------------------------- MODULE Worker -------------------------------
(***************************************************************************)
(* The worker thread (worker.py): it takes one job at a time and runs      *)
(* extract, analyze and suggest on it.  Every point at which it touches    *)
(* what another thread can touch is an action of its own, because the lock *)
(* of the register covers a single call and no lock covers the files.      *)
(***************************************************************************)
EXTENDS System

(* What a step of the worker that only concerns itself leaves alone.       *)
alone == <<documents, cache, settings, listing, work, intake, handlers, crashes>>

(* The worker is at pc and moves on to next.                               *)
Goto(pc, next) ==
    /\ worker.pc = pc
    /\ worker' = [worker EXCEPT !.pc = next]

Artifact == cache[StemOf[worker.name]]

TakeJob ==
    /\ worker.pc = "idle"
    /\ work # <<>>
    /\ work' = Tail(work)
    /\ worker' = [pc |-> "mark", reuse |-> Head(work).kind = "reanalyze",
                  name |-> Head(work).name, config |-> 0, doc |-> None]
    /\ UNCHANGED <<documents, cache, settings, listing, intake, handlers, crashes>>

Mark ==
    /\ Goto("mark", "configure")
    /\ register' = MarkAnalyzing(register, worker.name)
    /\ UNCHANGED <<documents, cache, settings, nextId, work, intake, handlers,
                   crashes>>

(* Mutation: an extract job uses what the cache already has.               *)
ReadConfigCacheFirst ==
    /\ worker.pc = "configure"
    /\ worker' = [worker EXCEPT !.pc = "find", !.config = config]
    /\ UNCHANGED alone

(* Mutation: the worker keeps the configuration of the start.              *)
ReadConfigAtStart ==
    /\ worker.pc = "configure"
    /\ worker' = [worker EXCEPT !.pc = IF worker.reuse THEN "find" ELSE "extract"]
    /\ UNCHANGED alone

(* One configuration is used for the whole job, whatever is saved meanwhile. *)
ReadConfig ==
    /\ worker.pc = "configure"
    /\ worker' = [worker EXCEPT !.pc = IF worker.reuse THEN "find" ELSE "extract",
                                !.config = config]
    /\ UNCHANGED alone

(* DocumentCache.load_document: first exists() ...                         *)
FindArtifact ==
    /\ Goto("find", IF Artifact = None THEN "extract" ELSE "load")
    /\ UNCHANGED alone

(* There is an artifact, and json.loads and document_from_odl accept it.   *)
Parses(artifact) == artifact \notin Garbled \cup {None}

(* ... then read_text().                                                   *)
LoadArtifact ==
    /\ worker.pc = "load"
    /\ Parses(Artifact)
    /\ worker' = [worker EXCEPT !.pc = "analyze", !.doc = Artifact]
    /\ UNCHANGED alone

(* Mutation: the exception ends the thread.                                *)
LoadFailsFatal ==
    /\ worker.pc = "load"
    /\ ~Parses(Artifact)
    /\ worker' = [worker EXCEPT !.pc = "dead"]
    /\ UNCHANGED alone

(* The file was deleted in between, or its content does not parse.  Only   *)
(* _run catches this, and it does not touch the entry.                     *)
LoadFails ==
    /\ worker.pc = "load"
    /\ ~Parses(Artifact)
    /\ worker' = IdleWorker
    /\ UNCHANGED alone

(* The extractor's library reads the PDF that has the job's name now.      *)
Convert ==
    /\ worker.pc = "extract"
    /\ inbox[worker.name] \in Docs \ Corrupt
    /\ worker' = [worker EXCEPT !.pc = "store", !.doc = inbox[worker.name]]
    /\ UNCHANGED alone

(* No output for a corrupt or a missing file: an ExtractionError.          *)
NoOutput ==
    /\ Goto("extract", "moveToError")
    /\ inbox[worker.name] \in Corrupt \cup {None}
    /\ UNCHANGED alone

(* Mutation: any exception of the extraction moves the file away.          *)
ExtractionFailsUnreadable ==
    /\ Goto("extract", "moveToError")
    /\ UNCHANGED alone

(* The library, or a write to the cache, raises anything else.             *)
ExtractionFails ==
    /\ Goto("extract", "markTechnical")
    /\ UNCHANGED alone

(* Mutation: an artifact that is there already is kept.                    *)
StoreArtifactOnce ==
    /\ Goto("store", "readBack")
    /\ cache' = [cache EXCEPT ![StemOf[worker.name]] =
                     IF @ = None THEN worker.doc ELSE @]
    /\ UNCHANGED <<documents, settings, listing, work, intake, handlers, crashes>>

(* The artifacts are moved into the cache before the text is looked at.    *)
StoreArtifact ==
    /\ Goto("store", "readBack")
    /\ cache' = [cache EXCEPT ![StemOf[worker.name]] = worker.doc]
    /\ UNCHANGED <<documents, settings, listing, work, intake, handlers, crashes>>

(* extract() parses the file in the cache, not its own output.  If that    *)
(* raises, the artifact stays where it is.                                 *)
ReadBack ==
    /\ worker.pc = "readBack"
    /\ worker' = [worker EXCEPT !.doc = Artifact,
                       !.pc = CASE ~Parses(Artifact) -> "markTechnical"
                                [] Parses(Artifact) /\ Artifact \in Scans -> "moveToError"
                                [] OTHER -> "analyze"]
    /\ UNCHANGED alone

(* _move_to_error moves whatever has the name now, over whatever has the   *)
(* name in error/.                                                         *)
MoveToError ==
    LET n == worker.name IN
    /\ Goto("moveToError", "markUnreadable")
    /\ inbox[n] # None
    /\ overwritten' = overwritten \cup ({errorFolder[n]} \ {None})
    /\ errorFolder' = [errorFolder EXCEPT ![n] = inbox[n]]
    /\ inbox' = [inbox EXCEPT ![n] = None]
    /\ UNCHANGED <<filed, trash, arrived, discarded, cache, settings, listing,
                   work, intake, handlers, crashes>>

(* An OSError of the move, a missing file included, is only logged.        *)
MoveFails ==
    /\ Goto("moveToError", "markUnreadable")
    /\ UNCHANGED alone

(* Mutation: the error is logged and not reported.                         *)
ReportNothing ==
    /\ worker.pc \in {"markUnreadable", "markTechnical"}
    /\ worker' = IdleWorker
    /\ UNCHANGED alone

ReportError ==
    /\ worker.pc \in {"markUnreadable", "markTechnical"}
    /\ worker' = IdleWorker
    /\ register' = MarkError(register, worker.name,
                             IF worker.pc = "markUnreadable" THEN "unreadable"
                             ELSE "technical")
    /\ UNCHANGED <<documents, cache, settings, nextId, work, intake, handlers,
                   crashes>>

(* Mutation: the exception goes up to _run.                                *)
AnalysisFailsUncaught ==
    /\ worker.pc = "analyze"
    /\ worker' = IdleWorker
    /\ UNCHANGED alone

(* analyze and suggest read the document and the job's configuration; a    *)
(* user's regular expression can make them raise.                          *)
AnalysisFails ==
    /\ Goto("analyze", "markTechnical")
    /\ UNCHANGED alone

Publish ==
    /\ worker.pc = "analyze"
    /\ worker' = IdleWorker
    /\ register' = SetReady(register, worker.name,
                            [doc |-> worker.doc, config |-> worker.config])
    /\ UNCHANGED <<documents, cache, settings, nextId, work, intake, handlers,
                   crashes>>

WorkerNext ==
    \/ TakeJob \/ Mark \/ ReadConfig
    \/ FindArtifact \/ LoadArtifact \/ LoadFails
    \/ Convert \/ NoOutput \/ ExtractionFails \/ StoreArtifact \/ ReadBack
    \/ MoveToError \/ MoveFails \/ ReportError
    \/ AnalysisFails \/ Publish
=============================================================================
