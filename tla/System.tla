------------------------------- MODULE System -------------------------------
(***************************************************************************)
(* The state that the threads of one ZilpZalp process share: the files on  *)
(* disk, the register, the work queue, and how far each thread has got in  *)
(* the handler it is running.  Modules Watcher, Worker and Handlers define *)
(* what the threads do with it; module Pipeline puts them together.        *)
(*                                                                         *)
(* A document is an element of Docs.  A PDF that is dropped into the       *)
(* watchfolder is always a new element, so that "which document" and       *)
(* "which file name" are two different questions: the program only ever    *)
(* asks the second, and most of its hazards come from that.                *)
(***************************************************************************)
EXTENDS Register, Sequences

CONSTANTS
    Stems,          \* the stems of the names: the keys of the cache
    StemOf,         \* Names -> Stems: Path.stem, under which artifacts are kept
    Scans,          \* documents without a text layer
    Corrupt,        \* documents from which the extractor gets no output
    Garbled,        \* documents whose artifact does not parse
    Requests,       \* the threads that serve execute and remove requests
    WhenFiled,      \* originals.when_filed: "delete" or "trash"
    WhenRemoved,    \* originals.when_removed: "delete" or "trash"
    FreshNames,     \* a name is reused only when the process has forgotten it
    MaxConfig,      \* bound: number of times the configuration is saved
    MaxCrashes      \* bound: number of times the process dies

ASSUME SystemAssumption ==
    /\ StemOf \in [Names -> Stems]
    /\ Scans \subseteq Docs /\ Corrupt \subseteq Docs /\ Garbled \subseteq Docs
    /\ {WhenFiled, WhenRemoved} \subseteq {"delete", "trash"}
    /\ FreshNames \in BOOLEAN
    /\ MaxConfig \in Nat /\ MaxCrashes \in Nat

ASSUME NoneAssumption ==
    None \notin Names \cup Docs \cup Entry \cup Suggestion \cup Reason
                 \cup {"execute", "remove"}

VARIABLES
    \* On disk.
    inbox,          \* the watchfolder: the document under each name, or None
    errorFolder,    \* error/: the document under each name, or None
    filed,          \* the documents with a copy in a target folder
    trash,          \* the documents in the trash folder
    cache,          \* the document whose <stem>.json is in the cache, or None
    configFile,     \* the version of the configuration in config.yaml
    \* In memory.
    config,         \* app.state.config
    register,       \* app.state.queue
    nextId,         \* the next id uuid4 will mint
    work,           \* Worker._work, a FIFO queue of jobs
    worker,         \* the worker thread
    phase,          \* how far lifespan() has got on the main thread
    batch,          \* the names the main thread's scan or prune is working on
    events,         \* watchdog events that the observer has not delivered
    holding,        \* a submitter's name between register.add and _work.put
    requests,       \* the execute and remove handlers
    save,           \* the configuration handler
    \* History, for the properties.
    arrived,        \* the documents ever dropped into the watchfolder
    discarded,      \* the documents deleted because a user removed them
    overwritten,    \* the documents replaced in error/ by a later one
    crashes         \* how often the process has died

documents == <<inbox, errorFolder, filed, trash, arrived, discarded, overwritten>>
settings == <<configFile, config>>
listing == <<register, nextId>>
intake == <<phase, batch, events, holding>>
handlers == <<requests, save>>

vars == <<documents, cache, settings, listing, work, worker, intake, handlers,
          crashes>>

(* The two threads that call Worker.submit: watchdog's observer, and the   *)
(* main thread during the initial scan.                                    *)
Submitters == {"observer", "scan"}

Jobs == [kind : {"extract", "reanalyze"}, name : Names]

(* Mutation: a name that has a job in the queue gets no second one.        *)
EnqueueOnce(queue, kind, n) ==
    IF \E i \in 1..Len(queue) : queue[i].name = n
    THEN queue
    ELSE Append(queue, [kind |-> kind, name |-> n])

Enqueue(queue, kind, n) == Append(queue, [kind |-> kind, name |-> n])

(* Mutation: the initial scan runs before the observer is started.         *)
ObservingAfterScan == phase \in {"pruning", "sweeping", "serving"}

(* The observer is started before the scan.                                *)
Observing == phase # "down"

(* Before any handler has looked anything up.                              *)
IdleWorker == [pc |-> "idle", reuse |-> FALSE, name |-> None, config |-> 0,
               doc |-> None]
IdleRequest == [pc |-> "idle", kind |-> None, name |-> None, doc |-> None,
                suggested |-> None]
IdleSave == [pc |-> "idle", todo |-> {}, name |-> None]

WorkerPCs == {"idle", "mark", "configure", "find", "load", "extract", "store",
              "readBack", "analyze", "moveToError", "markUnreadable",
              "markTechnical"}

RequestPCs == {"idle", "copy", "exists", "dispose", "unlist", "uncache"}

RequestState == [pc : RequestPCs, kind : {"execute", "remove", None},
                 name : Names \cup {None}, doc : Docs \cup {None},
                 suggested : Docs \cup {None}]

(* The fields of a thread, and of an entry, that its state says are set.   *)
FieldsSet ==
    /\ worker.pc # "idle" => worker.name \in Names
    /\ worker.pc = "analyze" => worker.doc \in Docs
    /\ \A r \in Requests : requests[r].pc # "idle" => /\ requests[r].name \in Names
                                                     /\ requests[r].kind # None
    /\ save.pc = "load" => save.name \in Names
    /\ ReadySuggested(register)

TypeOK ==
    /\ inbox \in [Names -> Docs \cup {None}]
    /\ errorFolder \in [Names -> Docs \cup {None}]
    /\ {filed, trash, arrived, discarded, overwritten} \subseteq SUBSET Docs
    /\ cache \in [Stems -> Docs \cup {None}]
    /\ configFile \in Nat /\ config \in Nat
    /\ register \in Registers
    /\ nextId \in Nat
    /\ work \in Seq(Jobs)
    /\ worker \in [pc : WorkerPCs, reuse : BOOLEAN, name : Names \cup {None},
                   config : Nat, doc : Docs \cup {None}]
    /\ phase \in {"down", "listing", "scanning", "pruning", "sweeping", "serving"}
    /\ batch \subseteq Names
    /\ events \in Seq(Names)
    /\ holding \in [Submitters -> Names \cup {None}]
    /\ requests \in [Requests -> RequestState]
    /\ save \in [pc : {"idle", "swap", "list", "check", "load"},
                 todo : SUBSET Names, name : Names \cup {None}]
    /\ crashes \in Nat
    /\ FieldsSet

(* No thread of the process remembers name n: its entry, its events, its   *)
(* jobs and its handlers are gone.  An artifact may be left in the cache.  *)
Forgotten(n) ==
    /\ ~Listed(register, n)
    /\ n \notin batch
    /\ worker.name # n
    /\ save.name # n /\ n \notin save.todo
    /\ \A s \in Submitters : holding[s] # n
    /\ \A r \in Requests : requests[r].name # n
    /\ \A i \in 1..Len(events) : events[i] # n
    /\ \A i \in 1..Len(work) : work[i].name # n
=============================================================================
