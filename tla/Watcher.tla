------------------------------ MODULE Watcher -------------------------------
(***************************************************************************)
(* How documents get into the register: the initial scan and the watchdog  *)
(* observer (watcher.py), both through Worker.submit, and the start-up of  *)
(* the process around them (main.py, lifespan).                            *)
(***************************************************************************)
EXTENDS System

(* The user, a scanner or an upload puts a new PDF into the watchfolder.   *)
(* The observer is told only while it runs.  A file is put under a free    *)
(* name; a PDF replaced in place raises no event that the watcher handles. *)
Drop(n, d) ==
    /\ inbox[n] = None
    /\ d \notin arrived
    /\ FreshNames => Forgotten(n)
    /\ inbox' = [inbox EXCEPT ![n] = d]
    /\ arrived' = arrived \cup {d}
    /\ events' = IF Observing THEN Append(events, n) ELSE events
    /\ UNCHANGED <<errorFolder, filed, trash, discarded, overwritten, cache,
                   settings, listing, work, worker, phase, batch, holding,
                   handlers, crashes>>

(* lifespan up to the start of the observer: the configuration is loaded,  *)
(* the register is empty, the worker waits for its first job.              *)
Start ==
    /\ phase = "down"
    /\ phase' = "listing"
    /\ config' = configFile
    /\ UNCHANGED <<documents, cache, configFile, listing, work, worker, batch,
                   events, holding, handlers, crashes>>

(* scan_folder lists the whole directory before it yields the first path.  *)
(* It yields in sorted order; any order is allowed here.                   *)
ScanList ==
    /\ phase = "listing"
    /\ phase' = "scanning"
    /\ batch' = {n \in Names : inbox[n] # None}
    /\ UNCHANGED <<documents, cache, settings, listing, work, worker, events,
                   holding, handlers, crashes>>

(* Mutation: submit ignores what add returns.                              *)
SubmitAlways(s, n) ==
    /\ register' = Add(register, n, nextId)
    /\ nextId' = IF Listed(register, n) THEN nextId ELSE nextId + 1
    /\ holding' = [holding EXCEPT ![s] = n]

(* The first half of Worker.submit, by submitter s.                        *)
SubmitAdd(s, n) ==
    /\ register' = Add(register, n, nextId)
    /\ nextId' = IF Listed(register, n) THEN nextId ELSE nextId + 1
    /\ holding' = [holding EXCEPT ![s] = IF Listed(register, n) THEN None ELSE n]

(* The scan submits the names that are still files.                        *)
ScanSubmit(n) ==
    /\ phase = "scanning"
    /\ holding["scan"] = None
    /\ n \in batch
    /\ batch' = batch \ {n}
    /\ IF inbox[n] = None
       THEN UNCHANGED <<listing, holding>>
       ELSE SubmitAdd("scan", n)
    /\ UNCHANGED <<documents, cache, settings, work, worker, phase, events,
                   handlers, crashes>>

ScanDone ==
    /\ phase = "scanning"
    /\ batch = {} /\ holding["scan"] = None
    /\ phase' = "pruning"
    /\ UNCHANGED <<documents, cache, settings, listing, work, worker, batch,
                   events, holding, handlers, crashes>>

(* The observer thread delivers one created or moved event.                *)
ObserverSubmit ==
    /\ holding["observer"] = None
    /\ events # <<>>
    /\ events' = Tail(events)
    /\ SubmitAdd("observer", Head(events))
    /\ UNCHANGED <<documents, cache, settings, work, worker, phase, batch,
                   handlers, crashes>>

(* The second half of Worker.submit, only for a path that was new.         *)
SubmitPut(s) ==
    /\ holding[s] # None
    /\ work' = Enqueue(work, "extract", holding[s])
    /\ holding' = [holding EXCEPT ![s] = None]
    /\ UNCHANGED <<documents, cache, settings, listing, worker, phase, batch,
                   events, handlers, crashes>>

(* cache.prune gets the names registered now ...                           *)
PruneList ==
    /\ phase = "pruning"
    /\ phase' = "sweeping"
    /\ batch' = {n \in Names : Listed(register, n)}
    /\ UNCHANGED <<documents, cache, settings, listing, work, worker, events,
                   holding, handlers, crashes>>

(* ... and deletes every artifact of another stem.  From here on requests  *)
(* are served.                                                             *)
PruneSweep ==
    /\ phase = "sweeping"
    /\ phase' = "serving"
    /\ batch' = {}
    /\ cache' = [s \in Stems |-> IF \E n \in batch : StemOf[n] = s
                                 THEN cache[s] ELSE None]
    /\ UNCHANGED <<documents, settings, listing, work, worker, events, holding,
                   handlers, crashes>>

(* The process dies: what was in memory is gone, the files stay.  An orderly*)
(* shutdown ends the same way, as its worker is a daemon thread that is    *)
(* given five seconds.                                                     *)
Crash ==
    /\ phase # "down"
    /\ crashes < MaxCrashes
    /\ crashes' = crashes + 1
    /\ phase' = "down"
    /\ batch' = {}
    /\ events' = <<>>
    /\ holding' = [s \in Submitters |-> None]
    /\ register' = EmptyRegister
    /\ work' = <<>>
    /\ worker' = IdleWorker
    /\ requests' = [r \in Requests |-> IdleRequest]
    /\ save' = IdleSave
    /\ UNCHANGED <<documents, cache, settings, nextId>>

Startup == Start \/ ScanList \/ (\E n \in Names : ScanSubmit(n)) \/ ScanDone
               \/ SubmitPut("scan") \/ PruneList \/ PruneSweep

Observer == ObserverSubmit \/ SubmitPut("observer")
=============================================================================
