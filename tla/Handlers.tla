------------------------------ MODULE Handlers ------------------------------
(***************************************************************************)
(* The request handlers that change the state of the process               *)
(* (web/routes.py with processor.py, cache.py and config.py): execute a    *)
(* confirmed filing, remove a document, save the configuration.  FastAPI   *)
(* runs them on a thread pool, so each step may meet any step of another   *)
(* handler, of the worker or of the observer.                              *)
(*                                                                         *)
(* Filing is one step per disk operation here, with one target folder; the *)
(* copies, conflicts and names of several targets are the subject of       *)
(* module Filing.                                                          *)
(***************************************************************************)
EXTENDS System

(* What a step that only concerns the handlers leaves alone.               *)
elsewhere == <<documents, cache, settings, listing, work, worker, intake, crashes>>

NameOf(r) == requests[r].name

(* Handler r is at pc and moves on to next; a finished handler is idle.    *)
Advance(r, pc, next) ==
    /\ requests[r].pc = pc
    /\ requests' = [requests EXCEPT ![r] =
                        IF next = "idle" THEN IdleRequest
                        ELSE [requests[r] EXCEPT !.pc = next]]

(* get_by_id, once per request: the entry it returns is used to the end.   *)
(* Filing asks for a ready entry, removal for any.  doc and suggested are  *)
(* what the user decided about.                                            *)
Lookup(r, n, kind) ==
    /\ phase = "serving"
    /\ requests[r].pc = "idle"
    /\ Listed(register, n)
    /\ kind = "execute" => HasStatus(register, n, "ready")
    /\ requests' = [requests EXCEPT ![r] =
           [pc |-> IF kind = "execute" THEN "copy" ELSE "exists",
            kind |-> kind, name |-> n, doc |-> inbox[n],
            suggested |-> IF kind = "execute" THEN register[n].suggestion.doc
                          ELSE None]]
    /\ UNCHANGED <<elsewhere, save>>

(* process() copies the file that has the entry's path now.                *)
Copy(r) ==
    /\ requests[r].pc = "copy"
    /\ inbox[NameOf(r)] # None
    /\ Advance(r, "copy", "dispose")
    /\ filed' = filed \cup {inbox[NameOf(r)]}
    /\ UNCHANGED <<inbox, errorFolder, trash, arrived, discarded, overwritten,
                   cache, settings, listing, work, worker, intake, save, crashes>>

(* Mutation: a failed copy does not end the request.                       *)
CopyRefusedIgnored(r) ==
    /\ Advance(r, "copy", "dispose")
    /\ UNCHANGED <<elsewhere, save>>

(* A conflict, a missing target, a missing source or an OSError of the     *)
(* copy ends the request and leaves the entry as it is.                    *)
CopyRefused(r) ==
    /\ Advance(r, "copy", "idle")
    /\ UNCHANGED <<elsewhere, save>>

(* processor.remove tolerates a file that is already gone.                 *)
CheckSource(r) ==
    /\ requests[r].pc = "exists"
    /\ Advance(r, "exists", IF inbox[NameOf(r)] = None THEN "unlist" ELSE "dispose")
    /\ UNCHANGED <<elsewhere, save>>

(* Mutation: the settings are taken the wrong way round.                   *)
ModeSwapped(r) == IF requests[r].kind = "execute" THEN WhenRemoved ELSE WhenFiled

Mode(r) == IF requests[r].kind = "execute" THEN WhenFiled ELSE WhenRemoved

(* Mutation: the trash keeps one file per name.                            *)
IntoTrashOver(d) == {d}

(* _unique_name never gives a name that the trash already has.             *)
IntoTrash(d) == trash \cup {d}

(* _dispose gets rid of the file that has the entry's path now.            *)
Dispose(r) ==
    LET n == NameOf(r) IN
    /\ requests[r].pc = "dispose"
    /\ inbox[n] # None
    /\ Advance(r, "dispose", "unlist")
    /\ inbox' = [inbox EXCEPT ![n] = None]
    /\ trash' = IF Mode(r) = "trash" THEN IntoTrash(inbox[n]) ELSE trash
    /\ discarded' = IF /\ Mode(r) = "delete"
                       /\ requests[r].kind = "remove"
                       /\ requests[r].doc = inbox[n]
                    THEN discarded \cup {inbox[n]} ELSE discarded
    /\ UNCHANGED <<errorFolder, filed, arrived, overwritten, cache, settings,
                   listing, work, worker, intake, save, crashes>>

(* The file is gone: unlink does not mind, shutil.move raises and the      *)
(* request ends with status 500 and the entry still listed.                *)
DisposeMissing(r) ==
    /\ requests[r].pc = "dispose"
    /\ inbox[NameOf(r)] = None
    /\ Advance(r, "dispose", IF Mode(r) = "delete" THEN "unlist" ELSE "idle")
    /\ UNCHANGED <<elsewhere, save>>

(* Neither could be done to a file that is there: an OSError and status    *)
(* 500; the copy, the original and the entry stay.                         *)
DisposeFails(r) ==
    /\ requests[r].pc = "dispose"
    /\ inbox[NameOf(r)] # None
    /\ Advance(r, "dispose", "idle")
    /\ UNCHANGED <<elsewhere, save>>

(* queue.remove is by path: whatever entry has the path now goes.          *)
Unlist(r) ==
    /\ requests[r].pc = "unlist"
    /\ Advance(r, "unlist", "uncache")
    /\ register' = Remove(register, NameOf(r))
    /\ UNCHANGED <<documents, cache, settings, nextId, work, worker, intake,
                   save, crashes>>

Uncache(r) ==
    /\ requests[r].pc = "uncache"
    /\ Advance(r, "uncache", "idle")
    /\ cache' = [cache EXCEPT ![StemOf[NameOf(r)]] = None]
    /\ UNCHANGED <<documents, settings, listing, work, worker, intake, save,
                   crashes>>

RequestStep(r) ==
    \/ Copy(r) \/ CopyRefused(r) \/ CheckSource(r)
    \/ Dispose(r) \/ DisposeMissing(r) \/ DisposeFails(r) \/ Unlist(r) \/ Uncache(r)

-----------------------------------------------------------------------------
(* POST /config.  Text that does not validate, and a failed write, change  *)
(* nothing; otherwise the file is replaced atomically ...                  *)
SaveFile ==
    /\ phase = "serving"
    /\ save.pc = "idle"
    /\ configFile < MaxConfig
    /\ configFile' = configFile + 1
    /\ save' = [save EXCEPT !.pc = "swap"]
    /\ UNCHANGED <<documents, cache, config, listing, work, worker, intake,
                   requests, crashes>>

(* ... the process switches to it ...                                      *)
SwapConfig ==
    /\ save.pc = "swap"
    /\ config' = configFile
    /\ save' = [save EXCEPT !.pc = "list"]
    /\ UNCHANGED <<documents, cache, configFile, listing, work, worker, intake,
                   requests, crashes>>

(* ... and reanalyze_all goes through the entries listed now (in the order *)
(* of registration; any order is allowed here).                            *)
ListEntries ==
    /\ save.pc = "list"
    /\ save' = [pc |-> "check", name |-> None,
                todo |-> {n \in Names : Listed(register, n)}]
    /\ UNCHANGED <<elsewhere, requests>>

(* load_document: exists() ...                                             *)
CheckArtifact(n) ==
    /\ save.pc = "check"
    /\ n \in save.todo
    /\ save' = IF cache[StemOf[n]] = None
               THEN [save EXCEPT !.todo = @ \ {n}]
               ELSE [pc |-> "load", todo |-> save.todo \ {n}, name |-> n]
    /\ UNCHANGED <<elsewhere, requests>>

(* ... then read_text(); the artifact itself is not used.                  *)
PutReanalysis ==
    /\ save.pc = "load"
    /\ cache[StemOf[save.name]] \notin Garbled \cup {None}
    /\ work' = Enqueue(work, "reanalyze", save.name)
    /\ save' = [save EXCEPT !.pc = "check", !.name = None]
    /\ UNCHANGED <<documents, cache, settings, listing, worker, intake, requests,
                   crashes>>

(* The artifact was deleted in between, or does not parse: the request     *)
(* fails, and the entries that were still to come are not queued.          *)
ReanalysisAborted ==
    /\ save.pc = "load"
    /\ cache[StemOf[save.name]] \in Garbled \cup {None}
    /\ save' = IdleSave
    /\ UNCHANGED <<elsewhere, requests>>

SaveDone ==
    /\ save.pc = "check"
    /\ save.todo = {}
    /\ save' = IdleSave
    /\ UNCHANGED <<elsewhere, requests>>

SaveStep ==
    \/ SwapConfig \/ ListEntries \/ (\E n \in Names : CheckArtifact(n))
    \/ PutReanalysis \/ ReanalysisAborted \/ SaveDone
=============================================================================
