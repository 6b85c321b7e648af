------------------------------- MODULE Upload -------------------------------
(***************************************************************************)
(* Uploads from the browser: the pump of each open page (static/app.js)    *)
(* and the handler of POST /upload (web/routes.py).                        *)
(*                                                                         *)
(* The handler is a coroutine.  The event loop runs one coroutine at a     *)
(* time, until it awaits something that is not there yet: reading a body   *)
(* that was small enough to be kept in memory does not suspend it, reading *)
(* a large one does.  Everything else in the watchfolder (users, the       *)
(* worker, other handlers) runs beside the loop.                           *)
(***************************************************************************)
EXTENDS Naturals, Sequences

CONSTANTS
    Uploads,        \* the uploads; each also stands for the file it sends
    Pages, PageOf,  \* the open pages, and the page that sends each upload
    Names, Wanted,  \* PDF names in the watchfolder, and the name of each upload
    Candidates,     \* "x.pdf", "x (1).pdf", ... for each name, in this order
    Large,          \* the uploads that make the handler wait while reading
    Fragile,        \* the uploads whose connection may break
    ByHand,         \* files that come into the watchfolder by other ways
    MaxCrashes,     \* bound: number of times the process dies
    None

Files == Uploads \cup ByHand

ASSUME UploadAssumption ==
    /\ PageOf \in [Uploads -> Pages] /\ Wanted \in [Uploads -> Names]
    /\ Candidates \in [Names -> Seq(Names)]
    /\ {Large, Fragile} \subseteq SUBSET Uploads
    /\ Uploads \cap ByHand = {}
    /\ MaxCrashes \in Nat
    /\ None \notin Files \cup Names

VARIABLES
    inbox,          \* the file under each name in the watchfolder, or None
    parts,          \* the uploads with a temporary .part file
    whole,          \* the uploads that are written to disk completely
    pages,          \* in the browser: the uploads each page has still to send
    lost,           \* in the browser: the uploads whose connection broke
    uploads,        \* how far each upload is, and the name chosen for it
    loop,           \* the upload whose handler the event loop is running
    crashes,
    \* History, for the properties.
    came,           \* the files of ByHand that have come
    present,        \* the files that were there when an upload's name was chosen
    overwritten     \* the files that an upload replaced

browser == <<pages, lost>>
history == <<came, present, overwritten>>
vars == <<inbox, parts, whole, browser, uploads, loop, crashes, history>>

Ended == {"stored", "refused", "failed"}

(* The server has it, and has not answered yet.                            *)
Sent(u) == uploads[u].pc \notin {"offered", "queued"} \cup Ended

(* The page waits for an answer.                                           *)
Busy(p) == \E u \in Uploads \ lost : PageOf[u] = p /\ Sent(u)

Init ==
    /\ inbox = [n \in Names |-> None]
    /\ parts = {} /\ whole = {}
    /\ pages = [p \in Pages |-> <<>>] /\ lost = {}
    /\ uploads = [u \in Uploads |-> [pc |-> "offered", target |-> None]]
    /\ loop = None /\ crashes = 0
    /\ came = {} /\ present = [u \in Uploads |-> {}] /\ overwritten = {}

-----------------------------------------------------------------------------
(* The browser.                                                            *)

(* enqueue: the user drops files on the page.                              *)
Offer(u) ==
    /\ uploads[u].pc = "offered"
    /\ uploads' = [uploads EXCEPT ![u].pc = "queued"]
    /\ pages' = [pages EXCEPT ![PageOf[u]] = Append(@, u)]
    /\ UNCHANGED <<inbox, parts, whole, lost, loop, crashes, history>>

(* Mutation: a page sends all its files at once.                           *)
PumpAll(p) ==
    /\ pages[p] # <<>>
    /\ uploads' = [uploads EXCEPT ![Head(pages[p])].pc = "sent"]
    /\ pages' = [pages EXCEPT ![p] = Tail(@)]
    /\ UNCHANGED <<inbox, parts, whole, lost, loop, crashes, history>>

(* Mutation: an error leaves the page busy.                                *)
PumpUntilError(p) ==
    /\ ~Busy(p)
    /\ \A u \in Uploads : PageOf[u] = p => uploads[u].pc # "failed"
    /\ pages[p] # <<>>
    /\ uploads' = [uploads EXCEPT ![Head(pages[p])].pc = "sent"]
    /\ pages' = [pages EXCEPT ![p] = Tail(@)]
    /\ UNCHANGED <<inbox, parts, whole, lost, loop, crashes, history>>

(* pump: one request at a time; an answer and an error let the next one go. *)
Pump(p) ==
    /\ ~Busy(p)
    /\ pages[p] # <<>>
    /\ uploads' = [uploads EXCEPT ![Head(pages[p])].pc = "sent"]
    /\ pages' = [pages EXCEPT ![p] = Tail(@)]
    /\ UNCHANGED <<inbox, parts, whole, lost, loop, crashes, history>>

(* xhr.onerror: the connection breaks, the handler goes on.                *)
LoseConnection(u) ==
    /\ u \in Fragile \ lost
    /\ Sent(u)
    /\ lost' = lost \cup {u}
    /\ UNCHANGED <<inbox, parts, whole, pages, uploads, loop, crashes, history>>

-----------------------------------------------------------------------------
(* The handler.                                                            *)

(* The event loop runs the handler of u, and goes on with it if the        *)
(* handler does not have to wait.                                          *)
Runs(u, goesOn) ==
    /\ loop \in {None, u}
    /\ loop' = IF goesOn THEN u ELSE None

(* Suffix and first bytes are those of a PDF ...                           *)
CheckPdf(u) ==
    /\ uploads[u].pc = "sent"
    /\ Runs(u, u \notin Large)
    /\ uploads' = [uploads EXCEPT ![u].pc = "choose"]
    /\ UNCHANGED <<inbox, parts, whole, browser, crashes, history>>

(* ... or the answer is 400.                                               *)
Refuse(u) ==
    /\ uploads[u].pc = "sent"
    /\ Runs(u, FALSE)
    /\ uploads' = [uploads EXCEPT ![u].pc = "refused"]
    /\ UNCHANGED <<inbox, parts, whole, browser, crashes, history>>

(* Mutation: the first numbered name is not looked for.                    *)
FreeNameOrSecond(names) == {IF inbox[names[1]] = None THEN names[1] ELSE names[2]}

(* _unique_pdf_name: the first candidate that does not exist.  The calls   *)
(* of exists() are one step here.                                          *)
FreeName(names) ==
    {names[i] : i \in {k \in 1..Len(names) :
        inbox[names[k]] = None /\ \A j \in 1..(k - 1) : inbox[names[j]] # None}}

(* The name is chosen, the temporary file created, the first read begun.   *)
ChooseName(u) ==
    /\ uploads[u].pc = "choose"
    /\ Runs(u, u \notin Large)
    /\ \E n \in FreeName(Candidates[Wanted[u]]) :
           uploads' = [uploads EXCEPT ![u] = [pc |-> "write", target |-> n]]
    /\ parts' = parts \cup {u}
    /\ present' = [present EXCEPT ![u] = {inbox[n] : n \in Names} \ {None}]
    /\ UNCHANGED <<inbox, whole, browser, crashes, came, overwritten>>

(* The last chunk is written.                                              *)
Write(u) ==
    /\ uploads[u].pc = "write"
    /\ Runs(u, TRUE)
    /\ whole' = whole \cup {u}
    /\ uploads' = [uploads EXCEPT ![u].pc = "replace"]
    /\ UNCHANGED <<inbox, parts, browser, crashes, history>>

(* Mutation: the file is moved before the rest of it is written.           *)
ReplaceEarly(u) ==
    LET n == uploads[u].target IN
    /\ uploads[u].pc \in {"write", "replace"}
    /\ Runs(u, FALSE)
    /\ overwritten' = overwritten \cup ({inbox[n]} \ {None})
    /\ inbox' = [inbox EXCEPT ![n] = u]
    /\ parts' = parts \ {u}
    /\ uploads' = [uploads EXCEPT ![u].pc = "stored"]
    /\ UNCHANGED <<whole, browser, crashes, came, present>>

(* os.replace moves the temporary file to the chosen name, whatever is     *)
(* there by now.                                                           *)
Replace(u) ==
    LET n == uploads[u].target IN
    /\ uploads[u].pc = "replace"
    /\ Runs(u, FALSE)
    /\ overwritten' = overwritten \cup ({inbox[n]} \ {None})
    /\ inbox' = [inbox EXCEPT ![n] = u]
    /\ parts' = parts \ {u}
    /\ uploads' = [uploads EXCEPT ![u].pc = "stored"]
    /\ UNCHANGED <<whole, browser, crashes, came, present>>

(* Mutation: the temporary file stays.                                     *)
WriteFailsLeaving(u) ==
    /\ uploads[u].pc \in {"choose", "write", "replace"}
    /\ Runs(u, FALSE)
    /\ uploads' = [uploads EXCEPT ![u].pc = "failed"]
    /\ UNCHANGED <<inbox, parts, whole, browser, crashes, history>>

(* An OSError of mkstemp, which nobody catches, of a write or of the       *)
(* replacement, which remove the temporary file: the answer is 500.        *)
WriteFails(u) ==
    /\ uploads[u].pc \in {"choose", "write", "replace"}
    /\ Runs(u, FALSE)
    /\ parts' = parts \ {u}
    /\ uploads' = [uploads EXCEPT ![u].pc = "failed"]
    /\ UNCHANGED <<inbox, whole, browser, crashes, history>>

Handler(u) ==
    \/ CheckPdf(u) \/ Refuse(u) \/ ChooseName(u)
    \/ Write(u) \/ Replace(u) \/ WriteFails(u)

-----------------------------------------------------------------------------
(* Everything else.                                                        *)

(* A file comes into the watchfolder by hand, under a free name.           *)
Arrive(f, n) ==
    /\ f \in ByHand \ came
    /\ inbox[n] = None
    /\ inbox' = [inbox EXCEPT ![n] = f]
    /\ came' = came \cup {f}
    /\ UNCHANGED <<parts, whole, browser, uploads, loop, crashes, present,
                   overwritten>>

(* A file leaves it: filed, removed, or moved to error/.                   *)
Leave(n) ==
    /\ inbox[n] # None
    /\ inbox' = [inbox EXCEPT ![n] = None]
    /\ UNCHANGED <<parts, whole, browser, uploads, loop, crashes, history>>

(* The process dies and is started again: its requests fail in the browser *)
(* and their temporary files stay.                                         *)
Crash ==
    /\ crashes < MaxCrashes
    /\ crashes' = crashes + 1
    /\ uploads' = [u \in Uploads |-> IF Sent(u) THEN [uploads[u] EXCEPT !.pc = "failed"]
                                     ELSE uploads[u]]
    /\ loop' = None
    /\ UNCHANGED <<inbox, parts, whole, browser, history>>

Next ==
    \/ \E u \in Uploads : Offer(u) \/ LoseConnection(u) \/ Handler(u)
    \/ \E p \in Pages : Pump(p)
    \/ \E f \in ByHand, n \in Names : Arrive(f, n)
    \/ \E n \in Names : Leave(n)
    \/ Crash

Spec == Init /\ [][Next]_vars

(* Pages send and handlers go on; uploads need not be offered.             *)
Fairness ==
    /\ \A u \in Uploads : WF_vars(Handler(u))
    /\ \A p \in Pages : WF_vars(Pump(p))

FairSpec == Spec /\ Fairness

-----------------------------------------------------------------------------
TypeOK ==
    /\ inbox \in [Names -> Files \cup {None}]
    /\ {parts, whole, lost} \subseteq SUBSET Uploads
    /\ pages \in [Pages -> Seq(Uploads)]
    /\ uploads \in [Uploads -> [pc : {"offered", "queued", "sent", "choose", "write",
                                    "replace"} \cup Ended,
                               target : Names \cup {None}]]
    /\ \A u \in Uploads : uploads[u].pc \in {"write", "replace"}
                          => uploads[u].target \in Names
    /\ loop \in Uploads \cup {None}
    /\ crashes \in Nat
    /\ came \subseteq ByHand /\ overwritten \subseteq Files
    /\ present \in [Uploads -> SUBSET Files]

(* A PDF that the watcher can see is complete, although the body arrives   *)
(* in pieces, writes fail and the process dies (routes.py upload).         *)
NoHalfFile == \A n \in Names : inbox[n] \in Uploads => inbox[n] \in whole

(* An upload that has ended, however it ended, leaves no temporary file,   *)
(* unless the process died (routes.py upload, the except branch).          *)
PartsSwept == crashes = 0 => \A u \in parts : Sent(u)

(* No file is replaced that was there when the upload chose its name       *)
(* (routes.py _unique_pdf_name).                                           *)
OverwritesOnlyNewer ==
    [][\A n \in Names, u \in Uploads :
           inbox'[n] = u /\ inbox[n] \notin {u, None} => inbox[n] \notin present[u]]_vars

(* The files of one page never replace each other, since the page sends    *)
(* them one by one, unless it lost track of one (app.js pump).             *)
SamePageSafe ==
    [][\A n \in Names, u, v \in Uploads :
           inbox[n] = u /\ inbox'[n] = v /\ u # v
           => PageOf[u] # PageOf[v] \/ {u, v} \cap lost # {}]_vars

(* Every file that was dropped on a page is dealt with, whatever happened  *)
(* to the ones before it (app.js pump).                                    *)
AllSent == \A u \in Uploads : uploads[u].pc = "queued" ~> uploads[u].pc \in Ended

(* An upload never overwrites an existing inbox file.                      *)
NeverOverwritten == overwritten = {}

=============================================================================
