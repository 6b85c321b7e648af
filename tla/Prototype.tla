----------------------------- MODULE Prototype ------------------------------
(***************************************************************************)
(* The clickable prototype of the user interface (docs/mvp/ui/design):     *)
(* views, the review of a document, the configuration editor, toasts and   *)
(* timers. An effect of React runs after the event that causes it and      *)
(* before the next one; the model has it as part of that event. Timers of  *)
(* one delay fire in the order of their start, timers of different delays  *)
(* in any order.                                                           *)
(***************************************************************************)
EXTENDS Naming

CONSTANTS
    None,
    Docs,        \* id -> sample document
    Order,       \* the ids, in the order of the queue
    Timers,      \* the one-shot timers of the simulation
    Patterns,    \* pattern -> template
    Existing,    \* folder -> the names it already holds
    Config, Text,      \* the configuration in force at first, and its text
    Folders,     \* the folders that are clicked on
    Days,        \* the dates that are typed
    Senders, Doctypes,  \* the senders and document types that are typed
    TypedText,   \* the configuration texts that are typed
    Dashboard,   \* the tweak "dashboard"
    MaxNotices   \* removals under way and toasts on the screen

ASSUME PrototypeAssumption ==
    /\ {Order[i] : i \in 1..Len(Order)} = DOMAIN Docs
    /\ Timers \in Seq([doc : DOMAIN Docs, status : {"analyse", "bereit"}])
    /\ \A d \in DOMAIN Docs :
           \/ Docs[d].status = "bereit"
           \/ \E i \in 1..Len(Timers) : Timers[i] = [doc |-> d, status |-> "bereit"]
           => "suggestion" \in DOMAIN Docs[d] /\ Docs[d].suggestion # None
    /\ Folders \subseteq DOMAIN Existing
    /\ MaxNotices \in Nat

Ids == DOMAIN Docs
Statuses == {"wartet", "analyse", "bereit", "fehler"}
Views == {"overview", "queue", "review", "config"}

(* What the documents suggest, and the texts that the editor can hold.     *)
Suggestions ==
    {Docs[d].suggestion : d \in {e \in Ids : "suggestion" \in DOMAIN Docs[e]}} \ {None}
AllTexts == TypedText \cup {Text}

(* What a document suggests is there to be chosen.                         *)
ASSUME SampleAssumption ==
    /\ \A d \in Ids : Docs[d].status \in Statuses
    /\ \A s \in Suggestions : /\ s.pre \in DOMAIN s.dates
                             /\ s.recommended \subseteq DOMAIN Existing
                             /\ s.pattern \in DOMAIN Patterns

VARIABLES
    present,     \* the documents that are still listed
    status,
    suggestion,  \* id -> what the review is filled from, or None
    removing,    \* the documents that are on their way out
    timers,      \* the timers of the simulation that have not fired
    closing,     \* the timers that remove what was executed
    view,
    reviewId,
    form,        \* the state of Review, None while it is not mounted
    configText, inForce,
    editor,      \* the state of Config, None while it is not mounted
    toasts       \* oldest first; TRUE once it fades out

docVars == <<present, status, suggestion, removing>>
viewVars == <<view, reviewId, form, editor>>
configVars == <<configText, inForce>>
vars == <<present, status, suggestion, removing, timers, closing, view,
          reviewId, form, configText, inForce, editor, toasts>>

-----------------------------------------------------------------------------
(* Views. A component that is left loses its state.                        *)

Prepared(d) == IF "suggestion" \in DOMAIN Docs[d] THEN Docs[d].suggestion ELSE None

FreshEditor == [value |-> configText, errors |-> {}]

(* Mutation: the fields of a review outlive their view.                    *)
GoKeepingForm(v) ==
    /\ view' = v
    /\ form' = form
    /\ editor' = IF v # "config" THEN None
                 ELSE IF editor = None THEN FreshEditor ELSE editor

Go(v) ==
    /\ view' = v
    /\ form' = None
    /\ editor' = IF v # "config" THEN None
                 ELSE IF editor = None THEN FreshEditor ELSE editor

Navigate(v) ==
    /\ v \in {"overview", "queue", "config"}
    /\ Go(v)
    /\ UNCHANGED <<docVars, timers, closing, reviewId, configVars, toasts>>

(* The first documents of the overview, and all of them in the queue.      *)
Limit == IF Dashboard = "Zweispaltig" THEN 6 ELSE 5

Position(d) == CHOOSE i \in 1..Len(Order) : Order[i] = d

Rows ==
    CASE view = "queue"    -> present
      [] view = "overview" ->
             {d \in present :
                 Cardinality({e \in present : Position(e) < Position(d)}) < Limit}
      [] OTHER             -> {}

FormFor(d) ==
    LET s == suggestion[d]
    IN  [doc |-> d, date |-> s.pre, manual |-> None, sender |-> s.sender,
         doctype |-> s.doctype, pattern |-> s.pattern, sel |-> s.recommended,
         sum |-> FALSE]

(* The button "review" of a row, which a row that is being removed still has. *)
OpenReview(d) ==
    /\ d \in Rows /\ status[d] = "bereit"
    /\ view' = "review" /\ reviewId' = d
    /\ form' = FormFor(d) /\ editor' = None
    /\ UNCHANGED <<docVars, timers, closing, configVars, toasts>>

(* Mutation: nothing watches the document under review.                    *)
SettleNever == UNCHANGED viewVars

(* The effect that leaves the review of a document that is gone.           *)
Settle ==
    IF view = "review" /\ ~(reviewId \in present' /\ status'[reviewId] = "bereit")
    THEN Go("queue") /\ UNCHANGED reviewId
    ELSE UNCHANGED viewVars

-----------------------------------------------------------------------------
(* The simulated analysis.                                                 *)

(* Mutation: the status changes without what belongs to it.                *)
SetStatusOnly(d, s) ==
    /\ status' = [status EXCEPT ![d] = IF d \in present THEN s ELSE @]
    /\ UNCHANGED suggestion

SetStatus(d, s) ==
    /\ status' = [status EXCEPT ![d] = IF d \in present THEN s ELSE @]
    /\ suggestion' = [suggestion EXCEPT ![d] =
           IF d \in present /\ s = "bereit" /\ Prepared(d) # None
           THEN Prepared(d) ELSE @]

TimerFires ==
    /\ timers # <<>>
    /\ SetStatus(Head(timers).doc, Head(timers).status)
    /\ timers' = Tail(timers)
    /\ UNCHANGED <<present, removing>>
    /\ Settle
    /\ UNCHANGED <<closing, configVars, toasts>>

-----------------------------------------------------------------------------
(* The review.                                                             *)

Iso(f) == IF f.date = "manual" THEN f.manual ELSE suggestion[f.doc].dates[f.date]

PartsOf(f) ==
    [date |-> IF Iso(f) = None THEN <<>> ELSE <<Iso(f)>>, sender |-> f.sender,
     doctype |-> f.doctype, description |-> <<>>]

FinalName(f) == ProtoName(Patterns[f.pattern], PartsOf(f))

Conflicts(f) == {x \in f.sel : FinalName(f) \in Existing[x]}

CanConfirm(f) == Iso(f) # None /\ f.sel # {}

(* The fields of the form that have an effect; the summary covers them but *)
(* does not disable them.                                                  *)
EditForm ==
    /\ view = "review"
    /\ \/ \E i \in DOMAIN suggestion[form.doc].dates \cup {"manual"} :
              form' = [form EXCEPT !.date = i]
       \/ /\ form.date = "manual"
          /\ \E day \in Days \cup {None} : form' = [form EXCEPT !.manual = day]
       \/ \E s \in Senders : form' = [form EXCEPT !.sender = s]
       \/ \E s \in Doctypes : form' = [form EXCEPT !.doctype = s]
       \/ \E p \in DOMAIN Patterns : form' = [form EXCEPT !.pattern = p]
       \/ \E x \in Folders : form' = [form EXCEPT !.sel = SymDiff(@, {x})]
    /\ UNCHANGED <<docVars, timers, closing, view, reviewId, editor, configVars,
                   toasts>>

(* Mutation: one timer for all, and a later call replaces it.              *)
ExecuteOneTimer ==
    /\ Len(closing) + Len(toasts) < MaxNotices
    /\ Go("queue")
    /\ removing' = removing \cup {form.doc}
    /\ closing' = <<form.doc>>
    /\ UNCHANGED <<present, status, suggestion, timers, reviewId, configVars, toasts>>

(* Back to the queue; the document is taken from the list a moment later.  *)
Execute ==
    /\ Len(closing) + Len(toasts) < MaxNotices
    /\ Go("queue")
    /\ removing' = removing \cup {form.doc}
    /\ closing' = Append(closing, form.doc)
    /\ UNCHANGED <<present, status, suggestion, timers, reviewId, configVars, toasts>>

Confirm ==
    /\ view = "review" /\ CanConfirm(form)
    /\ IF inForce.summary = "immer" \/ Conflicts(form) # {}
       THEN /\ form' = [form EXCEPT !.sum = TRUE]
            /\ UNCHANGED <<docVars, timers, closing, view, reviewId, editor,
                           configVars, toasts>>
       ELSE Execute

CancelSummary ==
    /\ view = "review" /\ form.sum
    /\ form' = [form EXCEPT !.sum = FALSE]
    /\ UNCHANGED <<docVars, timers, closing, view, reviewId, editor, configVars,
                   toasts>>

(* Mutation: the button of the summary is never disabled.                  *)
ExecuteSummaryAlways ==
    /\ view = "review" /\ form.sum
    /\ Execute

ExecuteSummary ==
    /\ view = "review" /\ form.sum /\ Conflicts(form) = {}
    /\ Execute

ClosingFires ==
    /\ closing # <<>>
    /\ present' = present \ {Head(closing)}
    /\ removing' = removing \ {Head(closing)}
    /\ closing' = Tail(closing)
    /\ toasts' = Append(toasts, FALSE)
    /\ UNCHANGED <<status, suggestion>>
    /\ Settle
    /\ UNCHANGED <<timers, configVars>>

-----------------------------------------------------------------------------
(* Toasts: 3600 ms until they fade, 3950 until they go, or a click.        *)

ToastFades ==
    /\ \E i \in 1..Len(toasts) :
           /\ ~toasts[i] /\ \A j \in 1..(i - 1) : toasts[j]
           /\ toasts' = [toasts EXCEPT ![i] = TRUE]
    /\ UNCHANGED <<docVars, timers, closing, viewVars, configVars>>

ToastGoes ==
    /\ toasts # <<>> /\ Head(toasts)
    /\ toasts' = Tail(toasts)
    /\ UNCHANGED <<docVars, timers, closing, viewVars, configVars>>

DismissToast ==
    /\ \E i \in 1..Len(toasts) : toasts' = RemoveAt(toasts, i)
    /\ UNCHANGED <<docVars, timers, closing, viewVars, configVars>>

-----------------------------------------------------------------------------
(* The configuration.                                                      *)

Modes(text) == [original |-> text.original, summary |-> text.summary]

(* A mode that is missing or unknown is a fault like those of the rest.    *)
Errors(text) ==
    text.faults
    \cup (IF text.original \in {"verschieben", "löschen", "behalten"} THEN {}
          ELSE {"original"})
    \cup (IF text.summary \in {"immer", "bei_konflikt", "nie"} THEN {}
          ELSE {"zusammenfassung"})

(* The modes and the text that the prototype starts with are in step.      *)
ASSUME ConfigAssumption == Errors(Text) = {} /\ Config = Modes(Text)

TypeConfig(text) ==
    /\ view = "config"
    /\ editor' = [value |-> text, errors |-> {}]
    /\ UNCHANGED <<docVars, timers, closing, view, reviewId, form, configVars, toasts>>

DiscardConfig ==
    /\ view = "config" /\ editor.value # configText
    /\ editor' = FreshEditor
    /\ UNCHANGED <<docVars, timers, closing, view, reviewId, form, configVars, toasts>>

(* Mutation: the errors are shown and the text is taken over all the same. *)
SaveConfigAnyway ==
    /\ view = "config" /\ editor.value # configText
    /\ Len(closing) + Len(toasts) < MaxNotices
    /\ configText' = editor.value
    /\ inForce' = Modes(editor.value)
    /\ toasts' = Append(toasts, FALSE)
    /\ editor' = [editor EXCEPT !.errors = Errors(editor.value)]
    /\ UNCHANGED <<docVars, timers, closing, view, reviewId, form>>

SaveConfig ==
    /\ view = "config" /\ editor.value # configText
    /\ IF Errors(editor.value) # {}
       THEN /\ editor' = [editor EXCEPT !.errors = Errors(editor.value)]
            /\ UNCHANGED <<configVars, toasts>>
       ELSE /\ Len(closing) + Len(toasts) < MaxNotices
            /\ configText' = editor.value
            /\ inForce' = Modes(editor.value)
            /\ toasts' = Append(toasts, FALSE)
            /\ editor' = [value |-> editor.value, errors |-> {}]
    /\ UNCHANGED <<docVars, timers, closing, view, reviewId, form>>

-----------------------------------------------------------------------------
Init ==
    /\ present = Ids
    /\ status = [d \in Ids |-> Docs[d].status]
    /\ suggestion = [d \in Ids |->
                        IF Docs[d].status = "bereit" THEN Docs[d].suggestion ELSE None]
    /\ removing = {} /\ timers = Timers /\ closing = <<>>
    /\ view = "overview" /\ reviewId = None /\ form = None /\ editor = None
    /\ configText = Text /\ inForce = Config
    /\ toasts = <<>>

User ==
    \/ \E v \in Views : Navigate(v)
    \/ \E d \in Ids : OpenReview(d)
    \/ EditForm \/ Confirm \/ CancelSummary \/ ExecuteSummary
    \/ \E text \in TypedText : TypeConfig(text)
    \/ DiscardConfig \/ SaveConfig
    \/ DismissToast

Clock == TimerFires \/ ClosingFires \/ ToastFades \/ ToastGoes

Next == User \/ Clock

Spec == Init /\ [][Next]_vars

(* A timer that is started fires; what a user does need not happen.        *)
Fairness ==
    /\ WF_vars(TimerFires) /\ WF_vars(ClosingFires)
    /\ WF_vars(ToastFades) /\ WF_vars(ToastGoes)

FairSpec == Spec /\ Fairness

-----------------------------------------------------------------------------
(* Properties.                                                             *)

(* The states of Review and of Config, and the dates that can be chosen.   *)
Forms ==
    [doc : Ids, date : {"manual"} \cup UNION {DOMAIN s.dates : s \in Suggestions},
     manual : Days \cup {None}, sender : Senders \cup {s.sender : s \in Suggestions},
     doctype : Doctypes \cup {s.doctype : s \in Suggestions}, pattern : DOMAIN Patterns,
     sel : SUBSET DOMAIN Existing, sum : BOOLEAN]

Editors == [value : AllTexts, errors : {{}} \cup {Errors(t) : t \in AllTexts}]

ASSUME NoneAssumption == None \notin Forms /\ None \notin Editors

(* Every variable has its type.  The state of Review and of Config is      *)
(* there just while its view is; a chosen date is one of the document's    *)
(* own; what is on its way out is still listed (app.jsx, review.jsx).      *)
TypeOK ==
    /\ present \subseteq Ids /\ removing \subseteq present
    /\ status \in [Ids -> Statuses]
    /\ closing \in Seq(Ids) /\ toasts \in Seq(BOOLEAN)
    /\ Len(closing) + Len(toasts) <= MaxNotices
    /\ view \in Views /\ configText \in AllTexts
    /\ (view = "review") <=> (form # None)
    /\ (view = "config") <=> (editor # None)
    /\ form # None => /\ form \in Forms
                     /\ form.date \in DOMAIN suggestion[form.doc].dates \cup {"manual"}
    /\ editor # None => editor \in Editors

(* The review is that of a document which is listed and ready, and its     *)
(* form was filled from that document (app.jsx openReview, effect).        *)
ReviewFits ==
    view = "review" => /\ reviewId \in present /\ status[reviewId] = "bereit"
                       /\ form.doc = reviewId

(* A document can be reviewed only once its suggestion is there; the       *)
(* review reads it without looking (app.jsx setStatus).                    *)
ReadyHasSuggestion ==
    \A d \in present : status[d] = "bereit" => suggestion[d] = Prepared(d)
                                               /\ suggestion[d] # None

(* The modes in force are those of the saved text, which has no errors,    *)
(* and the errors on the screen are those of the text beside them          *)
(* (config.jsx save, app.jsx saveConfig).                                  *)
InForceIsSaved ==
    /\ Errors(configText) = {} /\ inForce = Modes(configText)
    /\ editor # None /\ editor.errors # {} => editor.errors = Errors(editor.value)

(* Nothing is filed onto an existing name, and with "immer" nothing is     *)
(* filed past the summary, whatever is changed behind it (review.jsx       *)
(* onBestaetigen, Summary).                                                *)
ExecutesWithoutConflict ==
    [][Len(closing') > Len(closing) =>
           /\ Conflicts(form) = {}
           /\ inForce.summary = "immer" => form.sum]_vars

(* What is on its way out goes, also if it was opened or executed once     *)
(* more before it went (app.jsx execute).                                  *)
RemovedGoes == \A d \in Ids : d \in removing ~> d \notin present
=============================================================================
