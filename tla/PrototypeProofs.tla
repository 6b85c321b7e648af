-------------------------- MODULE PrototypeProofs --------------------------
(* What holds of the prototype for every sample of documents and settings. *)
EXTENDS Prototype, TLAPS

USE DEF docVars, viewVars, configVars

-----------------------------------------------------------------------------
(* Part 1: the review is that of a listed, ready document.                 *)

FormFields == {"doc", "date", "manual", "sender", "doctype", "pattern", "sel", "sum"}

ReviewInv == view = "review" => DOMAIN form = FormFields /\ ReviewFits

(* Leaving the review.                                                     *)
LEMMA GoFits == ASSUME NEW v \in Views \ {"review"}, Go(v) PROVE ReviewInv'
BY DEF Go, ReviewInv

(* Timers change the list; the effect keeps the review in step with it.    *)
LEMMA SettleFits == ASSUME ReviewInv, Settle PROVE ReviewInv'
<1>1. CASE view = "review" /\ ~(reviewId \in present' /\ status'[reviewId] = "bereit")
  BY <1>1, GoFits DEF Settle, Views
<1>2. CASE ~(view = "review" /\ ~(reviewId \in present' /\ status'[reviewId] = "bereit"))
  BY <1>2 DEF Settle, ReviewInv, ReviewFits
<1> QED BY <1>1, <1>2

LEMMA ReviewInvStep == ReviewInv /\ [Next]_vars => ReviewInv'
<1> SUFFICES ASSUME ReviewInv, [Next]_vars PROVE ReviewInv'
    OBVIOUS
<1>1. ASSUME UNCHANGED <<docVars, view, reviewId, form>> PROVE ReviewInv'
  BY <1>1 DEF ReviewInv, ReviewFits
<1>2. ASSUME NEW v \in Views, Navigate(v) PROVE ReviewInv'
  BY <1>2, GoFits DEF Navigate, Views
<1>3. ASSUME NEW d \in Ids, OpenReview(d) PROVE ReviewInv'
  <2>1. d \in present /\ status[d] = "bereit" /\ UNCHANGED <<present, status>>
    BY <1>3 DEF OpenReview, Rows
  <2>2. reviewId' = d /\ form' = FormFor(d)
    BY <1>3 DEF OpenReview
  <2> QED BY <2>1, <2>2 DEF ReviewInv, ReviewFits, FormFor, FormFields
<1>4. CASE EditForm
  <2>1. view = "review" /\ UNCHANGED <<docVars, view, reviewId>>
    BY <1>4 DEF EditForm
  <2>2. DOMAIN form = FormFields /\ ReviewFits
    BY <2>1 DEF ReviewInv
  <2>3. DOMAIN form' = FormFields /\ form'.doc = form.doc
    BY <1>4, <2>2 DEF EditForm, FormFields
  <2> QED BY <2>1, <2>2, <2>3 DEF ReviewInv, ReviewFits
<1>5. CASE Execute
  BY <1>5, GoFits DEF Execute, Views
<1>6. CASE Confirm \/ CancelSummary \/ ExecuteSummary
  <2>1. CASE Execute
    BY <1>5, <2>1
  <2>2. CASE ~Execute
    <3>1. /\ view = "review" /\ UNCHANGED <<docVars, view, reviewId>>
          /\ form' \in {[form EXCEPT !.sum = TRUE], [form EXCEPT !.sum = FALSE]}
      BY <1>6, <2>2 DEF Confirm, CancelSummary, ExecuteSummary
    <3>2. DOMAIN form = FormFields /\ ReviewFits
      BY <3>1 DEF ReviewInv
    <3>3. DOMAIN form' = FormFields /\ form'.doc = form.doc
      BY <3>1, <3>2 DEF FormFields
    <3> QED BY <3>1, <3>2, <3>3 DEF ReviewInv, ReviewFits
  <2> QED BY <2>1, <2>2
<1>7. CASE (\E text \in TypedText : TypeConfig(text)) \/ DiscardConfig \/ SaveConfig
  BY <1>1, <1>7 DEF TypeConfig, DiscardConfig, SaveConfig
<1>8. CASE DismissToast \/ ToastFades \/ ToastGoes \/ UNCHANGED vars
  BY <1>1, <1>8 DEF DismissToast, ToastFades, ToastGoes, vars
<1>9. CASE TimerFires \/ ClosingFires
  BY <1>9, SettleFits DEF TimerFires, ClosingFires
<1> QED BY <1>2, <1>3, <1>4, <1>6, <1>7, <1>8, <1>9 DEF Next, User, Clock

(* Whatever is clicked and whenever timers fire: no review is on the       *)
(* screen of a document that is not listed or not ready, and none holds    *)
(* the fields of another document.                                         *)
THEOREM ReviewIsOfAReadyDocument == Spec => []ReviewFits
<1>1. Init => ReviewInv
  BY DEF Init, ReviewInv
<1>2. ReviewInv => ReviewFits
  BY DEF ReviewInv, ReviewFits
<1> QED BY <1>1, <1>2, ReviewInvStep, PTL DEF Spec

-----------------------------------------------------------------------------
(* Part 2: only a text without errors is in force.                         *)

EditorFits ==
    \/ editor = None /\ view # "config"
    \/ /\ DOMAIN editor = {"value", "errors"}
       /\ editor.errors # {} => editor.errors = Errors(editor.value)

ConfigInv == InForceIsSaved /\ EditorFits

LEMMA GoEdits == ASSUME EditorFits, NEW v, Go(v) PROVE EditorFits'
<1>1. /\ DOMAIN FreshEditor = {"value", "errors"} /\ FreshEditor.errors = {}
  BY DEF FreshEditor
<1> QED BY <1>1 DEF Go, EditorFits

LEMMA ConfigInvStep == ConfigInv /\ [Next]_vars => ConfigInv'
<1> SUFFICES ASSUME ConfigInv, [Next]_vars PROVE ConfigInv'
    OBVIOUS
<1>0. ASSUME EditorFits', Errors(configText)' = {}, inForce' = Modes(configText)'
      PROVE  ConfigInv'
  BY <1>0 DEF ConfigInv, EditorFits, InForceIsSaved
<1>1. Errors(configText) = {} /\ inForce = Modes(configText) /\ EditorFits
  BY DEF ConfigInv, InForceIsSaved
<1>2. ASSUME UNCHANGED configVars, EditorFits' PROVE ConfigInv'
  BY <1>0, <1>1, <1>2 DEF ConfigInv, InForceIsSaved
<1>3. ASSUME UNCHANGED configVars, \E v : Go(v) PROVE ConfigInv'
  BY <1>1, <1>2, <1>3, GoEdits
<1>4. ASSUME UNCHANGED <<configVars, view, editor>> PROVE ConfigInv'
  BY <1>1, <1>2, <1>4 DEF EditorFits
<1>5. ASSUME NEW v \in Views, Navigate(v) PROVE ConfigInv'
  BY <1>3, <1>5 DEF Navigate
<1>6. ASSUME NEW d \in Ids, OpenReview(d) PROVE ConfigInv'
  BY <1>2, <1>6 DEF OpenReview, EditorFits
<1>7. CASE EditForm \/ CancelSummary
  BY <1>4, <1>7 DEF EditForm, CancelSummary
<1>8. CASE Confirm \/ ExecuteSummary
  BY <1>3, <1>4, <1>8 DEF Confirm, ExecuteSummary, Execute
<1>9. ASSUME NEW text \in TypedText, TypeConfig(text) PROVE ConfigInv'
  <2>1. editor' = [value |-> text, errors |-> {}] /\ UNCHANGED configVars
    BY <1>9 DEF TypeConfig
  <2> QED BY <1>2, <2>1 DEF EditorFits
<1>10. CASE DiscardConfig
  BY <1>2, <1>10 DEF DiscardConfig, FreshEditor, EditorFits
<1>11. CASE SaveConfig
  <2>1. DOMAIN editor = {"value", "errors"}
    BY <1>1, <1>11 DEF SaveConfig, EditorFits
  <2>2. CASE Errors(editor.value) # {}
    <3>1. editor' = [editor EXCEPT !.errors = Errors(editor.value)] /\ UNCHANGED configVars
      BY <1>11, <2>2 DEF SaveConfig
    <3>2. DOMAIN editor' = {"value", "errors"} /\ editor'.value = editor.value
          /\ editor'.errors = Errors(editor.value)
      BY <2>1, <3>1
    <3>3. EditorFits'
      BY <3>2 DEF EditorFits
    <3> QED BY <1>2, <3>1, <3>3
  <2>3. CASE Errors(editor.value) = {}
    <3>1. /\ configText' = editor.value /\ inForce' = Modes(editor.value)
          /\ editor' = [value |-> editor.value, errors |-> {}]
      BY <1>11, <2>3 DEF SaveConfig
    <3>2. EditorFits'
      BY <3>1 DEF EditorFits
    <3>3. Errors(configText)' = {} /\ Modes(configText)' = inForce'
      BY <2>3, <3>1
    <3> QED BY <1>0, <3>2, <3>3
  <2> QED BY <2>2, <2>3
<1>12. CASE DismissToast \/ ToastFades \/ ToastGoes \/ UNCHANGED vars
  BY <1>4, <1>12 DEF DismissToast, ToastFades, ToastGoes, vars
<1>13. CASE TimerFires \/ ClosingFires
  BY <1>3, <1>4, <1>13 DEF TimerFires, ClosingFires, Settle
<1> QED BY <1>5, <1>6, <1>7, <1>8, <1>9, <1>10, <1>11, <1>12, <1>13
        DEF Next, User, Clock

(* Whatever is typed, saved, discarded or left unsaved: the modes in force *)
(* are those of a text without errors, and the errors on the screen are    *)
(* those of the text beside them.                                          *)
THEOREM OnlyValidConfigInForce == Spec => []InForceIsSaved
<1>1. Init => ConfigInv
  BY ConfigAssumption DEF Init, ConfigInv, InForceIsSaved, EditorFits
<1>2. ConfigInv => InForceIsSaved
  BY DEF ConfigInv
<1> QED BY <1>1, <1>2, ConfigInvStep, PTL DEF Spec

-----------------------------------------------------------------------------
(* Part 3: what the review needs is there once it can be opened.           *)

Ticks == [doc : Ids, status : {"analyse", "bereit"}]

(* The timers that are left prepare what they make ready.                  *)
TimersFit ==
    /\ timers \in Seq(Ticks)
    /\ \A i \in 1..Len(timers) :
           timers[i].status = "bereit" => Prepared(timers[i].doc) # None

ListInv ==
    /\ present \subseteq Ids
    /\ status = [d \in Ids |-> status[d]] /\ suggestion = [d \in Ids |-> suggestion[d]]
    /\ TimersFit
    /\ ReadyHasSuggestion

LEMMA TickFits == ASSUME ListInv, TimerFires PROVE ListInv'
<1> DEFINE tick == Head(timers)
<1>1. /\ timers # <<>> /\ timers' = Tail(timers) /\ present' = present
      /\ SetStatus(tick.doc, tick.status)
  BY DEF TimerFires
<1>2. tick \in Ticks /\ tick = timers[1] /\ 1 \in 1..Len(timers)
  BY <1>1 DEF ListInv, TimersFit
<1>3. tick.status = "bereit" => Prepared(tick.doc) # None
  BY <1>2 DEF ListInv, TimersFit
<1>4. TimersFit'
  <2>1. timers' \in Seq(Ticks) /\ Len(timers') = Len(timers) - 1
    BY <1>1 DEF ListInv, TimersFit
  <2>2. \A i \in 1..Len(timers') : timers'[i] = timers[i + 1] /\ i + 1 \in 1..Len(timers)
    BY <1>1, <2>1 DEF ListInv, TimersFit
  <2>3. \A i \in 1..Len(timers') :
           timers'[i].status = "bereit" => Prepared(timers'[i].doc) # None
    BY <2>2 DEF ListInv, TimersFit
  <2> QED BY <2>1, <2>3 DEF TimersFit
<1>5. /\ status' = [status EXCEPT ![tick.doc] =
                        IF tick.doc \in present THEN tick.status ELSE @]
      /\ suggestion' = [suggestion EXCEPT ![tick.doc] =
             IF tick.doc \in present /\ tick.status = "bereit"
                /\ Prepared(tick.doc) # None
             THEN Prepared(tick.doc) ELSE @]
  BY <1>1 DEF SetStatus
<1>6. tick.doc \in Ids
  BY <1>2 DEF Ticks
<1> HIDE DEF tick
<1>7. /\ status' = [d \in Ids |-> status'[d]] /\ suggestion' = [d \in Ids |-> suggestion'[d]]
  BY <1>5 DEF ListInv
<1>8. ASSUME NEW d \in present, status'[d] = "bereit"
      PROVE  suggestion'[d] = Prepared(d) /\ suggestion'[d] # None
  <2>1. d \in Ids
    BY DEF ListInv
  <2>2. CASE d = tick.doc
    <3>1. tick.status = "bereit"
      BY <1>5, <1>8, <2>1, <2>2 DEF ListInv
    <3>2. suggestion'[d] = Prepared(d)
      BY <1>3, <1>5, <2>1, <2>2, <3>1 DEF ListInv
    <3> QED BY <1>3, <2>2, <3>1, <3>2
  <2>3. CASE d # tick.doc
    <3>1. status'[d] = status[d] /\ suggestion'[d] = suggestion[d]
      BY <1>5, <2>1, <2>3 DEF ListInv
    <3> QED BY <1>8, <3>1 DEF ListInv, ReadyHasSuggestion
  <2> QED BY <2>2, <2>3
<1>9. ReadyHasSuggestion'
  BY <1>1, <1>8 DEF ReadyHasSuggestion, Prepared
<1> QED BY <1>1, <1>4, <1>7, <1>9 DEF ListInv

LEMMA ListInvStep == ListInv /\ [Next]_vars => ListInv'
<1> SUFFICES ASSUME ListInv, [Next]_vars PROVE ListInv'
    OBVIOUS
<1>1. ASSUME UNCHANGED <<status, suggestion, timers>>, present' \subseteq present
      PROVE  ListInv'
  BY <1>1 DEF ListInv, TimersFit, ReadyHasSuggestion, Prepared
<1>2. CASE TimerFires
  BY <1>2, TickFits
<1>3. CASE ClosingFires
  BY <1>1, <1>3 DEF ClosingFires
<1>4. CASE User
  BY <1>1, <1>4 DEF User, Navigate, OpenReview, EditForm, Confirm, CancelSummary,
      ExecuteSummary, Execute, TypeConfig, DiscardConfig, SaveConfig, DismissToast
<1>5. CASE ToastFades \/ ToastGoes \/ UNCHANGED vars
  BY <1>1, <1>5 DEF ToastFades, ToastGoes, vars
<1> QED BY <1>2, <1>3, <1>4, <1>5 DEF Next, Clock

LEMMA ListInvariant == Spec => []ListInv
<1>1. Init => ListInv
  <2> SUFFICES ASSUME Init PROVE ListInv
      OBVIOUS
  <2>1. /\ present = Ids /\ timers = Timers
        /\ status = [d \in Ids |-> Docs[d].status]
        /\ suggestion = [d \in Ids |->
                 IF Docs[d].status = "bereit" THEN Docs[d].suggestion ELSE None]
    BY DEF Init
  <2>2. ASSUME NEW d \in Ids,
               \/ Docs[d].status = "bereit"
               \/ \E i \in 1..Len(Timers) : Timers[i] = [doc |-> d, status |-> "bereit"]
        PROVE  Prepared(d) = Docs[d].suggestion /\ Prepared(d) # None
    BY <2>2, PrototypeAssumption DEF Ids, Prepared
  <2>3. timers \in Seq(Ticks)
    BY <2>1, PrototypeAssumption DEF Ticks, Ids
  <2>4. ASSUME NEW i \in 1..Len(timers), timers[i].status = "bereit"
        PROVE  Prepared(timers[i].doc) # None
    <3>1. timers[i] \in Ticks
      BY <2>3, <2>4
    <3>2. timers[i].doc \in Ids
          /\ timers[i] = [doc |-> timers[i].doc, status |-> "bereit"]
      BY <2>4, <3>1 DEF Ticks
    <3> QED BY <2>1, <2>2, <3>2
  <2>5. ReadyHasSuggestion
    BY <2>1, <2>2 DEF ReadyHasSuggestion
  <2> QED BY <2>1, <2>3, <2>4, <2>5 DEF ListInv, TimersFit
<1> QED BY <1>1, ListInvStep, PTL DEF Spec

(* Whatever is sampled, and whenever its timers fire: a document that can  *)
(* be opened has the suggestion its review is filled from.                 *)
THEOREM ReadyDocumentsAreSuggested == Spec => []ReadyHasSuggestion
<1>1. ListInv => ReadyHasSuggestion
  BY DEF ListInv
<1> QED BY <1>1, ListInvariant, PTL

-----------------------------------------------------------------------------
(* Part 4: nothing is filed onto a name.                                   *)

Queued == closing \in Seq(Ids)

ClosingInv == ReviewInv /\ ListInv /\ Queued

LEMMA ExecuteQueues ==
    ASSUME ClosingInv, view = "review", Execute PROVE closing' \in Seq(Ids)
<1>1. form.doc \in Ids
  BY DEF ClosingInv, ReviewInv, ReviewFits, ListInv
<1> QED BY <1>1 DEF Execute, ClosingInv, Queued

LEMMA ClosingStep ==
    ASSUME ClosingInv, [Next]_vars
    PROVE  /\ closing' \in Seq(Ids)
           /\ Len(closing') > Len(closing)
                => Conflicts(form) = {} /\ (inForce.summary = "immer" => form.sum)
<1> DEFINE Filed == Conflicts(form) = {} /\ (inForce.summary = "immer" => form.sum)
<1>1. closing \in Seq(Ids)
  BY DEF ClosingInv, Queued
<1> HIDE DEF Filed
<1>2. CASE closing' = closing
  BY <1>1, <1>2
<1>3. CASE ClosingFires
  <2>1. closing # <<>> /\ closing' = Tail(closing)
    BY <1>3 DEF ClosingFires
  <2>2. closing' \in Seq(Ids) /\ Len(closing') = Len(closing) - 1
    BY <1>1, <2>1
  <2>3. Len(closing) \in Nat
    BY <1>1
  <2> QED BY <2>2, <2>3
<1>4. CASE Confirm
  <2>1. CASE inForce.summary = "immer" \/ Conflicts(form) # {}
    BY <1>2, <1>4, <2>1 DEF Confirm
  <2>2. CASE ~(inForce.summary = "immer" \/ Conflicts(form) # {})
    <3>1. view = "review" /\ Execute
      BY <1>4, <2>2 DEF Confirm
    <3> QED BY <2>2, <3>1, ExecuteQueues DEF Filed
  <2> QED BY <2>1, <2>2
<1>5. CASE ExecuteSummary
  BY <1>5, ExecuteQueues DEF ExecuteSummary, Filed
<1>6. CASE UNCHANGED closing
  BY <1>2, <1>6
<1>7. Confirm \/ ExecuteSummary \/ ClosingFires \/ UNCHANGED closing
  BY DEF Next, User, Clock, Navigate, OpenReview, EditForm, CancelSummary, TypeConfig,
      DiscardConfig, SaveConfig, DismissToast, TimerFires, ToastFades, ToastGoes, vars
<1> QED BY <1>3, <1>4, <1>5, <1>6, <1>7

(* Whatever is edited behind the summary, and whenever the configuration   *)
(* is saved: nothing is filed onto a name its folder holds, and nothing    *)
(* past a summary that is always to be shown.                              *)
THEOREM NothingFiledOntoAName == Spec => ExecutesWithoutConflict
<1>1. Init => Queued
  BY DEF Init, Queued
<1>2. Init => ReviewInv
  BY DEF Init, ReviewInv
<1>3. ReviewInv /\ ListInv /\ Queued /\ [Next]_vars => Queued'
  BY ClosingStep DEF ClosingInv, Queued
<1>4. ReviewInv /\ ListInv /\ Queued /\ [Next]_vars
      => [Len(closing') > Len(closing) =>
             /\ Conflicts(form) = {}
             /\ inForce.summary = "immer" => form.sum]_vars
  BY ClosingStep DEF ClosingInv
<1> QED BY <1>1, <1>2, <1>3, <1>4, ReviewInvStep, ListInvariant, PTL
        DEF Spec, ExecutesWithoutConflict

-----------------------------------------------------------------------------
(* Part 5: types.                                                          *)

OwnDate(f) == f.date \in DOMAIN Prepared(f.doc).dates \cup {"manual"}

(* The component of a view has its state, and no other component has one.  *)
StateFits ==
    /\ view \in Views /\ configText \in AllTexts
    /\ IF view = "review" THEN form \in Forms /\ OwnDate(form) ELSE form = None
    /\ IF view = "config" THEN editor \in Editors ELSE editor = None

LEMMA GoState ==
    ASSUME StateFits, NEW v \in Views \ {"review"}, Go(v), UNCHANGED configText
    PROVE  StateFits'
<1>1. FreshEditor \in Editors
  BY DEF FreshEditor, Editors, StateFits
<1>2. view' = v /\ form' = None /\ editor' = (IF v # "config" THEN None
                 ELSE IF editor = None THEN FreshEditor ELSE editor)
  BY DEF Go
<1>3. v # "config" => editor' = None
  BY <1>2
<1>4. v = "config" => editor' \in Editors
  <2>1. editor = None \/ editor \in Editors
    BY DEF StateFits
  <2> QED BY <1>1, <1>2, <2>1
<1> QED BY <1>2, <1>3, <1>4 DEF StateFits

LEMMA SettleState ==
    ASSUME StateFits, Settle, UNCHANGED configText PROVE StateFits'
<1>1. (Go("queue") /\ "queue" \in Views \ {"review"}) \/ UNCHANGED viewVars
  BY DEF Settle, Views
<1> QED BY <1>1, GoState DEF StateFits

LEMMA PreparedIsSuggested ==
    ASSUME NEW d \in Ids, Prepared(d) # None PROVE Prepared(d) \in Suggestions
BY DEF Prepared, Suggestions

LEMMA FormForFits ==
    ASSUME ListInv, NEW d \in present, status[d] = "bereit"
    PROVE  FormFor(d) \in Forms /\ OwnDate(FormFor(d))
<1> DEFINE s == suggestion[d]
<1>1. d \in Ids /\ s = Prepared(d) /\ s \in Suggestions
  BY PreparedIsSuggested DEF ListInv, ReadyHasSuggestion
<1>2. FormFor(d) = [doc |-> d, date |-> s.pre, manual |-> None, sender |-> s.sender,
                    doctype |-> s.doctype, pattern |-> s.pattern,
                    sel |-> s.recommended, sum |-> FALSE]
  BY DEF FormFor
<1> HIDE DEF s
<1>3. /\ s.pre \in DOMAIN s.dates /\ s.recommended \subseteq DOMAIN Existing
      /\ s.pattern \in DOMAIN Patterns
  BY <1>1, SampleAssumption
<1>4. s.pre \in UNION {DOMAIN t.dates : t \in Suggestions}
  BY <1>1, <1>3
<1>5. FormFor(d) \in Forms
  BY <1>1, <1>2, <1>3, <1>4 DEF Forms
<1> QED BY <1>1, <1>2, <1>3, <1>5 DEF OwnDate

(* Whatever is edited in the form, it stays a form of its document.        *)
LEMMA EditFormFits ==
    ASSUME ReviewInv, ListInv, StateFits, EditForm
    PROVE  form' \in Forms /\ OwnDate(form')
<1>1. /\ form \in Forms /\ OwnDate(form)
      /\ form.doc \in Ids /\ suggestion[form.doc] = Prepared(form.doc)
      /\ Prepared(form.doc) \in Suggestions
  <2>1. view = "review"
    BY DEF EditForm
  <2>2. form.doc \in present /\ status[form.doc] = "bereit"
    BY <2>1 DEF ReviewInv, ReviewFits
  <2> QED BY <2>1, <2>2, PreparedIsSuggested
          DEF StateFits, ListInv, ReadyHasSuggestion
<1> USE DEF Forms
<1>2. ASSUME NEW i \in DOMAIN suggestion[form.doc].dates \cup {"manual"},
             form' = [form EXCEPT !.date = i]
      PROVE  form' \in Forms /\ OwnDate(form')
  <2>1. i \in {"manual"} \cup UNION {DOMAIN s.dates : s \in Suggestions}
    <3>1. DOMAIN suggestion[form.doc].dates \in {DOMAIN s.dates : s \in Suggestions}
      BY <1>1
    <3> QED BY <1>2, <3>1
  <2>2. form' \in Forms /\ form'.date = i /\ form'.doc = form.doc
    BY <1>1, <1>2, <2>1
  <2> QED BY <1>1, <1>2, <2>2 DEF OwnDate
<1>3. ASSUME NEW day \in Days \cup {None}, form' = [form EXCEPT !.manual = day]
      PROVE  form' \in Forms /\ OwnDate(form')
  BY <1>1, <1>3 DEF OwnDate
<1>4. ASSUME NEW s \in Senders, form' = [form EXCEPT !.sender = s]
      PROVE  form' \in Forms /\ OwnDate(form')
  BY <1>1, <1>4 DEF OwnDate
<1>5. ASSUME NEW s \in Doctypes, form' = [form EXCEPT !.doctype = s]
      PROVE  form' \in Forms /\ OwnDate(form')
  BY <1>1, <1>5 DEF OwnDate
<1>6. ASSUME NEW p \in DOMAIN Patterns, form' = [form EXCEPT !.pattern = p]
      PROVE  form' \in Forms /\ OwnDate(form')
  BY <1>1, <1>6 DEF OwnDate
<1>7. ASSUME NEW x \in Folders, form' = [form EXCEPT !.sel = SymDiff(@, {x})]
      PROVE  form' \in Forms /\ OwnDate(form')
  <2> DEFINE sel == SymDiff(form.sel, {x})
  <2>1. sel \in SUBSET DOMAIN Existing
    BY <1>1, PrototypeAssumption DEF SymDiff
  <2>2. form' = [form EXCEPT !.sel = sel]
    BY <1>7
  <2> HIDE DEF sel
  <2> QED BY <1>1, <2>1, <2>2 DEF OwnDate
<1> QED BY <1>2, <1>3, <1>4, <1>5, <1>6, <1>7 DEF EditForm

LEMMA StateStep == ReviewInv /\ ListInv /\ StateFits /\ [Next]_vars => StateFits'
<1> SUFFICES ASSUME ReviewInv, ListInv, StateFits, [Next]_vars PROVE StateFits'
    OBVIOUS
<1>1. ASSUME UNCHANGED <<viewVars, configText>> PROVE StateFits'
  BY <1>1 DEF StateFits
<1>2. ASSUME NEW v \in Views, Navigate(v) PROVE StateFits'
  BY <1>2, GoState DEF Navigate, Views
<1>3. ASSUME NEW d \in Ids, OpenReview(d) PROVE StateFits'
  <2>1. d \in present /\ status[d] = "bereit"
    BY <1>3 DEF OpenReview, Rows
  <2> QED BY <1>3, <2>1, FormForFits DEF OpenReview, StateFits, Views
<1>4. CASE EditForm
  BY <1>4, EditFormFits DEF EditForm, StateFits
<1>5. CASE Execute
  BY <1>5, GoState DEF Execute, Views
<1>6. CASE Confirm \/ CancelSummary \/ ExecuteSummary
  <2>1. CASE Execute
    BY <1>5, <2>1
  <2>2. CASE ~Execute
    <3>1. /\ view = "review" /\ UNCHANGED <<view, editor, configText>>
          /\ form' \in {[form EXCEPT !.sum = TRUE], [form EXCEPT !.sum = FALSE]}
      BY <1>6, <2>2 DEF Confirm, CancelSummary, ExecuteSummary
    <3>2. form' \in Forms /\ form'.date = form.date /\ form'.doc = form.doc
      BY <3>1 DEF StateFits, Forms
    <3> QED BY <3>1, <3>2 DEF StateFits, OwnDate
  <2> QED BY <2>1, <2>2
<1>7. ASSUME NEW text \in TypedText, TypeConfig(text) PROVE StateFits'
  BY <1>7 DEF TypeConfig, StateFits, Editors, AllTexts
<1>8. CASE DiscardConfig
  BY <1>8 DEF DiscardConfig, FreshEditor, StateFits, Editors
<1>9. CASE SaveConfig
  <2>1. editor \in Editors /\ view = "config" /\ UNCHANGED <<view, form>>
    BY <1>9 DEF SaveConfig, StateFits
  <2>2. editor.value \in AllTexts
    BY <2>1 DEF Editors
  <2>3. CASE Errors(editor.value) # {}
    BY <1>9, <2>1, <2>2, <2>3 DEF SaveConfig, StateFits, Editors
  <2>4. CASE Errors(editor.value) = {}
    BY <1>9, <2>1, <2>2, <2>4 DEF SaveConfig, StateFits, Editors
  <2> QED BY <2>3, <2>4
<1>10. CASE DismissToast \/ ToastFades \/ ToastGoes \/ UNCHANGED vars
  BY <1>1, <1>10 DEF DismissToast, ToastFades, ToastGoes, vars
<1>11. CASE TimerFires \/ ClosingFires
  BY <1>11, SettleState DEF TimerFires, ClosingFires
<1> QED BY <1>2, <1>3, <1>4, <1>6, <1>7, <1>8, <1>9, <1>10, <1>11
        DEF Next, User, Clock

(* What is on its way out is listed until its timer fires, and timers and  *)
(* toasts are together no more than the bound.                             *)
NoticesFit ==
    /\ removing \subseteq present
    /\ status \in [Ids -> Statuses]
    /\ toasts \in Seq(BOOLEAN)
    /\ Len(closing) + Len(toasts) <= MaxNotices

LEMMA NoticesStay ==
    ASSUME NoticesFit, UNCHANGED <<removing, present, status, closing, toasts>>
    PROVE  NoticesFit'
BY DEF NoticesFit

(* What the operations on sequences keep, of elements of any kind.         *)
LEMMA AppendKeeps ==
    ASSUME NEW S, NEW s \in Seq(S), NEW e \in S
    PROVE  Append(s, e) \in Seq(S) /\ Len(Append(s, e)) = Len(s) + 1
OBVIOUS

LEMMA TailKeeps ==
    ASSUME NEW S, NEW s \in Seq(S), s # <<>>
    PROVE  Tail(s) \in Seq(S) /\ Len(Tail(s)) = Len(s) - 1
OBVIOUS

LEMMA ExceptKeeps ==
    ASSUME NEW S, NEW s \in Seq(S), NEW i \in 1..Len(s), NEW e \in S,
           NEW t, t = [s EXCEPT ![i] = e]
    PROVE  t \in Seq(S) /\ Len(t) = Len(s)
OBVIOUS

LEMMA RemoveAtKeeps ==
    ASSUME NEW S, NEW s \in Seq(S), NEW i \in 1..Len(s)
    PROVE  RemoveAt(s, i) \in Seq(S) /\ Len(RemoveAt(s, i)) = Len(s) - 1
<1> DEFINE before == SubSeq(s, 1, i - 1)
           after == SubSeq(s, i + 1, Len(s))
<1>1. /\ before \in Seq(S) /\ Len(before) = i - 1
      /\ after \in Seq(S) /\ Len(after) = Len(s) - i
  OBVIOUS
<1>2. RemoveAt(s, i) = before \o after
  BY DEF RemoveAt
<1> HIDE DEF before, after
<1>3. before \o after \in Seq(S) /\ Len(before \o after) = Len(before) + Len(after)
  BY <1>1
<1> QED BY <1>1, <1>2, <1>3

LEMMA ToastsStep ==
    ASSUME Queued, NoticesFit, DismissToast \/ ToastFades \/ ToastGoes
    PROVE  NoticesFit'
<1>1. toasts' \in Seq(BOOLEAN) /\ Len(toasts') \in {Len(toasts), Len(toasts) - 1}
  <2> DEFINE B == BOOLEAN
             faded == TRUE
  <2>0. toasts \in Seq(B) /\ faded \in B
    BY DEF NoticesFit
  <2> HIDE DEF B, faded
  <2>1. CASE ToastFades
    <3>1. PICK i \in 1..Len(toasts) : toasts' = [toasts EXCEPT ![i] = faded]
      BY <2>1 DEF ToastFades, faded
    <3>2. toasts' \in Seq(B) /\ Len(toasts') = Len(toasts)
      BY <2>0, <3>1, ExceptKeeps
    <3> QED BY <3>2 DEF B
  <2>2. CASE ToastGoes
    <3>1. toasts # <<>> /\ toasts' = Tail(toasts)
      BY <2>2 DEF ToastGoes
    <3>2. toasts' \in Seq(B) /\ Len(toasts') = Len(toasts) - 1
      BY <2>0, <3>1, TailKeeps, Zenon
    <3> QED BY <3>2 DEF B
  <2>3. CASE DismissToast
    <3>1. PICK i \in 1..Len(toasts) : toasts' = RemoveAt(toasts, i)
      BY <2>3 DEF DismissToast
    <3>2. toasts' \in Seq(B) /\ Len(toasts') = Len(toasts) - 1
      BY <2>0, <3>1, RemoveAtKeeps, Zenon
    <3> QED BY <3>2 DEF B
  <2> QED BY <2>1, <2>2, <2>3
<1>2. UNCHANGED <<removing, present, status, closing>>
  BY DEF DismissToast, ToastFades, ToastGoes
<1>3. Len(closing) \in Nat /\ Len(toasts) \in Nat /\ Len(toasts') \in Nat
  BY <1>1 DEF Queued, NoticesFit
<1> QED BY <1>1, <1>2, <1>3, PrototypeAssumption DEF NoticesFit

LEMMA ExecuteNotices ==
    ASSUME ClosingInv, NoticesFit, view = "review", Execute PROVE NoticesFit'
<1>1. form.doc \in present
  BY DEF ClosingInv, ReviewInv, ReviewFits
<1>2. closing \in Seq(Ids) /\ form.doc \in Ids
  BY <1>1 DEF ClosingInv, Queued, ListInv
<1>3. Len(closing') = Len(closing) + 1
  BY <1>2 DEF Execute
<1>4. Len(closing) \in Nat /\ Len(toasts) \in Nat
  BY <1>2 DEF NoticesFit
<1> QED BY <1>1, <1>3, <1>4, PrototypeAssumption DEF Execute, NoticesFit

LEMMA NoticesStep == ClosingInv /\ NoticesFit /\ [Next]_vars => NoticesFit'
<1> SUFFICES ASSUME ClosingInv, NoticesFit, [Next]_vars PROVE NoticesFit'
    OBVIOUS
<1>1. closing \in Seq(Ids) /\ toasts \in Seq(BOOLEAN)
      /\ Len(closing) \in Nat /\ Len(toasts) \in Nat
  BY DEF ClosingInv, Queued, NoticesFit
<1>2. CASE Confirm \/ ExecuteSummary
  <2>1. view = "review"
    BY <1>2 DEF Confirm, ExecuteSummary
  <2>2. CASE Execute
    BY <2>1, <2>2, ExecuteNotices
  <2>3. CASE ~Execute
    BY <1>2, <2>3, NoticesStay DEF Confirm, ExecuteSummary
  <2> QED BY <2>2, <2>3
<1>3. CASE SaveConfig
  <2>1. UNCHANGED <<removing, present, status, closing>>
    BY <1>3 DEF SaveConfig
  <2>2. toasts' = toasts \/ (toasts' = Append(toasts, FALSE)
                            /\ Len(closing) + Len(toasts) < MaxNotices)
    BY <1>3 DEF SaveConfig
  <2>3. CASE toasts' = toasts
    BY <2>1, <2>3, NoticesStay
  <2>4. CASE toasts' # toasts
    <3>1. toasts' \in Seq(BOOLEAN) /\ Len(toasts') = Len(toasts) + 1
      <4>1. toasts' = Append(toasts, FALSE) /\ FALSE \in BOOLEAN
        BY <2>2, <2>4
      <4> QED BY <1>1, <4>1, AppendKeeps, Zenon
    <3>2. Len(closing') + Len(toasts') <= MaxNotices
      <4>1. Len(closing) + Len(toasts) < MaxNotices /\ closing' = closing
        BY <2>1, <2>2, <2>4
      <4>2. Len(closing) \in Nat /\ Len(toasts) \in Nat /\ Len(toasts') = Len(toasts) + 1
        BY <1>1, <3>1
      <4> QED BY <4>1, <4>2, PrototypeAssumption
    <3> QED BY <2>1, <3>1, <3>2 DEF NoticesFit
  <2> QED BY <2>3, <2>4
<1>4. CASE ClosingFires
  <2>1. /\ closing # <<>> /\ closing' = Tail(closing) /\ toasts' = Append(toasts, FALSE)
        /\ present' = present \ {Head(closing)} /\ removing' = removing \ {Head(closing)}
        /\ status' = status
    BY <1>4 DEF ClosingFires
  <2>2. Len(closing') = Len(closing) - 1
    BY <1>1, <2>1
  <2>3. toasts' \in Seq(BOOLEAN) /\ Len(toasts') = Len(toasts) + 1
    BY <1>1, <2>1
  <2> QED BY <1>1, <2>1, <2>2, <2>3, PrototypeAssumption DEF NoticesFit
<1>5. CASE TimerFires
  <2>1. Head(timers) \in Ticks
    BY <1>5 DEF TimerFires, ClosingInv, ListInv, TimersFit
  <2>2. status' \in [Ids -> Statuses]
    BY <1>5, <2>1 DEF TimerFires, SetStatus, NoticesFit, Ticks, Statuses
  <2> QED BY <1>5, <2>2 DEF TimerFires, NoticesFit
<1>6. CASE DismissToast \/ ToastFades \/ ToastGoes
  BY <1>6, ToastsStep DEF ClosingInv
<1>7. CASE (\E v \in Views : Navigate(v)) \/ (\E d \in Ids : OpenReview(d)) \/ EditForm
           \/ CancelSummary \/ (\E text \in TypedText : TypeConfig(text))
           \/ DiscardConfig \/ UNCHANGED vars
  BY <1>7, NoticesStay DEF Navigate, OpenReview, EditForm, CancelSummary, TypeConfig,
      DiscardConfig, vars
<1> QED BY <1>2, <1>3, <1>4, <1>5, <1>6, <1>7 DEF Next, User, Clock

(* All that is known of a state of the prototype.                          *)
AllInv == ReviewInv /\ ListInv /\ Queued /\ StateFits /\ NoticesFit

LEMMA AllInvariant == Spec => []AllInv
<1>1. Init => ReviewInv /\ Queued /\ StateFits
  BY DEF Init, ReviewInv, Queued, StateFits, Views, AllTexts
<1>2. Init => NoticesFit
  BY PrototypeAssumption, SampleAssumption DEF Init, NoticesFit
<1>3. AllInv /\ ListInv' /\ [Next]_vars => AllInv'
  BY ReviewInvStep, StateStep, NoticesStep, ClosingStep
  DEF AllInv, ClosingInv, Queued
<1>4. AllInv <=> ReviewInv /\ ListInv /\ Queued /\ StateFits /\ NoticesFit
  BY DEF AllInv
<1> QED BY <1>1, <1>2, <1>3, <1>4, ListInvariant, PTL DEF Spec

(* Every variable has its type, for any sample: the review and the editor  *)
(* have a state just while they are on the screen, a chosen date is one    *)
(* that the document under review suggests or the manual one, and what is  *)
(* on its way out is still listed.                                         *)
THEOREM PrototypeTypes == Spec => []TypeOK
<1>1. AllInv => TypeOK
  <2> SUFFICES ASSUME AllInv PROVE TypeOK
      OBVIOUS
  <2> USE DEF AllInv
  <2>1. /\ present \subseteq Ids /\ removing \subseteq present
        /\ status \in [Ids -> Statuses] /\ closing \in Seq(Ids) /\ toasts \in Seq(BOOLEAN)
        /\ Len(closing) + Len(toasts) <= MaxNotices
    BY DEF ListInv, Queued, NoticesFit
  <2>2. /\ view \in Views /\ configText \in AllTexts
        /\ (view = "review") <=> (form # None)
        /\ (view = "config") <=> (editor # None)
        /\ editor # None => editor \in Editors
        /\ form # None => form \in Forms /\ OwnDate(form)
    BY NoneAssumption DEF StateFits
  <2>3. form # None => suggestion[form.doc] = Prepared(form.doc)
    BY <2>2 DEF ReviewInv, ReviewFits, ListInv, ReadyHasSuggestion
  <2> QED BY <2>1, <2>2, <2>3 DEF TypeOK, OwnDate
<1> QED BY <1>1, AllInvariant, PTL
=============================================================================
