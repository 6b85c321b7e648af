----------------------------- MODULE ReviewForm -----------------------------
(***************************************************************************)
(* The review page of one document: the form that app.js keeps, the        *)
(* summary, and the server that renders the name and files the document,   *)
(* while the configuration is saved, files appear in the targets, requests *)
(* fail and answers get lost.                                              *)
(***************************************************************************)
EXTENDS Naming

CONSTANTS
    None,           \* no date, no request, no summary, nothing filed
    Configs,        \* versions of the configuration, oldest first (1..n)
    Template,       \* version -> pattern -> template
    DefaultPattern, \* version -> the pattern a stale form falls back to
    SummaryMode,    \* version -> "always", "on_conflict" or "never"
    Format,         \* version -> date_format
    Written,        \* format -> day -> the day in that format
    Days,           \* the days of this instance
    Found,          \* the days the analyzer found in the document
    Suggested,      \* field -> the text of the suggestion
    Typed,          \* field -> the texts a reviewer may type into it
    SuggestedPattern,
    Targets,        \* version -> target folders
    Recommended,    \* those that the document's rules recommend
    Places,         \* bound: <<target, name>>, where others put files and
                    \* broken filings leave copies
    MaxLate         \* edits while a request or the summary is open

Fields == DOMAIN Suggested
Patterns(c) == DOMAIN Template[c]
AllTargets == UNION {Targets[c] : c \in Configs}
Texts(format, days) == {Written[format][d] : d \in days}

(* The dates that a page can offer, or take from its date input.           *)
PageTexts == Texts("iso", Days) \cup UNION {Texts(Format[c], Found) : c \in Configs}

(* What the text fields can hold.                                          *)
TextValues == [Fields -> UNION {Typed[f] \cup {Suggested[f]} : f \in Fields}]

ASSUME ReviewAssumption ==
    /\ Configs = 1..Max(Configs) /\ 1 \in Configs
    /\ \A c \in Configs : /\ DefaultPattern[c] \in Patterns(c)
                          /\ Format[c] \in DOMAIN Written
                          /\ SummaryMode[c] \in {"always", "on_conflict", "never"}
    /\ "iso" \in DOMAIN Written /\ Found \subseteq Days
    /\ {None, "manual"} \cap PageTexts = {} /\ None # "manual"
    /\ Suggested \in TextValues
    /\ Recommended \subseteq AllTargets
    /\ MaxLate \in Nat

VARIABLES
    config,     \* app.state.config
    analyzed,   \* the configuration the entry's suggestion was made with
    ready,      \* the entry is listed as ready
    existing,   \* files in the targets: <<target, name>>
    filed,      \* what process() has filed, or None
    page,       \* "open", or "left"
    rendered,   \* the configuration the page was rendered with
    offered,    \* the texts of its date candidates
    form,       \* the widgets, see below
    wire,       \* the request under way, or None
    modal,      \* the summary on the screen, or None
    late        \* edits so far while a request or the summary was open

pageVars == <<page, rendered, offered, form>>
serverVars == <<config, analyzed, ready, existing, filed>>
vars == <<config, analyzed, ready, existing, filed, page, rendered, offered,
          form, wire, modal, late>>

-----------------------------------------------------------------------------
(* The form in the browser.                                                *)

(* The fields of the form, all but one widgets or hidden inputs:           *)
(*   kind, selected    input date_kind, data-selected-date                 *)
(*   marked            the highlighted date: its text, "manual", or None   *)
(*   manual            input manual-date, which has no name                *)
(*   dateValue         input date_value: what is posted                    *)
(*   texts, pattern    the text inputs and the select                      *)
(*   checked, on       the hidden checkboxes, the highlighted chips        *)
(*   preview, enabled  the name shown, and the state of the Confirm button *)

CurrentDate(f) == IF f.kind = "manual" THEN f.manual ELSE f.selected

DatePart(text) == IF text = None THEN <<>> ELSE <<text>>

Parts(texts, date) ==
    [date |-> date, sender |-> texts.sender, doctype |-> texts.doctype,
     description |-> texts.description]

(* Mutation: the preview is made before the hidden date is brought up.     *)
RefreshedStale(c, f) ==
    [kind |-> f.kind, selected |-> f.selected, marked |-> f.marked,
     manual |-> f.manual, texts |-> f.texts, pattern |-> f.pattern,
     checked |-> f.checked, on |-> f.on,
     dateValue |-> CurrentDate(f),
     preview |-> BuildName(Template[c][f.pattern],
                           Parts(f.texts, DatePart(f.dateValue))),
     enabled |-> CurrentDate(f) # None /\ f.checked # {}]

(* What every handler ends with, on a page of configuration c: the hidden  *)
(* date, the preview and the Confirm button follow the widgets.            *)
Refreshed(c, f) ==
    LET date == CurrentDate(f)
    IN  [kind |-> f.kind, selected |-> f.selected, marked |-> f.marked,
         manual |-> f.manual, texts |-> f.texts, pattern |-> f.pattern,
         checked |-> f.checked, on |-> f.on,
         dateValue |-> date,
         preview |-> BuildName(Template[c][f.pattern],
                               Parts(f.texts, DatePart(date))),
         enabled |-> date # None /\ f.checked # {}]

(* The chips that are on at first: the suggestion recommends folders of    *)
(* its configuration, and the page shows those of the current one.         *)
Preset(c) == Recommended \cap Targets[analyzed] \cap Targets[c]

(* The page as the template renders it, before the script runs.            *)
Blank(c) ==
    [kind |-> "candidate", selected |-> None, marked |-> None, manual |-> None,
     texts |-> Suggested,
     pattern |-> IF SuggestedPattern \in Patterns(c) THEN SuggestedPattern
                 ELSE CHOOSE p \in Patterns(c) : TRUE,
     checked |-> Preset(c), on |-> Preset(c),
     dateValue |-> None, preview |-> <<>>, enabled |-> FALSE]

Busy == wire # None \/ modal # None

(* A change of the form. Neither a request under way nor the summary,      *)
(* which only covers it, keeps a reviewer from making one.                 *)
Edit(f) ==
    /\ page = "open"
    /\ Busy => late < MaxLate
    /\ late' = IF Busy THEN late + 1 ELSE late
    /\ form' = f
    /\ UNCHANGED <<serverVars, page, rendered, offered, wire, modal>>

ClickDate(text) ==
    Edit(Refreshed(rendered, [form EXCEPT !.marked = text, !.kind = "candidate",
                                !.selected = text]))

(* Mutation: the row is highlighted and date_kind stays as it was.         *)
ClickManualMarked == Edit(Refreshed(rendered, [form EXCEPT !.marked = "manual"]))

ClickManual ==
    Edit(Refreshed(rendered, [form EXCEPT !.marked = "manual", !.kind = "manual"]))

(* Typing does not imply a click: the keyboard reaches the input too.      *)
TypeManual(text) == Edit(Refreshed(rendered, [form EXCEPT !.manual = text]))

(* Mutation: the handler of the chips forgets to refresh.                  *)
ToggleChipQuietly(t) ==
    Edit([form EXCEPT !.checked = SymDiff(@, {t}), !.on = SymDiff(@, {t})])

ToggleChip(t) ==
    LET checked == SymDiff(form.checked, {t})
    IN  Edit(Refreshed(rendered, [form EXCEPT
                 !.checked = checked,
                 !.on = IF t \in checked THEN @ \cup {t} ELSE @ \ {t}]))

TypeText(field, text) == Edit(Refreshed(rendered, [form EXCEPT !.texts =
                                              [@ EXCEPT ![field] = text]]))

ChoosePattern(p) == Edit(Refreshed(rendered, [form EXCEPT !.pattern = p]))

EditNext ==
    \/ \E text \in offered : ClickDate(text)
    \/ ClickManual
    \/ \E text \in Texts("iso", Days) \cup {None} : TypeManual(text)
    \/ \E t \in Targets[rendered] : ToggleChip(t)
    \/ \E field \in Fields : \E text \in Typed[field] : TypeText(field, text)
    \/ \E p \in Patterns(rendered) : ChoosePattern(p)

-----------------------------------------------------------------------------
(* Requests. A request carries the fields of the form that is posted. What *)
(* the reviewer saw is kept for the properties: the name and the folders   *)
(* shown at the click ("shown", "listed"), and the chips that were on at   *)
(* the click on Confirm.                                                   *)

Values(f) == [date |-> f.dateValue, texts |-> f.texts, pattern |-> f.pattern,
              targets |-> f.checked]

(* Mutation: nothing disables the button.                                  *)
ClickConfirmAlways ==
    /\ page = "open" /\ wire = None
    /\ wire' = [kind |-> "confirm", values |-> Values(form),
                shown |-> form.preview, listed |-> form.on, chips |-> form.on,
                config |-> rendered]
    /\ UNCHANGED <<serverVars, pageVars, modal, late>>

ClickConfirm ==
    /\ page = "open" /\ wire = None /\ form.enabled
    /\ wire' = [kind |-> "confirm", values |-> Values(form),
                shown |-> form.preview, listed |-> form.on, chips |-> form.on,
                config |-> rendered]
    /\ UNCHANGED <<serverVars, pageVars, modal, late>>

(* Mutation: the summary posts the form that it covers.                    *)
ClickExecuteForm ==
    /\ page = "open" /\ wire = None /\ modal # None /\ modal.conflicts = {}
    /\ wire' = [kind |-> "execute", values |-> Values(form),
                shown |-> modal.name, listed |-> modal.listed,
                chips |-> modal.chips, config |-> modal.config]
    /\ UNCHANGED <<serverVars, pageVars, modal, late>>

ClickExecute ==
    /\ page = "open" /\ wire = None /\ modal # None /\ modal.conflicts = {}
    /\ wire' = [kind |-> "execute", values |-> modal.values,
                shown |-> modal.name, listed |-> modal.listed,
                chips |-> modal.chips, config |-> modal.config]
    /\ UNCHANGED <<serverVars, pageVars, modal, late>>

ClickCancel ==
    /\ page = "open" /\ modal # None
    /\ modal' = None
    /\ UNCHANGED <<serverVars, pageVars, wire, late>>

-----------------------------------------------------------------------------
(* The server.                                                             *)

ResolveTemplate(c, p) ==
    Template[c][IF p \in Patterns(c) THEN p ELSE DefaultPattern[c]]

(* strptime with the ISO format, else no date; strftime with date_format.  *)
NormalizeDate(text, c) ==
    LET days == {d \in Days : Written["iso"][d] = text}
    IN  IF days = {} THEN <<>>
        ELSE <<Written[Format[c]][CHOOSE d \in days : TRUE]>>

Filename(c, v) ==
    RenderFilename(ResolveTemplate(c, v.pattern),
                   Parts(v.texts, NormalizeDate(v.date, c)))

(* The script and the server name alike, for every pattern and every text  *)
(* and date that a form can hold: no template repeats a placeholder, no    *)
(* text holds one, and every date is an ISO date on the page and in the    *)
(* name.                                                                   *)
NamesAgree ==
    \A c \in Configs : \A p \in Patterns(c) :
        \A texts \in TextValues, date \in PageTexts \cup {None} :
            BuildName(Template[c][p], Parts(texts, DatePart(date)))
                = RenderFilename(Template[c][p], Parts(texts, NormalizeDate(date, c)))

(* A name holds the date that is put into it: every template has a place   *)
(* for it.                                                                 *)
NamesHoldDate ==
    \A c \in Configs : \A p \in Patterns(c) : \A texts \in TextValues, d \in Days :
        LET date == Written[Format[c]][d]
        IN  Contains(RenderFilename(Template[c][p], Parts(texts, <<date>>)), date)

(* date_format is left at ISO.                                             *)
IsoDates == \A c \in Configs : Format[c] = "iso"

Conflicts(v) == {t \in v.targets : <<t, Filename(config, v)>> \in existing}

NeedSummary ==
    \/ Conflicts(wire.values) # {}
    \/ wire.kind = "confirm" /\ SummaryMode[config] = "always"

(* The answer reaches the page, or is lost and the page stays as it was.   *)
Answer(effect, asWas) ==
    /\ wire' = None
    /\ effect \/ asWas

(* Mutation: the browser keeps the form over a reload.                     *)
LoadKeepingForm ==
    IF ready
    THEN /\ page' = "open" /\ rendered' = config
         /\ offered' = Texts(Format[analyzed], Found)
         /\ UNCHANGED form
    ELSE /\ page' = "left"
         /\ UNCHANGED <<rendered, offered, form>>

(* A fresh page for the same document, if it can still be reviewed.        *)
Load ==
    IF ready
    THEN /\ page' = "open" /\ rendered' = config
         /\ offered' = Texts(Format[analyzed], Found)
         /\ form' = Refreshed(config, Blank(config))
    ELSE /\ page' = "left"
         /\ UNCHANGED <<rendered, offered, form>>

ServeGone ==
    /\ wire # None /\ ~ready
    /\ Answer(page' = "left" /\ modal' = None, UNCHANGED <<page, modal>>)
    /\ UNCHANGED <<serverVars, rendered, offered, form, late>>

(* The summary lists the posted folders that the configuration has; its    *)
(* hidden inputs hold all of them.                                         *)
ServeSummary ==
    /\ wire # None /\ ready /\ NeedSummary
    /\ Answer(modal' = [values |-> wire.values, config |-> config,
                        name |-> Filename(config, wire.values),
                        listed |-> Targets[config] \cap wire.values.targets,
                        chips |-> wire.chips,
                        conflicts |-> Conflicts(wire.values)],
              modal' = modal)
    /\ UNCHANGED <<serverVars, pageVars, late>>

ServeFiling ==
    /\ wire # None /\ ready /\ ~NeedSummary
    /\ LET v == wire.values
           name == Filename(config, v)
       IN  /\ filed' = [name |-> name, targets |-> v.targets, date |-> v.date,
                        config |-> config]
           /\ existing' = existing \cup {<<t, name>> : t \in v.targets}
    /\ ready' = FALSE
    /\ Answer(page' = "left" /\ modal' = None, UNCHANGED <<page, modal>>)
    /\ UNCHANGED <<config, analyzed, rendered, offered, form, late>>

(* A target folder is missing: the page of the document is loaded again.   *)
ServeFails ==
    /\ wire # None /\ ready /\ ~NeedSummary
    /\ Answer(Load /\ modal' = None, UNCHANGED <<pageVars, modal>>)
    /\ UNCHANGED <<serverVars, late>>

(* An OSError of a copy or of the disposal: status 500, which leaves the   *)
(* page as it was, and the copies that were made.                          *)
ServeBreaks ==
    /\ wire # None /\ ready /\ ~NeedSummary
    /\ \E done \in SUBSET wire.values.targets :
           LET left == {<<t, Filename(config, wire.values)>> : t \in done}
           IN  /\ left \subseteq Places
               /\ existing' = existing \cup left
    /\ wire' = None
    /\ UNCHANGED <<config, analyzed, ready, filed, pageVars, modal, late>>

(* The request never reaches the server.                                   *)
RequestLost ==
    /\ wire # None
    /\ wire' = None
    /\ UNCHANGED <<serverVars, pageVars, modal, late>>

Serve ==
    ServeGone \/ ServeSummary \/ ServeFiling \/ ServeFails \/ ServeBreaks \/ RequestLost

-----------------------------------------------------------------------------
(* Everybody else.                                                         *)

Reload ==
    /\ page = "open" /\ wire = None
    /\ Load /\ modal' = None
    /\ UNCHANGED <<serverVars, wire, late>>

SaveConfig ==
    /\ config + 1 \in Configs
    /\ config' = config + 1
    /\ UNCHANGED <<analyzed, ready, existing, filed, pageVars, wire, modal, late>>

(* The reanalysis a save asks for reaches the entry, sooner or later.      *)
Reanalyze ==
    /\ ready /\ analyzed # config
    /\ analyzed' = config
    /\ UNCHANGED <<config, ready, existing, filed, pageVars, wire, modal, late>>

(* Another page removes or files the document.                             *)
Elsewhere ==
    /\ ready
    /\ ready' = FALSE
    /\ UNCHANGED <<config, analyzed, existing, filed, pageVars, wire, modal, late>>

FileAppears(f) ==
    /\ f \notin existing
    /\ existing' = existing \cup {f}
    /\ UNCHANGED <<config, analyzed, ready, filed, pageVars, wire, modal, late>>

Init ==
    /\ config = 1 /\ analyzed = 1 /\ ready = TRUE
    /\ existing = {} /\ filed = None
    /\ page = "open" /\ rendered = 1
    /\ offered = Texts(Format[1], Found)
    /\ form = Refreshed(1, Blank(1))
    /\ wire = None /\ modal = None /\ late = 0

Next ==
    \/ EditNext
    \/ ClickConfirm \/ ClickExecute \/ ClickCancel
    \/ Serve
    \/ Reload \/ SaveConfig \/ Reanalyze \/ Elsewhere
    \/ \E f \in Places : FileAppears(f)

Spec == Init /\ [][Next]_vars
-----------------------------------------------------------------------------
(* Properties.                                                             *)

(* Every variable has a value of its kind, the date of a form included.    *)
TypeOK ==
    /\ config \in Configs /\ analyzed \in Configs /\ rendered \in Configs
    /\ ready \in BOOLEAN /\ page \in {"open", "left"}
    /\ offered \subseteq PageTexts
    /\ form.kind \in {"candidate", "manual"}
    /\ form.marked \in offered \cup {"manual", None}
    /\ form.pattern \in Patterns(rendered)
    /\ form.checked \subseteq Targets[rendered]
    /\ late \in 0..MaxLate

(* The page submits what it shows as chosen: the marked date, and the      *)
(* highlighted folders. Mark, kind and date, chip and checkbox are each    *)
(* set by a handler of their own (app.js initReview).                      *)
ShownIsSubmitted ==
    /\ form.on = form.checked
    /\ form.dateValue = CASE form.marked = None     -> None
                          [] form.marked = "manual" -> form.manual
                          [] OTHER                  -> form.marked

(* Confirm can be clicked if, and only if, the post would carry a date and *)
(* a target (app.js refresh).                                              *)
ConfirmIffComplete ==
    form.enabled <=> form.dateValue # None /\ form.checked # {}

(* The preview is the name that the server would give under the            *)
(* configuration of the page: two programs, one naming (app.js buildName,  *)
(* naming.py render_filename).                                             *)
PreviewIsName == form.preview = Filename(rendered, Values(form))

(* A document is filed into the folders that were highlighted when the     *)
(* reviewer clicked Confirm, and under the name seen at the last click,    *)
(* whatever was edited, reloaded, lost or filed by others since; only a    *)
(* configuration that was saved in between excuses another name. What the  *)
(* last click did not list, in the summary, is exactly the folders that a  *)
(* save had taken out of the configuration before the summary was made     *)
(* (routes.py confirm, execute, _summary_response; _summary_modal.html).   *)
FiledAsShown ==
    [][filed' # filed =>
           /\ filed'.targets = wire.chips
           /\ wire.listed = filed'.targets \cap Targets[wire.config]
           /\ filed'.name = wire.shown \/ config # wire.config]_vars

(* The name of a filed document holds the chosen day, in the format of the *)
(* configuration (routes.py _normalize_date).                              *)
FiledUnderItsDate ==
    filed # None =>
        \E d \in Days : /\ \E f \in DOMAIN Written : Written[f][d] = filed.date
                        /\ Contains(filed.name, Written[Format[filed.config]][d])
=============================================================================
