---------------------------- MODULE ReviewProofs ----------------------------
(* The form and the protocol of the review page, for every configuration,  *)
(* document and history of edits and requests.                             *)
EXTENDS ReviewForm, TLAPS

USE DEF pageVars, serverVars

-----------------------------------------------------------------------------
(* Part 1: what the widgets show is what the hidden inputs hold.           *)

FormFields == {"kind", "selected", "marked", "manual", "dateValue", "texts",
               "pattern", "checked", "on", "preview", "enabled"}

(* Mark, kind and date of the candidates agree, and so do chips and boxes, *)
(* on a page that was rendered with configuration c.                       *)
WidgetsFit(c, f) ==
    /\ DOMAIN f = FormFields
    /\ f.selected \in PageTexts \cup {None} /\ f.manual \in PageTexts \cup {None}
    /\ f.texts \in TextValues /\ f.pattern \in Patterns(c)
    /\ f.marked = None => f.kind = "candidate" /\ f.selected = None
    /\ f.marked = "manual" => f.kind = "manual"
    /\ f.marked \notin {None, "manual"} => f.kind = "candidate" /\ f.selected = f.marked
    /\ f.on = f.checked /\ f.checked \subseteq Targets[c]

(* ... and the derived fields follow them.                                 *)
FormFits(c, f) ==
    /\ WidgetsFit(c, f)
    /\ f.dateValue = CurrentDate(f)
    /\ f.preview = BuildName(Template[c][f.pattern], Parts(f.texts, DatePart(f.dateValue)))
    /\ f.enabled <=> f.dateValue # None /\ f.checked # {}

LEMMA RefreshedFits ==
    ASSUME NEW c, NEW f, WidgetsFit(c, f) PROVE FormFits(c, Refreshed(c, f))
<1> DEFINE g == Refreshed(c, f)
<1>1. /\ g.kind = f.kind /\ g.selected = f.selected /\ g.marked = f.marked
      /\ g.manual = f.manual /\ g.texts = f.texts /\ g.pattern = f.pattern
      /\ g.checked = f.checked /\ g.on = f.on /\ g.dateValue = CurrentDate(f)
      /\ g.preview = BuildName(Template[c][f.pattern],
                               Parts(f.texts, DatePart(CurrentDate(f))))
      /\ g.enabled = (CurrentDate(f) # None /\ f.checked # {})
      /\ DOMAIN g = FormFields
  BY DEF Refreshed, FormFields
<1> HIDE DEF g
<1>2. WidgetsFit(c, g)
  BY <1>1 DEF WidgetsFit
<1>3. CurrentDate(g) = CurrentDate(f)
  BY <1>1 DEF CurrentDate
<1>4. FormFits(c, g)
  BY <1>1, <1>2, <1>3 DEF FormFits
<1> QED BY <1>4 DEF g

LEMMA BlankFits == ASSUME NEW c \in Configs PROVE WidgetsFit(c, Blank(c))
<1> DEFINE p == IF SuggestedPattern \in Patterns(c) THEN SuggestedPattern
                ELSE CHOOSE q \in Patterns(c) : TRUE
<1>1. p \in Patterns(c)
  BY ReviewAssumption
<1> HIDE DEF p
<1>2. Blank(c) = [kind |-> "candidate", selected |-> None, marked |-> None,
                  manual |-> None, texts |-> Suggested, pattern |-> p,
                  checked |-> Preset(c), on |-> Preset(c),
                  dateValue |-> None, preview |-> <<>>, enabled |-> FALSE]
  BY DEF Blank, p
<1>3. Preset(c) \subseteq Targets[c]
  BY DEF Preset
<1> QED BY <1>1, <1>2, <1>3, ReviewAssumption DEF WidgetsFit, FormFields

(* Every handler of app.js leaves the widgets in agreement.                *)
LEMMA EditFits ==
    ASSUME WidgetsFit(rendered, form), offered \subseteq PageTexts, EditNext
    PROVE  FormFits(rendered, form')
<1> USE DEF WidgetsFit, FormFields
<1>1. ASSUME NEW text \in offered, ClickDate(text) PROVE FormFits(rendered, form')
  <2> DEFINE g == [form EXCEPT !.marked = text, !.kind = "candidate", !.selected = text]
  <2>1. WidgetsFit(rendered, g)
    BY ReviewAssumption
  <2> QED BY <1>1, <2>1, RefreshedFits DEF ClickDate, Edit
<1>2. ASSUME ClickManual PROVE FormFits(rendered, form')
  <2> DEFINE g == [form EXCEPT !.marked = "manual", !.kind = "manual"]
  <2>1. WidgetsFit(rendered, g)
    BY ReviewAssumption
  <2> QED BY <1>2, <2>1, RefreshedFits DEF ClickManual, Edit
<1>3. ASSUME NEW text \in Texts("iso", Days) \cup {None}, TypeManual(text)
      PROVE  FormFits(rendered, form')
  <2> DEFINE g == [form EXCEPT !.manual = text]
  <2>1. text \in PageTexts \cup {None}
    BY ReviewAssumption DEF PageTexts
  <2>2. WidgetsFit(rendered, g)
    BY <2>1
  <2> QED BY <1>3, <2>2, RefreshedFits DEF TypeManual, Edit
<1>4. ASSUME NEW t \in Targets[rendered], ToggleChip(t)
      PROVE  FormFits(rendered, form')
  <2> DEFINE new == SymDiff(form.checked, {t})
             g == [form EXCEPT !.checked = new,
                               !.on = IF t \in new THEN @ \cup {t} ELSE @ \ {t}]
  <2>1. (IF t \in new THEN form.on \cup {t} ELSE form.on \ {t}) = new
    BY DEF SymDiff
  <2>2. new \subseteq Targets[rendered]
    BY DEF SymDiff
  <2> HIDE DEF new
  <2>3. WidgetsFit(rendered, g)
    BY <2>1, <2>2
  <2> QED BY <1>4, <2>3, RefreshedFits DEF ToggleChip, Edit, new
<1>5. ASSUME NEW field \in Fields, NEW text \in Typed[field], TypeText(field, text)
      PROVE  FormFits(rendered, form')
  <2> DEFINE new == [form.texts EXCEPT ![field] = text]
             g == [form EXCEPT !.texts = new]
  <2>1. new \in TextValues
    BY DEF TextValues
  <2> HIDE DEF new
  <2>2. WidgetsFit(rendered, g)
    BY <2>1
  <2> QED BY <1>5, <2>2, RefreshedFits DEF TypeText, Edit, new
<1>6. ASSUME NEW p \in Patterns(rendered), ChoosePattern(p)
      PROVE  FormFits(rendered, form')
  <2> DEFINE g == [form EXCEPT !.pattern = p]
  <2>1. WidgetsFit(rendered, g)
    OBVIOUS
  <2> QED BY <1>6, <2>1, RefreshedFits DEF ChoosePattern, Edit
<1> QED BY <1>1, <1>2, <1>3, <1>4, <1>5, <1>6 DEF EditNext

PageInv ==
    /\ {config, analyzed, rendered} \subseteq Configs
    /\ offered \subseteq PageTexts
    /\ FormFits(rendered, form)

LEMMA LoadFits ==
    ASSUME PageInv, Load
    PROVE  /\ rendered' \in Configs /\ offered' \subseteq PageTexts
           /\ FormFits(rendered', form')
<1>1. CASE ready
  <2>1. rendered' = config /\ form' = Refreshed(config, Blank(config))
        /\ offered' = Texts(Format[analyzed], Found)
    BY <1>1 DEF Load
  <2>2. offered' \subseteq PageTexts
    BY <2>1, ReviewAssumption DEF PageInv, PageTexts, Texts
  <2> QED BY <2>1, <2>2, BlankFits, RefreshedFits DEF PageInv
<1>2. CASE ~ready
  BY <1>2 DEF Load, PageInv
<1> QED BY <1>1, <1>2

LEMMA PageStep == PageInv /\ [Next]_vars => PageInv'
<1> SUFFICES ASSUME PageInv, [Next]_vars PROVE PageInv'
    OBVIOUS
<1>1. ASSUME UNCHANGED <<pageVars, analyzed>>, config' \in Configs PROVE PageInv'
  BY <1>1 DEF PageInv
<1>2. ASSUME EditNext PROVE PageInv'
  <2>1. UNCHANGED <<config, analyzed, rendered, offered>>
    BY <1>2 DEF EditNext, ClickDate, ClickManual, TypeManual, ToggleChip, TypeText,
        ChoosePattern, Edit
  <2>2. FormFits(rendered, form')
    BY <1>2, EditFits DEF PageInv, FormFits
  <2> QED BY <2>1, <2>2 DEF PageInv
<1>3. CASE ClickConfirm \/ ClickExecute \/ ClickCancel
  BY <1>1, <1>3 DEF ClickConfirm, ClickExecute, ClickCancel, PageInv
<1>4. CASE ServeGone
  BY <1>1, <1>4 DEF ServeGone, Answer, PageInv
<1>5. CASE ServeSummary
  BY <1>1, <1>5 DEF ServeSummary, PageInv
<1>6. CASE ServeFiling
  BY <1>6 DEF ServeFiling, PageInv
<1>7. CASE ServeFails
  <2>1. UNCHANGED serverVars /\ (Load \/ UNCHANGED pageVars)
    BY <1>7 DEF ServeFails, Answer
  <2> QED BY <1>1, <2>1, LoadFits DEF PageInv
<1>8. CASE ServeBreaks \/ RequestLost
  BY <1>1, <1>8 DEF ServeBreaks, RequestLost, PageInv
<1>9. CASE Reload
  BY <1>9, LoadFits DEF Reload, PageInv
<1>10. CASE SaveConfig
  BY <1>1, <1>10 DEF SaveConfig
<1>11. CASE Reanalyze
  BY <1>11 DEF Reanalyze, PageInv
<1>12. CASE Elsewhere
  BY <1>1, <1>12 DEF Elsewhere, PageInv
<1>13. ASSUME NEW f \in Places, FileAppears(f) PROVE PageInv'
  BY <1>1, <1>13 DEF FileAppears, PageInv
<1>14. CASE UNCHANGED vars
  BY <1>1, <1>14 DEF vars, PageInv
<1> QED BY <1>2, <1>3, <1>4, <1>5, <1>6, <1>7, <1>8, <1>9, <1>10, <1>11, <1>12,
           <1>13, <1>14 DEF Next, Serve

LEMMA PageInvariant == Spec => []PageInv
<1>1. Init => PageInv
  <2> SUFFICES ASSUME Init PROVE PageInv
      OBVIOUS
  <2>1. offered \subseteq PageTexts
    BY ReviewAssumption DEF Init, PageTexts, Texts
  <2>2. FormFits(1, Refreshed(1, Blank(1)))
    BY ReviewAssumption, BlankFits, RefreshedFits
  <2> QED BY <2>1, <2>2, ReviewAssumption DEF Init, PageInv
<1> QED BY <1>1, PageStep, PTL DEF Spec

(* Whatever the dates, folders, patterns and configurations, and in        *)
(* whatever order a reviewer touches the widgets while requests come and   *)
(* go: the hidden inputs hold what is highlighted.                         *)
THEOREM PageSubmitsWhatItShows == Spec => []ShownIsSubmitted
<1>1. PageInv => ShownIsSubmitted
  BY DEF PageInv, FormFits, WidgetsFit, CurrentDate, ShownIsSubmitted
<1> QED BY <1>1, PageInvariant, PTL

(* ... and Confirm is enabled exactly when a date and a folder are chosen. *)
THEOREM ConfirmEnabledWhenComplete == Spec => []ConfirmIffComplete
<1>1. PageInv => ConfirmIffComplete
  BY DEF PageInv, FormFits, ConfirmIffComplete
<1> QED BY <1>1, PageInvariant, PTL

-----------------------------------------------------------------------------
(* Part 2: if the two programs agree on names, a document is filed as the  *)
(* reviewer saw it.                                                        *)

LEMMA PreviewNames == NamesAgree /\ PageInv => PreviewIsName
<1> SUFFICES ASSUME NamesAgree, PageInv PROVE PreviewIsName
    OBVIOUS
<1> USE DEF PageInv, FormFits, WidgetsFit
<1>1. form.dateValue \in PageTexts \cup {None}
  BY DEF CurrentDate
<1>2. form.preview = RenderFilename(Template[rendered][form.pattern],
                         Parts(form.texts, NormalizeDate(form.dateValue, rendered)))
  BY <1>1 DEF NamesAgree
<1> QED BY <1>2 DEF PreviewIsName, Filename, Values, ResolveTemplate

(* If the two programs agree on names, the preview is, at every moment,    *)
(* the name that the server would file the fields of the form under.       *)
THEOREM PreviewIsNameIfNamesAgree == NamesAgree => (Spec => []PreviewIsName)
<1> SUFFICES ASSUME NamesAgree PROVE Spec => []PreviewIsName
    OBVIOUS
<1>1. PageInv => PreviewIsName
  BY PreviewNames
<1> QED BY <1>1, PageInvariant, PTL

(* The folders that a request or a summary posts are those that were       *)
(* highlighted, and it lists those that its configuration has.             *)
Carries(post) == /\ post.chips = post.values.targets
                 /\ post.listed = post.values.targets \cap Targets[post.config]

(* A request and the summary carry what was on the screen.                 *)
RequestInv ==
    /\ wire # None => /\ Carries(wire) /\ wire.shown = Filename(wire.config, wire.values)
    /\ modal # None => /\ Carries(modal)
                       /\ modal.name = Filename(modal.config, modal.values)

LEMMA RequestInvStep ==
    PageInv /\ PreviewIsName /\ RequestInv /\ [Next]_vars => RequestInv'
<1> SUFFICES ASSUME PageInv, PreviewIsName, RequestInv, [Next]_vars PROVE RequestInv'
    OBVIOUS
<1>1. ASSUME wire' \in {wire, None}, modal' \in {modal, None} PROVE RequestInv'
  BY <1>1 DEF RequestInv
<1>2. CASE ClickConfirm
  <2> DEFINE w == [kind |-> "confirm", values |-> Values(form), shown |-> form.preview,
                   listed |-> form.on, chips |-> form.on, config |-> rendered]
  <2>1. wire' = w /\ modal' = modal
    BY <1>2 DEF ClickConfirm
  <2>2. Carries(w) /\ w.shown = Filename(w.config, w.values)
    BY DEF PageInv, FormFits, WidgetsFit, PreviewIsName, Values, Carries
  <2> QED BY <2>1, <2>2 DEF RequestInv
<1>3. CASE ClickExecute
  <2>1. modal # None /\ modal' = modal
        /\ wire' = [kind |-> "execute", values |-> modal.values, shown |-> modal.name,
                    listed |-> modal.listed, chips |-> modal.chips,
                    config |-> modal.config]
    BY <1>3 DEF ClickExecute
  <2> QED BY <2>1 DEF RequestInv, Carries
<1>4. CASE ServeSummary
  <2> DEFINE m == [values |-> wire.values, config |-> config,
                   name |-> Filename(config, wire.values),
                   listed |-> Targets[config] \cap wire.values.targets,
                   chips |-> wire.chips, conflicts |-> Conflicts(wire.values)]
  <2>1. wire # None /\ wire' = None /\ (modal' = modal \/ modal' = m)
    BY <1>4 DEF ServeSummary, Answer
  <2>2. Carries(m) /\ m.name = Filename(m.config, m.values)
    BY <2>1 DEF RequestInv, Carries
  <2> QED BY <1>1, <2>1, <2>2 DEF RequestInv
<1>5. CASE EditNext
  BY <1>1, <1>5 DEF EditNext, ClickDate, ClickManual, TypeManual, ToggleChip, TypeText,
      ChoosePattern, Edit
<1>6. CASE ClickCancel \/ ServeGone \/ ServeFiling \/ ServeFails \/ ServeBreaks
           \/ RequestLost \/ Reload \/ SaveConfig \/ Reanalyze \/ Elsewhere
           \/ (\E f \in Places : FileAppears(f)) \/ UNCHANGED vars
  BY <1>1, <1>6 DEF ClickCancel, ServeGone, ServeFiling, ServeFails, ServeBreaks,
      RequestLost, Answer, Reload, SaveConfig, Reanalyze, Elsewhere, FileAppears, vars
<1> QED BY <1>2, <1>3, <1>4, <1>5, <1>6 DEF Next, Serve

LEMMA FiledStep ==
    ASSUME RequestInv, [Next]_vars, filed' # filed
    PROVE  /\ filed'.targets = wire.chips
           /\ wire.listed = filed'.targets \cap Targets[wire.config]
           /\ filed'.name = wire.shown \/ config # wire.config
<1>1. CASE ServeFiling
  <2>1. /\ wire # None
        /\ filed' = [name |-> Filename(config, wire.values),
                     targets |-> wire.values.targets, date |-> wire.values.date,
                     config |-> config]
    BY <1>1 DEF ServeFiling
  <2> QED BY <2>1 DEF RequestInv, Carries
<1>2. CASE ~ServeFiling
  BY <1>2 DEF Next, vars, EditNext, ClickDate, ClickManual, TypeManual, ToggleChip,
      TypeText, ChoosePattern, Edit, ClickConfirm, ClickExecute, ClickCancel, Serve,
      ServeGone, ServeSummary, ServeFails, ServeBreaks, RequestLost, Reload, SaveConfig, Reanalyze,
      Elsewhere, FileAppears
<1> QED BY <1>1, <1>2

(* If the two programs agree on names, then whatever is edited, lost,      *)
(* reloaded, saved or filed by others between a click and the filing, the  *)
(* document goes into the folders that were highlighted at Confirm, under  *)
(* the name that was on the screen unless the configuration was saved in   *)
(* between; and a summary that does not list all of these folders leaves   *)
(* out just those that a save has removed since the page was rendered.     *)
THEOREM FiledAsShownIfNamesAgree == NamesAgree => (Spec => FiledAsShown)
<1> SUFFICES ASSUME NamesAgree PROVE Spec => FiledAsShown
    OBVIOUS
<1>1. Init => RequestInv
  BY DEF Init, RequestInv
<1>2. PageInv => PreviewIsName
  BY PreviewNames
<1>3. PageInv /\ RequestInv /\ [Next]_vars => RequestInv'
  BY <1>2, RequestInvStep
<1>4. RequestInv /\ [Next]_vars
      => [filed' # filed =>
              /\ filed'.targets = wire.chips
              /\ wire.listed = filed'.targets \cap Targets[wire.config]
              /\ filed'.name = wire.shown \/ config # wire.config]_vars
  BY FiledStep
<1> QED BY <1>1, <1>3, <1>4, PageInvariant, PTL DEF Spec, FiledAsShown

-----------------------------------------------------------------------------
(* Part 3: types.                                                          *)

(* The widgets that PageInv leaves open, and what is not on the page.      *)
RestInv ==
    /\ ready \in BOOLEAN /\ page \in {"open", "left"}
    /\ form.marked \in offered \cup {"manual", None}
    /\ late \in 0..MaxLate

LEMMA EditRest ==
    ASSUME RestInv, NEW f, Edit(Refreshed(rendered, f)),
           f.marked \in offered \cup {"manual", None}
    PROVE  RestInv'
<1>1. form'.marked = f.marked
  BY DEF Edit, Refreshed
<1>2. late' \in 0..MaxLate
  BY ReviewAssumption DEF RestInv, Edit
<1> QED BY <1>1, <1>2 DEF RestInv, Edit

LEMMA EditNextRest == ASSUME PageInv, RestInv, EditNext PROVE RestInv'
<1> USE DEF PageInv, FormFits, WidgetsFit, FormFields
<1>0. form.marked \in offered \cup {"manual", None}
  BY DEF RestInv
<1>1. ASSUME NEW text \in offered, ClickDate(text) PROVE RestInv'
  <2> DEFINE g == [form EXCEPT !.marked = text, !.kind = "candidate", !.selected = text]
  <2>1. g.marked = text
    OBVIOUS
  <2> HIDE DEF g
  <2>2. Edit(Refreshed(rendered, g))
    BY <1>1 DEF ClickDate, g
  <2> QED BY <1>0, <2>1, <2>2, EditRest
<1>2. CASE ClickManual
  <2> DEFINE g == [form EXCEPT !.marked = "manual", !.kind = "manual"]
  <2>1. g.marked = "manual"
    OBVIOUS
  <2> HIDE DEF g
  <2>2. Edit(Refreshed(rendered, g))
    BY <1>2 DEF ClickManual, g
  <2> QED BY <1>0, <2>1, <2>2, EditRest
<1>3. ASSUME NEW text, TypeManual(text) PROVE RestInv'
  <2> DEFINE g == [form EXCEPT !.manual = text]
  <2>1. g.marked = form.marked
    OBVIOUS
  <2> HIDE DEF g
  <2>2. Edit(Refreshed(rendered, g))
    BY <1>3 DEF TypeManual, g
  <2> QED BY <1>0, <2>1, <2>2, EditRest
<1>4. ASSUME NEW t, ToggleChip(t) PROVE RestInv'
  <2> DEFINE new == SymDiff(form.checked, {t})
             g == [form EXCEPT !.checked = new,
                               !.on = IF t \in new THEN @ \cup {t} ELSE @ \ {t}]
  <2>1. g.marked = form.marked
    OBVIOUS
  <2>2. Edit(Refreshed(rendered, g))
    BY <1>4 DEF ToggleChip
  <2> HIDE DEF g, new
  <2> QED BY <1>0, <2>1, <2>2, EditRest
<1>5. ASSUME NEW field, NEW text, TypeText(field, text) PROVE RestInv'
  <2> DEFINE g == [form EXCEPT !.texts = [@ EXCEPT ![field] = text]]
  <2>1. g.marked = form.marked
    OBVIOUS
  <2>2. Edit(Refreshed(rendered, g))
    BY <1>5 DEF TypeText
  <2> HIDE DEF g
  <2> QED BY <1>0, <2>1, <2>2, EditRest
<1>6. ASSUME NEW p, ChoosePattern(p) PROVE RestInv'
  <2> DEFINE g == [form EXCEPT !.pattern = p]
  <2>1. g.marked = form.marked
    OBVIOUS
  <2> HIDE DEF g
  <2>2. Edit(Refreshed(rendered, g))
    BY <1>6 DEF ChoosePattern, g
  <2> QED BY <1>0, <2>1, <2>2, EditRest
<1> QED BY <1>1, <1>2, <1>3, <1>4, <1>5, <1>6 DEF EditNext

(* A page that is loaded again forgets the mark with the dates it was on.  *)
LEMMA BlankRest == ASSUME NEW c PROVE Refreshed(c, Blank(c)).marked = None
BY DEF Refreshed, Blank

LEMMA LoadRest ==
    ASSUME RestInv, Load, UNCHANGED <<ready, late>> PROVE RestInv'
<1>1. CASE ready
  BY <1>1, BlankRest, ReviewAssumption DEF Load, RestInv
<1>2. CASE ~ready
  BY <1>2 DEF Load, RestInv
<1> QED BY <1>1, <1>2

LEMMA RestStep == PageInv /\ RestInv /\ [Next]_vars => RestInv'
<1> SUFFICES ASSUME PageInv, RestInv, [Next]_vars PROVE RestInv'
    OBVIOUS
<1>1. ASSUME UNCHANGED <<rendered, offered, form, late>>,
             ready' \in {ready, FALSE}, page' \in {page, "left"}
      PROVE  RestInv'
  BY <1>1 DEF RestInv
<1>2. CASE EditNext
  BY <1>2, EditNextRest
<1>3. CASE ClickConfirm \/ ClickExecute \/ ClickCancel \/ ServeBreaks
           \/ RequestLost \/ SaveConfig \/ Reanalyze \/ Elsewhere \/ (\E f \in Places : FileAppears(f))
           \/ UNCHANGED vars
  BY <1>1, <1>3 DEF ClickConfirm, ClickExecute, ClickCancel, ServeBreaks, RequestLost,
     SaveConfig, Reanalyze, Elsewhere, FileAppears, vars
<1>4. CASE ServeGone \/ ServeSummary \/ ServeFiling
  BY <1>1, <1>4 DEF ServeGone, ServeSummary, ServeFiling, Answer
<1>5. CASE ServeFails
  <2>1. UNCHANGED <<ready, late>> /\ (Load \/ UNCHANGED pageVars)
    BY <1>5 DEF ServeFails, Answer
  <2> QED BY <1>1, <2>1, LoadRest
<1>6. CASE Reload
  BY <1>6, LoadRest DEF Reload
<1> QED BY <1>2, <1>3, <1>4, <1>5, <1>6 DEF Next, Serve

(* Every variable has its type; the marked date is one that the page       *)
(* offers, also after a reload with other dates, for any configurations,   *)
(* dates and folders.                                                      *)
THEOREM ReviewTypes == Spec => []TypeOK
<1>1. Init => RestInv
  BY BlankRest, ReviewAssumption DEF Init, RestInv
<1>2. PageInv /\ RestInv => TypeOK
  BY DEF PageInv, RestInv, FormFits, WidgetsFit, TypeOK
<1> QED BY <1>1, <1>2, RestStep, PageInvariant, PTL DEF Spec

-----------------------------------------------------------------------------
(* Part 4: the chosen date is in the name.                                 *)

(* What is posted has a date, since Confirm waits for one, and so has the  *)
(* summary that is made from it.                                           *)
Dated(v) == v.date \in PageTexts /\ v.texts \in TextValues

DatedRequests ==
    /\ wire # None => Dated(wire.values)
    /\ modal # None => Dated(modal.values)

LEMMA DatedStep == PageInv /\ DatedRequests /\ [Next]_vars => DatedRequests'
<1> SUFFICES ASSUME PageInv, DatedRequests, [Next]_vars PROVE DatedRequests'
    OBVIOUS
<1>1. ASSUME wire' \in {wire, None}, modal' \in {modal, None} PROVE DatedRequests'
  BY <1>1 DEF DatedRequests
<1>2. CASE ClickConfirm
  <2>1. wire'.values = Values(form) /\ modal' = modal /\ form.enabled
    BY <1>2 DEF ClickConfirm
  <2>2. Dated(Values(form))
    BY <2>1 DEF PageInv, FormFits, WidgetsFit, CurrentDate, Values, Dated
  <2> QED BY <2>1, <2>2 DEF DatedRequests
<1>3. CASE ClickExecute
  BY <1>3 DEF ClickExecute, DatedRequests
<1>4. CASE ServeSummary
  <2>1. wire # None /\ wire' = None
        /\ (modal' = modal \/ modal'.values = wire.values)
    BY <1>4 DEF ServeSummary, Answer
  <2> QED BY <2>1 DEF DatedRequests
<1>5. CASE EditNext
  BY <1>1, <1>5 DEF EditNext, ClickDate, ClickManual, TypeManual, ToggleChip, TypeText,
      ChoosePattern, Edit
<1>6. CASE ClickCancel \/ ServeGone \/ ServeFiling \/ ServeFails \/ ServeBreaks
           \/ RequestLost \/ Reload \/ SaveConfig \/ Reanalyze \/ Elsewhere
           \/ (\E f \in Places : FileAppears(f)) \/ UNCHANGED vars
  BY <1>1, <1>6 DEF ClickCancel, ServeGone, ServeFiling, ServeFails, ServeBreaks,
      RequestLost, Answer, Reload, SaveConfig, Reanalyze, Elsewhere, FileAppears, vars
<1> QED BY <1>2, <1>3, <1>4, <1>5, <1>6 DEF Next, Serve

(* The server reads back a date that the page posts, and the name that it  *)
(* makes holds it, under the pattern of the form or the one that stands in *)
(* for a pattern that is gone.                                             *)
LEMMA NameHoldsDate ==
    ASSUME IsoDates, NamesHoldDate, NEW c \in Configs, NEW v, Dated(v)
    PROVE  \E d \in Days : /\ Written["iso"][d] = v.date
                           /\ Contains(Filename(c, v), Written[Format[c]][d])
<1> DEFINE days == {d \in Days : Written["iso"][d] = v.date}
           d == CHOOSE x \in days : TRUE
           p == IF v.pattern \in Patterns(c) THEN v.pattern ELSE DefaultPattern[c]
<1>1. v.date \in Texts("iso", Days)
  BY ReviewAssumption DEF IsoDates, Dated, PageTexts, Texts
<1>2. days # {}
  BY <1>1 DEF Texts
<1>3. d \in Days /\ Written["iso"][d] = v.date
  BY <1>2
<1>4. NormalizeDate(v.date, c) = <<Written[Format[c]][d]>>
  BY <1>2 DEF NormalizeDate
<1>5. p \in Patterns(c) /\ ResolveTemplate(c, v.pattern) = Template[c][p]
  BY ReviewAssumption DEF ResolveTemplate
<1> HIDE DEF days, d, p
<1>6. Filename(c, v)
        = RenderFilename(Template[c][p], Parts(v.texts, <<Written[Format[c]][d]>>))
  BY <1>4, <1>5 DEF Filename
<1>7. Contains(Filename(c, v), Written[Format[c]][d])
  BY <1>3, <1>5, <1>6 DEF Dated, NamesHoldDate
<1> QED BY <1>3, <1>7

LEMMA FiledDateStep ==
    ASSUME IsoDates, NamesHoldDate, PageInv, DatedRequests, FiledUnderItsDate, [Next]_vars
    PROVE  FiledUnderItsDate'
<1>1. CASE ServeFiling
  <2>1. /\ Dated(wire.values)
        /\ filed'.name = Filename(config, wire.values) /\ filed'.date = wire.values.date
        /\ filed'.config = config
    BY <1>1 DEF ServeFiling, DatedRequests
  <2>2. PICK d \in Days : /\ Written["iso"][d] = wire.values.date
                          /\ Contains(Filename(config, wire.values),
                                      Written[Format[config]][d])
    BY <2>1, NameHoldsDate DEF PageInv
  <2> QED BY <2>1, <2>2, ReviewAssumption DEF FiledUnderItsDate
<1>2. CASE ~ServeFiling
  <2>1. filed' = filed
    BY <1>2 DEF Next, vars, EditNext, ClickDate, ClickManual, TypeManual, ToggleChip,
      TypeText, ChoosePattern, Edit, ClickConfirm, ClickExecute, ClickCancel, Serve,
      ServeGone, ServeSummary, ServeFails, ServeBreaks, RequestLost, Reload, SaveConfig, Reanalyze,
      Elsewhere, FileAppears
  <2> QED BY <2>1 DEF FiledUnderItsDate
<1> QED BY <1>1, <1>2

(* With ISO dates, and templates that name the date, every document is     *)
(* filed under the day that was chosen for it, however the configuration,  *)
(* the form and the summary change before the filing (routes.py            *)
(* _normalize_date; with another date_format it is not: see the run        *)
(* date_dropped).                                                          *)
THEOREM FiledUnderDateIfIso == IsoDates /\ NamesHoldDate => (Spec => []FiledUnderItsDate)
<1> SUFFICES ASSUME IsoDates, NamesHoldDate PROVE Spec => []FiledUnderItsDate
    OBVIOUS
<1>1. Init => DatedRequests /\ FiledUnderItsDate
  BY DEF Init, DatedRequests, FiledUnderItsDate
<1>2. PageInv /\ DatedRequests /\ FiledUnderItsDate /\ [Next]_vars
        => DatedRequests' /\ FiledUnderItsDate'
  BY DatedStep, FiledDateStep
<1> QED BY <1>1, <1>2, PageInvariant, PTL DEF Spec
=============================================================================
