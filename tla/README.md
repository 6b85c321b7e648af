# ZilpZalp in TLA+

ZilpZalp is a one-process web service that watches a folder for PDFs, extracts
their text, suggests a file name and target folders, and, once a user has
confirmed, copies the PDF to the targets and disposes of the original. These
modules model what its threads, requests and files do to each other, TLC checks
them on small instances, and TLAPS proves the most important results for every
instance. All paths below are relative to `backend/src/zilpzalp/` unless they
start with another directory of the repository.

## 1. The system

### Components, their state and their operations

| Component | State | Operations | Module |
|---|---|---|---|
| Register, `queue.py` | path -> entry (id, status, suggestion, reason), one lock per call | `add`, `mark_analyzing`, `set_ready`, `mark_error`, `remove`, `get*`, `list` | `Register` |
| Worker, `worker.py` | FIFO of jobs, one daemon thread | `submit`, `reanalyze_all`, `_run`, `_process`, `_move_to_error` | `Worker`, `Handlers` |
| Watcher, `watcher.py` | watchdog's observer thread | scan at start-up, `on_created`, `on_moved` | `Watcher` |
| Cache, `cache.py` | `<stem>.json` on disk | `load_document`, `remove`, `prune` | `Worker`, `Handlers`, `Watcher` |
| Extractor, `extractor.py` | none; writes the cache | `extract` | `Worker` |
| Start-up, `main.py` | `app.state` | `lifespan` | `Watcher` |
| Filing and removal, `processor.py`, `web/routes.py` | files | `confirm`, `execute`, `remove`, `process`, `_dispose` | `Handlers`, `Filing` |
| Configuration, `config.py`, `web/routes.py` | `config.yaml`, `app.state.config` | `config_save` | `Handlers` |
| Upload, `web/routes.py`, `web/static/app.js` | a `.part` file, the page's pending list | `upload`, `enqueue`, `pump` | `Upload` |
| Review page, `web/static/app.js`, `review.html`, `_summary_modal.html` | widgets and hidden inputs of a form, the summary | click and input handlers, `refresh`, the two posts | `ReviewForm` |
| Naming, `web/naming.py`, `web/static/app.js` | none (pure) | `render_filename`, `buildName` | `Naming` |
| Prototype, `docs/mvp/ui/design/project/*.jsx`, `data.js` | React state, timers | views, review, summary, configuration editor | `Prototype`, `ProtoData` |
| Analyzer, suggestion | none (pure) | `analyze`, `suggest` | not modelled |
| Pages, health, languages | none (reads) | `GET` handlers | not modelled |

`PROJECT.json` lists every component with what is left out of it and why.

### How they interact

* The observer thread and, during start-up, the main thread call
  `Worker.submit`: the register gets an entry, then the queue gets a job.
* The worker takes one job at a time. It reads the configuration and the file,
  writes the cache and the error folder, and reports to the register by path.
* Each request runs on a thread of its own. It looks an entry up once, works on
  the file that has the entry's path, and then removes the entry and the
  artifact by path.
* Saving the configuration replaces the file, then `app.state.config`, then
  queues a reanalysis of each entry that has an artifact.
* An upload is a coroutine on the event loop. Its only effect on the rest is a
  file that appears in the watchfolder.
* The review page keeps its form in the browser. Its handlers write what is
  shown and what is posted to different elements; `refresh` brings them
  together. Confirm posts the form, the summary posts the values that it was
  rendered with, and the server names and files from what it gets.
* The prototype is a program of its own: the React mock-up from which pages and
  naming were ported. It talks to no server; timers stand for the analysis.

No lock covers a file. The register's lock covers one call. Everything goes by
path, so a path that is used for a second PDF while somebody still works on the
first is where the program's hard behaviour is.

### What is hard, and what makes each part correct

* *Register and worker*: no entry waits without a job; no entry is left
  analyzing; a verdict lands on the PDF it is about.
* *Watcher and start-up*: nothing in the folder is missed, nothing is extracted
  twice; both survive a crash and a prune that runs beside live events.
* *Filing*: an original goes only when every copy is complete; a refused
  request has touched nothing; nothing is lost.
* *Configuration*: a reanalysis ends with the configuration in force.
* *Upload*: the watcher never sees half a file; nothing is overwritten that was
  there when the name was chosen; the files that wait are sent.
* *Review page*: what is highlighted is what is posted; the previewed name is
  the name the server gives; what is filed is what was highlighted at Confirm,
  whatever is edited, lost, reloaded or saved in between; and the summary leaves
  out none of its folders but those that the configuration no longer has.
* *Prototype*: no review of a document that is gone; no execution over a
  conflict; no invalid text in force; what is on its way out goes.

`PROJECT.json` has the full list under `hazards`, each at its line, with the
properties that cover it, or the reason why none does.

## 2. The modules

    Register <- System <- Watcher, Worker, Handlers <- Pipeline <- MCPipeline
                                                       Pipeline <- PipelineTypes <- PipelineProofs
    Register <- RegisterProofs                         (lemmas for PipelineProofs)
    Custody  <- Pipeline, Filing (INSTANCE)            PipelineProofs <- CustodyProofs
    Upload   <- MCUpload, UploadProofs
    Filing   <- MCFiling, FilingProofs
    Naming   <- ReviewForm <- MCReview, ReviewProofs
    Naming   <- Prototype  <- MCPrototype (with ProtoData), PrototypeProofs

**Register** has one operator per method of class `Queue`, from a register to a
register. A document (`Docs`) and a name (`Names`) are different things: the
code only asks for names, the properties ask for documents.

**System** declares the state that is shared: disk (`inbox`, `errorFolder`,
`filed`, `trash`, `cache`, `configFile`), memory (`config`, `register`, `work`)
and a program counter for each thread (`worker`, `phase`/`batch` of the main
thread, `events`/`holding` of the submitters, `requests`, `save`). `arrived`,
`discarded` and `overwritten` are history, for the properties only.

**Watcher** has one action per step of the scan, the observer, the prune and
the start-up. `Crash` empties memory and keeps the disk; orderly shutdown is
taken as a crash, since both lose the queue and the register.

**Worker** has one action for each point at which the thread touches something
that others can touch: taking the job, `mark_analyzing`, reading the
configuration, `exists()`, `read_text()`, the conversion, the move of the
artifact into the cache, reading it back, the move to `error/`, the verdict.
Every exception path is an action: a document may be `Corrupt` for the
conversion, or `Garbled`, so that its artifact is stored and does not parse, when
it is read back (`ReadBack`), at a reanalysis (`LoadFails`) and when a save looks
for entries to reanalyze (`ReanalysisAborted`). `analyze` and `suggest` are pure: their
result is the pair of the document and the version of the configuration.

**Handlers** does the same for `execute`, `remove_document` and `config_save`,
with one target folder. The disposal of an original may fail after the copy
(`DisposeFails`, here and in `Filing`): the request ends, copy, original and entry
stay. **Filing** takes the paths as unique and looks into
`process()` with several targets: conflicts, the summary, copies that break off
half way, foreign files, other requests. **Pipeline** puts the threads together
and states their properties. **Upload** has the page's pump, the handler and
the event loop: a body that fits in memory is read without giving up the loop
(`loop`), a larger one (`Large`) is not.

**Custody** is the abstract specification of the whole process: where the
documents lie, what users have ordered, and the only ways a document moves. It
has no threads, names, register or cache. `Pipeline` instantiates it with the
documents in the folders and with the running requests as orders;
`KeepsCustody` says that every step of the process is a step of `Custody` or
leaves it unchanged. `Filing` instantiates it too: there a document counts as
filed when it has, or had, a complete copy, and the orders are the requests that
are under way. The two models of filing, one with reused names and one folder,
the other with many folders and broken copies, so keep one and the same promise.

**Naming** has the three programs that make a file name: `buildName` of
`app.js`, `render_filename` of `naming.py`, and the prototype's `buildName`. A
text is a sequence of tokens: words, a run of white space, characters that no
file name may hold, a dollar sign with the character after it, placeholders.
`String.replace` is modelled with its traps, `str.format` without them: only the
first occurrence is replaced, the inserted text is scanned by the next
replacement, and of its dollar patterns `$$` is a dollar sign, `$&` the
placeholder, and `$pre` and `$post`, which stand for a dollar sign with a back
quote and with a quote, are the text before and behind the placeholder.

**ReviewForm** is one document under review: the widgets and the hidden inputs
as separate fields of `form`, one action per handler of `initReview`, the two
posts, the answers of `confirm` and `execute` (with a summary, a redirect, or
the same page again), and around them saves of the configuration, reanalysis,
other pages, files that appear in the targets, lost requests and lost answers.
Each version of the configuration has folders of its own (`Targets`). A summary
lists those of the posted folders that the configuration has when it is rendered
(`listed`), and posts all of them (`chips`). A filing that breaks off leaves the
copies it has made (`ServeBreaks`).
Dates are tokens: `Written[format][day]` is the text of a day in a format, and
`NormalizeDate` understands ISO texts only, as `strptime(…, "%Y-%m-%d")` does.

**Prototype** has the state of `App`, `Review` and `Config` and the timers of
the prototype; **ProtoData** has the sample documents, patterns, folders and
the configuration of `data.js`. Of the form, sender, document type, date, pattern
and targets can be edited; the description has no effect on anything, and the
coloured preview is not modelled. A configuration text is its two modes and the
set of what else is wrong with it.

### Abstractions

* A click on a button while its request is under way is queued by htmx and sent
  afterwards; in `ReviewForm` it is a later click. A browser that restores a
  form over a reload is not modelled: the page starts as the template renders it.
* A template holds the four known placeholders, as the configuration's
  validation demands, but no escaped braces and no format specification.
* A React effect runs after the event that causes it and before the next one;
  `Settle` is part of that event. Timers of one delay fire in the order of
  their start, timers of different delays in any order, which allows more than
  the clock does.
* The order in which a scan, a reanalysis and the copies of a request go
  through their lists is left open; the code's order is one of those allowed.
* `copy2` is one step: complete, or broken off with a torn file. Two copies into
  one place do not interleave byte by byte.
* A move or a rename, into the trash, `error/` or the cache, is one step, also
  between two file systems, where it is a copy and a deletion.
* `Places` bounds where files of others, and copies of a filing that broke off,
  come to lie in `ReviewForm`; every filing itself puts its file where its name says.
* `exists()` and the following `move` in the search for a free trash name are
  one step (`IntoTrash`); so are the `exists()` calls of `_unique_pdf_name`.
* A PDF is dropped complete and under a free name. In-place replacement raises
  no event in the watcher, and the extraction of a growing file is not modelled.
* Suffix and path checks are constants: `Names` are names that the watcher
  accepts, `StemOf` is the cache's key.

## 3. The runs

`MC*.tla` give the small instances their values; each `.cfg` names its own
bounds: `MaxConfig` saves of the configuration, `MaxCrashes` deaths of the
process, and the number of documents, which bounds the drops, because every
drop is a document of its own. `CHECK_DEADLOCK FALSE` stands everywhere because
these systems stop: once no more files come, the process waits.

### Passing

* **startup** (`MCPipeline`): two names, two documents of which one is a scan
  without text, in the folder or dropped at any moment of the start-up, one
  save and one crash. `InboxListed` and `ExtractedOnce` need two submitters, a
  file both see, and a prune; a second file adds the order of two jobs.
  `ReanalysisRuns` needs an artifact, a save and a queue.
* **removal**: two requests that file or remove while the worker runs, in any
  mixture and also on the same document, permanent deletion after filing, and a
  crash. A name is dropped again only when nothing in the process remembers it
  (`FreshNames`), which is what a user does who waits for the page to change,
  and the configuration is not saved. Under these conditions suggestions and
  artifacts belong to their PDF
  (`SuggestionFits`, `ArtifactFits`), filing takes what was reviewed
  (`FiledAsReviewed`), `error/` holds only unreadable files, no PDF is lost
  (`NothingLost`), each drop ends analyzed or gone (`DropAnalyzed`), and the
  process implements `Custody` (`KeepsCustody`). Without the condition on names
  most of these fail; see below. With a save (`MaxConfig = 1`) the first three
  fail too: a removal that overtakes the worker, or a crash, leaves an artifact
  behind; a new PDF of the name is registered; and `reanalyze_all` runs between
  the `register.add` and the `_work.put` of `Worker.submit`, so that the
  reanalysis comes before the first extraction and publishes the suggestion of
  the PDF that is gone. The extraction that follows corrects it, if nobody has
  filed the new PDF on it by then.
* **reuse**: no condition on names, a document whose artifact does not parse, a
  save. What holds even then: a pending entry always has a job, a job past its
  cached artifact ends with a verdict (`NeverLeftAnalyzing`), pending entries
  settle. An artifact that cannot be read fails the job, but not the worker.
* **upload** (`MCUpload`): three uploads that want one name, two from one page,
  large and small, one connection that breaks, one file by hand, one crash.
  Two uploads are enough to race; the third gives the page a queue and the
  name search a second candidate.
* **filing** (`MCFiling`): two requests, two documents, one name, two target
  folders and one that is missing, a foreign file, a crash. Two targets are
  enough to have one copy done and the other broken. `KeepsCustody` is the
  refinement of `Custody`.
* **review** (`MCReview`): one document with one found day and one that can be
  typed, two targets, two versions of the configuration that differ in
  templates, in their patterns, in the summary mode and in their folders (the
  second one drops the recommended folder, so that a page filled in before the
  save files into a folder that its summary does not list), texts that become empty
  or lose characters in a name, a foreign file under the very name of the
  untouched form. `MaxLate = 1` edits while a request or the summary is open:
  one is enough for the form to differ from what was posted. The run also
  evaluates `NamesAgree`, `NamesHoldDate` and `IsoDates`, the hypotheses of
  theorems, for the instance, and `NamingTraps`, which shows that each trap of
  `String.replace` makes the page's name differ from the server's.
* **prototype** (`MCPrototype`): four of the six sample documents, one for each
  way to be listed: ready from the start, waiting for two timers, in error, and
  ready with a conflict. `MaxNotices = 2` removals and toasts at a time lets a
  document be executed twice before it goes and two toasts fade in order. Three
  texts: the saved one, another valid one, and one with two errors. One folder
  beside the recommended ones, one typed sender and one typed document type. With
  four documents the overview shows them all; its limit of six never bites.

### Violated on purpose

Each of these checks one sentence of the repository's documentation or comments
and TLC shows how the code departs from it. `PROJECT.json` quotes the sentence.

* **unreadable_ready**: `extract` caches the artifact before it finds that there
  is no text; the next save of the configuration queues the error entry for
  reanalysis, which skips that check, and it becomes ready.
* **stale_config**: an extraction under way during a save publishes a suggestion
  of the old configuration; it had no artifact yet, so nothing redoes it.
* **delete_unreviewed**: a PDF dropped under the name between copy and disposal
  is deleted without ever having been filed.
* **upload_overwrites**: two pages upload the same name with bodies that are not
  in memory; both find the name free, and `os.replace` does not look again.
* **date_dropped**: with `date_format: "%d.%m.%Y"` the date candidates of the
  review page are written in that format, `_normalize_date` parses ISO only, and
  a document whose candidate was picked is filed without its date. A date that
  is typed survives, because a date input posts ISO.

Two departures are what `FreshNames = TRUE` excludes in **removal** (with it
set to `FALSE`, TLC shows both as violations of `DropAnalyzed`): the entry of a PDF that went to `error/` stays listed, `add` refuses its path, and a
corrected PDF that is put back as `mkdocs/docs/troubleshooting.md:12-13` asks is
not analyzed until a restart; and a PDF dropped between the disposal of its
predecessor and `queue.remove` is refused by `add` and then loses that entry too.

More departures were met and are listed as hazards only:

* `a.pdf` and `a.PDF` share a cache entry.
* An artifact that vanishes between `exists()` and `read_text()`, or does not
  parse, leaves its entry `analyzing` for ever, and aborts `reanalyze_all` in the
  middle of a save, so that the entries after it keep their old suggestions.
* The prune of the start-up lists the entries first. It removes the artifact of a
  PDF that is dropped and extracted meanwhile: its entry is ready, and no later save
  reanalyzes it.
* Of two removals of one document in trash mode the second ends with status 500.
* The summary lists only those of the chosen folders that the configuration still
  has (`routes.py:282`), but posts all, and `execute` files into all
  (`_summary_modal.html:38`), although `docs/mvp/ui.md:118-119` promises the full
  path for each chosen folder. `FiledAsShown` says how far the promise is kept:
  nothing is filed into a folder that was not highlighted at Confirm, and the
  summary leaves none out that its configuration has.
* The prototype's coloured preview looks for placeholders in typed texts too
  (`components.jsx:18-47`), so it shows another text than the name for a sender
  such as `{typ}`.

`process()` likewise
overwrites a file that appears in a target after its check, although
`mkdocs/docs/usage.md:41` promises never to overwrite anything without asking;
`CopiesOverwriteOnlyNewer` says exactly how far the promise is kept.

### Fairness

`FairSpec` adds weak fairness of the start-up, of the observer, of the worker,
of each request and of a save in `Pipeline`, of each handler and pump in
`Upload`, and of the timers in `Prototype`: a timer that `setTimeout` has
started fires, and nothing clears one of these. Threads that can go on do go
on: all waiting is on a queue or on a register lock that is held for one call. The start-up includes the restart
after a crash, which `docker-compose.yml:16` (`restart: unless-stopped`) asks
for. A page goes on with its list as long as it is open: `AllSent` is about pages
that nobody closes. What users do (drop, request, save, offer) and crashes get no
fairness.

## 4. The proofs

For every value of the constants that satisfies `SystemAssumption`,
`NoneAssumption`, `UploadAssumption`, `FilingAssumption`, `ReviewAssumption`, or
`PrototypeAssumption` and `ConfigAssumption`:

* **TypeCorrect** (`PipelineTypes`): `Spec => []TypeOK`, with one lemma per group
  of actions. `FieldsSet`, a conjunct of it, says which optional fields a
  thread may rely on at which point; without it types are not inductive.
* **PendingCovered** (`PipelineProofs`): `PendingHasJob` is inductive together
  with `TypeOK`. The argument: an entry is made pending only by `SubmitAdd`,
  which leaves the name in `holding`; the name passes to the queue and to the
  worker, whose first step ends the pending state. A removal only helps.
* **NothingLostIfCareful**: if names are not reused while remembered, or if
  both disposals go to the trash, no PDF is lost. The inductive strengthening
  (`DisposesKnown`, `Known`) says that a request which is about to delete a file
  has that very document in `filed`, or has looked it up for removal. The
  hypothesis `Careful` is needed: `delete_unreviewed` is the counterexample.
* **AnalysisEndsWithVerdict**: the action property `NeverLeftAnalyzing`, from
  the register lemma `VerdictEndsAnalysis` of `RegisterProofs`.
* **ExtractedOnceIfKept**, **ExtractedOnceAtStartup**: `ExtractedOnce`. An
  extraction is outstanding at a submitter, in the queue or in the worker;
  `OutstandingListed` says that its name is registered all that time, so `add`
  lets no second submitter pass, and each of the two hand-overs frees the place
  it takes the name from. The first theorem assumes that no handler removes an
  entry whose extraction is outstanding, the second that there are no such
  handlers (`Requests = {}`), as in **startup**. Without the assumption TLC finds
  a second extraction even if names are never reused: the scan registers a file,
  a user removes it at once, and the observer then delivers the event it still
  had for it.
* **UploadTypes**, **UploadsComplete**: `NoHalfFile`, by the invariant that an
  upload which is about to replace has been written completely.
* **SerialUploadsSafe**: if no body suspends the handler (`Large = {}`) and
  nobody else writes to the folder (`ByHand = {}`), nothing is overwritten. The
  invariant: from the choice of the name to the replacement the loop belongs to
  the upload and the name stays free.
* **OnlyNewerOverwritten**, **PagesSpareTheirOwn**: `OverwritesOnlyNewer` and
  `SamePageSafe`. `ReplaceInv` says that no file that an upload saw is at its
  target by now (`TargetNotSeen`), because a file that has been in the folder does
  not come in again (`SeenHaveBeenIn`); and that a page has one upload on its way
  unless it lost track of one (`OneOnItsWay`), so that its target is not held by
  another upload of its page (`TargetNotOfPage`).
* **OnePageSafe**: nothing is overwritten if all uploads come from one page, no
  connection breaks and nobody else writes to the folder (`Alone`), however
  large the bodies are. With **SerialUploadsSafe** it says what
  **upload_overwrites** needs: two pages, or a lost connection, or somebody else.
* **FilingTypes**, **FiledDocumentsComplete**: `FiledCompletely`. `FilingInv`
  adds that a request which is copying has a complete copy in each target it is
  done with (`DoneTargetsHaveCopy`), and has done none before it copies
  (`NothingDoneYet`). A copy survives every write to another place, and a write
  to its own place is recorded in `replaced`.
* **NobodySeenIsOverwritten**, **RefusalLeavesNoCopy**: `CopiesOverwriteOnlyNewer`
  and `RefusedUntouched`. `SawThemFree` adds to `FilingInv` that the targets a
  copying request has not yet written to are none of the places that it saw
  taken; only `Check` looks, and nothing widens what is still to be written.
* **FilingKeepsCustody**: `Filing` implements `Custody` without a condition on
  names, since each document has a path of its own there. The step that needs an
  argument is the order for a document that another request has disposed of and
  not yet unlisted: `GoneIsOnOrder` says that the disposal's own order still
  stands, so `Custody` does not move.
* **OnlyUnreadableRejected**, **ImplementsCustody** (`CustodyProofs`): if names
  are used again only once forgotten (`FreshNames`), `error/` gets unreadable
  documents only, and the process implements `Custody`. Everything in the
  program goes by path and everything in `Custody` by document; `CustodyInv` is
  what connects the two: the documents in the inbox are apart from each other
  and from those that have left it (`Apart`), the worker's job and each request
  are about the document that has the name now (`JobFits`, `OrdersFit`), and a
  disposal knows its document (`DisposesKnown`). Without `FreshNames` the
  disposal in **delete_unreviewed** is no step of `Custody`.
* **SuggestionsFitUntilSaved**, **FiledAsReviewedUntilSaved** and, if every name
  has a stem of its own, **ArtifactsFitUntilSaved** (`CustodyProofs`):
  `SuggestionFits`, `FiledAsReviewed` and `ArtifactFits` under `FreshNames` as
  long as the configuration is not saved (`NeverSaved`), which is needed, as
  **removal** explains. `ReviewInv` follows a document from the extraction
  (`ReadingFits`) to the entry (`ReadyFits`) and the request (`CopiesFit`); it
  says that no job reads an old artifact (`NoReanalysis`).
* **ReadableUntilSaved** (`CustodyProofs`): without a save no PDF without text is
  offered for review, names reused or not: `extract` lets none through
  (`AnalyzedReadable`) and no job reads an old artifact. So the save in
  **unreadable_ready** is essential to it.
* **PartsAreSwept** (`UploadProofs`): `PartsSwept`, by the invariants `QueueFits`
  and `PartsInHand`: a temporary file belongs to an upload whose
  handler is between the choice of its name and its end, or a crash left it.
* **PageSubmitsWhatItShows**, **ConfirmEnabledWhenComplete** (`ReviewProofs`):
  `ShownIsSubmitted` and `ConfirmIffComplete`. `PageInv` says that the highlight,
  the kind and the selected date agree (`FormFits`), and that the form is as
  `refresh` leaves it.
* **PreviewIsNameIfNamesAgree**, **FiledAsShownIfNamesAgree**: `PreviewIsName`
  and `FiledAsShown` under the hypothesis `NamesAgree`,
  that script and server give one name to every form. The hypothesis is about
  the templates and the texts alone: a template that repeats a placeholder, a
  text that holds one or a dollar pattern, or a date format other than ISO
  refutes it. `RequestInv` says that a request and the summary carry the values
  of the form that was shown at Confirm (`Carries`), and that the summary lists
  those of its folders that its configuration has, so that neither edits made
  since nor a save that drops a folder can matter.
* **ReviewTypes**, and **FiledUnderDateIfIso**: `FiledUnderItsDate` if
  `date_format` is left at ISO (`IsoDates`) and every template has a place for
  the date (`NamesHoldDate`). `DatedRequests` says that a request and the
  summary made from it carry a date, and in ISO `NormalizeDate` understands it;
  **date_dropped** is what happens in another format.
* **PrototypeTypes** (`PrototypeProofs`): types with the facts that the effects
  rely on: a form holds a date of its own document and texts that can be typed,
  an editor's errors are those of some text, toasts and removals are within
  their bounds.
* **ReviewIsOfAReadyDocument**, **OnlyValidConfigInForce** (`PrototypeProofs`):
  `ReviewFits`, with the form's fields, and `InForceIsSaved`, with the fact that
  the errors on the screen are those of the text beside them (`EditorFits`).
* **ReadyDocumentsAreSuggested**, **NothingFiledOntoAName** (`PrototypeProofs`):
  `ReadyHasSuggestion`, since a timer that makes a document ready has its
  suggestion prepared (`TimersFit`), and `ExecutesWithoutConflict`.

Every safety and action property of the passing runs is stated by a theorem.
Only model-checked: the liveness properties (`InboxListed`, `ReanalysisRuns`,
`DropAnalyzed`, `PendingSettles`, `AllSent`, `RemovedGoes`), since fairness and
`~>` are out of the prover's reach, and the hypotheses `NamesAgree` and
`NamesHoldDate`: what `Naming` computes for every template is
induction over data, so TLC evaluates them for the instances.
None of the modules has a `RECURSIVE` operator.

## 5. Not modelled

* The analyzer and the suggestion (date finding, scoring of targets) and the
  language lookup: pure functions of a text and the configuration. In the
  models a suggestion is the pair of a document and a configuration's version.
* The read-only pages, with their choice of the next ready document, and the
  health probes: they change nothing.
* Two concurrent saves of the configuration, the five seconds that `stop` waits
  for the worker, PDFs that are replaced in place or still being written. These
  are listed as hazards without a property.
* Theme, tabs and toasts of `app.js`, layout and icons of the prototype, and its
  `tweaks-panel.jsx`, a generic panel of the design tool that changes the
  layout, density and accent. Of these only the layout matters to the
  prototype's behaviour; it is the constant `Dashboard`.
* Templates other than the review form and the summary, styles, container files.

## 6. What is left

1. Two savers of the configuration: the file, `app.state`, the reanalyses.
2. Start, health probes, and the shutdown sentinel with its timeout.
3. `_next_ready` and `_next_ready_after`, so that skipping visits every ready
   document and ends; date finding and scoring as pure modules against a
   reference definition.
4. Proofs of what holds of suggestions after a save, when no artifact of an
   earlier PDF is left.
