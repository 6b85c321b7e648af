----------------------------- MODULE ProtoData ------------------------------
(***************************************************************************)
(* The sample documents and settings of the prototype (data.js, the timers *)
(* of app.jsx). A date is one token; labels, snippets and descriptions are *)
(* left out.                                                               *)
(***************************************************************************)
EXTENDS Sequences

FOLDERS == {"finanzen-rechnungen", "steuer-2026", "versicherung", "behoerden",
            "archiv"}

PATTERNS ==
    [standard |-> <<"{datum}", "_", "{absender}", "_", "{typ}">>,
     kompakt  |-> <<"{datum}", "_", "{typ}", "_", "{absender}">>,
     absender |-> <<"{absender}", "_", "{datum}">>]

EXISTING ==
    [f \in FOLDERS |->
        IF f = "finanzen-rechnungen"
        THEN {<<"2026-06-01", "_", "NetCom", "-", "Deutschland", "_",
                "Rechnung", ".pdf">>}
        ELSE {}]

(* A text of the configuration: its two modes, and what else is wrong.     *)
ConfigText(original, summary, faults) ==
    [original |-> original, summary |-> summary, faults |-> faults]

CONFIG == [original |-> "verschieben", summary |-> "bei_konflikt"]
CONFIG_TEXT == ConfigText("verschieben", "bei_konflikt", {})

(* What the analysis of a document suggests; "pre" is the preselected date. *)
Suggest(sender, doctype, recommended, dates) ==
    [sender |-> sender, doctype |-> doctype, pattern |-> "standard",
     recommended |-> recommended, dates |-> dates, pre |-> "a"]

(* A document that is not ready has its suggestion prepared (_ready), one  *)
(* in error has none.                                                      *)
DOCS ==
    [d1 |-> [status |-> "bereit",
             suggestion |-> Suggest(<<"Stadtwerke", " ", "Aurich">>, <<"Rechnung">>,
                 {"finanzen-rechnungen"},
                 [a |-> "2026-05-14", b |-> "2026-06-02", c |-> "2026-04-30"])],
     d2 |-> [status |-> "bereit",
             suggestion |-> Suggest(<<"Finanzamt", " ", "Bremen-Mitte">>,
                 <<"Steuerbescheid">>, {"behoerden", "steuer-2026"},
                 [a |-> "2026-05-28", b |-> "2026-06-30", c |-> "2025-12-31"])],
     d3 |-> [status |-> "analyse",
             suggestion |-> Suggest(<<"Amtsgericht", " ", "Oldenburg">>, <<"Schreiben">>,
                 {"behoerden"}, [a |-> "2026-06-09", b |-> "2026-06-23"])],
     d4 |-> [status |-> "wartet",
             suggestion |-> Suggest(<<"Nordstern", " ", "Versicherung">>,
                 <<"Versicherungspolice">>, {"versicherung"},
                 [a |-> "2026-06-10", b |-> "2026-07-01", c |-> "2027-07-01"])],
     d5 |-> [status |-> "fehler"],
     d6 |-> [status |-> "bereit",
             suggestion |-> Suggest(<<"NetCom", " ", "Deutschland">>, <<"Rechnung">>,
                 {"finanzen-rechnungen"}, [a |-> "2026-06-01", b |-> "2026-06-15"])]]

(* The one-shot timers that stand for the analysis, in the order in which  *)
(* they are due.                                                           *)
TIMERS == <<[doc |-> "d4", status |-> "analyse"],
            [doc |-> "d3", status |-> "bereit"],
            [doc |-> "d4", status |-> "bereit"]>>
=============================================================================
