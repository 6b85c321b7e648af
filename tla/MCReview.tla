------------------------------ MODULE MCReview ------------------------------
(* Small instances of ReviewForm for TLC.                                  *)
EXTENDS ReviewForm

CONSTANTS t1, t2

Iso == [may |-> "2026-05-14", june |-> "2026-06-02"]
German == [may |-> "14.05.2026", june |-> "02.06.2026"]
BothFormats == [iso |-> Iso, german |-> German]
TwoDays == {"may", "june"}

(* The second version swaps the parts, always asks for the summary and no  *)
(* longer has the pattern "short" and the recommended folder.              *)
Templates ==
    <<[long  |-> <<"{date}", "_", "{sender}", "_", "{doctype}">>,
       short |-> <<"{sender}", "_", "{date}", "{description}">>],
      [long  |-> <<"{date}", "_", "{doctype}", "_", "{sender}">>]>>
Folders == <<{t1, t2}, {t2}>>
Defaults == <<"long", "long">>
Modes == <<"on_conflict", "always">>
IsoFormats == <<"iso", "iso">>
GermanFormats == <<"german", "german">>

Suggestion == [sender |-> <<"acme">>, doctype |-> <<"bill">>, description |-> <<>>]
TypedTexts ==
    [sender |-> {<<" ", "new", " ", "inc">>, <<"/", " ">>}, doctype |-> {},
     description |-> {<<":">>}]

(* With ISO dates this instance meets the hypotheses of the theorems       *)
(* FiledAsShownIfNamesAgree and FiledUnderDateIfIso.                       *)
ASSUME NamesAgreeAssumption ==
    Format = IsoFormats => NamesAgree /\ NamesHoldDate /\ IsoDates

(* Where it does not meet NamesAgree: a placeholder or a "$" in a text is  *)
(* put in as it is by the server and interpreted by the script.            *)
ASSUME NamingTraps ==
    \A text \in {"{doctype}", "$$", "$&", "$pre", "$post"} :
        LET template == <<"filed_", "{sender}", "_", "{doctype}">>
            parts == [Suggestion EXCEPT !.sender = <<text>>] @@ [date |-> <<>>]
        IN  BuildName(template, parts) # RenderFilename(template, parts)

(* The name of the untouched form with the found day.                      *)
SameName == {<<t1, <<"2026-05-14", "_", "acme", "_", "bill", ".pdf">>>>}
=============================================================================
