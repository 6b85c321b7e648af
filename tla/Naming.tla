------------------------------- MODULE Naming -------------------------------
(***************************************************************************)
(* How a filename is made from a pattern and the fields of a form: in the  *)
(* browser (app.js), on the server (naming.py) and in the prototype        *)
(* (components.jsx).                                                       *)
(*                                                                         *)
(* A text, a template and a name are sequences of tokens: words, a run of  *)
(* white space, characters that no file name may hold, placeholders, and   *)
(* a "$" with the character after it.                                      *)
(***************************************************************************)
EXTENDS Integers, SequencesExt

CONSTANTS
    Space,      \* a run of white space
    Illegal     \* / \ : * ? " < > |

(* What stands for an empty field, and the ending of every name.           *)
Fallback == [sender |-> <<"Unbekannt">>, doctype |-> <<"Dokument">>,
             description |-> <<>>]
Extension == <<".pdf">>
Separator == "-"

(* strip, then a hyphen for each run of white space, then no path          *)
(* characters: the same function in Python and in JavaScript.              *)
Trim(s) ==
    LET inner == {i \in 1..Len(s) : s[i] # Space}
    IN  IF inner = {} THEN <<>> ELSE SubSeq(s, Min(inner), Max(inner))

Slug(s) ==
    SelectSeq(ReplaceAll(Trim(s), Space, Separator), LAMBDA c : c \notin Illegal)

(* A part of a name: the slug of a field or, if nothing is left of it,     *)
(* the word that stands for it.                                            *)
Part(parts, field) ==
    LET s == Slug(parts[field]) IN IF s = <<>> THEN Fallback[field] ELSE s

(* String.replace of JavaScript with a string as pattern: only the first   *)
(* occurrence, and a "$" in the value may stand for itself, for what was   *)
(* matched, or, with a back quote or a quote (here "$pre" and "$post"),    *)
(* for what is before or after it.                                         *)
Substitute(s, hole, value) ==
    LET at == SelectInSeq(s, LAMBDA c : c = hole)
        before == SubSeq(s, 1, at - 1)
        after  == SubSeq(s, at + 1, Len(s))
        expanded(c) == CASE c = "$$" -> <<"$">>
                         [] c = "$&" -> <<hole>>
                         [] c = "$pre" -> before
                         [] c = "$post" -> after
                         [] OTHER -> <<c>>
    IN  IF at = 0 THEN s
        ELSE before \o FlattenSeq([i \in 1..Len(value) |-> expanded(value[i])])
             \o after

(* The live preview: one replacement after the other, each in the result   *)
(* of those before it.                                                     *)
BuildName(template, parts) ==
    LET s1 == Substitute(template, "{date}", parts.date)
        s2 == Substitute(s1, "{sender}", Part(parts, "sender"))
        s3 == Substitute(s2, "{doctype}", Part(parts, "doctype"))
    IN  Substitute(s3, "{description}", Part(parts, "description")) \o Extension

(* The server's name: every placeholder of the template, and none in what  *)
(* is put in (str.format).                                                 *)
RenderFilename(template, parts) ==
    LET filled(c) == CASE c = "{date}"        -> parts.date
                       [] c = "{sender}"      -> Part(parts, "sender")
                       [] c = "{doctype}"     -> Part(parts, "doctype")
                       [] c = "{description}" -> Part(parts, "description")
                       [] OTHER               -> <<c>>
    IN  FlattenSeq([i \in 1..Len(template) |-> filled(template[i])]) \o Extension

(* The prototype's name: as in the browser, with German placeholders and   *)
(* no description.                                                         *)
ProtoName(template, parts) ==
    LET s1 == Substitute(template, "{datum}", parts.date)
        s2 == Substitute(s1, "{absender}", Part(parts, "sender"))
    IN  Substitute(s2, "{typ}", Part(parts, "doctype")) \o Extension
=============================================================================
