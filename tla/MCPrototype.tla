---------------------------- MODULE MCPrototype -----------------------------
(* A small instance of Prototype for TLC, from the sample data.            *)
EXTENDS Prototype, ProtoData

CONSTANT Sample      \* the documents of this instance

SampleDocs == [d \in Sample |-> DOCS[d]]
SampleOrder == SelectSeq(<<"d1", "d2", "d3", "d4", "d5", "d6">>, LAMBDA d : d \in Sample)
SampleTimers == SelectSeq(TIMERS, LAMBDA t : t.doc \in Sample)
TwoPatterns == [p \in {"standard", "absender"} |-> PATTERNS[p]]
TypedSenders == {<<" ", "/">>}
TypedDoctypes == {<<"Brief">>}
Texts == {CONFIG_TEXT, ConfigText("behalten", "immer", {}),
          ConfigText("kopieren", "nie", {"klammern"})}
=============================================================================
