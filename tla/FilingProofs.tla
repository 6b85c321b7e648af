---------------------------- MODULE FilingProofs ----------------------------
(* What holds of filing for every number of documents, targets, requests   *)
(* and crashes.                                                            *)
EXTENDS Filing, TLAPS

USE DEF history, RequestType, PCs

Alternatives(r) ==
    \/ Summary(r) \/ Build(r) \/ Check(r)
    \/ \E t \in Targets : Copy(r, t) \/ CopyBreaks(r, t)
    \/ CopyFails(r)
    \/ Dispose(r) \/ DisposeMissing(r) \/ DisposeFails(r)
    \/ Unlist(r) \/ Fail(r)

-----------------------------------------------------------------------------
(* Part 1: types.                                                          *)

LEMMA PlaceType ==
    ASSUME NEW r \in Requests, NEW t \in Targets, requests[r].name \in FileNames
    PROVE  Place(r, t) \in Places
BY DEF Place, Places

LEMMA EndType ==
    ASSUME TypeOK, NEW r \in Requests, Refuse(r) \/ End(r),
           UNCHANGED <<folders, torn, inbox, trash, crashes, history>>,
           listed' \subseteq Docs
    PROVE  TypeOK'
BY DEF TypeOK, Refuse, End, Idle, NoRequest, Free, Content

LEMMA WriteType ==
    ASSUME TypeOK, NEW r \in Requests, NEW t \in Targets, WriteTo(r, t)
    PROVE  /\ Place(r, t) \in Places
           /\ folders' \in [Places -> Content \cup {None}]
           /\ replaced' \subseteq Places \X Docs
           /\ UNCHANGED <<inbox, trash, listed, crashes, filedAt>>
           /\ requests[r].pc = "copy"
<1> USE DEF TypeOK, WriteTo
<1>1. requests[r].pc = "copy" /\ requests[r].doc \in Docs /\ requests[r].name \in FileNames
  BY DEF Free
<1>2. Place(r, t) \in Places
  BY <1>1, PlaceType
<1>3. folders' \in [Places -> Content \cup {None}]
  BY <1>1, <1>2 DEF Content
<1>4. replaced' \subseteq Places \X Docs
  BY <1>2
<1> QED BY <1>1, <1>2, <1>3, <1>4

LEMMA StepType ==
    ASSUME TypeOK, NEW r \in Requests, Alternatives(r) PROVE TypeOK'
<1>1. CASE Summary(r)
  BY <1>1, EndType DEF Summary, TypeOK
<1>2. CASE Build(r)
  BY <1>2 DEF Build, Goto, TypeOK, Free
<1>3. CASE Check(r)
  <2>1. CASE Acceptable(r)
    BY <1>3, <2>1 DEF Check, TypeOK, Free
  <2>2. CASE ~Acceptable(r)
    BY <1>3, <2>2, EndType DEF Check, TypeOK
  <2> QED BY <2>1, <2>2
<1>4. ASSUME NEW t \in Targets, Copy(r, t) PROVE TypeOK'
  <2>1. WriteTo(r, t)
    BY <1>4 DEF Copy
  <2>2. /\ Place(r, t) \in Places /\ requests[r].pc = "copy"
        /\ folders' \in [Places -> Content \cup {None}]
        /\ replaced' \subseteq Places \X Docs
        /\ UNCHANGED <<inbox, trash, listed, crashes, filedAt>>
    BY <2>1, WriteType
  <2>3. torn' \subseteq Places
    BY <1>4 DEF Copy, TypeOK
  <2> QED BY <1>4, <2>2, <2>3 DEF Copy, Copied, TypeOK, Free
<1>5. ASSUME NEW t \in Targets, CopyBreaks(r, t) PROVE TypeOK'
  <2>1. WriteTo(r, t)
    BY <1>5 DEF CopyBreaks
  <2>2. /\ Place(r, t) \in Places /\ requests[r].pc = "copy"
        /\ folders' \in [Places -> Content \cup {None}]
        /\ replaced' \subseteq Places \X Docs
        /\ UNCHANGED <<inbox, trash, listed, crashes, filedAt>>
    BY <2>1, WriteType
  <2>3. torn' \subseteq Places
    BY <1>5, <2>2 DEF CopyBreaks, TypeOK
  <2> QED BY <1>5, <2>2, <2>3 DEF CopyBreaks, TypeOK, Free
<1>6. CASE CopyFails(r) \/ DisposeFails(r)
  <2>1. requests[r].pc = "copy" /\ requests' = [requests EXCEPT ![r].pc = "failed"]
    BY <1>6 DEF CopyFails, DisposeFails, Goto
  <2>2. UNCHANGED <<folders, torn, inbox, trash, listed, crashes, history>>
    BY <1>6 DEF CopyFails, DisposeFails
  <2> QED BY <2>1, <2>2 DEF TypeOK, Free
<1>7. CASE Dispose(r)
  <2>1. requests[r].name \in FileNames /\ requests[r].targets \subseteq Targets
    BY <1>7 DEF Dispose, Goto, TypeOK, Free
  <2>2. {Place(r, t) : t \in requests[r].targets} \subseteq Places
    BY <2>1, PlaceType
  <2>3. filedAt' \in [Docs -> SUBSET Places]
    BY <1>7, <2>2 DEF Dispose, TypeOK
  <2>4. requests[r].pc = "copy" /\ requests' = [requests EXCEPT ![r].pc = "unlist"]
    BY <1>7 DEF Dispose, Goto
  <2>5. inbox' \subseteq Docs /\ trash' \subseteq Docs
    BY <1>7 DEF Dispose, TypeOK
  <2>6. UNCHANGED <<folders, torn, listed, crashes, replaced>>
    BY <1>7 DEF Dispose
  <2> QED BY <2>3, <2>4, <2>5, <2>6 DEF TypeOK, Free
<1>8. CASE DisposeMissing(r)
  <2>1. requests[r].pc = "copy"
    BY <1>8 DEF DisposeMissing, Goto
  <2>2. PICK next \in {"unlist", "failed"} : requests' = [requests EXCEPT ![r].pc = next]
    BY <1>8 DEF DisposeMissing, Goto
  <2> QED BY <1>8, <2>1, <2>2 DEF DisposeMissing, TypeOK, Free
<1>9. CASE Unlist(r)
  <2>1. listed' \subseteq Docs
    BY <1>9 DEF Unlist, TypeOK
  <2> QED BY <1>9, <2>1, EndType DEF Unlist
<1>10. CASE Fail(r)
  <2>1. listed' \subseteq Docs
    BY <1>10 DEF Fail, TypeOK
  <2> QED BY <1>10, <2>1, EndType DEF Fail
<1> QED BY <1>1, <1>2, <1>3, <1>4, <1>5, <1>6, <1>7, <1>8, <1>9, <1>10 DEF Alternatives

LEMMA InitType == Init => TypeOK
BY FilingAssumption DEF Init, TypeOK, Idle, NoRequest, Free, Content

(* Every step keeps the types, for any documents, targets and requests.    *)
THEOREM FilingTypes == Spec => []TypeOK
<1>1. Init => TypeOK
  BY InitType
<1>2. TypeOK /\ [Next]_vars => TypeOK'
  <2> SUFFICES ASSUME TypeOK, [Next]_vars PROVE TypeOK'
      OBVIOUS
  <2>1. ASSUME NEW r \in Requests, NEW d \in Docs, NEW f \in FileNames,
               NEW ts \in SUBSET Targets, Submit(r, d, f, ts)
        PROVE  TypeOK'
    BY <2>1 DEF Submit, TypeOK, Free
  <2>2. ASSUME NEW r \in Requests, Step(r) PROVE TypeOK'
    BY <2>2, StepType DEF Step, Alternatives
  <2>3. ASSUME NEW p \in Places, NEW o \in Others, Appear(p, o) PROVE TypeOK'
    BY <2>3 DEF Appear, TypeOK, Content
  <2>4. CASE Crash
    BY <2>4, FilingAssumption DEF Crash, TypeOK, Idle, NoRequest, Free
  <2>5. CASE UNCHANGED vars
    BY <2>5 DEF vars, TypeOK
  <2> QED BY <2>1, <2>2, <2>3, <2>4, <2>5 DEF Next
<1> QED BY <1>1, <1>2, PTL DEF Spec

-----------------------------------------------------------------------------
(* Part 2: what is disposed of has been filed.  A request that is copying  *)
(* has a complete copy (or one that was replaced since) in each target     *)
(* that it is done with.                                                   *)

DoneTargetsHaveCopy ==
    \A r \in Requests : requests[r].pc = "copy"
        => /\ requests[r].targets # {}
           /\ \A t \in requests[r].targets \ requests[r].todo :
                 HasCopy(requests[r].doc, Place(r, t))

NothingDoneYet ==
    \A r \in Requests : requests[r].pc \in {"build", "check"}
                       => requests[r].todo = requests[r].targets

FilingInv == TypeOK /\ DoneTargetsHaveCopy /\ NothingDoneYet /\ FiledCompletely

(* What a complete copy survives.                                          *)
LEMMA CopyKept ==
    ASSUME NEW d, NEW p, HasCopy(d, p), UNCHANGED <<folders, torn, replaced>>
    PROVE  HasCopy(d, p)'
BY DEF HasCopy

LEMMA CopyKeptByWrite ==
    ASSUME TypeOK, NEW r \in Requests, NEW t \in Targets, WriteTo(r, t),
           torn' \subseteq torn \cup {Place(r, t)},
           NEW d \in Docs, NEW p \in Places, HasCopy(d, p)
    PROVE  HasCopy(d, p)'
<1>1. CASE p # Place(r, t)
  BY <1>1 DEF WriteTo, HasCopy, TypeOK
<1>2. CASE p = Place(r, t)
  BY <1>2 DEF WriteTo, HasCopy, TypeOK
<1> QED BY <1>1, <1>2

(* A step that touches neither the copies nor the watchfolder, and lets no *)
(* request begin to copy.                                                  *)
LEMMA QuietStep ==
    ASSUME FilingInv, TypeOK', UNCHANGED <<folders, torn, inbox, history>>,
           \A s \in Requests : \/ requests'[s] = requests[s]
                             \/ /\ requests'[s].pc # "copy"
                                /\ requests'[s].pc \in {"build", "check"}
                                   => requests'[s].todo = requests'[s].targets
    PROVE  FilingInv'
<1>1. FiledCompletely'
  BY DEF FilingInv, FiledCompletely, HasCopy
<1>2. DoneTargetsHaveCopy'
  BY DEF FilingInv, DoneTargetsHaveCopy, HasCopy, Place
<1>3. NothingDoneYet'
  BY DEF FilingInv, NothingDoneYet
<1> QED BY <1>1, <1>2, <1>3 DEF FilingInv

LEMMA WriteStep ==
    ASSUME FilingInv, TypeOK', NEW r \in Requests, NEW t \in Targets,
           Copy(r, t) \/ CopyBreaks(r, t)
    PROVE  FilingInv'
<1>1. WriteTo(r, t) /\ torn' \subseteq torn \cup {Place(r, t)}
  BY DEF Copy, CopyBreaks
<1>2. \A d \in Docs, p \in Places : HasCopy(d, p) => HasCopy(d, p)'
  BY <1>1, CopyKeptByWrite DEF FilingInv
<1>3. FiledCompletely'
  BY <1>1, <1>2 DEF FilingInv, FiledCompletely, WriteTo, TypeOK
<1>4. ASSUME NEW s \in Requests, requests'[s].pc = "copy"
      PROVE  /\ requests'[s].targets # {}
             /\ \A u \in requests'[s].targets \ requests'[s].todo :
                   HasCopy(requests[s].doc, Place(s, u))'
  <2>1. requests[s].pc = "copy" /\ requests'[s].targets = requests[s].targets
        /\ requests'[s].doc = requests[s].doc /\ requests'[s].name = requests[s].name
        /\ requests[s].doc \in Docs /\ requests[s].name \in FileNames
        /\ requests[s].targets \subseteq Targets
    BY <1>1, <1>4 DEF Copy, CopyBreaks, Copied, WriteTo, FilingInv, TypeOK, Free
  <2>2. requests[s].targets # {}
    BY <2>1 DEF FilingInv, DoneTargetsHaveCopy
  <2>3. ASSUME NEW u \in requests'[s].targets \ requests'[s].todo
        PROVE  HasCopy(requests[s].doc, Place(s, u))'
    <3>1. Place(s, u) \in Places /\ Place(s, u)' = Place(s, u)
      BY <2>1, <2>3, PlaceType DEF Place
    <3>2. CASE u \in requests[s].targets \ requests[s].todo
      BY <1>2, <2>1, <3>1, <3>2 DEF FilingInv, DoneTargetsHaveCopy, HasCopy
    <3>3. CASE u \in requests[s].todo
      <4>1. s = r /\ u = t /\ Copy(r, t)
        BY <1>4, <2>1, <2>3, <3>3 DEF Copy, CopyBreaks, Copied, FilingInv, TypeOK
      <4>2. folders'[Place(r, t)] = requests[r].doc /\ Place(r, t) \notin torn'
        BY <1>1, <3>1, <4>1 DEF Copy, WriteTo, FilingInv, TypeOK
      <4> QED BY <2>1, <3>1, <4>1, <4>2 DEF HasCopy
    <3> QED BY <2>1, <2>3, <3>2, <3>3
  <2> QED BY <2>1, <2>2, <2>3
<1>5. DoneTargetsHaveCopy'
  BY <1>1, <1>4 DEF DoneTargetsHaveCopy, Copy, CopyBreaks, Copied, WriteTo, FilingInv, TypeOK
<1>6. NothingDoneYet'
  BY <1>1 DEF NothingDoneYet, Copy, CopyBreaks, Copied, WriteTo, FilingInv, TypeOK
<1> QED BY <1>3, <1>5, <1>6 DEF FilingInv

(* The last target is done: the document may go.                           *)
LEMMA DisposeStep ==
    ASSUME FilingInv, TypeOK', NEW r \in Requests, Dispose(r)
    PROVE  FilingInv'
<1> DEFINE d == requests[r].doc
           filed == {Place(r, t) : t \in requests[r].targets}
<1>1. /\ requests[r].pc = "copy" /\ requests[r].todo = {} /\ d \in inbox
      /\ requests' = [requests EXCEPT ![r].pc = "unlist"]
      /\ inbox' = inbox \ {d} /\ filedAt' = [filedAt EXCEPT ![d] = filed]
      /\ UNCHANGED <<folders, torn, replaced>>
  BY DEF Dispose, Goto
<1>2. filed # {} /\ \A p \in filed : HasCopy(d, p)
  BY <1>1 DEF FilingInv, DoneTargetsHaveCopy
<1> HIDE DEF d, filed
<1>3. FiledCompletely'
  BY <1>1, <1>2 DEF FilingInv, FiledCompletely, HasCopy, TypeOK
<1>4. DoneTargetsHaveCopy'
  BY <1>1 DEF FilingInv, DoneTargetsHaveCopy, HasCopy, Place, TypeOK
<1>5. NothingDoneYet'
  BY <1>1 DEF FilingInv, NothingDoneYet, TypeOK
<1> QED BY <1>3, <1>4, <1>5 DEF FilingInv

LEMMA RequestStep ==
    ASSUME FilingInv, TypeOK', NEW r \in Requests, Alternatives(r)
    PROVE  FilingInv'
<1>1. CASE Summary(r)
  BY <1>1, QuietStep DEF Summary, Refuse, NoRequest, FilingInv, TypeOK
<1>2. CASE Build(r)
  <2>1. /\ requests[r].pc = "build" /\ requests' = [requests EXCEPT ![r].pc = "check"]
        /\ UNCHANGED <<folders, torn, inbox, history>>
    BY <1>2 DEF Build, Goto
  <2>2. requests'[r].pc = "check" /\ requests'[r].todo = requests'[r].targets
    BY <2>1 DEF FilingInv, TypeOK, NothingDoneYet
  <2>3. \A s \in Requests \ {r} : requests'[s] = requests[s]
    BY <2>1 DEF FilingInv, TypeOK
  <2> QED BY <2>1, <2>2, <2>3, QuietStep
<1>3. CASE Check(r)
  <2>1. CASE Acceptable(r)
    <3>1. /\ requests' = [requests EXCEPT ![r].pc = "copy",
                                         ![r].saw = {p \in Places : Exists(p)}]
          /\ requests[r].targets # {} /\ requests[r].pc = "check"
          /\ UNCHANGED <<folders, torn, inbox, history>>
      BY <1>3, <2>1 DEF Check, Acceptable
    <3>2. requests[r].todo = requests[r].targets
      BY <3>1 DEF FilingInv, NothingDoneYet
    <3>3. /\ requests'[r].pc = "copy" /\ requests'[r].todo = requests'[r].targets
          /\ requests'[r].targets = requests[r].targets
          /\ \A s \in Requests \ {r} : requests'[s] = requests[s]
      BY <3>1, <3>2 DEF FilingInv, TypeOK
    <3>6. DoneTargetsHaveCopy'
      <4>1. ASSUME NEW s \in Requests, s # r, requests'[s].pc = "copy",
                   NEW t \in requests'[s].targets \ requests'[s].todo
            PROVE  /\ HasCopy(requests[s].doc, Place(s, t))'
                   /\ requests'[s].targets # {}
        <5>1. requests'[s] = requests[s]
          BY <3>3, <4>1
        <5>2. HasCopy(requests[s].doc, Place(s, t)) /\ requests[s].targets # {}
          BY <4>1, <5>1 DEF FilingInv, DoneTargetsHaveCopy
        <5>3. UNCHANGED <<folders, torn, replaced>>
          BY <3>1
        <5> QED BY <5>1, <5>2, <5>3 DEF HasCopy, Place
      <4>2. \A s \in Requests : s # r /\ requests'[s].pc = "copy"
                               => requests'[s].targets # {}
        BY <3>3 DEF FilingInv, DoneTargetsHaveCopy
      <4> QED BY <3>1, <3>3, <4>1, <4>2 DEF DoneTargetsHaveCopy
    <3>4. FiledCompletely'
      BY <3>1 DEF FilingInv, FiledCompletely, HasCopy
    <3>5. NothingDoneYet'
      BY <3>3 DEF FilingInv, NothingDoneYet
    <3> QED BY <3>6, <3>4, <3>5 DEF FilingInv
  <2>2. CASE ~Acceptable(r)
    BY <1>3, <2>2, QuietStep DEF Check, Refuse, NoRequest, FilingInv, TypeOK
  <2> QED BY <2>1, <2>2
<1>4. ASSUME NEW t \in Targets, Copy(r, t) \/ CopyBreaks(r, t) PROVE FilingInv'
  BY <1>4, WriteStep
<1>5. CASE CopyFails(r) \/ DisposeFails(r)
  BY <1>5, QuietStep DEF CopyFails, DisposeFails, Goto, FilingInv, TypeOK
<1>6. CASE Dispose(r)
  BY <1>6, DisposeStep
<1>7. CASE DisposeMissing(r)
  <2>1. PICK next \in {"unlist", "failed"} : requests' = [requests EXCEPT ![r].pc = next]
    BY <1>7 DEF DisposeMissing, Goto
  <2> QED BY <1>7, <2>1, QuietStep DEF DisposeMissing, FilingInv, TypeOK
<1>8. CASE Unlist(r)
  BY <1>8, QuietStep DEF Unlist, End, Idle, NoRequest, FilingInv, TypeOK
<1>9. CASE Fail(r)
  BY <1>9, QuietStep DEF Fail, End, Idle, NoRequest, FilingInv, TypeOK
<1> QED BY <1>1, <1>2, <1>3, <1>4, <1>5, <1>6, <1>7, <1>8, <1>9 DEF Alternatives

LEMMA FilingInvariant == Spec => []FilingInv
<1>1. Init => FilingInv
  <2> SUFFICES ASSUME Init PROVE FilingInv
      OBVIOUS
  <2>1. TypeOK
    BY InitType
  <2>2. DoneTargetsHaveCopy /\ NothingDoneYet /\ FiledCompletely
    BY DEF Init, DoneTargetsHaveCopy, NothingDoneYet, FiledCompletely, Idle, NoRequest
  <2> QED BY <2>1, <2>2 DEF FilingInv
<1>2. FilingInv /\ TypeOK' /\ [Next]_vars => FilingInv'
  <2> SUFFICES ASSUME FilingInv, TypeOK', [Next]_vars PROVE FilingInv'
      OBVIOUS
  <2>1. ASSUME NEW r \in Requests, NEW d \in Docs, NEW f \in FileNames,
               NEW ts \in SUBSET Targets, Submit(r, d, f, ts)
        PROVE  FilingInv'
    BY <2>1, QuietStep DEF Submit, FilingInv, TypeOK
  <2>2. ASSUME NEW r \in Requests, Step(r) PROVE FilingInv'
    BY <2>2, RequestStep DEF Step, Alternatives
  <2>3. ASSUME NEW p \in Places, NEW o \in Others, Appear(p, o) PROVE FilingInv'
    <3>1. \A d \in Docs, q \in Places : HasCopy(d, q) => HasCopy(d, q)'
      BY <2>3, FilingAssumption DEF Appear, HasCopy, Exists, FilingInv, TypeOK
    <3>2. FiledCompletely'
      BY <2>3, <3>1 DEF Appear, FilingInv, FiledCompletely, TypeOK
    <3>3. \A r \in Requests, t \in Targets : requests[r].pc = "copy"
             => Place(r, t) \in Places /\ Place(r, t)' = Place(r, t)
                /\ requests[r].doc \in Docs
      BY <2>3, PlaceType DEF Appear, FilingInv, TypeOK, Place, Free
    <3>4. DoneTargetsHaveCopy'
      BY <2>3, <3>1, <3>3 DEF Appear, FilingInv, DoneTargetsHaveCopy, TypeOK
    <3>5. NothingDoneYet'
      BY <2>3 DEF Appear, FilingInv, NothingDoneYet
    <3> QED BY <3>2, <3>4, <3>5 DEF FilingInv
  <2>4. CASE Crash
    BY <2>4, QuietStep DEF Crash, Idle, NoRequest
  <2>5. CASE UNCHANGED vars
    BY <2>5, QuietStep DEF vars
  <2> QED BY <2>1, <2>2, <2>3, <2>4, <2>5 DEF Next
<1> QED BY <1>1, <1>2, FilingTypes, PTL DEF Spec

(* Whatever leaves the watchfolder by being filed has a complete copy at   *)
(* each place that the user chose, for any number of requests, targets,    *)
(* broken copies, foreign files and crashes.                               *)
THEOREM FiledDocumentsComplete == Spec => []FiledCompletely
<1>1. FilingInv => FiledCompletely
  BY DEF FilingInv
<1> QED BY <1>1, FilingInvariant, PTL

-----------------------------------------------------------------------------
(* Part 3: what a request may write over.  A request that is copying found *)
(* each of the places that it has still to write to free.                  *)

SawThemFree ==
    \A r \in Requests : requests[r].pc = "copy"
        => \A t \in requests[r].todo : Place(r, t) \notin requests[r].saw

(* What a step does with one request: all but Check keep it out of copying *)
(* or leave what it looked at alone.                                       *)
KeptAsSeen(r) ==
    requests'[r].pc = "copy"
        => /\ requests[r].pc = "copy"
           /\ requests'[r].todo \subseteq requests[r].todo
           /\ requests'[r].name = requests[r].name
           /\ requests'[r].saw = requests[r].saw

LEMMA CheckStep ==
    ASSUME FilingInv, NEW r \in Requests, Check(r), requests'[r].pc = "copy"
    PROVE  \A t \in requests'[r].todo : Place(r, t)' \notin requests'[r].saw
<1>1. Acceptable(r) /\ requests[r].pc = "check"
  BY DEF Check, Refuse, NoRequest, FilingInv, TypeOK
<1>2. requests' = [requests EXCEPT ![r].pc = "copy",
                                   ![r].saw = {p \in Places : Exists(p)}]
  BY <1>1 DEF Check
<1>3. /\ requests'[r].todo = requests[r].targets
      /\ requests'[r].name = requests[r].name
      /\ requests'[r].saw = {p \in Places : Exists(p)}
  BY <1>1, <1>2 DEF FilingInv, NothingDoneYet, TypeOK
<1> QED BY <1>1, <1>3 DEF Acceptable, Place

LEMMA RequestKept ==
    ASSUME FilingInv, [Next]_vars, NEW r \in Requests
    PROVE  KeptAsSeen(r) \/ Check(r)
<1> USE DEF KeptAsSeen, FilingInv, TypeOK
<1>1. ASSUME NEW s \in Requests, NEW d \in Docs, NEW f \in FileNames,
             NEW ts \in SUBSET Targets, Submit(s, d, f, ts)
      PROVE  KeptAsSeen(r)
  BY <1>1 DEF Submit
<1>2. ASSUME NEW s \in Requests, Step(s) PROVE KeptAsSeen(r) \/ Check(r)
  <2>1. CASE Summary(s)
    BY <2>1 DEF Summary, Refuse, NoRequest
  <2>2. CASE Build(s)
    BY <2>2 DEF Build, Goto
  <2>3. CASE Check(s)
    BY <2>3 DEF Check, Refuse, NoRequest
  <2>4. ASSUME NEW t \in Targets, Copy(s, t) PROVE KeptAsSeen(r)
    BY <2>4 DEF Copy, Copied, WriteTo
  <2>5. ASSUME NEW t \in Targets, CopyBreaks(s, t) PROVE KeptAsSeen(r)
    BY <2>5 DEF CopyBreaks
  <2>6. CASE CopyFails(s) \/ DisposeFails(s)
    BY <2>6 DEF CopyFails, DisposeFails, Goto
  <2>7. CASE Dispose(s)
    BY <2>7 DEF Dispose, Goto
  <2>8. CASE DisposeMissing(s)
    <3>1. PICK next \in {"unlist", "failed"} : requests' = [requests EXCEPT ![s].pc = next]
      BY <2>8 DEF DisposeMissing, Goto
    <3> QED BY <3>1
  <2>9. CASE Unlist(s) \/ Fail(s)
    BY <2>9 DEF Unlist, Fail, End, Idle, NoRequest
  <2> QED BY <1>2, <2>1, <2>2, <2>3, <2>4, <2>5, <2>6, <2>7, <2>8, <2>9 DEF Step
<1>3. ASSUME NEW p \in Places, NEW o \in Others, Appear(p, o) PROVE KeptAsSeen(r)
  BY <1>3 DEF Appear
<1>4. CASE Crash
  BY <1>4 DEF Crash, Idle, NoRequest
<1>5. CASE UNCHANGED vars
  BY <1>5 DEF vars
<1> QED BY <1>1, <1>2, <1>3, <1>4, <1>5 DEF Next

LEMMA SawInvariant == Spec => []SawThemFree
<1>1. Init => SawThemFree
  BY DEF Init, SawThemFree, Idle, NoRequest
<1>2. FilingInv /\ SawThemFree /\ [Next]_vars => SawThemFree'
  <2> SUFFICES ASSUME FilingInv, SawThemFree, [Next]_vars, NEW r \in Requests,
                      requests'[r].pc = "copy", NEW t \in requests'[r].todo
               PROVE  Place(r, t)' \notin requests'[r].saw
      BY DEF SawThemFree
  <2>1. CASE KeptAsSeen(r)
    BY <2>1 DEF KeptAsSeen, SawThemFree, Place
  <2>2. CASE Check(r)
    BY <2>2, CheckStep
  <2> QED BY <2>1, <2>2, RequestKept
<1> QED BY <1>1, <1>2, FilingInvariant, PTL DEF Spec

(* Somebody is about to write to p who had not seen it.                    *)
Covered(p) ==
    \E r \in Requests : /\ requests[r].pc = "copy"
                        /\ \E t \in requests[r].todo : p = Place(r, t)
                        /\ p \notin requests[r].saw

(* Whatever a copy writes over came after its request had looked, for any  *)
(* number of requests at once: nobody who was there before is overwritten  *)
(* (processor.py process).                                                 *)
THEOREM NobodySeenIsOverwritten == Spec => CopiesOverwriteOnlyNewer
<1>1. FilingInv /\ SawThemFree /\ [Next]_vars
        => \A p \in Places : Exists(p) /\ folders'[p] # folders[p]
              => \E r \in Requests :
                     /\ requests[r].pc = "copy"
                     /\ \E t \in requests[r].todo : p = Place(r, t)
                     /\ p \notin requests[r].saw
  <2> SUFFICES ASSUME FilingInv, SawThemFree, [Next]_vars, NEW p \in Places,
                      Exists(p), folders'[p] # folders[p]
               PROVE  Covered(p)
      BY DEF Covered
  <2>1. ASSUME NEW r \in Requests, NEW t \in Targets, WriteTo(r, t) PROVE Covered(p)
    <3>1. p = Place(r, t)
      BY <2>1 DEF WriteTo, FilingInv, TypeOK
    <3> QED BY <2>1, <3>1 DEF WriteTo, SawThemFree, Covered
  <2>2. ASSUME NEW q \in Places, NEW o \in Others, Appear(q, o) PROVE Covered(p)
    BY <2>2 DEF Appear, FilingInv, TypeOK
  <2>3. ASSUME NEW r \in Requests, Step(r) PROVE Covered(p)
    BY <2>1, <2>3 DEF Step, Summary, Build, Check, Copy, CopyBreaks, CopyFails, Dispose,
                      DisposeMissing, DisposeFails, Unlist, Fail
  <2> QED BY <2>2, <2>3 DEF Next, Submit, Crash, vars
<1> QED BY <1>1, FilingInvariant, SawInvariant, PTL
        DEF Spec, CopiesOverwriteOnlyNewer

(* A request that is refused had not written to any of its targets, so the *)
(* user may simply correct the form and send it again (processor.py        *)
(* process).                                                               *)
THEOREM RefusalLeavesNoCopy == Spec => RefusedUntouched
<1>1. FilingInv /\ [Next]_vars
        => \A r \in Requests : requests[r].pc # "refused" /\ requests'[r].pc = "refused"
                              => requests[r].todo = requests[r].targets
  <2> SUFFICES ASSUME FilingInv, [Next]_vars, NEW r \in Requests,
                      requests[r].pc # "refused", requests'[r].pc = "refused"
               PROVE  requests[r].todo = requests[r].targets
      OBVIOUS
  <2> USE DEF FilingInv, TypeOK
  <2>1. ASSUME NEW s \in Requests, Step(s) PROVE requests[r].pc \in {"build", "check"}
    <3>1. CASE Summary(s) \/ Check(s)
      BY <3>1 DEF Summary, Check, Refuse, NoRequest
    <3>2. CASE Build(s) \/ CopyFails(s) \/ Dispose(s) \/ DisposeFails(s)
      BY <3>2 DEF Build, CopyFails, Dispose, DisposeFails, Goto
    <3>3. ASSUME NEW t \in Targets, Copy(s, t) \/ CopyBreaks(s, t) PROVE FALSE
      BY <3>3 DEF Copy, CopyBreaks, Copied
    <3>4. CASE DisposeMissing(s)
      <4>1. PICK next \in {"unlist", "failed"} : requests' = [requests EXCEPT ![s].pc = next]
        BY <3>4 DEF DisposeMissing, Goto
      <4> QED BY <4>1
    <3>5. CASE Unlist(s) \/ Fail(s)
      BY <3>5 DEF Unlist, Fail, End, Idle, NoRequest
    <3> QED BY <2>1, <3>1, <3>2, <3>3, <3>4, <3>5 DEF Step
  <2>2. requests[r].pc \in {"build", "check"}
    <3>1. ASSUME NEW s \in Requests, NEW d \in Docs, NEW f \in FileNames,
                 NEW ts \in SUBSET Targets, Submit(s, d, f, ts)
          PROVE  FALSE
      BY <3>1 DEF Submit
    <3> QED BY <2>1, <3>1 DEF Next, Appear, Crash, Idle, NoRequest, vars
  <2> QED BY <2>2 DEF NothingDoneYet
<1> QED BY <1>1, FilingInvariant, PTL DEF Spec, RefusedUntouched

-----------------------------------------------------------------------------
(* Part 4: filing implements Custody.                                      *)

(* A document that has left the watchfolder and is still listed is with    *)
(* the request that disposed of it, and so still on order.                 *)
GoneIsOnOrder ==
    \A d \in listed \ inbox :
        \E r \in Requests : requests[r].pc = "unlist" /\ requests[r].doc = d

Order(d) == [doc |-> d, kind |-> "execute"]

Active(r) == requests[r].pc \notin Free

(* A step of the others leaves the one that unlists at its place.          *)
LEMMA GoneStays ==
    ASSUME GoneIsOnOrder, inbox' = inbox, listed' \subseteq listed,
           \A r \in Requests : requests[r].pc = "unlist" => requests'[r] = requests[r]
    PROVE  GoneIsOnOrder'
BY DEF GoneIsOnOrder

LEMMA GoneStep ==
    ASSUME TypeOK, GoneIsOnOrder, [Next]_vars PROVE GoneIsOnOrder'
<1> USE DEF TypeOK
<1>1. ASSUME NEW r \in Requests, NEW d \in Docs, NEW f \in FileNames,
             NEW ts \in SUBSET Targets, Submit(r, d, f, ts)
      PROVE  GoneIsOnOrder'
  BY <1>1, GoneStays DEF Submit, Free
<1>2. ASSUME NEW r \in Requests, Step(r) PROVE GoneIsOnOrder'
  <2>1. CASE Summary(r) \/ Build(r) \/ Check(r) \/ CopyFails(r) \/ Fail(r)
    BY <2>1, GoneStays DEF Summary, Build, Check, CopyFails, Fail, Refuse, End, Goto
  <2>2. ASSUME NEW t \in Targets, Copy(r, t) \/ CopyBreaks(r, t) PROVE GoneIsOnOrder'
    BY <2>2, GoneStays DEF Copy, CopyBreaks, WriteTo, Copied
  <2>3. CASE Dispose(r)
    <3>1. /\ requests[r].pc = "copy"
          /\ requests' = [requests EXCEPT ![r].pc = "unlist"]
          /\ inbox' = inbox \ {requests[r].doc} /\ listed' = listed
      BY <2>3 DEF Dispose, Goto
    <3>2. requests'[r].pc = "unlist" /\ requests'[r].doc = requests[r].doc
      BY <3>1
    <3>3. \A q \in Requests \ {r} : requests'[q] = requests[q]
      BY <3>1
    <3> QED BY <3>1, <3>2, <3>3 DEF GoneIsOnOrder
  <2>4. CASE DisposeMissing(r) \/ DisposeFails(r)
    BY <2>4, GoneStays DEF DisposeMissing, DisposeFails, Goto
  <2>5. CASE Unlist(r)
    <3>1. /\ listed' = listed \ {requests[r].doc} /\ inbox' = inbox
          /\ \A q \in Requests \ {r} : requests'[q] = requests[q]
      BY <2>5 DEF Unlist, End
    <3> QED BY <3>1 DEF GoneIsOnOrder
  <2> QED BY <1>2, <2>1, <2>2, <2>3, <2>4, <2>5 DEF Step
<1>3. ASSUME NEW p \in Places, NEW o \in Others, Appear(p, o) PROVE GoneIsOnOrder'
  BY <1>3, GoneStays DEF Appear
<1>4. CASE Crash
  BY <1>4 DEF Crash, GoneIsOnOrder
<1>5. CASE UNCHANGED vars
  BY <1>5, GoneStays DEF vars
<1> QED BY <1>1, <1>2, <1>3, <1>4, <1>5 DEF Next

LEMMA GoneInvariant == Spec => []GoneIsOnOrder
<1>1. Init => GoneIsOnOrder
  BY DEF Init, GoneIsOnOrder
<1>2. TypeOK /\ GoneIsOnOrder /\ [Next]_vars => GoneIsOnOrder'
  BY GoneStep
<1> QED BY <1>1, <1>2, FilingTypes, PTL DEF Spec

(* What a step makes of the orders, from what it makes of the requests.    *)
LEMMA OrdersDwindle ==
    ASSUME \A r \in Requests : Active(r)' => Active(r) /\ requests'[r].doc = requests[r].doc
    PROVE  Orders' \subseteq Orders
BY DEF Orders, Active

LEMMA OrdersStay ==
    ASSUME \A r \in Requests : /\ Active(r)' <=> Active(r)
                               /\ Active(r) => requests'[r].doc = requests[r].doc
    PROVE  Orders' = Orders
BY DEF Orders, Active

LEMMA OrderGiven ==
    ASSUME NEW r \in Requests, Active(r) PROVE Order(requests[r].doc) \in Orders
BY DEF Orders, Active, Order

(* Which copies there are matters to Filed; a step that leaves them alone  *)
(* leaves it alone.                                                        *)
LEMMA FiledStays ==
    ASSUME \A d \in Docs, p \in Places : HasCopy(d, p)' <=> HasCopy(d, p)
    PROVE  Filed' = Filed
BY DEF Filed

LEMMA SettleStep ==
    ASSUME UNCHANGED <<folders, torn, inbox, trash, replaced>>, Orders' \subseteq Orders
    PROVE  Custodian!Settle
<1>1. Filed' = Filed
  BY FiledStays DEF HasCopy
<1> QED BY <1>1 DEF Custodian!Settle

LEMMA AskStep ==
    ASSUME TypeOK, GoneIsOnOrder, NEW r \in Requests, NEW d \in Docs,
           NEW f \in FileNames, NEW ts \in SUBSET Targets, Submit(r, d, f, ts)
    PROVE  Custodian!Ask(d, "execute") \/ Custodian!Settle
<1>1. requests[r].pc \in Free /\ d \in listed
      /\ UNCHANGED <<folders, torn, inbox, trash, replaced>>
  BY DEF Submit
<1>2. \A q \in Requests \ {r} : requests'[q] = requests[q]
  BY DEF Submit, TypeOK
<1>3. requests'[r].doc = d /\ requests'[r].pc = "build"
  BY DEF Submit, TypeOK
<1>4. Orders' = Orders \cup {Order(d)}
  BY <1>1, <1>2, <1>3 DEF Orders, Order, Free
<1>5. CASE d \in inbox
  <2>1. Filed' = Filed
    BY <1>1, FiledStays DEF HasCopy
  <2> QED BY <1>1, <1>4, <1>5, <2>1 DEF Custodian!Ask, Custodian!Order, Order
<1>6. CASE d \notin inbox
  <2>1. PICK q \in Requests : requests[q].pc = "unlist" /\ requests[q].doc = d
    BY <1>1, <1>6 DEF GoneIsOnOrder
  <2>2. Order(d) \in Orders
    BY <2>1, OrderGiven DEF Active, Free
  <2> QED BY <1>1, <1>4, <2>2, SettleStep
<1> QED BY <1>5, <1>6

(* A copy that breaks off changes nothing; a complete one files its        *)
(* document.                                                               *)
LEMMA WriteFiles ==
    ASSUME TypeOK, NEW r \in Requests, NEW t \in Targets, WriteTo(r, t),
           NEW d \in Docs, NEW p \in Places
    PROVE  /\ torn' = torn \cup {Place(r, t)} => (HasCopy(d, p)' <=> HasCopy(d, p))
           /\ torn' = torn \ {Place(r, t)}
              => (HasCopy(d, p)' <=> HasCopy(d, p) \/ (d = requests[r].doc /\ p = Place(r, t)))
<1> DEFINE q == Place(r, t)
           e == requests[r].doc
<1>1. q \in Places /\ folders' = [folders EXCEPT ![q] = e]
      /\ replaced' = IF folders[q] \in Docs /\ q \notin torn
                     THEN replaced \cup {<<q, folders[q]>>} ELSE replaced
  BY WriteType DEF WriteTo
<1> HIDE DEF q, e
<1>2. CASE p # q
  <2>1. folders'[p] = folders[p] /\ (<<p, d>> \in replaced' <=> <<p, d>> \in replaced)
    BY <1>1, <1>2 DEF TypeOK
  <2> QED BY <1>2, <2>1 DEF HasCopy, q
<1>3. CASE p = q
  <2>1. folders'[p] = e
    BY <1>1, <1>3 DEF TypeOK
  <2>2. <<p, d>> \in replaced' <=> HasCopy(d, p)
    BY <1>1, <1>3 DEF HasCopy
  <2> QED BY <1>3, <2>1, <2>2 DEF HasCopy, q, e
<1> QED BY <1>2, <1>3

LEMMA CopyStep ==
    ASSUME TypeOK, NEW r \in Requests, NEW t \in Targets, Copy(r, t)
    PROVE  Custodian!File(requests[r].doc)
<1> DEFINE d == requests[r].doc
<1>1. /\ WriteTo(r, t) /\ Copied(r, t) /\ torn' = torn \ {Place(r, t)}
      /\ requests[r].pc = "copy" /\ d \in inbox /\ d \in Docs
      /\ UNCHANGED <<inbox, trash>>
  BY DEF Copy, WriteTo, TypeOK
<1>2. Place(r, t) \in Places
  BY <1>1, WriteType
<1>3. \A e \in Docs, p \in Places :
          HasCopy(e, p)' <=> HasCopy(e, p) \/ (e = d /\ p = Place(r, t))
  BY <1>1, WriteFiles
<1>4. Filed' = Filed \cup {d}
  BY <1>1, <1>2, <1>3 DEF Filed
<1>5. Orders' = Orders
  BY <1>1, OrdersStay DEF Copied, Active, TypeOK
<1>6. Order(d) \in Orders
  BY <1>1, OrderGiven DEF Active, Free
<1> QED BY <1>1, <1>4, <1>5, <1>6 DEF Custodian!File, Custodian!Order, Order

LEMMA BreakStep ==
    ASSUME TypeOK, NEW r \in Requests, NEW t \in Targets, CopyBreaks(r, t)
    PROVE  Custodian!Settle
<1>1. WriteTo(r, t) /\ torn' = torn \cup {Place(r, t)} /\ UNCHANGED <<inbox, trash>>
      /\ requests[r].pc = "copy" /\ requests' = [requests EXCEPT ![r].pc = "failed"]
  BY DEF CopyBreaks, WriteTo
<1>2. Filed' = Filed
  BY <1>1, WriteFiles, FiledStays
<1>3. Orders' = Orders
  BY <1>1, OrdersStay DEF Active, Free, TypeOK
<1> QED BY <1>1, <1>2, <1>3 DEF Custodian!Settle

LEMMA RetireStep ==
    ASSUME FilingInv, NEW r \in Requests, Dispose(r)
    PROVE  Custodian!Retire(requests[r].doc, "execute", WhenFiled)
<1> DEFINE d == requests[r].doc
<1>1. /\ requests[r].pc = "copy" /\ requests[r].todo = {} /\ d \in inbox /\ d \in Docs
      /\ requests[r].name \in FileNames /\ requests[r].targets \subseteq Targets
      /\ requests' = [requests EXCEPT ![r].pc = "unlist"]
      /\ inbox' = inbox \ {d}
      /\ trash' = IF WhenFiled = "trash" THEN trash \cup {d} ELSE trash
      /\ UNCHANGED <<folders, torn, replaced>>
  BY DEF Dispose, Goto, FilingInv, TypeOK, Free
<1>2. PICK t \in requests[r].targets : HasCopy(d, Place(r, t))
  BY <1>1 DEF FilingInv, DoneTargetsHaveCopy
<1>3. d \in Filed
  BY <1>1, <1>2, PlaceType DEF Filed
<1>4. Filed' = Filed
  BY <1>1, FiledStays DEF HasCopy
<1>5. Orders' = Orders
  BY <1>1, OrdersStay DEF Active, Free, FilingInv, TypeOK
<1>6. Order(d) \in Orders
  BY <1>1, OrderGiven DEF Active, Free
<1> QED BY <1>1, <1>3, <1>4, <1>5, <1>6 DEF Custodian!Retire, Custodian!Order, Order

LEMMA AppearStep ==
    ASSUME TypeOK, NEW p \in Places, NEW o \in Others, Appear(p, o)
    PROVE  Custodian!Settle
<1>1. folders[p] = None /\ folders' = [folders EXCEPT ![p] = o]
      /\ UNCHANGED <<torn, inbox, trash, requests, replaced>>
  BY DEF Appear, Exists
<1>2. Filed' = Filed
  BY <1>1, FiledStays, FilingAssumption DEF HasCopy, TypeOK
<1>3. Orders' = Orders
  BY <1>1 DEF Orders
<1> QED BY <1>1, <1>2, <1>3 DEF Custodian!Settle

LEMMA CustodyStep ==
    ASSUME FilingInv, GoneIsOnOrder, [Next]_vars
    PROVE  [Custodian!Next]_(Custodian!vars)
<1> USE DEF FilingInv
<1>1. ASSUME NEW r \in Requests, NEW d \in Docs, NEW f \in FileNames,
             NEW ts \in SUBSET Targets, Submit(r, d, f, ts)
      PROVE  Custodian!Next
  BY <1>1, AskStep DEF Custodian!Next
<1>2. ASSUME NEW r \in Requests, Step(r) PROVE Custodian!Next
  <2>1. CASE Summary(r) \/ Build(r) \/ Check(r) \/ CopyFails(r) \/ DisposeMissing(r)
             \/ DisposeFails(r) \/ Unlist(r) \/ Fail(r)
    <3>1. UNCHANGED <<folders, torn, inbox, trash, replaced>>
      BY <2>1 DEF Summary, Build, Check, CopyFails, DisposeMissing, DisposeFails,
          Unlist, Fail
    <3>2. \A q \in Requests : Active(q)' => Active(q) /\ requests'[q].doc = requests[q].doc
      BY <2>1 DEF Summary, Build, Check, CopyFails, DisposeMissing, DisposeFails,
          Unlist, Fail, Refuse, End, Goto, Active, Idle, NoRequest, Free, TypeOK
    <3> QED BY <3>1, <3>2, OrdersDwindle, SettleStep DEF Custodian!Next
  <2>2. ASSUME NEW t \in Targets, Copy(r, t) PROVE Custodian!Next
    <3>1. requests[r].doc \in Docs
      BY <2>2 DEF Copy, WriteTo, TypeOK
    <3> QED BY <2>2, <3>1, CopyStep DEF Custodian!Next
  <2>3. ASSUME NEW t \in Targets, CopyBreaks(r, t) PROVE Custodian!Next
    BY <2>3, BreakStep DEF Custodian!Next
  <2>4. CASE Dispose(r)
    <3>1. requests[r].doc \in Docs
      BY <2>4 DEF Dispose, TypeOK
    <3> QED BY <2>4, <3>1, RetireStep DEF Custodian!Next
  <2> QED BY <1>2, <2>1, <2>2, <2>3, <2>4 DEF Step
<1>3. ASSUME NEW p \in Places, NEW o \in Others, Appear(p, o) PROVE Custodian!Next
  BY <1>3, AppearStep DEF Custodian!Next
<1>4. CASE Crash
  <2>1. \A r \in Requests : ~Active(r)'
    BY <1>4 DEF Crash, Active, Idle, NoRequest, Free
  <2> QED BY <1>4, <2>1, OrdersDwindle, SettleStep DEF Crash, Custodian!Next
<1>5. CASE UNCHANGED vars
  BY <1>5 DEF vars, Custodian!vars, Filed, HasCopy, Orders
<1> QED BY <1>1, <1>2, <1>3, <1>4, <1>5 DEF Next

(* The filing of many documents into many folders by many requests, with   *)
(* broken copies, foreign files and crashes, implements module Custody:    *)
(* what it copies was ordered, what it disposes of has had a complete copy *)
(* (routes.py execute, processor.py process, _dispose).                    *)
THEOREM FilingKeepsCustody == Spec => KeepsCustody
<1>1. Init => Custodian!Init
  <2> SUFFICES ASSUME Init PROVE Custodian!Init
      OBVIOUS
  <2>1. Filed = {}
    BY FilingAssumption DEF Init, Filed, HasCopy
  <2>2. Orders = {}
    BY DEF Init, Orders, Idle, NoRequest, Free
  <2> QED BY <2>1, <2>2 DEF Init, Custodian!Init
<1>2. FilingInv /\ GoneIsOnOrder /\ [Next]_vars => [Custodian!Next]_(Custodian!vars)
  BY CustodyStep
<1> QED BY <1>1, <1>2, FilingInvariant, GoneInvariant, PTL
        DEF Spec, KeepsCustody, Custodian!Spec
=============================================================================
