---------------------------- MODULE UploadProofs ----------------------------
(* What holds of uploads for every number of pages, files and names.       *)
EXTENDS Upload, TLAPS

USE DEF browser, history

-----------------------------------------------------------------------------
(* Part 1: types.                                                          *)

LEMMA BrowserType ==
    ASSUME TypeOK, \/ \E u \in Uploads : Offer(u) \/ LoseConnection(u)
                   \/ \E p \in Pages : Pump(p)
    PROVE  TypeOK'
<1> USE DEF TypeOK, Ended
<1>1. ASSUME NEW u \in Uploads, Offer(u) PROVE TypeOK'
  <2>1. PageOf[u] \in Pages
    BY UploadAssumption
  <2>2. pages' \in [Pages -> Seq(Uploads)]
    BY <1>1, <2>1 DEF Offer
  <2> QED BY <1>1, <2>2 DEF Offer
<1>2. ASSUME NEW u \in Uploads, LoseConnection(u) PROVE TypeOK'
  BY <1>2 DEF LoseConnection
<1>3. ASSUME NEW p \in Pages, Pump(p) PROVE TypeOK'
  <2>1. Head(pages[p]) \in Uploads /\ Tail(pages[p]) \in Seq(Uploads)
    BY <1>3 DEF Pump
  <2>2. pages' \in [Pages -> Seq(Uploads)]
    BY <1>3, <2>1 DEF Pump
  <2> QED BY <1>3, <2>1, <2>2 DEF Pump
<1> QED BY <1>1, <1>2, <1>3

LEMMA HandlerType ==
    ASSUME TypeOK, NEW u \in Uploads, Handler(u) PROVE TypeOK'
<1> USE DEF TypeOK, Ended, Runs, Files
<1>1. CASE CheckPdf(u)
  BY <1>1 DEF CheckPdf
<1>2. CASE Refuse(u)
  BY <1>2 DEF Refuse
<1>3. CASE ChooseName(u)
  <2>1. Candidates[Wanted[u]] \in Seq(Names)
    BY UploadAssumption
  <2>2. PICK n \in FreeName(Candidates[Wanted[u]]) :
            uploads' = [uploads EXCEPT ![u] = [pc |-> "write", target |-> n]]
    BY <1>3 DEF ChooseName
  <2>3. n \in Names
    BY <2>1, <2>2 DEF FreeName
  <2>4. present' \in [Uploads -> SUBSET Files]
    BY <1>3 DEF ChooseName
  <2> QED BY <1>3, <2>2, <2>3, <2>4 DEF ChooseName
<1>4. CASE Write(u)
  BY <1>4 DEF Write
<1>5. CASE Replace(u)
  <2>1. overwritten' \subseteq Files
    BY <1>5 DEF Replace
  <2> QED BY <1>5, <2>1 DEF Replace
<1>6. CASE WriteFails(u)
  BY <1>6 DEF WriteFails
<1> QED BY <1>1, <1>2, <1>3, <1>4, <1>5, <1>6 DEF Handler

(* Every step keeps the types, for any pages, files, names and crashes.    *)
THEOREM UploadTypes == Spec => []TypeOK
<1>1. Init => TypeOK
  BY UploadAssumption DEF Init, TypeOK, Ended
<1>2. TypeOK /\ [Next]_vars => TypeOK'
  <2> SUFFICES ASSUME TypeOK, [Next]_vars PROVE TypeOK'
      OBVIOUS
  <2>1. CASE \E u \in Uploads : Offer(u) \/ LoseConnection(u)
    BY <2>1, BrowserType
  <2>2. CASE \E p \in Pages : Pump(p)
    BY <2>2, BrowserType
  <2>3. ASSUME NEW u \in Uploads, Handler(u) PROVE TypeOK'
    BY <2>3, HandlerType
  <2>4. ASSUME NEW f \in ByHand, NEW n \in Names, Arrive(f, n) PROVE TypeOK'
    BY <2>4 DEF TypeOK, Arrive, Files
  <2>5. ASSUME NEW n \in Names, Leave(n) PROVE TypeOK'
    BY <2>5 DEF TypeOK, Leave
  <2>6. CASE Crash
    <3>1. \A u \in Uploads : uploads'[u] \in {uploads[u], [uploads[u] EXCEPT !.pc = "failed"]}
      BY <2>6 DEF Crash
    <3>2. DOMAIN uploads' = Uploads /\ uploads' = [u \in Uploads |-> uploads'[u]]
      BY <2>6 DEF Crash
    <3> QED BY <2>6, <3>1, <3>2 DEF TypeOK, Crash, Ended
  <2>7. CASE UNCHANGED vars
    BY <2>7 DEF TypeOK, vars
  <2> QED BY <2>1, <2>2, <2>3, <2>4, <2>5, <2>6, <2>7 DEF Next
<1> QED BY <1>1, <1>2, PTL DEF Spec

-----------------------------------------------------------------------------
(* Part 2: what the watcher can see is complete.                           *)

(* What the event loop moves into place is written completely.             *)
WholeBeforeReplace ==
    \A u \in Uploads : uploads[u].pc = "replace" => u \in whole

LEMMA WholeStep ==
    ASSUME TypeOK, WholeBeforeReplace, NoHalfFile, [Next]_vars
    PROVE  WholeBeforeReplace' /\ NoHalfFile'
<1> USE DEF TypeOK, WholeBeforeReplace, NoHalfFile
<1>1. ASSUME UNCHANGED <<inbox, whole>>, NEW u \in Uploads, NEW pc \in STRING,
             pc # "replace", uploads' = [uploads EXCEPT ![u].pc = pc]
      PROVE  WholeBeforeReplace' /\ NoHalfFile'
  BY <1>1
<1>2. ASSUME NEW u \in Uploads, Offer(u) \/ LoseConnection(u)
      PROVE  WholeBeforeReplace' /\ NoHalfFile'
  BY <1>1, <1>2 DEF Offer, LoseConnection
<1>3. ASSUME NEW p \in Pages, Pump(p) PROVE WholeBeforeReplace' /\ NoHalfFile'
  <2>1. Head(pages[p]) \in Uploads
    BY <1>3 DEF Pump
  <2> QED BY <1>1, <1>3, <2>1 DEF Pump
<1>4. ASSUME NEW u \in Uploads, CheckPdf(u) \/ Refuse(u) \/ WriteFails(u)
      PROVE  WholeBeforeReplace' /\ NoHalfFile'
  BY <1>1, <1>4 DEF CheckPdf, Refuse, WriteFails
<1>5. ASSUME NEW u \in Uploads, ChooseName(u) PROVE WholeBeforeReplace' /\ NoHalfFile'
  <2>1. PICK n : uploads' = [uploads EXCEPT ![u] = [pc |-> "write", target |-> n]]
    BY <1>5 DEF ChooseName
  <2> QED BY <1>5, <2>1 DEF ChooseName
<1>6. ASSUME NEW u \in Uploads, Write(u) PROVE WholeBeforeReplace' /\ NoHalfFile'
  BY <1>6 DEF Write
<1>7. ASSUME NEW u \in Uploads, Replace(u) PROVE WholeBeforeReplace' /\ NoHalfFile'
  BY <1>7 DEF Replace
<1>8. ASSUME NEW f \in ByHand, NEW n \in Names, Arrive(f, n)
      PROVE  WholeBeforeReplace' /\ NoHalfFile'
  BY <1>8, UploadAssumption DEF Arrive
<1>9. ASSUME NEW n \in Names, Leave(n) PROVE WholeBeforeReplace' /\ NoHalfFile'
  BY <1>9, UploadAssumption DEF Leave, Files
<1>10. CASE Crash
  BY <1>10 DEF Crash
<1>11. CASE UNCHANGED vars
  BY <1>11 DEF vars
<1> QED BY <1>2, <1>3, <1>4, <1>5, <1>6, <1>7, <1>8, <1>9, <1>10, <1>11
        DEF Next, Handler

(* Whatever fails, whoever else writes into the folder and whenever the    *)
(* process dies, no half-written upload ever has the name of a PDF.        *)
THEOREM UploadsComplete == Spec => []NoHalfFile
<1>1. Init => WholeBeforeReplace /\ NoHalfFile
  BY UploadAssumption DEF Init, WholeBeforeReplace, NoHalfFile, Files
<1>2. /\ TypeOK /\ WholeBeforeReplace /\ NoHalfFile
      /\ [Next]_vars
      => WholeBeforeReplace' /\ NoHalfFile'
  BY WholeStep
<1> QED BY <1>1, <1>2, UploadTypes, PTL DEF Spec

-----------------------------------------------------------------------------
(* Part 3: uploads that the event loop runs from their choice of a name to *)
(* the replacement without a pause never overwrite anything.               *)

Serial == Large = {} /\ ByHand = {}

TargetFree ==
    \A u \in Uploads : uploads[u].pc \in {"write", "replace"}
                      => loop = u /\ inbox[uploads[u].target] = None

SerialInv == TargetFree /\ NeverOverwritten

LEMMA SerialStep ==
    ASSUME Serial, TypeOK, SerialInv, [Next]_vars PROVE SerialInv'
<1> USE DEF TypeOK, SerialInv, TargetFree, NeverOverwritten
<1>0. ASSUME NEW v \in Uploads, NEW pc \in {"queued", "sent", "choose", "refused", "failed"},
             uploads' = [uploads EXCEPT ![v].pc = pc],
             loop' = loop \/ loop \in {None, v}, UNCHANGED <<inbox, overwritten>>
      PROVE  SerialInv'
  <2>1. ASSUME NEW w \in Uploads, uploads'[w].pc \in {"write", "replace"}
        PROVE  w # v /\ uploads'[w] = uploads[w]
    BY <1>0, <2>1
  <2>2. ASSUME NEW w \in Uploads, uploads'[w].pc \in {"write", "replace"}
        PROVE  loop' = w /\ inbox'[uploads'[w].target] = None
    BY <1>0, <2>1, <2>2, UploadAssumption DEF Files
  <2> QED BY <1>0, <2>2
<1>1. ASSUME NEW u \in Uploads, Offer(u) \/ LoseConnection(u) PROVE SerialInv'
  <2>1. CASE Offer(u)
    BY <1>0, <2>1 DEF Offer
  <2>2. CASE LoseConnection(u)
    BY <2>2 DEF LoseConnection
  <2> QED BY <1>1, <2>1, <2>2
<1>2. ASSUME NEW p \in Pages, Pump(p) PROVE SerialInv'
  <2>1. Head(pages[p]) \in Uploads
    BY <1>2 DEF Pump
  <2> QED BY <1>2, <1>0, <2>1 DEF Pump
<1>3. ASSUME NEW u \in Uploads, CheckPdf(u) \/ Refuse(u) \/ WriteFails(u)
      PROVE  SerialInv'
  <2>1. PICK pc \in {"choose", "refused", "failed"} :
            uploads' = [uploads EXCEPT ![u].pc = pc]
    BY <1>3 DEF CheckPdf, Refuse, WriteFails
  <2>2. loop \in {None, u} /\ UNCHANGED <<inbox, overwritten>>
    BY <1>3 DEF CheckPdf, Refuse, WriteFails, Runs
  <2> QED BY <1>0, <2>1, <2>2
<1>4. ASSUME NEW u \in Uploads, ChooseName(u) PROVE SerialInv'
  <2>1. Candidates[Wanted[u]] \in Seq(Names)
    BY UploadAssumption
  <2>2. PICK n \in FreeName(Candidates[Wanted[u]]) :
            uploads' = [uploads EXCEPT ![u] = [pc |-> "write", target |-> n]]
    BY <1>4 DEF ChooseName
  <2>3. n \in Names /\ inbox[n] = None
    BY <2>1, <2>2 DEF FreeName
  <2>4. loop' = u /\ loop \in {None, u}
    BY <1>4 DEF ChooseName, Runs, Serial
  <2>5. \A v \in Uploads : v # u => uploads'[v] = uploads[v]
                                     /\ uploads[v].pc \notin {"write", "replace"}
    BY <2>2, <2>4, UploadAssumption DEF Files
  <2> QED BY <1>4, <2>2, <2>3, <2>4, <2>5 DEF ChooseName
<1>5. ASSUME NEW u \in Uploads, Write(u) PROVE SerialInv'
  BY <1>5 DEF Write, Runs
<1>6. ASSUME NEW u \in Uploads, Replace(u) PROVE SerialInv'
  <2>1. loop = u /\ inbox[uploads[u].target] = None
    BY <1>6 DEF Replace
  <2>2. ASSUME NEW v \in Uploads PROVE uploads'[v].pc \notin {"write", "replace"}
    <3>1. CASE v = u
      <4>1. uploads' = [uploads EXCEPT ![u].pc = "stored"]
        BY <1>6 DEF Replace
      <4> QED BY <3>1, <4>1
    <3>2. CASE v # u
      <4>1. uploads'[v] = uploads[v]
        BY <1>6, <3>2 DEF Replace
      <4> QED BY <2>1, <3>2, <4>1
    <3> QED BY <3>1, <3>2
  <2>3. overwritten' = overwritten
    BY <1>6, <2>1 DEF Replace
  <2> QED BY <2>2, <2>3
<1>7. ASSUME NEW f \in ByHand PROVE FALSE
  BY <1>7 DEF Serial
<1>8. ASSUME NEW n \in Names, Leave(n) PROVE SerialInv'
  BY <1>8 DEF Leave
<1>9. CASE Crash
  <2>1. \A v \in Uploads : uploads'[v].pc \notin {"write", "replace"}
    BY <1>9 DEF Crash, Sent, Ended
  <2> QED BY <1>9, <2>1 DEF Crash
<1>10. CASE UNCHANGED vars
  BY <1>10 DEF vars
<1> QED BY <1>1, <1>2, <1>3, <1>4, <1>5, <1>6, <1>7, <1>8, <1>9, <1>10
        DEF Next, Handler

(* If no body is so large that the handler waits for it, and nothing else  *)
(* writes into the folder, the search for a free name does what it         *)
(* promises, with any number of pages, files and crashes.                  *)
THEOREM SerialUploadsSafe == Serial => (Spec => []NeverOverwritten)
<1> SUFFICES ASSUME Serial PROVE Spec => []NeverOverwritten
    OBVIOUS
<1>1. Init => SerialInv
  BY DEF Init, SerialInv, TargetFree, NeverOverwritten
<1>2. TypeOK /\ SerialInv /\ [Next]_vars => SerialInv'
  BY SerialStep
<1>3. SerialInv => NeverOverwritten
  BY DEF SerialInv
<1> QED BY <1>1, <1>2, <1>3, UploadTypes, PTL DEF Spec

-----------------------------------------------------------------------------
(* Part 4: temporary files do not outlive their request.                   *)

(* What a page has still to send is queued, once, on that page.            *)
QueueFits ==
    \A p \in Pages : \A i \in 1..Len(pages[p]) :
        /\ uploads[pages[p][i]].pc = "queued"
        /\ PageOf[pages[p][i]] = p
        /\ \A j \in 1..Len(pages[p]) : pages[p][i] = pages[p][j] => i = j

(* A temporary file belongs to a handler between its choice of a name and  *)
(* its end.                                                                *)
PartsInHand == crashes = 0 => \A u \in parts : uploads[u].pc \in {"write", "replace"}

LEMMA TailAt ==
    ASSUME NEW S, NEW q \in Seq(S), q # <<>>, NEW i \in 1..Len(Tail(q))
    PROVE  Tail(q)[i] = q[i + 1] /\ i + 1 \in 1..Len(q)
OBVIOUS

(* Steps that take no upload into or out of a queue.                       *)
LEMMA QueueStays ==
    ASSUME TypeOK, QueueFits, pages' = pages,
           \A u \in Uploads : uploads[u].pc = "queued" => uploads'[u] = uploads[u]
    PROVE  QueueFits'
<1>1. \A p \in Pages : \A i \in 1..Len(pages[p]) : pages[p][i] \in Uploads
  BY DEF TypeOK
<1> QED BY <1>1 DEF QueueFits

LEMMA QueueOffer == ASSUME TypeOK, QueueFits, NEW u \in Uploads, Offer(u) PROVE QueueFits'
<1> DEFINE P == PageOf[u]
<1>1. P \in Pages
  BY UploadAssumption
<1>2. /\ uploads[u].pc = "offered" /\ uploads' = [uploads EXCEPT ![u].pc = "queued"]
      /\ pages' = [pages EXCEPT ![P] = Append(@, u)]
  BY DEF Offer
<1> HIDE DEF P
<1>3. \A p \in Pages : pages[p] \in Seq(Uploads)
  BY DEF TypeOK
<1>4. \A p \in Pages : \A i \in 1..Len(pages[p]) : pages[p][i] \in Uploads \ {u}
  BY <1>2, <1>3 DEF QueueFits
<1>5. uploads'[u].pc = "queued" /\ \A v \in Uploads \ {u} : uploads'[v] = uploads[v]
  BY <1>2 DEF TypeOK
<1>6. \A p \in Pages : pages'[p] = IF p = P THEN Append(pages[p], u) ELSE pages[p]
  BY <1>1, <1>2 DEF TypeOK
<1>7. PageOf[u] = P
  BY DEF P
<1>8. ASSUME NEW p \in Pages, NEW i \in 1..Len(pages'[p])
      PROVE  /\ uploads'[pages'[p][i]].pc = "queued"
             /\ PageOf[pages'[p][i]] = p
             /\ \A j \in 1..Len(pages'[p]) : pages'[p][i] = pages'[p][j] => i = j
  <2>1. CASE p # P
    <3>1. pages'[p] = pages[p] /\ pages[p][i] \in Uploads \ {u}
      BY <1>4, <1>6, <1>8, <2>1
    <3> QED BY <1>5, <3>1 DEF QueueFits
  <2>2. CASE p = P
    <3> DEFINE q == pages[p]
    <3>1. q \in Seq(Uploads) /\ pages'[p] = Append(q, u)
      BY <1>3, <1>6, <2>2
    <3>2. /\ \A j \in 1..Len(q) : q[j] \in Uploads \ {u}
          /\ \A j \in 1..Len(q) : uploads[q[j]].pc = "queued" /\ PageOf[q[j]] = p
          /\ \A j, k \in 1..Len(q) : q[j] = q[k] => j = k
      BY <1>4 DEF QueueFits
    <3> HIDE DEF q
    <3>3. /\ Len(pages'[p]) = Len(q) + 1 /\ pages'[p][Len(q) + 1] = u
          /\ \A j \in 1..Len(q) : pages'[p][j] = q[j]
      BY <3>1
    <3>4. \A j \in 1..Len(pages'[p]) : j \in 1..Len(q) \/ j = Len(q) + 1
      BY <3>1, <3>3
    <3> QED BY <1>5, <1>7, <2>2, <3>2, <3>3, <3>4
  <2> QED BY <2>1, <2>2
<1> QED BY <1>8 DEF QueueFits

LEMMA QueuePump == ASSUME TypeOK, QueueFits, NEW P \in Pages, Pump(P) PROVE QueueFits'
<1> DEFINE h == Head(pages[P])
<1>1. /\ pages[P] # <<>> /\ pages' = [pages EXCEPT ![P] = Tail(@)]
      /\ uploads' = [uploads EXCEPT ![h].pc = "sent"]
  BY DEF Pump
<1>2. \A p \in Pages : pages[p] \in Seq(Uploads)
  BY DEF TypeOK
<1>3. h = pages[P][1] /\ h \in Uploads /\ 1 \in 1..Len(pages[P])
  BY <1>1, <1>2
<1> HIDE DEF h
<1>4. \A v \in Uploads \ {h} : uploads'[v] = uploads[v]
  BY <1>1, <1>3 DEF TypeOK
<1>5. ASSUME NEW p \in Pages, NEW i \in 1..Len(pages'[p])
      PROVE  /\ uploads'[pages'[p][i]].pc = "queued"
             /\ PageOf[pages'[p][i]] = p
             /\ \A j \in 1..Len(pages'[p]) : pages'[p][i] = pages'[p][j] => i = j
  <2>1. CASE p # P
    <3>1. pages'[p] = pages[p] /\ pages[p][i] \in Uploads /\ pages[p][i] # h
      BY <1>1, <1>2, <1>3, <1>5, <2>1 DEF QueueFits, TypeOK
    <3> QED BY <1>4, <3>1 DEF QueueFits
  <2>2. CASE p = P
    <3> DEFINE q == pages[p]
    <3>1. q \in Seq(Uploads) /\ q # <<>> /\ pages'[p] = Tail(q)
      BY <1>1, <1>2, <2>2 DEF TypeOK
    <3>2. /\ \A j \in 1..Len(q) : uploads[q[j]].pc = "queued" /\ PageOf[q[j]] = p
          /\ \A j, k \in 1..Len(q) : q[j] = q[k] => j = k
          /\ h = q[1] /\ 1 \in 1..Len(q)
      BY <1>3, <2>2 DEF QueueFits
    <3> HIDE DEF q
    <3>3. \A j \in 1..Len(pages'[p]) : pages'[p][j] = q[j + 1] /\ j + 1 \in 1..Len(q)
                                        /\ j + 1 # 1
      BY <3>1, TailAt
    <3>4. \A j \in 1..Len(pages'[p]) : q[j + 1] \in Uploads \ {h}
      BY <3>1, <3>2, <3>3
    <3>5. uploads'[pages'[p][i]].pc = "queued" /\ PageOf[pages'[p][i]] = p
      BY <1>4, <1>5, <3>2, <3>3, <3>4
    <3>6. ASSUME NEW j \in 1..Len(pages'[p]), pages'[p][i] = pages'[p][j] PROVE i = j
      <4>1. i + 1 = j + 1
        BY <1>5, <3>2, <3>3, <3>6
      <4> QED BY <4>1
    <3> QED BY <3>5, <3>6
  <2> QED BY <2>1, <2>2
<1> QED BY <1>5 DEF QueueFits

LEMMA QueueStep == TypeOK /\ QueueFits /\ [Next]_vars => QueueFits'
<1> SUFFICES ASSUME TypeOK, QueueFits, [Next]_vars PROVE QueueFits'
    OBVIOUS
<1>1. CASE \E u \in Uploads : Offer(u)
  BY <1>1, QueueOffer
<1>2. CASE \E p \in Pages : Pump(p)
  BY <1>2, QueuePump
<1>3. ASSUME NEW u \in Uploads, Handler(u) PROVE QueueFits'
  <2>1. pages' = pages /\ uploads[u].pc # "queued"
        /\ \A v \in Uploads : v # u => uploads'[v] = uploads[v]
    BY <1>3 DEF Handler, CheckPdf, Refuse, ChooseName, Write, Replace, WriteFails, TypeOK
  <2> QED BY <2>1, QueueStays
<1>4. CASE Crash
  BY <1>4, QueueStays DEF Crash, Sent
<1>5. CASE (\E u \in Uploads : LoseConnection(u)) \/ (\E n \in Names : Leave(n))
           \/ (\E f \in ByHand, n \in Names : Arrive(f, n)) \/ UNCHANGED vars
  BY <1>5, QueueStays DEF LoseConnection, Leave, Arrive, vars
<1> QED BY <1>1, <1>2, <1>3, <1>4, <1>5 DEF Next

LEMMA PartsStep ==
    TypeOK /\ QueueFits /\ PartsInHand /\ [Next]_vars => PartsInHand'
<1> SUFFICES ASSUME TypeOK, QueueFits, PartsInHand, [Next]_vars, crashes' = 0
             PROVE  \A u \in parts' : uploads'[u].pc \in {"write", "replace"}
    BY DEF PartsInHand
<1> USE DEF TypeOK, PartsInHand
<1>1. crashes = 0 /\ ~Crash
  <2>1. ~Crash
    BY DEF Crash
  <2>2. crashes' = crashes
    BY <2>1 DEF Next, Offer, LoseConnection, Handler, CheckPdf, Refuse, ChooseName,
        Write, Replace, WriteFails, Pump, Arrive, Leave, vars
  <2> QED BY <2>1, <2>2
<1>2. ASSUME NEW u \in Uploads, Offer(u)
      PROVE  \A v \in parts' : uploads'[v].pc \in {"write", "replace"}
  BY <1>1, <1>2 DEF Offer
<1>3. ASSUME NEW p \in Pages, Pump(p)
      PROVE  \A v \in parts' : uploads'[v].pc \in {"write", "replace"}
  <2>1. 1 \in 1..Len(pages[p]) /\ Head(pages[p]) = pages[p][1]
        /\ Head(pages[p]) \in Uploads
    BY <1>3 DEF Pump
  <2>2. uploads[Head(pages[p])].pc = "queued"
    BY <2>1 DEF QueueFits
  <2> QED BY <1>1, <1>3, <2>1, <2>2 DEF Pump
<1>4. ASSUME NEW u \in Uploads, CheckPdf(u) \/ Refuse(u)
      PROVE  \A v \in parts' : uploads'[v].pc \in {"write", "replace"}
  BY <1>1, <1>4 DEF CheckPdf, Refuse
<1>5. ASSUME NEW u \in Uploads, ChooseName(u)
      PROVE  \A v \in parts' : uploads'[v].pc \in {"write", "replace"}
  <2>1. PICK n : uploads' = [uploads EXCEPT ![u] = [pc |-> "write", target |-> n]]
    BY <1>5 DEF ChooseName
  <2> QED BY <1>1, <1>5, <2>1 DEF ChooseName
<1>6. ASSUME NEW u \in Uploads, Write(u) \/ Replace(u) \/ WriteFails(u)
      PROVE  \A v \in parts' : uploads'[v].pc \in {"write", "replace"}
  <2>1. CASE Write(u)
    BY <1>1, <2>1 DEF Write
  <2>2. CASE Replace(u) \/ WriteFails(u)
    <3>1. parts' = parts \ {u} /\ \A v \in Uploads : v # u => uploads'[v] = uploads[v]
      BY <2>2 DEF Replace, WriteFails
    <3> QED BY <1>1, <3>1
  <2> QED BY <1>6, <2>1, <2>2
<1>7. CASE (\E u \in Uploads : LoseConnection(u)) \/ (\E n \in Names : Leave(n))
           \/ (\E f \in ByHand, n \in Names : Arrive(f, n)) \/ UNCHANGED vars
  BY <1>1, <1>7 DEF LoseConnection, Leave, Arrive, vars
<1> QED BY <1>1, <1>2, <1>3, <1>4, <1>5, <1>6, <1>7 DEF Next, Handler

(* However an upload ends, refused, failed or stored, on any number of     *)
(* pages at once: its temporary file is gone, unless the process died.     *)
THEOREM PartsAreSwept == Spec => []PartsSwept
<1>1. Init => QueueFits /\ PartsInHand
  BY DEF Init, QueueFits, PartsInHand
<1>2. TypeOK /\ QueueFits /\ PartsInHand /\ [Next]_vars => QueueFits' /\ PartsInHand'
  BY QueueStep, PartsStep
<1>3. PartsInHand => PartsSwept
  BY DEF PartsInHand, PartsSwept, Sent, Ended
<1> QED BY <1>1, <1>2, <1>3, UploadTypes, PTL DEF Spec

-----------------------------------------------------------------------------
(* Part 5: what an upload may replace.                                     *)

(* A file that has been in the watchfolder does not come in again: an      *)
(* upload is stored once, and what comes by hand is new.                   *)
HasBeenIn(f) == f \in came \/ (f \in Uploads /\ uploads[f].pc = "stored")

SeenHaveBeenIn ==
    /\ \A n \in Names : inbox[n] # None => HasBeenIn(inbox[n])
    /\ \A u \in Uploads : \A f \in present[u] : HasBeenIn(f)

(* Where an upload will go, there is nothing that it saw when its name was *)
(* chosen.                                                                 *)
Writing(u) == uploads[u].pc \in {"write", "replace"}

TargetNotSeen ==
    \A u \in Uploads : Writing(u) => inbox[uploads[u].target] \notin present[u]

(* A page has one upload on its way, of those that it has not lost.        *)
OneOnItsWay ==
    \A u, v \in Uploads \ lost : Sent(u) /\ Sent(v) /\ PageOf[u] = PageOf[v] => u = v

(* And there is nothing of the same page.                                  *)
TargetNotOfPage ==
    \A u, v \in Uploads \ lost : Writing(v) /\ PageOf[u] = PageOf[v] /\ u # v
                               => inbox[uploads[v].target] # u

ReplaceInv == QueueFits /\ SeenHaveBeenIn /\ TargetNotSeen /\ OneOnItsWay
              /\ TargetNotOfPage

(* A step that leaves the watchfolder alone, and lets no upload begin to   *)
(* write or be sent.                                                       *)
LEMMA QuietUpload ==
    ASSUME TypeOK, ReplaceInv, UNCHANGED <<inbox, came, present>>, lost \subseteq lost',
           \A u \in Uploads :
               /\ uploads[u].pc = "stored" => uploads'[u].pc = "stored"
               /\ uploads'[u].pc \in {"write", "replace"}
                  => Writing(u) /\ uploads'[u].target = uploads[u].target
    PROVE  SeenHaveBeenIn' /\ TargetNotSeen' /\ TargetNotOfPage'
<1>1. SeenHaveBeenIn'
  BY DEF ReplaceInv, SeenHaveBeenIn, HasBeenIn, TypeOK
<1>2. TargetNotSeen'
  BY DEF ReplaceInv, TargetNotSeen, Writing, TypeOK
<1>3. TargetNotOfPage'
  BY DEF ReplaceInv, TargetNotOfPage, Writing, TypeOK
<1> QED BY <1>1, <1>2, <1>3

LEMMA WayStays ==
    ASSUME TypeOK, ReplaceInv, lost \subseteq lost', \A u \in Uploads : Sent(u)' => Sent(u)
    PROVE  OneOnItsWay'
BY DEF ReplaceInv, OneOnItsWay

(* Of all steps, only Pump sends an upload.                                *)
LEMMA WayPump ==
    ASSUME TypeOK, ReplaceInv, NEW p \in Pages, Pump(p)
    PROVE  OneOnItsWay' /\ SeenHaveBeenIn' /\ TargetNotSeen' /\ TargetNotOfPage'
<1> DEFINE h == Head(pages[p])
<1>1. h \in Uploads /\ uploads[h].pc = "queued" /\ PageOf[h] = p
  <2>1. 1 \in 1..Len(pages[p]) /\ h = pages[p][1] /\ h \in Uploads
    BY DEF Pump, TypeOK
  <2> QED BY <2>1 DEF ReplaceInv, QueueFits
<1>2. /\ uploads' = [uploads EXCEPT ![h].pc = "sent"]
      /\ ~Busy(p) /\ UNCHANGED <<inbox, lost, came, present>>
  BY DEF Pump
<1> HIDE DEF h
<1>3. uploads'[h].pc = "sent" /\ \A u \in Uploads \ {h} : uploads'[u] = uploads[u]
  BY <1>1, <1>2 DEF TypeOK
<1>4. \A u \in Uploads \ lost : PageOf[u] = p => ~Sent(u)
  BY <1>2 DEF Busy
<1>5. \A u \in Uploads \ {h} : Sent(u)' => Sent(u)
  BY <1>3 DEF Sent
<1>6. OneOnItsWay'
  BY <1>1, <1>2, <1>4, <1>5 DEF ReplaceInv, OneOnItsWay
<1>7. \A u \in Uploads : /\ uploads[u].pc = "stored" => uploads'[u].pc = "stored"
                         /\ uploads'[u].pc \in {"write", "replace"}
                            => Writing(u) /\ uploads'[u].target = uploads[u].target
  BY <1>1, <1>3 DEF Writing
<1> QED BY <1>2, <1>6, <1>7, QuietUpload

LEMMA WayHandler ==
    ASSUME TypeOK, NEW u \in Uploads, Handler(u)
    PROVE  /\ Sent(u) /\ lost' = lost
           /\ \A v \in Uploads \ {u} : uploads'[v] = uploads[v]
BY DEF Handler, CheckPdf, Refuse, ChooseName, Write, Replace, WriteFails, Sent, Ended, TypeOK

LEMMA ChooseStep ==
    ASSUME TypeOK, ReplaceInv, NEW u \in Uploads, ChooseName(u)
    PROVE  SeenHaveBeenIn' /\ TargetNotSeen' /\ TargetNotOfPage'
<1>1. Candidates[Wanted[u]] \in Seq(Names)
  BY UploadAssumption
<1>2. PICK n \in FreeName(Candidates[Wanted[u]]) :
          uploads' = [uploads EXCEPT ![u] = [pc |-> "write", target |-> n]]
  BY DEF ChooseName
<1>3. n \in Names /\ inbox[n] = None
  BY <1>1, <1>2 DEF FreeName
<1>4. /\ uploads'[u] = [pc |-> "write", target |-> n]
      /\ \A v \in Uploads \ {u} : uploads'[v] = uploads[v]
      /\ uploads[u].pc = "choose"
      /\ present' = [present EXCEPT ![u] = {inbox[m] : m \in Names} \ {None}]
      /\ UNCHANGED <<inbox, lost, came>>
  BY <1>2 DEF ChooseName, TypeOK
<1>5. /\ present'[u] = {inbox[m] : m \in Names} \ {None}
      /\ \A v \in Uploads \ {u} : present'[v] = present[v]
  BY <1>4 DEF TypeOK
<1>6. \A f : HasBeenIn(f) => HasBeenIn(f)'
  BY <1>4 DEF HasBeenIn
<1>7. SeenHaveBeenIn'
  BY <1>4, <1>5, <1>6 DEF ReplaceInv, SeenHaveBeenIn
<1>8. TargetNotSeen'
  BY <1>3, <1>4, <1>5 DEF ReplaceInv, TargetNotSeen, Writing
<1>9. TargetNotOfPage'
  <2> SUFFICES ASSUME NEW w \in Uploads \ lost, NEW v \in Uploads \ lost, Writing(v)',
                      PageOf[w] = PageOf[v], w # v
               PROVE  inbox'[uploads'[v].target] # w
      BY <1>4 DEF TargetNotOfPage
  <2>1. CASE v = u
    BY <1>3, <1>4, <2>1, UploadAssumption DEF Files
  <2>2. CASE v # u
    BY <1>4, <2>2 DEF ReplaceInv, TargetNotOfPage, Writing
  <2> QED BY <2>1, <2>2
<1> QED BY <1>7, <1>8, <1>9

(* The file that comes in was not seen by anybody: nobody's target becomes *)
(* a file that it saw, and only an upload of the same page, which is not   *)
(* on its way, could come to a target of that page.                        *)
LEMMA ReplaceStep ==
    ASSUME TypeOK, ReplaceInv, NEW u \in Uploads, Replace(u)
    PROVE  SeenHaveBeenIn' /\ TargetNotSeen' /\ TargetNotOfPage'
<1> DEFINE n == uploads[u].target
<1>1. /\ n \in Names /\ uploads[u].pc = "replace"
      /\ inbox' = [inbox EXCEPT ![n] = u]
      /\ uploads' = [uploads EXCEPT ![u].pc = "stored"]
      /\ UNCHANGED <<lost, came, present>>
  BY DEF Replace, TypeOK
<1> HIDE DEF n
<1>2. /\ uploads'[u].pc = "stored" /\ \A v \in Uploads \ {u} : uploads'[v] = uploads[v]
      /\ inbox'[n] = u /\ \A m \in Names \ {n} : inbox'[m] = inbox[m]
  BY <1>1 DEF TypeOK
<1>3. \A f : HasBeenIn(f) => HasBeenIn(f)'
  BY <1>1, <1>2 DEF HasBeenIn
<1>4. HasBeenIn(u)'
  BY <1>2 DEF HasBeenIn
<1>5. SeenHaveBeenIn'
  BY <1>1, <1>2, <1>3, <1>4 DEF ReplaceInv, SeenHaveBeenIn
<1>6. \A v \in Uploads : u \notin present[v]
  BY <1>1, UploadAssumption DEF ReplaceInv, SeenHaveBeenIn, HasBeenIn, TypeOK
<1>7. \A v \in Uploads : Writing(v)' => v # u /\ Writing(v)
                                      /\ uploads'[v] = uploads[v] /\ uploads[v].target \in Names
  BY <1>2 DEF Writing, TypeOK
<1>8. TargetNotSeen'
  BY <1>1, <1>2, <1>6, <1>7 DEF ReplaceInv, TargetNotSeen
<1>9. TargetNotOfPage'
  <2> SUFFICES ASSUME NEW w \in Uploads \ lost, NEW v \in Uploads \ lost, Writing(v)',
                      PageOf[w] = PageOf[v], w # v
               PROVE  inbox'[uploads'[v].target] # w
      BY <1>1 DEF TargetNotOfPage
  <2>1. CASE w = u
    <3>1. Sent(u) /\ Sent(v)
      BY <1>1, <1>7 DEF Sent, Writing, Ended
    <3> QED BY <2>1, <3>1 DEF ReplaceInv, OneOnItsWay
  <2>2. CASE w # u
    BY <1>2, <1>7, <2>2 DEF ReplaceInv, TargetNotOfPage
  <2> QED BY <2>1, <2>2
<1> QED BY <1>5, <1>8, <1>9

LEMMA ArriveStep ==
    ASSUME TypeOK, ReplaceInv, NEW f \in ByHand, NEW n \in Names, Arrive(f, n)
    PROVE  ReplaceInv'
<1>1. /\ f \notin came /\ came' = came \cup {f} /\ inbox[n] = None
      /\ inbox'[n] = f /\ \A m \in Names \ {n} : inbox'[m] = inbox[m]
      /\ UNCHANGED <<pages, lost, uploads, present>>
  BY DEF Arrive, TypeOK
<1>2. QueueFits' /\ OneOnItsWay'
  BY <1>1 DEF ReplaceInv, QueueFits, OneOnItsWay, Sent
<1>3. \A v \in Uploads : f \notin present[v]
  BY <1>1, UploadAssumption DEF ReplaceInv, SeenHaveBeenIn, HasBeenIn
<1>4. SeenHaveBeenIn'
  BY <1>1 DEF ReplaceInv, SeenHaveBeenIn, HasBeenIn
<1>5. TargetNotSeen'
  BY <1>1, <1>3 DEF ReplaceInv, TargetNotSeen, Writing, TypeOK
<1>6. TargetNotOfPage'
  BY <1>1, UploadAssumption DEF ReplaceInv, TargetNotOfPage, Writing, TypeOK
<1> QED BY <1>2, <1>4, <1>5, <1>6 DEF ReplaceInv

LEMMA LeaveStep ==
    ASSUME TypeOK, ReplaceInv, NEW n \in Names, Leave(n)
    PROVE  ReplaceInv'
<1>1. /\ inbox'[n] = None /\ \A m \in Names \ {n} : inbox'[m] = inbox[m]
      /\ UNCHANGED <<pages, lost, uploads, came, present>>
  BY DEF Leave, TypeOK
<1>2. QueueFits' /\ OneOnItsWay'
  BY <1>1 DEF ReplaceInv, QueueFits, OneOnItsWay, Sent
<1>3. SeenHaveBeenIn'
  BY <1>1 DEF ReplaceInv, SeenHaveBeenIn, HasBeenIn
<1>4. TargetNotSeen'
  BY <1>1, UploadAssumption DEF ReplaceInv, TargetNotSeen, Writing, TypeOK
<1>5. TargetNotOfPage'
  BY <1>1, UploadAssumption DEF ReplaceInv, TargetNotOfPage, Writing, TypeOK, Files
<1> QED BY <1>2, <1>3, <1>4, <1>5 DEF ReplaceInv

LEMMA ReplaceInvStep == TypeOK /\ ReplaceInv /\ [Next]_vars => ReplaceInv'
<1> SUFFICES ASSUME TypeOK, ReplaceInv, [Next]_vars PROVE ReplaceInv'
    OBVIOUS
<1>0. QueueFits'
  BY QueueStep DEF ReplaceInv
<1>1. ASSUME NEW u \in Uploads, Offer(u) PROVE ReplaceInv'
  <2>1. /\ uploads[u].pc = "offered" /\ uploads'[u].pc = "queued"
        /\ \A v \in Uploads \ {u} : uploads'[v] = uploads[v]
        /\ UNCHANGED <<inbox, lost, came, present>>
    BY <1>1 DEF Offer, TypeOK
  <2>2. \A v \in Uploads : Sent(v)' => Sent(v)
    BY <2>1 DEF Sent
  <2>3. SeenHaveBeenIn' /\ TargetNotSeen' /\ TargetNotOfPage'
    BY <2>1, QuietUpload DEF Writing
  <2> QED BY <1>0, <2>1, <2>2, <2>3, WayStays DEF ReplaceInv
<1>2. ASSUME NEW u \in Uploads, LoseConnection(u) PROVE ReplaceInv'
  <2>1. lost \subseteq lost' /\ UNCHANGED <<inbox, uploads, came, present>>
    BY <1>2 DEF LoseConnection
  <2>2. SeenHaveBeenIn' /\ TargetNotSeen' /\ TargetNotOfPage'
    BY <2>1, QuietUpload DEF Writing
  <2>3. OneOnItsWay'
    BY <2>1, WayStays DEF Sent
  <2> QED BY <1>0, <2>2, <2>3 DEF ReplaceInv
<1>3. ASSUME NEW u \in Uploads, Handler(u) PROVE ReplaceInv'
  <2>1. OneOnItsWay'
    BY <1>3, WayHandler, WayStays DEF Sent
  <2>2. CASE CheckPdf(u) \/ Refuse(u) \/ Write(u) \/ WriteFails(u)
    <3>1. PICK pc \in {"choose", "refused", "replace", "failed"} :
              /\ uploads' = [uploads EXCEPT ![u].pc = pc]
              /\ pc = "replace" => uploads[u].pc = "write"
      BY <2>2 DEF CheckPdf, Refuse, Write, WriteFails
    <3>2. uploads[u].pc # "stored" /\ UNCHANGED <<inbox, lost, came, present>>
      BY <2>2 DEF CheckPdf, Refuse, Write, WriteFails
    <3>3. SeenHaveBeenIn' /\ TargetNotSeen' /\ TargetNotOfPage'
      BY <3>1, <3>2, QuietUpload DEF Writing, TypeOK
    <3> QED BY <1>0, <2>1, <3>3 DEF ReplaceInv
  <2>3. CASE ChooseName(u)
    BY <1>0, <2>1, <2>3, ChooseStep DEF ReplaceInv
  <2>4. CASE Replace(u)
    BY <1>0, <2>1, <2>4, ReplaceStep DEF ReplaceInv
  <2> QED BY <1>3, <2>2, <2>3, <2>4 DEF Handler
<1>4. ASSUME NEW p \in Pages, Pump(p) PROVE ReplaceInv'
  BY <1>0, <1>4, WayPump DEF ReplaceInv
<1>5. ASSUME NEW f \in ByHand, NEW n \in Names, Arrive(f, n) PROVE ReplaceInv'
  BY <1>5, ArriveStep
<1>6. ASSUME NEW n \in Names, Leave(n) PROVE ReplaceInv'
  BY <1>6, LeaveStep
<1>7. CASE Crash
  <2>1. \A u \in Uploads : uploads'[u].pc = IF Sent(u) THEN "failed" ELSE uploads[u].pc
    BY <1>7 DEF Crash, TypeOK
  <2>2. \A u \in Uploads : ~Sent(u)'
    BY <2>1 DEF Sent, Ended
  <2>3. \A u \in Uploads : /\ uploads[u].pc = "stored" => uploads'[u].pc = "stored"
                           /\ uploads'[u].pc \notin {"write", "replace"}
    BY <2>1, <2>2 DEF Sent, Ended
  <2>4. UNCHANGED <<inbox, lost, came, present>>
    BY <1>7 DEF Crash
  <2>5. SeenHaveBeenIn' /\ TargetNotSeen' /\ TargetNotOfPage'
    BY <2>3, <2>4, QuietUpload
  <2> QED BY <1>0, <2>2, <2>4, <2>5, WayStays DEF ReplaceInv
<1>8. CASE UNCHANGED vars
  <2>1. SeenHaveBeenIn' /\ TargetNotSeen' /\ TargetNotOfPage'
    BY <1>8, QuietUpload DEF vars, Writing
  <2>2. OneOnItsWay'
    BY <1>8, WayStays DEF vars, Sent
  <2> QED BY <1>0, <2>1, <2>2 DEF ReplaceInv
<1> QED BY <1>1, <1>2, <1>3, <1>4, <1>5, <1>6, <1>7, <1>8 DEF Next

LEMMA ReplaceInvariant == Spec => []ReplaceInv
<1>1. Init => ReplaceInv
  BY DEF Init, ReplaceInv, QueueFits, SeenHaveBeenIn, TargetNotSeen, OneOnItsWay,
         TargetNotOfPage, HasBeenIn, Writing, Sent
<1> QED BY <1>1, ReplaceInvStep, UploadTypes, PTL DEF Spec

(* Only the replacement of an upload puts it where another file was.       *)
LEMMA OnlyReplaceOverwrites ==
    ASSUME TypeOK, [Next]_vars, NEW n \in Names, NEW u \in Uploads,
           inbox'[n] = u, inbox[n] # u
    PROVE  Replace(u) /\ n = uploads[u].target
<1> USE DEF TypeOK
<1>1. ASSUME NEW v \in Uploads, Handler(v) PROVE Replace(u) /\ n = uploads[u].target
  <2>1. CASE Replace(v)
    BY <2>1 DEF Replace
  <2>2. CASE ~Replace(v)
    BY <1>1, <2>2 DEF Handler, CheckPdf, Refuse, ChooseName, Write, WriteFails
  <2> QED BY <2>1, <2>2
<1>2. ASSUME NEW f \in ByHand, NEW m \in Names, Arrive(f, m) PROVE FALSE
  BY <1>2, UploadAssumption DEF Arrive
<1>3. ASSUME NEW m \in Names, Leave(m) PROVE FALSE
  BY <1>3, UploadAssumption DEF Leave, Files
<1> QED BY <1>1, <1>2, <1>3 DEF Next, Offer, LoseConnection, Pump, Crash, vars

(* However many pages, uploads and other writers there are, and however    *)
(* long a body takes: an upload replaces no file that was there when its   *)
(* name was chosen (routes.py _unique_pdf_name).                           *)
THEOREM OnlyNewerOverwritten == Spec => OverwritesOnlyNewer
<1>1. TypeOK /\ ReplaceInv /\ [Next]_vars
        => \A n \in Names, u \in Uploads :
               inbox'[n] = u /\ inbox[n] \notin {u, None} => inbox[n] \notin present[u]
  <2> SUFFICES ASSUME TypeOK, ReplaceInv, [Next]_vars, NEW n \in Names, NEW u \in Uploads,
                      inbox'[n] = u, inbox[n] \notin {u, None}
               PROVE  inbox[n] \notin present[u]
      OBVIOUS
  <2>1. Replace(u) /\ n = uploads[u].target
    BY OnlyReplaceOverwrites
  <2> QED BY <2>1 DEF ReplaceInv, TargetNotSeen, Writing, Replace
<1> QED BY <1>1, UploadTypes, ReplaceInvariant, PTL DEF Spec, OverwritesOnlyNewer

(* The uploads of one page spare each other, on any number of pages,       *)
(* unless the page has lost track of one of the two (app.js pump).         *)
THEOREM PagesSpareTheirOwn == Spec => SamePageSafe
<1>1. TypeOK /\ ReplaceInv /\ [Next]_vars
        => \A n \in Names, u, v \in Uploads :
               inbox[n] = u /\ inbox'[n] = v /\ u # v
               => PageOf[u] # PageOf[v] \/ {u, v} \cap lost # {}
  <2> SUFFICES ASSUME TypeOK, ReplaceInv, [Next]_vars, NEW n \in Names,
                      NEW u \in Uploads \ lost, NEW v \in Uploads \ lost,
                      inbox[n] = u, inbox'[n] = v, u # v, PageOf[u] = PageOf[v]
               PROVE  FALSE
      OBVIOUS
  <2>1. Replace(v) /\ n = uploads[v].target
    BY OnlyReplaceOverwrites
  <2> QED BY <2>1 DEF ReplaceInv, TargetNotOfPage, Writing, Replace
<1> QED BY <1>1, UploadTypes, ReplaceInvariant, PTL DEF Spec, SamePageSafe

-----------------------------------------------------------------------------
(* Part 6: a user with one page, whose connection holds, is safe however   *)
(* long the bodies are.                                                    *)

Alone ==
    /\ Fragile = {} /\ ByHand = {}
    /\ \A u, v \in Uploads : PageOf[u] = PageOf[v]

(* With one page in the watchfolder nothing is ever overwritten, whatever  *)
(* the handler waits for, fails at, or is killed in.                       *)
THEOREM OnePageSafe == Alone => (Spec => []NeverOverwritten)
<1> SUFFICES ASSUME Alone PROVE Spec => []NeverOverwritten
    OBVIOUS
<1> DEFINE Inv == NeverOverwritten /\ lost = {}
<1>1. Init => Inv
  BY DEF Init, NeverOverwritten
<1>2. TypeOK /\ ReplaceInv /\ Inv /\ [Next]_vars => Inv'
  <2> SUFFICES ASSUME TypeOK, ReplaceInv, Inv, [Next]_vars PROVE Inv'
      OBVIOUS
  <2>1. ASSUME NEW u \in Uploads, Replace(u) PROVE Inv'
    <3>1. /\ uploads[u].target \in Names /\ uploads[u].pc = "replace" /\ lost' = lost
          /\ overwritten' = overwritten \cup ({inbox[uploads[u].target]} \ {None})
      BY <2>1 DEF Replace, TypeOK
    <3>2. ASSUME NEW f, f = inbox[uploads[u].target], f # None PROVE FALSE
      <4>1. f \in Uploads /\ f # u
        BY <3>1, <3>2, UploadAssumption
        DEF Alone, TypeOK, Files, ReplaceInv, SeenHaveBeenIn, HasBeenIn
      <4> QED BY <3>1, <3>2, <4>1 DEF Alone, ReplaceInv, TargetNotOfPage, Writing
    <3> QED BY <3>1, <3>2 DEF NeverOverwritten
  <2>2. ASSUME NEW u \in Uploads, LoseConnection(u) PROVE FALSE
    BY <2>2 DEF LoseConnection, Alone
  <2> QED BY <2>1, <2>2 DEF Next, Offer, Handler, CheckPdf, Refuse, ChooseName, Write,
          WriteFails, Pump, Arrive, Leave, Crash, vars, NeverOverwritten
<1>3. Inv => NeverOverwritten
  OBVIOUS
<1> QED BY <1>1, <1>2, <1>3, UploadTypes, ReplaceInvariant, PTL DEF Spec
=============================================================================
