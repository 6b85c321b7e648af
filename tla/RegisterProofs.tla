--------------------------- MODULE RegisterProofs ---------------------------
(* Every operation of the register yields a register in which every ready  *)
(* entry has a suggestion.                                                 *)
EXTENDS Register, TLAPS

(* queue.py add.                                                           *)
LEMMA AddType ==
    ASSUME NEW reg \in Registers, ReadySuggested(reg), NEW n \in Names, NEW id \in Nat
    PROVE  Add(reg, n, id) \in Registers /\ ReadySuggested(Add(reg, n, id))
<1>1. Add(reg, n, id) \in Registers
  BY DEF Add, Registers, Entry, Status, Listed
<1>2. ASSUME NEW m \in Names, m # n PROVE Add(reg, n, id)[m] = reg[m]
  BY <1>2 DEF Add, Registers, Listed
<1>3. LET e == Add(reg, n, id)[n]
      IN e # None /\ e.status = "ready" => e.suggestion # None
  BY DEF Add, Registers, Entry, Listed, ReadySuggested
<1> QED BY <1>1, <1>2, <1>3 DEF ReadySuggested

(* queue.py mark_analyzing.                                                *)
LEMMA MarkAnalyzingType ==
    ASSUME NEW reg \in Registers, ReadySuggested(reg), NEW n \in Names
    PROVE  MarkAnalyzing(reg, n) \in Registers /\ ReadySuggested(MarkAnalyzing(reg, n))
<1>1. MarkAnalyzing(reg, n) \in Registers
  BY DEF MarkAnalyzing, Registers, Entry, Status, Listed
<1>2. ASSUME NEW m \in Names, m # n PROVE MarkAnalyzing(reg, n)[m] = reg[m]
  BY <1>2 DEF MarkAnalyzing, Registers, Listed
<1>3. LET e == MarkAnalyzing(reg, n)[n]
      IN e # None /\ e.status = "ready" => e.suggestion # None
  BY DEF MarkAnalyzing, Registers, Entry, Listed, ReadySuggested
<1> QED BY <1>1, <1>2, <1>3 DEF ReadySuggested

(* queue.py set_ready.                                                     *)
LEMMA SetReadyType ==
    ASSUME NEW reg \in Registers, ReadySuggested(reg), NEW n \in Names, NEW s \in Suggestion, s # None
    PROVE  SetReady(reg, n, s) \in Registers /\ ReadySuggested(SetReady(reg, n, s))
<1>1. SetReady(reg, n, s) \in Registers
  BY DEF SetReady, Registers, Entry, Status, Listed
<1>2. ASSUME NEW m \in Names, m # n PROVE SetReady(reg, n, s)[m] = reg[m]
  BY <1>2 DEF SetReady, Registers, Listed
<1>3. LET e == SetReady(reg, n, s)[n]
      IN e # None /\ e.status = "ready" => e.suggestion # None
  BY DEF SetReady, Registers, Entry, Listed, ReadySuggested
<1> QED BY <1>1, <1>2, <1>3 DEF ReadySuggested

(* queue.py mark_error.                                                    *)
LEMMA MarkErrorType ==
    ASSUME NEW reg \in Registers, ReadySuggested(reg), NEW n \in Names, NEW why \in Reason
    PROVE  MarkError(reg, n, why) \in Registers /\ ReadySuggested(MarkError(reg, n, why))
<1>1. MarkError(reg, n, why) \in Registers
  BY DEF MarkError, Registers, Entry, Status, Listed
<1>2. ASSUME NEW m \in Names, m # n PROVE MarkError(reg, n, why)[m] = reg[m]
  BY <1>2 DEF MarkError, Registers, Listed
<1>3. LET e == MarkError(reg, n, why)[n]
      IN e # None /\ e.status = "ready" => e.suggestion # None
  BY DEF MarkError, Registers, Entry, Listed, ReadySuggested
<1> QED BY <1>1, <1>2, <1>3 DEF ReadySuggested

(* queue.py remove.                                                        *)
LEMMA RemoveType ==
    ASSUME NEW reg \in Registers, ReadySuggested(reg), NEW n \in Names
    PROVE  Remove(reg, n) \in Registers /\ ReadySuggested(Remove(reg, n))
<1>1. Remove(reg, n) \in Registers
  BY DEF Remove, Registers
<1>2. ASSUME NEW m \in Names, m # n PROVE Remove(reg, n)[m] = reg[m]
  BY <1>2 DEF Remove, Registers, Listed
<1>3. LET e == Remove(reg, n)[n]
      IN e # None /\ e.status = "ready" => e.suggestion # None
  BY DEF Remove, Registers, Entry, Listed, ReadySuggested
<1> QED BY <1>1, <1>2, <1>3 DEF ReadySuggested

(* Only add makes an entry pending, and it changes no other entry.         *)
LEMMA PendingByAdd ==
    ASSUME NEW reg \in Registers, NEW n \in Names, NEW m \in Names, NEW id \in Nat,
           HasStatus(Add(reg, n, id), m, "pending"), ~HasStatus(reg, m, "pending")
    PROVE  m = n /\ ~Listed(reg, n)
BY DEF Add, HasStatus, Listed, Registers

(* The other operations leave no entry pending on the name they are for.   *)
LEMMA PendingEnds ==
    ASSUME NEW reg \in Registers, NEW n \in Names, NEW m \in Names,
           NEW new \in {MarkAnalyzing(reg, n), Remove(reg, n)}
                       \cup {MarkError(reg, n, why) : why \in Reason}
                       \cup {SetReady(reg, n, s) : s \in Suggestion},
           HasStatus(new, m, "pending")
    PROVE  m # n /\ HasStatus(reg, m, "pending")
<1>1. CASE new = MarkAnalyzing(reg, n)
  BY <1>1 DEF MarkAnalyzing, HasStatus, Listed, Registers, Entry
<1>2. CASE new = Remove(reg, n)
  BY <1>2 DEF Remove, HasStatus, Listed, Registers, Entry
<1>3. CASE \E why \in Reason : new = MarkError(reg, n, why)
  BY <1>3 DEF MarkError, HasStatus, Listed, Registers, Entry
<1>4. CASE \E s \in Suggestion : new = SetReady(reg, n, s)
  BY <1>4 DEF SetReady, HasStatus, Listed, Registers, Entry
<1> QED BY <1>1, <1>2, <1>3, <1>4

(* A verdict takes an entry, if there is one, out of its analysis.         *)
LEMMA VerdictEndsAnalysis ==
    ASSUME NEW reg \in Registers, NEW n \in Names
    PROVE  /\ \A s \in Suggestion : ~HasStatus(SetReady(reg, n, s), n, "analyzing")
           /\ \A why \in Reason : ~HasStatus(MarkError(reg, n, why), n, "analyzing")
<1>1. CASE reg[n] = None
  BY <1>1 DEF HasStatus, Listed, SetReady, MarkError
<1>2. CASE reg[n] # None
  <2>1. reg[n] \in Entry
    BY <1>2 DEF Registers
  <2> QED BY <1>2, <2>1 DEF HasStatus, Listed, SetReady, MarkError, Registers, Entry
<1> QED BY <1>1, <1>2
=============================================================================
