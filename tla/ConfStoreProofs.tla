-------------------------- MODULE ConfStoreProofs --------------------------
(***************************************************************************)
(* Proofs about ConfStore for every set of keys and values and every bound.*)
(* The type invariant holds whatever the flash does; the other theorems,   *)
(* the refinement of ConfRegister among them, assume that a block can be   *)
(* read.                                                                   *)
(***************************************************************************)
EXTENDS ConfStore, TLAPS

TextInv == TypeOK /\ (pc \in {"erase", "write", "verify"} => text \in Texts)

LEMMA EmptyIsLines == Empty \in Lines
BY DEF Empty, Lines

LEMMA RecordIsNotBad == \A r \in Records : r # Bad
BY StoreAssumption DEF Records, Texts, Lines

\* Among readable blocks there is exactly one newest, and it is a record.
LEMMA NewestIsParsed ==
  ASSUME TypeOK, NEW unread, Parsed(unread) # {}
  PROVE  /\ Newest(Parsed(unread)) \in Parsed(unread)
         /\ slot[Newest(Parsed(unread))] \in Records
         /\ IsNewest(Newest(Parsed(unread)), Parsed(unread))
PROOF
<1> DEFINE R == Parsed(unread)
<1>1. R \subseteq Slots /\ \A i \in R : slot[i] \in Records /\ slot[i].seq \in Nat
  BY DEF Parsed, TypeOK, Records
<1>2. \E i \in Slots : IsNewest(i, R)
  <2>1. CASE R = {0}  BY <2>1 DEF IsNewest, Slots
  <2>2. CASE R = {1}  BY <2>2 DEF IsNewest, Slots
  <2>3. CASE R = {0, 1}
    <3>1. slot[0].seq \in Nat /\ slot[1].seq \in Nat  BY <1>1, <2>3
    <3>2. CASE slot[0].seq < slot[1].seq  BY <2>3, <3>2 DEF IsNewest, Slots
    <3>3. CASE ~(slot[0].seq < slot[1].seq)
      BY <2>3, <3>1, <3>3 DEF IsNewest, Slots
    <3> QED  BY <3>2, <3>3
  <2> QED  BY <1>1, <2>1, <2>2, <2>3 DEF Slots
<1>3. Newest(R) \in Slots /\ IsNewest(Newest(R), R)
  BY <1>2 DEF Newest
<1> QED  BY <1>1, <1>3 DEF IsNewest

LEMMA LoadTypes ==
  ASSUME TypeOK, NEW unread
  PROVE  /\ LoadSeq(unread) \in Nat
         /\ LoadText(unread) \in Texts \cup {NoText}
BY NewestIsParsed DEF LoadSeq, LoadText, Records

LEMMA TargetIsASlot == \A s : TargetFor(s) \in Slots
BY DEF TargetFor, Slots

-----------------------------------------------------------------------------
LEMMA SaveTypes ==
  ASSUME TextInv, NEW t \in Texts, StartSave(t)
  PROVE  TextInv'
PROOF
<1>1. PICK unread \in Unreadable :
        /\ text' = t /\ target' = TargetFor(LoadSeq(unread))
        /\ seq' = LoadSeq(unread) + 1 /\ pc' = "erase" /\ ret' = "none"
        /\ UNCHANGED <<slot, failed>>
  BY DEF StartSave
<1>2. LoadSeq(unread) \in Nat  BY LoadTypes DEF TextInv
<1>3. target' \in Slots  BY <1>1, TargetIsASlot
<1>4. seq' \in Nat  BY <1>1, <1>2
<1>5. t \in Lines  BY DEF Texts
<1> QED  BY <1>1, <1>3, <1>4, <1>5 DEF TextInv, TypeOK

LEMMA ClearTypes == TextInv /\ StartClear => TextInv'
BY DEF TextInv, TypeOK, StartClear, Slots

LEMMA TypeStep == TextInv /\ [Next]_vars => TextInv'
PROOF
<1> SUFFICES ASSUME TextInv, [Next]_vars PROVE TextInv'  OBVIOUS
<1>1. ASSUME NEW f \in Fields, NEW v \in Values \cup {NoValue}, Rewrite(f, v)
      PROVE  TextInv'
  <2>1. PICK unread \in Unreadable :
          LET old == IF LoadText(unread) = NoText THEN Empty ELSE LoadText(unread)
              new == [old EXCEPT ![f] = v]
          IN  CASE ~Fits(new)               -> Refuse
                [] Fits(new) /\ new = Empty -> StartClear
                [] Fits(new) /\ new # Empty -> StartSave(new)
    BY <1>1 DEF Rewrite
  <2> DEFINE old == IF LoadText(unread) = NoText THEN Empty ELSE LoadText(unread)
             new == [old EXCEPT ![f] = v]
  <2>2. old \in Lines
    BY LoadTypes, EmptyIsLines DEF TextInv, Texts
  <2>3. new \in Lines  BY <2>2 DEF Lines
  <2> HIDE DEF old, new
  <2>4. \/ Refuse \/ StartClear \/ (new # Empty /\ StartSave(new))
    BY <2>1 DEF old, new
  <2>5. CASE Refuse  BY <1>1, <2>5 DEF Refuse, Rewrite, TextInv, TypeOK
  <2>6. CASE StartClear  BY <2>6, ClearTypes
  <2>7. CASE new # Empty /\ StartSave(new)
    BY <2>3, <2>7, SaveTypes DEF Texts
  <2> QED  BY <2>4, <2>5, <2>6, <2>7
<1>2. ASSUME NEW t \in Lines, Save(t)  PROVE TextInv'
  <2>1. CASE t # Empty /\ Fits(t)
    BY <1>2, <2>1, SaveTypes DEF Save, Texts
  <2>2. CASE ~(t # Empty /\ Fits(t))
    BY <1>2, <2>2 DEF Save, Refuse, TextInv, TypeOK
  <2> QED  BY <2>1, <2>2
<1>3. CASE Clear  BY <1>3, ClearTypes DEF Clear
<1>4. CASE Erase  BY <1>4 DEF Erase, TextInv, TypeOK
<1>5. ASSUME NEW sound \in BOOLEAN, Write(sound)  PROVE TextInv'
  <2>1. [seq |-> seq, text |-> text] \in Records
    BY <1>5 DEF Write, TextInv, TypeOK, Records
  <2> QED  BY <1>5, <2>1 DEF Write, TextInv, TypeOK
<1>6. CASE FlashFails  BY <1>6 DEF FlashFails, TextInv, TypeOK
<1>7. CASE Verify  BY <1>7 DEF Verify, TextInv, TypeOK
<1>8. ASSUME NEW erased \in BOOLEAN, NEW written \in BOOLEAN,
             ClearBlock(erased, written)
      PROVE  TextInv'
  BY <1>8 DEF ClearBlock, TextInv, TypeOK, Slots
<1>9. CASE ClearReturns  BY <1>9 DEF ClearReturns, TextInv, TypeOK
<1>10. CASE PowerLoss
  BY <1>10, EmptyIsLines DEF PowerLoss, TextInv, TypeOK, Slots
<1>11. CASE UNCHANGED vars  BY <1>11 DEF vars, TextInv, TypeOK
<1> QED
  BY <1>1, <1>2, <1>3, <1>4, <1>5, <1>6, <1>7, <1>8, <1>9, <1>10, <1>11
  DEF Next, Call, Flash

LEMMA InitTypes == Init => TextInv
PROOF
<1> SUFFICES ASSUME Init PROVE TextInv  OBVIOUS
<1>1. slot \in [Slots -> Records \cup {Bad}]  BY DEF Init
<1>2. text \in Lines /\ failed \in BOOLEAN  BY EmptyIsLines DEF Init
<1>3. target \in Slots /\ seq \in Nat  BY DEF Init, Slots
<1>4. pc = "idle" /\ ret = "none"  BY DEF Init
<1> QED  BY <1>1, <1>2, <1>3, <1>4 DEF TextInv, TypeOK

\* The blocks never hold anything but a bad block or a record of a non-empty
\* text, whatever fails and whenever power is lost (velaops_conf_save refuses
\* the empty text, conf_rewrite turns it into a clear).
THEOREM TypeCorrect == Spec => []TypeOK
PROOF
<1>1. Init => TextInv  BY InitTypes
<1>2. TextInv => TypeOK  BY DEF TextInv
<1> QED  BY <1>1, <1>2, TypeStep, PTL DEF Spec

-----------------------------------------------------------------------------
(* Saves, when every block can be read *)

ParityInv == TextInv /\ StoreInv

\* A readable store with a newest record i loads that record.
LEMMA LoadsNewest ==
  ASSUME TypeOK, NEW i \in Slots, slot[i] # Bad,
         slot[1 - i] # Bad => slot[1 - i].seq < slot[i].seq
  PROVE  /\ LoadSeq({}) = slot[i].seq
         /\ LoadText({}) = slot[i].text
PROOF
<1>1. i \in Parsed({}) /\ Parsed({}) # {}  BY DEF Parsed
<1>2. Newest(Parsed({})) \in Slots /\ IsNewest(Newest(Parsed({})), Parsed({}))
  BY <1>1, NewestIsParsed DEF Parsed
<1>3. \A j \in Slots : j # i => j = 1 - i  BY DEF Slots
<1>4. \A j \in Parsed({}) : slot[j].seq \in Nat
  BY DEF Parsed, TypeOK, Records
<1>5. Newest(Parsed({})) = i
  <2> SUFFICES ASSUME Newest(Parsed({})) # i PROVE FALSE  OBVIOUS
  <2>1. Newest(Parsed({})) = 1 - i /\ slot[1 - i] # Bad
    BY <1>1, <1>2, <1>3 DEF IsNewest, Parsed
  <2>2. slot[1 - i].seq \in Nat /\ slot[i].seq \in Nat
    BY <1>1, <1>2, <1>4, <2>1 DEF IsNewest
  <2>3. i \in Parsed({}) \ {1 - i}  BY <1>1, <2>1
  <2>4. slot[i].seq < slot[1 - i].seq \/ slot[i].seq = slot[1 - i].seq
    BY <1>2, <2>1, <2>3 DEF IsNewest
  <2> QED  BY <2>1, <2>2, <2>4
<1> QED  BY <1>1, <1>5 DEF LoadSeq, LoadText

\* What a load finds in a store whose records alternate between the blocks.
LEMMA LoadCases ==
  ASSUME TypeOK, SlotParity
  PROVE  \/ /\ slot[0] = Bad /\ slot[1] = Bad
            /\ LoadSeq({}) = 0
         \/ /\ slot[0] # Bad
            /\ slot[0].seq = 1 \/ (slot[0].seq > 0 /\ slot[0].seq % 2 = 0)
            /\ slot[1] # Bad => slot[0].seq > 1 /\ slot[1].seq = slot[0].seq - 1
            /\ LoadSeq({}) = slot[0].seq
         \/ /\ slot[1] # Bad
            /\ slot[1].seq > 2 /\ slot[1].seq % 2 = 1
            /\ slot[0] # Bad => slot[0].seq = slot[1].seq - 1
            /\ LoadSeq({}) = slot[1].seq
PROOF
<1>1. 0 \in Slots /\ 1 \in Slots /\ 1 - 0 = 1 /\ 1 - 1 = 0  BY DEF Slots
<1>2. \A i \in Slots : slot[i] # Bad => slot[i].seq \in Nat
  BY DEF TypeOK, Records
<1>3. CASE slot[0] = Bad /\ slot[1] = Bad
  <2>1. Parsed({}) = {}  BY <1>3 DEF Parsed, Slots
  <2> QED  BY <1>3, <2>1 DEF LoadSeq
<1>4. CASE slot[0] # Bad /\ (slot[1] # Bad => slot[1].seq < slot[0].seq)
  <2>1. LoadSeq({}) = slot[0].seq  BY <1>1, <1>4, LoadsNewest
  <2> QED  BY <1>1, <1>2, <1>4, <2>1 DEF SlotParity
<1>5. CASE slot[1] # Bad /\ (slot[0] # Bad => slot[0].seq < slot[1].seq)
  <2>1. LoadSeq({}) = slot[1].seq  BY <1>1, <1>5, LoadsNewest
  <2> QED  BY <1>1, <1>2, <1>5, <2>1 DEF SlotParity
<1>6. \/ slot[0] = Bad /\ slot[1] = Bad
      \/ slot[0] # Bad /\ (slot[1] # Bad => slot[1].seq < slot[0].seq)
      \/ slot[1] # Bad /\ (slot[0] # Bad => slot[0].seq < slot[1].seq)
  BY <1>1, <1>2 DEF SlotParity
<1> QED  BY <1>3, <1>4, <1>5, <1>6

LEMMA SaveKeepsParity ==
  ASSUME ReadFaults = FALSE, ParityInv, NEW t \in Texts, StartSave(t)
  PROVE  StoreInv'
PROOF
<1>1. /\ text' = t /\ target' = TargetFor(LoadSeq({}))
      /\ seq' = LoadSeq({}) + 1 /\ pc' = "erase" /\ slot' = slot
  BY DEF StartSave, Unreadable
<1>2. TypeOK /\ SlotParity  BY DEF ParityInv, TextInv, StoreInv
<1>3. SlotParity'  BY <1>1, <1>2 DEF SlotParity
<1>4. \A i \in Slots : slot[i] # Bad => slot[i].seq \in Nat
  BY <1>2 DEF TypeOK, Records
<1>5. CASE slot[0] = Bad /\ slot[1] = Bad /\ LoadSeq({}) = 0
  <2>1. target' = 0 /\ seq' = 1  BY <1>1, <1>5 DEF TargetFor
  <2> QED  BY <1>1, <1>3, <1>5, <2>1 DEF StoreInv
<1>6. CASE /\ slot[0] # Bad /\ LoadSeq({}) = slot[0].seq
           /\ slot[0].seq = 1 /\ slot[1] = Bad
  <2>1. target' = 0 /\ seq' = 2  BY <1>1, <1>6 DEF TargetFor
  <2> QED  BY <1>1, <1>3, <1>6, <2>1 DEF StoreInv
<1>7. CASE /\ slot[0] # Bad /\ LoadSeq({}) = slot[0].seq
           /\ slot[0].seq > 0 /\ slot[0].seq % 2 = 0
           /\ slot[1] # Bad => slot[1].seq = slot[0].seq - 1
  <2>1. slot[0].seq \in Nat  BY <1>4, <1>7 DEF Slots
  <2>2. target' = 1 /\ seq' = slot[0].seq + 1  BY <1>1, <1>7 DEF TargetFor
  <2>3. seq' > 2 /\ seq' % 2 = 1 /\ slot[0].seq = seq' - 1
    BY <1>7, <2>1, <2>2
  <2>4. slot'[1 - target'] = slot[0]  BY <1>1, <2>2
  <2>5. slot'[target'] # Bad => slot'[target'].seq < seq'
    BY <1>1, <1>7, <2>1, <2>2
  <2>6. slot'[1 - target'] # Bad /\ slot'[1 - target'].seq = seq' - 1
    BY <1>7, <2>3, <2>4
  <2>7. target' = IF seq' > 1 /\ seq' % 2 = 1 THEN 1 ELSE 0
    BY <2>1, <2>2, <2>3
  <2>8. seq' > 0 /\ text' \in Texts /\ pc' = "erase"  BY <1>1, <2>1, <2>2
  <2> QED  BY <1>3, <2>3, <2>5, <2>6, <2>7, <2>8 DEF StoreInv
<1>8. CASE /\ slot[1] # Bad /\ LoadSeq({}) = slot[1].seq
           /\ slot[1].seq > 2 /\ slot[1].seq % 2 = 1
           /\ slot[0] # Bad => slot[0].seq = slot[1].seq - 1
  <2>1. slot[1].seq \in Nat  BY <1>4, <1>8 DEF Slots
  <2>2. target' = 0 /\ seq' = slot[1].seq + 1  BY <1>1, <1>8 DEF TargetFor
  <2>3. seq' > 2 /\ seq' % 2 = 0 /\ slot[1].seq = seq' - 1
    BY <1>8, <2>1, <2>2
  <2>4. slot'[1 - target'] = slot[1]  BY <1>1, <2>2
  <2>5. ~(seq' > 1 /\ seq' % 2 = 1)  BY <2>3
  <2>6. /\ slot'[1 - target'] # Bad /\ slot'[1 - target'].seq = seq' - 1
        /\ target' = 0 /\ seq' > 2
    BY <1>8, <2>2, <2>3, <2>4
  <2>7. slot'[target'] # Bad => slot'[target'].seq < seq'
    BY <1>1, <1>8, <2>1, <2>2
  <2> QED  BY <1>1, <1>3, <2>5, <2>6, <2>7 DEF StoreInv
<1>9. ASSUME slot[0] # Bad, slot[0].seq = 1, slot[1] # Bad  PROVE FALSE
  <2>1. slot[1].seq > 2 /\ slot[1].seq \in Nat
    BY <1>2, <1>4, <1>9 DEF SlotParity, Slots
  <2> QED  BY <1>2, <1>9, <2>1 DEF SlotParity
<1> QED  BY <1>2, <1>5, <1>6, <1>7, <1>8, <1>9, LoadCases

LEMMA ClearKeepsParity == ParityInv /\ StartClear => StoreInv'
BY DEF ParityInv, StoreInv, SlotParity, StartClear

\* Steps that leave the blocks alone and no write pending.
LEMMA QuietKeepsParity ==
  ParityInv /\ slot' = slot /\ pc' \in {"idle", "clear", "cleared"} => StoreInv'
BY DEF ParityInv, StoreInv, SlotParity

\* Two blocks become one: a block is erased.
LEMMA EraseKeepsParity ==
  ASSUME TypeOK, SlotParity, NEW i \in Slots, slot' = [slot EXCEPT ![i] = Bad]
  PROVE  SlotParity'
<1>1. \A j \in Slots : slot'[j] = IF j = i THEN Bad ELSE slot[j]
  BY DEF TypeOK
<1>2. slot'[0] = IF i = 0 THEN Bad ELSE slot[0]  BY <1>1 DEF Slots
<1>3. slot'[1] = IF i = 1 THEN Bad ELSE slot[1]  BY <1>1 DEF Slots
<1> QED  BY <1>2, <1>3 DEF SlotParity, Slots

LEMMA ParityStep ==
  ASSUME ReadFaults = FALSE, ParityInv, [Next]_vars
  PROVE  StoreInv'
PROOF
<1> USE DEF ParityInv, TextInv
<1>1. ASSUME NEW f \in Fields, NEW v \in Values \cup {NoValue}, Rewrite(f, v)
      PROVE  StoreInv'
  <2>1. PICK unread \in Unreadable :
          LET old == IF LoadText(unread) = NoText THEN Empty ELSE LoadText(unread)
              new == [old EXCEPT ![f] = v]
          IN  CASE ~Fits(new)               -> Refuse
                [] Fits(new) /\ new = Empty -> StartClear
                [] Fits(new) /\ new # Empty -> StartSave(new)
    BY <1>1 DEF Rewrite
  <2> DEFINE old == IF LoadText(unread) = NoText THEN Empty ELSE LoadText(unread)
             new == [old EXCEPT ![f] = v]
  <2>2. old \in Lines
    BY LoadTypes, EmptyIsLines DEF Texts
  <2>3. new \in Lines  BY <2>2 DEF Lines
  <2> HIDE DEF old, new
  <2>4. \/ Refuse \/ StartClear \/ (new # Empty /\ StartSave(new))
    BY <2>1 DEF old, new
  <2>5. CASE Refuse  BY <1>1, <2>5, QuietKeepsParity DEF Refuse, Rewrite
  <2>6. CASE StartClear  BY <2>6, ClearKeepsParity
  <2>7. CASE new # Empty /\ StartSave(new)
    BY <2>3, <2>7, SaveKeepsParity DEF Texts
  <2> QED  BY <2>4, <2>5, <2>6, <2>7
<1>2. ASSUME NEW t \in Lines, Save(t)  PROVE StoreInv'
  <2>1. CASE t # Empty /\ Fits(t)
    BY <1>2, <2>1, SaveKeepsParity DEF Save, Texts
  <2>2. CASE ~(t # Empty /\ Fits(t))
    BY <1>2, <2>2, QuietKeepsParity DEF Save, Refuse
  <2> QED  BY <2>1, <2>2
<1>3. CASE Clear  BY <1>3, ClearKeepsParity DEF Clear
<1>4. CASE Erase
  <2>1. /\ slot' = [slot EXCEPT ![target] = Bad] /\ target \in Slots
        /\ pc = "erase" /\ pc' = "write"
        /\ text' = text /\ target' = target /\ seq' = seq
    BY <1>4 DEF Erase, TypeOK
  <2>2. SlotParity'  BY <2>1, EraseKeepsParity DEF StoreInv
  <2>3. slot'[target] = Bad /\ slot'[1 - target] = slot[1 - target]
    BY <2>1 DEF TypeOK, Slots
  <2> QED  BY <2>1, <2>2, <2>3 DEF StoreInv
<1>5. ASSUME NEW sound \in BOOLEAN, Write(sound)  PROVE StoreInv'
  <2>1. /\ pc = "write" /\ pc' = "verify" /\ target \in Slots /\ seq \in Nat
        /\ text' = text /\ target' = target /\ seq' = seq
        /\ slot' = [slot EXCEPT ![target] =
                      IF sound THEN [seq |-> seq, text |-> text] ELSE Bad]
    BY <1>5 DEF Write, TypeOK
  <2>2. /\ slot'[target] = IF sound THEN [seq |-> seq, text |-> text] ELSE Bad
        /\ slot'[1 - target] = slot[1 - target]
    BY <2>1 DEF TypeOK, Slots
  <2>3. CASE ~sound  BY <2>1, <2>3, EraseKeepsParity DEF StoreInv
  <2>4. CASE sound
    <3>1. slot'[target].seq = seq  BY <2>2, <2>4
    <3>2. CASE target = 0
      BY <2>1, <2>2, <3>1, <3>2 DEF StoreInv, SlotParity
    <3>3. CASE target = 1
      BY <2>1, <2>2, <3>1, <3>3 DEF StoreInv, SlotParity
    <3> QED  BY <2>1, <3>2, <3>3 DEF Slots
  <2> QED  BY <2>3, <2>4
<1>6. CASE FlashFails  BY <1>6, QuietKeepsParity DEF FlashFails
<1>7. CASE Verify  BY <1>7, QuietKeepsParity DEF Verify
<1>8. ASSUME NEW erased \in BOOLEAN, NEW written \in BOOLEAN,
             ClearBlock(erased, written)
      PROVE  StoreInv'
  <2>1. pc' \in {"clear", "cleared"} /\ target \in Slots
    BY <1>8 DEF ClearBlock, TypeOK
  <2>2. CASE erased
    BY <1>8, <2>1, <2>2, EraseKeepsParity DEF ClearBlock, StoreInv
  <2>3. CASE ~erased  BY <1>8, <2>1, <2>3, QuietKeepsParity DEF ClearBlock
  <2> QED  BY <2>2, <2>3
<1>9. CASE ClearReturns  BY <1>9, QuietKeepsParity DEF ClearReturns
<1>10. CASE PowerLoss  BY <1>10, QuietKeepsParity DEF PowerLoss
<1>11. CASE UNCHANGED vars
  BY <1>11 DEF vars, StoreInv, SlotParity
<1> QED
  BY <1>1, <1>2, <1>3, <1>4, <1>5, <1>6, <1>7, <1>8, <1>9, <1>10, <1>11
  DEF Next, Call, Flash

LEMMA ParityInvariant ==
  ASSUME ReadFaults = FALSE PROVE Spec => []ParityInv
PROOF
<1>1. Init => ParityInv
  <2> SUFFICES ASSUME Init PROVE ParityInv  OBVIOUS
  <2>1. TextInv  BY InitTypes
  <2>2. slot[0] = Bad /\ slot[1] = Bad /\ pc = "idle"  BY DEF Init, Slots
  <2> QED  BY <2>1, <2>2 DEF ParityInv, StoreInv, SlotParity
<1>2. ParityInv /\ [Next]_vars => ParityInv'
  BY ParityStep, TypeStep DEF ParityInv
<1> QED  BY <1>1, <1>2, PTL DEF Spec

\* The next save finds the older block by the parity of the newest number:
\* whatever fails in between, two records are consecutive and in the blocks of
\* their parities.
THEOREM SlotsAlternate ==
  ASSUME ReadFaults = FALSE PROVE Spec => []SlotParity
PROOF
<1>1. ParityInv => SlotParity  BY DEF ParityInv, StoreInv
<1> QED  BY <1>1, ParityInvariant, PTL

-----------------------------------------------------------------------------
(* The register the store implements *)

\* What a clear has erased and what a save has written is still there when
\* they return.
ReturnInv ==
  /\ pc = "verify" =>
       /\ slot[target] \in {Bad, [seq |-> seq, text |-> text]}
       /\ slot[1 - target] # Bad => seq > 1 /\ slot[1 - target].seq = seq - 1
  /\ pc = "clear" /\ ~failed /\ target = 1 => slot[0] = Bad
  /\ pc = "cleared" /\ ~failed => slot[0] = Bad /\ slot[1] = Bad

RegisterInv == ParityInv /\ ReturnInv

\* What the register shows of two blocks.
Views ==
  TypeOK =>
    /\ slot[0] = Bad /\ slot[1] = Bad => Stored = NoText /\ Prior = NoText /\ LoadSeq({}) = 0
    /\ \A i \in Slots :
         slot[i] # Bad /\ (slot[1 - i] # Bad => slot[1 - i].seq < slot[i].seq) =>
           /\ Stored = slot[i].text /\ LoadSeq({}) = slot[i].seq
           /\ Prior = IF slot[1 - i] = Bad THEN NoText ELSE slot[1 - i].text

LEMMA ViewsNow == Views
<1> SUFFICES ASSUME TypeOK
             PROVE  /\ slot[0] = Bad /\ slot[1] = Bad
                         => Stored = NoText /\ Prior = NoText /\ LoadSeq({}) = 0
                    /\ \A i \in Slots :
                         slot[i] # Bad /\ (slot[1 - i] # Bad => slot[1 - i].seq < slot[i].seq) =>
                           /\ Stored = slot[i].text /\ LoadSeq({}) = slot[i].seq
                           /\ Prior = IF slot[1 - i] = Bad THEN NoText ELSE slot[1 - i].text
  BY DEF Views
<1>1. ASSUME slot[0] = Bad, slot[1] = Bad
      PROVE  Stored = NoText /\ Prior = NoText /\ LoadSeq({}) = 0
  <2>1. Parsed({}) = {} /\ Slots # {}
    BY <1>1 DEF Parsed, Slots
  <2> QED
    BY <2>1 DEF Stored, Prior, LoadText, LoadSeq
<1>2. ASSUME NEW i \in Slots, slot[i] # Bad, slot[1 - i] # Bad => slot[1 - i].seq < slot[i].seq
      PROVE  /\ Stored = slot[i].text /\ LoadSeq({}) = slot[i].seq
             /\ Prior = IF slot[1 - i] = Bad THEN NoText ELSE slot[1 - i].text
  <2>1. Stored = slot[i].text /\ LoadSeq({}) = slot[i].seq
    BY <1>2, LoadsNewest DEF Stored
  <2>2. CASE slot[1 - i] = Bad
    <3>1. 1 - i \in Slots /\ 1 - i \notin Parsed({})
      BY <2>2 DEF Slots, Parsed
    <3>2. Prior = NoText
      BY <3>1 DEF Prior
    <3> QED
      BY <2>1, <2>2, <3>2
  <2>3. CASE slot[1 - i] # Bad
    <3>1. Slots = {i, 1 - i} /\ i # 1 - i
      BY DEF Slots
    <3>2. Parsed({}) = Slots
      BY <1>2, <2>3, <3>1 DEF Parsed
    <3>3. slot[i].seq \in Nat /\ slot[1 - i].seq \in Nat
      BY <1>2, <2>3, <3>1 DEF TypeOK, Records
    <3>4. Newest(Slots) \in Slots /\ IsNewest(Newest(Slots), Slots)
      BY <3>2, NewestIsParsed
    <3>5. Newest(Slots) = i
      <4> SUFFICES ASSUME Newest(Slots) # i PROVE FALSE
        OBVIOUS
      <4>1. Newest(Slots) = 1 - i
        BY <3>1, <3>4
      <4>2. i \in Slots \ {1 - i}
        BY <3>1
      <4>3. \/ slot[i].seq < slot[1 - i].seq
            \/ slot[i].seq = slot[1 - i].seq /\ 1 - i < i
        BY <3>4, <4>1, <4>2 DEF IsNewest
      <4> QED
        BY <1>2, <2>3, <3>3, <4>3
    <3>6. Prior = slot[1 - i].text
      BY <3>2, <3>5 DEF Prior
    <3> QED
      BY <2>1, <2>3, <3>6
  <2> QED
    BY <2>2, <2>3
<1> QED
  BY <1>1, <1>2

LEMMA ViewsNext == Views'
BY ViewsNow, PTL

LEMMA SameBlocksSameView ==
  slot' = slot => Stored' = Stored /\ Prior' = Prior /\ Young' = Young /\ LoadSeq({})' = LoadSeq({})
BY DEF Stored, Prior, Young, LoadText, LoadSeq, Newest, IsNewest, Parsed

LEMMA ReturnStep ==
  ASSUME RegisterInv, [Next]_vars
  PROVE  ReturnInv'
<1> USE DEF RegisterInv, ParityInv, TextInv
<1>1. CASE pc' \notin {"verify", "clear", "cleared"}
  BY <1>1 DEF ReturnInv
<1>2. ASSUME NEW sound \in BOOLEAN, Write(sound)
      PROVE  ReturnInv'
  <2>1. /\ pc = "write" /\ pc' = "verify" /\ UNCHANGED <<target, seq, text>>
        /\ slot' = [slot EXCEPT ![target] = IF sound THEN [seq |-> seq, text |-> text] ELSE Bad]
    BY <1>2 DEF Write
  <2>2. target \in Slots /\ 1 - target \in Slots /\ target # 1 - target /\ seq \in Nat
    BY DEF TypeOK, Slots
  <2>3. slot'[target] \in {Bad, [seq |-> seq, text |-> text]} /\ slot'[1 - target] = slot[1 - target]
    BY <2>1, <2>2 DEF TypeOK
  <2>4. slot[1 - target] # Bad => seq > 1 /\ slot[1 - target].seq = seq - 1
    BY <2>1, <2>2 DEF StoreInv
  <2> QED
    BY <2>1, <2>3, <2>4 DEF ReturnInv
<1>3. ASSUME NEW erased \in BOOLEAN, NEW written \in BOOLEAN, ClearBlock(erased, written)
      PROVE  ReturnInv'
  <2>1. /\ pc = "clear" /\ (failed' <=> failed \/ ~written) /\ (written => erased)
        /\ slot' = IF erased THEN [slot EXCEPT ![target] = Bad] ELSE slot
    BY <1>3 DEF ClearBlock
  <2>2. \/ target = 0 /\ target' = 1 /\ pc' = "clear"
        \/ target = 1 /\ pc' = "cleared"
    BY <1>3 DEF ClearBlock, TypeOK, Slots
  <2>3. ~failed' => ~failed /\ slot' = [slot EXCEPT ![target] = Bad]
    BY <2>1
  <2>4. \A i \in Slots : slot' = [slot EXCEPT ![target] = Bad] =>
          slot'[i] = IF i = target THEN Bad ELSE slot[i]
    BY DEF TypeOK
  <2>5. 0 \in Slots /\ 1 \in Slots
    BY DEF Slots
  <2>6. CASE target = 0 /\ target' = 1 /\ pc' = "clear"
    BY <2>3, <2>4, <2>5, <2>6 DEF ReturnInv
  <2>7. CASE target = 1 /\ pc' = "cleared"
    BY <2>1, <2>3, <2>4, <2>5, <2>7 DEF ReturnInv
  <2> QED
    BY <2>2, <2>6, <2>7
<1>4. CASE pc' = "clear" /\ target' = 0
  BY <1>4 DEF ReturnInv
<1>5. CASE UNCHANGED vars
  BY <1>5 DEF vars, ReturnInv
<1>6. CASE Refuse
  BY <1>6 DEF Refuse, ReturnInv
<1>7. (\E f \in Fields, v \in Values \cup {NoValue} : Rewrite(f, v)) \/ (\E t \in Lines : Save(t)) \/ Clear
      => Refuse \/ (pc' = "clear" /\ target' = 0) \/ pc' = "erase"
  BY DEF Rewrite, Save, Clear, StartSave, StartClear
<1>8. Erase \/ FlashFails \/ Verify \/ ClearReturns \/ PowerLoss
      => pc' \notin {"verify", "clear", "cleared"}
  BY DEF Erase, FlashFails, Verify, ClearReturns, PowerLoss
<1> QED
  BY <1>1, <1>2, <1>3, <1>4, <1>5, <1>6, <1>7, <1>8 DEF Next, Call, Flash

LEMMA RegisterInvariant ==
  ASSUME ReadFaults = FALSE PROVE Spec => []RegisterInv
<1>1. Init => RegisterInv
  <2> SUFFICES ASSUME Init PROVE RegisterInv  OBVIOUS
  <2>1. TextInv  BY InitTypes
  <2>2. slot[0] = Bad /\ slot[1] = Bad /\ pc = "idle"  BY DEF Init, Slots
  <2> QED  BY <2>1, <2>2 DEF RegisterInv, ReturnInv, ParityInv, StoreInv, SlotParity
<1>2. RegisterInv /\ [Next]_vars => RegisterInv'
  BY ParityStep, TypeStep, ReturnStep DEF RegisterInv, ParityInv
<1> QED  BY <1>1, <1>2, PTL DEF Spec

\* The call in progress, by the place it has reached.
CallInProgress ==
  /\ pc = "idle" => Busy = [op |-> "none"]
  /\ pc \in {"clear", "cleared"} => Busy = [op |-> "clear"]
  /\ pc \in {"erase", "write", "verify"}
       => Busy = [op |-> "save", text |-> text, first |-> seq = 1]

LEMMA CallNow == CallInProgress
BY DEF CallInProgress, Busy

LEMMA CallNext == CallInProgress'
BY CallNow, PTL

\* Only an empty store loads nothing, and its sequence number is 0.
LEMMA EmptyStoreLoadsNothing ==
  ASSUME ParityInv
  PROVE  /\ LoadSeq({}) \in Nat
         /\ Stored = NoText <=> LoadSeq({}) = 0
<1> USE DEF ParityInv, TextInv, StoreInv
<1>1. LoadSeq({}) \in Nat
  BY LoadTypes
<1>2. \A r \in Records : r.text # NoText
  BY StoreAssumption DEF Records, Texts, Lines
<1>3. CASE Parsed({}) = {}
  <2>1. Stored = NoText /\ LoadSeq({}) = 0
    BY <1>3 DEF Stored, LoadText, LoadSeq
  <2> QED
    BY <1>1, <2>1
<1>4. CASE Parsed({}) # {}
  <2>1. Stored # NoText
    BY <1>2, <1>4, NewestIsParsed DEF Stored, LoadText
  <2>2. LoadSeq({}) # 0
    <3>1. slot[0] # Bad \/ slot[1] # Bad
      BY <1>4 DEF Parsed, Slots
    <3> QED
      BY <3>1, LoadCases
  <2> QED
    BY <1>1, <2>1, <2>2
<1> QED
  BY <1>3, <1>4

\* What the register shows while a save is under way.
LEMMA SaveView ==
  ASSUME ParityInv, pc \in {"erase", "write"}
  PROVE  /\ slot[1 - target] # Bad =>
              /\ seq > 2 /\ slot[1 - target].seq = seq - 1
              /\ Stored = slot[1 - target].text /\ LoadSeq({}) = seq - 1
              /\ slot[target] = Bad => Prior = NoText
         /\ slot[1 - target] = Bad /\ slot[target] # Bad =>
              LoadSeq({}) = 1 /\ Prior = NoText
         /\ slot[1 - target] = Bad /\ slot[target] = Bad =>
              LoadSeq({}) = 0 /\ Stored = NoText /\ Prior = NoText
<1> USE DEF ParityInv, TextInv
<1> DEFINE other == 1 - target
<1>1. target \in Slots /\ other \in Slots /\ 1 - other = target /\ other # target
  BY DEF TypeOK, Slots
<1>2. seq \in Nat /\ \A i \in Slots : slot[i] # Bad => slot[i].seq \in Nat
  BY DEF TypeOK, Records
<1>3. ASSUME slot[other] # Bad
      PROVE  /\ seq > 2 /\ slot[other].seq = seq - 1
             /\ Stored = slot[other].text /\ LoadSeq({}) = seq - 1
             /\ slot[target] = Bad => Prior = NoText
  <2>1. seq > 2 /\ slot[other].seq = seq - 1
    BY <1>3 DEF StoreInv
  <2>2. slot[target] # Bad => slot[target].seq < slot[other].seq
    <3> SUFFICES ASSUME slot[target] # Bad PROVE slot[target].seq < slot[other].seq
      OBVIOUS
    <3>1. slot[target].seq < seq
      BY DEF StoreInv
    <3>2. slot[target].seq = slot[other].seq + 1 \/ slot[other].seq = slot[target].seq + 1
      <4>1. CASE target = 0
        BY <1>3, <4>1 DEF StoreInv, SlotParity
      <4>2. CASE target = 1
        BY <1>3, <4>2 DEF StoreInv, SlotParity
      <4> QED
        BY <1>1, <4>1, <4>2 DEF Slots
    <3> QED
      BY <1>1, <1>2, <1>3, <2>1, <3>1, <3>2
  <2>3. /\ Stored = slot[other].text /\ LoadSeq({}) = slot[other].seq
        /\ Prior = IF slot[target] = Bad THEN NoText ELSE slot[target].text
    BY <1>1, <1>3, <2>2, ViewsNow DEF Views
  <2> QED
    BY <2>1, <2>3
<1>4. ASSUME slot[other] = Bad, slot[target] # Bad
      PROVE  LoadSeq({}) = 1 /\ Prior = NoText
  <2>1. pc = "erase" /\ slot[target].seq < seq /\ seq > 0 /\ seq <= 2
    BY <1>4 DEF StoreInv
  <2>2. slot[target].seq > 0
    BY <1>1, <1>2, <1>4 DEF StoreInv, SlotParity, Slots
  <2>3. slot[target].seq = 1
    BY <1>1, <1>2, <1>4, <2>1, <2>2
  <2>4. LoadSeq({}) = slot[target].seq /\ Prior = NoText
    BY <1>1, <1>4, ViewsNow DEF Views
  <2> QED
    BY <2>3, <2>4
<1>5. ASSUME slot[other] = Bad, slot[target] = Bad
      PROVE  LoadSeq({}) = 0 /\ Stored = NoText /\ Prior = NoText
  <2>1. slot[0] = Bad /\ slot[1] = Bad
    BY <1>1, <1>5 DEF Slots
  <2> QED
    BY <2>1, ViewsNow DEF Views
<1> QED
  BY <1>3, <1>4, <1>5

\* Views of the next state from its blocks alone.
LEMMA NextEmpty ==
  ASSUME TypeOK', NEW i \in Slots, slot'[i] = Bad, slot'[1 - i] = Bad
  PROVE  Stored' = NoText /\ Prior' = NoText /\ LoadSeq({})' = 0
<1>1. slot'[0] = Bad /\ slot'[1] = Bad
  BY DEF Slots
<1> QED
  BY <1>1, ViewsNext DEF Views

LEMMA NextNewest ==
  ASSUME TypeOK', NEW i \in Slots, slot'[i] # Bad,
         slot'[1 - i] # Bad => slot'[1 - i].seq < slot'[i].seq
  PROVE  /\ Stored' = slot'[i].text /\ LoadSeq({})' = slot'[i].seq
         /\ Prior' = IF slot'[1 - i] = Bad THEN NoText ELSE slot'[1 - i].text
BY ViewsNext DEF Views

-----------------------------------------------------------------------------
(* No configuration is lost *)

\* While a save is under way, the only record it can have before it is the
\* first one, in block 0.
LEMMA OnlyRecordIsFirst ==
  ASSUME ParityInv, pc \in {"erase", "write"},
         slot[1 - target] = Bad, slot[target] # Bad
  PROVE  ErasesOnlyRecord
<1> USE DEF ParityInv, TextInv
<1>1. pc = "erase" /\ slot[target].seq < seq /\ seq > 0 /\ seq <= 2
  BY DEF StoreInv
<1>2. target \in Slots /\ seq \in Nat /\ slot[target].seq \in Nat /\ slot[target].seq > 0
  BY DEF TypeOK, Records, StoreInv, SlotParity, Slots
<1>3. seq = 2
  BY <1>1, <1>2
<1>4. target = 0
  BY <1>1, <1>3 DEF StoreInv
<1>5. Parsed({}) = {0}
  BY <1>4 DEF Parsed, Slots
<1> QED
  BY <1>1, <1>3, <1>4, <1>5 DEF ErasesOnlyRecord

LEMMA SparesStep ==
  ASSUME ParityInv, TypeOK', [Next]_vars, Saving
  PROVE  Spares
PROOF
<1> USE DEF ParityInv, TextInv
<1> DEFINE other == 1 - target
<1>1. target \in Slots /\ other \in Slots /\ 1 - other = target /\ other # target
  BY DEF TypeOK, Slots
<1>2. seq \in Nat /\ text \in Texts
  BY DEF TypeOK, Saving
<1>3. ASSUME slot' = slot
      PROVE  Spares
  BY <1>3, SameBlocksSameView DEF Spares
<1>4. CASE Erase
  <2>1. slot' = [slot EXCEPT ![target] = Bad] /\ pc = "erase"
    BY <1>4 DEF Erase
  <2>2. slot'[target] = Bad /\ slot'[other] = slot[other]
    BY <1>1, <2>1 DEF TypeOK
  <2>3. CASE slot[other] # Bad
    <3>1. Stored = slot[other].text
      BY <2>1, <2>3, SaveView
    <3>2. Stored' = slot'[other].text
      BY <1>1, <2>2, <2>3, NextNewest
    <3> QED
      BY <2>2, <3>1, <3>2 DEF Spares
  <2>4. CASE slot[other] = Bad
    <3>1. Stored' = NoText
      BY <1>1, <2>2, <2>4, NextEmpty
    <3>2. CASE slot[target] # Bad
      BY <2>1, <2>4, <3>1, <3>2, OnlyRecordIsFirst DEF Spares
    <3>3. CASE slot[target] = Bad
      <4>1. Stored = NoText
        BY <2>1, <2>4, <3>3, SaveView
      <4> QED
        BY <3>1, <4>1 DEF Spares
    <3> QED
      BY <3>2, <3>3
  <2> QED
    BY <2>3, <2>4
<1>5. ASSUME NEW sound \in BOOLEAN, Write(sound)
      PROVE  Spares
  <2>1. /\ pc = "write"
        /\ slot' = [slot EXCEPT ![target] =
                      IF sound THEN [seq |-> seq, text |-> text] ELSE Bad]
    BY <1>5 DEF Write
  <2>2. /\ slot'[target] = IF sound THEN [seq |-> seq, text |-> text] ELSE Bad
        /\ slot'[other] = slot[other]
    BY <1>1, <2>1 DEF TypeOK
  <2>3. CASE sound
    <3>1. slot'[target] = [seq |-> seq, text |-> text] /\ slot'[target] # Bad
      BY <1>2, <2>2, <2>3, RecordIsNotBad DEF Records
    <3>2. slot[other] # Bad => slot[other].seq < seq
      BY <1>2, <2>1, SaveView
    <3>3. Stored' = text
      BY <1>1, <2>2, <3>1, <3>2, NextNewest
    <3> QED
      BY <3>3 DEF Spares
  <2>4. CASE ~sound
    <3>1. slot[target] = Bad
      BY <2>1 DEF StoreInv
    <3>2. slot' = slot
      BY <1>1, <2>1, <2>4, <3>1 DEF TypeOK
    <3> QED
      BY <1>3, <3>2
  <2> QED
    BY <2>3, <2>4
<1>6. \/ Erase \/ (\E sound \in BOOLEAN : Write(sound)) \/ slot' = slot
  BY DEF Next, Call, Flash, vars, Rewrite, Save, Clear, FlashFails, Verify,
         ClearBlock, ClearReturns, PowerLoss, Saving
<1> QED
  BY <1>3, <1>4, <1>5, <1>6

\* No step of any save and no power loss in it loses the configuration
\* (velaops_conf_load returns the old text or the new one), but for the erase
\* of the second save, which takes the only record and leaves the store empty.
THEOREM SavesAreAtomic ==
  ASSUME ReadFaults = FALSE PROVE Spec => SaveSparesNewest
PROOF
<1>1. ParityInv /\ TypeOK' /\ [Next]_vars => [Saving => Spares]_vars
  BY SparesStep
<1>2. Spec => []TypeOK  BY TypeCorrect
<1>3. Spec => []ParityInv  BY ParityInvariant
<1> QED  BY <1>1, <1>2, <1>3, PTL DEF Spec, SaveSparesNewest

-----------------------------------------------------------------------------
(* Every step of the store is a step of the register *)

LEMMA SaveBegins ==
  ASSUME ReadFaults = FALSE, ParityInv, NEW t \in Texts, pc = "idle", StartSave(t)
  PROVE  Register!Begin
<1>1. /\ text' = t /\ seq' = LoadSeq({}) + 1 /\ pc' = "erase" /\ ret' = "none"
      /\ slot' = slot
  BY DEF StartSave, Unreadable
<1>2. (seq' = 1) <=> (Stored = NoText)
  BY <1>1, EmptyStoreLoadsNothing
<1>3. Busy = Register!Idle /\ Busy' = Register!SaveOf(t)
  <2>1. Busy = [op |-> "none"]
    BY CallNow DEF CallInProgress
  <2>2. Busy' = [op |-> "save", text |-> t, first |-> seq' = 1]
    BY <1>1, CallNext DEF CallInProgress
  <2>3. (seq' = 1) = (Stored = NoText)
    BY <1>2
  <2> QED
    BY <2>1, <2>2, <2>3 DEF Register!Idle, Register!SaveOf
<1>4. Stored' = Stored /\ Prior' = Prior /\ Young' = Young
  BY <1>1, SameBlocksSameView
<1> QED
  BY <1>1, <1>3, <1>4 DEF Register!Begin

LEMMA ClearBegins == pc = "idle" /\ StartClear => Register!Begin
<1> SUFFICES ASSUME pc = "idle", StartClear PROVE Register!Begin
  OBVIOUS
<1>1. pc' = "clear" /\ ret' = "none" /\ slot' = slot
  BY DEF StartClear
<1>2. Busy = Register!Idle /\ Busy' = Register!ClearAll
  BY <1>1, CallNow, CallNext DEF CallInProgress, Register!Idle, Register!ClearAll
<1>3. Stored' = Stored /\ Prior' = Prior /\ Young' = Young
  BY <1>1, SameBlocksSameView
<1> QED
  BY <1>1, <1>2, <1>3 DEF Register!Begin

LEMMA RefusalRefuses == pc = "idle" /\ Refuse => Register!Refuse
<1> SUFFICES ASSUME pc = "idle", Refuse PROVE Register!Refuse
  OBVIOUS
<1>1. pc' = "idle" /\ ret' = "error" /\ slot' = slot
  BY DEF Refuse
<1>2. Busy = Register!Idle /\ Busy' = Busy
  BY <1>1, CallNow, CallNext DEF CallInProgress, Register!Idle
<1>3. Stored' = Stored /\ Prior' = Prior /\ Young' = Young
  BY <1>1, SameBlocksSameView
<1> QED
  BY <1>1, <1>2, <1>3 DEF Register!Refuse

\* The erase of a save takes the older of two texts, or the only one while it
\* is the first.
LEMMA EraseMakesRoom ==
  ASSUME ParityInv, TypeOK', Erase
  PROVE  Register!MakeRoom
<1> USE DEF ParityInv, TextInv
<1> DEFINE other == 1 - target
<1>1. target \in Slots /\ other \in Slots /\ 1 - other = target /\ other # target
  BY DEF TypeOK, Slots
<1>2. /\ pc = "erase" /\ pc' = "write" /\ UNCHANGED <<text, target, seq, ret>>
      /\ slot' = [slot EXCEPT ![target] = Bad]
  BY DEF Erase
<1>3. slot'[target] = Bad /\ slot'[other] = slot[other]
  BY <1>1, <1>2 DEF TypeOK
<1>4. Busy' = Busy /\ Busy.op = "save"
  BY <1>2, CallNow, CallNext DEF CallInProgress
<1>5. seq \in Nat
  BY DEF TypeOK
<1>6. CASE slot[other] # Bad
  <2>1. seq > 2 /\ slot[other].seq = seq - 1 /\ Stored = slot[other].text /\ LoadSeq({}) = seq - 1
    BY <1>2, <1>6, SaveView
  <2>2. Stored' = slot'[other].text /\ LoadSeq({})' = slot'[other].seq /\ Prior' = NoText
    BY <1>1, <1>3, <1>6, NextNewest
  <2>3. ~Young /\ ~Young'
    BY <1>3, <1>5, <2>1, <2>2 DEF Young
  <2>4. Stored' = Stored
    BY <1>3, <2>1, <2>2
  <2> QED
    BY <1>2, <1>4, <2>2, <2>3, <2>4 DEF Register!MakeRoom, Young
<1>7. CASE slot[other] = Bad
  <2>1. Stored' = NoText /\ Prior' = NoText /\ LoadSeq({})' = 0
    BY <1>1, <1>3, <1>7, NextEmpty
  <2>2. CASE slot[target] # Bad
    <3>1. LoadSeq({}) = 1 /\ Prior = NoText
      BY <1>2, <1>7, <2>2, SaveView
    <3>2. Young /\ Young' = FALSE
      BY <2>1, <3>1 DEF Young
    <3> QED
      BY <1>2, <1>4, <2>1, <3>1, <3>2 DEF Register!MakeRoom
  <2>3. CASE slot[target] = Bad
    <3>1. LoadSeq({}) = 0 /\ Stored = NoText /\ Prior = NoText
      BY <1>2, <1>7, <2>3, SaveView
    <3>2. ~Young /\ Young' = Young
      BY <2>1, <3>1 DEF Young
    <3> QED
      BY <1>2, <1>4, <2>1, <3>1, <3>2 DEF Register!MakeRoom
  <2> QED
    BY <2>2, <2>3
<1> QED
  BY <1>6, <1>7

LEMMA WriteStores ==
  ASSUME ParityInv, TypeOK', NEW sound \in BOOLEAN, Write(sound)
  PROVE  [Register!RNext]_(Register!rvars)
<1> USE DEF ParityInv, TextInv
<1> DEFINE other == 1 - target
<1>1. target \in Slots /\ other \in Slots /\ 1 - other = target /\ other # target
  BY DEF TypeOK, Slots
<1>2. /\ pc = "write" /\ pc' = "verify" /\ UNCHANGED <<text, target, seq, ret>>
      /\ slot' = [slot EXCEPT ![target] =
                    IF sound THEN [seq |-> seq, text |-> text] ELSE Bad]
  BY DEF Write
<1>3. /\ slot'[target] = IF sound THEN [seq |-> seq, text |-> text] ELSE Bad
      /\ slot'[other] = slot[other]
  BY <1>1, <1>2 DEF TypeOK
<1>4. slot[target] = Bad
  BY <1>2 DEF StoreInv
<1>5. Busy' = Busy /\ Busy = [op |-> "save", text |-> text, first |-> seq = 1]
  BY <1>2, CallNow, CallNext DEF CallInProgress
<1>6. seq \in Nat /\ text \in Texts
  BY <1>2 DEF TypeOK
<1>7. CASE ~sound
  <2>1. slot' = slot
    BY <1>1, <1>2, <1>4, <1>7 DEF TypeOK
  <2>2. Stored' = Stored /\ Prior' = Prior /\ Young' = Young
    BY <2>1, SameBlocksSameView
  <2> QED
    BY <1>2, <1>5, <2>2 DEF Register!rvars
<1>8. CASE sound
  <2>1. slot'[target] = [seq |-> seq, text |-> text] /\ slot'[target] # Bad
    BY <1>3, <1>6, <1>8, RecordIsNotBad DEF Records
  <2>2. slot[other] # Bad => slot[other].seq < seq
    BY <1>2, <1>6, SaveView
  <2>3. /\ Stored' = text /\ LoadSeq({})' = seq
        /\ Prior' = IF slot[other] = Bad THEN NoText ELSE slot[other].text
    BY <1>1, <1>3, <2>1, <2>2, NextNewest
  <2>4. LoadSeq({}) # 1 /\ Prior' = Stored
    <3>1. CASE slot[other] = Bad
      BY <1>2, <1>4, <2>3, <3>1, SaveView
    <3>2. CASE slot[other] # Bad
      BY <1>2, <1>4, <1>6, <2>3, <3>2, SaveView
    <3> QED
      BY <3>1, <3>2
  <2>5. ~Young /\ Young' = (seq = 1)
    BY <2>3, <2>4 DEF Young
  <2>6. Busy.op = "save" /\ Busy.text = text /\ Busy.first = (seq = 1)
    BY <1>5
  <2>7. Register!Store
    BY <1>2, <1>5, <2>3, <2>4, <2>5, <2>6 DEF Register!Store
  <2> QED
    BY <2>7 DEF Register!RNext
<1> QED
  BY <1>7, <1>8

LEMMA FailureFails == FlashFails => Register!Fail
<1> SUFFICES ASSUME FlashFails PROVE Register!Fail
  OBVIOUS
<1>1. pc \in {"erase", "write"} /\ pc' = "idle" /\ ret' = "error" /\ slot' = slot
  BY DEF FlashFails
<1>2. Busy.op = "save" /\ Busy' = Register!Idle
  BY <1>1, CallNow, CallNext DEF CallInProgress, Register!Idle
<1>3. Busy # Register!Idle
  BY <1>2 DEF Register!Idle
<1>4. Stored' = Stored /\ Prior' = Prior /\ Young' = Young
  BY <1>1, SameBlocksSameView
<1> QED
  BY <1>1, <1>2, <1>3, <1>4 DEF Register!Fail

\* A save that reports success is what the next load returns.
LEMMA VerifyAnswers ==
  ASSUME RegisterInv, Verify
  PROVE  Register!Succeed \/ Register!Fail
<1> USE DEF RegisterInv, ParityInv, TextInv
<1>1. pc = "verify" /\ pc' = "idle" /\ slot' = slot
  BY DEF Verify
<1>2. Busy = [op |-> "save", text |-> text, first |-> seq = 1] /\ Busy' = Register!Idle
  BY <1>1, CallNow, CallNext DEF CallInProgress, Register!Idle
<1>3. Busy.op = "save" /\ Busy.text = text
  BY <1>2
<1>4. Busy # Register!Idle
  BY <1>3 DEF Register!Idle
<1>5. Stored' = Stored /\ Prior' = Prior /\ Young' = Young
  BY <1>1, SameBlocksSameView
<1>6. CASE ret' = "error"
  BY <1>2, <1>4, <1>5, <1>6 DEF Register!Fail
<1>7. CASE ret' = "ok"
  <2>1. slot[target] = [seq |-> seq, text |-> text]
    BY <1>1, <1>7 DEF Verify, ReturnInv
  <2>2. target \in Slots /\ seq \in Nat /\ text \in Texts
    BY <1>1 DEF TypeOK
  <2>3. slot[target] # Bad
    BY <2>1, <2>2, RecordIsNotBad DEF Records
  <2>4. slot[1 - target] # Bad => slot[1 - target].seq < slot[target].seq
    BY <1>1, <2>1, <2>2 DEF ReturnInv
  <2>5. Stored = text
    BY <2>1, <2>2, <2>3, <2>4, ViewsNow DEF Views
  <2> QED
    BY <1>2, <1>3, <1>4, <1>5, <1>7, <2>5 DEF Register!Succeed
<1> QED
  BY <1>6, <1>7 DEF Verify

LEMMA ClearErases ==
  ASSUME ParityInv, TypeOK', NEW erased \in BOOLEAN, NEW written \in BOOLEAN,
         ClearBlock(erased, written)
  PROVE  [Register!RNext]_(Register!rvars)
<1> USE DEF ParityInv, TextInv
<1> DEFINE other == 1 - target
<1>1. target \in Slots /\ other \in Slots /\ 1 - other = target /\ other # target
  BY DEF TypeOK, Slots
<1>2. /\ pc = "clear" /\ pc' \in {"clear", "cleared"} /\ ret' = ret
      /\ slot' = IF erased THEN [slot EXCEPT ![target] = Bad] ELSE slot
  BY DEF ClearBlock
<1>3. Busy' = Busy /\ Busy.op = "clear"
  BY <1>2, CallNow, CallNext DEF CallInProgress
<1>4. CASE slot' = slot
  <2>1. Stored' = Stored /\ Prior' = Prior /\ Young' = Young
    BY <1>4, SameBlocksSameView
  <2> QED
    BY <1>2, <1>3, <2>1 DEF Register!rvars
<1>5. CASE slot' # slot
  <2>1. slot' = [slot EXCEPT ![target] = Bad] /\ slot[target] # Bad
    BY <1>1, <1>2, <1>5 DEF TypeOK
  <2>2. slot'[target] = Bad /\ slot'[other] = slot[other]
    BY <1>1, <2>1 DEF TypeOK
  <2>3. CASE slot[other] = Bad
    <3>1. Prior = NoText
      BY <1>1, <2>1, <2>3, ViewsNow DEF Views
    <3>2. Stored' = NoText /\ Prior' = NoText /\ LoadSeq({})' = 0
      BY <1>1, <2>2, <2>3, NextEmpty
    <3>3. Young' = FALSE
      BY <3>2 DEF Young
    <3>4. Register!EraseCurrent
      BY <1>2, <1>3, <3>1, <3>2, <3>3 DEF Register!EraseCurrent
    <3> QED
      BY <3>4 DEF Register!RNext
  <2>4. CASE slot[other] # Bad
    <3>1. /\ slot[target].seq \in Nat /\ slot[other].seq \in Nat
          /\ slot[target].seq > 1 /\ slot[other].seq > 1
          /\ \/ slot[target].seq < slot[other].seq
             \/ slot[other].seq < slot[target].seq
      <4>1. slot[0].seq \in Nat /\ slot[1].seq \in Nat /\ slot[0] # Bad /\ slot[1] # Bad
        BY <1>1, <2>1, <2>4 DEF TypeOK, Records, Slots
      <4>2. /\ slot[0].seq > 1 /\ slot[1].seq > 1
            /\ slot[0].seq < slot[1].seq \/ slot[1].seq < slot[0].seq
        BY <4>1 DEF StoreInv, SlotParity
      <4> QED
        BY <1>1, <4>1, <4>2 DEF Slots
    <3>2. /\ Stored' = slot[other].text /\ LoadSeq({})' = slot[other].seq
          /\ Prior' = NoText
      BY <1>1, <2>2, <2>4, NextNewest
    <3>3. Young' = FALSE
      BY <3>1, <3>2 DEF Young
    <3>4. CASE slot[other].seq < slot[target].seq
      <4>1. Prior = slot[other].text
        BY <1>1, <2>1, <2>4, <3>4, ViewsNow DEF Views
      <4>2. Register!EraseCurrent
        BY <1>2, <1>3, <3>2, <3>3, <4>1 DEF Register!EraseCurrent
      <4> QED
        BY <4>2 DEF Register!RNext
    <3>5. CASE slot[target].seq < slot[other].seq
      <4>1. Stored = slot[other].text /\ LoadSeq({}) = slot[other].seq
        BY <1>1, <2>4, <3>5, ViewsNow DEF Views
      <4>2. Stored' = Stored /\ Young' = Young
        BY <3>2, <4>1 DEF Young
      <4>3. Register!ErasePrior
        BY <1>2, <1>3, <3>2, <4>2 DEF Register!ErasePrior
      <4> QED
        BY <4>3 DEF Register!RNext
    <3> QED
      BY <3>1, <3>4, <3>5
  <2> QED
    BY <2>3, <2>4
<1> QED
  BY <1>4, <1>5

LEMMA ClearAnswers ==
  ASSUME RegisterInv, ClearReturns
  PROVE  Register!Succeed \/ Register!Fail
<1> USE DEF RegisterInv, ParityInv, TextInv
<1>1. /\ pc = "cleared" /\ pc' = "idle" /\ slot' = slot
      /\ ret' = IF failed THEN "error" ELSE "ok"
  BY DEF ClearReturns
<1>2. Busy.op = "clear" /\ Busy' = Register!Idle
  BY <1>1, CallNow, CallNext DEF CallInProgress, Register!Idle
<1>3. Busy # Register!Idle
  BY <1>2 DEF Register!Idle
<1>4. Stored' = Stored /\ Prior' = Prior /\ Young' = Young
  BY <1>1, SameBlocksSameView
<1>5. CASE failed
  BY <1>1, <1>2, <1>3, <1>4, <1>5 DEF Register!Fail
<1>6. CASE ~failed
  <2>1. slot[0] = Bad /\ slot[1] = Bad
    BY <1>1, <1>6 DEF ReturnInv
  <2>2. Stored = NoText
    BY <2>1, ViewsNow DEF Views
  <2> QED
    BY <1>1, <1>2, <1>3, <1>4, <1>6, <2>2 DEF Register!Succeed
<1> QED
  BY <1>5, <1>6

LEMMA PowerLossIsPowerLoss == PowerLoss => Register!PowerLoss
<1> SUFFICES ASSUME PowerLoss PROVE Register!PowerLoss
  OBVIOUS
<1>1. pc' = "idle" /\ ret' = "none" /\ slot' = slot
  BY DEF PowerLoss
<1>2. Busy' = Register!Idle
  BY <1>1, CallNext DEF CallInProgress, Register!Idle
<1>3. Stored' = Stored /\ Prior' = Prior /\ Young' = Young
  BY <1>1, SameBlocksSameView
<1> QED
  BY <1>1, <1>2, <1>3 DEF Register!PowerLoss

LEMMA StoreStepIsRegisterStep ==
  ASSUME ReadFaults = FALSE, RegisterInv, TypeOK', [Next]_vars
  PROVE  [Register!RNext]_(Register!rvars)
<1> USE DEF RegisterInv, ParityInv, TextInv
<1>1. ASSUME NEW f \in Fields, NEW v \in Values \cup {NoValue}, Rewrite(f, v)
      PROVE  Register!Begin \/ Register!Refuse
  <2>1. PICK unread \in Unreadable :
          LET old == IF LoadText(unread) = NoText THEN Empty ELSE LoadText(unread)
              new == [old EXCEPT ![f] = v]
          IN  CASE ~Fits(new)               -> Refuse
                [] Fits(new) /\ new = Empty -> StartClear
                [] Fits(new) /\ new # Empty -> StartSave(new)
    BY <1>1 DEF Rewrite
  <2> DEFINE old == IF LoadText(unread) = NoText THEN Empty ELSE LoadText(unread)
             new == [old EXCEPT ![f] = v]
  <2>2. old \in Lines
    BY LoadTypes, EmptyIsLines DEF Texts
  <2>3. new \in Lines
    BY <2>2 DEF Lines
  <2>4. pc = "idle"
    BY <1>1 DEF Rewrite
  <2> HIDE DEF old, new
  <2>5. \/ Refuse \/ StartClear \/ (new # Empty /\ StartSave(new))
    BY <2>1 DEF old, new
  <2>6. CASE Refuse
    BY <2>4, <2>6, RefusalRefuses
  <2>7. CASE StartClear
    BY <2>4, <2>7, ClearBegins
  <2>8. CASE new # Empty /\ StartSave(new)
    BY <2>3, <2>4, <2>8, SaveBegins DEF Texts
  <2> QED
    BY <2>5, <2>6, <2>7, <2>8
<1>2. ASSUME NEW t \in Lines, Save(t)
      PROVE  Register!Begin \/ Register!Refuse
  <2>1. CASE t # Empty /\ Fits(t)
    BY <1>2, <2>1, SaveBegins DEF Save, Texts
  <2>2. CASE ~(t # Empty /\ Fits(t))
    BY <1>2, <2>2, RefusalRefuses DEF Save
  <2> QED
    BY <2>1, <2>2
<1>3. CASE Clear
  BY <1>3, ClearBegins DEF Clear, Register!RNext
<1>4. CASE Erase
  BY <1>4, EraseMakesRoom DEF Register!RNext
<1>5. ASSUME NEW sound \in BOOLEAN, Write(sound)
      PROVE  [Register!RNext]_(Register!rvars)
  BY <1>5, WriteStores
<1>6. CASE FlashFails
  BY <1>6, FailureFails DEF Register!RNext
<1>7. CASE Verify
  BY <1>7, VerifyAnswers DEF Register!RNext
<1>8. ASSUME NEW erased \in BOOLEAN, NEW written \in BOOLEAN, ClearBlock(erased, written)
      PROVE  [Register!RNext]_(Register!rvars)
  BY <1>8, ClearErases
<1>9. CASE ClearReturns
  BY <1>9, ClearAnswers DEF Register!RNext
<1>10. CASE PowerLoss
  BY <1>10, PowerLossIsPowerLoss DEF Register!RNext
<1>11. CASE UNCHANGED vars
  <2>1. pc' = pc /\ text' = text /\ seq' = seq /\ ret' = ret /\ slot' = slot
    BY <1>11 DEF vars
  <2>2. Busy' = Busy
    BY <2>1 DEF Busy
  <2> QED
    BY <2>1, <2>2, SameBlocksSameView DEF Register!rvars
<1>12. Register!Begin \/ Register!Refuse => Register!RNext
  BY DEF Register!RNext
<1> QED
  BY <1>1, <1>2, <1>3, <1>4, <1>5, <1>6, <1>7, <1>8, <1>9, <1>10, <1>11, <1>12
  DEF Next, Call, Flash

\* What velaops_conf.h promises: whatever fails and whenever power is lost, a
\* caller of the store sees the register of ConfRegister: one text or none, one
\* older text that may resurface, success only for what a load returns, and a
\* single save that is not atomic, the first.
THEOREM StoreIsRegister ==
  ASSUME ReadFaults = FALSE PROVE Spec => Refines
PROOF
<1>1. Init => Register!RInit
  <2> SUFFICES ASSUME Init PROVE Register!RInit
    OBVIOUS
  <2>1. TypeOK
    BY InitTypes DEF TextInv
  <2>2. slot[0] = Bad /\ slot[1] = Bad /\ pc = "idle" /\ ret = "none"
    BY DEF Init, Slots
  <2>3. Stored = NoText /\ Prior = NoText /\ LoadSeq({}) = 0
    BY <2>1, <2>2, ViewsNow DEF Views
  <2>4. Busy = Register!Idle
    BY <2>2, CallNow DEF CallInProgress, Register!Idle
  <2>5. Young = FALSE
    BY <2>3 DEF Young
  <2> QED
    BY <2>2, <2>3, <2>4, <2>5 DEF Register!RInit
<1>2. RegisterInv /\ TypeOK' /\ [Next]_vars => [Register!RNext]_(Register!rvars)
  BY StoreStepIsRegisterStep
<1>3. Spec => []TypeOK
  BY TypeCorrect
<1>4. Spec => []RegisterInv
  BY RegisterInvariant
<1> QED
  BY <1>1, <1>2, <1>3, <1>4, PTL DEF Spec, Refines, Register!RSpec
=============================================================================
