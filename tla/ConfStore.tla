----------------------------- MODULE ConfStore -----------------------------
(***************************************************************************)
(* The A/B configuration store of velaops_conf.c: two erase blocks of raw  *)
(* flash, each holding one record with a sequence number and a checksum.   *)
(* A save erases one block, writes it and reads it back; a clear erases    *)
(* both.  Power may fail between any two of these steps, an erase or a     *)
(* write may fail, and, where ReadFaults says so, a read.                  *)
(*                                                                         *)
(* A block whose magic, length or checksum does not hold (erased, torn or  *)
(* cleared) is Bad: conf_slot_parse treats all of them alike.              *)
(*                                                                         *)
(* An operator X_Fault beside X is X with a fault the code could have: the *)
(* properties below are shown to notice it.                                *)
(***************************************************************************)
EXTENDS Integers, FiniteSets

CONSTANTS
  Fields,       \* keys of the configuration text
  Values,       \* their values
  NoValue,      \* the key has no line in the text
  NoText,       \* no configuration
  Bad,          \* a block that conf_slot_parse rejects
  Capacity,     \* lines that fit into CONF_MAX_PAYLOAD
  ReadFaults,   \* whether a block read may fail
  MaxSeq        \* bound on the sequence number

ASSUME StoreAssumption ==
  /\ NoValue \notin Values
  /\ Bad \notin [seq : Nat, text : [Fields -> Values \cup {NoValue}]]
  /\ NoText \notin [Fields -> Values \cup {NoValue}]
  /\ Capacity \in Nat /\ MaxSeq \in Nat
  /\ ReadFaults \in BOOLEAN

VARIABLES
  slot,     \* the two blocks
  pc,       \* where the call in progress is
  text,     \* the text being saved
  target,   \* the block being written
  seq,      \* the sequence number being written
  failed,   \* ret of a clear: an erase failed
  ret       \* what the last call returned, "none" after a power loss

vars == <<slot, pc, text, target, seq, failed, ret>>

Slots   == {0, 1}
Lines   == [Fields -> Values \cup {NoValue}]
Empty   == [f \in Fields |-> NoValue]
Texts   == Lines \ {Empty}
Records == [seq : Nat, text : Texts]

Used(t) == {f \in Fields : t[f] # NoValue}
Fits(t) == Cardinality(Used(t)) <= Capacity

-----------------------------------------------------------------------------
(* conf_load_internal over the blocks that could be read *)

Parsed(unread) == {i \in Slots \ unread : slot[i] # Bad}

IsNewest(i, R) ==
  i \in R /\ \A j \in R \ {i} : \/ slot[j].seq < slot[i].seq
                                \/ slot[j].seq = slot[i].seq /\ i < j

Newest(R)     == CHOOSE i \in Slots : IsNewest(i, R)
LoadText(unread) == IF Parsed(unread) = {} THEN NoText
                    ELSE slot[Newest(Parsed(unread))].text
LoadSeq(unread)  == IF Parsed(unread) = {} THEN 0
                    ELSE slot[Newest(Parsed(unread))].seq

Unreadable == IF ReadFaults THEN SUBSET Slots ELSE {{}}

-----------------------------------------------------------------------------
(* velaops_conf_save and velaops_conf_clear *)

\* the modulus counts the flags block too
TargetFor_ThreeBlocks(s) == IF s % 3 = 0 /\ s > 0 THEN 1 ELSE 0
TargetFor(s) == IF s % 2 = 0 /\ s > 0 THEN 1 ELSE 0

Init ==
  /\ slot = [i \in Slots |-> Bad]
  /\ pc = "idle" /\ text = Empty /\ target = 0 /\ seq = 0
  /\ failed = FALSE /\ ret = "none"

StartSave(t) ==
  \E unread \in Unreadable :
    /\ LoadSeq(unread) < MaxSeq
    /\ text' = t
    /\ target' = TargetFor(LoadSeq(unread))
    /\ seq' = LoadSeq(unread) + 1
    /\ pc' = "erase" /\ ret' = "none"
    /\ UNCHANGED <<slot, failed>>

StartClear ==
  /\ pc' = "clear" /\ target' = 0 /\ failed' = FALSE /\ ret' = "none"
  /\ UNCHANGED <<slot, text, seq>>

Refuse == ret' = "error" /\ UNCHANGED <<slot, pc, text, target, seq, failed>>

\* An empty or an oversized text is refused before the flash is touched.
Save_Unchecked(t) == pc = "idle" /\ StartSave(t)
Save(t) ==
  /\ pc = "idle"
  /\ IF t # Empty /\ Fits(t) THEN StartSave(t) ELSE Refuse

Clear == pc = "idle" /\ StartClear

\* conf_rewrite: set (v a value) and del (v = NoValue) of one line.  A load
\* that fails reads as the empty text.
Rewrite(f, v) ==
  /\ pc = "idle"
  /\ \E unread \in Unreadable :
       LET old == IF LoadText(unread) = NoText THEN Empty ELSE LoadText(unread)
           new == [old EXCEPT ![f] = v]
       IN  CASE ~Fits(new)                -> Refuse
             [] Fits(new) /\ new = Empty  -> StartClear
             [] Fits(new) /\ new # Empty  -> StartSave(new)

\* conf_block_write: the erase, then the write; either may fail.
Erase ==
  /\ pc = "erase"
  /\ slot' = [slot EXCEPT ![target] = Bad]
  /\ pc' = "write"
  /\ UNCHANGED <<text, target, seq, failed, ret>>

\* A write the flash reports as complete may still have left a bad block.
Write(sound) ==
  /\ pc = "write"
  /\ slot' = [slot EXCEPT ![target] =
                IF sound THEN [seq |-> seq, text |-> text] ELSE Bad]
  /\ pc' = "verify"
  /\ UNCHANGED <<text, target, seq, failed, ret>>

FlashFails ==
  /\ pc \in {"erase", "write"}
  /\ pc' = "idle" /\ ret' = "error"
  /\ UNCHANGED <<slot, text, target, seq, failed>>

\* The block is read back and its text compared; its sequence number is not.
Verify_NoCompare ==
  /\ pc = "verify"
  /\ pc' = "idle" /\ ret' = "ok"
  /\ UNCHANGED <<slot, text, target, seq, failed>>

Verify ==
  /\ pc = "verify"
  /\ ret' \in IF slot[target] # Bad /\ slot[target].text = text
              THEN {"ok"} \cup (IF ReadFaults THEN {"error"} ELSE {})
              ELSE {"error"}
  /\ pc' = "idle"
  /\ UNCHANGED <<slot, text, target, seq, failed>>

\* One block of a clear: the erase fails, or the write of 0xff after it, or
\* neither.  A failure does not stop the loop.
ClearBlock(erased, written) ==
  /\ pc = "clear"
  /\ written => erased
  /\ slot' = IF erased THEN [slot EXCEPT ![target] = Bad] ELSE slot
  /\ failed' = (failed \/ ~written)
  /\ IF target = 0 THEN target' = 1 /\ UNCHANGED pc
                   ELSE pc' = "cleared" /\ UNCHANGED target
  /\ UNCHANGED <<text, seq, ret>>

ClearReturns ==
  /\ pc = "cleared"
  /\ pc' = "idle" /\ ret' = IF failed THEN "error" ELSE "ok"
  /\ UNCHANGED <<slot, text, target, seq, failed>>

\* Power is lost at any point; a block whose write was under way is torn.
PowerLoss ==
  /\ pc' = "idle" /\ ret' = "none"
  /\ text' = Empty /\ target' = 0 /\ seq' = 0 /\ failed' = FALSE
  /\ UNCHANGED slot

Call == \/ \E f \in Fields, v \in Values \cup {NoValue} : Rewrite(f, v)
        \/ \E t \in Lines : Save(t)
        \/ Clear

Flash == \/ Erase \/ (\E sound \in BOOLEAN : Write(sound)) \/ FlashFails \/ Verify
         \/ (\E erased, written \in BOOLEAN : ClearBlock(erased, written))
         \/ ClearReturns

Next == Call \/ Flash \/ PowerLoss

Spec == Init /\ [][Next]_vars

-----------------------------------------------------------------------------
(* Properties *)

Stored == LoadText({})

\* The blocks hold records or nothing, and only bounded sequence numbers.
TypeOK ==
  /\ slot \in [Slots -> Records \cup {Bad}]
  /\ pc \in {"idle", "erase", "write", "verify", "clear", "cleared"}
  /\ text \in Lines /\ target \in Slots /\ seq \in Nat
  /\ failed \in BOOLEAN /\ ret \in {"none", "ok", "error"}

\* The two records are told apart by consecutive sequence numbers, and from
\* the second save on a number's parity is the block it lives in: this is what
\* lets the next save find the older block.
SlotParity ==
  /\ slot[0] # Bad => slot[0].seq = 1 \/ (slot[0].seq > 0 /\ slot[0].seq % 2 = 0)
  /\ slot[1] # Bad => slot[1].seq > 2 /\ slot[1].seq % 2 = 1
  /\ slot[0] # Bad /\ slot[1] # Bad => \/ slot[0].seq = slot[1].seq + 1
                                       \/ slot[1].seq = slot[0].seq + 1

\* The inductive form of SlotParity: a save writes the block of its sequence
\* number's parity, and the other block holds the number before it unless this
\* is the first or the second save.
StoreInv ==
  /\ SlotParity
  /\ pc \in {"erase", "write", "verify"} => text \in Texts
  /\ pc \in {"erase", "write"} =>
       /\ seq > 0
       /\ target = IF seq > 1 /\ seq % 2 = 1 THEN 1 ELSE 0
       /\ IF slot[1 - target] = Bad THEN seq <= 2
          ELSE seq > 2 /\ slot[1 - target].seq = seq - 1
  /\ pc = "erase" /\ slot[target] # Bad => slot[target].seq < seq
  /\ pc = "write" => slot[target] = Bad

\* The erase of the second save, which takes the only record (TargetFor(1) = 0).
ErasesOnlyRecord == pc = "erase" /\ seq = 2 /\ Parsed({}) = {0} /\ target = 0

Spares == Stored' \in {Stored, text} \/ (ErasesOnlyRecord /\ Stored' = NoText)

\* No step of any save, no failure and no power loss in it, loses the
\* configuration (a load returns the old text or the new one), but for one
\* step: the erase of the second save.  From that erase to the write the store
\* is empty.
Saving == pc \in {"erase", "write", "verify"}

SaveSparesNewest == [][Saving => Spares]_vars

\* velaops_conf.c: "Next sequence number goes into the slot that is not the
\* newest."  The record a load returns would then survive the erase.
TargetIsNotNewest ==
  pc = "erase" /\ Stored # NoText => Newest(Parsed({})) # target

\* The text that resurfaces once the stored one is erased, whether the stored
\* one is the first since the store was empty, and the call in progress.
Prior == IF Parsed({}) = Slots THEN slot[1 - Newest(Slots)].text ELSE NoText
Young == LoadSeq({}) = 1
Busy  == CASE pc = "idle" -> [op |-> "none"]
           [] pc \in {"clear", "cleared"} -> [op |-> "clear"]
           [] OTHER -> [op |-> "save", text |-> text, first |-> seq = 1]

\* The store implements the register of ConfRegister.
Register ==
  INSTANCE ConfRegister WITH conf <- Stored, prior <- Prior, young <- Young, busy <- Busy

Refines == Register!RSpec
=============================================================================
