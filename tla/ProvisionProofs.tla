--------------------------- MODULE ProvisionProofs ---------------------------
(***************************************************************************)
(* The invariants of Provision for any number of phones, fields, waiting   *)
(* connections and networks: who is served, what is stored of a form, and  *)
(* what a page sent back changes.                                          *)
(***************************************************************************)
EXTENDS Provision, FiniteSetTheorems, SequenceTheorems, WellFoundedInduction, TLAPS

Fields == ToSet(FormFields)
Pins   == {"", "right", "wrong"}
Sendings == [pin : Pins, form : FormTexts, edited : BOOLEAN]
Reading  == {"save", "check"}
Open     == {"head", "silent", "page", "diag", "asking", "clear", "rescan", "other", "save", "check", "close"}

\* Who has a connection has an address, and no one has two.
PhonesInv ==
  /\ pc \in {"dhcp", "http", "down"} \cup Open
  /\ addr \in [Phones -> {"off", "discover", "offered", "request", "bound"}]
  /\ backlog \in Seq(Phones) /\ Len(backlog) <= Backlog /\ IsInjective(backlog)
  /\ cur \in Phones \cup {Nobody} /\ cur \notin ToSet(backlog)
  /\ pc \in Open <=> cur # Nobody
  /\ \A p \in Connected : addr[p] = "bound"

\* The pages of the phones are made from texts, and texts are stored.
PagesInv ==
  /\ seen \in [Phones -> Texts \cup {NotSeen}]
  /\ {conf, prior} \subseteq Texts \cup {NoConf} /\ StoreShape

\* An entry of the buffer is of its kind; one of a field never holds a PIN.
EntryOK(e) == e = Empty \/ (e \in Entries /\ (e.key # "pin" => e.value \in Values))

\* What has been received of a form is the start of its body; the last entry
\* may be cut.
Arrived(i) ==
  \/ buf[i] = Body(sent)[i]
  \/ i = total /\ pc = "check" /\ buf[i] = [Body(sent)[i] EXCEPT !.value = "cut"]

BufInv ==
  /\ buf \in Seq(Entries \cup {Empty}) /\ Len(buf) = Len(FormFields) + 1
  /\ \A i \in 1 .. Len(buf) : EntryOK(buf[i])
  /\ total \in 0 .. Len(buf)
  /\ sent \in Sendings
  /\ pc \notin Reading \cup {"close"} => total = 0
  /\ pc \in Reading => \A i \in 1 .. total : Arrived(i)

\* A form that its phone has not edited is the page the phone has.
SentInv ==
  pc \in Reading => /\ cur \in Phones /\ seen[cur] \in Texts
                    /\ ~sent.edited => sent.form = PageOf(seen[cur])

PortalInv == PhonesInv /\ PagesInv /\ BufInv /\ SentInv

-----------------------------------------------------------------------------
(* Numbers and the form *)

\* A set of numbers that is not empty has a least one.
LEMMA LeastExists ==
  ASSUME NEW S, S \subseteq Nat, S # {}
  PROVE  \E m \in S : \A k \in S : m <= k
<1> DEFINE R == {ss \in Nat \X Nat : ss[1] < ss[2]}
<1>1. IsWellFoundedOn(R, Nat)
  BY NatLessThanWellFounded, Zenon DEF OpToRel
<1> HIDE DEF R
<1>2. PICK m \in S : \A y \in S : ~(<<y, m>> \in R)
  BY <1>1, WFMin
<1>3. ASSUME NEW k \in S
      PROVE  m <= k
  <2>1. k < m => <<k, m>> \in R
    BY DEF R
  <2>2. ~(k < m) /\ k \in Nat /\ m \in Nat
    BY <1>2, <2>1
  <2> QED
    BY <2>2
<1> QED
  BY <1>3

LEMMA MinIsMember ==
  ASSUME NEW S, S \subseteq Nat, S # {}
  PROVE  Min(S) \in S
<1>1. \E m \in S : \A k \in S : m <= k
  BY LeastExists
<1> QED
  BY <1>1, Zenon DEF Min

\* The fields of the page are a sequence of different names.
LEMMA FieldsAre ==
  /\ FormFields \in Seq(Fields) /\ Len(FormFields) \in Nat /\ DOMAIN FormFields = 1 .. Len(FormFields)
  /\ \A i \in 1 .. Len(FormFields) : FormFields[i] \in Fields /\ FormFields[i] # "pin"
  /\ \A i, j \in 1 .. Len(FormFields) : FormFields[i] = FormFields[j] => i = j
  /\ \A f \in Fields : \E i \in 1 .. Len(FormFields) : f = FormFields[i]
<1>1. FormFields \in Seq(Fields) /\ IsInjective(FormFields) /\ "pin" \notin Fields
  BY ProvisionAssumption DEF Fields
<1>2. Len(FormFields) \in Nat /\ DOMAIN FormFields = 1 .. Len(FormFields)
  BY <1>1
<1>3. \A f : f \in Fields <=> \E i \in 1 .. Len(FormFields) : f = FormFields[i]
  BY <1>2 DEF Fields, ToSet
<1> QED
  BY <1>1, <1>2, <1>3 DEF IsInjective

\* The body of a form: the PIN, then the fields in their order.
LEMMA BodyIs ==
  ASSUME NEW r \in Sendings
  PROVE  /\ Body(r) \in Seq(Entries) /\ Len(Body(r)) = Len(FormFields) + 1
         /\ Body(r)[1] = [key |-> "pin", value |-> r.pin]
         /\ \A i \in 1 .. Len(FormFields) :
              Body(r)[i + 1] = [key |-> FormFields[i], value |-> r.form[FormFields[i]]]
<1> DEFINE n == Len(FormFields)
           rest == [i \in 1 .. n |-> [key |-> FormFields[i], value |-> r.form[FormFields[i]]]]
           first == <<[key |-> "pin", value |-> r.pin]>>
<1>1. n \in Nat /\ \A i \in 1 .. n : FormFields[i] \in Fields
  BY FieldsAre
<1>2. r.pin \in Pins /\ r.form \in [Fields -> Values]
  BY DEF Sendings, FormTexts, Fields
<1>3. \A i \in 1 .. n : rest[i] \in Entries
  BY <1>1, <1>2 DEF Entries, Fields
<1>4. rest \in [1 .. n -> Entries]
  BY <1>3
<1>5. rest \in Seq(Entries) /\ Len(rest) = n
  BY <1>1, <1>4
<1>6. [key |-> "pin", value |-> r.pin] \in Entries
  BY <1>2 DEF Entries, Pins, Values
<1>7. first \in Seq(Entries) /\ Len(first) = 1 /\ first[1] = [key |-> "pin", value |-> r.pin]
  BY <1>6
<1>8. Body(r) = first \o rest
  BY DEF Body
<1>9. \A i \in 1 .. n : rest[i] = [key |-> FormFields[i], value |-> r.form[FormFields[i]]]
  OBVIOUS
<1> HIDE DEF n, rest, first
<1>10. /\ Body(r) \in Seq(Entries) /\ Len(Body(r)) = n + 1
       /\ \A i \in 1 .. n + 1 : Body(r)[i] = IF i <= 1 THEN first[i] ELSE rest[i - 1]
  <2>1. /\ first \o rest \in Seq(Entries) /\ Len(first \o rest) = Len(first) + Len(rest)
        /\ \A i \in 1 .. Len(first) + Len(rest) :
             (first \o rest)[i] = IF i <= Len(first) THEN first[i] ELSE rest[i - Len(first)]
    BY <1>5, <1>7, ConcatProperties
  <2>2. Len(first) + Len(rest) = n + 1 /\ Len(first) = 1
    BY <1>1, <1>5, <1>7
  <2> QED
    BY <1>8, <2>1, <2>2
<1>11. Body(r)[1] = first[1] /\ \A i \in 1 .. n : Body(r)[i + 1] = rest[i]
  BY <1>1, <1>10
<1> QED
  BY <1>7, <1>9, <1>10, <1>11 DEF n

\* The first entries of the buffer are what has been received.
LEMMA ReceivedIs ==
  ASSUME BufInv
  PROVE  /\ total \in Nat /\ DOMAIN Received = 1 .. total
         /\ \A i \in 1 .. total : Received[i] = buf[i] /\ EntryOK(buf[i])
<1>1. buf \in Seq(Entries \cup {Empty}) /\ total \in 0 .. Len(buf) /\ Len(buf) \in Nat
  BY DEF BufInv
<1>2. /\ Received \in Seq(Entries \cup {Empty})
      /\ Len(Received) = IF 1 <= total THEN total - 1 + 1 ELSE 0
      /\ \A i \in 1 .. total - 1 + 1 : Received[i] = buf[1 + i - 1]
  BY <1>1, SubSeqProperties DEF Received
<1>3. Len(Received) = total /\ DOMAIN Received = 1 .. Len(Received)
  BY <1>1, <1>2
<1>4. \A i \in 1 .. total : Received[i] = buf[i]
  BY <1>1, <1>2
<1>5. \A i \in 1 .. total : EntryOK(buf[i])
  BY <1>1 DEF BufInv
<1> QED
  BY <1>1, <1>3, <1>4, <1>5

\* What is read of a field is a value a field may have.
LEMMA FormTextOK ==
  ASSUME BufInv
  PROVE  FormText(Received) \in Texts
<1>1. ASSUME NEW f \in Fields
      PROVE  FormGet(Received, f) \in Values
  <2> DEFINE at == {i \in DOMAIN Received : Received[i].key = f}
  <2>1. f # "pin"
    BY FieldsAre
  <2>2. \A i \in at : Received[i].value \in Values
    <3>1. Empty.value \in Values
      BY DEF Empty, Values
    <3> QED
      BY <2>1, <3>1, ReceivedIs DEF EntryOK
  <2>3. at \subseteq Nat
    BY ReceivedIs
  <2>4. FormGet(Received, f) = IF at = {} THEN "" ELSE Received[Min(at)].value
    BY DEF FormGet
  <2> HIDE DEF at
  <2>5. at # {} => Min(at) \in at
    BY <2>3, MinIsMember
  <2> QED
    BY <2>2, <2>4, <2>5 DEF Values
<1>2. \A f \in Fields \cup Others :
        (IF f \in Fields THEN FormGet(Received, f) ELSE "") \in Values
  BY <1>1 DEF Values
<1> QED
  BY <1>2 DEF FormText, Texts, Fields

-----------------------------------------------------------------------------
(* Who is served *)

Stays == UNCHANGED <<cur, backlog, addr>> /\ pc' \in {"dhcp", "http", "down"} \cup Open
         /\ (pc' \in Open <=> pc \in Open)

\* A step that neither opens nor closes a connection keeps them in order.
LEMMA StaysKeeps == PhonesInv /\ Stays => PhonesInv'
  BY DEF Stays, PhonesInv, Connected

LEMMA StaysCases ==
  NoDatagram \/ NoClient \/ Silence \/ HeadEnds \/ SendsForm \/ ServePage \/ Diag \/ Other
  \/ ClearConf \/ AskRescan \/ RecvBody \/ BodyEnds \/ Refuse \/ Restart \/ DiagEnds
  \/ (\E key \in Others : Set(key)) \/ (PhonesInv /\ UNCHANGED vars) \/ (Save /\ ~Reset)
  => Stays
<1>1. NoDatagram \/ NoClient \/ Silence \/ HeadEnds \/ Diag \/ Other \/ BodyEnds \/ Refuse \/ Restart
      \/ DiagEnds => Stays
  BY DEF NoDatagram, NoClient, Silence, HeadEnds, Kinds, Diag, DiagEnds, Other, BodyEnds, Refuse, Restart,
         Goto, phones, Stays, Open
<1>2. SendsForm \/ ServePage \/ ClearConf \/ AskRescan \/ RecvBody \/ (Save /\ ~Reset) => Stays
  BY DEF SendsForm, ServePage, ClearConf, AskRescan, RecvBody, Save, phones, Stays, Open
<1>3. (\E key \in Others : Set(key)) \/ (PhonesInv /\ UNCHANGED vars) => Stays
  BY DEF Set, PhonesInv, vars, phones, Stays, Open
<1> QED
  BY <1>1, <1>2, <1>3

\* A reset leaves no connection and no address.
LEMMA ResetPhones == Reset => PhonesInv'
<1> SUFFICES ASSUME Reset
             PROVE  PhonesInv'
  OBVIOUS
<1>1. pc' = "down" /\ cur' = Nobody /\ addr' = [p \in Phones |-> "off"] /\ backlog' = <<>>
  BY DEF Reset, Lost
<1>2. backlog' \in Seq(Phones) /\ Len(backlog') = 0 /\ ToSet(backlog') = {} /\ IsInjective(backlog')
  BY <1>1 DEF ToSet, IsInjective
<1> QED
  BY <1>1, <1>2, ProvisionAssumption DEF PhonesInv, Connected, Open

LEMMA ConnectedArePhones == PhonesInv => Connected \subseteq Phones
  BY DEF PhonesInv, Connected, ToSet

LEMMA PhonesStep == PhonesInv /\ [Next]_vars => PhonesInv'
<1> SUFFICES ASSUME PhonesInv, [Next]_vars
             PROVE  PhonesInv'
  OBVIOUS
<1> USE ProvisionAssumption
<1>1. ASSUME NEW p \in Phones, Ask(p) \/ Leave(p)
      PROVE  PhonesInv'
  <2>1. PICK to \in {"off", "discover", "request"} : addr' = [addr EXCEPT ![p] = to]
    BY <1>1 DEF Ask, Leave
  <2>2. UNCHANGED <<pc, cur, backlog>> /\ p \notin Connected
    BY <1>1 DEF Ask, Leave, PhonesInv
  <2>3. Connected' = Connected
    BY <2>2 DEF Connected
  <2>4. addr' \in [Phones -> {"off", "discover", "offered", "request", "bound"}]
    BY <2>1 DEF PhonesInv
  <2>5. \A q \in Connected : addr'[q] = "bound"
    <3>1. \A q \in Connected : addr[q] = "bound"
      BY DEF PhonesInv
    <3>2. addr \in [Phones -> {"off", "discover", "offered", "request", "bound"}]
      BY DEF PhonesInv
    <3>3. \A q \in Phones : q # p => addr'[q] = addr[q]
      BY <2>1, <3>2
    <3> QED
      BY <2>2, <3>1, <3>3, ConnectedArePhones
  <2> QED
    BY <2>2, <2>3, <2>4, <2>5 DEF PhonesInv
<1>2. ASSUME NEW p \in Phones, Connect(p)
      PROVE  PhonesInv'
  <2>1. /\ backlog \in Seq(Phones) /\ backlog' = Append(backlog, p) /\ Len(backlog) < Backlog
        /\ p \notin ToSet(backlog) /\ p # cur /\ addr[p] = "bound"
        /\ UNCHANGED <<pc, cur, addr>>
    BY <1>2 DEF Connect, PhonesInv, Connected, phones
  <2>2. /\ backlog' \in Seq(Phones) /\ Len(backlog') = Len(backlog) + 1 /\ Len(backlog) \in Nat
        /\ \A i \in 1 .. Len(backlog) : backlog'[i] = backlog[i]
        /\ backlog'[Len(backlog) + 1] = p
    BY <2>1, AppendProperties
  <2>3. DOMAIN backlog' = 1 .. Len(backlog) + 1 /\ DOMAIN backlog = 1 .. Len(backlog)
    BY <2>1, <2>2
  <2>4. ToSet(backlog') = ToSet(backlog) \cup {p}
    BY <2>2, <2>3 DEF ToSet
  <2>5. IsInjective(backlog')
    <3>1. \A i \in DOMAIN backlog : backlog[i] # p
      BY <2>1 DEF ToSet
    <3>2. \A i, j \in DOMAIN backlog : backlog[i] = backlog[j] => i = j
      BY DEF PhonesInv, IsInjective
    <3> QED
      BY <2>2, <2>3, <3>1, <3>2 DEF IsInjective
  <2>6. Len(backlog') <= Backlog
    BY <2>1, <2>2
  <2>7. \A q \in Connected' : addr'[q] = "bound"
    BY <2>1, <2>4 DEF PhonesInv, Connected
  <2>8. cur' \notin ToSet(backlog')
    BY <2>1, <2>4 DEF PhonesInv
  <2> QED
    BY <2>1, <2>2, <2>5, <2>6, <2>7, <2>8 DEF PhonesInv
<1>3. ASSUME NEW p \in Phones, NEW heard \in BOOLEAN, DhcpPoll(p, heard)
      PROVE  PhonesInv'
  <2>1. p \notin Connected /\ UNCHANGED <<cur, backlog>> /\ pc = "dhcp" /\ pc' = "http"
    BY <1>3 DEF DhcpPoll, Asking, PhonesInv
  <2>2. PICK to \in {"off", "offered", "bound"} : addr' = [addr EXCEPT ![p] = to]
    <3>1. addr[p] \in {"discover", "request"}
          /\ addr' = [addr EXCEPT ![p] = IF heard THEN Answer[addr[p]] ELSE "off"]
      BY <1>3 DEF DhcpPoll, Asking
    <3>2. (IF heard THEN Answer[addr[p]] ELSE "off") \in {"off", "offered", "bound"}
      BY <3>1 DEF Answer
    <3> QED
      BY <3>1, <3>2
  <2> QED
    BY <2>1, <2>2 DEF PhonesInv, Connected, Open
<1>4. CASE Accept
  <2>1. /\ backlog \in Seq(Phones) /\ backlog # <<>> /\ cur' = Head(backlog)
        /\ backlog' = Tail(backlog) /\ addr' = addr /\ pc' \in Open
    BY <1>4 DEF Accept, PhonesInv, phones, Open
  <2>2. /\ Len(backlog) \in Nat \ {0} /\ Head(backlog) = backlog[1] /\ backlog[1] \in Phones
        /\ Tail(backlog) \in Seq(Phones) /\ Len(Tail(backlog)) = Len(backlog) - 1
        /\ \A i \in 1 .. Len(Tail(backlog)) : Tail(backlog)[i] = backlog[i + 1]
    BY <2>1, HeadTailProperties
  <2>3. DOMAIN backlog = 1 .. Len(backlog) /\ DOMAIN backlog' = 1 .. Len(backlog) - 1
    BY <2>1, <2>2
  <2>4. \A i, j \in 1 .. Len(backlog) : backlog[i] = backlog[j] => i = j
    BY <2>3 DEF PhonesInv, IsInjective
  <2>5. IsInjective(backlog') /\ Head(backlog) \notin ToSet(backlog') /\ ToSet(backlog') \subseteq ToSet(backlog)
    <3>1. \A i \in DOMAIN backlog' : backlog'[i] = backlog[i + 1] /\ i + 1 \in 1 .. Len(backlog)
      BY <2>1, <2>2, <2>3
    <3>2. IsInjective(backlog')
      BY <2>3, <2>4, <3>1 DEF IsInjective
    <3> QED
      BY <2>2, <2>3, <2>4, <3>1, <3>2 DEF ToSet
  <2>6. Head(backlog) \in ToSet(backlog)
    BY <2>2, <2>3 DEF ToSet
  <2>7. Len(backlog') <= Backlog
    BY <2>1, <2>2 DEF PhonesInv
  <2>8. cur' \in Phones /\ cur' \notin ToSet(backlog') /\ cur' # Nobody
    BY <2>1, <2>2, <2>5
  <2>9. \A q \in Connected' : addr'[q] = "bound"
    BY <2>1, <2>5, <2>6 DEF PhonesInv, Connected
  <2> QED
    BY <2>1, <2>2, <2>5, <2>7, <2>8, <2>9 DEF PhonesInv
<1>5. CASE Close
  <2>1. pc' = "dhcp" /\ cur' = Nobody /\ UNCHANGED <<addr, backlog>>
    BY <1>5 DEF Close, phones
  <2>2. Connected' \subseteq Connected /\ Nobody \notin ToSet(backlog')
    BY <2>1, ConnectedArePhones DEF Connected
  <2> QED
    BY <2>1, <2>2 DEF PhonesInv, Open
<1>6. CASE Rescan \/ Crash \/ (Save /\ Reset)
  BY <1>6, ResetPhones DEF Rescan, Crash
<1> QED
  BY <1>1, <1>2, <1>3, <1>4, <1>5, <1>6, StaysCases, StaysKeeps DEF Next, Phone, Dhcp, Serve

-----------------------------------------------------------------------------
(* What is stored and shown *)

\* A page offers values that a field may have.
LEMMA PageOK == \A c \in Texts : PageOf(c) \in FormTexts
<1> TAKE c \in Texts
<1>1. \A f \in Fields : c[f] \in Values
  BY DEF Texts, Fields
<1>2. \A f \in Fields : Shown(f, c[f]) \in Values
  BY <1>1 DEF Shown, Values
<1> QED
  BY <1>2 DEF PageOf, FormTexts, Fields

LEMMA NoTextOK == NoText \in Texts
  BY DEF NoText, Texts, Values

\* What a save, a clear or a failure of them leaves are texts.
LEMMA StoreKeeps ==
  ASSUME {conf, prior} \subseteq Texts \cup {NoConf}, StoreShape
  PROVE  /\ \A c \in Texts : Stores(c) => {conf, prior}' \subseteq Texts \cup {NoConf} /\ StoreShape'
         /\ StoresHalf \/ Erases \/ ErasesHalf \/ UNCHANGED store
            => {conf, prior}' \subseteq Texts \cup {NoConf} /\ StoreShape'
<1>1. ASSUME NEW c \in Texts, Stores(c)
      PROVE  {conf, prior}' \subseteq Texts \cup {NoConf} /\ StoreShape'
  <2>1. c # NoConf
    BY ProvisionAssumption
  <2> QED
    BY <1>1, <2>1 DEF Stores, StoreShape
<1>2. ASSUME StoresHalf \/ Erases \/ ErasesHalf \/ UNCHANGED store
      PROVE  {conf, prior}' \subseteq Texts \cup {NoConf} /\ StoreShape'
  <2>1. CASE StoresHalf
    BY <2>1 DEF StoresHalf, StoreShape
  <2>2. CASE Erases
    BY <2>2 DEF Erases, StoreShape
  <2>3. CASE ErasesHalf
    <3>1. CASE conf' = prior /\ prior' = NoConf /\ young' = FALSE
      BY <3>1 DEF StoreShape
    <3>2. CASE prior' = NoConf /\ conf' = conf /\ young' = young
      BY <3>2 DEF StoreShape
    <3> QED
      BY <2>3, <3>1, <3>2 DEF ErasesHalf
  <2>4. CASE UNCHANGED store
    BY <2>4 DEF store, StoreShape
  <2> QED
    BY <1>2, <2>1, <2>2, <2>3, <2>4
<1> QED
  BY <1>1, <1>2

LEMMA PagesStep == PagesInv /\ PhonesInv /\ BufInv /\ [Next]_vars => PagesInv'
<1> SUFFICES ASSUME PagesInv, PhonesInv, BufInv, [Next]_vars
             PROVE  PagesInv'
  OBVIOUS
<1> USE DEF PagesInv
<1>1. CASE ServePage
  <2>1. UNCHANGED store
    BY <1>1 DEF ServePage
  <2>2. seen' \in [Phones -> Texts \cup {NotSeen}]
    <3>1. (IF conf = NoConf THEN NoText ELSE conf) \in Texts
      BY NoTextOK
    <3> QED
      BY <1>1, <3>1 DEF ServePage
  <2> QED
    BY <2>1, <2>2, StoreKeeps
<1>2. CASE ClearConf
  BY <1>2, StoreKeeps DEF ClearConf, phones
<1>3. CASE Save
  <2>1. Stores(FormText(Received)) \/ StoresHalf \/ UNCHANGED store
    BY <1>3 DEF Save
  <2>2. seen' = seen
    BY <1>3 DEF Save, Reset, phones
  <2> QED
    BY <2>1, <2>2, FormTextOK, StoreKeeps
<1>4. ASSUME NEW key \in Others, Set(key)
      PROVE  PagesInv'
  <2>1. conf \in Texts /\ Stores([conf EXCEPT ![key] = "v"]) /\ seen' = seen
    BY <1>4 DEF Set, phones
  <2>2. [conf EXCEPT ![key] = "v"] \in Texts
    BY <2>1 DEF Texts, Values
  <2> QED
    BY <2>1, <2>2, StoreKeeps
<1>5. CASE UNCHANGED <<seen, store>>
  BY <1>5, StoreKeeps
<1>6. Phone \/ Dhcp \/ (Serve /\ ~ServePage /\ ~ClearConf /\ ~Save) \/ DiagEnds \/ Crash \/ Restart
      \/ UNCHANGED vars => UNCHANGED <<seen, store>>
  BY DEF Phone, Ask, Leave, Connect, Dhcp, DhcpPoll, Serve, NoDatagram, NoClient, Accept, Silence,
         HeadEnds, SendsForm, Diag, DiagEnds, Other, AskRescan, RecvBody, BodyEnds, Refuse, Close,
         Rescan, Crash, Restart, Reset, Goto, phones, vars
<1> QED
  BY <1>1, <1>2, <1>3, <1>4, <1>5, <1>6 DEF Next, Serve

-----------------------------------------------------------------------------
(* What is received *)

LEMMA FormsAreSendings ==
  ASSUME NEW p, seen[p] \in Texts
  PROVE  Forms(p) \subseteq Sendings /\ \A r \in Forms(p) : ~r.edited => r.form = PageOf(seen[p])
<1> USE DEF Sendings, Pins
<1>1. PageOf(seen[p]) \in FormTexts
  BY PageOK
<1>2. \A f \in Fields : \A v : v \in Typed[f] => [PageOf(seen[p]) EXCEPT ![f] = v] \in FormTexts
  BY <1>1 DEF FormTexts, Values, Fields
<1> HIDE DEF FormTexts
<1>3. ASSUME NEW r \in Forms(p)
      PROVE  r \in Sendings /\ (~r.edited => r.form = PageOf(seen[p]))
  <2>1. CASE \E pin \in {"right", "wrong"} :
               r = [pin |-> pin, form |-> PageOf(seen[p]), edited |-> FALSE]
    <3>1. PICK pin \in {"right", "wrong"} :
               r = [pin |-> pin, form |-> PageOf(seen[p]), edited |-> FALSE]
      BY <2>1
    <3>2. r \in Sendings
      BY <1>1, <3>1
    <3>3. r.form = PageOf(seen[p])
      BY <3>1
    <3> QED
      BY <3>2, <3>3
  <2>2. CASE \E f \in Fields : \E v \in Typed[f] :
               r = [pin |-> "right", form |-> [PageOf(seen[p]) EXCEPT ![f] = v], edited |-> TRUE]
    <3>1. PICK f \in Fields : \E v \in Typed[f] :
               r = [pin |-> "right", form |-> [PageOf(seen[p]) EXCEPT ![f] = v], edited |-> TRUE]
      BY <2>2
    <3>2. \A v \in Typed[f] : [PageOf(seen[p]) EXCEPT ![f] = v] \in FormTexts
      BY <1>2
    <3> QED
      BY <3>1, <3>2
  <2> QED
    BY <2>1, <2>2 DEF Forms, Fields
<1> QED
  BY <1>3

LEMMA NoFormOK == NoForm \in Sendings
  BY DEF NoForm, Sendings, FormTexts, Pins, Values

BufQuiet ==
  /\ UNCHANGED <<buf, total, sent>>
  /\ pc' \in Reading => pc \in Reading /\ (pc = "check" => pc' = "check")
  /\ pc' \notin Reading \cup {"close"} => pc \notin Reading \cup {"close"}

LEMMA BufQuietKeeps == BufInv /\ BufQuiet => BufInv'
  BY DEF BufInv, BufQuiet, Arrived, Reading

LEMMA BufStep == BufInv /\ PagesInv /\ PhonesInv /\ [Next]_vars => BufInv'
<1> SUFFICES ASSUME BufInv, PagesInv, PhonesInv, [Next]_vars
             PROVE  BufInv'
  OBVIOUS
<1>1. CASE BufQuiet
  BY <1>1, BufQuietKeeps
<1>2. Phone \/ Dhcp \/ NoDatagram \/ NoClient \/ Accept \/ Silence \/ HeadEnds \/ ServePage \/ Diag
      \/ Other \/ ClearConf \/ AskRescan \/ BodyEnds \/ Refuse \/ (Save /\ ~Reset) \/ Restart
      \/ DiagEnds \/ (\E key \in Others : Set(key)) \/ UNCHANGED vars => BufQuiet
  <2>1. Phone \/ Dhcp \/ NoDatagram \/ NoClient \/ Accept \/ Silence \/ HeadEnds => BufQuiet
    BY DEF Phone, Ask, Leave, Connect, Dhcp, DhcpPoll, NoDatagram, NoClient, Accept, Silence,
           HeadEnds, Kinds, Goto, BufQuiet, Reading
  <2>2. ServePage \/ Diag \/ Other \/ ClearConf \/ AskRescan \/ BodyEnds \/ Refuse \/ Restart
        \/ DiagEnds => BufQuiet
    BY DEF ServePage, Diag, DiagEnds, Other, ClearConf, AskRescan, BodyEnds, Refuse, Restart, Goto, BufQuiet,
           Reading
  <2>3. (Save /\ ~Reset) \/ (\E key \in Others : Set(key)) \/ UNCHANGED vars => BufQuiet
    BY DEF Save, Set, vars, BufQuiet, Reading
  <2> QED
    BY <2>1, <2>2, <2>3
<1>3. CASE SendsForm
  <2>1. sent' \in Forms(cur) /\ pc = "head" /\ pc' = "save" /\ UNCHANGED <<buf, total>>
        /\ seen[cur] # NotSeen
    BY <1>3 DEF SendsForm
  <2>2. cur \in Phones
    BY <2>1 DEF PhonesInv, Open
  <2>3. seen[cur] \in Texts
    BY <2>1, <2>2 DEF PagesInv
  <2>4. sent' \in Sendings
    BY <2>1, <2>3, FormsAreSendings
  <2>5. total' = 0
    BY <2>1 DEF BufInv, Reading
  <2> QED
    BY <2>1, <2>4, <2>5 DEF BufInv, Reading
<1>4. CASE RecvBody
  <2> DEFINE entry == Body(sent)[total + 1]
             cut == [entry EXCEPT !.value = "cut"]
  <2>1. /\ pc = "save" /\ total < Len(Body(sent)) /\ total' = total + 1 /\ sent' = sent
        /\ \/ buf' = [buf EXCEPT ![total + 1] = entry] /\ pc' = "save"
           \/ buf' = [buf EXCEPT ![total + 1] = cut] /\ pc' = "check"
    BY <1>4 DEF RecvBody
  <2>2. /\ sent \in Sendings /\ buf \in Seq(Entries \cup {Empty}) /\ total \in Nat
        /\ Len(buf) = Len(FormFields) + 1 /\ Len(Body(sent)) = Len(buf)
    <3>1. /\ sent \in Sendings /\ buf \in Seq(Entries \cup {Empty}) /\ total \in 0 .. Len(buf)
          /\ Len(buf) = Len(FormFields) + 1
      BY DEF BufInv
    <3>2. total \in Nat
      BY <3>1
    <3> QED
      BY <3>1, <3>2, BodyIs
  <2>3. total + 1 \in 1 .. Len(buf) /\ Len(buf) \in Nat
    BY <2>1, <2>2
  <2>4. entry \in Entries /\ EntryOK(entry)
    <3>1. CASE total = 0
      <4>1. entry = [key |-> "pin", value |-> sent.pin] /\ sent.pin \in Pins
        BY <2>2, <3>1, BodyIs DEF Sendings
      <4>2. sent.pin \in Values \cup {"right", "wrong"}
        BY <4>1 DEF Pins, Values
      <4> QED
        BY <4>1, <4>2 DEF EntryOK, Entries
    <3>2. CASE total # 0
      <4>1. total \in 1 .. Len(FormFields) /\ FormFields[total] \in Fields
        BY <2>2, <2>3, <3>2, FieldsAre
      <4>2. entry = [key |-> FormFields[total], value |-> sent.form[FormFields[total]]]
        BY <2>2, <4>1, BodyIs
      <4>3. sent.form[FormFields[total]] \in Values
        BY <2>2, <4>1 DEF Sendings, FormTexts, Fields
      <4> QED
        BY <4>1, <4>2, <4>3 DEF EntryOK, Entries, Fields
    <3> QED
      BY <3>1, <3>2
  <2>5. cut \in Entries /\ EntryOK(cut)
    <3>1. "cut" \in Values
      BY DEF Values
    <3>2. cut = [key |-> entry.key, value |-> "cut"]
      BY <2>4 DEF Entries
    <3> QED
      BY <2>4, <3>1, <3>2 DEF EntryOK, Entries
  <2>6. PICK e \in {entry, cut} :
          buf' = [buf EXCEPT ![total + 1] = e] /\ (e = entry \/ pc' = "check") /\ pc' \in Reading
    BY <2>1 DEF Reading
  <2> HIDE DEF entry, cut
  <2>7. /\ buf' \in Seq(Entries \cup {Empty}) /\ Len(buf') = Len(buf)
        /\ buf'[total + 1] = e /\ \A i \in 1 .. Len(buf) : i # total + 1 => buf'[i] = buf[i]
    BY <2>2, <2>3, <2>4, <2>5, <2>6
  <2>8. \A i \in 1 .. Len(buf') : EntryOK(buf'[i])
    BY <2>4, <2>5, <2>6, <2>7 DEF BufInv
  <2>9. ASSUME NEW i \in 1 .. total'
        PROVE  Arrived(i)'
    <3>1. CASE i = total + 1
      BY <2>1, <2>6, <2>7, <3>1 DEF Arrived, entry, cut
    <3>2. CASE i # total + 1
      <4>1. i \in 1 .. total /\ i \in 1 .. Len(buf)
        BY <2>1, <2>2, <2>3, <3>2
      <4>2. buf[i] = Body(sent)[i]
        BY <2>1, <4>1 DEF BufInv, Arrived, Reading
      <4> QED
        BY <2>1, <2>7, <3>2, <4>1, <4>2 DEF Arrived
    <3> QED
      BY <3>1, <3>2
  <2> QED
    BY <2>1, <2>2, <2>3, <2>6, <2>7, <2>8, <2>9 DEF BufInv
<1>5. CASE Close \/ Reset
  <2>1. buf \in Seq(Entries \cup {Empty}) /\ DOMAIN buf = 1 .. Len(buf) /\ Len(buf) \in Nat
    BY DEF BufInv
  <2>2. /\ sent' = NoForm /\ total' = 0 /\ pc' \notin Reading
        /\ \/ buf' = [i \in 1 .. Len(buf) |-> [buf[i] EXCEPT !.value = "old"]]
           \/ buf' = [i \in 1 .. Len(buf) |-> Empty]
    BY <1>5, <2>1 DEF Close, Reset, Reading
  <2>3. \A i \in 1 .. Len(buf) : [buf[i] EXCEPT !.value = "old"] \in Entries \cup {Empty}
                                 /\ EntryOK([buf[i] EXCEPT !.value = "old"])
    <3> TAKE i \in 1 .. Len(buf)
    <3>1. CASE buf[i] = Empty
      <4>1. [Empty EXCEPT !.value = "old"] = Empty
        <5>1. PICK e \in [key : {""}, value : {"old"}] : e = Empty
          BY DEF Empty
        <5>2. [e EXCEPT !.value = "old"] = [key |-> e.key, value |-> "old"]
          OBVIOUS
        <5> QED
          BY <5>1, <5>2 DEF Empty
      <4> QED
        BY <3>1, <4>1 DEF EntryOK
    <3>2. CASE buf[i] # Empty
      <4>1. buf[i] \in Entries /\ "old" \in Values
        BY <3>2 DEF BufInv, EntryOK, Values
      <4>2. [buf[i] EXCEPT !.value = "old"] = [key |-> buf[i].key, value |-> "old"]
        BY <4>1 DEF Entries
      <4> QED
        BY <4>1, <4>2 DEF Entries, EntryOK
    <3> QED
      BY <3>1, <3>2
  <2>4. /\ buf' \in [1 .. Len(buf) -> Entries \cup {Empty}]
        /\ \A i \in 1 .. Len(buf) : EntryOK(buf'[i])
    BY <2>2, <2>3 DEF EntryOK
  <2>5. buf' \in Seq(Entries \cup {Empty}) /\ Len(buf') = Len(buf)
    BY <2>1, <2>4
  <2>6. Len(FormFields) \in Nat
    BY FieldsAre
  <2> QED
    BY <2>2, <2>4, <2>5, <2>6, NoFormOK DEF BufInv
<1> QED
  BY <1>1, <1>2, <1>3, <1>4, <1>5 DEF Next, Serve, Rescan, Crash

LEMMA SentStep == SentInv /\ PagesInv /\ PhonesInv /\ [Next]_vars => SentInv'
<1> SUFFICES ASSUME SentInv, PagesInv, PhonesInv, [Next]_vars
             PROVE  SentInv'
  OBVIOUS
<1>1. CASE pc' \notin Reading
  BY <1>1 DEF SentInv
<1>2. CASE UNCHANGED <<cur, seen, sent>> /\ pc \in Reading
  BY <1>2 DEF SentInv
<1>3. CASE SendsForm
  <2>1. sent' \in Forms(cur) /\ pc = "head" /\ UNCHANGED <<cur, seen>> /\ seen[cur] # NotSeen
    BY <1>3 DEF SendsForm, phones
  <2>2. cur \in Phones
    BY <2>1 DEF PhonesInv, Open
  <2>3. seen[cur] \in Texts
    BY <2>1, <2>2 DEF PagesInv
  <2> QED
    BY <2>1, <2>2, <2>3, FormsAreSendings DEF SentInv
<1>4. Phone \/ Dhcp \/ RecvBody \/ BodyEnds \/ UNCHANGED vars
      => UNCHANGED <<cur, seen, sent>> /\ (pc' \in Reading => pc \in Reading)
  BY DEF Phone, Ask, Leave, Connect, Dhcp, DhcpPoll, RecvBody, BodyEnds, Goto, phones, vars, Reading
<1>5. (Serve /\ ~SendsForm /\ ~RecvBody /\ ~BodyEnds) \/ DiagEnds \/ (\E key \in Others : Set(key))
      \/ Crash \/ Restart => pc' \notin Reading
  BY DEF Serve, NoDatagram, NoClient, Accept, Silence, HeadEnds, Kinds, ServePage, Diag, DiagEnds, Set, Other,
         ClearConf, AskRescan, Refuse, Save, Close, Rescan, Crash, Restart, Reset, Goto, Reading
<1> QED
  BY <1>1, <1>2, <1>3, <1>4, <1>5 DEF Next

LEMMA PortalInit == Init => PortalInv
<1> SUFFICES ASSUME Init
             PROVE  PortalInv
  OBVIOUS
<1> USE ProvisionAssumption DEF Init
<1>1. PhonesInv
  <2>1. backlog \in Seq(Phones) /\ Len(backlog) = 0 /\ ToSet(backlog) = {} /\ IsInjective(backlog)
    BY DEF ToSet, IsInjective
  <2> QED
    BY <2>1 DEF PhonesInv, Connected, Open
<1>2. PagesInv
  BY DEF PagesInv, StoreShape
<1>3. BufInv
  <2>1. Len(FormFields) + 1 \in Nat
    BY FieldsAre
  <2>2. buf \in [1 .. Len(FormFields) + 1 -> Entries \cup {Empty}]
    OBVIOUS
  <2>3. buf \in Seq(Entries \cup {Empty}) /\ Len(buf) = Len(FormFields) + 1
    BY <2>1, <2>2
  <2>4. \A i \in 1 .. Len(buf) : EntryOK(buf[i])
    BY <2>3 DEF EntryOK
  <2> QED
    BY <2>1, <2>3, <2>4, NoFormOK DEF BufInv, Reading
<1>4. SentInv
  BY DEF SentInv, Reading
<1> QED
  BY <1>1, <1>2, <1>3, <1>4 DEF PortalInv

LEMMA PortalStep == PortalInv /\ [Next]_vars => PortalInv'
  BY PhonesStep, PagesStep, BufStep, SentStep DEF PortalInv

\* Who is served, what is received and what is stored stay as PortalInv says,
\* however many phones and fields there are.
THEOREM PortalInvariant == Spec => []PortalInv
  BY PortalInit, PortalStep, PTL DEF Spec

-----------------------------------------------------------------------------
(* What is stored of a form *)

\* The places of the keys in a body.
LEMMA KeysAre ==
  ASSUME NEW r \in Sendings
  PROVE  /\ Body(r) \in Seq(Entries) /\ Len(Body(r)) = Len(FormFields) + 1 /\ Len(FormFields) \in Nat
         /\ 1 \in 1 .. Len(Body(r)) /\ Body(r)[1].key = "pin"
         /\ \A i \in 1 .. Len(FormFields) :
              i + 1 \in 1 .. Len(Body(r)) /\ Body(r)[i + 1].key = FormFields[i]
<1>1. Len(FormFields) \in Nat
  BY FieldsAre
<1>2. Body(r) \in Seq(Entries) /\ Len(Body(r)) = Len(FormFields) + 1
  BY BodyIs
<1>3. Body(r)[1] = [key |-> "pin", value |-> r.pin]
  BY BodyIs
<1>4. \A i \in 1 .. Len(FormFields) :
        Body(r)[i + 1] = [key |-> FormFields[i], value |-> r.form[FormFields[i]]]
  BY BodyIs
<1>5. 1 \in 1 .. Len(Body(r)) /\ \A i \in 1 .. Len(FormFields) : i + 1 \in 1 .. Len(Body(r))
  BY <1>1, <1>2
<1>6. Body(r)[1].key = "pin"
  BY <1>3
<1>7. ASSUME NEW i \in 1 .. Len(FormFields)
      PROVE  Body(r)[i + 1].key = FormFields[i]
  <2>1. Body(r)[i + 1] = [key |-> FormFields[i], value |-> r.form[FormFields[i]]]
    BY <1>4
  <2> QED
    BY <2>1
<1> QED
  BY <1>1, <1>2, <1>5, <1>6, <1>7

\* Two entries of a body are for different keys.
LEMMA KeysDiffer ==
  ASSUME NEW r \in Sendings, NEW i \in 1 .. Len(Body(r)), NEW j \in 1 .. Len(Body(r)),
         Body(r)[i].key = Body(r)[j].key
  PROVE  i = j
<1> DEFINE n == Len(FormFields)
<1>1. Len(Body(r)) = n + 1 /\ n \in Nat /\ Body(r)[1].key = "pin"
  BY KeysAre
<1>2. ASSUME NEW k \in 1 .. n + 1, k # 1
      PROVE  k - 1 \in 1 .. n /\ Body(r)[k].key = FormFields[k - 1] /\ FormFields[k - 1] # "pin"
  <2>1. k - 1 \in 1 .. n /\ (k - 1) + 1 = k
    BY <1>1, <1>2
  <2>2. Body(r)[(k - 1) + 1] = [key |-> FormFields[k - 1], value |-> r.form[FormFields[k - 1]]]
    BY <2>1, BodyIs
  <2> QED
    BY <2>1, <2>2, FieldsAre
<1> HIDE DEF n
<1>3. CASE i = 1 \/ j = 1
  BY <1>1, <1>2, <1>3
<1>4. CASE i # 1 /\ j # 1
  <2>1. i - 1 \in 1 .. n /\ j - 1 \in 1 .. n /\ FormFields[i - 1] = FormFields[j - 1]
    BY <1>1, <1>2, <1>4
  <2>2. i - 1 = j - 1
    BY <2>1, FieldsAre DEF n
  <2> QED
    BY <1>1, <2>2
<1> QED
  BY <1>3, <1>4

\* What is read for a key of the form is its entry, if it has arrived.
LEMMA FormGetIs ==
  ASSUME BufInv, pc = "check", NEW j \in 1 .. Len(Body(sent))
  PROVE  FormGet(Received, Body(sent)[j].key) = IF j <= total THEN buf[j].value ELSE ""
<1> DEFINE key == Body(sent)[j].key
           at  == {i \in DOMAIN Received : Received[i].key = key}
<1>1. /\ sent \in Sendings /\ total \in Nat /\ total <= Len(Body(sent))
      /\ Body(sent) \in Seq(Entries) /\ Len(Body(sent)) \in Nat
  <2>1. sent \in Sendings /\ total \in 0 .. Len(buf) /\ Len(buf) = Len(FormFields) + 1
    BY DEF BufInv
  <2>2. Body(sent) \in Seq(Entries) /\ Len(Body(sent)) = Len(buf) /\ Len(buf) \in Nat
    BY <2>1, KeysAre
  <2> QED
    BY <2>1, <2>2
<1>2. \A i \in 1 .. total : buf[i].key = Body(sent)[i].key
  <2> TAKE i \in 1 .. total
  <2>1. Arrived(i)
    BY DEF BufInv, Reading
  <2>2. Body(sent)[i] \in Entries
    BY <1>1, ElementOfSeq
  <2>3. [Body(sent)[i] EXCEPT !.value = "cut"].key = Body(sent)[i].key
    BY <2>2 DEF Entries
  <2> QED
    BY <2>1, <2>3 DEF Arrived
<1>3. \A i \in 1 .. total : buf[i].key = key <=> i = j
  <2> TAKE i \in 1 .. total
  <2>1. i \in 1 .. Len(Body(sent))
    BY <1>1
  <2> QED
    BY <1>1, <1>2, <2>1, KeysDiffer
<1>4. at = IF j <= total THEN {j} ELSE {}
  BY <1>1, <1>3, ReceivedIs
<1>5. FormGet(Received, key) = IF at = {} THEN "" ELSE Received[Min(at)].value
  BY DEF FormGet
<1> HIDE DEF at, key
<1>6. CASE j <= total
  <2>1. at = {j} /\ j \in Nat
    BY <1>4, <1>6
  <2>2. Min(at) = j
    BY <2>1, MinIsMember
  <2>3. j \in 1 .. total
    BY <1>1, <1>6
  <2> QED
    BY <1>5, <1>6, <2>1, <2>2, <2>3, ReceivedIs DEF key
<1>7. CASE ~(j <= total)
  BY <1>4, <1>5, <1>7 DEF key
<1> QED
  BY <1>6, <1>7

\* The same for a field of the form.
LEMMA FormTextIs ==
  ASSUME BufInv, pc = "check", NEW i \in 1 .. Len(FormFields)
  PROVE  /\ i + 1 <= total => FormText(Received)[FormFields[i]] = buf[i + 1].value
         /\ ~(i + 1 <= total) => FormText(Received)[FormFields[i]] = ""
<1>1. sent \in Sendings
  BY DEF BufInv
<1>2. i + 1 \in 1 .. Len(Body(sent)) /\ Body(sent)[i + 1].key = FormFields[i]
  BY <1>1, KeysAre
<1>3. FormGet(Received, FormFields[i]) = IF i + 1 <= total THEN buf[i + 1].value ELSE ""
  BY <1>2, FormGetIs
<1>4. FormFields[i] \in ToSet(FormFields)
  BY FieldsAre DEF Fields
<1>5. FormText(Received)[FormFields[i]] = FormGet(Received, FormFields[i])
  BY <1>4 DEF FormText
<1> QED
  BY <1>3, <1>5

\* A form that is saved has the right PIN whole.
LEMMA SavedPin ==
  ASSUME BufInv, pc = "check", FormGet(Received, "pin") = "right"
  PROVE  sent.pin = "right" /\ total >= 1
<1>1. sent \in Sendings
  BY DEF BufInv
<1>2. 1 \in 1 .. Len(Body(sent)) /\ Body(sent)[1] = [key |-> "pin", value |-> sent.pin]
  BY <1>1, KeysAre, BodyIs
<1>3. FormGet(Received, "pin") = IF 1 <= total THEN buf[1].value ELSE ""
  <2>1. FormGet(Received, Body(sent)[1].key) = IF 1 <= total THEN buf[1].value ELSE ""
    BY <1>2, FormGetIs
  <2>2. Body(sent)[1].key = "pin"
    BY <1>2
  <2> QED
    BY <2>1, <2>2
<1>4. 1 <= total /\ buf[1].value = "right"
  BY <1>3
<1>5. 1 \in 1 .. total
  BY <1>4, ReceivedIs
<1>6. Arrived(1)
  BY <1>5 DEF BufInv, Reading
<1>7. [Body(sent)[1] EXCEPT !.value = "cut"].value # "right"
  BY <1>2
<1> QED
  BY <1>2, <1>4, <1>6, <1>7, ReceivedIs DEF Arrived

\* Three steps may change the configuration to another one: a save that
\* succeeds, a clear that does not, and the rest of the program.
LEMMA WhoStores ==
  ASSUME PagesInv, [Next]_vars, conf' \notin {conf, NoConf}
  PROVE  \/ Save /\ conf' = FormText(Received)
         \/ pc = "clear" /\ conf' = prior
         \/ pc = "down" /\ \A f \in Fields : conf'[f] = conf[f]
<1>1. CASE Save
  BY <1>1 DEF Save, Stores, StoresHalf, store
<1>2. CASE ClearConf
  BY <1>2 DEF ClearConf, Erases, ErasesHalf, store
<1>3. ASSUME NEW key \in Others, Set(key)
      PROVE  pc = "down" /\ \A f \in Fields : conf'[f] = conf[f]
  <2>1. pc = "down" /\ conf' = [conf EXCEPT ![key] = "v"] /\ conf \in Texts
    BY <1>3 DEF Set, Stores, PagesInv
  <2>2. key \notin Fields
    BY ProvisionAssumption DEF Fields
  <2> QED
    BY <2>1, <2>2 DEF Texts, Fields
<1>4. ~(Phone \/ Dhcp \/ (Serve /\ ~ClearConf /\ ~Save) \/ DiagEnds \/ Crash \/ Restart \/ UNCHANGED vars)
  BY DEF Phone, Ask, Leave, Connect, Dhcp, DhcpPoll, Serve, NoDatagram, NoClient, Accept,
         Silence, HeadEnds, SendsForm, ServePage, Diag, DiagEnds, Other, AskRescan, RecvBody,
         BodyEnds, Refuse, Close, Rescan, Crash, Restart, Goto, vars, store
<1> QED
  BY <1>1, <1>2, <1>3, <1>4 DEF Next, Serve

\* What is stored is the form of the phone that is served, or its start.
LEMMA SavesItsStart ==
  ASSUME PortalInv, Save, conf' = FormText(Received)
  PROVE  sent.pin = "right" /\ IsStartOf(conf', sent.form)
<1>1. sent.pin = "right" /\ IsStartOf(conf', sent.form)
  <2>1. Save /\ conf' = FormText(Received)
    OBVIOUS
  <2>2. pc = "check" /\ FormGet(Received, "pin") = "right" /\ BufInv
    BY <2>1 DEF Save, PortalInv
  <2>3. sent.pin = "right" /\ total >= 1 /\ total \in Nat /\ total <= Len(FormFields) + 1
    BY <2>2, SavedPin, ReceivedIs DEF BufInv
  <2> DEFINE k == IF total >= 2 /\ buf[total].value = "cut" THEN total - 2 ELSE total - 1
  <2>4. /\ k \in 0 .. Len(FormFields)
        /\ IF total >= 2 /\ buf[total].value = "cut" THEN k = total - 2 ELSE k = total - 1
    BY <2>3, FieldsAre
  <2> HIDE DEF k
  <2>5. ASSUME NEW i \in 1 .. Len(FormFields)
        PROVE  \/ i <= k /\ conf'[FormFields[i]] = sent.form[FormFields[i]]
               \/ i = k + 1 /\ conf'[FormFields[i]] \in {"cut", ""}
               \/ i > k + 1 /\ conf'[FormFields[i]] = ""
    <3>1. i \in Nat /\ Len(FormFields) \in Nat
      BY FieldsAre
    <3>2. CASE i + 1 > total
      <4>1. conf'[FormFields[i]] = ""
        <5>1. ~(i + 1 <= total)
          BY <2>3, <3>1, <3>2
        <5> QED
          BY <2>1, <2>2, <5>1, FormTextIs
      <4>2. i >= k + 1
        BY <2>3, <2>4, <3>1, <3>2
      <4>3. i = k + 1 \/ i > k + 1
        BY <2>4, <3>1, <4>2
      <4> QED
        BY <4>1, <4>3
    <3>3. CASE i + 1 <= total
      <4>1. conf'[FormFields[i]] = buf[i + 1].value
        BY <2>1, <2>2, <3>3, FormTextIs
      <4>2. i + 1 \in 1 .. total
        BY <2>3, <3>1, <3>3
      <4>3. Arrived(i + 1)
        BY <2>2, <4>2 DEF BufInv, Reading
      <4>4. Body(sent)[i + 1] = [key |-> FormFields[i], value |-> sent.form[FormFields[i]]]
        BY <2>2, BodyIs DEF BufInv
      <4>5. CASE buf[i + 1] = Body(sent)[i + 1] /\ i <= k
        <5>1. buf[i + 1].value = sent.form[FormFields[i]]
          BY <4>4, <4>5
        <5> QED
          BY <4>1, <4>5, <5>1
      <4>6. CASE ~(i <= k)
        <5>1. i = k + 1 /\ i + 1 = total /\ buf[total].value = "cut"
          BY <2>3, <2>4, <3>1, <3>3, <4>6
        <5> QED
          BY <4>1, <5>1
      <4>7. CASE buf[i + 1] # Body(sent)[i + 1]
        <5>1. i + 1 = total /\ buf[i + 1] = [Body(sent)[i + 1] EXCEPT !.value = "cut"]
          BY <4>3, <4>7 DEF Arrived
        <5>2. buf[i + 1].value = "cut"
          BY <4>4, <5>1
        <5>3. i = k + 1
          <6>0. i + 1 = total
            BY <5>1
          <6>1. buf[total].value = "cut" /\ total >= 2
            <7>1. buf[total].value = "cut"
              BY <5>2, <6>0, Zenon
            <7>2. total >= 2
              BY <3>1, <6>0
            <7> QED
              BY <7>1, <7>2
          <6>2. k = total - 2
            BY <2>4, <6>1
          <6> QED
            BY <2>3, <3>1, <6>0, <6>2
        <5> QED
          BY <4>1, <5>2, <5>3
      <4>8. CASE i <= k
        BY <4>5, <4>7, <4>8
      <4> QED
        BY <4>6, <4>8
    <3>4. i + 1 > total \/ i + 1 <= total
      BY <2>3, <3>1
    <3> QED
      BY <3>2, <3>3, <3>4, Zenon
  <2>6. \A o \in Others : conf'[o] = ""
    BY <2>1, ProvisionAssumption DEF FormText
  <2> QED
    BY <2>1, <2>3, <2>4, <2>5, <2>6 DEF IsStartOf
<1> QED
  BY <1>1

\* A new text is the form of the phone that is served, with the right PIN, or
\* its start, or the older text that a clear without a PIN brought back; the
\* rest of the program leaves the fields of the form as they are.
THEOREM StoresOwnForm == Spec => OwnForm
<1>1. ASSUME PortalInv, [Next]_vars, conf' \notin {conf, NoConf}
      PROVE  \/ pc = "check" /\ sent.pin = "right" /\ IsStartOf(conf', sent.form)
             \/ pc = "clear" /\ conf' = prior
             \/ pc = "down" /\ \A f \in ToSet(FormFields) : conf'[f] = conf[f]
  <2>1. CASE Save /\ conf' = FormText(Received)
    BY <1>1, <2>1, SavesItsStart DEF Save
  <2> QED
    BY <1>1, <2>1, WhoStores DEF PortalInv, Fields
<1> QED
  BY <1>1, PortalInvariant, PTL DEF Spec, OwnForm

\* A page that is sent back as it was changes only what was empty or what the
\* page has no room for.
THEOREM PageSentBackKeepsConf == Spec => PageKeepsConf
<1>1. ASSUME PortalInv, [Next]_vars, SentBack, NEW f \in ToSet(FormFields)
      PROVE  conf'[f] = conf[f] \/ conf[f] = "" \/ (conf[f] = "w" /\ f \in Narrow)
  <2>1. /\ conf' \notin {conf, NoConf} /\ ~sent.edited /\ seen[cur] = conf
        /\ total = Len(buf) /\ buf[total].value # "cut" /\ pc = "check" /\ conf # NoConf
    BY <1>1, Zenon DEF SentBack
  <2>2. Save /\ conf' = FormText(Received)
    BY <1>1, <2>1, WhoStores DEF PortalInv
  <2>3. pc = "check" /\ BufInv /\ SentInv /\ conf \in Texts
    BY <1>1, <2>1 DEF PortalInv, PagesInv
  <2>4. sent \in Sendings /\ sent.form = PageOf(conf)
    BY <2>1, <2>3 DEF SentInv, BufInv, Reading
  <2>6. PICK i \in 1 .. Len(FormFields) : f = FormFields[i]
    BY FieldsAre DEF Fields
  <2>7. total = Len(FormFields) + 1 /\ Len(FormFields) \in Nat
    BY <2>1, <2>3, FieldsAre DEF BufInv
  <2>8. i + 1 <= total /\ i + 1 \in 1 .. total
    BY <2>7
  <2>9. conf'[f] = buf[i + 1].value
    BY <2>2, <2>3, <2>6, <2>8, FormTextIs
  <2>10. Body(sent)[i + 1] = [key |-> f, value |-> sent.form[f]]
    BY <2>4, <2>6, BodyIs
  <2>11. buf[i + 1] = Body(sent)[i + 1]
    <3>1. Arrived(i + 1)
      BY <2>3, <2>8 DEF BufInv, Reading
    <3>2. CASE i + 1 = total /\ buf[i + 1] = [Body(sent)[i + 1] EXCEPT !.value = "cut"]
      <4>1. buf[i + 1].value = "cut"
        BY <2>10, <3>2
      <4>2. i + 1 = total
        BY <3>2
      <4> QED
        BY <2>1, <4>1, <4>2, Zenon
    <3> QED
      BY <3>1, <3>2, Zenon DEF Arrived
  <2>12. sent.form[f] = Shown(f, conf[f])
    BY <2>4 DEF PageOf
  <2>13. conf'[f] = Shown(f, conf[f])
    BY <2>9, <2>10, <2>11, <2>12
  <2> QED
    BY <2>13 DEF Shown
<1>2. PortalInv /\ [Next]_vars => [SentBack => \A f \in ToSet(FormFields) :
        conf'[f] = conf[f] \/ conf[f] = "" \/ (conf[f] = "w" /\ f \in Narrow)]_vars
  BY <1>1, Zenon
<1> QED
  BY <1>2, PortalInvariant, PTL DEF Spec, PageKeepsConf

-----------------------------------------------------------------------------
(* The list of networks *)

Names(file, n) == {file[i] : i \in 1 .. n} \ {Nameless}

\* A list is complete as far as the file has been read, or full.
ListOK(list, file, n) ==
  /\ list \in Seq(Names(file, n)) /\ IsInjective(list) /\ Len(list) <= ScanMax
  /\ IsFiniteSet(ToSet(list)) /\ Cardinality(ToSet(list)) = Len(list)
  /\ ToSet(list) = Names(file, n) \/ Len(list) = ScanMax

\* A line of the file keeps the list so.
LEMMA ListStep ==
  ASSUME NEW file, file \in Seq(ToSet(file)), NEW n \in 1 .. Len(file), NEW list, ListOK(list, file, n - 1)
  PROVE  ListOK(IF file[n] = Nameless \/ Contains(list, file[n]) \/ Len(list) = ScanMax
                THEN list ELSE Append(list, file[n]), file, n)
<1>1. /\ list \in Seq(Names(file, n - 1)) /\ IsInjective(list) /\ Len(list) <= ScanMax
      /\ IsFiniteSet(ToSet(list)) /\ Cardinality(ToSet(list)) = Len(list)
      /\ ToSet(list) = Names(file, n - 1) \/ Len(list) = ScanMax
  BY DEF ListOK
<1>2. Names(file, n) = Names(file, n - 1) \cup ({file[n]} \ {Nameless})
  <2>1. Len(file) \in Nat
    OBVIOUS
  <2>2. 1 .. n = (1 .. n - 1) \cup {n}
    BY <2>1
  <2> QED
    BY <2>2 DEF Names
<1>3. list \in Seq(Names(file, n)) /\ Len(list) \in Nat /\ DOMAIN list = 1 .. Len(list)
  BY <1>1, <1>2
<1>4. Contains(list, file[n]) <=> file[n] \in ToSet(list)
  BY <1>3 DEF Contains, ToSet
<1>5. ScanMax \in Nat
  BY ProvisionAssumption
<1>6. CASE file[n] = Nameless \/ file[n] \in ToSet(list) \/ Len(list) = ScanMax
  <2>1. ToSet(list) = Names(file, n) \/ Len(list) = ScanMax
    <3>1. ToSet(list) \subseteq Names(file, n)
      BY <1>3 DEF ToSet
    <3> QED
      BY <1>1, <1>2, <1>6, <3>1
  <2>2. ListOK(list, file, n)
    BY <1>1, <1>3, <2>1 DEF ListOK
  <2> QED
    BY <1>4, <1>6, <2>2
<1>7. CASE ~(file[n] = Nameless \/ file[n] \in ToSet(list) \/ Len(list) = ScanMax)
  <2> DEFINE more == Append(list, file[n])
  <2>1. file[n] \in Names(file, n)
    BY <1>2, <1>7
  <2>2. /\ more \in Seq(Names(file, n)) /\ Len(more) = Len(list) + 1
        /\ \A i \in 1 .. Len(list) : more[i] = list[i]
        /\ more[Len(list) + 1] = file[n]
    BY <1>3, <2>1, AppendProperties
  <2> HIDE DEF more
  <2>3. DOMAIN more = 1 .. Len(list) + 1
    BY <2>2
  <2>4. ToSet(more) = ToSet(list) \cup {file[n]}
    <3>1. ToSet(more) = {more[i] : i \in 1 .. Len(list) + 1}
      BY <2>3, Zenon DEF ToSet
    <3>2. ToSet(list) = {list[i] : i \in 1 .. Len(list)}
      BY <1>3, Zenon DEF ToSet
    <3> QED
      BY <1>3, <2>2, <3>1, <3>2
  <2>5. IsInjective(more)
    <3>1. \A i \in 1 .. Len(list) : list[i] # file[n]
      BY <1>3, <1>7 DEF ToSet
    <3>2. \A i, j \in 1 .. Len(list) : list[i] = list[j] => i = j
      BY <1>1, <1>3 DEF IsInjective
    <3> QED
      BY <1>3, <2>2, <2>3, <3>1, <3>2 DEF IsInjective
  <2>6. IsFiniteSet(ToSet(more)) /\ Cardinality(ToSet(more)) = Len(more)
    <3>1. /\ IsFiniteSet(ToSet(list) \cup {file[n]})
          /\ Cardinality(ToSet(list) \cup {file[n]}) = Cardinality(ToSet(list)) + 1
      BY <1>1, <1>7, FS_AddElement
    <3> QED
      BY <1>1, <2>2, <2>4, <3>1
  <2>7. Len(more) <= ScanMax
    BY <1>1, <1>3, <1>5, <1>7, <2>2
  <2>8. ToSet(more) = Names(file, n)
    BY <1>1, <1>2, <1>7, <2>4
  <2>9. ListOK(more, file, n)
    BY <2>2, <2>5, <2>6, <2>7, <2>8 DEF ListOK
  <2> QED
    BY <1>4, <1>7, <2>9 DEF more
<1> QED
  BY <1>6, <1>7

\* The list of a file names each usable network once, up to ScanMax.
LEMMA ListedOK ==
  ASSUME NEW file, file \in Seq(ToSet(file))
  PROVE  ListOK(Listed(file), file, Len(file))
<1>1. Len(file) \in Nat
  OBVIOUS
<1> DEFINE Then(l, n) == IF file[n] = Nameless \/ Contains(l, file[n]) \/ Len(l) = ScanMax
                         THEN l ELSE Append(l, file[n])
           Line(g, n) == IF n = 0 THEN <<>>
                         ELSE IF file[n] = Nameless \/ Contains(g[n - 1], file[n]) \/ Len(g[n - 1]) = ScanMax
                              THEN g[n - 1] ELSE Append(g[n - 1], file[n])
           list[n \in 0 .. Len(file)] ==
             IF n = 0 THEN <<>>
             ELSE IF file[n] = Nameless \/ Contains(list[n - 1], file[n]) \/ Len(list[n - 1]) = ScanMax
                  THEN list[n - 1] ELSE Append(list[n - 1], file[n])
           Lists(g, k) == \A n \in 0 .. k : g[n] = Line(g, n)
           Fails == {k \in 0 .. Len(file) : ~\E g : Lists(g, k)}
           Bad == {n \in 0 .. Len(file) : ~ListOK(list[n], file, n)}
<1>2. Listed(file) = list[Len(file)]
  BY DEF Listed
<1>3. Fails = {}
  <2> SUFFICES ASSUME Fails # {}
               PROVE  FALSE
    OBVIOUS
  <2>1. PICK m \in Fails : \A k \in Fails : m <= k
    <3>1. Fails \subseteq Nat
      OBVIOUS
    <3> HIDE DEF Fails
    <3> QED
      BY <3>1, LeastExists
  <2>2. CASE m = 0
    <3>1. Lists([n \in {0} |-> <<>>], 0)
      OBVIOUS
    <3> QED
      BY <2>2, <3>1
  <2>3. CASE m # 0
    <3>0. m \in 0 .. Len(file) /\ ~(m <= m - 1)
      BY <1>1
    <3>1. m - 1 \in 0 .. Len(file) /\ m - 1 \notin Fails
      <4>1. m - 1 \in 0 .. Len(file)
        BY <1>1, <2>3, <3>0
      <4> HIDE DEF Fails
      <4> QED
        BY <2>1, <3>0, <4>1, Zenon
    <3>2. PICK g : Lists(g, m - 1)
      BY <3>1
    <3> DEFINE h == [n \in 0 .. m |-> IF n = m THEN Then(g[m - 1], m) ELSE g[n]]
    <3>3. Lists(h, m)
      <4> TAKE n \in 0 .. m
      <4>1. CASE n = m
        BY <2>3, <4>1
      <4>2. CASE n # m
        BY <2>3, <3>2, <4>2
      <4> QED
        BY <4>1, <4>2
    <3> QED
      BY <3>3
  <2> QED
    BY <2>2, <2>3
<1>4. list = [n \in 0 .. Len(file) |-> Line(list, n)]
  <2>1. PICK g : Lists(g, Len(file))
    BY <1>1, <1>3
  <2> DEFINE h == [n \in 0 .. Len(file) |-> g[n]]
  <2>2. h = [n \in 0 .. Len(file) |-> Line(h, n)]
    BY <1>1, <2>1
  <2> QED
    BY <2>2, Zenon DEF list
<1> HIDE DEF list
<1>5. Bad = {}
  <2> SUFFICES ASSUME Bad # {}
               PROVE  FALSE
    OBVIOUS
  <2>1. PICK m \in Bad : \A k \in Bad : m <= k
    <3>1. Bad \subseteq Nat
      OBVIOUS
    <3> HIDE DEF Bad
    <3> QED
      BY <3>1, LeastExists
  <2>2. CASE m = 0
    <3>1. list[0] = <<>>
      BY <1>1, <1>4
    <3>2. ListOK(<<>>, file, 0)
      <4>1. ToSet(<<>>) = {} /\ Names(file, 0) = {} /\ IsInjective(<<>>)
        BY DEF ToSet, Names, IsInjective
      <4>2. <<>> \in Seq(Names(file, 0)) /\ Len(<<>>) = 0 /\ 0 <= ScanMax
        BY ProvisionAssumption
      <4> QED
        BY <4>1, <4>2, FS_EmptySet DEF ListOK
    <3> QED
      BY <2>2, <3>1, <3>2
  <2>3. CASE m # 0
    <3>1. m - 1 \in 0 .. Len(file) /\ m \in 1 .. Len(file) /\ ListOK(list[m - 1], file, m - 1)
      BY <1>1, <2>1, <2>3
    <3>2. list[m] = Then(list[m - 1], m)
      BY <1>4, <2>3
    <3>3. ListOK(Then(list[m - 1], m), file, m)
      BY <3>1, ListStep
    <3> QED
      BY <3>2, <3>3
  <2> QED
    BY <2>2, <2>3
<1> QED
  BY <1>1, <1>2, <1>5

LEMMA NetworksAreListed == ListsNetworks
<1> SUFFICES ASSUME NEW file \in ScanFiles
             PROVE  LET list == Listed(file)
                        usable == ToSet(file) \ {Nameless}
                    IN  /\ IsInjective(list) /\ ToSet(list) \subseteq usable
                        /\ Len(list) = IF Cardinality(usable) < ScanMax THEN Cardinality(usable) ELSE ScanMax
  BY DEF ListsNetworks
<1> DEFINE list == Listed(file)
           usable == ToSet(file) \ {Nameless}
<1>1. file \in Seq(ToSet(file)) /\ ScanMax \in Nat
  BY ProvisionAssumption
<1>2. Len(file) \in Nat /\ DOMAIN file = 1 .. Len(file)
  BY <1>1
<1>3. usable = Names(file, Len(file))
  BY <1>2 DEF Names, ToSet
<1>4. ListOK(list, file, Len(file))
  BY <1>1, ListedOK
<1> HIDE DEF usable, list
<1>5. IsFiniteSet(usable)
  <2>1. IsFiniteSet(1 .. Len(file))
    BY <1>2, FS_Interval
  <2>2. IsFiniteSet(ToSet(file))
    <3>1. file \in Surjection(1 .. Len(file), ToSet(file))
      BY <1>1, <1>2 DEF Surjection, ToSet
    <3> QED
      BY <2>1, <3>1, FS_Surjection
  <2>3. usable \subseteq ToSet(file)
    BY DEF usable
  <2> QED
    BY <2>2, <2>3, FS_Subset
<1>6. /\ list \in Seq(usable) /\ IsInjective(list) /\ Len(list) <= ScanMax
      /\ Cardinality(ToSet(list)) = Len(list)
      /\ ToSet(list) = usable \/ Len(list) = ScanMax
  BY <1>3, <1>4 DEF ListOK
<1>7. ToSet(list) \subseteq usable
  BY <1>6 DEF ToSet
<1>8. Len(list) <= Cardinality(usable) /\ Cardinality(usable) \in Nat /\ Len(list) \in Nat
  BY <1>5, <1>6, <1>7, FS_Subset, FS_CardinalityType
<1>9. Len(list) = IF Cardinality(usable) < ScanMax THEN Cardinality(usable) ELSE ScanMax
  BY <1>1, <1>6, <1>8
<1> QED
  BY <1>6, <1>7, <1>9 DEF list, usable

\* A connection belongs to a phone with an address and waits nowhere else,
\* and a page has the networks of its file.
THEOREM PortalIsSafe == Spec => []ProvisionInv
<1>1. PortalInv => TypeOK
  <2> SUFFICES ASSUME PortalInv
               PROVE  TypeOK
    OBVIOUS
  <2>1. /\ addr \in [Phones -> {"off", "discover", "offered", "request", "bound"}]
        /\ pc \in {"dhcp", "http", "head", "silent", "page", "diag", "asking", "clear", "rescan",
                   "other", "save", "check", "close", "down"}
        /\ Len(backlog) <= Backlog /\ IsInjective(backlog) /\ cur \notin ToSet(backlog)
        /\ pc \in {"dhcp", "http"} => cur = Nobody
        /\ \A p \in Connected : addr[p] = "bound"
    BY DEF PortalInv, PhonesInv, Open
  <2>2. {conf, prior} \subseteq Texts \cup {NoConf} /\ StoreShape /\ \A p \in Phones : seen[p] = NotSeen \/ seen[p] \in Texts
    BY DEF PortalInv, PagesInv
  <2>3. total \in 0 .. Len(buf) /\ DOMAIN buf = 1 .. Len(buf)
        /\ \A i \in 1 .. Len(buf) : buf[i] = Empty \/ buf[i] \in Entries
    BY DEF PortalInv, BufInv, EntryOK
  <2> QED
    BY <2>1, <2>2, <2>3 DEF TypeOK
<1> QED
  BY <1>1, NetworksAreListed, PortalInvariant, PTL DEF ProvisionInv
=============================================================================
