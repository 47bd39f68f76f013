----------------------------- MODULE Provision -----------------------------
(***************************************************************************)
(* The setup page of velaops_prov.c: one thread serves DHCP and HTTP on    *)
(* the soft AP, one datagram and one connection after the other, until it  *)
(* resets the board.  Phones ask for an address, open the page, edit it    *)
(* and send it back, stay silent, or send part of a request.               *)
(*                                                                         *)
(* A request is its head and the entries of its form, and arrives in parts *)
(* that end anywhere, inside an entry too ("cut").  A value of the form is *)
(* absent (""), the default of the page ("dflt"), "v", or "w", which is    *)
(* wider than the field of the page though the store takes it.  What a     *)
(* save or a clear leaves in flash is that of ConfEffects.  The server of  *)
(* the model, which GET /diag calls, is external: it may never answer, and *)
(* nothing watches over that call here.                                    *)
(***************************************************************************)
EXTENDS ConfEffects, Naturals, Sequences, SequencesExt, FiniteSets, FiniteSetsExt, Functions

CONSTANTS
  Phones, Nobody,
  Editors,     \* the phones that fill in the form; the others only disturb
  Typed,     \* what they type into each field
  Backlog,     \* connections that may wait (8)
  FormFields,  \* the fields of the page below the PIN, in its order
  Others,      \* the keys the program reads but the page does not have:
               \* base_ports, thr_inode, thr_temp, boot_mode
  Required,    \* those save_config insists on
  Defaulted,   \* those the page fills in when they are not set
  Narrow,      \* those the page reads into less room than the form may fill
  ScanMax,     \* networks listed (12)
  ScanFiles,   \* contents of /data/scan.txt: sequences of names
  Nameless,    \* a name that is empty or longer than 33 bytes
  NotSeen      \* no page yet

VARIABLES
  pc,       \* where the server is
  cur,      \* the phone whose connection is open
  backlog,  \* the phones whose connections wait
  sent,     \* the form the phone is sending
  dsock,    \* dhcp_open has succeeded
  addr,     \* what each phone and the DHCP server have said so far
  seen,     \* the configuration each phone's page was made from
  buf,      \* the receive buffer: entries, the leavings of an older one included
  total,    \* entries received
  rescan    \* g_rescan_pending

phones == <<addr, seen>>
vars == <<pc, cur, backlog, sent, phones, buf, total, store, rescan, dsock>>

Values    == {"", "dflt", "cut", "old", "v"} \cup UNION {Typed[f] : f \in ToSet(FormFields)}
Empty     == [key |-> "", value |-> "old"]
Entries   == [key : {"pin"} \cup ToSet(FormFields), value : Values \cup {"right", "wrong"}]
FormTexts == [ToSet(FormFields) -> Values]
Texts     == [ToSet(FormFields) \cup Others -> Values]
NoText    == [f \in ToSet(FormFields) \cup Others |-> ""]
Connected == ToSet(backlog) \cup ({cur} \ {Nobody})

NoForm  == [pin |-> "", form |-> [f \in ToSet(FormFields) |-> ""], edited |-> FALSE]

ASSUME ProvisionAssumption ==
  /\ Editors \subseteq Phones /\ Backlog \in Nat \ {0} /\ ScanMax \in Nat \ {0}
  /\ Required \cup Defaulted \cup Narrow \subseteq ToSet(FormFields)
  /\ FormFields \in Seq(ToSet(FormFields)) /\ IsInjective(FormFields) /\ "pin" \notin ToSet(FormFields)
  /\ Others \cap ({"pin"} \cup ToSet(FormFields)) = {} /\ NoConf \notin Texts
  /\ Nobody \notin Phones /\ \A file \in ScanFiles : file \in Seq(ToSet(file))

-----------------------------------------------------------------------------
(* The form *)

Shown_Defaults(f, v) == IF f \in Defaulted THEN "dflt" ELSE v

\* What the page offers for a field.
Shown(f, v) == CASE v = "" /\ f \in Defaulted -> "dflt"
                 [] v = "w" /\ f \in Narrow -> "cut"
                 [] OTHER -> v

PageOf(c) == [f \in ToSet(FormFields) |-> Shown(f, c[f])]

\* The body of a form as its browser sends it.
Body(r) == <<[key |-> "pin", value |-> r.pin]>>
           \o [i \in 1 .. Len(FormFields) |-> [key |-> FormFields[i], value |-> r.form[FormFields[i]]]]

Forms(p) ==
  {[pin |-> pin, form |-> PageOf(seen[p]), edited |-> FALSE] : pin \in {"right", "wrong"}}
  \cup UNION {{[pin |-> "right", form |-> [PageOf(seen[p]) EXCEPT ![f] = v], edited |-> TRUE]
               : v \in Typed[f]} : f \in ToSet(FormFields)}

Received_Memory == SelectSeq(buf, LAMBDA e : e # Empty)
Received == SubSeq(buf, 1, total)

\* form_get: the first entry with the key, and the empty text without one.
FormGet(body, key) ==
  LET at == {i \in DOMAIN body : body[i].key = key}
  IN  IF at = {} THEN "" ELSE body[Min(at)].value

\* The new text has the lines of the form and no others.
FormText(body) == [f \in ToSet(FormFields) \cup Others |->
                     IF f \in ToSet(FormFields) THEN FormGet(body, f) ELSE ""]

\* scan_aps: the first ScanMax different names of a usable length.
Listed(file) ==
  LET list[n \in 0 .. Len(file)] ==
        IF n = 0 THEN <<>>
        ELSE IF file[n] = Nameless \/ Contains(list[n - 1], file[n]) \/ Len(list[n - 1]) = ScanMax
             THEN list[n - 1] ELSE Append(list[n - 1], file[n])
  IN  list[Len(file)]

-----------------------------------------------------------------------------
Init ==
  /\ pc = "dhcp" /\ cur = Nobody /\ backlog = <<>>
  /\ sent = NoForm
  /\ addr = [p \in Phones |-> "off"]
  /\ seen = [p \in Phones |-> NotSeen]
  /\ buf = [i \in 1 .. Len(FormFields) + 1 |-> Empty] /\ total = 0
  /\ conf = NoConf /\ prior = NoConf /\ young = FALSE
  /\ rescan = FALSE /\ dsock \in BOOLEAN

(* The phones *)

\* A phone sends DISCOVER, then REQUEST; what the server has received waits in
\* its socket.
Ask(p) ==
  /\ addr[p] \in {"off", "offered"}
  /\ addr' = [addr EXCEPT ![p] = IF @ = "off" THEN "discover" ELSE "request"]
  /\ UNCHANGED <<pc, cur, backlog, sent, seen, buf, total, store, rescan, dsock>>

Leave(p) ==
  /\ addr[p] = "bound" /\ p \notin Connected
  /\ addr' = [addr EXCEPT ![p] = "off"]
  /\ UNCHANGED <<pc, cur, backlog, sent, seen, buf, total, store, rescan, dsock>>

Connect(p) ==
  /\ pc # "down"
  /\ addr[p] = "bound" /\ p \notin Connected /\ Len(backlog) < Backlog
  /\ backlog' = Append(backlog, p)
  /\ UNCHANGED <<pc, cur, sent, phones, buf, total, store, rescan, dsock>>

-----------------------------------------------------------------------------
(* The loop of velaops_prov_run *)

Goto(to) == pc' = to /\ UNCHANGED <<cur, backlog, sent, phones, buf, total, store, rescan, dsock>>
Asking == {p \in Phones : addr[p] \in {"discover", "request"}}

Answer == [discover |-> "offered", request |-> "bound"]

\* dhcp_poll: one datagram; every phone is given 192.168.4.2, whoever has it.
\* A phone that does not hear the answer starts again.
DhcpPoll(p, heard) ==
  /\ pc = "dhcp" /\ dsock /\ p \in Asking
  /\ addr' = [addr EXCEPT ![p] = IF heard THEN Answer[@] ELSE "off"]
  /\ pc' = "http"
  /\ UNCHANGED <<cur, backlog, sent, seen, buf, total, store, rescan, dsock>>

NoDatagram == pc = "dhcp" /\ (~dsock \/ Asking = {}) /\ backlog # <<>> /\ Goto("http")
NoClient   == pc = "http" /\ backlog = <<>> /\ Goto("dhcp")

\* A new buffer holds whatever the last one left; without one the connection
\* is closed unheard.  The phone sends a request or nothing.
Accept ==
  /\ pc = "http" /\ backlog # <<>>
  /\ cur' = Head(backlog) /\ backlog' = Tail(backlog)
  /\ pc' \in {"head", "silent", "close"}
  /\ UNCHANGED <<sent, phones, buf, total, store, rescan, dsock>>

\* Without the timeout of 2 s.
Silence_Lasts == FALSE

Silence == pc = "silent" /\ Goto("close")

\* What the phone sends shows when its head has been read.
Kinds == {"page", "diag", "clear", "rescan", "other"}

HeadEnds == pc = "head" /\ \E kind \in Kinds : Goto(kind)

SendsForm ==
  /\ pc = "head" /\ cur \in Editors /\ seen[cur] # NotSeen
  /\ sent' \in Forms(cur) /\ pc' = "save"
  /\ UNCHANGED <<cur, backlog, phones, buf, total, store, rescan, dsock>>

\* serve_page; an answer that stalls is given up.
ServePage ==
  /\ pc = "page"
  /\ seen' \in {seen} \cup (IF cur \in Editors THEN {[seen EXCEPT ![cur] = IF conf = NoConf THEN NoText ELSE conf]} ELSE {})
  /\ pc' = "close"
  /\ UNCHANGED <<cur, backlog, sent, addr, buf, total, store, rescan, dsock>>

\* velaops_llm_chat reads on for as long as its server is silent; meanwhile
\* nobody else is served, DHCP included.
Diag     == pc = "diag" /\ Goto("asking")
DiagEnds == pc = "asking" /\ Goto("close")
\* No head after 8 s or 8191 bytes (400), or another request (404).
Other == pc = "other" /\ Goto("close")

\* GET /reset-config: no PIN is asked for, and the result of
\* velaops_conf_clear is ignored.
ClearConf ==
  /\ pc = "clear"
  /\ Erases \/ ErasesHalf \/ UNCHANGED store
  /\ pc' = "page"
  /\ UNCHANGED <<cur, backlog, sent, phones, buf, total, rescan, dsock>>

AskRescan ==
  /\ pc = "rescan"
  /\ rescan' = TRUE /\ pc' = "close"
  /\ UNCHANGED <<cur, backlog, sent, phones, buf, total, store, dsock>>

\* The body is read until Content-Length is reached, the buffer is full or
\* no more comes within 8 s; what came with the head is part of it.
RecvBody ==
  /\ pc = "save" /\ total < Len(Body(sent))
  /\ LET entry == Body(sent)[total + 1]
     IN  \/ buf' = [buf EXCEPT ![total + 1] = entry] /\ UNCHANGED pc
         \/ /\ entry.value # ""
            /\ buf' = [buf EXCEPT ![total + 1] = [entry EXCEPT !.value = "cut"]]
            /\ pc' = "check"
  /\ total' = total + 1
  /\ UNCHANGED <<cur, backlog, sent, phones, store, rescan, dsock>>

BodyEnds == pc = "save" /\ Goto("check")

Complete(text) == \A f \in Required : text[f] # ""

Refuse ==
  /\ pc = "check"
  /\ FormGet(Received, "pin") # "right" \/ ~Complete(FormText(Received))
  /\ Goto("close")

\* A reset for any reason: the AP, its connections and the buffer are gone,
\* the browsers keep their pages.
Lost_Connected == cur' = Nobody /\ addr' = [p \in Phones |-> "off"] /\ UNCHANGED backlog

Lost == cur' = Nobody /\ addr' = [p \in Phones |-> "off"] /\ backlog' = <<>>

Reset ==
  /\ pc' = "down" /\ Lost
  /\ sent' = NoForm /\ buf' = [i \in DOMAIN buf |-> Empty] /\ total' = 0 /\ rescan' = FALSE
  /\ UNCHANGED <<seen, dsock>>

\* The text is stored, or is too long for the file, or the store fails and
\* may have lost the older one.
Save ==
  /\ pc = "check"
  /\ FormGet(Received, "pin") = "right" /\ Complete(FormText(Received))
  /\ \/ Stores(FormText(Received)) /\ Reset
     \/ /\ StoresHalf \/ UNCHANGED store
        /\ pc' = "close"
        /\ UNCHANGED <<cur, backlog, sent, phones, buf, total, rescan, dsock>>

\* The connection is closed (its form is an older one now), and a rescan that
\* was asked for resets the board.
Close ==
  /\ pc = "close" /\ ~rescan
  /\ cur' = Nobody /\ sent' = NoForm /\ total' = 0
  /\ buf' = [i \in DOMAIN buf |-> [buf[i] EXCEPT !.value = "old"]]
  /\ pc' = "dhcp"
  /\ UNCHANGED <<backlog, phones, store, rescan, dsock>>

Rescan == pc = "close" /\ rescan /\ Reset /\ UNCHANGED store

Crash == pc # "down" /\ Reset /\ UNCHANGED store

\* Between two visits to the page `velaops run` learns the ports of its host
\* and the console sets what it likes: conf_set rewrites the whole text.
Set(key) ==
  /\ pc = "down" /\ conf # NoConf /\ conf[key] = ""
  /\ Stores([conf EXCEPT ![key] = "v"])
  /\ UNCHANGED <<pc, cur, backlog, sent, phones, buf, total, rescan, dsock>>

\* The board comes up on the page again.
Restart ==
  /\ pc = "down" /\ pc' = "dhcp" /\ dsock' \in BOOLEAN
  /\ UNCHANGED <<cur, backlog, sent, phones, buf, total, store, rescan>>

-----------------------------------------------------------------------------
Phone == \E p \in Phones : Ask(p) \/ Leave(p) \/ Connect(p)

Serve == \/ NoDatagram \/ NoClient \/ Accept \/ Silence \/ HeadEnds \/ SendsForm
         \/ ServePage \/ Diag \/ Other \/ ClearConf \/ AskRescan
         \/ RecvBody \/ BodyEnds \/ Refuse \/ Save \/ Close \/ Rescan

Dhcp == \E p \in Phones, heard \in BOOLEAN : DhcpPoll(p, heard)

Next == Phone \/ Dhcp \/ Serve \/ DiagEnds \/ (\E key \in Others : Set(key)) \/ Crash \/ Restart

Spec == Init /\ [][Next]_vars

\* The server waits on nobody for ever but on the model, and the board comes
\* up again.
FairSpec == Spec /\ WF_vars(Dhcp \/ Serve) /\ WF_vars(Restart)

-----------------------------------------------------------------------------
(* Properties *)

\* Every variable stays in its range; a connection belongs to a phone with a
\* request, waits at most once, and is open only while it is served.
TypeOK ==
  /\ pc \in {"dhcp", "http", "head", "silent", "page", "diag", "asking", "clear", "rescan",
             "other", "save", "check", "close", "down"}
  /\ addr \in [Phones -> {"off", "discover", "offered", "request", "bound"}]
  /\ \A p \in Phones : seen[p] = NotSeen \/ seen[p] \in Texts
  /\ {conf, prior} \subseteq Texts \cup {NoConf} /\ StoreShape
  /\ total \in 0 .. Len(buf) /\ \A i \in DOMAIN buf : buf[i] = Empty \/ buf[i] \in Entries
  /\ Len(backlog) <= Backlog /\ IsInjective(backlog)
  /\ pc \in {"dhcp", "http"} => cur = Nobody
  /\ cur \notin ToSet(backlog)
  /\ \A p \in Connected : addr[p] = "bound"

\* What is stored is one form, of the phone that is being served: as it was
\* sent, or without its end when the rest did not arrive; never a field of
\* another phone's form or of an older request.  (handle_client ends the text
\* at what it has received.)  The other keys are not in it.
IsStartOf(text, form) ==
  /\ \A o \in Others : text[o] = ""
  /\ \E k \in 0 .. Len(FormFields) : \A i \in 1 .. Len(FormFields) :
       LET f == FormFields[i]
       IN  \/ i <= k /\ text[f] = form[f]
           \/ i = k + 1 /\ text[f] \in {"cut", ""}
           \/ i > k + 1 /\ text[f] = ""

\* The PIN guards every new text.  Without it a phone can only have the text
\* erased, which may bring the older one back, and what the rest of the program
\* sets is no field of the form.
OwnForm ==
  [][conf' \notin {conf, NoConf} =>
       \/ pc = "check" /\ sent.pin = "right" /\ IsStartOf(conf', sent.form)
       \/ pc = "clear" /\ conf' = prior
       \/ pc = "down" /\ \A f \in ToSet(FormFields) : conf'[f] = conf[f]]_vars

\* A phone that sends the page back as it got it changes no field of the page,
\* unless the configuration has changed meanwhile: only fields that were empty
\* and are filled in, and values the page has no room for.  ("Prefill from the
\* last saved configuration; fall back to sensible defaults".)
SentBack ==
  /\ pc = "check" /\ conf' \notin {conf, NoConf} /\ conf # NoConf
  /\ ~sent.edited /\ seen[cur] = conf
  /\ total = Len(buf) /\ buf[total].value # "cut"

PageKeepsConf ==
  [][SentBack => \A f \in ToSet(FormFields) :
                   conf'[f] = conf[f] \/ conf[f] = "" \/ (conf[f] = "w" /\ f \in Narrow)]_vars

\* A page that comes up will list the networks of the file: each usable name
\* once, and all of them while there is room.
ListsNetworks ==
  pc = "down" => \A file \in ScanFiles :
    LET list == Listed(file)
        usable == ToSet(file) \ {Nameless}
    IN  /\ IsInjective(list) /\ ToSet(list) \subseteq usable
        /\ Len(list) = IF Cardinality(usable) < ScanMax THEN Cardinality(usable) ELSE ScanMax

\* The page is always made from consistent state: a connection that is open
\* belongs to a phone with an address and waits nowhere else, and a page that
\* comes up has the networks of its file.
ProvisionInv == TypeOK /\ ListsNetworks

\* Every phone that connects is answered or dropped, whatever it and the
\* others do, unless a diagnosis never ends: "Never let a silent or half-open
\* client block the setup page forever".
Served == []<>(pc # "asking") => \A p \in Phones : p \in Connected ~> p \notin Connected
=============================================================================
