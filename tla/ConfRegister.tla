---------------------------- MODULE ConfRegister ----------------------------
(***************************************************************************)
(* What the configuration store of velaops_conf.h promises a caller that   *)
(* may lose power at any step: the text a load returns (conf), the older   *)
(* text that resurfaces if the newer one is erased (prior), and the one    *)
(* save that is not atomic, the first after an empty store (young).        *)
(***************************************************************************)
CONSTANTS Texts, NoText

VARIABLES
  conf,     \* the text that velaops_conf_load returns, or NoText
  prior,    \* the text it returns once conf is erased, or NoText
  young,    \* conf is the only text saved since the store was empty
  busy,     \* the call in progress
  ret       \* what the last call returned, "none" after a power loss

rvars == <<conf, prior, young, busy, ret>>

Idle      == [op |-> "none"]
SaveOf(t) == [op |-> "save", text |-> t, first |-> conf = NoText]
ClearAll  == [op |-> "clear"]

RInit == /\ conf = NoText /\ prior = NoText /\ young = FALSE
         /\ busy = Idle /\ ret = "none"

Begin == /\ busy = Idle
         /\ busy' \in {SaveOf(t) : t \in Texts} \cup {ClearAll}
         /\ ret' = "none"
         /\ UNCHANGED <<conf, prior, young>>

\* A call refused before it touches the store.
Refuse == /\ busy = Idle /\ ret' = "error"
          /\ UNCHANGED <<conf, prior, young, busy>>

\* The save makes room: the older text goes, the current one stays unless it
\* is young.
MakeRoom ==
  /\ busy.op = "save"
  /\ IF young THEN conf' = NoText /\ young' = FALSE /\ UNCHANGED prior
              ELSE prior' = NoText /\ UNCHANGED <<conf, young>>
  /\ UNCHANGED <<busy, ret>>

Store ==
  /\ busy.op = "save" /\ ~young
  /\ conf' = busy.text /\ prior' = conf /\ young' = busy.first
  /\ UNCHANGED <<busy, ret>>

\* A clear erases one text after the other.
EraseCurrent ==
  /\ busy.op = "clear"
  /\ conf' = prior /\ prior' = NoText /\ young' = FALSE
  /\ UNCHANGED <<busy, ret>>

ErasePrior ==
  /\ busy.op = "clear"
  /\ prior' = NoText
  /\ UNCHANGED <<conf, young, busy, ret>>

\* Success is reported only for what a load would now return.
Succeed ==
  /\ busy # Idle
  /\ conf = IF busy.op = "save" THEN busy.text ELSE NoText
  /\ busy' = Idle /\ ret' = "ok"
  /\ UNCHANGED <<conf, prior, young>>

Fail == /\ busy # Idle
        /\ busy' = Idle /\ ret' = "error"
        /\ UNCHANGED <<conf, prior, young>>

PowerLoss == /\ busy' = Idle /\ ret' = "none"
             /\ UNCHANGED <<conf, prior, young>>

RNext == \/ Begin \/ Refuse \/ MakeRoom \/ Store \/ EraseCurrent \/ ErasePrior
         \/ Succeed \/ Fail \/ PowerLoss

RSpec == RInit /\ [][RNext]_rvars
=============================================================================
