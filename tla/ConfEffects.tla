---------------------------- MODULE ConfEffects ----------------------------
(***************************************************************************)
(* What a save or a clear of velaops_conf.c leaves in flash, in one step   *)
(* and in the terms of ConfRegister: the text a load returns, the older    *)
(* text beneath it, and whether a young text has nothing beneath it.  The  *)
(* modules whose components save and clear extend this one.                *)
(***************************************************************************)

CONSTANT NoConf     \* velaops_conf_present() = 0

VARIABLES
  conf,     \* the stored text, or NoConf
  prior,    \* the text that resurfaces if conf is erased alone
  young     \* conf is the only text saved since the store was empty

store == <<conf, prior, young>>

\* A save replaces the older text; a young text makes room for it as well.
Stores(c) ==
  /\ conf' = c /\ young' = (conf = NoConf)
  /\ prior' = IF young THEN NoConf ELSE conf

\* What is left when a save gives up half way.
StoresHalf ==
  IF young THEN conf' = NoConf /\ young' = FALSE /\ UNCHANGED prior
           ELSE prior' = NoConf /\ UNCHANGED <<conf, young>>

Erases == conf' = NoConf /\ prior' = NoConf /\ young' = FALSE

\* A clear that erases one of the two blocks.
ErasesHalf == \/ conf' = prior /\ prior' = NoConf /\ young' = FALSE
              \/ prior' = NoConf /\ UNCHANGED <<conf, young>>

\* An older text needs a current one, a young text has no older one.
StoreShape ==
  /\ young \in BOOLEAN
  /\ young => conf # NoConf /\ prior = NoConf
  /\ conf = NoConf => prior = NoConf
=============================================================================
