---------------------------- MODULE Observation ----------------------------
(***************************************************************************)
(* What it means that a generation has been observed publicly.  The model  *)
(* is the publisher's (module Publication); a history variable records     *)
(* what each public authority has served since the publisher took up the   *)
(* row whose questions it is asking.                                       *)
(***************************************************************************)
EXTENDS Publication

VARIABLE
    served      \* history: public authority -> the zones it has served since then

observationVars == <<vars, served>>

Observing == {"observe", "observed"}

(* The next row, or the first one, is taken up when the work list changes. *)
Serve ==
    served' = [s \in Servers |->
        IF phase' \in Observing
        THEN {view'[s]} \cup (IF batch' = batch THEN served[s] ELSE {})
        ELSE {}]

ObservationInit ==
    /\ Init
    /\ served = [s \in Servers |-> {}]

ObservationNext == Next /\ Serve

ObservationSpec == ObservationInit /\ [][ObservationNext]_observationVars

----------------------------------------------------------------------------
(* A generation is publicly observed "only after at least two distinct      *)
(* configured public-authority endpoints agree" (architecture.md): when a   *)
(* row is marked, every authority has served the A records the row has now, *)
(* and every authority its AAAA records, since the publisher took the row   *)
(* up.  Writes, expiry, transfers and crashes may come between the          *)
(* questions, and between the last of them and the mark                     *)
(* (ObserveAddressRRsets, MarkPubliclyObserved).                            *)
ObservedEverywhere ==
    [][\A d \in Devices : intents'[d].public # intents[d].public =>
         \A s \in Servers, family \in {0, 1} : \E z \in served[s] :
            RRset(z[intents[d].hostname], family) = RRset(intents[d].addresses, family)
      ]_observationVars
============================================================================
