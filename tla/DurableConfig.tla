---------------------------- MODULE DurableConfig ----------------------------
(***************************************************************************)
(* What a relay owes its operator: the configuration in use survives every *)
(* restart that the operator asks for, and is never lost without a power   *)
(* failure.  A power failure takes back what was not saved yet; one in the *)
(* middle of a save leaves the defaults.  While the flash is not usable    *)
(* nothing is promised but that the relay works.                           *)
(***************************************************************************)
EXTENDS Naturals

CONSTANTS
  Configs,   \* all configurations
  Default    \* the one of a relay that was never configured

VARIABLES
  inUse,     \* the configuration the relay works with
  stored,    \* the one it would find after a restart
  unsaved,   \* inUse was changed and is still to be saved
  durable,   \* the flash is usable until the next restart
  failures   \* number of power failures so far

vars == <<inUse, stored, unsaved, durable, failures>>

Init ==
  /\ inUse = Default /\ stored = Default
  /\ unsaved = FALSE /\ durable \in BOOLEAN /\ failures = 0

(* The operator's new configuration is taken over, after the last was saved. *)
Change ==
  /\ ~ unsaved
  /\ inUse' \in Configs /\ unsaved' = TRUE
  /\ UNCHANGED <<stored, durable, failures>>

(* While it is being saved the old one is no longer there. *)
BeginSave ==
  /\ unsaved /\ durable
  /\ stored' = Default
  /\ UNCHANGED <<inUse, unsaved, durable, failures>>

EndSave ==
  /\ unsaved
  /\ unsaved' = FALSE
  /\ stored' = IF durable THEN inUse ELSE stored
  /\ UNCHANGED <<inUse, durable, failures>>

(* The relay comes up with what it finds.  Flash that was usable stays so. *)
ComesUp ==
  /\ inUse' = stored /\ unsaved' = FALSE
  /\ durable' \in {TRUE, durable}
  /\ UNCHANGED stored

(* The operator's restart waits for the save and keeps the configuration;   *)
(* a power failure may come at any time.                                    *)
Restart == ~ unsaved /\ (durable => inUse' = inUse) /\ ComesUp /\ UNCHANGED failures

PowerFails == ComesUp /\ failures' = failures + 1

Next == Change \/ BeginSave \/ EndSave \/ Restart \/ PowerFails

(* Every change is saved in the end, or undone by a power failure. *)
Saves == unsaved ~> ~ unsaved

(* What happens never breaks these rules, whether or not a save is finished. *)
Safety == Init /\ [][Next]_vars

Spec == Safety /\ Saves
=============================================================================
