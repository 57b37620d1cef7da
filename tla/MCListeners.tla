---------------------------- MODULE MCListeners ----------------------------
(***************************************************************************)
(* Listeners that make blocking calls of their own, for TLC, a behaviour   *)
(* being of one program: examples/buttons.rs with calls the kernel may     *)
(* refuse, none on a slot that is in use; and calls of one driver that     *)
(* re-enter each other's slot.                                             *)
(***************************************************************************)
EXTENDS MCSyncCall

VARIABLE part

ListenerSlot == ButtonSlot \cup StoreSlot

Store == INSTANCE SyncCall WITH
    Api <- StoreApis, Reentrant <- TRUE, Refusals <- FALSE, MaxDepth <- 3, Prompt <- {}

ListenerInit == part \in {"buttons", "store"} /\ Init

ButtonsNext == part = "buttons" /\ Next /\ UNCHANGED part
StoreNext == part = "store" /\ Store!Next /\ UNCHANGED part

(* A call of the store that was overtaken waits for ever, as it may: the   *)
(* store stutters then, and only the other program is asked to go on.      *)
StoreStuck == part = "store" /\ UNCHANGED <<part, vars>>

ListenerNext == ButtonsNext \/ StoreNext \/ StoreStuck

ListenerSpec ==
    /\ ListenerInit /\ [][ListenerNext]_<<part, vars>>
    /\ WF_vars(part = "buttons" /\ Step)
    /\ \A s \in Prompt : WF_vars(part = "buttons" /\ Driver(s))

-----------------------------------------------------------------------------
(* Every blocking call returns, as long as none re-enters a slot in use.   *)
EveryCallReturns == part = "buttons" => CallsReturn
=============================================================================
