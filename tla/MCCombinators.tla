--------------------------- MODULE MCCombinators ---------------------------
(***************************************************************************)
(* Three programs of Executor for TLC, a behaviour being of one: a join of *)
(* a console read that then prints and an alarm, a select of the same two  *)
(* that both print, and a select of a console read against a GPIO edge.    *)
(* The synchronous call is a console write, and all slots differ.          *)
(***************************************************************************)
EXTENDS Executor, TLC

CONSTANTS reads, other, writes, pin

VARIABLE part

MCSlotOf == (A :> reads) @@ (B :> other) @@ (Frame :> writes)

Select == INSTANCE Executor WITH
    Combinator <- "select", SyncArm <- {A, B}, Prompt <- {other, writes}

EdgeSlotOf == [f \in Target |-> IF f = A THEN reads ELSE IF f = B THEN pin ELSE writes]

Edge == INSTANCE Executor WITH
    Combinator <- "select", SyncArm <- {}, Prompt <- {reads}, SlotOf <- EdgeSlotOf

(* These programs are of the kind the theorems are about.                  *)
ASSUME PartAssumption ==
    /\ {reads, other, writes, pin} \subseteq Slot
    /\ OwnSlots /\ Select!OwnSlots /\ Select!Sheltered /\ Edge!Alone

MCInit == part \in {"join", "select", "edge"} /\ ExecInit

Runs ==
    \/ part = "join" /\ Process
    \/ part = "select" /\ Select!Process
    \/ part = "edge" /\ Edge!Process

(* The drivers are the same to all three.                                  *)
MCNext == (Runs \/ Drivers) /\ UNCHANGED part

Answers(s) ==
    /\ \/ part = "join" /\ s \in Prompt
       \/ part = "select" /\ s \in {other, writes}
       \/ part = "edge" /\ s = reads
    /\ Driver(s)
    /\ UNCHANGED execVars

MCSpec ==
    /\ MCInit /\ [][MCNext]_<<part, allVars>>
    /\ WF_allVars(Runs)
    /\ \A s \in Slot : WF_allVars(Answers(s))

-----------------------------------------------------------------------------
(* The interrupt of the edge that loses the select ends with its future,   *)
(* where neither arm makes a synchronous call.                             *)
EdgeEndsWithFuture == part = "edge" => Edge!EnableEndsWithFuture
=============================================================================
