-------------------------- MODULE Combinators_proofs --------------------------
(***************************************************************************)
(* The third program of MCCombinators: a select of a console read against  *)
(* a GPIO edge, run beside the two others under the same drivers.  What    *)
(* Executor_proofs shows of every such select is taken from an instance of *)
(* it (AloneP) with that program's parameters; its operators are those of  *)
(* the instance Edge under another name, which the first lemmas show.      *)
(***************************************************************************)
EXTENDS MCCombinators, TLAPS

AloneP == INSTANCE Executor_proofs WITH
    Combinator <- "select", SyncArm <- {}, Prompt <- {reads}, SlotOf <- EdgeSlotOf

-----------------------------------------------------------------------------
(* The parameters are such as Executor_proofs assumes.                     *)
LEMMA EdgeAssumption ==
  /\ AloneP!KernelAssumption /\ AloneP!AsyncAssumption /\ AloneP!ExecutorAssumption
  /\ EdgeSlotOf \in [Target -> Slot]
  /\ AloneP!Alone
<1>1. EdgeSlotOf \in [Target -> Slot]
  BY PartAssumption DEF EdgeSlotOf
<1>2. AloneP!KernelAssumption /\ AloneP!AsyncAssumption
  BY <1>1, KernelAssumption, AsyncAssumption
     DEF AloneP!KernelAssumption, AloneP!AsyncAssumption
<1>3. AloneP!ExecutorAssumption
  BY PartAssumption, ExecutorAssumption DEF AloneP!ExecutorAssumption
<1>4. AloneP!Alone
  BY PartAssumption, Zenon DEF Edge!Alone, Edge!OwnSlots, AloneP!Alone, AloneP!OwnSlots
<1> QED BY <1>1, <1>2, <1>3, <1>4

-----------------------------------------------------------------------------
(* A step of the program is a step of the instance, operation by operation.*)
LEMMA SamePurge == \A q, s : Edge!Purge(q, s) = AloneP!Purge(q, s)
<1>1. \A S : Edge!Cardinality(S) = AloneP!Cardinality(S)
  BY Zenon DEF Edge!Cardinality, AloneP!Cardinality
<1>2. \A q, s : Edge!Kept(q, s) = AloneP!Kept(q, s)
  BY Zenon DEF Edge!Kept, AloneP!Kept
<1>3. \A K, j : Edge!Nth(K, j) = AloneP!Nth(K, j)
  BY <1>1, Zenon DEF Edge!Nth, AloneP!Nth
<1> QED BY <1>1, <1>2, <1>3, Zenon DEF Edge!Purge, AloneP!Purge

LEMMA SameUpcall == \A s, t : Edge!SetUpcall(s, t) <=> AloneP!SetUpcall(s, t)
BY SamePurge, Zenon DEF Edge!SetUpcall, AloneP!SetUpcall

LEMMA SameProcess == Edge!Process <=> AloneP!Process
<1>1. Edge!InPoll <=> AloneP!InPoll
  BY SameUpcall, Zenon DEF
      Edge!kernelVars, AloneP!kernelVars, Edge!SetAllowed, AloneP!SetAllowed, 
      Edge!DriverStart, AloneP!DriverStart, Edge!slot, AloneP!slot, Edge!Goto, AloneP!Goto, 
      Edge!Return, AloneP!Return, Edge!Finishing, AloneP!Finishing, Edge!Fail, AloneP!Fail, 
      Edge!AllowBuffer, AloneP!AllowBuffer, Edge!Register, AloneP!Register, Edge!Start, 
      AloneP!Start, Edge!Park, AloneP!Park, Edge!Finish, AloneP!Finish, Edge!Complete, 
      AloneP!Complete, Edge!InPoll, AloneP!InPoll
<1>2. Edge!InDrop <=> AloneP!InDrop
  BY SameUpcall, Zenon DEF
      Edge!kernelVars, AloneP!kernelVars, Edge!SetAllowed, AloneP!SetAllowed, Edge!Scheduled, 
      AloneP!Scheduled, Edge!DriverStop, AloneP!DriverStop, Edge!slot, AloneP!slot, Edge!Goto, 
      AloneP!Goto, Edge!Return, AloneP!Return, Edge!FirstField, AloneP!FirstField, 
      Edge!Cancel, AloneP!Cancel, Edge!Unallow, AloneP!Unallow, Edge!Unsubscribe, 
      AloneP!Unsubscribe, Edge!Release, AloneP!Release, Edge!InDrop, AloneP!InDrop
<1>3. Edge!PollArm <=> AloneP!PollArm
  BY Zenon DEF
      Edge!kernelVars, AloneP!kernelVars, Edge!asyncVars, AloneP!asyncVars, Edge!vars, 
      AloneP!vars, Edge!Finishing, AloneP!Finishing, Edge!Sharing, AloneP!Sharing, Edge!Poll, 
      AloneP!Poll, Edge!PollNext, AloneP!PollNext, Edge!PollArm, AloneP!PollArm
<1>4. Edge!Leave <=> AloneP!Leave
  BY <1>2, Zenon DEF
      Edge!Leave, AloneP!Leave, Edge!vars, AloneP!vars, Edge!kernelVars, AloneP!kernelVars, 
      Edge!asyncVars, AloneP!asyncVars, Edge!execVars, AloneP!execVars
<1>5. Edge!SyncSubscribe <=> AloneP!SyncSubscribe
  BY SameUpcall, Zenon DEF
      Edge!slot, AloneP!slot, Edge!SyncSubscribe, AloneP!SyncSubscribe
<1>6. Edge!SyncReturn <=> AloneP!SyncReturn
  BY SameUpcall, Zenon DEF
      Edge!slot, AloneP!slot, Edge!PollNext, AloneP!PollNext, Edge!SyncReturn, 
      AloneP!SyncReturn
<1> QED
  BY <1>1, <1>2, <1>3, <1>4, <1>5, <1>6, Zenon DEF
      Edge!kernelVars, AloneP!kernelVars, Edge!DriverStart, AloneP!DriverStart, 
      Edge!asyncVars, AloneP!asyncVars, Edge!vars, AloneP!vars, Edge!FirstField, 
      AloneP!FirstField, Edge!Outstanding, AloneP!Outstanding, Edge!Drop, AloneP!Drop, 
      Edge!Yield, AloneP!Yield, Edge!execVars, AloneP!execVars, Edge!Arm, AloneP!Arm, 
      Edge!PollNext, AloneP!PollNext, Edge!InArm, AloneP!InArm, Edge!ArmPending, 
      AloneP!ArmPending, Edge!ArmReady, AloneP!ArmReady, Edge!SyncCommand, AloneP!SyncCommand, 
      Edge!SyncFail, AloneP!SyncFail, Edge!SyncWait, AloneP!SyncWait, Edge!YieldWait, 
      AloneP!YieldWait, Edge!DropArms, AloneP!DropArms, Edge!BlockAgain, AloneP!BlockAgain, 
      Edge!Process, AloneP!Process

(* So are the first state and the drivers', which no parameter changes.    *)
LEMMA SameInit == ExecInit <=> AloneP!ExecInit
BY Zenon DEF
      KernelInit, AloneP!KernelInit, Arm, AloneP!Arm, ExecInit, AloneP!ExecInit

LEMMA SameDrivers == Drivers <=> AloneP!Drivers
BY Zenon DEF
      Scheduled, AloneP!Scheduled, DriverAnswer, AloneP!DriverAnswer, asyncVars, 
      AloneP!asyncVars, slot, AloneP!slot, Driver, AloneP!Driver, execVars, AloneP!execVars, 
      Drivers, AloneP!Drivers

-----------------------------------------------------------------------------
(* The interrupt of the edge that loses the select ends with its future,   *)
(* where neither arm makes a synchronous call, which is what AloneP says   *)
(* by its SyncArm, and for all other parameters.  gpio/src/lib.rs:283      *)
(* claims it of every way a future can end; an edge's upcall delivered in  *)
(* a synchronous call of the other arm is one of which it is false.        *)
THEOREM EdgesEndWithFutures == MCSpec => []EdgeEndsWithFuture
<1> DEFINE J == part = "edge" => AloneP!AloneInv
<1>1. MCInit => J
  BY EdgeAssumption, SameInit, AloneP!AloneInit, AloneP!KernelAssumption, Zenon DEF MCInit
<1>2. J /\ [MCNext]_<<part, allVars>> => J'
  <2> SUFFICES ASSUME J, [MCNext]_<<part, allVars>>, part' = "edge" PROVE AloneP!AloneInv'
    BY Zenon
  <2>1. part = "edge" /\ AloneP!AloneInv
    BY Zenon DEF MCNext
  <2>2. MCNext => AloneP!ExecNext
    <3>1. Runs => Edge!Process
      BY <2>1 DEF Runs
    <3> QED BY <3>1, SameProcess, SameDrivers, Zenon DEF MCNext, AloneP!ExecNext
  <2>3. UNCHANGED allVars => UNCHANGED AloneP!allVars
    BY Zenon DEF
      kernelVars, AloneP!kernelVars, asyncVars, AloneP!asyncVars, vars, AloneP!vars, execVars, 
      AloneP!execVars, allVars, AloneP!allVars
  <2>4. [AloneP!ExecNext]_(AloneP!allVars)
    BY <2>2, <2>3, Zenon
  <2> QED BY <2>1, <2>4, EdgeAssumption, AloneP!AloneKept, Zenon
<1>3. J => EdgeEndsWithFuture
  <2> SUFFICES ASSUME AloneP!AloneInv PROVE Edge!EnableEndsWithFuture
    BY Zenon DEF EdgeEndsWithFuture
  <2>1. AloneP!EnableEndsWithFuture
    BY EdgeAssumption, AloneP!AloneEnds, Zenon
  <2> QED BY <2>1, Zenon DEF Edge!EnableEndsWithFuture, AloneP!EnableEndsWithFuture
<1> QED BY <1>1, <1>2, <1>3, PTL DEF MCSpec
=============================================================================
