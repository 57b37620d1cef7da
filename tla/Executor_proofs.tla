---------------------------- MODULE Executor_proofs ----------------------------
(***************************************************************************)
(* block_on over a join or a select of two driver futures, for every way   *)
(* of giving them slots and every set of arms that make a synchronous      *)
(* call: what has returned is clean, and a process that sleeps has nothing *)
(* to do.                                                                  *)
(***************************************************************************)
EXTENDS Executor, AsyncCall_proofs

Syncing == {"syncSubscribe", "syncCommand", "syncWait", "syncReturn"}

Places == {"poll", "polling", "leaving", "yield", "teardown", "returned"} \cup Syncing

(***************************************************************************)
(* Where block_on is decides what the futures may be doing: a poll or a    *)
(* drop is of the arm whose turn it is.                                    *)
(***************************************************************************)
Control ==
    /\ at \in Places
    /\ turn \in Arm
    /\ ready \in [Arm -> BOOLEAN]
    /\ step # "idle" =>
          /\ cur = turn
          /\ \/ at = "polling" /\ step \in PollSteps
             \/ at \in {"leaving", "teardown"} /\ step \in DropSteps
    /\ at \in {"yield", "returned"} => turn = A
    /\ at \in Syncing \cup {"leaving"} => turn \in SyncArm

(* What has been dropped by then, and that an arm is ready only when its   *)
(* future has completed or failed, or is gone.                             *)
Dropped ==
    /\ life[Frame] \in {"free", "started"}
    /\ at \notin {"syncCommand", "syncWait", "syncReturn"} => life[Frame] = "free"
    /\ at \in Syncing => life[turn] = "free"
    /\ at = "leaving" /\ step = "idle" => life[turn] = "free"
    /\ at = "teardown" /\ turn = A => life[B] = "free"
    /\ at = "returned" => life[A] = "free" /\ life[B] = "free"
    /\ \A f \in Arm : ready[f] => life[f] \notin {"fresh", "started"}

(* The synchronous call lends no driver a buffer to fill.                  *)
NotLent == \A s \in Slot : allowed[s] # Frame

ExecInv == Inv /\ Control /\ Dropped /\ NotLent

(* The synchronous call is not served before its command and after its     *)
(* answer, and finds no old answer waiting.                                *)
FrameServed ==
    /\ at \in {"syncCommand", "syncWait"} =>
          life[Frame] = "started" /\ args[Frame] = Null
    /\ at \in {"syncCommand", "syncReturn"}
          => \A s \in Slot \ EventSlot : outstanding[s] # Frame
    /\ at = "syncCommand" /\ SlotOf[Frame] \notin EventSlot
          => \A e \in Waiting : e.slot # SlotOf[Frame]

(* An arm that was polled in this round and is Pending has no arguments:   *)
(* nothing is delivered before the process yields.                         *)
Looked ==
    /\ at = "polling" /\ step = "idle" /\ life[turn] = "started"
          => args[turn] = Null
    /\ at \in {"poll", "polling"} /\ turn = B /\ life[A] = "started"
          => args[A] = Null
    /\ at = "yield"
          => \A f \in Arm : life[f] = "started" => args[f] = Null

(* A select of two futures alone: one upcall is delivered between two      *)
(* rounds, so at most one arm has arguments, and the other that is dropped *)
(* with it has none.                                                       *)
OneHeard ==
    /\ at \in {"poll", "polling"} /\ turn = A =>
          /\ args[A] = Null \/ args[B] = Null
          /\ life[A] \in {"fresh", "failed"} => life[B] = "fresh"
          /\ life[A] = "done" => args[A] # Null
          /\ life[B] \in {"fresh", "started"}
    /\ at \in {"poll", "polling"} /\ turn = B => life[A] = "started"
    /\ at \in {"poll", "polling"} => ~ready[A] /\ ~ready[B]
    /\ at = "yield" => life[A] = "started" /\ life[B] = "started"
    /\ at = "teardown" => \A f \in Arm : life[f] = "started" => args[f] = Null

(* An interrupt is enabled for a future that has started and has not come  *)
(* to the end of its cancel.                                               *)
EnabledFor ==
    \A s \in EventSlot : outstanding[s] # Null =>
        /\ SlotOf[outstanding[s]] = s
        /\ life[outstanding[s]] = "started"
        /\ ~(cur = outstanding[s] /\ step \in {"unallow", "unsubscribe", "release"})
-----------------------------------------------------------------------------
(* Target and the arms, as the proofs use them.                            *)
LEMMA Places3 ==
  /\ A \in Target /\ B \in Target /\ Frame \in Target
  /\ A # B /\ Frame # A /\ Frame # B
  /\ \A f \in Target : f \in Arm \/ f = Frame
  /\ \A f \in Arm : f \in Target /\ f # Frame /\ (f = A \/ f = B)
  /\ A \in Arm /\ B \in Arm /\ Null \notin Target
  /\ SlotOf \in [Target -> Slot]
BY ExecutorAssumption, KernelAssumption, AsyncAssumption DEF Arm

(* With no future alive the kernel refers to nothing.                      *)
LEMMA AllGone ==
  ASSUME Inv, \A f \in Target : life[f] = "free"
  PROVE  /\ \A s \in Slot : upcall[s] = Null /\ allowed[s] = Null
         /\ queue = << >> /\ Waiting = {}
         /\ Core => \A s \in Slot \ EventSlot : outstanding[s] = Null
<1> USE KernelAssumption
<1>0. KernelTypeOK /\ Ownership
  BY DEF Inv, TypeOK
<1>1. \A s \in Slot : upcall[s] = Null /\ allowed[s] = Null
  BY <1>0 DEF KernelTypeOK, Ownership
<1>2. queue = << >>
  <2>1. queue \in Seq(Entry) /\ Len(queue) \in Nat
    BY <1>0 DEF KernelTypeOK
  <2>2. ASSUME NEW i \in 1..Len(queue) PROVE FALSE
    <3>1. queue[i] \in Entry
      BY <2>1
    <3>2. queue[i].slot \in Slot /\ queue[i].target \in Target
      BY <3>1 DEF Entry
    <3> QED BY <1>0, <1>1, <3>2 DEF Ownership
  <2>3. Len(queue) = 0
    BY <2>1, <2>2
  <2> QED BY <2>1, <2>3, EmptySeq
<1>3. Waiting = {}
  BY <1>2 DEF Waiting
<1>4. Core => \A s \in Slot \ EventSlot : outstanding[s] = Null
  BY <1>0 DEF Core, OwnOperation, KernelTypeOK
<1> QED BY <1>1, <1>2, <1>3, <1>4

(* Where every future has its own slot, no two live ones share one.        *)
LEMMA SlotsApart ==
  ASSUME OwnSlots
  PROVE  Exclusive /\ Exclusive'
BY DEF OwnSlots, Exclusive

(* The steps of the futures and the drivers are those of AsyncCall.        *)
LEMMA AsyncKept ==
  ASSUME Inv, Next \/ UNCHANGED vars
  PROVE  Inv' /\ (Core /\ OwnSlots => Core')
<1>1. Inv'
  BY NextInv
<1>2. CASE Next
  BY <1>1, <1>2, NextCore, SlotsApart
<1>3. CASE UNCHANGED vars
  BY <1>1, <1>3 DEF Core, OwnOperation, OwnQueue, Registered, HasArgs,
     CompletionIsOwn, OneAnswer, Waiting, slot, vars, kernelVars, asyncVars
<1> QED BY <1>2, <1>3

-----------------------------------------------------------------------------
(* The synchronous call subscribes; its frame is a target like a future.   *)
LEMMA SyncSubscribeKept ==
  ASSUME ExecInv, SyncSubscribe
  PROVE  Inv' /\ (Core /\ OwnSlots => Core')
<1> USE Places3, KernelAssumption, AsyncAssumption
<1> DEFINE s0 == SlotOf[Frame]
<1>0. /\ KernelTypeOK /\ AsyncTypeOK /\ Ownership /\ FreshHasNone /\ StepOrder
      /\ life[Frame] = "free" /\ step = "idle" /\ cur = Null /\ s0 \in Slot
  BY DEF ExecInv, Inv, TypeOK, Control, Dropped, SyncSubscribe, Places, Syncing,
     PollSteps, DropSteps, AsyncTypeOK
<1>1. /\ SetUpcall(s0, Frame)
      /\ life' = [life EXCEPT ![Frame] = "started"]
      /\ args' = [args EXCEPT ![Frame] = Null]
      /\ UNCHANGED <<allowed, outstanding, bytes, wake, step, cur>>
      /\ upcall' = [upcall EXCEPT ![s0] = Frame]
  BY DEF SyncSubscribe, SetUpcall
<1>2. /\ upcall' \in [Slot -> Target \cup {Null}]
      /\ queue' \in Seq(Entry)
      /\ \A i \in 1..Len(queue') :
            upcall'[queue'[i].slot] = queue'[i].target
  BY <1>0, <1>1, SetUpcallAgrees DEF Ownership
<1>3. Waiting' = {e \in Waiting : e.slot # s0}
  BY <1>0, <1>1, SubscribeWaiting
<1>4. TypeOK'
  BY <1>0, <1>1, <1>2 DEF TypeOK, KernelTypeOK, AsyncTypeOK, Lives
<1>5. Ownership'
  BY <1>0, <1>1, <1>2 DEF Ownership, KernelTypeOK, AsyncTypeOK
<1>6. FreshHasNone' /\ StepOrder'
  BY <1>0, <1>1 DEF FreshHasNone, StepOrder, KernelTypeOK, AsyncTypeOK
<1>7. ASSUME Core, OwnSlots PROVE Core'
  <2>0. /\ OwnOperation /\ OwnQueue /\ Registered /\ HasArgs /\ CompletionIsOwn
        /\ OneAnswer
    BY <1>7 DEF Core
  <2>W. \A e \in Waiting : e \in Entry /\ e.slot \in Slot /\ e.target \in Target
                           /\ e.op \in Target
    BY <1>0, WaitingTyped DEF Entry
  <2>1. OwnOperation'
    BY <1>0, <1>1, <2>0 DEF OwnOperation, KernelTypeOK, AsyncTypeOK
  <2>2. OwnQueue'
    BY <1>0, <1>1, <1>3, <2>0, <2>W DEF OwnQueue, AsyncTypeOK
  <2>3. Registered'
    BY <1>0, <1>1, <1>7, <2>0 DEF Registered, OwnSlots, KernelTypeOK, AsyncTypeOK
  <2>4. HasArgs' /\ CompletionIsOwn'
    BY <1>0, <1>1, <2>0 DEF HasArgs, CompletionIsOwn, AsyncTypeOK
  <2>5. OneAnswer'
    BY <1>0, <1>1, <2>0, SubscribeOne
  <2> QED BY <2>1, <2>2, <2>3, <2>4, <2>5 DEF Core
<1> QED BY <1>4, <1>5, <1>6, <1>7 DEF Inv

(* Its command makes the driver serve it, and nothing else changes.        *)
LEMMA SyncCommandKept ==
  ASSUME ExecInv, SyncCommand
  PROVE  Inv' /\ (Core /\ FrameServed /\ OwnSlots => Core')
<1> USE Places3, KernelAssumption, AsyncAssumption
<1> DEFINE s0 == SlotOf[Frame]
<1>0. /\ KernelTypeOK /\ AsyncTypeOK /\ Ownership /\ FreshHasNone /\ StepOrder
      /\ step = "idle" /\ cur = Null /\ s0 \in Slot
  BY DEF ExecInv, Inv, TypeOK, Control, Dropped, SyncCommand, Places, Syncing,
     PollSteps, DropSteps, AsyncTypeOK
<1>1. /\ outstanding' = [outstanding EXCEPT ![s0] = Frame]
      /\ UNCHANGED <<upcall, queue, allowed, bytes, life, args, wake, step, cur>>
  BY DEF SyncCommand, DriverStart, asyncVars
<1>2. Inv'
  BY <1>0, <1>1 DEF Inv, TypeOK, KernelTypeOK, AsyncTypeOK, Ownership,
     FreshHasNone, StepOrder, slot
<1>3. ASSUME Core, FrameServed, OwnSlots PROVE Core'
  <2>0. /\ OwnOperation /\ OwnQueue /\ Registered /\ HasArgs /\ CompletionIsOwn
        /\ OneAnswer /\ Waiting' = Waiting
        /\ life[Frame] = "started" /\ args[Frame] = Null
        /\ s0 \notin EventSlot => \A e \in Waiting : e.slot # s0
    BY <1>1, <1>3 DEF Core, FrameServed, SyncCommand, Waiting
  <2>W. \A e \in Waiting : /\ e \in Entry /\ e.slot \in Slot /\ e.target \in Target
                           /\ e.op \in Target
                           /\ upcall[e.slot] = e.target
    BY <1>0, WaitingTyped, WaitingOwned DEF Entry
  <2>1. OwnOperation'
    BY <1>0, <1>1, <2>0 DEF OwnOperation, KernelTypeOK, AsyncTypeOK
  <2>2. OwnQueue'
    BY <1>0, <1>1, <2>0, <2>W DEF OwnQueue, KernelTypeOK
  <2>3. Registered' /\ HasArgs' /\ CompletionIsOwn' /\ OneAnswer'
    BY <1>0, <1>1, <2>0 DEF Registered, HasArgs, CompletionIsOwn, OneAnswer, slot
  <2> QED BY <2>1, <2>2, <2>3 DEF Core
<1> QED BY <1>2, <1>3

(* It returns: whatever it shared is taken back, and nothing is left.      *)
LEMMA SyncReturnKept ==
  ASSUME ExecInv, SyncReturn
  PROVE  Inv' /\ (Core /\ FrameServed /\ OwnSlots => Core')
<1> USE Places3, KernelAssumption, AsyncAssumption
<1> DEFINE s0 == SlotOf[Frame]
<1>0. /\ KernelTypeOK /\ AsyncTypeOK /\ Ownership /\ FreshHasNone /\ StepOrder
      /\ step = "idle" /\ cur = Null /\ s0 \in Slot
      /\ \A s \in Slot : allowed[s] # Frame
  BY DEF ExecInv, Inv, TypeOK, Control, Dropped, NotLent, SyncReturn, Places, Syncing,
     PollSteps, DropSteps, AsyncTypeOK
<1>1. /\ SetUpcall(s0, Null)
      /\ life' = [life EXCEPT ![Frame] = "free"]
      /\ UNCHANGED <<allowed, outstanding, bytes, args, wake, step, cur>>
      /\ upcall' = [upcall EXCEPT ![s0] = Null]
  BY DEF SyncReturn, SetUpcall
<1>2. /\ upcall' \in [Slot -> Target \cup {Null}]
      /\ queue' \in Seq(Entry)
      /\ \A i \in 1..Len(queue') :
            upcall'[queue'[i].slot] = queue'[i].target
  BY <1>0, <1>1, SetUpcallAgrees DEF Ownership
<1>3. Waiting' = {e \in Waiting : e.slot # s0}
  BY <1>0, <1>1, SubscribeWaiting
<1>4. TypeOK'
  BY <1>0, <1>1, <1>2 DEF TypeOK, KernelTypeOK, AsyncTypeOK, Lives
<1>5. Ownership'
  BY <1>0, <1>1, <1>2 DEF Ownership, KernelTypeOK, AsyncTypeOK
<1>6. FreshHasNone' /\ StepOrder'
  BY <1>0, <1>1 DEF FreshHasNone, StepOrder, KernelTypeOK, AsyncTypeOK
<1>7. ASSUME Core, FrameServed, OwnSlots PROVE Core'
  <2>0. /\ OwnOperation /\ OwnQueue /\ Registered /\ HasArgs /\ CompletionIsOwn
        /\ OneAnswer /\ \A s \in Slot \ EventSlot : outstanding[s] # Frame
    BY <1>7 DEF Core, FrameServed, SyncReturn
  <2>W. \A e \in Waiting : e \in Entry /\ e.slot \in Slot /\ e.target \in Target
                           /\ e.op \in Target
    BY <1>0, WaitingTyped DEF Entry
  <2>1. OwnOperation'
    BY <1>0, <1>1, <2>0 DEF OwnOperation, KernelTypeOK, AsyncTypeOK
  <2>2. OwnQueue'
    BY <1>0, <1>1, <1>3, <2>0, <2>W DEF OwnQueue, AsyncTypeOK
  <2>3. Registered'
    BY <1>0, <1>1, <1>7, <2>0 DEF Registered, OwnSlots, KernelTypeOK, AsyncTypeOK
  <2>4. HasArgs' /\ CompletionIsOwn'
    BY <1>0, <1>1, <2>0 DEF HasArgs, CompletionIsOwn, AsyncTypeOK
  <2>5. OneAnswer'
    BY <1>0, <1>1, <2>0, SubscribeOne
  <2> QED BY <2>1, <2>2, <2>3, <2>4, <2>5 DEF Core
<1> QED BY <1>4, <1>5, <1>6, <1>7 DEF Inv

(* Two new futures, when nothing of the old ones is left.                  *)
LEMMA BlockAgainKept ==
  ASSUME ExecInv, BlockAgain
  PROVE  Inv' /\ (Core => Core')
<1> USE Places3, KernelAssumption, AsyncAssumption
<1>0. /\ KernelTypeOK /\ AsyncTypeOK /\ Ownership /\ FreshHasNone /\ StepOrder
      /\ step = "idle" /\ cur = Null
      /\ \A f \in Target : life[f] = "free"
  BY DEF ExecInv, Inv, TypeOK, Control, Dropped, BlockAgain, Places, Syncing,
     PollSteps, DropSteps, AsyncTypeOK
<1>1. /\ \A s \in Slot : upcall[s] = Null /\ allowed[s] = Null
      /\ queue = << >> /\ Waiting = {}
      /\ Core => \A s \in Slot \ EventSlot : outstanding[s] = Null
  BY <1>0, AllGone DEF ExecInv
<1>2. /\ life' = [life EXCEPT ![A] = "fresh", ![B] = "fresh"]
      /\ args' = [f \in Target |-> Null]
      /\ wake' = [f \in Target |-> "none"]
      /\ bytes' = [f \in Target |-> Null]
      /\ UNCHANGED <<upcall, queue, allowed, outstanding, step, cur>>
  BY DEF BlockAgain
<1>3. TypeOK'
  BY <1>0, <1>2 DEF TypeOK, KernelTypeOK, AsyncTypeOK, Lives
<1>4. Ownership' /\ FreshHasNone' /\ StepOrder'
  BY <1>0, <1>1, <1>2 DEF Ownership, FreshHasNone, StepOrder, KernelTypeOK
<1>5. ASSUME Core PROVE Core'
  <2>0. /\ OwnOperation /\ \A s \in Slot \ EventSlot : outstanding[s] = Null
        /\ Waiting' = {}
    BY <1>1, <1>2, <1>5 DEF Core, Waiting
  <2>1. OwnOperation'
    BY <1>2, <2>0 DEF OwnOperation
  <2>2. OwnQueue' /\ OneAnswer'
    BY <1>1, <1>2, <2>0 DEF OwnQueue, OneAnswer
  <2>3. Registered'
    BY <1>0, <1>2 DEF Registered, AsyncTypeOK
  <2>4. HasArgs' /\ CompletionIsOwn'
    BY <1>0, <1>2 DEF HasArgs, CompletionIsOwn
  <2> QED BY <2>1, <2>2, <2>3, <2>4 DEF Core
<1> QED BY <1>3, <1>4, <1>5 DEF Inv

(* Every step of the program keeps the invariant of its futures.           *)
LEMMA ExecKept ==
  ASSUME ExecInv, [ExecNext]_allVars
  PROVE  Inv' /\ (Core /\ FrameServed /\ OwnSlots => Core')
<1>0. Inv
  BY DEF ExecInv
<1>1. CASE UNCHANGED vars
  BY <1>0, <1>1, AsyncKept
<1>2. CASE Next
  BY <1>0, <1>2, AsyncKept
<1>3. PollArm \/ InArm \/ ArmPending \/ ArmReady \/ Leave \/ SyncFail \/ SyncWait
         \/ YieldWait \/ DropArms \/ Drivers
      => UNCHANGED vars \/ Next
  BY Places3
     DEF ExecInv, Control, PollArm, InArm, ArmPending, ArmReady, Leave, SyncFail, SyncWait,
         YieldWait, DropArms, Drivers, Next, InPoll, InDrop
<1>4. UNCHANGED allVars => UNCHANGED vars
  BY DEF allVars
<1> QED BY <1>1, <1>2, <1>3, <1>4, SyncSubscribeKept, SyncCommandKept,
       SyncReturnKept, BlockAgainKept DEF ExecNext, Process
-----------------------------------------------------------------------------
(***************************************************************************)
(* Where block_on is.  A step inside a poll or a drop changes the life of  *)
(* the future whose turn it is, and of no other.                           *)
(***************************************************************************)
LEMMA PollSteps3 ==
  ASSUME Inv, Control, InArm
  PROVE  /\ at = "polling" /\ cur = turn /\ step # "idle"
         /\ UNCHANGED <<at, turn, ready, args>>
         /\ \A f \in Target : f # turn => life'[f] = life[f]
         /\ life'[turn] \in {life[turn], "started", "done", "failed"}
         /\ \/ step' \in PollSteps /\ cur' = cur
            \/ /\ step' = "idle"
               /\ life'[turn] = "started" => args[turn] = Null
         /\ \A s \in Slot : allowed'[s] \in {allowed[s], Null, turn}
<1> USE Places3
<1>1. /\ AsyncTypeOK /\ KernelTypeOK /\ StepOrder /\ InPoll /\ at = "polling"
      /\ UNCHANGED <<at, turn, ready>>
      /\ turn \in Arm
  BY DEF Inv, TypeOK, InArm, execVars, Control
<1>2. step # "idle" /\ cur = turn
  BY <1>1 DEF Control, InPoll, AllowBuffer, Register, Start, Fail, Park, Finish,
     Complete
<1>3. CASE AllowBuffer \/ Finish
  BY <1>1, <1>2, <1>3 DEF AllowBuffer, Finish, SetAllowed, Goto, slot,
     AsyncTypeOK, KernelTypeOK, PollSteps
<1>4. CASE Register
  BY <1>1, <1>2, <1>4 DEF Register, Goto, AsyncTypeOK, KernelTypeOK, PollSteps
<1>5. CASE Start
  BY <1>1, <1>2, <1>5 DEF Start, Goto, AsyncTypeOK, KernelTypeOK, PollSteps
<1>6. CASE Fail
  BY <1>1, <1>2, <1>6 DEF Fail, Return, kernelVars, AsyncTypeOK, KernelTypeOK
<1>7. CASE Park
  BY <1>1, <1>2, <1>7 DEF Park, Goto, Return, Finishing, kernelVars,
     AsyncTypeOK, KernelTypeOK, PollSteps
<1>8. CASE Complete
  BY <1>1, <1>2, <1>8 DEF Complete, Return, AsyncTypeOK, KernelTypeOK
<1> QED BY <1>1, <1>2, <1>3, <1>4, <1>5, <1>6, <1>7, <1>8 DEF InPoll

(* A step of a drop frees the future in the end and changes no other.      *)
LEMMA DropSteps3 ==
  ASSUME Inv, Control, InDrop
  PROVE  /\ at \in {"leaving", "teardown"} /\ cur = turn /\ step # "idle"
         /\ UNCHANGED args
         /\ \A f \in Target : f # turn => life'[f] = life[f]
         /\ \/ step' \in DropSteps /\ cur' = cur /\ life' = life
            \/ step' = "idle" /\ life'[turn] = "free"
         /\ \A s \in Slot : allowed'[s] \in {allowed[s], Null}
<1> USE Places3
<1>1. AsyncTypeOK /\ KernelTypeOK /\ turn \in Arm
  BY DEF Inv, TypeOK, Control
<1>2. step # "idle" /\ step \notin PollSteps
  BY DEF InDrop, Cancel, Unallow, Unsubscribe, Release, PollSteps
<1>3. cur = turn /\ at \in {"leaving", "teardown"}
  BY <1>2 DEF Control
<1>4. CASE Cancel
  BY <1>1, <1>2, <1>3, <1>4 DEF Cancel, Goto, FirstField, DropSteps
<1>5. CASE Unallow
  BY <1>1, <1>2, <1>3, <1>5 DEF Unallow, SetAllowed, Goto, slot, DropSteps,
     KernelTypeOK, AsyncTypeOK
<1>6. CASE Unsubscribe
  BY <1>1, <1>2, <1>3, <1>6 DEF Unsubscribe, Goto, DropSteps
<1>7. CASE Release
  BY <1>1, <1>2, <1>3, <1>7 DEF Release, Return, kernelVars, AsyncTypeOK
<1> QED BY <1>2, <1>3, <1>4, <1>5, <1>6, <1>7 DEF InDrop

(* The closure of poll_fn goes on to the other arm, yields, or is done.    *)
LEMMA PollNextGoes ==
  ASSUME Control, NEW r \in [Arm -> BOOLEAN], PollNext(r)
  PROVE  /\ ready' = r /\ turn' \in Arm
         /\ \/ at' = "poll" /\ turn = A /\ turn' = B
            \/ at' = "yield" /\ turn = B /\ turn' = A
            \/ at' = "teardown" /\ turn' = B
         /\ at' # "teardown" =>
               /\ Combinator = "select" => ~r[turn]
               /\ turn = B => ~(r[A] /\ r[B])
         /\ at' = "teardown" =>
               IF Combinator = "select" THEN r[turn] ELSE r[A] /\ r[B]
BY Places3 DEF PollNext, Control

(* Every step goes from a place of block_on to the one that follows it.    *)
LEMMA ControlKept ==
  ASSUME ExecInv, [ExecNext]_allVars
  PROVE  Control' /\ Dropped' /\ NotLent'
<1> USE Places3
<1>0. Inv /\ Control /\ Dropped /\ NotLent /\ AsyncTypeOK /\ KernelTypeOK /\ turn \in Arm
      /\ ready \in [Arm -> BOOLEAN]
  BY DEF ExecInv, Inv, TypeOK, Control
<1>a. /\ \A r : ~(r \in Syncing /\ r \in {"poll", "polling", "leaving", "yield", "teardown", "returned"})
      /\ \A p \in PollSteps : p \notin DropSteps /\ p # "idle"
      /\ "idle" \notin DropSteps
  BY DEF Syncing, PollSteps, DropSteps
<1>1. CASE PollArm
  <2>1. CASE /\ ~ready[turn] /\ Poll(turn) /\ at' = "polling"
             /\ UNCHANGED <<turn, ready>>
    <3>1. step' \in PollSteps /\ cur' = turn /\ UNCHANGED <<life, allowed>>
      BY <2>1 DEF Poll, Finishing, Sharing, PollSteps, kernelVars
    <3>2. at = "poll"
      BY <1>1 DEF PollArm
    <3> QED BY <1>0, <1>a, <2>1, <3>1, <3>2 DEF Control, Dropped, NotLent, Places, Syncing
  <2>2. CASE ready[turn] /\ PollNext(ready) /\ UNCHANGED vars
    <3>1. UNCHANGED <<life, allowed, step, cur>> /\ at = "poll"
      BY <1>1, <2>2 DEF PollArm, vars, kernelVars, asyncVars
    <3> QED BY <1>0, <1>a, <2>2, <3>1, PollNextGoes
            DEF Control, Dropped, NotLent, Places, Syncing
  <2> QED BY <1>1, <2>1, <2>2 DEF PollArm
<1>2. CASE InArm
  <2>1. Control'
    BY <1>0, <1>a, <1>2, PollSteps3 DEF Control, Places, Syncing
  <2>2. Dropped'
    <3>1. life[turn] \in {"fresh", "started"}
      BY <1>0, <1>2, PollSteps3 DEF Inv, StepOrder, Control, PollSteps
    <3>2. at = "polling" /\ UNCHANGED <<at, turn, ready>>
      BY <1>0, <1>2, PollSteps3
    <3>3. life'[Frame] = life[Frame]
      BY <1>0, <1>2, PollSteps3
    <3>4. \A f \in Arm : f # turn => life'[f] = life[f]
      BY <1>0, <1>2, PollSteps3
    <3> QED BY <1>0, <3>1, <3>2, <3>3, <3>4 DEF Dropped, Syncing
  <2>3. NotLent'
    BY <1>0, <1>2, PollSteps3 DEF NotLent
  <2> QED BY <2>1, <2>2, <2>3
<1>3. CASE ArmPending
  <2>1. /\ UNCHANGED <<life, allowed, step, cur>> /\ PollNext(ready)
        /\ at = "polling" /\ step = "idle"
    BY <1>3 DEF ArmPending, vars, kernelVars, asyncVars
  <2> QED BY <1>0, <2>1, PollNextGoes DEF Control, Dropped, NotLent, Places, Syncing
<1>4. CASE ArmReady
  <2>0. at = "polling" /\ step = "idle" /\ life[turn] \in {"done", "failed"}
    BY <1>4 DEF ArmReady
  <2>1. CASE PollNext([ready EXCEPT ![turn] = TRUE]) /\ UNCHANGED vars
    <3>1. UNCHANGED <<life, allowed, step, cur>>
      BY <2>1 DEF vars, kernelVars, asyncVars
    <3>2. [ready EXCEPT ![turn] = TRUE] \in [Arm -> BOOLEAN]
      BY <1>0
    <3> QED BY <1>0, <2>0, <2>1, <3>1, <3>2, PollNextGoes
            DEF Control, Dropped, NotLent, Places, Syncing
  <2>2. CASE turn \in SyncArm /\ Drop(turn) /\ at' = "leaving" /\ UNCHANGED <<turn, ready>>
    <3>1. /\ step' \in DropSteps /\ cur' = turn /\ UNCHANGED <<life, allowed>>
      BY <2>2 DEF Drop, FirstField, DropSteps, kernelVars
    <3> QED BY <1>0, <1>a, <2>0, <2>2, <3>1
            DEF Control, Dropped, NotLent, Places, Syncing
  <2> QED BY <1>4, <2>1, <2>2 DEF ArmReady
<1>5. CASE Leave
  <2>0. at = "leaving" /\ UNCHANGED <<turn, ready>>
    BY <1>5 DEF Leave, execVars
  <2>1. CASE InDrop /\ UNCHANGED execVars
    <3>1. UNCHANGED <<at, turn, ready>>
      BY <2>1 DEF execVars
    <3> QED BY <1>0, <1>a, <2>0, <2>1, <3>1, DropSteps3
            DEF Control, Dropped, NotLent, Places, Syncing
  <2>2. CASE step = "idle" /\ at' = "syncSubscribe" /\ UNCHANGED vars
    <3>1. UNCHANGED <<life, allowed, step, cur>>
      BY <2>2 DEF vars, kernelVars, asyncVars
    <3> QED BY <1>0, <2>0, <2>2, <3>1 DEF Control, Dropped, NotLent, Places, Syncing
  <2> QED BY <1>5, <2>1, <2>2 DEF Leave
<1>6. CASE SyncSubscribe
  BY <1>0, <1>6 DEF SyncSubscribe, Control, Dropped, NotLent, Places, Syncing, AsyncTypeOK
<1>7. CASE SyncCommand
  BY <1>0, <1>7 DEF SyncCommand, Control, Dropped, NotLent, Places, Syncing, asyncVars
<1>8. CASE SyncFail
  BY <1>0, <1>8 DEF SyncFail, Control, Dropped, NotLent, Places, Syncing, vars,
     kernelVars, asyncVars
<1>9. CASE SyncWait
  BY <1>0, <1>9 DEF SyncWait, Yield, Control, Dropped, NotLent, Places, Syncing
<1>10. CASE SyncReturn
  <2>1. [ready EXCEPT ![turn] = TRUE] \in [Arm -> BOOLEAN]
    BY <1>0
  <2>2. /\ PollNext([ready EXCEPT ![turn] = TRUE]) /\ at = "syncReturn"
        /\ life' = [life EXCEPT ![Frame] = "free"]
        /\ UNCHANGED <<allowed, step, cur>>
    BY <1>10 DEF SyncReturn
  <2>3. /\ ready' = [ready EXCEPT ![turn] = TRUE] /\ turn' \in Arm
        /\ \/ at' = "poll"
           \/ at' = "yield" /\ turn' = A
           \/ at' = "teardown" /\ turn' = B
    BY <1>0, <2>1, <2>2, PollNextGoes
  <2>4. life'[Frame] = "free" /\ \A f \in Arm : life'[f] = life[f]
    BY <1>0, <2>2 DEF AsyncTypeOK
  <2>5. life[turn] = "free" /\ step = "idle"
    BY <1>0, <2>2 DEF Control, Dropped, Syncing
  <2>6. Control' /\ NotLent'
    BY <1>0, <2>1, <2>2, <2>3, <2>5 DEF Control, NotLent, Places, Syncing
  <2>7. Dropped'
    BY <1>0, <2>3, <2>4, <2>5 DEF Dropped, Syncing
  <2> QED BY <2>6, <2>7
<1>11. CASE YieldWait
  BY <1>0, <1>11 DEF YieldWait, Yield, Control, Dropped, NotLent, Places, Syncing
<1>12. CASE DropArms
  <2>0. at = "teardown"
    BY <1>12 DEF DropArms
  <2>1. CASE InDrop /\ UNCHANGED execVars
    <3>1. UNCHANGED <<at, turn, ready>>
      BY <2>1 DEF execVars
    <3> QED BY <1>0, <1>a, <2>0, <2>1, <3>1, DropSteps3
            DEF Control, Dropped, NotLent, Places, Syncing
  <2>2. CASE Drop(turn) /\ UNCHANGED execVars
    <3>1. /\ step' \in DropSteps /\ cur' = turn
          /\ UNCHANGED <<life, allowed, at, turn, ready>>
      BY <2>2 DEF Drop, FirstField, DropSteps, kernelVars, execVars
    <3> QED BY <1>0, <1>a, <2>0, <3>1 DEF Control, Dropped, NotLent, Places, Syncing
  <2>3. CASE /\ step = "idle" /\ life[turn] = "free"
             /\ at' = IF turn = B THEN "teardown" ELSE "returned"
             /\ turn' = A
             /\ UNCHANGED <<vars, ready>>
    <3>1. UNCHANGED <<life, allowed, step, cur>>
      BY <2>3 DEF vars, kernelVars, asyncVars
    <3> QED BY <1>0, <2>0, <2>3, <3>1 DEF Control, Dropped, NotLent, Places, Syncing
  <2> QED BY <1>12, <2>1, <2>2, <2>3 DEF DropArms
<1>13. CASE BlockAgain
  BY <1>0, <1>13 DEF BlockAgain, Control, Dropped, NotLent, Places, Syncing, AsyncTypeOK
<1>14. CASE Drivers \/ UNCHANGED allVars
  <2>1. UNCHANGED <<life, allowed, step, cur, at, turn, ready>>
    BY <1>14 DEF Drivers, Driver, DriverAnswer, asyncVars, execVars, allVars, vars,
       kernelVars
  <2> QED BY <1>0, <2>1 DEF Control, Dropped, NotLent
<1> QED
  BY <1>1, <1>2, <1>3, <1>4, <1>5, <1>6, <1>7, <1>8, <1>9, <1>10, <1>11, <1>12,
     <1>13, <1>14 DEF ExecNext, Process

(* All of it holds when the program starts.                                *)
LEMMA ExecInit3 == ExecInit => ExecInv /\ Core /\ FrameServed /\ Looked
<1> SUFFICES ASSUME ExecInit PROVE ExecInv /\ Core /\ FrameServed /\ Looked
  OBVIOUS
<1> USE Places3, KernelAssumption, AsyncAssumption DEF ExecInit, KernelInit
<1>1. Inv
  <2>1. TypeOK
    BY DEF TypeOK, KernelTypeOK, AsyncTypeOK, Lives, PollSteps, DropSteps, Entry
  <2>2. Ownership /\ FreshHasNone /\ StepOrder
    BY DEF Ownership, FreshHasNone, StepOrder, slot
  <2> QED BY <2>1, <2>2 DEF Inv
<1>2. Control /\ Dropped /\ NotLent
  BY DEF Control, Dropped, NotLent, Places, Syncing
<1>3. Core
  BY DEF Core, OwnOperation, OwnQueue, Registered, HasArgs, CompletionIsOwn,
     OneAnswer, Waiting
<1>4. FrameServed /\ Looked
  BY DEF FrameServed, Looked
<1> QED BY <1>1, <1>2, <1>3, <1>4 DEF ExecInv

(* ExecInv is inductive, without a word on who owns which slot.            *)
LEMMA ExecNext3 == ExecInv /\ [ExecNext]_allVars => ExecInv'
BY ExecKept, ControlKept DEF ExecInv

(* The futures under block_on keep to their types, and the kernel refers   *)
(* to live ones only, whatever slots they have.                            *)
THEOREM ExecutorInvariance == ExecSpec => []ExecInv
<1> QED BY ExecInit3, ExecNext3, PTL DEF ExecSpec

-----------------------------------------------------------------------------
(* The synchronous call is served between its command and its answer.      *)
LEMMA FrameServedKept ==
  ASSUME ExecInv, Core, Core', FrameServed, OwnSlots, [ExecNext]_allVars
  PROVE  FrameServed'
<1> USE Places3, KernelAssumption, AsyncAssumption
<1>0. /\ Control /\ Dropped /\ KernelTypeOK /\ AsyncTypeOK /\ OwnOperation /\ OwnQueue
      /\ Ownership /\ SlotOf[Frame] \in Slot
      /\ KernelTypeOK' /\ OwnOperation'
  BY ExecNext3 DEF ExecInv, Inv, TypeOK, Core
<1>1. CASE SyncSubscribe
  <2>1. /\ at' = "syncCommand" /\ SetUpcall(SlotOf[Frame], Frame)
        /\ life' = [life EXCEPT ![Frame] = "started"]
        /\ args' = [args EXCEPT ![Frame] = Null]
        /\ outstanding' = outstanding /\ life[Frame] = "free"
    BY <1>0, <1>1 DEF SyncSubscribe, Dropped
  <2>2. \A e \in Waiting' : e.slot # SlotOf[Frame]
    BY <1>0, <2>1, SubscribeWaiting
  <2>3. \A s \in Slot \ EventSlot : outstanding[s] # Frame
    BY <1>0, <2>1 DEF OwnOperation
  <2> QED BY <1>0, <2>1, <2>2, <2>3 DEF FrameServed, AsyncTypeOK
<1>2. CASE SyncCommand
  BY <1>2 DEF SyncCommand, FrameServed, asyncVars
<1>3. CASE SyncFail
  <2>1. \A s \in Slot \ EventSlot : outstanding[s] # Frame
    BY <1>0, <1>3 DEF SyncFail, FrameServed, OwnOperation, Dropped
  <2> QED BY <1>3, <2>1 DEF SyncFail, FrameServed, vars, kernelVars
<1>4. CASE SyncWait
  <2>1. /\ at = "syncWait" /\ UNCHANGED <<life, outstanding>>
        /\ at' = IF args'[Frame] # Null THEN "syncReturn" ELSE "syncWait"
    BY <1>4 DEF SyncWait, Yield
  <2>2. at' = "syncReturn" => \A s \in Slot \ EventSlot : outstanding'[s] # Frame
    BY <1>0, <2>1 DEF OwnOperation
  <2> QED BY <2>1, <2>2 DEF FrameServed
<1>5. CASE \E s \in Slot : Driver(s) /\ UNCHANGED execVars
  <2>1. PICK s \in Slot : Driver(s)
    BY <1>5
  <2>2. UNCHANGED <<at, life, args>>
    BY <1>5 DEF Driver, asyncVars, execVars
  <2>3. /\ outstanding[s] # Null /\ queue' = Scheduled(s, outstanding[s])
        /\ \A r \in Slot : outstanding'[r] \in {outstanding[r], Null}
    BY <1>0, <2>1 DEF Driver, DriverAnswer, KernelTypeOK
  <2>4. \A r \in Slot : outstanding[r] # Frame => outstanding'[r] # Frame
    BY <2>3
  <2>5. ASSUME at = "syncCommand", SlotOf[Frame] \notin EventSlot
        PROVE  \A e \in Waiting' : e.slot # SlotOf[Frame]
    <3>1. s # SlotOf[Frame]
      BY <1>0, <2>3, <2>5 DEF OwnOperation, FrameServed, OwnSlots, KernelTypeOK
    <3>2. \A e \in Waiting' : e \in Waiting \/ e.slot = s
      BY <1>0, <2>3, ScheduleWaiting
    <3> QED BY <2>5, <3>1, <3>2 DEF FrameServed
  <2> QED BY <2>2, <2>4, <2>5 DEF FrameServed
<1>6. CASE UNCHANGED allVars
  <2>1. UNCHANGED <<at, life, args, outstanding>> /\ Waiting' = Waiting
    BY <1>6 DEF allVars, vars, kernelVars, asyncVars, execVars, Waiting
  <2> QED BY <2>1 DEF FrameServed
<1>7. ASSUME at' \notin {"syncCommand", "syncWait", "syncReturn"} PROVE FrameServed'
  BY <1>7 DEF FrameServed
<1>8. PollArm \/ InArm \/ ArmPending \/ ArmReady \/ Leave \/ SyncReturn
         \/ YieldWait \/ DropArms \/ BlockAgain
      => at' \notin {"syncCommand", "syncWait", "syncReturn"}
  <2>1. \A r \in [Arm -> BOOLEAN] : PollNext(r)
          => at' \notin {"syncCommand", "syncWait", "syncReturn"}
    BY <1>0, PollNextGoes
  <2>2. ready \in [Arm -> BOOLEAN] /\ [ready EXCEPT ![turn] = TRUE] \in [Arm -> BOOLEAN]
    BY <1>0 DEF Control
  <2> QED BY <2>1, <2>2 DEF PollArm, InArm, ArmPending, ArmReady, Leave, SyncReturn,
             YieldWait, DropArms, BlockAgain, execVars
<1> QED BY <1>1, <1>2, <1>3, <1>4, <1>5, <1>6, <1>7, <1>8
        DEF ExecNext, Process, Drivers

(* When block_on returns nothing of its futures is left, neither with the  *)
(* kernel nor with a driver: the combinator drops both arms, and each      *)
(* cancels, unallows and unsubscribes what it had.                         *)
THEOREM ReturnsAreClean ==
  ASSUME OwnSlots
  PROVE  ExecSpec => []ReturnsClean
<1> DEFINE I == ExecInv /\ Core /\ FrameServed
<1>1. ExecInit => I
  BY ExecInit3
<1>2. I /\ [ExecNext]_allVars => I'
  BY ExecKept, ExecNext3, FrameServedKept
<1>3. I => ReturnsClean
  <2> SUFFICES ASSUME I, at = "returned" PROVE ReturnsClean
    BY DEF ReturnsClean
  <2>1. \A f \in Target : life[f] = "free"
    BY Places3 DEF ExecInv, Dropped
  <2> QED BY <2>1, AllGone DEF ReturnsClean, ExecInv
<1> QED BY <1>1, <1>2, <1>3, PTL DEF ExecSpec

-----------------------------------------------------------------------------
(***************************************************************************)
(* What block_on knows when it yields.  The arms have been looked at one   *)
(* after the other since the last yield, and nothing was delivered in      *)
(* between: an upcall comes only to a process that yields, so only the     *)
(* yields of a synchronous call could hand the arm before it something.    *)
(* The second arm of a join must not make one (Sheltered).                 *)
(***************************************************************************)
(* A step of block_on keeps the arms it has looked at as it saw them.      *)
LEMMA LookedKept ==
  ASSUME ExecInv, Looked, Sheltered, [ExecNext]_allVars
  PROVE  Looked'
<1> USE Places3
<1>0. /\ Inv /\ Control /\ Dropped /\ AsyncTypeOK /\ turn \in Arm
      /\ ready \in [Arm -> BOOLEAN]
      /\ [ready EXCEPT ![turn] = TRUE] \in [Arm -> BOOLEAN]
  BY DEF ExecInv, Inv, TypeOK, Control
<1>1. ASSUME at' \notin {"poll", "polling", "yield"} PROVE Looked'
  BY <1>1 DEF Looked
<1>2. ASSUME NEW r \in [Arm -> BOOLEAN], PollNext(r),
             UNCHANGED args,
             life'[turn] = "started" => args[turn] = Null,
             turn = B /\ life'[A] = "started" => args[A] = Null,
             turn = B => at' # "yield" \/ (at # "syncReturn" /\ UNCHANGED life)
      PROVE  Looked'
  BY <1>0, <1>2, PollNextGoes DEF Looked
<1>3. CASE PollArm
  <2>1. CASE ~ready[turn] /\ Poll(turn) /\ at' = "polling" /\ UNCHANGED <<turn, ready>>
    <3>1. step' # "idle" /\ UNCHANGED <<life, args>> /\ at = "poll"
      BY <1>3, <2>1 DEF PollArm, Poll, Finishing, Sharing, kernelVars
    <3> QED BY <2>1, <3>1 DEF Looked
  <2>2. CASE ready[turn] /\ PollNext(ready) /\ UNCHANGED vars
    <3>1. UNCHANGED <<life, args>> /\ at = "poll" /\ life[turn] # "started"
      BY <1>0, <1>3, <2>2 DEF PollArm, vars, kernelVars, asyncVars, Dropped
    <3> QED BY <1>0, <1>2, <2>2, <3>1 DEF Looked
  <2> QED BY <1>3, <2>1, <2>2 DEF PollArm
<1>4. CASE InArm
  <2>1. /\ at = "polling" /\ UNCHANGED <<at, turn, ready, args>>
        /\ \A f \in Target : f # turn => life'[f] = life[f]
        /\ step' = "idle" /\ life'[turn] = "started" => args[turn] = Null
    BY <1>0, <1>4, PollSteps3 DEF PollSteps
  <2> QED BY <1>0, <2>1 DEF Looked
<1>5. CASE ArmPending
  <2>1. /\ UNCHANGED <<life, args>> /\ PollNext(ready)
        /\ at = "polling" /\ step = "idle" /\ life[turn] = "started"
    BY <1>5 DEF ArmPending, vars, kernelVars, asyncVars
  <2> QED BY <1>0, <1>2, <2>1 DEF Looked
<1>6. CASE ArmReady
  <2>1. CASE PollNext([ready EXCEPT ![turn] = TRUE]) /\ UNCHANGED vars
    <3>1. /\ UNCHANGED <<life, args>> /\ at = "polling"
          /\ life[turn] # "started"
      BY <1>6, <2>1 DEF ArmReady, vars, kernelVars, asyncVars
    <3> QED BY <1>0, <1>2, <2>1, <3>1 DEF Looked
  <2> QED BY <1>1, <1>6, <2>1 DEF ArmReady
<1>7. CASE SyncReturn
  <2>1. /\ at = "syncReturn" /\ UNCHANGED args
        /\ life' = [life EXCEPT ![Frame] = "free"]
        /\ PollNext([ready EXCEPT ![turn] = TRUE])
    BY <1>7 DEF SyncReturn
  <2>2. life[turn] = "free" /\ life'[turn] = "free"
    BY <1>0, <2>1 DEF Dropped, Syncing
  <2>3. turn = B => at' \notin {"poll", "yield"}
    BY <1>0, <2>1, PollNextGoes DEF Control, Syncing, Sheltered
  <2>4. CASE turn = B
    BY <1>0, <1>1, <2>1, <2>3, <2>4, PollNextGoes
  <2>5. CASE turn = A
    BY <1>0, <1>2, <2>1, <2>2, <2>5
  <2> QED BY <1>0, <2>4, <2>5
<1>8. CASE YieldWait
  BY <1>0, <1>8 DEF YieldWait, Control, Looked
<1>9. CASE BlockAgain
  BY <1>0, <1>9 DEF BlockAgain, Looked, Control
<1>10. CASE Drivers \/ UNCHANGED allVars
  <2>1. UNCHANGED <<life, args, step, at, turn>>
    BY <1>10 DEF Drivers, Driver, asyncVars, execVars, allVars, vars
  <2> QED BY <2>1 DEF Looked
<1>11. Leave \/ SyncSubscribe \/ SyncCommand \/ SyncFail \/ SyncWait \/ DropArms
         => at' \notin {"poll", "polling", "yield"}
  BY DEF Leave, SyncSubscribe, SyncCommand, SyncFail, SyncWait, DropArms, execVars
<1> QED
  BY <1>1, <1>3, <1>4, <1>5, <1>6, <1>7, <1>8, <1>9, <1>10, <1>11
     DEF ExecNext, Process

(* The process does not sleep over an arm that has its arguments, whatever *)
(* slots the futures share: block_on has polled every arm since the last   *)
(* upcall.  For a join whose second arm makes a synchronous call this is   *)
(* false, and MCJoinSyncSecond.cfg shows it.                               *)
THEOREM SleepsWithNothingReady ==
  ASSUME Sheltered
  PROVE  ExecSpec => []NoSleepOverReady
<1> DEFINE I == ExecInv /\ Looked
<1>1. ExecInit => I
  BY ExecInit3
<1>2. I /\ [ExecNext]_allVars => I'
  BY ExecNext3, LookedKept
<1>3. I => NoSleepOverReady
  BY Places3 DEF Looked, NoSleepOverReady, Syncing
<1> QED BY <1>1, <1>2, <1>3, PTL DEF ExecSpec

-----------------------------------------------------------------------------
(***************************************************************************)
(* A select of two driver futures alone.  A future that is dropped after   *)
(* its upcall came, and before it was polled, is not cancelled; such an    *)
(* edge would leave its interrupt enabled.  Under such a select there is   *)
(* none: one upcall is delivered to a round, and its future ends it.       *)
(***************************************************************************)
AloneInv == ExecInv /\ Core /\ FrameServed /\ Looked /\ OneHeard /\ EnabledFor

(* At most one of the two has heard, and what ends the round is that one.  *)
LEMMA OneHeardKept ==
  ASSUME AloneInv, Alone, [ExecNext]_allVars
  PROVE  OneHeard'
<1> USE Places3
<1>0. /\ Inv /\ Control /\ Dropped /\ AsyncTypeOK /\ StepOrder /\ FreshHasNone
      /\ HasArgs /\ Looked /\ OneHeard /\ turn \in Arm
      /\ ready \in [Arm -> BOOLEAN]
      /\ [ready EXCEPT ![turn] = TRUE] \in [Arm -> BOOLEAN]
  BY DEF AloneInv, ExecInv, Inv, TypeOK, Control, Core
<1>1. at \notin Syncing /\ at # "leaving"
  BY <1>0 DEF Control, Alone
<1>2. ASSUME at' \notin {"poll", "polling", "yield", "teardown"} PROVE OneHeard'
  BY <1>2 DEF OneHeard
<1>3. CASE PollArm
  <2>1. ~ready[turn] /\ Poll(turn) /\ at' = "polling" /\ UNCHANGED <<turn, ready>>
    BY <1>0, <1>3 DEF PollArm, OneHeard
  <2>2. UNCHANGED <<life, args>> /\ at = "poll"
    BY <1>3, <2>1 DEF PollArm, Poll, kernelVars
  <2> QED BY <1>0, <2>1, <2>2 DEF OneHeard
<1>4. CASE InArm
  <2>1. /\ at = "polling" /\ UNCHANGED <<at, turn, ready, args>>
        /\ \A f \in Target : f # turn => life'[f] = life[f]
        /\ cur = turn
    BY <1>0, <1>4, PollSteps3
  <2>2. \/ life'[turn] = life[turn] \/ life'[turn] = "started"
        \/ life'[turn] = "failed" /\ life[turn] = "fresh"
        \/ life'[turn] = "done" /\ args[turn] # Null
    BY <1>0, <1>4, <2>1
       DEF InArm, InPoll, AllowBuffer, Register, Start, Fail, Park, Finish, Complete,
           StepOrder, HasArgs, AsyncTypeOK, kernelVars
  <2> QED BY <1>0, <2>1, <2>2 DEF OneHeard
<1>5. CASE ArmPending
  <2>1. /\ UNCHANGED <<life, args>> /\ PollNext(ready)
        /\ at = "polling" /\ step = "idle" /\ life[turn] = "started"
    BY <1>5 DEF ArmPending, vars, kernelVars, asyncVars
  <2>2. /\ ready' = ready
        /\ \/ at' = "poll" /\ turn = A /\ turn' = B
           \/ at' = "yield" /\ turn = B /\ turn' = A
    BY <1>0, <2>1, PollNextGoes DEF Alone, OneHeard
  <2> QED BY <1>0, <2>1, <2>2 DEF OneHeard
<1>6. CASE ArmReady
  <2>1. /\ PollNext([ready EXCEPT ![turn] = TRUE]) /\ UNCHANGED <<life, args>>
        /\ at = "polling" /\ step = "idle" /\ life[turn] \in {"done", "failed"}
    BY <1>6 DEF ArmReady, vars, kernelVars, asyncVars, Alone
  <2>2. at' = "teardown"
    BY <1>0, <2>1, PollNextGoes DEF Alone
  <2>3. \A f \in Arm : life[f] = "started" => args[f] = Null
    BY <1>0, <2>1 DEF OneHeard, Looked
  <2> QED BY <2>1, <2>2, <2>3 DEF OneHeard
<1>7. CASE YieldWait
  <2>1. /\ at = "yield" /\ at' = "poll" /\ UNCHANGED <<life, turn, ready>>
        /\ turn = A /\ queue # << >>
        /\ args' = [args EXCEPT ![Head(queue).target] = Head(queue).op]
    BY <1>0, <1>7 DEF YieldWait, Yield, Control
  <2>2. life[A] = "started" /\ life[B] = "started" /\ args[A] = Null /\ args[B] = Null
    BY <1>0, <2>1 DEF OneHeard, Looked
  <2>3. args'[A] = Null \/ args'[B] = Null
    BY <1>0, <2>1, <2>2 DEF AsyncTypeOK
  <2>4. ~ready[A] /\ ~ready[B]
    BY <1>0, <2>2 DEF Dropped
  <2> QED BY <2>1, <2>2, <2>3, <2>4 DEF OneHeard
<1>8. CASE DropArms
  <2>1. CASE at' = "teardown"
    <3>1. /\ at = "teardown" /\ UNCHANGED args
          /\ \A f \in Arm : life'[f] = "started" => life[f] = "started"
      BY <1>0, <1>8, DropSteps3 DEF DropArms, Drop, vars, kernelVars, asyncVars
    <3> QED BY <1>0, <2>1, <3>1 DEF OneHeard
  <2>2. at' \in {"teardown", "returned"}
    BY <1>8 DEF DropArms, execVars
  <2> QED BY <1>2, <2>1, <2>2
<1>9. CASE BlockAgain
  <2>1. /\ turn = A /\ turn' = turn /\ at' = "poll"
        /\ life' = [life EXCEPT ![A] = "fresh", ![B] = "fresh"]
        /\ args' = [f \in Target |-> Null] /\ ready' = [f \in Arm |-> FALSE]
    BY <1>0, <1>9 DEF BlockAgain, Control
  <2>2. life'[A] = "fresh" /\ life'[B] = "fresh" /\ args'[A] = Null /\ ~ready'[A] /\ ~ready'[B]
    BY <1>0, <2>1 DEF AsyncTypeOK
  <2> QED BY <2>1, <2>2 DEF OneHeard
<1>10. CASE Drivers \/ UNCHANGED allVars
  <2>1. UNCHANGED <<life, args, step, at, turn, ready>>
    BY <1>10 DEF Drivers, Driver, asyncVars, execVars, allVars, vars
  <2> QED BY <1>0, <2>1 DEF OneHeard
<1>11. ~Leave /\ ~SyncSubscribe /\ ~SyncCommand /\ ~SyncFail /\ ~SyncWait /\ ~SyncReturn
  BY <1>1 DEF Leave, SyncSubscribe, SyncCommand, SyncFail, SyncWait, SyncReturn, Syncing
<1> QED
  BY <1>3, <1>4, <1>5, <1>6, <1>7, <1>8, <1>9, <1>10, <1>11 DEF ExecNext, Process

(* An interrupt is enabled by the start of a future and stopped at its end.*)
LEMMA EnabledForKept ==
  ASSUME AloneInv, Alone, [ExecNext]_allVars
  PROVE  EnabledFor'
<1> USE Places3
<1>0. /\ Inv /\ Control /\ Dropped /\ AsyncTypeOK /\ KernelTypeOK /\ StepOrder
      /\ OneHeard /\ EnabledFor /\ turn \in Arm
  BY DEF AloneInv, ExecInv, Inv, TypeOK, Control
<1>1. at \notin Syncing /\ at # "leaving"
  BY <1>0 DEF Control, Alone
<1>2. CASE InPoll
  <2>0. cur \in Target /\ step \in PollSteps /\ slot \in Slot /\ slot = SlotOf[cur]
        /\ EventSlot \subseteq Slot
    BY <1>0, <1>2, KernelAssumption
       DEF InPoll, AllowBuffer, Register, Start, Fail, Park, Finish, Complete,
           AsyncTypeOK, PollSteps, slot
  <2>1. CASE AllowBuffer \/ Register \/ Park \/ Finish
    <3>1. UNCHANGED <<life, outstanding>>
      BY <2>1 DEF AllowBuffer, Register, Park, Finish, kernelVars
    <3>2. step' \notin {"unallow", "unsubscribe", "release"}
      BY <2>1 DEF AllowBuffer, Register, Park, Finish, Goto, Return, Finishing
    <3> QED BY <1>0, <3>1, <3>2 DEF EnabledFor
  <2>2. CASE Start
    <3>1. /\ outstanding' = [outstanding EXCEPT ![slot] = cur]
          /\ life' = [life EXCEPT ![cur] = "started"] /\ step' = "park"
      BY <2>2 DEF Start, DriverStart, Goto
    <3> QED BY <1>0, <2>0, <3>1 DEF EnabledFor, KernelTypeOK, AsyncTypeOK
  <2>3. CASE Fail
    <3>1. /\ life[cur] = "fresh" /\ life' = [life EXCEPT ![cur] = "failed"]
          /\ step' = "idle" /\ outstanding' = outstanding
      BY <1>0, <2>3 DEF Fail, Return, kernelVars, StepOrder
    <3> QED BY <1>0, <2>0, <3>1 DEF EnabledFor, KernelTypeOK, AsyncTypeOK
  <2>4. CASE Complete
    <3>1. /\ life' = [life EXCEPT ![cur] = "done"] /\ step' = "idle"
          /\ outstanding' = IF slot \in EventSlot
                            THEN [outstanding EXCEPT ![slot] = Null]
                            ELSE outstanding
      BY <2>4 DEF Complete, Return
    <3> QED BY <1>0, <2>0, <3>1 DEF EnabledFor, KernelTypeOK, AsyncTypeOK
  <2> QED BY <1>2, <2>1, <2>2, <2>3, <2>4 DEF InPoll
<1>3. CASE InDrop
  <2>0. cur \in Target /\ slot \in Slot /\ slot = SlotOf[cur] /\ EventSlot \subseteq Slot
    BY <1>0, <1>3, KernelAssumption
       DEF InDrop, Cancel, Unallow, Unsubscribe, Release, AsyncTypeOK, slot
  <2>1. CASE Cancel
    <3>1. outstanding' = [outstanding EXCEPT ![slot] = Null] /\ life' = life /\ cur' = cur
      BY <2>1 DEF Cancel, DriverStop, Goto
    <3> QED BY <1>0, <2>0, <3>1 DEF EnabledFor, KernelTypeOK
  <2>2. CASE Unallow \/ Unsubscribe
    <3>1. /\ UNCHANGED <<outstanding, life, cur>>
          /\ step \in {"unallow", "unsubscribe"}
      BY <2>2 DEF Unallow, Unsubscribe, Goto
    <3> QED BY <1>0, <3>1 DEF EnabledFor
  <2>3. CASE Release
    <3>1. /\ outstanding' = outstanding /\ life' = [life EXCEPT ![cur] = "free"]
          /\ step = "release" /\ step' = "idle"
      BY <2>3 DEF Release, Return, kernelVars
    <3> QED BY <1>0, <2>0, <3>1 DEF EnabledFor, KernelTypeOK, AsyncTypeOK
  <2> QED BY <1>3, <2>1, <2>2, <2>3 DEF InDrop
<1>4. CASE Drop(turn) /\ at = "teardown"
  <2>1. /\ UNCHANGED <<life, outstanding>> /\ cur' = turn
        /\ step' = IF Outstanding(turn) THEN "cancel" ELSE FirstField(turn)
    BY <1>4 DEF Drop, kernelVars
  <2>2. life[turn] = "started" => step' = "cancel"
    BY <1>0, <1>4, <2>1 DEF OneHeard, Outstanding
  <2> QED BY <1>0, <2>1, <2>2 DEF EnabledFor
<1>5. CASE Poll(turn)
  <2>1. UNCHANGED <<life, outstanding>> /\ step' \in PollSteps
    BY <1>5 DEF Poll, kernelVars, Finishing, Sharing, PollSteps
  <2> QED BY <1>0, <2>1 DEF EnabledFor, PollSteps
<1>6. CASE YieldWait
  <2>1. UNCHANGED <<life, outstanding, step, cur>>
    BY <1>6 DEF YieldWait, Yield
  <2> QED BY <1>0, <2>1 DEF EnabledFor
<1>7. CASE BlockAgain
  <2>1. outstanding' = outstanding /\ \A f \in Target : life[f] = "free"
    BY <1>0, <1>7 DEF BlockAgain, Dropped, Syncing
  <2>2. \A s \in EventSlot : outstanding[s] = Null
    BY <1>0, <2>1, KernelAssumption DEF EnabledFor, KernelTypeOK
  <2> QED BY <2>1, <2>2 DEF EnabledFor
<1>8. CASE Drivers
  <2>1. PICK s0 \in Slot : Driver(s0)
    BY <1>8 DEF Drivers
  <2>2. /\ UNCHANGED <<life, step, cur>>
        /\ \A s \in EventSlot : outstanding'[s] = outstanding[s]
    BY <1>0, <2>1, KernelAssumption DEF Driver, DriverAnswer, asyncVars, KernelTypeOK
  <2> QED BY <1>0, <2>2 DEF EnabledFor
<1>9. CASE UNCHANGED vars
  <2>1. UNCHANGED <<life, step, cur, outstanding>>
    BY <1>9 DEF vars, kernelVars, asyncVars
  <2> QED BY <1>0, <2>1 DEF EnabledFor
<1>10. UNCHANGED allVars => UNCHANGED vars
  BY DEF allVars
<1>11. PollArm \/ InArm \/ ArmPending \/ ArmReady \/ DropArms
         => \/ UNCHANGED vars \/ InPoll \/ InDrop
            \/ Poll(turn)
            \/ Drop(turn) /\ at = "teardown"
  BY DEF PollArm, InArm, ArmPending, ArmReady, DropArms, Alone
<1>12. ~Leave /\ ~SyncSubscribe /\ ~SyncCommand /\ ~SyncFail /\ ~SyncWait /\ ~SyncReturn
  BY <1>1 DEF Leave, SyncSubscribe, SyncCommand, SyncFail, SyncWait, SyncReturn, Syncing
<1> QED
  BY <1>2, <1>3, <1>4, <1>5, <1>6, <1>7, <1>8, <1>9, <1>10, <1>11, <1>12
     DEF ExecNext, Process

(* A program of such selects begins so, and every step of it keeps it.     *)
LEMMA AloneInit ==
  ASSUME ExecInit PROVE AloneInv
<1>1. OneHeard /\ EnabledFor
  BY Places3, KernelAssumption DEF ExecInit, KernelInit, OneHeard, EnabledFor
<1> QED BY <1>1, ExecInit3 DEF AloneInv

LEMMA AloneKept ==
  ASSUME AloneInv, Alone, [ExecNext]_allVars
  PROVE  AloneInv'
<1>1. OneHeard' /\ EnabledFor'
  BY OneHeardKept, EnabledForKept
<1>2. ExecInv' /\ Core' /\ FrameServed' /\ Looked'
  BY ExecKept, ExecNext3, FrameServedKept, LookedKept DEF AloneInv, Alone, Sheltered
<1> QED BY <1>1, <1>2 DEF AloneInv

LEMMA AloneEnds ==
  ASSUME AloneInv PROVE EnableEndsWithFuture
BY Places3, KernelAssumption DEF AloneInv, EnabledFor, EnableEndsWithFuture

(* An interrupt is never left enabled for a future that is gone, when the  *)
(* edge is selected against a driver future on a slot of its own:          *)
(* gpio/src/lib.rs:283 claims it of every way a future can end.            *)
THEOREM EnablesEndWithFutures ==
  ASSUME Alone
  PROVE  ExecSpec => []EnableEndsWithFuture
<1>1. AloneInv /\ [ExecNext]_allVars => AloneInv'
  BY AloneKept
<1> QED BY <1>1, AloneInit, AloneEnds, PTL DEF ExecSpec
=============================================================================
