--------------------------- MODULE AsyncCall_proofs ---------------------------
(***************************************************************************)
(* The driver futures, for every set of futures, slots and drivers: first  *)
(* their type correctness and memory safety under every application; then  *)
(* what a future promises when its slot is its own: its upcall is not      *)
(* lost, it completes with its own answer and its own bytes, and it leaves *)
(* nothing behind.                                                         *)
(***************************************************************************)
EXTENDS AsyncCall, TockKernel_proofs, SequenceTheorems

(***************************************************************************)
(* The inductive invariant.  The kernel's tables refer only to live        *)
(* futures, each through its own slot, and every queued upcall is for the  *)
(* registration in force; and a poll or a drop in progress has done what   *)
(* the steps before the current one do.                                    *)
(***************************************************************************)
Ownership ==
    /\ \A s \in Slot : upcall[s] # Null =>
          life[upcall[s]] # "free" /\ SlotOf[upcall[s]] = s
    /\ \A i \in 1..Len(queue) : upcall[queue[i].slot] = queue[i].target
    /\ \A s \in Slot : allowed[s] # Null =>
          /\ life[allowed[s]] \notin {"free", "done"}
          /\ SlotOf[allowed[s]] = s
          /\ s \in Buffered

(* A future that has not started has no arguments: between its subscribe   *)
(* and its start the process does not yield.                               *)
FreshHasNone ==
    /\ \A f \in Target : life[f] = "fresh" => args[f] = Null
    /\ \A s \in Slot :
          upcall[s] # Null /\ life[upcall[s]] = "fresh"
              => step = "start" /\ cur = upcall[s]

StepOrder ==
    /\ step \in {"allow", "subscribe", "start"} => life[cur] = "fresh"
    /\ step \in {"park", "finish", "complete"} => life[cur] = "started"
    /\ step = "allow" => slot \in Buffered
    /\ step \in {"complete", "unsubscribe", "release"} => allowed[slot] # cur
    /\ step = "release" => upcall[slot] # cur

Inv == TypeOK /\ Ownership /\ FreshHasNone /\ StepOrder

(* Nothing is shared with the kernel at first.                             *)
LEMMA InitInv == Init => Inv
<1> SUFFICES ASSUME Init PROVE Inv
  OBVIOUS
<1> USE KernelAssumption, AsyncAssumption DEF Init, KernelInit
<1>1. TypeOK
  BY DEF TypeOK, KernelTypeOK, AsyncTypeOK, Lives, PollSteps, DropSteps, Entry
<1>2. Ownership /\ FreshHasNone /\ StepOrder
  BY DEF Ownership, FreshHasNone, StepOrder, slot
<1> QED BY <1>1, <1>2 DEF Inv

-----------------------------------------------------------------------------
(* One lemma per action that touches the kernel's tables in earnest; the   *)
(* others are leaves of the theorem.                                       *)

(* Subscribing, with an upcall or with the null upcall, keeps the queue    *)
(* and the registrations in agreement.                                     *)
LEMMA SetUpcallAgrees ==
  ASSUME KernelTypeOK, NEW s \in Slot, NEW t \in Target \cup {Null},
         SetUpcall(s, t),
         \A i \in 1..Len(queue) : upcall[queue[i].slot] = queue[i].target
  PROVE  /\ upcall' \in [Slot -> Target \cup {Null}]
         /\ queue' \in Seq(Entry)
         /\ \A i \in 1..Len(queue') :
              upcall'[queue'[i].slot] = queue'[i].target
<1>1. queue \in Seq(Entry)
  BY DEF KernelTypeOK
<1>2. /\ queue' \in Seq(Entry)
      /\ \A j \in 1..Len(queue') :
            \E i \in 1..Len(queue) : queue'[j] = queue[i] /\ queue[i].slot # s
  <2>1. queue' = Purge(queue, s)
    BY DEF SetUpcall
  <2> QED BY <1>1, <2>1, PurgeProperties
<1>3. upcall' = [upcall EXCEPT ![s] = t]
  BY DEF SetUpcall
<1>4. ASSUME NEW j \in 1..Len(queue')
      PROVE  upcall'[queue'[j].slot] = queue'[j].target
  <2>1. PICK i \in 1..Len(queue) : queue'[j] = queue[i] /\ queue[i].slot # s
    BY <1>2
  <2>2. upcall'[queue[i].slot] = upcall[queue[i].slot]
    BY <1>3, <2>1, <1>1 DEF KernelTypeOK, Entry
  <2> QED BY <2>1, <2>2
<1> QED BY <1>2, <1>3, <1>4 DEF KernelTypeOK

(* Scheduling an upcall keeps the queue and the registrations in           *)
(* agreement.                                                              *)
LEMMA ScheduledAgrees ==
  ASSUME KernelTypeOK, NEW s \in Slot, outstanding[s] # Null,
         queue' = Scheduled(s, outstanding[s]), upcall' = upcall,
         \A i \in 1..Len(queue) : upcall[queue[i].slot] = queue[i].target
  PROVE  /\ queue' \in Seq(Entry)
         /\ \A i \in 1..Len(queue') :
              upcall'[queue'[i].slot] = queue'[i].target
<1>1. outstanding[s] \in Target
  BY DEF KernelTypeOK
<1>2. /\ queue' \in Seq(Entry)
      /\ \A i \in 1..Len(queue') :
            \/ i \in 1..Len(queue) /\ queue'[i] = queue[i]
            \/ queue'[i].slot = s /\ queue'[i].target = upcall[s]
  BY <1>1, ScheduledProperties
<1> QED BY <1>2

-----------------------------------------------------------------------------
(* Every step of the futures, the kernel and the drivers preserves the     *)
(* inductive invariant.                                                    *)
LEMMA NextInv == Inv /\ [Next]_vars => Inv'
<1> SUFFICES ASSUME Inv, [Next]_vars PROVE Inv'
  OBVIOUS
<1> USE KernelAssumption, AsyncAssumption
<1>0. TypeOK /\ KernelTypeOK /\ AsyncTypeOK
      /\ Ownership /\ FreshHasNone /\ StepOrder
  BY DEF Inv, TypeOK
<1>1. ASSUME NEW f \in Target, New(f) PROVE Inv'
  <2> USE <1>0, <1>1 DEF New, slot, KernelTypeOK, AsyncTypeOK, Lives,
        PollSteps, DropSteps
  <2>1. TypeOK'
    BY DEF TypeOK
  <2>2. Ownership'
    BY DEF Ownership, StepOrder
  <2>3. FreshHasNone'
    BY DEF FreshHasNone, Ownership, StepOrder
  <2>4. StepOrder'
    BY DEF StepOrder, FreshHasNone, Ownership
  <2> QED BY <2>1, <2>2, <2>3, <2>4 DEF Inv
<1>2. ASSUME NEW f \in Target, Poll(f) PROVE Inv'
  <2> USE <1>0, <1>2 DEF Poll, kernelVars, Finishing, Sharing, slot,
        KernelTypeOK, AsyncTypeOK, Lives, PollSteps, DropSteps
  <2>1. TypeOK'
    BY DEF TypeOK
  <2>2. Ownership'
    BY DEF Ownership, StepOrder
  <2>3. FreshHasNone'
    BY DEF FreshHasNone, Ownership, StepOrder
  <2>4. StepOrder'
    BY DEF StepOrder, FreshHasNone, Ownership
  <2> QED BY <2>1, <2>2, <2>3, <2>4 DEF Inv
<1>3. ASSUME NEW f \in Target, Drop(f) PROVE Inv'
  <2> USE <1>0, <1>3 DEF Drop, kernelVars, FirstField, slot, KernelTypeOK,
        AsyncTypeOK, Lives, PollSteps, DropSteps
  <2>1. TypeOK'
    BY DEF TypeOK
  <2>2. Ownership'
    BY DEF Ownership, StepOrder
  <2>3. FreshHasNone'
    BY DEF FreshHasNone, Ownership, StepOrder
  <2>4. StepOrder'
    BY DEF StepOrder, FreshHasNone, Ownership
  <2> QED BY <2>1, <2>2, <2>3, <2>4 DEF Inv
<1>4. CASE AllowBuffer
  <2> USE <1>0, <1>4 DEF AllowBuffer, SetAllowed, Goto, slot, KernelTypeOK,
        AsyncTypeOK, Lives, PollSteps, DropSteps
  <2>1. TypeOK'
    BY DEF TypeOK
  <2>2. Ownership'
    BY DEF Ownership, StepOrder
  <2>3. FreshHasNone'
    BY DEF FreshHasNone, Ownership, StepOrder
  <2>4. StepOrder'
    BY DEF StepOrder, FreshHasNone, Ownership
  <2> QED BY <2>1, <2>2, <2>3, <2>4 DEF Inv
<1>5. CASE Register
  <2>1. cur \in Target /\ slot \in Slot /\ SetUpcall(slot, cur)
    BY <1>0, <1>5 DEF Register, AsyncTypeOK, slot
  <2>2. /\ upcall' \in [Slot -> Target \cup {Null}]
        /\ queue' \in Seq(Entry)
        /\ \A i \in 1..Len(queue') :
              upcall'[queue'[i].slot] = queue'[i].target
    BY <1>0, <2>1, SetUpcallAgrees DEF Ownership
  <2>3. upcall' = [upcall EXCEPT ![slot] = cur]
    BY <2>1 DEF SetUpcall
  <2>4. TypeOK'
    BY <1>0, <1>5, <2>2 DEF Register, TypeOK, KernelTypeOK, AsyncTypeOK,
       Lives, PollSteps, DropSteps, Goto
  <2>5. Ownership'
    BY <1>0, <1>5, <2>1, <2>2, <2>3 DEF Register, Ownership, StepOrder,
       KernelTypeOK, AsyncTypeOK, Lives, PollSteps, DropSteps, Goto, slot
  <2>6. FreshHasNone'
    BY <1>0, <1>5, <2>1, <2>3 DEF Register, Ownership, FreshHasNone,
       StepOrder, KernelTypeOK, AsyncTypeOK, Lives, PollSteps, DropSteps,
       Goto, slot
  <2>7. StepOrder'
    BY <1>0, <1>5, <2>1, <2>3 DEF Register, Ownership, StepOrder,
       KernelTypeOK, AsyncTypeOK, Lives, PollSteps, DropSteps, Goto, slot
  <2> QED BY <2>4, <2>5, <2>6, <2>7 DEF Inv
<1>6. CASE Start
  <2> USE <1>0, <1>6 DEF Start, DriverStart, Goto, slot, KernelTypeOK,
        AsyncTypeOK, Lives, PollSteps, DropSteps
  <2>1. TypeOK'
    BY DEF TypeOK
  <2>2. Ownership'
    BY DEF Ownership, StepOrder
  <2>3. FreshHasNone'
    BY DEF FreshHasNone, Ownership, StepOrder
  <2>4. StepOrder'
    BY DEF StepOrder, FreshHasNone, Ownership
  <2> QED BY <2>1, <2>2, <2>3, <2>4 DEF Inv
<1>7. CASE Fail
  <2> USE <1>0, <1>7 DEF Fail, Return, kernelVars, slot, KernelTypeOK,
        AsyncTypeOK, Lives, PollSteps, DropSteps
  <2>1. TypeOK'
    BY DEF TypeOK
  <2>2. Ownership'
    BY DEF Ownership, StepOrder
  <2>3. FreshHasNone'
    BY DEF FreshHasNone, Ownership, StepOrder
  <2>4. StepOrder'
    BY DEF StepOrder, FreshHasNone, Ownership
  <2> QED BY <2>1, <2>2, <2>3, <2>4 DEF Inv
<1>8. CASE Park
  <2> USE <1>0, <1>8 DEF Park, Goto, Return, Finishing, kernelVars, slot,
        KernelTypeOK, AsyncTypeOK, Lives, PollSteps, DropSteps
  <2>1. TypeOK'
    BY DEF TypeOK
  <2>2. Ownership'
    BY DEF Ownership, StepOrder
  <2>3. FreshHasNone'
    BY DEF FreshHasNone, Ownership, StepOrder
  <2>4. StepOrder'
    BY DEF StepOrder, FreshHasNone, Ownership
  <2> QED BY <2>1, <2>2, <2>3, <2>4 DEF Inv
<1>9. CASE Finish
  <2> USE <1>0, <1>9 DEF Finish, SetAllowed, Goto, slot, KernelTypeOK,
        AsyncTypeOK, Lives, PollSteps, DropSteps
  <2>1. TypeOK'
    BY DEF TypeOK
  <2>2. Ownership'
    BY DEF Ownership, StepOrder
  <2>3. FreshHasNone'
    BY DEF FreshHasNone, Ownership, StepOrder
  <2>4. StepOrder'
    BY DEF StepOrder, FreshHasNone, Ownership
  <2> QED BY <2>1, <2>2, <2>3, <2>4 DEF Inv
<1>10. CASE Complete
  <2> USE <1>0, <1>10 DEF Complete, Return, slot, KernelTypeOK, AsyncTypeOK,
        Lives, PollSteps, DropSteps
  <2>1. TypeOK'
    BY DEF TypeOK
  <2>2. Ownership'
    BY DEF Ownership, StepOrder
  <2>3. FreshHasNone'
    BY DEF FreshHasNone, Ownership, StepOrder
  <2>4. StepOrder'
    BY DEF StepOrder, FreshHasNone, Ownership
  <2> QED BY <2>1, <2>2, <2>3, <2>4 DEF Inv
<1>11. CASE Cancel
  <2>1. cur \in Target /\ slot \in Slot /\ DriverStop(slot) /\ upcall' = upcall
    BY <1>0, <1>11 DEF Cancel, AsyncTypeOK, slot
  <2>2. /\ queue' \in Seq(Entry)
        /\ \A i \in 1..Len(queue') :
              upcall'[queue'[i].slot] = queue'[i].target
    <3>1. CASE queue' = queue
      BY <1>0, <2>1, <3>1 DEF Ownership, KernelTypeOK
    <3>2. CASE outstanding[slot] # Null /\ queue' = Scheduled(slot,
       outstanding[slot])
      BY <1>0, <2>1, <3>2, ScheduledAgrees DEF Ownership
    <3> QED BY <2>1, <3>1, <3>2 DEF DriverStop
  <2>3. TypeOK'
    BY <1>0, <1>11, <2>1, <2>2 DEF Cancel, DriverStop, TypeOK, KernelTypeOK,
       AsyncTypeOK, Lives, PollSteps, DropSteps, Goto, FirstField
  <2>4. Ownership'
    BY <1>0, <1>11, <2>1, <2>2 DEF Cancel, Ownership, KernelTypeOK,
       AsyncTypeOK, Lives, PollSteps, DropSteps, Goto, slot
  <2>5. FreshHasNone'
    BY <1>0, <1>11, <2>1 DEF Cancel, FreshHasNone, KernelTypeOK, AsyncTypeOK,
       Lives, PollSteps, DropSteps, Goto
  <2>6. StepOrder'
    BY <1>0, <1>11, <2>1 DEF Cancel, Ownership, StepOrder, KernelTypeOK,
       AsyncTypeOK, Lives, PollSteps, DropSteps, Goto, FirstField, slot
  <2> QED BY <2>3, <2>4, <2>5, <2>6 DEF Inv
<1>12. CASE Unallow
  <2> USE <1>0, <1>12 DEF Unallow, SetAllowed, Goto, slot, KernelTypeOK,
        AsyncTypeOK, Lives, PollSteps, DropSteps
  <2>1. TypeOK'
    BY DEF TypeOK
  <2>2. Ownership'
    BY DEF Ownership, StepOrder
  <2>3. FreshHasNone'
    BY DEF FreshHasNone, Ownership, StepOrder
  <2>4. StepOrder'
    BY DEF StepOrder, FreshHasNone, Ownership
  <2> QED BY <2>1, <2>2, <2>3, <2>4 DEF Inv
<1>13. CASE Unsubscribe
  <2>1. cur \in Target /\ slot \in Slot /\ SetUpcall(slot, Null)
    BY <1>0, <1>13 DEF Unsubscribe, AsyncTypeOK, slot
  <2>2. /\ upcall' \in [Slot -> Target \cup {Null}]
        /\ queue' \in Seq(Entry)
        /\ \A i \in 1..Len(queue') :
              upcall'[queue'[i].slot] = queue'[i].target
    BY <1>0, <2>1, SetUpcallAgrees DEF Ownership
  <2>3. upcall' = [upcall EXCEPT ![slot] = Null]
    BY <2>1 DEF SetUpcall
  <2>4. TypeOK'
    BY <1>0, <1>13, <2>2 DEF Unsubscribe, TypeOK, KernelTypeOK, AsyncTypeOK,
       Lives, PollSteps, DropSteps, Goto
  <2>5. Ownership'
    BY <1>0, <1>13, <2>1, <2>2, <2>3 DEF Unsubscribe, Ownership, StepOrder,
       KernelTypeOK, AsyncTypeOK, Lives, PollSteps, DropSteps, Goto, slot
  <2>6. FreshHasNone'
    BY <1>0, <1>13, <2>1, <2>3 DEF Unsubscribe, Ownership, FreshHasNone,
       StepOrder, KernelTypeOK, AsyncTypeOK, Lives, PollSteps, DropSteps,
       Goto, slot
  <2>7. StepOrder'
    BY <1>0, <1>13, <2>1, <2>3 DEF Unsubscribe, Ownership, StepOrder,
       KernelTypeOK, AsyncTypeOK, Lives, PollSteps, DropSteps, Goto, slot
  <2> QED BY <2>4, <2>5, <2>6, <2>7 DEF Inv
<1>14. CASE Release
  <2> USE <1>0, <1>14 DEF Release, Return, kernelVars, slot, KernelTypeOK,
        AsyncTypeOK, Lives, PollSteps, DropSteps
  <2>1. TypeOK'
    BY DEF TypeOK
  <2>2. Ownership'
    BY DEF Ownership, StepOrder
  <2>3. FreshHasNone'
    BY DEF FreshHasNone, Ownership, StepOrder
  <2>4. StepOrder'
    BY DEF StepOrder, FreshHasNone, Ownership
  <2> QED BY <2>1, <2>2, <2>3, <2>4 DEF Inv
<1>15. CASE Yield
  <2> DEFINE e == Head(queue)
  <2>1. queue \in Seq(Entry) /\ queue # << >>
    BY <1>0, <1>15 DEF Yield, KernelTypeOK
  <2>2. /\ queue' \in Seq(Entry)
        /\ e = queue[1] /\ e \in Entry
        /\ \A i \in 1..Len(queue') :
              i + 1 \in 1..Len(queue) /\ queue'[i] = queue[i + 1]
    BY <2>1, <1>15, HeadTailProperties DEF Yield
  <2>3. e.target \in Target /\ e.op \in Target /\ e.slot \in Slot
    BY <2>2 DEF Entry
  <2>4. upcall[e.slot] = e.target
    BY <1>0, <2>1, <2>2 DEF Ownership
  <2>5. /\ args' = [args EXCEPT ![e.target] = e.op]
        /\ wake' = [wake EXCEPT ![e.target] =
                      IF @ = "stored" THEN "woken" ELSE @]
        /\ step = "idle"
        /\ UNCHANGED <<upcall, allowed, outstanding, bytes, life, step, cur>>
    BY <1>15 DEF Yield
  <2> HIDE DEF e
  <2>6. TypeOK'
    BY <1>0, <2>2, <2>3, <2>5 DEF TypeOK, KernelTypeOK, AsyncTypeOK, Lives,
       PollSteps, DropSteps
  <2>7. Ownership'
    BY <1>0, <2>2, <2>5 DEF Ownership
  <2>8. FreshHasNone'
    BY <1>0, <2>3, <2>4, <2>5 DEF FreshHasNone, KernelTypeOK, AsyncTypeOK,
       Lives, PollSteps, DropSteps
  <2>9. StepOrder'
    BY <1>0, <2>5 DEF StepOrder, slot
  <2> QED BY <2>6, <2>7, <2>8, <2>9 DEF Inv
<1>16. ASSUME NEW s \in Slot, Driver(s) PROVE Inv'
  <2>1. /\ DriverAnswer(s) /\ outstanding[s] # Null /\ UNCHANGED asyncVars
        /\ queue' = Scheduled(s, outstanding[s])
        /\ upcall' = upcall /\ allowed' = allowed
    BY <1>16 DEF Driver, DriverAnswer
  <2>2. /\ queue' \in Seq(Entry)
        /\ \A i \in 1..Len(queue') :
              upcall'[queue'[i].slot] = queue'[i].target
    BY <1>0, <2>1, ScheduledAgrees DEF Ownership
  <2>3. TypeOK'
    BY <1>0, <2>1, <2>2 DEF DriverAnswer, TypeOK, KernelTypeOK, AsyncTypeOK,
       asyncVars
  <2>4. Ownership'
    BY <1>0, <2>1, <2>2 DEF Ownership, asyncVars
  <2>5. FreshHasNone' /\ StepOrder'
    BY <1>0, <2>1 DEF FreshHasNone, StepOrder, asyncVars, slot
  <2> QED BY <2>3, <2>4, <2>5 DEF Inv
<1>17. CASE UNCHANGED vars
  BY <1>0, <1>17 DEF Inv, TypeOK, Ownership, FreshHasNone, StepOrder,
     KernelTypeOK, AsyncTypeOK, vars, kernelVars, asyncVars, slot
<1> QED
  BY <1>1, <1>2, <1>3, <1>4, <1>5, <1>6, <1>7, <1>8, <1>9, <1>10, <1>11,
     <1>12, <1>13, <1>14, <1>15, <1>16, <1>17 DEF Next, InPoll, InDrop

(* What the invariant says of the kernel's references to futures.          *)
LEMMA InvSafe == Inv => NoDanglingUpcall /\ NoDanglingBuffer /\ BufferExclusive
<1> SUFFICES ASSUME Inv PROVE NoDanglingUpcall /\ NoDanglingBuffer /\
   BufferExclusive
  OBVIOUS
<1> USE KernelAssumption, AsyncAssumption
<1>0. KernelTypeOK /\ AsyncTypeOK /\ Ownership /\ StepOrder
  BY DEF Inv, TypeOK
<1>1. NoDanglingUpcall
  <2>1. ASSUME NEW i \in 1..Len(queue) PROVE life[queue[i].target] # "free"
    <3>1. queue[i] \in Entry
      BY <1>0 DEF KernelTypeOK
    <3>2. queue[i].slot \in Slot /\ queue[i].target # Null
      BY <3>1 DEF Entry
    <3> QED BY <1>0, <3>2 DEF Ownership
  <2> QED BY <1>0, <2>1 DEF NoDanglingUpcall, Ownership
<1>2. NoDanglingBuffer
  BY <1>0 DEF NoDanglingBuffer, Ownership
<1>3. BufferExclusive
  BY <1>0 DEF BufferExclusive, Ownership, StepOrder, KernelTypeOK, slot
<1> QED BY <1>1, <1>2, <1>3

(* The inductive invariant holds in every reachable state.                 *)
THEOREM Invariance == Spec => []Inv
<1> QED BY InitInv, NextInv, PTL DEF Spec

(* The tables and the process state have the types they are declared with, *)
(* and a poll or drop in progress is of a live future.                     *)
THEOREM TypeCorrect == Spec => []TypeOK
<1>1. Inv => TypeOK
  BY DEF Inv
<1> QED BY <1>1, Invariance, PTL

(* No registered or queued upcall ever points into a future that is gone,  *)
(* whatever the application does with its futures.                         *)
THEOREM UpcallsNeverDangle == Spec => []NoDanglingUpcall
<1> QED BY InvSafe, Invariance, PTL

(* No driver ever holds the buffer of a future that is gone.               *)
THEOREM BuffersNeverDangle == Spec => []NoDanglingBuffer
<1> QED BY InvSafe, Invariance, PTL

(* No driver holds a buffer that the process reads or has been given back. *)
THEOREM BuffersAreExclusive == Spec => []BufferExclusive
<1> QED BY InvSafe, Invariance, PTL

-----------------------------------------------------------------------------
(***************************************************************************)
(* One future at a time in every slot.  Inv says what the kernel refers    *)
(* to; this says, of such a slot, that what it does is for the future that *)
(* is there now.                                                           *)
(***************************************************************************)

(* An operation is served for its own future, which is registered, has no  *)
(* arguments yet, and has not passed the point where it cancels.           *)
OwnOperation ==
    \A s \in Slot : outstanding[s] # Null =>
        /\ SlotOf[outstanding[s]] = s
        /\ s \notin EventSlot =>
              /\ life[outstanding[s]] = "started"
              /\ args[outstanding[s]] = Null
              /\ ~(cur = outstanding[s]
                     /\ step \in {"unallow", "unsubscribe", "release"})

(* A queued answer is to the target's own operation, which is over, and    *)
(* the target has not heard it yet.                                        *)
OwnQueue ==
    \A e \in Waiting :
        /\ SlotOf[e.op] = e.slot
        /\ e.slot \notin EventSlot =>
              /\ e.op = e.target
              /\ outstanding[e.slot] = Null
              /\ life[e.op] = "started"
              /\ args[e.op] = Null

(* The events of a started future stay on until it completes or cancels.   *)
EventsOn ==
    \A f \in Target :
        life[f] = "started" /\ SlotOf[f] \in EventSlot /\ ~Dropping(f)
            => outstanding[SlotOf[f]] = f

(* A started future is registered until its drop unsubscribes it, and one  *)
(* about to start finds no old answer waiting.                             *)
Registered ==
    /\ \A f \in Target :
          life[f] = "started" /\ ~(cur = f /\ step = "release")
              => upcall[SlotOf[f]] = f
    /\ step = "start" =>
          /\ upcall[slot] = cur
          /\ slot \notin EventSlot =>
                \A e \in Waiting : e.slot # slot

(* Its buffer is lent until finish or the drop takes it back.              *)
Lent ==
    /\ \A f \in Target :
          /\ life[f] = "started"
          /\ SlotOf[f] \in Buffered
          /\ ~(cur = f /\ step \in {"complete", "unsubscribe", "release"})
          => allowed[SlotOf[f]] = f
    /\ step \in {"subscribe", "start"} /\ slot \in Buffered
          => allowed[slot] = cur

AnswerWaits(f) == \E e \in Waiting : e.target = f /\ e.op = f

(* Until it is dropped, a started future without arguments is served or    *)
(* answered, and one that is answered has its bytes.                       *)
Served ==
    \A f \in Target :
        life[f] = "started" /\ args[f] = Null /\ ~Dropping(f)
            => outstanding[SlotOf[f]] = f \/ AnswerWaits(f)

OwnBytes ==
    \A f \in Target :
        /\ life[f] = "started"
        /\ ~Dropping(f)
        /\ SlotOf[f] \in Buffered \ EventSlot
        /\ args[f] # Null \/ AnswerWaits(f)
        => bytes[f] = f

HasArgs == step \in {"finish", "complete"} => args[cur] # Null

(* The core of it, which says nothing of what a started future can expect, *)
(* is inductive alone: programs that use the driver in other ways as well  *)
(* keep it too.                                                            *)
Core ==
    /\ OwnOperation /\ OwnQueue /\ Registered
    /\ HasArgs /\ CompletionIsOwn /\ OneAnswer

Own == Exclusive /\ Core /\ Lent /\ Served /\ OwnBytes /\ EventsOn

IInv == Inv /\ Own
-----------------------------------------------------------------------------
(* What waits is for the future that is registered.                        *)
LEMMA WaitingOwned ==
  ASSUME KernelTypeOK, Ownership
  PROVE  \A e \in Waiting : upcall[e.slot] = e.target
BY DEF Waiting, Ownership

(* The property's wording of an answer that waits, and the proofs'.        *)
LEMMA AnsweredWaits ==
  ASSUME NEW f
  PROVE  Answered(f) <=> AnswerWaits(f)
BY DEF Answered, AnswerWaits, Waiting

-----------------------------------------------------------------------------
(* Every step that keeps slots to one future each preserves the core.      *)
LEMMA NextCore ==
  ASSUME Inv, Core, Exclusive, Next, Exclusive'
  PROVE  Core'
<1> USE KernelAssumption, AsyncAssumption
<1>0. /\ KernelTypeOK /\ AsyncTypeOK /\ Ownership /\ FreshHasNone /\ StepOrder
      /\ Exclusive /\ OwnOperation /\ OwnQueue /\ Registered
      /\ HasArgs /\ CompletionIsOwn /\ OneAnswer /\ Exclusive'
  BY DEF Inv, TypeOK, Core
<1>W. \A e \in Waiting :
         /\ e \in Entry /\ e.slot \in Slot /\ e.target \in Target /\ e.op \in Target
         /\ upcall[e.slot] = e.target
  BY <1>0, WaitingTyped, WaitingOwned DEF Entry
<1>S. queue' = queue => Waiting' = Waiting
  BY DEF Waiting
<1>1. ASSUME NEW f \in Target, New(f) PROVE Core'
  <2>1. queue' = queue
    BY <1>1 DEF New
  <2>2. Waiting' = Waiting
    BY <1>S, <2>1
  <2> USE <1>0, <1>W, <1>1, <2>2 DEF New, slot, KernelTypeOK, AsyncTypeOK,
        Lives, PollSteps, DropSteps
  <2>3. OwnOperation'
    BY DEF OwnOperation, HasArgs, StepOrder, Exclusive, Ownership
  <2>4. OwnQueue'
    BY DEF OwnQueue, OwnOperation, Registered
  <2>5. Registered'
    BY DEF Registered, OwnOperation, StepOrder, Exclusive, Ownership
  <2>6. HasArgs'
    BY DEF HasArgs
  <2>7. CompletionIsOwn'
    BY DEF CompletionIsOwn, OwnQueue
  <2>8. OneAnswer'
    BY <2>1 DEF OneAnswer
  <2> QED BY <2>3, <2>4, <2>5, <2>6, <2>7, <2>8 DEF Core
<1>2. ASSUME NEW f \in Target, Poll(f) PROVE Core'
  <2>1. queue' = queue
    BY <1>2 DEF Poll, kernelVars
  <2>2. Waiting' = Waiting
    BY <1>S, <2>1
  <2> USE <1>0, <1>W, <1>2, <2>2 DEF Poll, kernelVars, Finishing, Sharing,
        slot, KernelTypeOK, AsyncTypeOK, Lives, PollSteps, DropSteps
  <2>3. OwnOperation'
    BY DEF OwnOperation, HasArgs, StepOrder, Exclusive, Ownership
  <2>4. OwnQueue'
    BY DEF OwnQueue, OwnOperation, Registered
  <2>5. Registered'
    BY DEF Registered, OwnOperation, StepOrder, Exclusive, Ownership
  <2>6. HasArgs'
    BY DEF HasArgs
  <2>7. CompletionIsOwn'
    BY DEF CompletionIsOwn, OwnQueue
  <2>8. OneAnswer'
    BY <2>1 DEF OneAnswer
  <2> QED BY <2>3, <2>4, <2>5, <2>6, <2>7, <2>8 DEF Core
<1>3. ASSUME NEW f \in Target, Drop(f) PROVE Core'
  <2>1. queue' = queue
    BY <1>3 DEF Drop, kernelVars
  <2>2. Waiting' = Waiting
    BY <1>S, <2>1
  <2> USE <1>0, <1>W, <1>3, <2>2 DEF Drop, kernelVars, Outstanding,
        FirstField, slot, KernelTypeOK, AsyncTypeOK, Lives, PollSteps,
        DropSteps
  <2>3. OwnOperation'
    BY DEF OwnOperation, HasArgs, StepOrder, Exclusive, Ownership
  <2>4. OwnQueue'
    BY DEF OwnQueue, OwnOperation, Registered
  <2>5. Registered'
    BY DEF Registered, OwnOperation, StepOrder, Exclusive, Ownership
  <2>6. HasArgs'
    BY DEF HasArgs
  <2>7. CompletionIsOwn'
    BY DEF CompletionIsOwn, OwnQueue
  <2>8. OneAnswer'
    BY <2>1 DEF OneAnswer
  <2> QED BY <2>3, <2>4, <2>5, <2>6, <2>7, <2>8 DEF Core
<1>4. CASE AllowBuffer
  <2>1. queue' = queue
    BY <1>4 DEF AllowBuffer
  <2>2. Waiting' = Waiting
    BY <1>S, <2>1
  <2> USE <1>0, <1>W, <1>4, <2>2 DEF AllowBuffer, SetAllowed, Goto, slot,
        KernelTypeOK, AsyncTypeOK, Lives, PollSteps, DropSteps
  <2>3. OwnOperation'
    BY DEF OwnOperation, HasArgs, StepOrder, Exclusive, Ownership
  <2>4. OwnQueue'
    BY DEF OwnQueue, OwnOperation, Registered
  <2>5. Registered'
    BY DEF Registered, OwnOperation, StepOrder, Exclusive, Ownership
  <2>6. HasArgs'
    BY DEF HasArgs
  <2>7. CompletionIsOwn'
    BY DEF CompletionIsOwn, OwnQueue
  <2>8. OneAnswer'
    BY <2>1 DEF OneAnswer
  <2> QED BY <2>3, <2>4, <2>5, <2>6, <2>7, <2>8 DEF Core
<1>5. CASE Register
  <2>1. cur \in Target /\ slot \in Slot /\ SetUpcall(slot, cur)
    BY <1>0, <1>5 DEF Register, AsyncTypeOK, slot
  <2>2. Waiting' = {e \in Waiting : e.slot # slot}
    BY <1>0, <2>1, SubscribeWaiting
  <2>3. upcall' = [upcall EXCEPT ![slot] = cur]
    BY <2>1 DEF SetUpcall
  <2> USE <1>0, <1>W, <1>5, <2>1, <2>2, <2>3 DEF Register, Goto, slot,
        KernelTypeOK, AsyncTypeOK, Lives, PollSteps, DropSteps
  <2>4. OwnOperation'
    BY DEF OwnOperation, HasArgs, StepOrder, Exclusive, Ownership
  <2>5. OwnQueue'
    BY DEF OwnQueue, OwnOperation, Registered, Ownership, StepOrder, Exclusive
  <2>6. Registered'
    BY DEF Registered, OwnQueue, OwnOperation, StepOrder, Exclusive, Ownership
  <2>7. HasArgs'
    BY DEF HasArgs
  <2>8. CompletionIsOwn'
    BY DEF CompletionIsOwn, OwnQueue
  <2>9. OneAnswer'
    BY <1>0, <2>1, SubscribeOne
  <2> QED BY <2>4, <2>5, <2>6, <2>7, <2>8, <2>9 DEF Core
<1>6. CASE Start
  <2>1. queue' = queue
    BY <1>6 DEF Start
  <2>2. Waiting' = Waiting
    BY <1>S, <2>1
  <2> USE <1>0, <1>W, <1>6, <2>2 DEF Start, DriverStart, Goto, slot,
        KernelTypeOK, AsyncTypeOK, Lives, PollSteps, DropSteps
  <2>3. OwnOperation'
    BY DEF OwnOperation, StepOrder, FreshHasNone, Exclusive
  <2>4. OwnQueue'
    BY DEF OwnQueue, OwnOperation, Registered
  <2>5. Registered'
    BY DEF Registered, OwnOperation, StepOrder, Exclusive, Ownership
  <2>6. HasArgs'
    BY DEF HasArgs
  <2>7. CompletionIsOwn'
    BY DEF CompletionIsOwn, OwnQueue
  <2>8. OneAnswer'
    BY <2>1 DEF OneAnswer
  <2> QED BY <2>3, <2>4, <2>5, <2>6, <2>7, <2>8 DEF Core
<1>7. CASE Fail
  <2>1. queue' = queue
    BY <1>7 DEF Fail, kernelVars
  <2>2. Waiting' = Waiting
    BY <1>S, <2>1
  <2> USE <1>0, <1>W, <1>7, <2>2 DEF Fail, Return, kernelVars, slot,
        KernelTypeOK, AsyncTypeOK, Lives, PollSteps, DropSteps
  <2>3. OwnOperation'
    BY DEF OwnOperation, HasArgs, StepOrder, Exclusive, Ownership
  <2>4. OwnQueue'
    BY DEF OwnQueue, StepOrder
  <2>5. Registered'
    BY DEF Registered, OwnOperation, StepOrder, Exclusive, Ownership
  <2>6. HasArgs'
    BY DEF HasArgs
  <2>7. CompletionIsOwn'
    BY DEF CompletionIsOwn, OwnQueue
  <2>8. OneAnswer'
    BY <2>1 DEF OneAnswer
  <2> QED BY <2>3, <2>4, <2>5, <2>6, <2>7, <2>8 DEF Core
<1>8. CASE Park
  <2>1. queue' = queue
    BY <1>8 DEF Park, kernelVars
  <2>2. Waiting' = Waiting
    BY <1>S, <2>1
  <2> USE <1>0, <1>W, <1>8, <2>2 DEF Park, Goto, Return, Finishing,
        kernelVars, slot, KernelTypeOK, AsyncTypeOK, Lives, PollSteps,
        DropSteps
  <2>3. OwnOperation'
    BY DEF OwnOperation, HasArgs, StepOrder, Exclusive, Ownership
  <2>4. OwnQueue'
    BY DEF OwnQueue, OwnOperation, Registered
  <2>5. Registered'
    BY DEF Registered, OwnOperation, StepOrder, Exclusive, Ownership
  <2>6. HasArgs'
    BY DEF HasArgs
  <2>7. CompletionIsOwn'
    BY DEF CompletionIsOwn, OwnQueue
  <2>8. OneAnswer'
    BY <2>1 DEF OneAnswer
  <2> QED BY <2>3, <2>4, <2>5, <2>6, <2>7, <2>8 DEF Core
<1>9. CASE Finish
  <2>1. queue' = queue
    BY <1>9 DEF Finish
  <2>2. Waiting' = Waiting
    BY <1>S, <2>1
  <2> USE <1>0, <1>W, <1>9, <2>2 DEF Finish, SetAllowed, Goto, slot,
        KernelTypeOK, AsyncTypeOK, Lives, PollSteps, DropSteps
  <2>3. OwnOperation'
    BY DEF OwnOperation, HasArgs, StepOrder, Exclusive, Ownership
  <2>4. OwnQueue'
    BY DEF OwnQueue, OwnOperation, Registered
  <2>5. Registered'
    BY DEF Registered, OwnOperation, StepOrder, Exclusive, Ownership
  <2>6. HasArgs'
    BY DEF HasArgs
  <2>7. CompletionIsOwn'
    BY DEF CompletionIsOwn, OwnQueue
  <2>8. OneAnswer'
    BY <2>1 DEF OneAnswer
  <2> QED BY <2>3, <2>4, <2>5, <2>6, <2>7, <2>8 DEF Core
<1>10. CASE Complete
  <2>1. queue' = queue
    BY <1>10 DEF Complete
  <2>2. Waiting' = Waiting
    BY <1>S, <2>1
  <2> USE <1>0, <1>W, <1>10, <2>2 DEF Complete, Return, slot, KernelTypeOK,
        AsyncTypeOK, Lives, PollSteps, DropSteps
  <2>3. OwnOperation'
    BY DEF OwnOperation, HasArgs, StepOrder, Exclusive, Ownership
  <2>4. OwnQueue'
    BY DEF OwnQueue, HasArgs
  <2>5. Registered'
    BY DEF Registered, OwnOperation, StepOrder, Exclusive, Ownership
  <2>6. HasArgs'
    BY DEF HasArgs
  <2>7. CompletionIsOwn'
    BY DEF CompletionIsOwn, OwnQueue
  <2>8. OneAnswer'
    BY <2>1 DEF OneAnswer
  <2> QED BY <2>3, <2>4, <2>5, <2>6, <2>7, <2>8 DEF Core
<1>11. CASE Cancel
  <2>1. cur \in Target /\ slot \in Slot /\ DriverStop(slot)
    BY <1>0, <1>11 DEF Cancel, AsyncTypeOK, slot
  <2>2. \/ Waiting' = Waiting
        \/ /\ outstanding[slot] # Null /\ slot \notin EventSlot
           /\ Waiting' = Waiting \cup {[slot |-> slot, target |-> upcall[slot],
                                        op |-> outstanding[slot]]}
    BY <1>0, <1>S, <2>1, ScheduleWaiting DEF DriverStop
  <2>3. outstanding' = [outstanding EXCEPT ![slot] = Null]
    BY <2>1 DEF DriverStop
  <2> USE <1>0, <1>W, <1>11, <2>1, <2>2, <2>3 DEF Cancel, Goto, FirstField,
        slot, KernelTypeOK, AsyncTypeOK, Lives, PollSteps, DropSteps
  <2>4. OwnOperation'
    BY DEF OwnOperation, HasArgs, StepOrder, Exclusive, Ownership
  <2>5. OwnQueue'
    BY DEF OwnQueue, OwnOperation, Registered, Ownership, StepOrder, Exclusive
  <2>6. Registered'
    BY DEF Registered, OwnQueue, OwnOperation, StepOrder, Exclusive, Ownership
  <2>7. HasArgs'
    BY DEF HasArgs
  <2>8. CompletionIsOwn'
    BY DEF CompletionIsOwn, OwnQueue
  <2>9. OneAnswer'
    <3>1. outstanding[slot] # Null /\ slot \notin EventSlot
            => \A e \in Waiting : e.slot # slot
      BY DEF OwnQueue
    <3> QED BY <2>1, <3>1, ScheduleOne DEF DriverStop, OneAnswer
  <2> QED BY <2>4, <2>5, <2>6, <2>7, <2>8, <2>9 DEF Core
<1>12. CASE Unallow
  <2>1. queue' = queue
    BY <1>12 DEF Unallow
  <2>2. Waiting' = Waiting
    BY <1>S, <2>1
  <2> USE <1>0, <1>W, <1>12, <2>2 DEF Unallow, SetAllowed, Goto, slot,
        KernelTypeOK, AsyncTypeOK, Lives, PollSteps, DropSteps
  <2>3. OwnOperation'
    BY DEF OwnOperation, HasArgs, StepOrder, Exclusive, Ownership
  <2>4. OwnQueue'
    BY DEF OwnQueue, OwnOperation, Registered
  <2>5. Registered'
    BY DEF Registered, OwnOperation, StepOrder, Exclusive, Ownership
  <2>6. HasArgs'
    BY DEF HasArgs
  <2>7. CompletionIsOwn'
    BY DEF CompletionIsOwn, OwnQueue
  <2>8. OneAnswer'
    BY <2>1 DEF OneAnswer
  <2> QED BY <2>3, <2>4, <2>5, <2>6, <2>7, <2>8 DEF Core
<1>13. CASE Unsubscribe
  <2>1. cur \in Target /\ slot \in Slot /\ SetUpcall(slot, Null)
    BY <1>0, <1>13 DEF Unsubscribe, AsyncTypeOK, slot
  <2>2. Waiting' = {e \in Waiting : e.slot # slot}
    BY <1>0, <2>1, SubscribeWaiting
  <2>3. upcall' = [upcall EXCEPT ![slot] = Null]
    BY <2>1 DEF SetUpcall
  <2> USE <1>0, <1>W, <1>13, <2>1, <2>2, <2>3 DEF Unsubscribe, Goto, slot,
        KernelTypeOK, AsyncTypeOK, Lives, PollSteps, DropSteps
  <2>4. OwnOperation'
    BY DEF OwnOperation, HasArgs, StepOrder, Exclusive, Ownership
  <2>5. OwnQueue'
    BY DEF OwnQueue, OwnOperation, Registered, Ownership, StepOrder, Exclusive
  <2>6. Registered'
    BY DEF Registered, OwnQueue, OwnOperation, StepOrder, Exclusive, Ownership
  <2>7. HasArgs'
    BY DEF HasArgs
  <2>8. CompletionIsOwn'
    BY DEF CompletionIsOwn, OwnQueue
  <2>9. OneAnswer'
    BY <1>0, <2>1, SubscribeOne
  <2> QED BY <2>4, <2>5, <2>6, <2>7, <2>8, <2>9 DEF Core
<1>14. CASE Release
  <2>1. queue' = queue
    BY <1>14 DEF Release, kernelVars
  <2>2. Waiting' = Waiting
    BY <1>S, <2>1
  <2> USE <1>0, <1>W, <1>14, <2>2 DEF Release, Return, kernelVars, slot,
        KernelTypeOK, AsyncTypeOK, Lives, PollSteps, DropSteps
  <2>3. OwnOperation'
    BY DEF OwnOperation, HasArgs, StepOrder, Exclusive, Ownership
  <2>4. OwnQueue'
    BY DEF OwnQueue, StepOrder
  <2>5. Registered'
    BY DEF Registered, OwnOperation, StepOrder, Exclusive, Ownership
  <2>6. HasArgs'
    BY DEF HasArgs
  <2>7. CompletionIsOwn'
    BY DEF CompletionIsOwn, OwnQueue
  <2>8. OneAnswer'
    BY <2>1 DEF OneAnswer
  <2> QED BY <2>3, <2>4, <2>5, <2>6, <2>7, <2>8 DEF Core
<1>15. CASE Yield
  <2> DEFINE e == Head(queue)
  <2>1. /\ e \in Waiting
        /\ Waiting' \subseteq Waiting
        /\ Waiting \subseteq Waiting' \cup {e}
    BY <1>0, <1>15, TailWaiting DEF Yield
  <2>2. /\ args' = [args EXCEPT ![e.target] = e.op]
        /\ step = "idle"
        /\ UNCHANGED <<upcall, allowed, outstanding, bytes, life, step, cur>>
    BY <1>15 DEF Yield
  <2> HIDE DEF e
  <2>3. SlotOf[e.target] = e.slot
    BY <1>0, <1>W, <2>1 DEF Ownership
  <2>4. /\ OneAnswer'
        /\ e.slot \notin EventSlot => \A d \in Waiting' : d.slot # e.slot
    BY <1>0, <1>15, TailOne DEF e, Yield
  <2> USE <1>0, <1>W, <2>1, <2>2, <2>3, <2>4 DEF slot, KernelTypeOK,
        AsyncTypeOK, Lives, PollSteps, DropSteps
  <2>5. OwnOperation'
    BY DEF OwnOperation, OwnQueue
  <2>6. OwnQueue'
    BY DEF OwnQueue, Ownership
  <2>7. Registered'
    BY DEF Registered, OwnQueue, OwnOperation, StepOrder, Exclusive, Ownership
  <2>8. HasArgs'
    BY DEF HasArgs
  <2>9. CompletionIsOwn'
    BY DEF CompletionIsOwn, OwnQueue
  <2> QED BY <2>4, <2>5, <2>6, <2>7, <2>8, <2>9 DEF Core
<1>16. ASSUME NEW s \in Slot, Driver(s) PROVE Core'
  <2>1. /\ outstanding[s] # Null /\ queue' = Scheduled(s, outstanding[s])
        /\ bytes' = IF allowed[s] = Null THEN bytes
                    ELSE [bytes EXCEPT ![allowed[s]] = outstanding[s]]
        /\ outstanding' = IF s \in EventSlot THEN outstanding
                          ELSE [outstanding EXCEPT ![s] = Null]
        /\ UNCHANGED <<upcall, allowed, life, args, step, cur>>
    BY <1>16 DEF Driver, DriverAnswer, asyncVars
  <2>2. Waiting' = IF upcall[s] = Null THEN Waiting
                   ELSE Waiting \cup {[slot |-> s, target |-> upcall[s],
                                       op |-> outstanding[s]]}
    BY <1>0, <2>1, ScheduleWaiting
  <2> USE <1>0, <1>W, <2>1, <2>2 DEF slot, KernelTypeOK, AsyncTypeOK,
        Lives, PollSteps, DropSteps
  <2>3. OwnOperation'
    BY DEF OwnOperation, HasArgs, StepOrder, Exclusive, Ownership
  <2>4. OwnQueue'
    BY DEF OwnQueue, OwnOperation, Registered, Ownership, StepOrder, Exclusive
  <2>5. Registered'
    BY DEF Registered, OwnQueue, OwnOperation, StepOrder, Exclusive, Ownership
  <2>6. HasArgs'
    BY DEF HasArgs
  <2>7. CompletionIsOwn'
    BY DEF CompletionIsOwn, OwnQueue
  <2>8. OneAnswer'
    BY <1>0, <2>1, ScheduleOne DEF OwnQueue
  <2> QED BY <2>3, <2>4, <2>5, <2>6, <2>7, <2>8 DEF Core
<1> QED
  BY <1>1, <1>2, <1>3, <1>4, <1>5, <1>6, <1>7, <1>8, <1>9, <1>10, <1>11,
     <1>12, <1>13, <1>14, <1>15, <1>16 DEF Next, InPoll, InDrop

(* Every such step also preserves what a started future can expect.        *)
LEMMA NextOwn == IInv /\ [Next /\ Exclusive']_vars => Own'
<1> SUFFICES ASSUME Inv, Own, Next, Exclusive' PROVE Own'
  <2>1. CASE UNCHANGED vars
    BY <2>1 DEF IInv, Own, Core, OwnOperation, OwnQueue, Registered, Lent, Served,
       OwnBytes, HasArgs, CompletionIsOwn, Exclusive, AnswerWaits, Waiting,
       OneAnswer, EventsOn, Dropping, slot, vars, kernelVars, asyncVars
  <2> QED BY <2>1 DEF IInv
<1> USE KernelAssumption, AsyncAssumption
<1>0. /\ KernelTypeOK /\ AsyncTypeOK /\ Ownership /\ FreshHasNone /\ StepOrder
      /\ Exclusive /\ OwnOperation /\ OwnQueue /\ Registered /\ Lent
      /\ Served /\ OwnBytes /\ HasArgs /\ CompletionIsOwn
      /\ OneAnswer /\ EventsOn /\ Exclusive'
  BY DEF Inv, TypeOK, Own, Core
<1>C. Core'
  BY NextCore DEF Own
<1>W. \A e \in Waiting :
         /\ e \in Entry /\ e.slot \in Slot /\ e.target \in Target /\ e.op \in Target
         /\ upcall[e.slot] = e.target
  BY <1>0, WaitingTyped, WaitingOwned DEF Entry
<1>S. queue' = queue => Waiting' = Waiting
  BY DEF Waiting
<1>1. ASSUME NEW f \in Target, New(f) PROVE Own'
  <2>1. queue' = queue
    BY <1>1 DEF New
  <2>2. Waiting' = Waiting
    BY <1>S, <2>1
  <2> USE <1>0, <1>W, <1>1, <2>2 DEF New, slot, KernelTypeOK, AsyncTypeOK,
        Lives, PollSteps, DropSteps
  <2>3. Lent'
    BY DEF Lent, StepOrder, Exclusive, Ownership
  <2>4. Served'
    BY DEF Served, AnswerWaits, Dropping, Registered, StepOrder, Exclusive
  <2>5. OwnBytes'
    BY DEF OwnBytes, AnswerWaits, Dropping, OwnQueue, OwnOperation,
       Registered, StepOrder, Lent, Ownership, FreshHasNone, Exclusive
  <2>6. EventsOn'
    BY DEF EventsOn, Dropping, StepOrder, Exclusive, Registered, OwnOperation
  <2> QED BY <1>0, <1>C, <2>3, <2>4, <2>5, <2>6 DEF Own
<1>2. ASSUME NEW f \in Target, Poll(f) PROVE Own'
  <2>1. queue' = queue
    BY <1>2 DEF Poll, kernelVars
  <2>2. Waiting' = Waiting
    BY <1>S, <2>1
  <2> USE <1>0, <1>W, <1>2, <2>2 DEF Poll, kernelVars, Finishing, Sharing,
        slot, KernelTypeOK, AsyncTypeOK, Lives, PollSteps, DropSteps
  <2>3. Lent'
    BY DEF Lent, StepOrder, Exclusive, Ownership
  <2>4. Served'
    BY DEF Served, AnswerWaits, Dropping, Registered, StepOrder, Exclusive
  <2>5. OwnBytes'
    BY DEF OwnBytes, AnswerWaits, Dropping, OwnQueue, OwnOperation,
       Registered, StepOrder, Lent, Ownership, FreshHasNone, Exclusive
  <2>6. EventsOn'
    BY DEF EventsOn, Dropping, StepOrder, Exclusive, Registered, OwnOperation
  <2> QED BY <1>0, <1>C, <2>3, <2>4, <2>5, <2>6 DEF Own
<1>3. ASSUME NEW f \in Target, Drop(f) PROVE Own'
  <2>1. queue' = queue
    BY <1>3 DEF Drop, kernelVars
  <2>2. Waiting' = Waiting
    BY <1>S, <2>1
  <2> USE <1>0, <1>W, <1>3, <2>2 DEF Drop, kernelVars, Outstanding,
        FirstField, slot, KernelTypeOK, AsyncTypeOK, Lives, PollSteps,
        DropSteps
  <2>3. Lent'
    BY DEF Lent, StepOrder, Exclusive, Ownership
  <2>4. Served'
    BY DEF Served, AnswerWaits, Dropping, Registered, StepOrder, Exclusive
  <2>5. OwnBytes'
    BY DEF OwnBytes, AnswerWaits, Dropping, OwnQueue, OwnOperation,
       Registered, StepOrder, Lent, Ownership, FreshHasNone, Exclusive
  <2>6. EventsOn'
    BY DEF EventsOn, Dropping, StepOrder, Exclusive, Registered, OwnOperation
  <2> QED BY <1>0, <1>C, <2>3, <2>4, <2>5, <2>6 DEF Own
<1>4. CASE AllowBuffer
  <2>1. queue' = queue
    BY <1>4 DEF AllowBuffer
  <2>2. Waiting' = Waiting
    BY <1>S, <2>1
  <2> USE <1>0, <1>W, <1>4, <2>2 DEF AllowBuffer, SetAllowed, Goto, slot,
        KernelTypeOK, AsyncTypeOK, Lives, PollSteps, DropSteps
  <2>3. Lent'
    BY DEF Lent, StepOrder, Exclusive, Ownership
  <2>4. Served'
    BY DEF Served, AnswerWaits, Dropping, Registered, StepOrder, Exclusive
  <2>5. OwnBytes'
    BY DEF OwnBytes, AnswerWaits, Dropping, OwnQueue, OwnOperation,
       Registered, StepOrder, Lent, Ownership, FreshHasNone, Exclusive
  <2>6. EventsOn'
    BY DEF EventsOn, Dropping, StepOrder, Exclusive, Registered, OwnOperation
  <2> QED BY <1>0, <1>C, <2>3, <2>4, <2>5, <2>6 DEF Own
<1>5. CASE Register
  <2>1. cur \in Target /\ slot \in Slot /\ SetUpcall(slot, cur)
    BY <1>0, <1>5 DEF Register, AsyncTypeOK, slot
  <2>2. Waiting' = {e \in Waiting : e.slot # slot}
    BY <1>0, <2>1, SubscribeWaiting
  <2>3. upcall' = [upcall EXCEPT ![slot] = cur]
    BY <2>1 DEF SetUpcall
  <2> USE <1>0, <1>W, <1>5, <2>1, <2>2, <2>3 DEF Register, Goto, slot,
        KernelTypeOK, AsyncTypeOK, Lives, PollSteps, DropSteps
  <2>4. Lent'
    BY DEF Lent, StepOrder, Exclusive, Ownership
  <2>5. Served'
    BY DEF Served, AnswerWaits, Dropping, Registered, OwnOperation, StepOrder,
       Exclusive, Ownership
  <2>6. OwnBytes'
    BY DEF OwnBytes, AnswerWaits, Dropping, OwnQueue, OwnOperation,
       Registered, StepOrder, Lent, Ownership, FreshHasNone, Exclusive
  <2>7. EventsOn'
    BY DEF EventsOn, Dropping, StepOrder, Exclusive, Registered, OwnOperation
  <2> QED BY <1>0, <1>C, <2>4, <2>5, <2>6, <2>7 DEF Own
<1>6. CASE Start
  <2>1. queue' = queue
    BY <1>6 DEF Start
  <2>2. Waiting' = Waiting
    BY <1>S, <2>1
  <2> USE <1>0, <1>W, <1>6, <2>2 DEF Start, DriverStart, Goto, slot,
        KernelTypeOK, AsyncTypeOK, Lives, PollSteps, DropSteps
  <2>3. Lent'
    BY DEF Lent, StepOrder, Exclusive, Ownership
  <2>4. Served'
    BY DEF Served, AnswerWaits, Dropping, Registered, StepOrder, Exclusive
  <2>5. OwnBytes'
    BY DEF OwnBytes, AnswerWaits, Dropping, OwnQueue, OwnOperation,
       Registered, StepOrder, Lent, Ownership, FreshHasNone, Exclusive
  <2>6. EventsOn'
    BY DEF EventsOn, Dropping, StepOrder, Exclusive, Registered, OwnOperation
  <2> QED BY <1>0, <1>C, <2>3, <2>4, <2>5, <2>6 DEF Own
<1>7. CASE Fail
  <2>1. queue' = queue
    BY <1>7 DEF Fail, kernelVars
  <2>2. Waiting' = Waiting
    BY <1>S, <2>1
  <2> USE <1>0, <1>W, <1>7, <2>2 DEF Fail, Return, kernelVars, slot,
        KernelTypeOK, AsyncTypeOK, Lives, PollSteps, DropSteps
  <2>3. Lent'
    BY DEF Lent, StepOrder, Exclusive, Ownership
  <2>4. Served'
    BY DEF Served, AnswerWaits, Dropping, Registered, StepOrder, Exclusive
  <2>5. OwnBytes'
    BY DEF OwnBytes, AnswerWaits, Dropping, OwnQueue, OwnOperation,
       Registered, StepOrder, Lent, Ownership, FreshHasNone, Exclusive
  <2>6. EventsOn'
    BY DEF EventsOn, Dropping, StepOrder, Exclusive, Registered, OwnOperation
  <2> QED BY <1>0, <1>C, <2>3, <2>4, <2>5, <2>6 DEF Own
<1>8. CASE Park
  <2>1. queue' = queue
    BY <1>8 DEF Park, kernelVars
  <2>2. Waiting' = Waiting
    BY <1>S, <2>1
  <2> USE <1>0, <1>W, <1>8, <2>2 DEF Park, Goto, Return, Finishing,
        kernelVars, slot, KernelTypeOK, AsyncTypeOK, Lives, PollSteps,
        DropSteps
  <2>3. Lent'
    BY DEF Lent, StepOrder, Exclusive, Ownership
  <2>4. Served'
    BY DEF Served, AnswerWaits, Dropping, Registered, StepOrder, Exclusive
  <2>5. OwnBytes'
    BY DEF OwnBytes, AnswerWaits, Dropping, OwnQueue, OwnOperation,
       Registered, StepOrder, Lent, Ownership, FreshHasNone, Exclusive
  <2>6. EventsOn'
    BY DEF EventsOn, Dropping, StepOrder, Exclusive, Registered, OwnOperation
  <2> QED BY <1>0, <1>C, <2>3, <2>4, <2>5, <2>6 DEF Own
<1>9. CASE Finish
  <2>1. queue' = queue
    BY <1>9 DEF Finish
  <2>2. Waiting' = Waiting
    BY <1>S, <2>1
  <2> USE <1>0, <1>W, <1>9, <2>2 DEF Finish, SetAllowed, Goto, slot,
        KernelTypeOK, AsyncTypeOK, Lives, PollSteps, DropSteps
  <2>3. Lent'
    BY DEF Lent, StepOrder, Exclusive, Ownership
  <2>4. Served'
    BY DEF Served, AnswerWaits, Dropping, Registered, StepOrder, Exclusive
  <2>5. OwnBytes'
    BY DEF OwnBytes, AnswerWaits, Dropping, OwnQueue, OwnOperation,
       Registered, StepOrder, Lent, Ownership, FreshHasNone, Exclusive
  <2>6. EventsOn'
    BY DEF EventsOn, Dropping, StepOrder, Exclusive, Registered, OwnOperation
  <2> QED BY <1>0, <1>C, <2>3, <2>4, <2>5, <2>6 DEF Own
<1>10. CASE Complete
  <2>1. queue' = queue
    BY <1>10 DEF Complete
  <2>2. Waiting' = Waiting
    BY <1>S, <2>1
  <2> USE <1>0, <1>W, <1>10, <2>2 DEF Complete, Return, slot, KernelTypeOK,
        AsyncTypeOK, Lives, PollSteps, DropSteps
  <2>3. Lent'
    BY DEF Lent, StepOrder, Exclusive, Ownership
  <2>4. Served'
    BY DEF Served, AnswerWaits, Dropping, Registered, StepOrder, Exclusive
  <2>5. OwnBytes'
    BY DEF OwnBytes, AnswerWaits, Dropping, OwnQueue, OwnOperation,
       Registered, StepOrder, Lent, Ownership, FreshHasNone, Exclusive
  <2>6. EventsOn'
    BY DEF EventsOn, Dropping, StepOrder, Exclusive, Registered, OwnOperation
  <2> QED BY <1>0, <1>C, <2>3, <2>4, <2>5, <2>6 DEF Own
<1>11. CASE Cancel
  <2>1. cur \in Target /\ slot \in Slot /\ DriverStop(slot)
    BY <1>0, <1>11 DEF Cancel, AsyncTypeOK, slot
  <2>2. \/ Waiting' = Waiting
        \/ /\ outstanding[slot] # Null /\ slot \notin EventSlot
           /\ Waiting' = Waiting \cup {[slot |-> slot, target |-> upcall[slot],
                                        op |-> outstanding[slot]]}
    BY <1>0, <1>S, <2>1, ScheduleWaiting DEF DriverStop
  <2>3. outstanding' = [outstanding EXCEPT ![slot] = Null]
    BY <2>1 DEF DriverStop
  <2> USE <1>0, <1>W, <1>11, <2>1, <2>2, <2>3 DEF Cancel, Goto, FirstField,
        slot, KernelTypeOK, AsyncTypeOK, Lives, PollSteps, DropSteps
  <2>4. Lent'
    BY DEF Lent, StepOrder, Exclusive, Ownership
  <2>5. Served'
    BY DEF Served, AnswerWaits, Dropping, Registered, OwnOperation, StepOrder,
       Exclusive, Ownership
  <2>6. OwnBytes'
    BY DEF OwnBytes, AnswerWaits, Dropping, OwnQueue, OwnOperation,
       Registered, StepOrder, Lent, Ownership, FreshHasNone, Exclusive
  <2>7. EventsOn'
    BY DEF EventsOn, Dropping, StepOrder, Exclusive, Registered, OwnOperation
  <2> QED BY <1>0, <1>C, <2>4, <2>5, <2>6, <2>7 DEF Own
<1>12. CASE Unallow
  <2>1. queue' = queue
    BY <1>12 DEF Unallow
  <2>2. Waiting' = Waiting
    BY <1>S, <2>1
  <2> USE <1>0, <1>W, <1>12, <2>2 DEF Unallow, SetAllowed, Goto, slot,
        KernelTypeOK, AsyncTypeOK, Lives, PollSteps, DropSteps
  <2>3. Lent'
    BY DEF Lent, StepOrder, Exclusive, Ownership
  <2>4. Served'
    BY DEF Served, AnswerWaits, Dropping, Registered, StepOrder, Exclusive
  <2>5. OwnBytes'
    BY DEF OwnBytes, AnswerWaits, Dropping, OwnQueue, OwnOperation,
       Registered, StepOrder, Lent, Ownership, FreshHasNone, Exclusive
  <2>6. EventsOn'
    BY DEF EventsOn, Dropping, StepOrder, Exclusive, Registered, OwnOperation
  <2> QED BY <1>0, <1>C, <2>3, <2>4, <2>5, <2>6 DEF Own
<1>13. CASE Unsubscribe
  <2>1. cur \in Target /\ slot \in Slot /\ SetUpcall(slot, Null)
    BY <1>0, <1>13 DEF Unsubscribe, AsyncTypeOK, slot
  <2>2. Waiting' = {e \in Waiting : e.slot # slot}
    BY <1>0, <2>1, SubscribeWaiting
  <2>3. upcall' = [upcall EXCEPT ![slot] = Null]
    BY <2>1 DEF SetUpcall
  <2> USE <1>0, <1>W, <1>13, <2>1, <2>2, <2>3 DEF Unsubscribe, Goto, slot,
        KernelTypeOK, AsyncTypeOK, Lives, PollSteps, DropSteps
  <2>4. Lent'
    BY DEF Lent, StepOrder, Exclusive, Ownership
  <2>5. Served'
    BY DEF Served, AnswerWaits, Dropping, Registered, OwnOperation, StepOrder,
       Exclusive, Ownership
  <2>6. OwnBytes'
    BY DEF OwnBytes, AnswerWaits, Dropping, OwnQueue, OwnOperation,
       Registered, StepOrder, Lent, Ownership, FreshHasNone, Exclusive
  <2>7. EventsOn'
    BY DEF EventsOn, Dropping, StepOrder, Exclusive, Registered, OwnOperation
  <2> QED BY <1>0, <1>C, <2>4, <2>5, <2>6, <2>7 DEF Own
<1>14. CASE Release
  <2>1. queue' = queue
    BY <1>14 DEF Release, kernelVars
  <2>2. Waiting' = Waiting
    BY <1>S, <2>1
  <2> USE <1>0, <1>W, <1>14, <2>2 DEF Release, Return, kernelVars, slot,
        KernelTypeOK, AsyncTypeOK, Lives, PollSteps, DropSteps
  <2>3. Lent'
    BY DEF Lent, StepOrder, Exclusive, Ownership
  <2>4. Served'
    BY DEF Served, AnswerWaits, Dropping, Registered, StepOrder, Exclusive
  <2>5. OwnBytes'
    BY DEF OwnBytes, AnswerWaits, Dropping, OwnQueue, OwnOperation,
       Registered, StepOrder, Lent, Ownership, FreshHasNone, Exclusive
  <2>6. EventsOn'
    BY DEF EventsOn, Dropping, StepOrder, Exclusive, Registered, OwnOperation
  <2> QED BY <1>0, <1>C, <2>3, <2>4, <2>5, <2>6 DEF Own
<1>15. CASE Yield
  <2> DEFINE e == Head(queue)
  <2>1. /\ e \in Waiting
        /\ Waiting' \subseteq Waiting
        /\ Waiting \subseteq Waiting' \cup {e}
    BY <1>0, <1>15, TailWaiting DEF Yield
  <2>2. /\ args' = [args EXCEPT ![e.target] = e.op]
        /\ step = "idle"
        /\ UNCHANGED <<upcall, allowed, outstanding, bytes, life, step, cur>>
    BY <1>15 DEF Yield
  <2> HIDE DEF e
  <2>3. SlotOf[e.target] = e.slot
    BY <1>0, <1>W, <2>1 DEF Ownership
  <2>4. /\ OneAnswer'
        /\ e.slot \notin EventSlot => \A d \in Waiting' : d.slot # e.slot
    BY <1>0, <1>15, TailOne DEF e, Yield
  <2> USE <1>0, <1>W, <2>1, <2>2, <2>3, <2>4 DEF slot, KernelTypeOK,
        AsyncTypeOK, Lives, PollSteps, DropSteps
  <2>5. Lent'
    BY DEF Lent, StepOrder, Exclusive, Ownership
  <2>6. Served'
    BY DEF Served, AnswerWaits, Dropping, Registered, OwnOperation, StepOrder,
       Exclusive, Ownership
  <2>7. OwnBytes'
    BY DEF OwnBytes, AnswerWaits, Dropping, OwnQueue, OwnOperation,
       Registered, StepOrder, Lent, Ownership, FreshHasNone, Exclusive
  <2>8. EventsOn'
    BY DEF EventsOn, Dropping, StepOrder, Exclusive, Registered, OwnOperation
  <2> QED BY <1>0, <1>C, <2>5, <2>6, <2>7, <2>8 DEF Own
<1>16. ASSUME NEW s \in Slot, Driver(s) PROVE Own'
  <2>1. /\ outstanding[s] # Null /\ queue' = Scheduled(s, outstanding[s])
        /\ bytes' = IF allowed[s] = Null THEN bytes
                    ELSE [bytes EXCEPT ![allowed[s]] = outstanding[s]]
        /\ outstanding' = IF s \in EventSlot THEN outstanding
                          ELSE [outstanding EXCEPT ![s] = Null]
        /\ UNCHANGED <<upcall, allowed, life, args, step, cur>>
    BY <1>16 DEF Driver, DriverAnswer, asyncVars
  <2>2. Waiting' = IF upcall[s] = Null THEN Waiting
                   ELSE Waiting \cup {[slot |-> s, target |-> upcall[s],
                                       op |-> outstanding[s]]}
    BY <1>0, <2>1, ScheduleWaiting
  <2> USE <1>0, <1>W, <2>1, <2>2 DEF slot, KernelTypeOK, AsyncTypeOK,
        Lives, PollSteps, DropSteps
  <2>3. Lent'
    BY DEF Lent, StepOrder, Exclusive, Ownership
  <2>4. Served'
    <3> SUFFICES ASSUME NEW f \in Target, life[f] = "started",
                        args[f] = Null, ~Dropping(f)
                 PROVE  outstanding'[SlotOf[f]] = f \/ AnswerWaits(f)'
      BY DEF Served, Dropping
    <3>1. upcall[SlotOf[f]] = f /\ f # Null
      BY DEF Registered, Dropping
    <3>2. CASE AnswerWaits(f)
      BY <3>2 DEF AnswerWaits
    <3>3. CASE outstanding[SlotOf[f]] = f /\ SlotOf[f] = s /\ s \notin EventSlot
      <4>1. [slot |-> s, target |-> f, op |-> f] \in Waiting'
        BY <3>1, <3>3
      <4> QED BY <4>1 DEF AnswerWaits
    <3>4. CASE outstanding[SlotOf[f]] = f /\ (SlotOf[f] # s \/ s \in EventSlot)
      BY <3>4
    <3> QED BY <3>2, <3>3, <3>4 DEF Served
  <2>5. OwnBytes'
    <3> SUFFICES ASSUME NEW f \in Target, life[f] = "started", ~Dropping(f),
                        SlotOf[f] \in Buffered \ EventSlot,
                        args[f] # Null \/ AnswerWaits(f)'
                 PROVE  bytes'[f] = f
      BY DEF OwnBytes, Dropping
    <3>1. CASE outstanding[SlotOf[f]] = f /\ SlotOf[f] = s
      <4>1. allowed[s] = f
        BY <3>1 DEF Lent, OwnOperation, HasArgs, Dropping
      <4> QED BY <3>1, <4>1
    <3>2. CASE ~(outstanding[SlotOf[f]] = f /\ SlotOf[f] = s)
      <4>1. args[f] # Null \/ AnswerWaits(f)
        BY <3>2 DEF AnswerWaits, OwnOperation
      <4>2. allowed[s] # f
        BY <3>2 DEF Ownership, OwnOperation, Exclusive
      <4> QED BY <4>1, <4>2 DEF OwnBytes
    <3> QED BY <3>1, <3>2
  <2>6. EventsOn'
    BY DEF EventsOn, Dropping, StepOrder, Exclusive, Registered, OwnOperation
  <2> QED BY <1>0, <1>C, <2>3, <2>4, <2>5, <2>6 DEF Own
<1> QED
  BY <1>1, <1>2, <1>3, <1>4, <1>5, <1>6, <1>7, <1>8, <1>9, <1>10, <1>11,
     <1>12, <1>13, <1>14, <1>15, <1>16 DEF Next, InPoll, InDrop

(* No future, no upcall and no operation at first.                         *)
LEMMA InitOwn == Init => Own
BY KernelAssumption, AsyncAssumption DEF Init, KernelInit, Own, Core, OwnOperation,
   OwnQueue, Registered, Lent, Served, OwnBytes, HasArgs, CompletionIsOwn,
   OneAnswer, EventsOn, Exclusive, Waiting

(* The strengthened invariant holds when every slot has one future at a    *)
(* time.                                                                   *)
THEOREM OwnInvariance == ExclusiveSpec => []IInv
<1>1. Init => IInv
  BY InitInv, InitOwn DEF IInv
<1>2. IInv /\ [Next /\ Exclusive']_vars => IInv'
  BY NextInv, NextOwn DEF IInv
<1> QED BY <1>1, <1>2, PTL DEF ExclusiveSpec
-----------------------------------------------------------------------------
(* What the invariant says of the futures.                                 *)
LEMMA OwnKept ==
  IInv => NothingLost /\ CompletionIsOwn /\ BytesMatchArgs /\ NoOrphan
<1> SUFFICES ASSUME IInv
             PROVE  NothingLost /\ CompletionIsOwn /\ BytesMatchArgs /\ NoOrphan
  OBVIOUS
<1> USE KernelAssumption, AsyncAssumption
<1>0. /\ KernelTypeOK /\ AsyncTypeOK /\ Ownership /\ StepOrder
      /\ OwnOperation /\ OwnQueue /\ Registered
      /\ Served /\ OwnBytes /\ HasArgs /\ CompletionIsOwn
  BY DEF IInv, Inv, TypeOK, Own, Core
<1>1. NothingLost
  BY <1>0, AnsweredWaits DEF NothingLost, Registered, Served, Dropping,
     DropSteps
<1>2. BytesMatchArgs
  <2> SUFFICES ASSUME step = "complete", slot \in Buffered
               PROVE  bytes[cur] = args[cur]
    BY DEF BytesMatchArgs
  <2>1. /\ cur \in Target /\ life[cur] = "started" /\ args[cur] # Null
        /\ SlotOf[cur] \in Buffered \ EventSlot
        /\ ~Dropping(cur)
    BY <1>0 DEF AsyncTypeOK, StepOrder, HasArgs, slot, Dropping, DropSteps
  <2>2. bytes[cur] = cur
    BY <1>0, <2>1 DEF OwnBytes
  <2>3. args[cur] = cur
    BY <1>0, <2>1 DEF CompletionIsOwn
  <2> QED BY <2>2, <2>3
<1>3. NoOrphan
  <2> SUFFICES ASSUME NEW f \in Target, life[f] = "free",
                      SlotOf[f] \notin EventSlot
               PROVE  /\ outstanding[SlotOf[f]] # f
                      /\ \A i \in 1..Len(queue) : queue[i].op # f
    BY DEF NoOrphan
  <2>1. outstanding[SlotOf[f]] # f
    BY <1>0 DEF OwnOperation
  <2>2. ASSUME NEW e \in Waiting PROVE e.op # f
    <3>1. e \in Entry /\ upcall[e.slot] = e.target
      BY <1>0, WaitingTyped, WaitingOwned
    <3>2. e.slot \in Slot /\ e.target \in Target
      BY <3>1 DEF Entry
    <3>3. life[e.target] # "free"
      BY <1>0, <3>1, <3>2 DEF Ownership
    <3>4. e.slot \notin EventSlot => e.op = e.target
      BY <1>0 DEF OwnQueue
    <3>5. SlotOf[e.op] = e.slot
      BY <1>0 DEF OwnQueue
    <3> QED BY <3>3, <3>4, <3>5
  <2> QED BY <2>1, <2>2 DEF Waiting
<1> QED BY <1>0, <1>1, <1>2, <1>3

(* A started future without arguments is always registered, and its        *)
(* operation is at the driver or its upcall in the queue: Call and         *)
(* BufferedCall never wait for an upcall that cannot come.                 *)
THEOREM NothingIsLost == ExclusiveSpec => []NothingLost
<1> QED BY OwnKept, OwnInvariance, PTL

(* A future never completes with the answer to one that was dropped.       *)
THEOREM CompletionsAreOwn == ExclusiveSpec => []CompletionIsOwn
<1> QED BY OwnKept, OwnInvariance, PTL

(* A BufferedCall interprets its arguments over the bytes of the same      *)
(* operation.                                                              *)
THEOREM BytesAreOwn == ExclusiveSpec => []BytesMatchArgs
<1> QED BY OwnKept, OwnInvariance, PTL

(* A dropped future leaves no operation and no queued upcall behind.       *)
THEOREM NothingIsOrphaned == ExclusiveSpec => []NoOrphan
<1> QED BY OwnKept, OwnInvariance, PTL

-----------------------------------------------------------------------------
(* Storing the waker before the second look at the arguments loses no      *)
(* wake, whatever the application does with its futures.                   *)
LEMMA NextWake == Inv /\ WakeNotLost /\ [Next]_vars => WakeNotLost'
<1> SUFFICES ASSUME Inv, WakeNotLost, [Next]_vars PROVE WakeNotLost'
  OBVIOUS
<1>0. KernelTypeOK /\ AsyncTypeOK /\ StepOrder
  BY DEF Inv, TypeOK
<1> USE <1>0, KernelAssumption, AsyncAssumption DEF WakeNotLost, AsyncTypeOK,
      PollSteps, DropSteps
<1>1. ASSUME NEW f \in Target, New(f) \/ Poll(f) \/ Drop(f)
      PROVE  WakeNotLost'
  BY <1>1 DEF New, Poll, Drop
<1>2. CASE AllowBuffer \/ Register \/ Start \/ Fail
  BY <1>2 DEF AllowBuffer, Register, Start, Fail, Goto, Return
<1>3. CASE Park
  BY <1>3 DEF Park, Goto, Return, Finishing
<1>4. CASE Finish \/ Complete \/ InDrop
  BY <1>4 DEF Finish, Complete, InDrop, Cancel, Unallow, Unsubscribe,
     Release, Goto, Return, FirstField
<1>5. CASE Yield
  <2> DEFINE e == Head(queue)
  <2>1. e \in Entry
    BY <1>5 DEF Yield, KernelTypeOK
  <2>2. e.target \in Target /\ e.op \in Target
    BY <2>1 DEF Entry
  <2>3. /\ args' = [args EXCEPT ![e.target] = e.op]
        /\ wake' = [wake EXCEPT ![e.target] =
                      IF @ = "stored" THEN "woken" ELSE @]
        /\ step = "idle" /\ UNCHANGED <<life, step, cur>>
    BY <1>5 DEF Yield
  <2> HIDE DEF e
  <2> QED BY <2>2, <2>3
<1>6. ASSUME NEW s \in Slot, Driver(s) PROVE WakeNotLost'
  BY <1>6 DEF Driver, asyncVars
<1>7. CASE UNCHANGED vars
  BY <1>7 DEF vars, asyncVars
<1> QED BY <1>1, <1>2, <1>3, <1>4, <1>5, <1>6, <1>7 DEF Next, InPoll

(* An executor that polls only what was woken misses nothing.              *)
THEOREM WakesAreKept == Spec => []WakeNotLost
<1>1. Init => WakeNotLost
  BY DEF Init, WakeNotLost
<1>2. Inv /\ WakeNotLost /\ [Next]_vars => WakeNotLost'
  BY NextWake
<1> QED BY <1>1, <1>2, Invariance, PTL DEF Spec

-----------------------------------------------------------------------------
(***************************************************************************)
(* The futures of AsyncCall, one at a time in each slot, implement the     *)
(* abstract life of a driver future that AsyncPromise states.              *)
(***************************************************************************)
(* What the abstract state is of one future, in terms of its own slot.     *)
HeardHere(f) == upcall[SlotOf[f]] = f
HeldHere(f) == allowed[SlotOf[f]] = f
WorksHere(f) ==
    IF SlotOf[f] \in EventSlot
    THEN life[f] \in {"started", "done"} /\ outstanding[SlotOf[f]] = f
    ELSE outstanding[SlotOf[f]] = f \/ AnswerWaits(f)

NowHere ==
    /\ PhasesNow = [f \in Target |-> PhaseOf(f)]
    /\ HeardNow = {f \in Target : HeardHere(f)}
    /\ HeldNow = {f \in Target : HeldHere(f)}
    /\ WorkingNow = {f \in Target : WorksHere(f)}

(* What the abstract future sees of a future is what the kernel keeps.     *)
LEMMA AllIsHere == IInv => NowHere
<1> SUFFICES ASSUME IInv PROVE NowHere
  OBVIOUS
<1> USE KernelAssumption, AsyncAssumption
<1>0. KernelTypeOK /\ Ownership /\ OwnOperation /\ OwnQueue
  BY DEF IInv, Inv, TypeOK, Own, Core
<1>1. ASSUME NEW f \in Target
      PROVE  /\ (\E s \in Slot : upcall[s] = f) <=> HeardHere(f)
             /\ (\E s \in Slot : allowed[s] = f) <=> HeldHere(f)
  BY <1>0 DEF HeardHere, HeldHere, Ownership
<1>2. ASSUME NEW f \in Target PROVE Working(f) <=> WorksHere(f)
  <2>1. (\E i \in 1..Len(queue) : queue[i].op = f)
          <=> (\E e \in Waiting : e.op = f)
    BY DEF Waiting
  <2>2. (\E s \in Slot : outstanding[s] = f) <=> outstanding[SlotOf[f]] = f
    BY <1>0 DEF OwnOperation
  <2>3. SlotOf[f] \notin EventSlot
          => ((\E e \in Waiting : e.op = f) <=> AnswerWaits(f))
    BY <1>0 DEF OwnQueue, AnswerWaits
  <2> QED BY <2>1, <2>2, <2>3 DEF Working, WorksHere
<1> QED BY <1>1, <1>2 DEF NowHere, PhasesNow, HeardNow, HeldNow, WorkingNow

-----------------------------------------------------------------------------
(* The step of AsyncPromise that each step of a future, the kernel or a    *)
(* driver takes.                                                           *)
LEMMA StepKeeps ==
  ASSUME IInv, IInv', Next, NowHere, NowHere'
  PROVE  Promise!Next \/ UNCHANGED <<PhasesNow, HeardNow, HeldNow, WorkingNow>>
<1> USE KernelAssumption, AsyncAssumption
<1>0. /\ KernelTypeOK /\ AsyncTypeOK /\ Ownership /\ FreshHasNone /\ StepOrder
      /\ Exclusive /\ OwnOperation /\ OwnQueue /\ Registered /\ Lent
      /\ Served /\ HasArgs /\ OneAnswer /\ EventsOn
  BY DEF IInv, Inv, TypeOK, Own, Core
<1>1. /\ KernelTypeOK' /\ AsyncTypeOK' /\ Ownership' /\ FreshHasNone'
      /\ StepOrder' /\ OwnOperation' /\ OwnQueue' /\ Registered'
  BY DEF IInv, Inv, TypeOK, Own, Core
<1>W. \A e \in Waiting :
         /\ e \in Entry /\ e.slot \in Slot /\ e.target \in Target /\ e.op \in Target
         /\ upcall[e.slot] = e.target
  BY <1>0, WaitingTyped, WaitingOwned DEF Entry
<1>S. queue' = queue => Waiting' = Waiting
  BY DEF Waiting
<1>2. ASSUME NEW f \in Target, New(f)
      PROVE  Promise!Next \/ UNCHANGED <<PhasesNow, HeardNow, HeldNow, WorkingNow>>
  <2>1. Waiting' = Waiting
    BY <1>2, <1>S DEF New
  <2>2. PhasesNow[f] = "absent" /\ PhasesNow' = [PhasesNow EXCEPT ![f] = "idle"]
    BY <1>0, <1>2 DEF New, NowHere, PhaseOf, Dropping, slot, KernelTypeOK,
       AsyncTypeOK, Lives, PollSteps, DropSteps
  <2>3. HeardNow' = HeardNow
    BY <1>0, <1>2 DEF New, NowHere, HeardHere, slot, KernelTypeOK,
       AsyncTypeOK, Lives, PollSteps, DropSteps
  <2>4. HeldNow' = HeldNow
    BY <1>0, <1>2 DEF New, NowHere, HeldHere, slot, KernelTypeOK, AsyncTypeOK,
       Lives, PollSteps, DropSteps
  <2>5. WorkingNow' = WorkingNow
    BY <1>0, <1>2, <1>W, <2>1 DEF New, OwnOperation, OwnQueue, NowHere,
       WorksHere, AnswerWaits, slot, KernelTypeOK, AsyncTypeOK, Lives,
       PollSteps, DropSteps
  <2>6. Promise!Create(f)
    BY <1>0, <1>2, <2>2, <2>3, <2>4, <2>5 DEF Promise!Create, Promise!Advance
  <2> QED BY <2>6 DEF Promise!Next
<1>3. ASSUME NEW f \in Target, Poll(f)
      PROVE  Promise!Next \/ UNCHANGED <<PhasesNow, HeardNow, HeldNow, WorkingNow>>
  <2>1. Waiting' = Waiting
    BY <1>3, <1>S DEF Poll, kernelVars, Sharing, Finishing
  <2>2. PhasesNow' = PhasesNow
    BY <1>0, <1>3 DEF Poll, kernelVars, Sharing, Finishing, NowHere, PhaseOf,
       Dropping, slot, KernelTypeOK, AsyncTypeOK, Lives, PollSteps, DropSteps
  <2>3. HeardNow' = HeardNow
    BY <1>0, <1>3 DEF Poll, kernelVars, Sharing, Finishing, NowHere,
       HeardHere, slot, KernelTypeOK, AsyncTypeOK, Lives, PollSteps, DropSteps
  <2>4. HeldNow' = HeldNow
    BY <1>0, <1>3 DEF Poll, kernelVars, Sharing, Finishing, NowHere, HeldHere,
       slot, KernelTypeOK, AsyncTypeOK, Lives, PollSteps, DropSteps
  <2>5. WorkingNow' = WorkingNow
    BY <1>0, <1>3, <1>W, <2>1 DEF Poll, kernelVars, Sharing, Finishing,
       NowHere, WorksHere, AnswerWaits, slot, KernelTypeOK, AsyncTypeOK,
       Lives, PollSteps, DropSteps
  <2> QED BY <2>2, <2>3, <2>4, <2>5
<1>4. ASSUME NEW f \in Target, Drop(f)
      PROVE  Promise!Next \/ UNCHANGED <<PhasesNow, HeardNow, HeldNow, WorkingNow>>
  <2>1. Waiting' = Waiting
    BY <1>4, <1>S DEF Drop, kernelVars, Outstanding, FirstField
  <2>2. PhasesNow[f] \notin {"absent", "dying"} /\ PhasesNow' = [PhasesNow EXCEPT ![f] = "dying"]
    BY <1>0, <1>4 DEF Drop, kernelVars, Outstanding, FirstField, NowHere,
       PhaseOf, Dropping, slot, KernelTypeOK, AsyncTypeOK, Lives, PollSteps,
       DropSteps
  <2>3. HeardNow' = HeardNow
    BY <1>0, <1>4 DEF Drop, kernelVars, Outstanding, FirstField, NowHere,
       HeardHere, slot, KernelTypeOK, AsyncTypeOK, Lives, PollSteps, DropSteps
  <2>4. HeldNow' = HeldNow
    BY <1>0, <1>4 DEF Drop, kernelVars, Outstanding, FirstField, NowHere,
       HeldHere, slot, KernelTypeOK, AsyncTypeOK, Lives, PollSteps, DropSteps
  <2>5. WorkingNow' = WorkingNow
    BY <1>0, <1>4, <1>W, <2>1 DEF Drop, kernelVars, Outstanding, FirstField,
       NowHere, WorksHere, AnswerWaits, slot, KernelTypeOK, AsyncTypeOK,
       Lives, PollSteps, DropSteps
  <2>6. Promise!Discard(f)
    BY <1>0, <1>4, <2>2, <2>3, <2>4, <2>5 DEF Promise!Discard, Promise!Advance
  <2> QED BY <2>6 DEF Promise!Next
<1>5. CASE AllowBuffer
  <2>1. Waiting' = Waiting
    BY <1>5, <1>S DEF AllowBuffer, SetAllowed, Goto
  <2>2. cur \in Target /\ slot \in Slot
    BY <1>0, <1>5 DEF AllowBuffer, SetAllowed, Goto, AsyncTypeOK, slot
  <2>3. PhasesNow[cur] = "idle" /\ PhasesNow' = PhasesNow
    BY <1>0, <1>5, <2>2 DEF AllowBuffer, SetAllowed, Goto, StepOrder, NowHere,
       PhaseOf, Dropping, slot, KernelTypeOK, AsyncTypeOK, Lives, PollSteps,
       DropSteps
  <2>4. HeardNow' = HeardNow
    BY <1>0, <1>5, <2>2 DEF AllowBuffer, SetAllowed, Goto, NowHere, HeardHere,
       slot, KernelTypeOK, AsyncTypeOK, Lives, PollSteps, DropSteps
  <2>5. HeldNow' = HeldNow \cup {cur}
    BY <1>0, <1>5, <2>2 DEF AllowBuffer, SetAllowed, Goto, Ownership,
       Exclusive, StepOrder, NowHere, HeldHere, slot, KernelTypeOK,
       AsyncTypeOK, Lives, PollSteps, DropSteps
  <2>6. WorkingNow' = WorkingNow
    BY <1>0, <1>5, <2>2, <1>W, <2>1 DEF AllowBuffer, SetAllowed, Goto,
       NowHere, WorksHere, AnswerWaits, slot, KernelTypeOK, AsyncTypeOK,
       Lives, PollSteps, DropSteps
  <2>7. Promise!Lend(cur)
    BY <1>0, <1>5, <2>2, <2>3, <2>4, <2>5, <2>6 DEF Promise!Lend,
       Promise!Advance
  <2> QED BY <2>2, <2>7 DEF Promise!Next
<1>6. CASE Register
  <2>1. Waiting' = Waiting
    <3>1. cur \in Target /\ slot \in Slot /\ SetUpcall(slot, cur)
      BY <1>0, <1>6 DEF Register, AsyncTypeOK, slot
    <3>2. upcall[slot] = Null
      BY <1>0, <1>6, <3>1 DEF Register, Ownership, FreshHasNone, StepOrder,
         Exclusive, KernelTypeOK, AsyncTypeOK, slot
    <3>3. \A e \in Waiting : e.slot # slot
      BY <1>W, <3>2, KernelAssumption
    <3> QED BY <1>0, <3>1, <3>3, SubscribeWaiting
  <2>2. cur \in Target /\ slot \in Slot
    BY <1>0, <1>6 DEF Register, Goto, AsyncTypeOK, slot
  <2>3. PhasesNow[cur] = "idle" /\ PhasesNow' = PhasesNow
    BY <1>0, <1>6, <2>2 DEF Register, Goto, StepOrder, NowHere, PhaseOf,
       Dropping, slot, KernelTypeOK, AsyncTypeOK, Lives, PollSteps, DropSteps
  <2>4. HeardNow' = HeardNow \cup {cur}
    BY <1>0, <1>6, <2>2 DEF Register, Goto, SetUpcall, Ownership, Exclusive,
       StepOrder, NowHere, HeardHere, slot, KernelTypeOK, AsyncTypeOK, Lives,
       PollSteps, DropSteps
  <2>5. HeldNow' = HeldNow
    BY <1>0, <1>6, <2>2 DEF Register, Goto, NowHere, HeldHere, slot,
       KernelTypeOK, AsyncTypeOK, Lives, PollSteps, DropSteps
  <2>6. WorkingNow' = WorkingNow
    BY <1>0, <1>6, <2>2, <1>W, <2>1 DEF Register, Goto, StepOrder, NowHere,
       WorksHere, AnswerWaits, slot, KernelTypeOK, AsyncTypeOK, Lives,
       PollSteps, DropSteps
  <2>7. Promise!Lend(cur)
    BY <1>0, <1>6, <2>2, <2>3, <2>4, <2>5, <2>6 DEF Promise!Lend,
       Promise!Advance
  <2> QED BY <2>2, <2>7 DEF Promise!Next
<1>7. CASE Start
  <2>1. Waiting' = Waiting
    BY <1>7, <1>S DEF Start, DriverStart, Goto
  <2>2. cur \in Target /\ slot \in Slot
    BY <1>0, <1>7 DEF Start, DriverStart, Goto, AsyncTypeOK, slot
  <2>3. PhasesNow[cur] = "idle" /\ PhasesNow' = [PhasesNow EXCEPT ![cur] = "inFlight"]
    BY <1>0, <1>7, <2>2, SMTT(30) DEF Start, DriverStart, Goto, StepOrder, FreshHasNone,
       NowHere, PhaseOf, Dropping, slot, KernelTypeOK, AsyncTypeOK, Lives,
       PollSteps, DropSteps
  <2>4. HeardNow' = HeardNow
    BY <1>0, <1>7, <2>2 DEF Start, DriverStart, Goto, NowHere, HeardHere,
       slot, KernelTypeOK, AsyncTypeOK, Lives, PollSteps, DropSteps
  <2>5. HeldNow' = HeldNow
    BY <1>0, <1>7, <2>2 DEF Start, DriverStart, Goto, NowHere, HeldHere, slot,
       KernelTypeOK, AsyncTypeOK, Lives, PollSteps, DropSteps
  <2>6. WorkingNow' = WorkingNow \cup {cur}
    BY <1>0, <1>7, <2>2, <1>W, <2>1 DEF Start, DriverStart, Goto, StepOrder,
       OwnOperation, Exclusive, NowHere, WorksHere, AnswerWaits, slot,
       KernelTypeOK, AsyncTypeOK, Lives, PollSteps, DropSteps
  <2>7. cur \in HeardNow
    BY <1>0, <1>7, <2>2, <1>W, <2>1 DEF Start, NowHere, HeardHere, Registered,
       slot, KernelTypeOK, AsyncTypeOK, Lives, PollSteps, DropSteps
  <2>8. Promise!Launch(cur)
    BY <1>0, <1>7, <2>2, <2>3, <2>4, <2>5, <2>6, <2>7 DEF Promise!Launch,
       Promise!Advance
  <2> QED BY <2>2, <2>8 DEF Promise!Next
<1>8. CASE Fail
  <2>1. Waiting' = Waiting
    BY <1>8, <1>S DEF Fail, Return, kernelVars
  <2>2. cur \in Target /\ slot \in Slot
    BY <1>0, <1>8 DEF Fail, Return, kernelVars, AsyncTypeOK, slot
  <2>3. PhasesNow[cur] = "idle" /\ PhasesNow' = [PhasesNow EXCEPT ![cur] = "failed"]
    BY <1>0, <1>8, <2>2 DEF Fail, Return, kernelVars, StepOrder, NowHere,
       PhaseOf, Dropping, slot, KernelTypeOK, AsyncTypeOK, Lives, PollSteps,
       DropSteps
  <2>4. HeardNow' = HeardNow
    BY <1>0, <1>8, <2>2 DEF Fail, Return, kernelVars, NowHere, HeardHere,
       slot, KernelTypeOK, AsyncTypeOK, Lives, PollSteps, DropSteps
  <2>5. HeldNow' = HeldNow
    BY <1>0, <1>8, <2>2 DEF Fail, Return, kernelVars, NowHere, HeldHere, slot,
       KernelTypeOK, AsyncTypeOK, Lives, PollSteps, DropSteps
  <2>6. WorkingNow' = WorkingNow
    BY <1>0, <1>8, <2>2, <1>W, <2>1 DEF Fail, Return, kernelVars, StepOrder,
       NowHere, WorksHere, AnswerWaits, slot, KernelTypeOK, AsyncTypeOK,
       Lives, PollSteps, DropSteps
  <2>7. Promise!Fail(cur)
    BY <1>0, <1>8, <2>2, <2>3, <2>4, <2>5, <2>6 DEF Promise!Fail,
       Promise!Advance
  <2> QED BY <2>2, <2>7 DEF Promise!Next
<1>9. CASE Park
  <2>1. Waiting' = Waiting
    BY <1>9, <1>S DEF Park, Return, Goto, Finishing, kernelVars
  <2>2. cur \in Target /\ slot \in Slot
    BY <1>0, <1>9 DEF Park, Return, Goto, Finishing, kernelVars, AsyncTypeOK,
       slot
  <2>3. PhasesNow' = PhasesNow
    BY <1>0, <1>9, <2>2 DEF Park, Return, Goto, Finishing, kernelVars,
       NowHere, PhaseOf, Dropping, slot, KernelTypeOK, AsyncTypeOK, Lives,
       PollSteps, DropSteps
  <2>4. HeardNow' = HeardNow
    BY <1>0, <1>9, <2>2 DEF Park, Return, Goto, Finishing, kernelVars,
       NowHere, HeardHere, slot, KernelTypeOK, AsyncTypeOK, Lives, PollSteps,
       DropSteps
  <2>5. HeldNow' = HeldNow
    BY <1>0, <1>9, <2>2 DEF Park, Return, Goto, Finishing, kernelVars,
       NowHere, HeldHere, slot, KernelTypeOK, AsyncTypeOK, Lives, PollSteps,
       DropSteps
  <2>6. WorkingNow' = WorkingNow
    BY <1>0, <1>9, <2>2, <1>W, <2>1 DEF Park, Return, Goto, Finishing,
       kernelVars, NowHere, WorksHere, AnswerWaits, slot, KernelTypeOK,
       AsyncTypeOK, Lives, PollSteps, DropSteps
  <2> QED BY <2>3, <2>4, <2>5, <2>6
<1>10. CASE Finish
  <2>1. Waiting' = Waiting
    BY <1>10, <1>S DEF Finish, SetAllowed, Goto
  <2>2. cur \in Target /\ slot \in Slot
    BY <1>0, <1>10 DEF Finish, SetAllowed, Goto, AsyncTypeOK, slot
  <2>3. PhasesNow[cur] = "answered" /\ PhasesNow' = PhasesNow
    BY <1>0, <1>10, <2>2 DEF Finish, SetAllowed, Goto, StepOrder, HasArgs,
       NowHere, PhaseOf, Dropping, slot, KernelTypeOK, AsyncTypeOK, Lives,
       PollSteps, DropSteps
  <2>4. HeardNow' = HeardNow
    BY <1>0, <1>10, <2>2 DEF Finish, SetAllowed, Goto, NowHere, HeardHere,
       slot, KernelTypeOK, AsyncTypeOK, Lives, PollSteps, DropSteps
  <2>5. HeldNow' = HeldNow \ {cur}
    BY <1>0, <1>10, <2>2 DEF Finish, SetAllowed, Goto, Ownership, Exclusive,
       StepOrder, NowHere, HeldHere, slot, KernelTypeOK, AsyncTypeOK, Lives,
       PollSteps, DropSteps
  <2>6. WorkingNow' = WorkingNow
    BY <1>0, <1>10, <2>2, <1>W, <2>1 DEF Finish, SetAllowed, Goto, NowHere,
       WorksHere, AnswerWaits, slot, KernelTypeOK, AsyncTypeOK, Lives,
       PollSteps, DropSteps
  <2>7. Promise!Reclaim(cur)
    BY <1>0, <1>10, <2>2, <2>3, <2>4, <2>5, <2>6 DEF Promise!Reclaim,
       Promise!Advance
  <2> QED BY <2>2, <2>7 DEF Promise!Next
<1>11. CASE Complete
  <2>1. Waiting' = Waiting
    BY <1>11, <1>S DEF Complete, Return
  <2>2. cur \in Target /\ slot \in Slot
    BY <1>0, <1>11 DEF Complete, Return, AsyncTypeOK, slot
  <2>3. PhasesNow[cur] = "answered" /\ PhasesNow' = [PhasesNow EXCEPT ![cur] = "ready"]
    BY <1>0, <1>11, <2>2 DEF Complete, Return, StepOrder, HasArgs, NowHere,
       PhaseOf, Dropping, slot, KernelTypeOK, AsyncTypeOK, Lives, PollSteps,
       DropSteps
  <2>4. HeardNow' = HeardNow
    BY <1>0, <1>11, <2>2 DEF Complete, Return, NowHere, HeardHere, slot,
       KernelTypeOK, AsyncTypeOK, Lives, PollSteps, DropSteps
  <2>5. HeldNow' = HeldNow
    BY <1>0, <1>11, <2>2 DEF Complete, Return, NowHere, HeldHere, slot,
       KernelTypeOK, AsyncTypeOK, Lives, PollSteps, DropSteps
  <2>6. WorkingNow' = WorkingNow \ ({cur} \cap {f \in Target : SlotOf[f] \in EventSlot})
    BY <1>0, <1>11, <2>2, <1>W, <2>1 DEF Complete, Return, StepOrder,
       Exclusive, NowHere, WorksHere, AnswerWaits, slot, KernelTypeOK,
       AsyncTypeOK, Lives, PollSteps, DropSteps
  <2>7. cur \notin HeldNow
    BY <1>0, <1>11, <2>2, <1>W, <2>1 DEF Complete, NowHere, HeldHere,
       StepOrder, slot, KernelTypeOK, AsyncTypeOK, Lives, PollSteps, DropSteps
  <2>8. Promise!Resolve(cur)
    BY <1>0, <1>11, <2>2, <2>3, <2>4, <2>5, <2>6, <2>7 DEF Promise!Resolve,
       Promise!Advance
  <2> QED BY <2>2, <2>8 DEF Promise!Next
<1>12. CASE Cancel
  <2>1. \/ Waiting' = Waiting
        \/ /\ outstanding[slot] # Null /\ slot \notin EventSlot
           /\ Waiting' = Waiting \cup {[slot |-> slot, target |-> upcall[slot],
                                        op |-> outstanding[slot]]}
    <3>1. cur \in Target /\ slot \in Slot /\ DriverStop(slot)
      BY <1>0, <1>12 DEF Cancel, AsyncTypeOK, slot
    <3> QED BY <1>0, <1>S, <3>1, ScheduleWaiting DEF DriverStop
  <2>2. cur \in Target /\ slot \in Slot
    BY <1>0, <1>12 DEF Cancel, Goto, FirstField, AsyncTypeOK, slot
  <2>3. PhasesNow[cur] = "dying" /\ PhasesNow' = PhasesNow
    BY <1>0, <1>12, <2>2 DEF Cancel, Goto, FirstField, NowHere, PhaseOf,
       Dropping, slot, KernelTypeOK, AsyncTypeOK, Lives, PollSteps, DropSteps
  <2>4. HeardNow' = HeardNow
    BY <1>0, <1>12, <2>2 DEF Cancel, Goto, FirstField, NowHere, HeardHere,
       slot, KernelTypeOK, AsyncTypeOK, Lives, PollSteps, DropSteps
  <2>5. HeldNow' = HeldNow
    BY <1>0, <1>12, <2>2 DEF Cancel, Goto, FirstField, NowHere, HeldHere,
       slot, KernelTypeOK, AsyncTypeOK, Lives, PollSteps, DropSteps
  <2>6. WorkingNow' \in {WorkingNow, WorkingNow \ {cur}}
    BY <1>0, <1>12, <2>2, <1>W, <2>1 DEF Cancel, Goto, FirstField, DriverStop,
       OwnOperation, OwnQueue, Exclusive, Registered, NowHere, WorksHere,
       AnswerWaits, slot, KernelTypeOK, AsyncTypeOK, Lives, PollSteps,
       DropSteps
  <2>7. Promise!Withdraw(cur)
    BY <1>0, <1>12, <2>2, <2>3, <2>4, <2>5, <2>6 DEF Promise!Withdraw,
       Promise!Advance
  <2> QED BY <2>2, <2>7 DEF Promise!Next
<1>13. CASE Unallow
  <2>1. Waiting' = Waiting
    BY <1>13, <1>S DEF Unallow, SetAllowed, Goto
  <2>2. cur \in Target /\ slot \in Slot
    BY <1>0, <1>13 DEF Unallow, SetAllowed, Goto, AsyncTypeOK, slot
  <2>3. PhasesNow[cur] = "dying" /\ PhasesNow' = PhasesNow
    BY <1>0, <1>13, <2>2 DEF Unallow, SetAllowed, Goto, NowHere, PhaseOf,
       Dropping, slot, KernelTypeOK, AsyncTypeOK, Lives, PollSteps, DropSteps
  <2>4. HeardNow' = HeardNow
    BY <1>0, <1>13, <2>2 DEF Unallow, SetAllowed, Goto, NowHere, HeardHere,
       slot, KernelTypeOK, AsyncTypeOK, Lives, PollSteps, DropSteps
  <2>5. HeldNow' = HeldNow \ {cur}
    BY <1>0, <1>13, <2>2 DEF Unallow, SetAllowed, Goto, Ownership, Exclusive,
       NowHere, HeldHere, slot, KernelTypeOK, AsyncTypeOK, Lives, PollSteps,
       DropSteps
  <2>6. WorkingNow' = WorkingNow
    BY <1>0, <1>13, <2>2, <1>W, <2>1 DEF Unallow, SetAllowed, Goto, NowHere,
       WorksHere, AnswerWaits, slot, KernelTypeOK, AsyncTypeOK, Lives,
       PollSteps, DropSteps
  <2>7. Promise!Withdraw(cur)
    BY <1>0, <1>13, <2>2, <2>3, <2>4, <2>5, <2>6 DEF Promise!Withdraw,
       Promise!Advance
  <2> QED BY <2>2, <2>7 DEF Promise!Next
<1>14. CASE Unsubscribe
  <2>1. Waiting' = {e \in Waiting : e.slot # slot}
    <3>1. cur \in Target /\ slot \in Slot /\ SetUpcall(slot, Null)
      BY <1>0, <1>14 DEF Unsubscribe, AsyncTypeOK, slot
    <3> QED BY <1>0, <3>1, SubscribeWaiting
  <2>2. cur \in Target /\ slot \in Slot
    BY <1>0, <1>14 DEF Unsubscribe, Goto, AsyncTypeOK, slot
  <2>3. PhasesNow[cur] = "dying" /\ PhasesNow' = PhasesNow
    BY <1>0, <1>14, <2>2 DEF Unsubscribe, Goto, NowHere, PhaseOf, Dropping,
       slot, KernelTypeOK, AsyncTypeOK, Lives, PollSteps, DropSteps
  <2>4. HeardNow' = HeardNow \ {cur}
    BY <1>0, <1>14, <2>2 DEF Unsubscribe, Goto, SetUpcall, Ownership,
       Exclusive, NowHere, HeardHere, slot, KernelTypeOK, AsyncTypeOK, Lives,
       PollSteps, DropSteps
  <2>5. HeldNow' = HeldNow
    BY <1>0, <1>14, <2>2 DEF Unsubscribe, Goto, NowHere, HeldHere, slot,
       KernelTypeOK, AsyncTypeOK, Lives, PollSteps, DropSteps
  <2>6. WorkingNow' \in {WorkingNow, WorkingNow \ {cur}}
    <3>1. UNCHANGED <<life, outstanding>>
      BY <1>14 DEF Unsubscribe
    <3>0. PICK c \in Target : c = cur
      BY <2>2
    <3>2. ASSUME NEW f \in Target, f # c PROVE WorksHere(f)' <=> WorksHere(f)
      <4>1. SlotOf[f] = slot /\ SlotOf[f] \notin EventSlot => ~AnswerWaits(f)
        BY <1>0, <1>W, <2>2, <3>0, <3>2 DEF AnswerWaits, OwnQueue, Exclusive,
           AsyncTypeOK, slot
      <4>2. SlotOf[f] # slot /\ SlotOf[f] \notin EventSlot
              => (AnswerWaits(f)' <=> AnswerWaits(f))
        BY <1>0, <2>1 DEF AnswerWaits, OwnQueue
      <4>3. AnswerWaits(f)' => AnswerWaits(f)
        BY <2>1 DEF AnswerWaits
      <4> QED BY <3>1, <4>1, <4>2, <4>3 DEF WorksHere
    <3>3. WorksHere(c)' => WorksHere(c)
      BY <2>1, <3>1 DEF WorksHere, AnswerWaits
    <3>4. CASE WorksHere(c)' <=> WorksHere(c)
      BY <3>2, <3>4 DEF NowHere
    <3>5. CASE ~WorksHere(c)' /\ WorksHere(c)
      <4>1. WorkingNow' = WorkingNow \ {c}
        BY <3>2, <3>5 DEF NowHere
      <4> QED BY <3>0, <4>1
    <3> QED BY <3>3, <3>4, <3>5
  <2>7. Promise!Withdraw(cur)
    BY <1>0, <1>14, <2>2, <2>3, <2>4, <2>5, <2>6 DEF Promise!Withdraw,
       Promise!Advance
  <2> QED BY <2>2, <2>7 DEF Promise!Next
<1>15. CASE Release
  <2>1. Waiting' = Waiting
    BY <1>15, <1>S DEF Release, Return, kernelVars
  <2>2. cur \in Target /\ slot \in Slot
    BY <1>0, <1>15 DEF Release, Return, kernelVars, AsyncTypeOK, slot
  <2>3. PhasesNow[cur] = "dying" /\ PhasesNow' = [PhasesNow EXCEPT ![cur] = "absent"]
    BY <1>0, <1>15, <2>2 DEF Release, Return, kernelVars, NowHere, PhaseOf,
       Dropping, slot, KernelTypeOK, AsyncTypeOK, Lives, PollSteps, DropSteps
  <2>4. HeardNow' = HeardNow
    BY <1>0, <1>15, <2>2 DEF Release, Return, kernelVars, NowHere, HeardHere,
       slot, KernelTypeOK, AsyncTypeOK, Lives, PollSteps, DropSteps
  <2>5. HeldNow' = HeldNow
    BY <1>0, <1>15, <2>2 DEF Release, Return, kernelVars, NowHere, HeldHere,
       slot, KernelTypeOK, AsyncTypeOK, Lives, PollSteps, DropSteps
  <2>6. WorkingNow' = WorkingNow \ {cur}
    BY <1>0, <1>15, <2>2, <1>W, <2>1 DEF Release, Return, kernelVars,
       OwnOperation, OwnQueue, StepOrder, NowHere, WorksHere, AnswerWaits,
       slot, KernelTypeOK, AsyncTypeOK, Lives, PollSteps, DropSteps
  <2>7. cur \notin HeardNow \cup HeldNow
                 \cup (WorkingNow \ {f \in Target : SlotOf[f] \in EventSlot})
    BY <1>0, <1>15, <2>2, <1>W, <2>1 DEF Release, NowHere, HeardHere,
       HeldHere, WorksHere, AnswerWaits, OwnOperation, OwnQueue, StepOrder,
       slot, KernelTypeOK, AsyncTypeOK, Lives, PollSteps, DropSteps
  <2>8. Promise!Destroy(cur)
    BY <1>0, <1>15, <2>2, <2>3, <2>4, <2>5, <2>6, <2>7 DEF Promise!Destroy,
       Promise!Advance
  <2> QED BY <2>2, <2>8 DEF Promise!Next
<1>16. CASE Yield
  <2> DEFINE e == Head(queue)
             t == e.target
  <2>1. /\ e \in Waiting
        /\ Waiting' \subseteq Waiting
        /\ Waiting \subseteq Waiting' \cup {e}
        /\ e.slot \notin EventSlot => \A d \in Waiting' : d.slot # e.slot
    BY <1>0, <1>16, TailWaiting, TailOne DEF Yield
  <2>2. /\ args' = [args EXCEPT ![t] = e.op]
        /\ step = "idle"
        /\ UNCHANGED <<upcall, allowed, outstanding, bytes, life, step, cur>>
    BY <1>16 DEF Yield
  <2> HIDE DEF e
  <2>3. /\ t \in Target /\ e.op \in Target /\ e.slot \in Slot
        /\ upcall[e.slot] = t /\ SlotOf[t] = e.slot
        /\ t \in HeardNow
    BY <1>0, <1>W, <2>1 DEF Ownership, NowHere, HeardHere
  <2> HIDE DEF t
  <2>4. HeardNow' = HeardNow /\ HeldNow' = HeldNow
    BY <2>2 DEF NowHere, HeardHere, HeldHere
  <2>5. e.slot \notin EventSlot => life[t] = "started" /\ args[t] = Null /\ e.op = t
    BY <1>0, <2>1 DEF OwnQueue, t
  <2>6. CASE life[t] = "started" /\ args[t] = Null
    <3>1. /\ PhasesNow[t] = "inFlight"
          /\ PhasesNow' = [PhasesNow EXCEPT ![t] = "answered"]
      BY <1>0, <2>2, <2>3, <2>6 DEF NowHere, PhaseOf, Dropping, DropSteps,
         AsyncTypeOK, Lives
    <3>2. t \in WorkingNow
      BY <1>0, <2>1, <2>2, <2>3, <2>5, <2>6 DEF NowHere, WorksHere, EventsOn,
         Dropping, DropSteps, AnswerWaits, t
    <3>3. WorkingNow' = IF t \in {f \in Target : SlotOf[f] \in EventSlot}
                        THEN WorkingNow ELSE WorkingNow \ {t}
      BY <1>0, <1>W, <2>1, <2>2, <2>3, <2>5, <2>6 DEF NowHere, WorksHere,
         AnswerWaits, OwnQueue, t
    <3>4. Promise!Answer(t)
      BY <2>3, <2>4, <3>1, <3>2, <3>3 DEF Promise!Answer, Promise!Advance
    <3> QED BY <2>3, <3>4 DEF Promise!Next
  <2>7. CASE ~(life[t] = "started" /\ args[t] = Null)
    <3>1. PhasesNow' = PhasesNow
      BY <1>0, <2>2, <2>3, <2>7 DEF NowHere, PhaseOf, Dropping, DropSteps,
         AsyncTypeOK, Lives
    <3>2. WorkingNow' = WorkingNow
      BY <1>0, <1>W, <2>1, <2>2, <2>3, <2>5, <2>7 DEF NowHere, WorksHere,
         AnswerWaits, OwnQueue, t
    <3> QED BY <2>4, <3>1, <3>2
  <2> QED BY <2>6, <2>7
<1>17. ASSUME NEW s \in Slot, Driver(s)
       PROVE  UNCHANGED <<PhasesNow, HeardNow, HeldNow, WorkingNow>>
  <2>1. /\ outstanding[s] # Null /\ queue' = Scheduled(s, outstanding[s])
        /\ outstanding' = IF s \in EventSlot THEN outstanding
                          ELSE [outstanding EXCEPT ![s] = Null]
        /\ UNCHANGED <<upcall, allowed, life, args, step, cur>>
    BY <1>17 DEF Driver, DriverAnswer, asyncVars
  <2>2. Waiting' = IF upcall[s] = Null THEN Waiting
                   ELSE Waiting \cup {[slot |-> s, target |-> upcall[s],
                                       op |-> outstanding[s]]}
    BY <1>0, <2>1, ScheduleWaiting
  <2>3. UNCHANGED <<PhasesNow, HeardNow, HeldNow>>
    BY <2>1 DEF NowHere, PhaseOf, Dropping, HeardHere, HeldHere
  <2>4. ASSUME NEW f \in Target PROVE WorksHere(f)' <=> WorksHere(f)
    <3>1. CASE SlotOf[f] \in EventSlot
      BY <1>0, <2>1, <3>1 DEF WorksHere, KernelTypeOK
    <3>2. CASE SlotOf[f] \notin EventSlot /\ outstanding[s] = f
      <4>1. s = SlotOf[f] /\ upcall[s] = f
        BY <1>0, <2>1, <3>2 DEF OwnOperation, Registered
      <4>2. [slot |-> s, target |-> f, op |-> f] \in Waiting'
        BY <2>2, <3>2, <4>1
      <4> QED BY <3>2, <4>1, <4>2 DEF WorksHere, AnswerWaits
    <3>3. CASE SlotOf[f] \notin EventSlot /\ outstanding[s] # f
      BY <1>0, <2>1, <2>2, <3>3 DEF WorksHere, AnswerWaits, KernelTypeOK
    <3> QED BY <3>1, <3>2, <3>3
  <2> QED BY <2>3, <2>4 DEF NowHere
<1> QED
  BY <1>2, <1>3, <1>4, <1>5, <1>6, <1>7, <1>8, <1>9, <1>10, <1>11, <1>12,
     <1>13, <1>14, <1>15, <1>16, <1>17 DEF Next, InPoll, InDrop

-----------------------------------------------------------------------------
(* Driver futures implement AsyncPromise: the refinement that the run      *)
(* AsyncExclusive checks, for every set of futures and slots.              *)
THEOREM PromiseIsKept == ExclusiveSpec => KeepsPromise
<1>1. Init => Promise!Init
  BY KernelAssumption DEF Init, KernelInit, Promise!Init, PhasesNow, PhaseOf,
     HeardNow, HeldNow, WorkingNow, Working
<1>2. IInv /\ IInv' /\ NowHere /\ NowHere' /\ [Next /\ Exclusive']_vars
        => [Promise!Next]_(Promise!vars)
  <2> SUFFICES ASSUME IInv, IInv', NowHere, NowHere',
                      [Next /\ Exclusive']_vars
               PROVE  [Promise!Next]_(Promise!vars)
    OBVIOUS
  <2>1. CASE Next
    BY <2>1, StepKeeps DEF Promise!vars
  <2>2. CASE UNCHANGED vars
    BY <2>2 DEF Promise!vars, PhasesNow, PhaseOf, Dropping, HeardNow, HeldNow,
       WorkingNow, Working, vars, kernelVars, asyncVars
  <2> QED BY <2>1, <2>2
<1> QED
  BY <1>1, <1>2, AllIsHere, OwnInvariance, PTL
     DEF ExclusiveSpec, KeepsPromise, Promise!Spec
=============================================================================
