------------------------------ MODULE AsyncCall ------------------------------
(***************************************************************************)
(* The two futures of platform/src/async_call.rs, Call and BufferedCall,   *)
(* over the kernel of TockKernel.  The process is single-threaded: it is   *)
(* idle, or inside one poll or one drop of one future, which step and cur  *)
(* record.  Every step is at most one system call long, so the drivers,    *)
(* which run between system calls, interleave with the middle of a poll    *)
(* and of a drop.  The application is the most general one: it creates,    *)
(* polls, yields and drops in any order that safe Rust allows.             *)
(*                                                                         *)
(* A future is a place in memory.  Dropping it frees the place, and a new  *)
(* future may be created there later; the kernel knows it by address only. *)
(***************************************************************************)
EXTENDS TockKernel

CONSTANTS SlotOf,   (* the slot each future's type fixes                    *)
          Buffered  (* slots whose futures are BufferedCalls: none is an
                       event slot, the one BufferedCall is console's Read   *)

ASSUME AsyncAssumption ==
    /\ SlotOf \in [Target -> Slot]
    /\ Buffered \subseteq Slot \ EventSlot

VARIABLES life,  (* free, or how far the future has come                    *)
          args,  (* Shared::args: None, or whose operation the stored
                    arguments answer                                        *)
          wake,  (* Shared::waker, and whether it has been woken            *)
          step,  (* where in a poll or a drop the process is                *)
          cur    (* the future being polled or dropped                      *)

asyncVars == <<life, args, wake, step, cur>>
vars == <<kernelVars, asyncVars>>

Lives == {"free", "fresh", "started", "done", "failed"}

PollSteps == {"allow", "subscribe", "start", "park", "finish", "complete"}

DropSteps == {"cancel", "unallow", "unsubscribe", "release"}

AsyncTypeOK ==
    /\ life \in [Target -> Lives]
    /\ args \in [Target -> Target \cup {Null}]
    /\ wake \in [Target -> {"none", "stored", "woken"}]
    /\ step \in {"idle"} \cup PollSteps \cup DropSteps
    /\ cur \in Target \cup {Null}
    /\ step = "idle" <=> cur = Null
    /\ cur # Null => life[cur] # "free"

(* Type correctness of the kernel tables and of the process, with the one  *)
(* structural fact that a poll or a drop in progress is of a live future.  *)
TypeOK == KernelTypeOK /\ AsyncTypeOK

Init ==
    /\ KernelInit
    /\ life = [f \in Target |-> "free"]
    /\ args = [f \in Target |-> Null]
    /\ wake = [f \in Target |-> "none"]
    /\ step = "idle"
    /\ cur = Null

slot == SlotOf[cur]

(* The current poll or drop goes on to step st, or is over.                *)
Goto(st) == step' = st /\ UNCHANGED cur
Return == step' = "idle" /\ cur' = Null

-----------------------------------------------------------------------------
(* Call::new and BufferedCall::new.  No system call is made.               *)
New(f) ==
    /\ step = "idle"
    /\ life[f] = "free"
    /\ life' = [life EXCEPT ![f] = "fresh"]
    /\ args' = [args EXCEPT ![f] = Null]
    /\ wake' = [wake EXCEPT ![f] = "none"]
    /\ bytes' = [bytes EXCEPT ![f] = Null]
    /\ UNCHANGED <<upcall, queue, allowed, outstanding, step, cur>>

(* Wrong on purpose: arguments are interpreted with the buffer still lent. *)
FinishingAtOnce(f) == "complete"

(* What a poll does once it has found arguments: a BufferedCall goes       *)
(* through finish, which takes the buffer back first.                      *)
Finishing(f) == IF SlotOf[f] \in Buffered THEN "finish" ELSE "complete"

(* Wrong on purpose: a poll that never lends the buffer, and one that      *)
(* starts an unbuffered operation before it has subscribed.                *)
SharingNoBuffer(f) == "subscribe"
SharingAfterStart(f) == IF SlotOf[f] \in Buffered THEN "allow" ELSE "start"

(* The first call that shares something with the kernel.                   *)
Sharing(f) == IF SlotOf[f] \in Buffered THEN "allow" ELSE "subscribe"

(* Wrong on purpose: started is not looked at, and every poll without      *)
(* arguments subscribes and starts again.                                  *)
PollRestarts(f) ==
    /\ step = "idle"
    /\ life[f] \in {"fresh", "started"}
    /\ cur' = f
    /\ step' = IF args[f] # Null THEN Finishing(f) ELSE Sharing(f)
    /\ UNCHANGED <<kernelVars, life, args, wake>>

(* poll, up to the first system call.  A future that has returned Ready is *)
(* not polled again: that is the contract of core::future::Future.         *)
Poll(f) ==
    /\ step = "idle"
    /\ life[f] \in {"fresh", "started"}
    /\ cur' = f
    /\ step' = IF args[f] # Null THEN Finishing(f)
               ELSE IF life[f] = "fresh" THEN Sharing(f)
               ELSE "park"
    /\ UNCHANGED <<kernelVars, life, args, wake>>

(* Any of allow_rw, subscribe and start may fail; `?` makes the poll       *)
(* Ready(Err), with started still false.  What was shared before stays     *)
(* shared until the future is dropped.                                     *)
Fail ==
    /\ step \in {"allow", "subscribe", "start"}
    /\ life' = [life EXCEPT ![cur] = "failed"]
    /\ Return
    /\ UNCHANGED <<kernelVars, args, wake>>

AllowBuffer ==
    /\ step = "allow"
    /\ SetAllowed(slot, cur)
    /\ Goto("subscribe")
    /\ UNCHANGED <<upcall, queue, outstanding, bytes, life, args, wake>>

Register ==
    /\ step = "subscribe"
    /\ SetUpcall(slot, cur)
    /\ Goto("start")
    /\ UNCHANGED <<allowed, outstanding, bytes, life, args, wake>>

(* Wrong on purpose: the poll that starts the operation returns Pending    *)
(* without having stored the waker.                                        *)
StartUnparked ==
    /\ step = "start"
    /\ DriverStart(slot, cur)
    /\ life' = [life EXCEPT ![cur] = "started"]
    /\ Return
    /\ UNCHANGED <<upcall, queue, allowed, bytes, args, wake>>

(* Operation::start succeeds.                                              *)
Start ==
    /\ step = "start"
    /\ DriverStart(slot, cur)
    /\ life' = [life EXCEPT ![cur] = "started"]
    /\ Goto("park")
    /\ UNCHANGED <<upcall, queue, allowed, bytes, args, wake>>

(* store_waker, and the second look at the arguments.                      *)
Park ==
    /\ step = "park"
    /\ wake' = [wake EXCEPT ![cur] = "stored"]
    /\ IF args[cur] = Null THEN Return ELSE Goto(Finishing(cur))
    /\ UNCHANGED <<kernelVars, life, args>>

(* finish, first half: the buffer comes back before anybody reads it.      *)
Finish ==
    /\ step = "finish"
    /\ SetAllowed(slot, Null)
    /\ Goto("complete")
    /\ UNCHANGED <<upcall, queue, outstanding, bytes, life, args, wake>>

(* Wrong on purpose: an edge that completes leaves its interrupt enabled.  *)
CompleteEnabled ==
    /\ step = "complete"
    /\ life' = [life EXCEPT ![cur] = "done"]
    /\ Return
    /\ UNCHANGED <<kernelVars, args, wake>>

(* Operation::complete and Ready.  EdgeOp's, over an event driver, stops   *)
(* the events; the others only interpret the arguments.                    *)
Complete ==
    /\ step = "complete"
    /\ life' = [life EXCEPT ![cur] = "done"]
    /\ outstanding' = IF slot \in EventSlot
                      THEN [outstanding EXCEPT ![slot] = Null]
                      ELSE outstanding
    /\ Return
    /\ UNCHANGED <<upcall, queue, allowed, bytes, args, wake>>

-----------------------------------------------------------------------------
(* Wrong on purpose: the buffer is taken back only from a future whose     *)
(* operation was started.                                                  *)
FirstFieldIfStarted(f) ==
    IF SlotOf[f] \in Buffered /\ life[f] = "started" THEN "unallow"
    ELSE "unsubscribe"

(* The first field of a future that its drop glue drops.                   *)
FirstField(f) == IF SlotOf[f] \in Buffered THEN "unallow" ELSE "unsubscribe"

(* Wrong on purpose: only a Call cancels when it is dropped.               *)
OutstandingCall(f) ==
    SlotOf[f] \notin Buffered /\ life[f] = "started" /\ args[f] = Null

(* started && shared.args.get().is_none() in both Drop implementations.    *)
Outstanding(f) == life[f] \in {"started", "done"} /\ args[f] = Null

(* Dropping a future, at any point of its life.                            *)
Drop(f) ==
    /\ step = "idle"
    /\ life[f] # "free"
    /\ cur' = f
    /\ step' = IF Outstanding(f) THEN "cancel" ELSE FirstField(f)
    /\ UNCHANGED <<kernelVars, life, args, wake>>

Cancel ==
    /\ step = "cancel"
    /\ DriverStop(slot)
    /\ Goto(FirstField(cur))
    /\ UNCHANGED <<upcall, allowed, bytes, life, args, wake>>

(* AllowRw::drop, then Subscribe::drop, in the order of the fields.  Both  *)
(* run for every future, also for one that was never polled.               *)
Unallow ==
    /\ step = "unallow"
    /\ SetAllowed(slot, Null)
    /\ Goto("unsubscribe")
    /\ UNCHANGED <<upcall, queue, outstanding, bytes, life, args, wake>>

Unsubscribe ==
    /\ step = "unsubscribe"
    /\ SetUpcall(slot, Null)
    /\ Goto("release")
    /\ UNCHANGED <<allowed, outstanding, bytes, life, args, wake>>

(* shared and buffer are gone, and the memory may be used again.           *)
Release ==
    /\ step = "release"
    /\ life' = [life EXCEPT ![cur] = "free"]
    /\ Return
    /\ UNCHANGED <<kernelVars, args, wake>>

-----------------------------------------------------------------------------
(* A Yield that finds an upcall: kernel_upcall calls Shared::upcall, which *)
(* stores the arguments, takes the waker and wakes it.  A yield-wait with  *)
(* an empty queue sleeps.                                                  *)
Yield ==
    /\ step = "idle"
    /\ queue # << >>
    /\ LET e == Head(queue)
       IN  /\ args' = [args EXCEPT ![e.target] = e.op]
           /\ wake' = [wake EXCEPT ![e.target] =
                         IF @ = "stored" THEN "woken" ELSE @]
    /\ queue' = Tail(queue)
    /\ UNCHANGED <<upcall, allowed, outstanding, bytes, life, step, cur>>

Driver(s) == DriverAnswer(s) /\ UNCHANGED asyncVars

InPoll ==
    \/ AllowBuffer \/ Register \/ Start \/ Fail
    \/ Park \/ Finish \/ Complete

InDrop == Cancel \/ Unallow \/ Unsubscribe \/ Release

Next ==
    \/ \E f \in Target : New(f) \/ Poll(f) \/ Drop(f)
    \/ InPoll
    \/ InDrop
    \/ Yield
    \/ \E s \in Slot : Driver(s)

Spec == Init /\ [][Next]_vars
-----------------------------------------------------------------------------
(***************************************************************************)
(* Memory safety: what the unsafe code of async_call.rs claims.  It holds  *)
(* for every application, also one that breaks the one-future-per-slot     *)
(* rule that the documentation asks for.  So does what an executor needs.  *)
(***************************************************************************)

(* The kernel never holds a pointer to the Shared of a future that is      *)
(* gone, neither as a registration nor in an upcall that is still queued:  *)
(* Subscribe drops before shared ("which must happen while the upcall      *)
(* target is still valid", async_call.rs:116).                             *)
NoDanglingUpcall ==
    /\ \A s \in Slot : upcall[s] # Null => life[upcall[s]] # "free"
    /\ \A i \in 1..Len(queue) : life[queue[i].target] # "free"

(* No driver holds the buffer of a future that is gone: AllowRw drops      *)
(* before buffer (async_call.rs:204).                                      *)
NoDanglingBuffer ==
    \A s \in Slot : allowed[s] # Null => life[allowed[s]] # "free"

(* While Operation::complete reads the buffer, and once it has been        *)
(* returned, no driver holds it: "while a buffer is allowed the kernel     *)
(* holds a mutable alias to it" (async_call.rs:241).                       *)
BufferExclusive ==
    \A s \in Slot, f \in Target :
        allowed[s] = f => /\ ~(step = "complete" /\ cur = f)
                          /\ life[f] # "done"

(* An executor that polls only what was woken misses nothing: a parked     *)
(* future either has its waker stored and no arguments yet, or has         *)
(* arguments and its waker was woken.                                      *)
WakeNotLost ==
    \A f \in Target :
        life[f] = "started" /\ cur # f
            => wake[f] = IF args[f] = Null THEN "stored" ELSE "woken"

-----------------------------------------------------------------------------
(***************************************************************************)
(* What a future promises when its slot is its own: at most one future of  *)
(* a slot exists at a time.                                                *)
(***************************************************************************)
Exclusive ==
    \A f, g \in Target :
        f # g /\ SlotOf[f] = SlotOf[g] => life[f] = "free" \/ life[g] = "free"

(* The weaker rule that the documentation states: "Only one Sleep may be   *)
(* polled at a time" (alarm/src/lib.rs:141).  Futures of the slot that     *)
(* were never polled may come and go.                                      *)
Polled(f) ==
    \/ life[f] \in {"started", "done", "failed"}
    \/ cur = f /\ step \in PollSteps

OnePolled ==
    \A f, g \in Target :
        f # g /\ SlotOf[f] = SlotOf[g] => ~Polled(f) \/ ~Polled(g)

OnePolledSpec == Init /\ [][Next /\ OnePolled']_vars

ExclusiveSpec == Init /\ [][Next /\ Exclusive']_vars

Dropping(f) == cur = f /\ step \in DropSteps

Answered(f) == \E i \in 1..Len(queue) : queue[i].target = f /\ queue[i].op = f

(* A started future without arguments is still registered, and its         *)
(* operation is outstanding at the driver or its upcall is queued.  A      *)
(* future that is neither would sleep forever, whatever the driver does.   *)
NothingLost ==
    \A f \in Target :
        life[f] = "started" /\ args[f] = Null /\ ~Dropping(f)
            => /\ upcall[SlotOf[f]] = f
               /\ outstanding[SlotOf[f]] = f \/ Answered(f)

(* The arguments a future completes with answer the operation it started,  *)
(* never one left over from a future dropped earlier on the same slot      *)
(* (async_call.rs:47, "Any upcall this provokes is discarded").  An edge   *)
(* answers no command: gpio/src/lib.rs:301 lets any enabled pin resolve    *)
(* the future, so this is said of the other slots.                         *)
CompletionIsOwn ==
    \A f \in Target :
        /\ life[f] # "free"
        /\ SlotOf[f] \notin EventSlot
        /\ args[f] # Null
        => args[f] = f

(* The bytes a BufferedCall hands to complete were written for the         *)
(* operation the arguments answer.                                         *)
BytesMatchArgs ==
    step = "complete" /\ slot \in Buffered => bytes[cur] = args[cur]

(* A dropped future leaves nothing behind: no operation at the driver (no  *)
(* armed alarm, no receive with nowhere to put the bytes, no turning       *)
(* motor) and no queued upcall.  Interrupts are the exception, see below.  *)
NoOrphan ==
    \A f \in Target :
        life[f] = "free" /\ SlotOf[f] \notin EventSlot =>
            /\ outstanding[SlotOf[f]] # f
            /\ \A i \in 1..Len(queue) : queue[i].op # f

(* The same of an enabled interrupt, as the comment on EdgeOp::complete    *)
(* claims: it "keeps the enable exactly as long as the future, whichever   *)
(* way the future ends" (gpio/src/lib.rs:283).                             *)
EnableEndsWithFuture ==
    \A f \in Target :
        life[f] = "free" /\ SlotOf[f] \in EventSlot => outstanding[SlotOf[f]] # f

-----------------------------------------------------------------------------
(***************************************************************************)
(* The refinement of AsyncPromise.                                         *)
(***************************************************************************)
PhaseOf(f) ==
    IF life[f] = "free" THEN "absent"
    ELSE IF Dropping(f) THEN "dying"
    ELSE CASE life[f] = "fresh" -> "idle"
           [] life[f] = "started" ->
                IF args[f] = Null THEN "inFlight" ELSE "answered"
           [] life[f] = "done" -> "ready"
           [] life[f] = "failed" -> "failed"

(* An interrupt left on by a future that is gone is not that future's work *)
(* any more, nor that of the next one before it enables its own.           *)
Working(f) ==
    IF SlotOf[f] \in EventSlot
    THEN life[f] \in {"started", "done"} /\ outstanding[SlotOf[f]] = f
    ELSE \/ \E s \in Slot : outstanding[s] = f
         \/ \E i \in 1..Len(queue) : queue[i].op = f

PhasesNow == [f \in Target |-> PhaseOf(f)]
HeardNow == {f \in Target : \E s \in Slot : upcall[s] = f}
HeldNow == {f \in Target : \E s \in Slot : allowed[s] = f}
WorkingNow == {f \in Target : Working(f)}

Promise == INSTANCE AsyncPromise WITH
    Future <- Target,
    Repeating <- {f \in Target : SlotOf[f] \in EventSlot},
    phase <- PhasesNow,
    heard <- HeardNow,
    held <- HeldNow,
    working <- WorkingNow

(* Every step of the futures, the kernel and the drivers is a step that    *)
(* AsyncPromise allows, or changes nothing it can see.                     *)
KeepsPromise == Promise!Spec
=============================================================================
