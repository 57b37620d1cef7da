------------------------------ MODULE SyncCall ------------------------------
(***************************************************************************)
(* The blocking calls of the driver APIs, over the kernel of TockKernel.   *)
(* They are all one pattern (Console::write, Alarm::sleep_for, KeyValue::  *)
(* get, ...): in a share::scope, lend the buffers, subscribe a cell on the *)
(* stack, give the command, yield until the cell is set, and leave; the    *)
(* scope takes back whatever it may have shared, on every way out.  A      *)
(* listener is a scope too: it subscribes and then runs the application's  *)
(* code until that leaves (Buttons::register_listener in share::scope).    *)
(*                                                                         *)
(* What makes the pattern delicate is that a Yield delivers any upcall.    *)
(* A call that waits may run a listener, which may make a blocking call of *)
(* its own, and so on: the calls in progress are a stack, and each one's   *)
(* answer may arrive during a call above it.                               *)
(***************************************************************************)
EXTENDS TockKernel

CONSTANTS Api,       (* the blocking functions and listeners that are used  *)
          MaxDepth,  (* bound on the stack of calls                         *)
          Reentrant, (* whether a call may be made on a slot that another
                        call on the stack is using                          *)
          Refusals,  (* whether the kernel may refuse a system call         *)
          Prompt     (* slots whose driver answers sooner or later          *)

(* A function is known by its upcall slot, the slots of its buffers in the *)
(* order it lends them, whether it is a listener, and whether it yields    *)
(* until it is called or once.  The buffer of the upcall slot itself is    *)
(* the one the driver fills.                                               *)
ApiRecord ==
    [slot : Slot, lends : Seq(Slot), listener : BOOLEAN, loops : BOOLEAN]

ASSUME SyncAssumption ==
    /\ MaxDepth \in Nat
    /\ Target = 1..MaxDepth
    /\ Api \subseteq ApiRecord
    /\ Reentrant \in BOOLEAN /\ Refusals \in BOOLEAN
    /\ Prompt \subseteq Slot

(* What the functions and listeners of apis keep to, all but one: a call   *)
(* that waits yields until it is called, only listeners use a slot that    *)
(* reports events, and a buffer a driver answers into is lent by calls of  *)
(* that driver's slot alone.                                               *)
Disciplined(apis, events) ==
    \A a \in apis :
        /\ a.loops
        /\ a.listener <=> a.slot \in events
        /\ \A b \in apis, i \in 1..Len(a.lends) :
              a.lends[i] = b.slot => a.slot = b.slot

VARIABLES depth,   (* calls in progress                                     *)
          frame,   (* the stack frame of each call; a target is its place   *)
          reported (* slots Config::returned_nonnull_upcall was called for  *)

syncVars == <<depth, frame, reported>>
vars == <<kernelVars, syncVars>>

Stages == {"lend", "subscribe", "command", "wait", "woken", "open",
           "unlend", "unsubscribe"}

(* at is the call's program counter, next the buffer it is lending or      *)
(* taking back, got what the last upcall it received answers, and accepted *)
(* whether the driver took its command.                                    *)
Frames ==
    [api : Api, at : Stages, next : Nat, got : Target \cup {Null},
     accepted : BOOLEAN]

NoFrame == [at |-> "none"]

(* Type correctness; the frames in use are the first depth ones.           *)
SyncTypeOK ==
    /\ KernelTypeOK
    /\ depth \in 0..MaxDepth
    /\ frame \in [Target -> Frames \cup {NoFrame}]
    /\ \A d \in Target : d <= depth <=> frame[d] # NoFrame
    /\ reported \subseteq Slot

Init ==
    /\ KernelInit
    /\ depth = 0
    /\ frame = [d \in Target |-> NoFrame]
    /\ reported = {}

top == frame[depth]
api == top.api

Goto(stage) == frame' = [frame EXCEPT ![depth].at = stage]

-----------------------------------------------------------------------------
(* A new call of a on top of the frames f, its cell empty.                 *)
Push(f, a) ==
    /\ depth < MaxDepth
    /\ Reentrant \/ \A d \in 1..depth : frame[d].api.slot # a.slot
    /\ depth' = depth + 1
    /\ frame' = [f EXCEPT ![depth + 1] =
                    [api |-> a,
                     at |-> IF a.lends = << >> THEN "subscribe" ELSE "lend",
                     next |-> 1, got |-> Null, accepted |-> FALSE]]
    /\ bytes' = [bytes EXCEPT ![depth + 1] = Null]

(* Wrong on purpose: the early return skips the buffers.                   *)
LeaveSkipsBuffers ==
    frame' = [frame EXCEPT ![depth].at = "unsubscribe", ![depth].next = 1]

(* The scope's list is dropped: its fields in order, the buffers first.    *)
Leave ==
    frame' = [frame EXCEPT
                 ![depth].at = IF api.lends = << >> THEN "unsubscribe"
                               ELSE "unlend",
                 ![depth].next = 1]

(* The application calls a function, at its outermost level or while it    *)
(* has a listener registered.                                              *)
Call(a) ==
    /\ depth > 0 => top.at = "open"
    /\ Push(frame, a)
    /\ UNCHANGED <<upcall, queue, allowed, outstanding, reported>>

Lend ==
    /\ top.at = "lend"
    /\ SetAllowed(api.lends[top.next], depth)
    /\ frame' = [frame EXCEPT
                    ![depth].at = IF top.next = Len(api.lends)
                                  THEN "subscribe" ELSE "lend",
                    ![depth].next = top.next + 1]
    /\ UNCHANGED <<upcall, queue, outstanding, bytes, depth, reported>>

(* Wrong on purpose: an upcall that is replaced is not reported.           *)
SubscribeSilent ==
    /\ top.at = "subscribe"
    /\ SetUpcall(api.slot, depth)
    /\ Goto(IF api.listener THEN "open" ELSE "command")
    /\ UNCHANGED <<allowed, outstanding, bytes, depth, reported>>

(* The kernel returns the upcall it replaced, and subscribe reports it if  *)
(* it was not null.                                                        *)
Subscribe ==
    /\ top.at = "subscribe"
    /\ SetUpcall(api.slot, depth)
    /\ reported' = IF upcall[api.slot] = Null THEN reported
                   ELSE reported \cup {api.slot}
    /\ Goto(IF api.listener THEN "open" ELSE "command")
    /\ UNCHANGED <<allowed, outstanding, bytes, depth>>

Command ==
    /\ top.at = "command"
    /\ DriverStart(api.slot, depth)
    /\ frame' = [frame EXCEPT ![depth].at = "wait", ![depth].accepted = TRUE]
    /\ UNCHANGED <<upcall, queue, allowed, bytes, depth, reported>>

(* A system call fails and the ? operator returns.                         *)
Refuse ==
    /\ Refusals
    /\ top.at \in {"lend", "subscribe", "command"}
    /\ Leave
    /\ UNCHANGED <<kernelVars, depth, reported>>

-----------------------------------------------------------------------------
(* Wrong on purpose: only the call that yielded gets its upcall.           *)
DeliverTopOnly(e, f) ==
    IF frame[e.target].api.listener
    THEN \/ frame' = f /\ UNCHANGED <<depth, bytes>>
         \/ \E a \in Api : ~a.listener /\ Push(f, a)
    ELSE /\ frame' = IF e.target = depth THEN [f EXCEPT ![depth].got = e.op]
                     ELSE f
         /\ UNCHANGED <<depth, bytes>>

(* The upcall of queue entry e runs, over the frames f.  A call's cell is  *)
(* set, whichever call on the stack it belongs to; a listener may make a   *)
(* blocking call before it returns.                                        *)
Deliver(e, f) ==
    IF frame[e.target].api.listener
    THEN \/ frame' = f /\ UNCHANGED <<depth, bytes>>
         \/ \E a \in Api : ~a.listener /\ Push(f, a)
    ELSE /\ frame' = [f EXCEPT ![e.target].got = e.op]
         /\ UNCHANGED <<depth, bytes>>

(* yield_wait, in a call's loop or in the application's.                   *)
Yield ==
    /\ top.at \in {"wait", "open"}
    /\ queue # << >>
    /\ Deliver(Head(queue),
               IF top.at = "open" THEN frame
               ELSE [frame EXCEPT ![depth].at = "woken"])
    /\ queue' = Tail(queue)
    /\ UNCHANGED <<upcall, allowed, outstanding, reported>>

(* Wrong on purpose: an upcall, any upcall, ends the wait.                 *)
WokenByAny ==
    /\ top.at = "woken"
    /\ Leave
    /\ UNCHANGED <<kernelVars, depth, reported>>

(* The cell is looked at: the call returns when it is set, and yields      *)
(* again when it is not, if it is one that loops.                          *)
Woken ==
    /\ top.at = "woken"
    /\ IF top.got = Null /\ api.loops THEN Goto("wait") ELSE Leave
    /\ UNCHANGED <<kernelVars, depth, reported>>

(* The application, with its listener registered, tells the driver to      *)
(* start or stop (Buttons::enable_interrupts), or is done with it.         *)
Control ==
    /\ top.at = "open"
    /\ \/ DriverStart(api.slot, depth) /\ UNCHANGED <<queue, frame>>
       \/ DriverStop(api.slot) /\ UNCHANGED frame
       \/ Leave /\ UNCHANGED <<queue, outstanding>>
    /\ UNCHANGED <<upcall, allowed, bytes, depth, reported>>

-----------------------------------------------------------------------------
(* AllowRo::drop and AllowRw::drop, whether or not the buffer was lent.    *)
Unlend ==
    /\ top.at = "unlend"
    /\ SetAllowed(api.lends[top.next], Null)
    /\ frame' = [frame EXCEPT
                    ![depth].at = IF top.next = Len(api.lends)
                                  THEN "unsubscribe" ELSE "unlend",
                    ![depth].next = top.next + 1]
    /\ UNCHANGED <<upcall, queue, outstanding, bytes, depth, reported>>

(* Subscribe::drop, whether or not the call subscribed; then the frame is  *)
(* popped.                                                                 *)
Unsubscribe ==
    /\ top.at = "unsubscribe"
    /\ SetUpcall(api.slot, Null)
    /\ frame' = [frame EXCEPT ![depth] = NoFrame]
    /\ depth' = depth - 1
    /\ UNCHANGED <<allowed, outstanding, bytes, reported>>

(* One step of the call on top of the stack.                               *)
Step ==
    /\ depth > 0
    /\ \/ Lend \/ Subscribe \/ Command \/ Refuse \/ Woken
       \/ Unlend \/ Unsubscribe
       \/ top.at = "wait" /\ Yield

(* A step of the application's own code.                                   *)
App ==
    \/ \E a \in Api : Call(a)
    \/ depth > 0 /\ Control
    \/ depth > 0 /\ top.at = "open" /\ Yield

Driver(s) == DriverAnswer(s) /\ UNCHANGED syncVars

Next == Step \/ App \/ \E s \in Slot : Driver(s)

Spec == Init /\ [][Next]_vars

(* A call in progress goes on, and the drivers of Prompt answer.  The      *)
(* application need not call or press anything.                            *)
FairSpec ==
    /\ Spec
    /\ WF_vars(Step)
    /\ \A s \in Prompt : WF_vars(Driver(s))

-----------------------------------------------------------------------------
Stage(d) == frame[d].at

(* The kernel's registrations and its queue refer to frames that are on    *)
(* the stack, of calls of that very slot that have subscribed and not yet  *)
(* returned: "upcall is a reference to an instance of U that will remain   *)
(* valid until the 'scope lifetime" (syscalls_impl.rs).                    *)
UpcallLive(s, d) ==
    /\ d \in 1..depth
    /\ frame[d].api.slot = s
    /\ Stage(d) \notin {"lend", "subscribe"}

NoDanglingUpcall ==
    /\ \A s \in Slot : upcall[s] # Null => UpcallLive(s, upcall[s])
    /\ \A i \in 1..Len(queue) : UpcallLive(queue[i].slot, queue[i].target)

(* A driver holds a buffer only while the call that lent it is between its *)
(* allow and the drop of that share.                                       *)
LentBy(s, d) ==
    /\ d \in 1..depth
    /\ \E i \in 1..Len(frame[d].api.lends) :
          /\ frame[d].api.lends[i] = s
          /\ Stage(d) = "lend" => i < frame[d].next
          /\ Stage(d) = "unlend" => i >= frame[d].next
    /\ Stage(d) # "unsubscribe"

NoDanglingBuffer ==
    \A s \in Slot : allowed[s] # Null => LentBy(s, allowed[s])

(* A call whose command was accepted returns with the answer to its own    *)
(* command, and with what its driver wrote for it: "Returns                *)
(* Ok(proximity_value) if the operation was successful"                    *)
(* (sensors/proximity/src/lib.rs:35).                                      *)
OwnAnswer ==
    \A d \in 1..depth :
        Stage(d) \in {"unlend", "unsubscribe"} /\ frame[d].accepted =>
            /\ frame[d].got = d
            /\ \A i \in 1..Len(frame[d].api.lends) :
                  frame[d].api.lends[i] = frame[d].api.slot => bytes[d] = d

(* A call that has returned has left no operation running and no upcall    *)
(* queued: returning early "would let the next screen call arrive while    *)
(* this one is still running" (display/screen/src/lib.rs:32).              *)
NothingLeft ==
    /\ \A s \in Slot \ EventSlot :
          outstanding[s] # Null => outstanding[s] \in 1..depth
    /\ \A i \in 1..Len(queue) :
          queue[i].slot \notin EventSlot =>
              /\ queue[i].op = queue[i].target
              /\ outstanding[queue[i].slot] = Null

(* Every blocking call returns, whatever listeners run inside it and       *)
(* whatever calls those make.                                              *)
CallsReturn == \A d \in Target : Stage(d) = "wait" ~> depth < d

(* A call that can never be answered, because another call of its slot     *)
(* took its registration, was reported: "In some applications, this may    *)
(* indicate unexpected reentrance" (platform/src/subscribe.rs:219).        *)
StuckWasReported ==
    \A d \in 1..depth :
        /\ Stage(d) = "wait"
        /\ frame[d].got = Null
        /\ upcall[frame[d].api.slot] # d
        => frame[d].api.slot \in reported
=============================================================================
