------------------------------- MODULE RxRing -------------------------------
(***************************************************************************)
(* Reception in apis/net/ieee802154/src/rx.rs: a process that calls        *)
(* RxSingleBufferOperator::receive_frame again and again, and the radio    *)
(* driver, whose side of the ring is the code the fake of unittest took    *)
(* from the capsule.  The ring is lent to the driver only while the        *)
(* process waits; its two indices are bytes.  Frames are numbered in the   *)
(* order the radio receives them.                                          *)
(***************************************************************************)
EXTENDS Integers, Sequences

CONSTANTS N,         (* slots of the ring, the N of RxRingBuffer<N>         *)
          Byte,      (* values of an index: 256                             *)
          MaxFrames  (* bound on the frames the radio receives              *)

(* N is a usize that nothing in the code bounds: from 256 on, N as u8 and  *)
(* the driver's own N disagree, and N = 1 has no room for a frame.         *)
RingAssumption == Byte \in Nat /\ N \in 2..(Byte - 1) /\ MaxFrames \in Nat

VARIABLES read,      (* read_index                                          *)
          write,     (* write_index                                         *)
          slot,      (* frames; 0 is a slot never written                   *)
          lent,      (* the driver holds the ring                           *)
          listening, (* an upcall is registered                             *)
          queued,    (* upcalls scheduled and not delivered                 *)
          called,    (* the Cell of receive_frame_single_buf                *)
          at,        (* where the process is                                *)
          air,       (* frames the radio has received                       *)
          early,     (* one came after the ring was lent, before listening  *)
          frame      (* what receive_frame returned last                    *)

ring == <<read, write, slot>>
call == <<lent, listening, queued, called>>
vars == <<ring, call, at, air, early, frame>>

Init ==
    /\ read = 0 /\ write = 0 /\ slot = [i \in 0..(N - 1) |-> 0]
    /\ lent = FALSE /\ listening = FALSE /\ queued = 0 /\ called = FALSE
    /\ at = "app" /\ air = 0 /\ early = FALSE /\ frame = 0

HasFrame == read # write

-----------------------------------------------------------------------------
(* Wrong on purpose: the index of the reader wraps one slot late.          *)
NextFrameLate ==
    /\ frame' = slot[read]
    /\ read' = IF read = N - 1 THEN N - 1 ELSE read + 1
    /\ UNCHANGED <<write, slot>>

NextFrame ==
    /\ frame' = slot[read]
    /\ read' = (read + 1) % (N % Byte)
    /\ UNCHANGED <<write, slot>>

(* receive_frame with a frame at hand returns it without a system call.    *)
ReceiveAtOnce ==
    /\ at = "app" /\ HasFrame
    /\ NextFrame
    /\ UNCHANGED <<call, at, air, early>>

ReceiveFrame ==
    /\ at = "app" /\ ~HasFrame
    /\ called' = FALSE /\ at' = "lend"
    /\ UNCHANGED <<ring, lent, listening, queued, air, early, frame>>

(* Allow and subscribe may be refused; the scope is left by the ? then.    *)
Lend ==
    /\ at = "lend"
    /\ \/ lent' = TRUE /\ at' = "listen"
       \/ lent' = FALSE /\ at' = "unlend"
    /\ early' = FALSE
    /\ UNCHANGED <<ring, listening, queued, called, air, frame>>

Listen ==
    /\ at = "listen"
    /\ \/ listening' = TRUE /\ at' = "wait"
       \/ listening' = FALSE /\ at' = "unlend"
    /\ UNCHANGED <<ring, lent, queued, called, air, early, frame>>

(* Wrong on purpose: the upcall does not tell the loop.                    *)
YieldWaitMisses ==
    /\ at = "wait" /\ queued > 0
    /\ queued' = queued - 1
    /\ at' = "unlend"
    /\ UNCHANGED <<ring, lent, listening, called, air, early, frame>>

YieldWait ==
    /\ at = "wait" /\ queued > 0
    /\ queued' = queued - 1
    /\ called' = TRUE
    /\ at' = "unlend"
    /\ UNCHANGED <<ring, lent, listening, air, early, frame>>

(* The scope ends: the ring is taken back, then the upcall is unregistered *)
(* and what is queued for it goes.                                         *)
Unlend ==
    /\ at = "unlend"
    /\ lent' = FALSE /\ at' = "unlisten"
    /\ UNCHANGED <<ring, listening, queued, called, air, early, frame>>

Unlisten ==
    /\ at = "unlisten"
    /\ listening' = FALSE /\ queued' = 0
    /\ at' = IF called THEN "take" ELSE "app"
    /\ UNCHANGED <<ring, lent, called, air, early, frame>>

(* "kernel schedules an upcall iff a new frame becomes available".         *)
Take ==
    /\ at = "take"
    /\ NextFrame
    /\ at' = "app"
    /\ UNCHANGED <<call, air, early>>

Process ==
    \/ ReceiveAtOnce \/ ReceiveFrame \/ Lend \/ Listen \/ YieldWait
    \/ Unlend \/ Unlisten \/ Take

-----------------------------------------------------------------------------
(* Wrong on purpose: the oldest frame is overwritten and read last.        *)
PutNoOverwrite(f) ==
    /\ slot' = [slot EXCEPT ![write] = f]
    /\ write' = (write + 1) % N
    /\ UNCHANGED read

(* phy_driver_receive_frame: the slot at write_index is filled, and when   *)
(* that leaves the ring looking empty the oldest frame gives way.          *)
Put(f) ==
    LET w == (write + 1) % N
    IN  /\ slot' = [slot EXCEPT ![write] = f]
        /\ write' = w % Byte
        /\ read' = IF w = read THEN ((read + 1) % N) % Byte ELSE read

(* The radio receives a frame.  With no ring to put it in it is dropped,   *)
(* and the process is told only of a frame that was put.                   *)
RadioReceive ==
    /\ air < MaxFrames
    /\ air' = air + 1
    /\ IF lent
       THEN /\ Put(air')
            /\ queued' = IF listening THEN queued + 1 ELSE queued
            /\ early' = (early \/ ~listening)
       ELSE UNCHANGED <<ring, queued, early>>
    /\ UNCHANGED <<lent, listening, called, at, frame>>

Next == Process \/ RadioReceive

(* The process runs when it is not asleep; nothing need be received.       *)
Spec == Init /\ [][Next]_vars /\ WF_vars(Process)

-----------------------------------------------------------------------------
TypeOK ==
    /\ read \in 0..(N - 1) /\ write \in 0..(N - 1)
    /\ slot \in [0..(N - 1) -> 0..MaxFrames]
    /\ lent \in BOOLEAN /\ listening \in BOOLEAN /\ called \in BOOLEAN
    /\ early \in BOOLEAN
    /\ queued \in 0..MaxFrames /\ air \in 0..MaxFrames /\ frame \in 0..MaxFrames
    /\ at \in {"app", "lend", "listen", "wait", "unlend", "unlisten", "take"}

(* Frames between the two indices, oldest first.                           *)
Pending == [k \in 1..((write - read + N) % N) |-> slot[(read + k - 1) % N]]

Queue == INSTANCE RxQueue WITH Cap <- N - 1, pending <- Pending

(* The ring is a queue of the N - 1 newest frames: what receive_frame      *)
(* returns is always a frame that was received, in order, each once, and   *)
(* only a newer frame ever displaces one that was put (rx.rs:26-30, :87).  *)
RingIsQueue == Queue!Spec

(* The process sleeps although a frame is there only when that frame came  *)
(* after the ring was lent and before the upcall was registered: receive_  *)
(* frame is documented to yield only "if no frame is ready" (rx.rs:98).    *)
SleepsOnlyOverEarly ==
    at = "wait" /\ queued = 0 /\ HasFrame => early

(* A process that was told of a frame gets to return it.                   *)
ToldReturns == (queued > 0 /\ at = "wait") ~> (at = "app" /\ called)
=============================================================================
