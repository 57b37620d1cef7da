----------------------------- MODULE TockKernel -----------------------------
(***************************************************************************)
(* The Tock kernel as one libtock-rs process sees it: the table of         *)
(* registered upcalls, the FIFO queue of upcalls waiting for a Yield, the  *)
(* table of read-write buffers lent to drivers, and the operation each     *)
(* driver is serving.  The source is the kernel that the repository itself *)
(* carries, unittest/src/fake and unittest/src/share_data.rs, which every  *)
(* driver crate is tested against, and platform/src/syscalls_impl.rs, the  *)
(* process's side of the same calls.                                       *)
(*                                                                         *)
(* A slot stands for a (driver, subscribe number) pair together with the   *)
(* allow number the operations on it use.  A target is a place in process  *)
(* memory that an upcall or a buffer pointer refers to.  Every operation   *)
(* of this module is the effect of one system call or one driver step; the *)
(* modules that EXTEND it decide who makes them and when.                  *)
(***************************************************************************)
EXTENDS Integers, Sequences, FiniteSets

CONSTANTS Slot,      (* upcall slots of the process                         *)
          Target,    (* memory places that are lent to the kernel           *)
          Null,      (* the null upcall, the zero buffer, no operation      *)
          EventSlot, (* slots whose driver upcalls until told to stop       *)
          MaxQueue   (* bound on the upcall queue, reached by events only   *)

ASSUME KernelAssumption ==
    /\ Null \notin Target
    /\ EventSlot \subseteq Slot
    /\ MaxQueue \in Nat

VARIABLES upcall,       (* the target registered in each slot, or Null      *)
          queue,        (* queued upcalls: slot, target, and whose operation
                           the upcall answers                               *)
          allowed,      (* the target whose buffer a slot's driver holds    *)
          outstanding,  (* whose operation a slot's driver is serving       *)
          bytes         (* whose operation last wrote a target's buffer     *)

kernelVars == <<upcall, queue, allowed, outstanding, bytes>>

Entry == [slot : Slot, target : Target, op : Target]

KernelTypeOK ==
    /\ upcall \in [Slot -> Target \cup {Null}]
    /\ queue \in Seq(Entry)
    /\ allowed \in [Slot -> Target \cup {Null}]
    /\ outstanding \in [Slot -> Target \cup {Null}]
    /\ bytes \in [Target -> Target \cup {Null}]

KernelInit ==
    /\ upcall = [s \in Slot |-> Null]
    /\ queue = << >>
    /\ allowed = [s \in Slot |-> Null]
    /\ outstanding = [s \in Slot |-> Null]
    /\ bytes = [t \in Target |-> Null]

-----------------------------------------------------------------------------
(***************************************************************************)
(* The queue without the entries of slot s: upcall_queue.retain in         *)
(* subscribe_impl.rs.  It is SelectSeq written without recursion, so that  *)
(* facts about it can be proved: the j-th entry kept is the one that has   *)
(* exactly j kept entries up to it.                                        *)
(***************************************************************************)
Kept(q, s) == {i \in 1..Len(q) : q[i].slot # s}

Nth(K, j) == CHOOSE i \in K : Cardinality({k \in K : k <= i}) = j

Purge(q, s) ==
    [j \in 1..Cardinality(Kept(q, s)) |-> q[Nth(Kept(q, s), j)]]

(* Wrong on purpose: Subscribe that leaves the slot's queue alone, and one *)
(* that clears it for a new registration only.                             *)
SetUpcallKeepsQueue(s, t) ==
    upcall' = [upcall EXCEPT ![s] = t] /\ UNCHANGED queue

SetUpcallPurgesForNew(s, t) ==
    /\ upcall' = [upcall EXCEPT ![s] = t]
    /\ queue' = IF t = Null THEN queue ELSE Purge(queue, s)

(* Subscribe with a new upcall, or with Null for unsubscribe: the slot's   *)
(* old registration and every upcall queued for the slot go away together. *)
SetUpcall(s, t) ==
    /\ upcall' = [upcall EXCEPT ![s] = t]
    /\ queue' = Purge(queue, s)

(* Read-Write Allow with a buffer, or with Null for the zero buffer.       *)
SetAllowed(s, t) == allowed' = [allowed EXCEPT ![s] = t]

(* Wrong on purpose: the null upcall is queued like any other.             *)
ScheduledAlways(s, op) ==
    Append(queue, [slot |-> s, target |-> upcall[s], op |-> op])

(* schedule_upcall: the null upcall is never queued.                       *)
Scheduled(s, op) ==
    IF upcall[s] = Null
    THEN queue
    ELSE Append(queue, [slot |-> s, target |-> upcall[s], op |-> op])

-----------------------------------------------------------------------------
(***************************************************************************)
(* Driver steps.  A driver runs whenever it likes, between any two system  *)
(* calls of the process.                                                   *)
(***************************************************************************)

(* The command that starts t's operation.  A driver that is busy with      *)
(* another operation may take the new one over it, as the alarm and the    *)
(* console do; one that refuses reports an error and is not this step.     *)
DriverStart(s, t) == outstanding' = [outstanding EXCEPT ![s] = t]

(* The driver answers the operation it is serving: it writes the result to *)
(* the buffer it holds, if any, and schedules the upcall.  An event driver *)
(* goes on serving, up to the bound on the queue.                          *)
DriverAnswer(s) ==
    /\ outstanding[s] # Null
    /\ s \in EventSlot => Len(queue) < MaxQueue
    /\ bytes' = IF allowed[s] = Null THEN bytes
                ELSE [bytes EXCEPT ![allowed[s]] = outstanding[s]]
    /\ queue' = Scheduled(s, outstanding[s])
    /\ outstanding' = IF s \in EventSlot THEN outstanding
                      ELSE [outstanding EXCEPT ![s] = Null]
    /\ UNCHANGED <<upcall, allowed>>

(* The command that aborts whatever the driver is serving.  A console that *)
(* was receiving, or a motor that was moving, reports what it has done so  *)
(* far; an alarm does not, and neither does a disabled interrupt.  With    *)
(* nothing outstanding the command only returns ALREADY.                   *)
DriverStop(s) ==
    /\ outstanding' = [outstanding EXCEPT ![s] = Null]
    /\ \/ queue' = queue
       \/ /\ outstanding[s] # Null
          /\ s \notin EventSlot
          /\ queue' = Scheduled(s, outstanding[s])
=============================================================================
