----------------------------- MODULE FakeKernel -----------------------------
(***************************************************************************)
(* The test side of unittest: fake::Kernel, which a test creates, fills    *)
(* with drivers and expected system calls and drops; AllowDb, its record   *)
(* of the memory that is lent to drivers; and the checks every fake system *)
(* call makes before a driver sees it.  The system calls are those of a    *)
(* test, raw or through platform, in any order.                            *)
(***************************************************************************)
EXTENDS Integers, Sequences, FiniteSets

CONSTANTS Driver,      (* drivers a test may add                            *)
          Taker,       (* of them, those whose WRITE keeps no buffer        *)
          Buffer,      (* slices a test lends: address and length           *)
          MaxExpected, (* bound on the expected calls waiting               *)
          MaxQueue     (* bound on the upcalls waiting                      *)

(* What unallow lends, and a driver that was never lent anything.          *)
Null == [at |-> 0, len |-> 0]
None == [at |-> 0, len |-> 0, none |-> TRUE]

FakeAssumption ==
    /\ Taker \subseteq Driver
    /\ Null \in Buffer
    /\ Buffer \subseteq [at : Nat, len : Nat]
    /\ \A b \in Buffer : b.len > 0 => b.at > 0
    /\ MaxExpected \in Nat /\ MaxQueue \in Nat

(* For TLC: slices of a memory of three bytes, and an empty one at the     *)
(* address of another, as splitting a slice at its start gives.            *)
SplitSlices ==
    {Null, [at |-> 1, len |-> 0]}
    \cup {b \in [at : 1..3, len : 1..2] : b.at + b.len <= 4}

(* A test lends one empty buffer, that of unallow.                         *)
OneEmpty == \A b \in Buffer : b.len = 0 => b = Null

VARIABLES kernel,   (* KERNEL_DATA is Some                                  *)
          drivers,  (* registered drivers                                   *)
          upcalls,  (* drivers whose upcall is registered                   *)
          queue,    (* upcall_queue, by driver                              *)
          db,       (* AllowDb: length by address                           *)
          held,     (* the buffer each driver holds                         *)
          lost,     (* buffers a Taker has let go of                        *)
          expected, (* expected_syscalls                                    *)
          reply,    (* what the last system call returned                   *)
          panic     (* why the test has failed, or "no"                     *)

lent == <<db, held, lost>>
events == <<upcalls, queue>>
vars == <<kernel, drivers, events, lent, expected, reply, panic>>

Call == {"subscribe", "allow", "command", "yield_wait", "yield_no_wait"}
Expectation == [call : Call, of : Driver, override : BOOLEAN]

Fresh ==
    /\ drivers' = {} /\ upcalls' = {} /\ queue' = << >>
    /\ db' = << >> /\ held' = [d \in Driver |-> None] /\ lost' = {}
    /\ expected' = << >>

Init ==
    /\ kernel = FALSE
    /\ drivers = {} /\ upcalls = {} /\ queue = << >>
    /\ db = << >> /\ held = [d \in Driver |-> None] /\ lost = {}
    /\ expected = << >>
    /\ reply = "none" /\ panic = "no"

Panic(why) == panic' = why /\ UNCHANGED <<kernel, drivers, events, lent, reply>>

-----------------------------------------------------------------------------
(* Kernel::new, add_driver, add_expected_syscall and drop.  The drivers of *)
(* a new kernel are new: a test makes them together.                       *)
New ==
    /\ kernel' = TRUE
    /\ Fresh
    /\ panic' = IF kernel THEN "second kernel" ELSE "no"
    /\ UNCHANGED reply

AddDriver(d) ==
    /\ kernel
    /\ drivers' = drivers \cup {d}
    /\ panic' = IF d \in drivers THEN "duplicate driver" ELSE "no"
    /\ UNCHANGED <<kernel, events, lent, expected, reply>>

AddExpected(e) ==
    /\ kernel /\ Len(expected) < MaxExpected
    /\ expected' = Append(expected, e)
    /\ UNCHANGED <<kernel, drivers, events, lent, reply, panic>>

DropKernel ==
    /\ kernel /\ kernel' = FALSE
    /\ Fresh
    /\ UNCHANGED <<reply, panic>>

-----------------------------------------------------------------------------
(* The prologue of every system call: there is a kernel, and the call at   *)
(* the front of the expected ones, if any is left, is this one.            *)
Meets(call, d) ==
    expected # << >> =>
        /\ Head(expected).call = call
        /\ call \in {"subscribe", "allow", "command"} => Head(expected).of = d

Overridden == expected # << >> /\ Head(expected).override

Enter(call, d) ==
    /\ kernel /\ Meets(call, d)
    /\ expected' = IF expected = << >> THEN << >> ELSE Tail(expected)
    /\ UNCHANGED <<kernel, drivers>>

Refused(call, d) ==
    /\ ~kernel \/ ~Meets(call, d)
    /\ Panic(IF kernel THEN "wrong call" ELSE "no kernel")
    /\ expected' = IF kernel THEN Tail(expected) ELSE << >>

Returns(what) == reply' = what /\ panic' = "no"

(* The expected error, or NODEVICE, is returned before a driver is called. *)
Skipped(d) ==
    /\ Overridden \/ d \notin drivers
    /\ Returns(IF Overridden THEN "skipped" ELSE "failure")
    /\ UNCHANGED <<events, lent>>

-----------------------------------------------------------------------------
Overlap(a, b) == a.at < b.at + b.len /\ b.at < a.at + a.len

(* Wrong on purpose: the neighbour looked at is the last that starts       *)
(* before the new buffer does, not the last that starts before its end.    *)
OverlapsBelow(b) ==
    LET Below == {a \in DOMAIN db : a < b.at} IN
    /\ b.len > 0 /\ Below # {}
    /\ LET last == CHOOSE a \in Below : \A x \in Below : x <= a
       IN last + db[last] > b.at

(* insert_raw looks at one buffer, the last that starts before the end of  *)
(* the new one.  An empty buffer is not looked at and not recorded.        *)
Overlaps(b) ==
    LET Below == {a \in DOMAIN db : a < b.at + b.len} IN
    /\ b.len > 0 /\ Below # {}
    /\ LET last == CHOOSE a \in Below : \A x \in Below : x <= a
       IN last + db[last] > b.at

Insert(b) ==
    IF b.len = 0 THEN db
    ELSE [a \in DOMAIN db \cup {b.at} |-> IF a = b.at THEN b.len ELSE db[a]]

(* Wrong on purpose: the buffer that comes back stays on record.           *)
RemoveNot(f, b) == f

(* Removal goes by address alone, whatever the buffer's length.            *)
Remove(f, b) == [a \in DOMAIN f \ {b.at} |-> f[a]]

(* Wrong on purpose: the buffer is recorded before the expected error is   *)
(* looked for.                                                             *)
AllowRecordsFirst(d, b, known) ==
    \/ Refused("allow", d)
    \/ /\ Enter("allow", d)
       /\ Overridden
       /\ db' = Insert(b) /\ UNCHANGED <<held, lost, events>>
       /\ Returns("skipped")

(* Read-Only Allow; Read-Write Allow is the same on the other kind of      *)
(* buffer.  A driver that does not know the buffer number hands the new    *)
(* buffer back, one that does the old.                                     *)
Allow(d, b, known) ==
    \/ Refused("allow", d)
    \/ /\ Enter("allow", d)
       /\ \/ Skipped(d)
          \/ /\ ~Overridden /\ d \in drivers
             /\ UNCHANGED events
             /\ \/ /\ Overlaps(b)
                   /\ panic' = "overlap" /\ UNCHANGED <<lent, reply>>
                \/ /\ ~Overlaps(b) /\ known
                   /\ held' = [held EXCEPT ![d] = b]
                   /\ db' = Remove(Insert(b), held[d]) /\ UNCHANGED lost
                   /\ Returns("success")
                \/ /\ ~Overlaps(b) /\ ~known
                   /\ db' = Remove(Insert(b), b) /\ UNCHANGED <<held, lost>>
                   /\ Returns("failure")

(* upcall_queue.retain: the queue without d's upcalls, in its order; the   *)
(* j-th of those kept has exactly j kept ones up to it.                    *)
Others(d) == {i \in 1..Len(queue) : queue[i] # d}
Nth(K, j) == CHOOSE i \in K : Cardinality({k \in K : k <= i}) = j
Retained(d) == [j \in 1..Cardinality(Others(d)) |-> queue[Nth(Others(d), j)]]

(* Subscribe with an upcall or with the null upcall.                       *)
Subscribe(d, on) ==
    \/ Refused("subscribe", d)
    \/ /\ Enter("subscribe", d)
       /\ \/ Skipped(d)
          \/ /\ ~Overridden /\ d \in drivers
             /\ upcalls' = IF on THEN upcalls \cup {d} ELSE upcalls \ {d}
             /\ queue' = Retained(d)
             /\ UNCHANGED lent
             /\ Returns("success")

(* Command calls the driver even when the test overrides what it returns.  *)
(* The command is one that writes the lent buffer out and upcalls, unless  *)
(* it finds its arguments invalid.  A Taker takes the buffer out of its    *)
(* cell first and never puts it back, and nothing tells AllowDb; it panics *)
(* when there is none.                                                     *)
Command(d, valid) ==
    \/ Refused("command", d)
    \/ /\ Enter("command", d)
       /\ UNCHANGED <<upcalls, db>>
       /\ \/ /\ d \in Taker \cap drivers /\ held[d] = None
             /\ panic' = "no buffer" /\ UNCHANGED <<queue, held, lost, reply>>
          \/ /\ d \in drivers /\ ~(d \in Taker /\ held[d] = None)
             /\ held' = IF d \in Taker THEN [held EXCEPT ![d] = None] ELSE held
             /\ lost' = IF d \in Taker THEN lost \cup ({held[d]} \ {Null}) ELSE lost
             /\ queue' = IF valid /\ d \in upcalls THEN Append(queue, d) ELSE queue
             /\ Len(queue') <= MaxQueue
             /\ Returns(IF Overridden THEN "overridden"
                        ELSE IF valid THEN "success" ELSE "failure")
          \/ /\ d \notin drivers
             /\ Returns(IF Overridden THEN "overridden" ELSE "failure")
             /\ UNCHANGED <<queue, held, lost>>

(* An expected yield_wait may skip its upcall; with nothing queued the     *)
(* test would hang, and fails.                                             *)
YieldWait ==
    \/ Refused("yield_wait", CHOOSE d \in Driver : TRUE)
    \/ /\ Enter("yield_wait", CHOOSE d \in Driver : TRUE)
       /\ UNCHANGED <<upcalls, lent>>
       /\ \/ /\ Overridden
             /\ Returns("skipped") /\ UNCHANGED queue
          \/ /\ ~Overridden /\ queue # << >>
             /\ queue' = Tail(queue) /\ Returns("upcall")
          \/ /\ ~Overridden /\ queue = << >>
             /\ panic' = "no queued upcall" /\ UNCHANGED <<queue, reply>>

(* An expected yield_no_wait runs its upcall and overrides the answer.     *)
YieldNoWait ==
    \/ Refused("yield_no_wait", CHOOSE d \in Driver : TRUE)
    \/ /\ Enter("yield_no_wait", CHOOSE d \in Driver : TRUE)
       /\ UNCHANGED <<upcalls, lent>>
       /\ queue' = IF queue = << >> THEN << >> ELSE Tail(queue)
       /\ Returns(IF Overridden THEN "overridden"
                  ELSE IF queue = << >> THEN "no upcall" ELSE "upcall")

Next ==
    /\ panic = "no"
    /\ \/ New \/ DropKernel
       \/ \E d \in Driver :
             \/ AddDriver(d)
             \/ \E valid \in BOOLEAN : Command(d, valid)
             \/ \E on \in BOOLEAN : Subscribe(d, on)
             \/ \E b \in Buffer, known \in BOOLEAN : Allow(d, b, known)
       \/ \E e \in Expectation : AddExpected(e)
       \/ YieldWait \/ YieldNoWait

Spec == Init /\ [][Next]_vars

-----------------------------------------------------------------------------
(* No two drivers hold memory in common: what AllowDb is responsible for   *)
(* (allow_db.rs:4), by a record it keeps apart from the drivers and a      *)
(* check of one neighbour (:63).                                           *)
NoOverlap ==
    \A c, d \in Driver : c # d /\ held[c].len > 0 /\ held[d].len > 0
        => ~Overlap(held[c], held[d])

(* The record is of the buffers drivers hold, for AllowDb is to determine  *)
(* when all references to a buffer are gone (allow_db.rs:152), and of      *)
(* those a driver let go of without a word: a region it has taken stays on *)
(* record as long as the kernel lives, whatever is lent after it, and      *)
(* nobody is lent any of it again.                                         *)
DbIsHeld ==
    {[at |-> a, len |-> db[a]] : a \in DOMAIN db} =
        ({held[d] : d \in Driver} \ {Null, None}) \cup lost

(* An upcall that waits is one of a driver that is still subscribed.       *)
QueueIsLive == \A i \in 1..Len(queue) : queue[i] \in upcalls

(* A Subscribe or an Allow whose error the test injects, and a yield_wait  *)
(* told to skip its upcall, consume their expectation and leave kernel and *)
(* drivers as they were (expected_syscall.rs:20, :32, :59).                *)
SkippedTouchesNothing ==
    kernel' /\ panic' = "no" /\ reply' = "skipped" /\ Len(expected') < Len(expected)
       => UNCHANGED <<events, lent>>
=============================================================================
