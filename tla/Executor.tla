------------------------------ MODULE Executor ------------------------------
(***************************************************************************)
(* async/src/lib.rs: block_on driving a join or a select of two futures,   *)
(* over the driver futures of AsyncCall.  The program blocks on the        *)
(* combinator again and again, each time with two new futures, as the loop *)
(* of an application does.                                                 *)
(*                                                                         *)
(* An arm is a driver future alone, or an async block that awaits one and  *)
(* then makes a synchronous driver call, as an arm that prints with        *)
(* Console::write does.  A synchronous call is the scope, subscribe,       *)
(* command, yield-until-called loop that every blocking API of the         *)
(* repository is (Console::write, Alarm::sleep_for, ...).                  *)
(***************************************************************************)
EXTENDS AsyncCall

CONSTANTS A, B,        (* the two futures                                   *)
          Combinator,  (* "join" or "select"                                *)
          SyncArm,     (* arms that make a synchronous call afterwards      *)
          Frame,       (* the upcall target in the synchronous call's frame *)
          Prompt       (* slots whose driver answers sooner or later        *)

ASSUME ExecutorAssumption ==
    /\ Target = {A, B, Frame}
    /\ A # B /\ Frame \notin {A, B}
    /\ Combinator \in {"join", "select"}
    /\ SyncArm \subseteq {A, B}
    /\ Prompt \subseteq Slot

(* Each future, and the synchronous call, has a slot of its own.           *)
OwnSlots == \A f, g \in Target : SlotOf[f] = SlotOf[g] => f = g

(* No arm makes its synchronous call after the other one was polled in the *)
(* same round: a select that the second arm ends polls no more.            *)
Sheltered == Combinator = "select" \/ B \notin SyncArm

(* A select of two driver futures and nothing else.                        *)
Alone == OwnSlots /\ Combinator = "select" /\ SyncArm = {}

VARIABLES at,    (* where block_on and the combinator are                   *)
          turn,  (* the arm being polled or dropped                         *)
          ready  (* a_done and b_done: arms that have returned Ready        *)

execVars == <<at, turn, ready>>
allVars == <<vars, execVars>>

Arm == {A, B}

ExecInit ==
    /\ KernelInit
    /\ life = [f \in Target |-> IF f \in Arm THEN "fresh" ELSE "free"]
    /\ args = [f \in Target |-> Null]
    /\ wake = [f \in Target |-> "none"]
    /\ step = "idle" /\ cur = Null
    /\ at = "poll" /\ turn = A
    /\ ready = [f \in Arm |-> FALSE]

-----------------------------------------------------------------------------
(* Wrong on purpose: a loop that polls again instead of yielding, and one  *)
(* that polls the arms in turn, one for every upcall.                      *)
PollNextSpins(r) ==
    LET over == IF Combinator = "select" THEN r[turn] ELSE r[A] /\ r[B]
    IN  /\ ready' = r
        /\ at' = IF over THEN "teardown" ELSE "poll"
        /\ turn' = IF over \/ turn = A THEN B ELSE A

PollNextOneArm(r) ==
    LET over == IF Combinator = "select" THEN r[turn] ELSE r[A] /\ r[B]
    IN  /\ ready' = r
        /\ at' = IF over THEN "teardown" ELSE "yield"
        /\ turn' = IF over \/ turn = A THEN B ELSE A

(* The poll_fn closure after it has looked at arm turn, which is ready or  *)
(* not according to r: select returns at the first arm that is ready, join *)
(* when both are, and the closure is Pending otherwise.                    *)
PollNext(r) ==
    LET over == IF Combinator = "select" THEN r[turn] ELSE r[A] /\ r[B]
    IN  /\ ready' = r
        /\ IF turn = A /\ ~(Combinator = "select" /\ over)
           THEN at' = "poll" /\ turn' = B
           ELSE IF over THEN at' = "teardown" /\ turn' = B
           ELSE at' = "yield" /\ turn' = A

PollArm ==
    /\ at = "poll"
    /\ \/ /\ ~ready[turn]
          /\ Poll(turn)
          /\ at' = "polling"
          /\ UNCHANGED <<turn, ready>>
       \/ /\ ready[turn]
          /\ PollNext(ready)
          /\ UNCHANGED vars

InArm ==
    /\ at = "polling"
    /\ InPoll
    /\ UNCHANGED execVars

(* The arm's future has returned Pending.                                  *)
ArmPending ==
    /\ at = "polling" /\ step = "idle"
    /\ life[turn] = "started"
    /\ PollNext(ready)
    /\ UNCHANGED vars

(* The arm's future has returned Ready: the arm has too, unless it is a    *)
(* block that goes on, having dropped the future at the end of its await.  *)
ArmReady ==
    /\ at = "polling" /\ step = "idle"
    /\ life[turn] \in {"done", "failed"}
    /\ \/ /\ turn \notin SyncArm
          /\ PollNext([ready EXCEPT ![turn] = TRUE])
          /\ UNCHANGED vars
       \/ /\ turn \in SyncArm
          /\ Drop(turn)
          /\ at' = "leaving"
          /\ UNCHANGED <<turn, ready>>

Leave ==
    /\ at = "leaving"
    /\ \/ InDrop /\ UNCHANGED execVars
       \/ /\ step = "idle"
          /\ at' = "syncSubscribe"
          /\ UNCHANGED <<vars, turn, ready>>

-----------------------------------------------------------------------------
SyncSubscribe ==
    /\ at = "syncSubscribe"
    /\ SetUpcall(SlotOf[Frame], Frame)
    /\ life' = [life EXCEPT ![Frame] = "started"]
    /\ args' = [args EXCEPT ![Frame] = Null]
    /\ at' = "syncCommand"
    /\ UNCHANGED <<allowed, outstanding, bytes, wake, step, cur, turn, ready>>

SyncCommand ==
    /\ at = "syncCommand"
    /\ DriverStart(SlotOf[Frame], Frame)
    /\ at' = "syncWait"
    /\ UNCHANGED <<upcall, queue, allowed, bytes, asyncVars, turn, ready>>

(* Subscribe or the command is refused: the scope is left early, and what  *)
(* it shared is taken back all the same.                                   *)
SyncFail ==
    /\ at \in {"syncSubscribe", "syncCommand"}
    /\ at' = "syncReturn"
    /\ UNCHANGED <<vars, turn, ready>>

(* loop { yield_wait; if called, return }: whatever upcall comes first is  *)
(* delivered here, the other arm's included.                               *)
SyncWait ==
    /\ at = "syncWait"
    /\ Yield
    /\ at' = IF args'[Frame] # Null THEN "syncReturn" ELSE "syncWait"
    /\ UNCHANGED <<turn, ready>>

SyncReturn ==
    /\ at = "syncReturn"
    /\ SetUpcall(SlotOf[Frame], Null)
    /\ life' = [life EXCEPT ![Frame] = "free"]
    /\ PollNext([ready EXCEPT ![turn] = TRUE])
    /\ UNCHANGED <<allowed, outstanding, bytes, args, wake, step, cur>>

-----------------------------------------------------------------------------
(* block_on: S::yield_wait() and poll again, whatever was delivered.       *)
YieldWait ==
    /\ at = "yield"
    /\ Yield
    /\ at' = "poll"
    /\ UNCHANGED <<turn, ready>>

(* Wrong on purpose: the second arm is forgotten instead of dropped.        *)
DropArmsButSecond ==
    /\ at = "teardown"
    /\ \/ InDrop /\ UNCHANGED execVars
       \/ Drop(turn) /\ UNCHANGED execVars
       \/ /\ step = "idle"
          /\ turn = A => life[turn] = "free"
          /\ at' = IF turn = B THEN "teardown" ELSE "returned"
          /\ turn' = A
          /\ UNCHANGED <<vars, ready>>

(* join and select return: their pinned locals drop, b before a, the       *)
(* loser's and the winner's alike.                                         *)
DropArms ==
    /\ at = "teardown"
    /\ \/ InDrop /\ UNCHANGED execVars
       \/ Drop(turn) /\ UNCHANGED execVars
       \/ /\ step = "idle" /\ life[turn] = "free"
          /\ at' = IF turn = B THEN "teardown" ELSE "returned"
          /\ turn' = A
          /\ UNCHANGED <<vars, ready>>

(* The program blocks on a new join or select.                             *)
BlockAgain ==
    /\ at = "returned"
    /\ life' = [life EXCEPT ![A] = "fresh", ![B] = "fresh"]
    /\ args' = [f \in Target |-> Null]
    /\ wake' = [f \in Target |-> "none"]
    /\ bytes' = [f \in Target |-> Null]
    /\ at' = "poll"
    /\ ready' = [f \in Arm |-> FALSE]
    /\ UNCHANGED <<upcall, queue, allowed, outstanding, step, cur, turn>>

Process ==
    \/ PollArm \/ InArm \/ ArmPending \/ ArmReady \/ Leave
    \/ SyncSubscribe \/ SyncCommand \/ SyncFail \/ SyncWait \/ SyncReturn
    \/ YieldWait \/ DropArms \/ BlockAgain

Drivers == \E s \in Slot : Driver(s) /\ UNCHANGED execVars

ExecNext == Process \/ Drivers

(* The process runs whenever it is not asleep in a yield, and the drivers  *)
(* of Prompt answer what they serve: an alarm expires, a motor arrives, a  *)
(* write is sent.  A button need never be pressed.                         *)
ExecSpec ==
    /\ ExecInit
    /\ [][ExecNext]_allVars
    /\ WF_allVars(Process)
    /\ \A s \in Prompt : WF_allVars(Driver(s) /\ UNCHANGED execVars)

-----------------------------------------------------------------------------
(* block_on always returns, so the program blocks again and again.         *)
AlwaysReturns == []<>(at = "returned")

(* Nothing of the two futures outlives the call: "a dropped driver future  *)
(* unallows its buffer, unsubscribes, and tells the driver to abort"       *)
(* (async/src/lib.rs:106).                                                 *)
ReturnsClean ==
    at = "returned" =>
        /\ \A s \in Slot : upcall[s] = Null /\ allowed[s] = Null
        /\ \A s \in Slot \ EventSlot : outstanding[s] = Null
        /\ queue = << >>

(* block_on does not sleep over work that is done: "an upcall can only     *)
(* arrive inside that yield" (async/src/lib.rs:27), so an arm that has its *)
(* arguments is polled before the process sleeps.                          *)
NoSleepOverReady ==
    at = "yield" /\ queue = << >>
        => \A f \in Arm : life[f] = "started" => args[f] = Null
=============================================================================
