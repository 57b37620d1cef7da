---------------------------- MODULE AsyncPromise ----------------------------
(***************************************************************************)
(* What platform/src/async_call.rs promises of one driver future, with no  *)
(* kernel tables, queues or system calls: an operation is launched only    *)
(* when the kernel can answer it, it is answered at most once and by its   *)
(* own answer, its result is handed out only when the buffer is back, and  *)
(* the future is destroyed only when nothing outside it refers to it.      *)
(* AsyncCall implements this when every future has its slot to itself.     *)
(* Only the driver of a Repeating future (an interrupt) may answer again.  *)
(***************************************************************************)
CONSTANTS Future,
          Repeating (* futures whose driver answers until it is stopped     *)

VARIABLES phase,    (* where each future is in its life                     *)
          heard,    (* futures whose upcall the kernel will deliver         *)
          held,     (* futures whose buffer a driver holds                  *)
          working   (* futures whose operation is neither answered nor over *)

vars == <<phase, heard, held, working>>

Phases == {"absent", "idle", "inFlight", "answered", "ready", "failed", "dying"}

Init ==
    /\ phase = [f \in Future |-> "absent"]
    /\ heard = {}
    /\ held = {}
    /\ working = {}

Advance(f, from, to) ==
    /\ phase[f] = from
    /\ phase' = [phase EXCEPT ![f] = to]

Create(f) == Advance(f, "absent", "idle") /\ UNCHANGED <<heard, held, working>>

Lend(f) ==
    /\ phase[f] = "idle"
    /\ \/ heard' = heard \cup {f} /\ UNCHANGED held
       \/ held' = held \cup {f} /\ UNCHANGED heard
    /\ UNCHANGED <<phase, working>>

Launch(f) ==
    /\ f \in heard
    /\ Advance(f, "idle", "inFlight")
    /\ working' = working \cup {f}
    /\ UNCHANGED <<heard, held>>

Fail(f) == Advance(f, "idle", "failed") /\ UNCHANGED <<heard, held, working>>

Answer(f) ==
    /\ f \in heard \cap working
    /\ Advance(f, "inFlight", "answered")
    /\ working' = IF f \in Repeating THEN working ELSE working \ {f}
    /\ UNCHANGED <<heard, held>>

Reclaim(f) ==
    /\ phase[f] = "answered"
    /\ held' = held \ {f}
    /\ UNCHANGED <<phase, heard, working>>

Resolve(f) ==
    /\ f \notin held
    /\ Advance(f, "answered", "ready")
    /\ working' = working \ ({f} \cap Repeating)
    /\ UNCHANGED <<heard, held>>

Discard(f) ==
    /\ phase[f] \notin {"absent", "dying"}
    /\ phase' = [phase EXCEPT ![f] = "dying"]
    /\ UNCHANGED <<heard, held, working>>

Withdraw(f) ==
    /\ phase[f] = "dying"
    /\ heard' \in {heard, heard \ {f}}
    /\ held' \in {held, held \ {f}}
    /\ working' \in {working, working \ {f}}
    /\ UNCHANGED phase

(* A repeating driver may be left running: it has nobody to answer, and    *)
(* what it does from then on is nobody's work.                             *)
Destroy(f) ==
    /\ f \notin heard \cup held \cup (working \ Repeating)
    /\ Advance(f, "dying", "absent")
    /\ working' = working \ {f}
    /\ UNCHANGED <<heard, held>>

Next ==
    \E f \in Future :
        \/ Create(f) \/ Lend(f) \/ Launch(f) \/ Fail(f) \/ Answer(f)
        \/ Reclaim(f) \/ Resolve(f)
        \/ Discard(f) \/ Withdraw(f) \/ Destroy(f)

Spec == Init /\ [][Next]_vars
=============================================================================
