--------------------------- MODULE StepUntilPress ---------------------------
(***************************************************************************)
(* examples/stepper_until_press.rs, the composition of the stepper and     *)
(* GPIO APIs: a movement is lent to select against the next edge of a      *)
(* button, and after a press it is stopped and awaited again for the count *)
(* of its steps, which for an open-loop motor is its position.  The        *)
(* stepper capsule is the fake of apis/peripherals/stepper/src/tests.rs,   *)
(* its movement taking a step at a time.  All upcalls of the process wait  *)
(* in one queue, Gpio's edges; a step count is an entry of the pin "motor".*)
(***************************************************************************)
EXTENDS Gpio

CONSTANTS Stop, Other,  (* STOP_BUTTON and OTHER_BUTTON                     *)
          Steps         (* the length of the movement                       *)

StepAssumption ==
    {Stop, Other} \subseteq Pin \cap Handle /\ "motor" \notin Pin /\ Steps \in Nat

VARIABLES at,       (* where main is                                        *)
          rest,     (* the level the button was read at                     *)
          running,  (* the capsule's movement                               *)
          taken,    (* steps it has made                                    *)
          step,     (* the movement's future: fresh, started, told, gone    *)
          count,    (* the count in the upcall that told it                 *)
          press,    (* the edge's future, likewise                          *)
          reported, (* what Stepper::stop returned                          *)
          outcome   (* what main prints: a count, or an error               *)

motor == <<running, taken>>
futures == <<step, count, press>>
result == <<reported, outcome>>
vars == <<gpioVars, motor, futures, result, at, rest>>

NoCount == -1

StepInit ==
    /\ Init /\ exclusive
    /\ running = FALSE /\ taken = 0
    /\ step = "fresh" /\ count = NoCount /\ press = "fresh"
    /\ reported = NoCount /\ outcome = NoCount
    /\ at = "pins" /\ rest = FALSE

-----------------------------------------------------------------------------
Return(n) == at' = "over" /\ outcome' = n /\ UNCHANGED reported

(* Wrong on purpose: a stop is no completion.                              *)
CompleteSilent ==
    /\ running' = FALSE
    /\ edges' = IF step = "started" /\ taken' = Steps
                 THEN Append(edges, <<"motor", taken'>>) ELSE edges

(* The capsule ends a movement: its upcall goes to whoever has registered. *)
Complete ==
    /\ running' = FALSE
    /\ edges' = IF step = "started" THEN Append(edges, <<"motor", taken'>>) ELSE edges

MotorStep ==
    /\ running
    /\ \/ /\ taken < Steps
          /\ taken' = taken + 1
          /\ UNCHANGED <<running, edges>>
       \/ /\ taken = Steps
          /\ UNCHANGED taken
          /\ Complete
    /\ UNCHANGED <<exclusive, pins, holds, listener, futures, result, at, rest>>

Press ==
    /\ \E p \in {Stop, Other}, v \in BOOLEAN : SetValue(p, v)
    /\ UNCHANGED <<motor, futures, result, at, rest>>

-----------------------------------------------------------------------------
(* main takes both pins and makes them inputs; a refusal ends it.          *)
TakePins ==
    /\ at = "pins"
    /\ \/ /\ \E p \in {Stop, Other} : GetPin(p, p) \/ MakeInput(p, "up")
          /\ at' = IF \A p \in {Stop, Other} : holds'[p].view = "up" THEN "read" ELSE "pins"
          /\ UNCHANGED result
       \/ /\ Return(NoCount)
          /\ UNCHANGED gpioVars
    /\ UNCHANGED <<motor, futures, rest>>

(* The edges leave the queue with their listener; the upcall of the        *)
(* movement, which tells its end once, stays.                              *)
MotorUpcalls == {u \in {edges[i] : i \in DOMAIN edges} : u[1] = "motor"}
DropEdges ==
    edges' = IF MotorUpcalls = {} THEN << >> ELSE <<CHOOSE u \in MotorUpcalls : TRUE>>

PressEdge == IF rest THEN "falling" ELSE "rising"

(* The resting level is read once, and decides which edge is a press.      *)
ReadRest ==
    /\ at = "read"
    /\ rest' = ReadInput(Stop)
    /\ at' = "other"
    /\ UNCHANGED <<gpioVars, motor, futures, result>>

EnableOther ==
    /\ at = "other"
    /\ \/ /\ EnableInterrupts(Other, PressEdge)
          /\ at' = "poll"
          /\ UNCHANGED result
       \/ /\ Return(NoCount)
          /\ UNCHANGED gpioVars
    /\ UNCHANGED <<motor, futures, rest>>

-----------------------------------------------------------------------------
(* select polls the movement: its first poll starts the motor, a later one *)
(* finds the count or goes on to poll the edge.  A finished movement ends  *)
(* the select, and with it the edge's future.                              *)
PollStep ==
    /\ at = "poll"
    /\ \/ /\ step = "fresh"
          /\ running' = TRUE /\ step' = "started"
          /\ at' = "pollEdge"
          /\ UNCHANGED <<gpioVars, taken, count, press, result>>
       \/ /\ step = "fresh" (* the command is refused *)
          /\ step' = "gone" /\ press' = "gone"
          /\ Return(NoCount)
          /\ UNCHANGED <<gpioVars, motor, count>>
       \/ /\ step = "started"
          /\ at' = "pollEdge"
          /\ UNCHANGED <<gpioVars, motor, futures, result>>
       \/ /\ step = "told"
          /\ step' = "gone" /\ press' = "gone"
          /\ Return(count)
          /\ SetEdge(Stop, "off")
          /\ listener' = FALSE
          /\ DropEdges
          /\ UNCHANGED <<exclusive, holds, motor, count>>
    /\ UNCHANGED rest

(* The edge resolves on either pin's upcall: it disables its own pin's     *)
(* interrupt, and the select drops it and the borrow of the movement.      *)
PollEdge ==
    /\ at = "pollEdge"
    /\ \/ /\ press = "fresh"
          /\ SetEdge(Stop, PressEdge)
          /\ listener' = TRUE
          /\ press' = "started"
          /\ at' = "yield"
          /\ UNCHANGED edges
       \/ /\ press = "fresh" (* the enable is refused, an error is an edge too *)
          /\ press' = "gone"
          /\ at' = "stop"
          /\ UNCHANGED <<pins, listener, edges>>
       \/ /\ press = "started"
          /\ at' = "yield"
          /\ UNCHANGED <<pins, listener, edges, press>>
       \/ /\ press = "told"
          /\ SetEdge(Stop, "off")
          /\ listener' = FALSE
          /\ DropEdges
          /\ press' = "gone"
          /\ at' = "stop"
    /\ UNCHANGED <<exclusive, holds, motor, step, count, result, rest>>

(* block_on sleeps, and the first upcall is stored in the future it is for.*)
YieldWait ==
    /\ at \in {"yield", "await"} /\ edges # << >>
    /\ edges' = Tail(edges)
    /\ IF Head(edges)[1] = "motor"
       THEN step' = "told" /\ count' = Head(edges)[2] /\ UNCHANGED press
       ELSE press' = "told" /\ UNCHANGED <<step, count>>
    /\ at' = IF at = "yield" THEN "poll" ELSE "collect"
    /\ UNCHANGED <<exclusive, pins, holds, listener, motor, result, rest>>

(* Wrong on purpose: the movement is given to select, which drops it.      *)
StopGiven ==
    /\ at = "stop"
    /\ running' = FALSE /\ step' = "gone" /\ edges' = << >>
    /\ Return(NoCount)
    /\ UNCHANGED <<exclusive, pins, holds, listener, taken, count, press, rest>>

(* Wrong on purpose: main drops the movement with the count of the edge.   *)
StopForgets ==
    /\ at = "stop"
    /\ Return(count)
    /\ UNCHANGED <<gpioVars, motor, futures, rest>>

(* Stepper::stop()?: Reserve when the movement is over, and main fails,    *)
(* dropping the movement; else its steps, which its upcall says as well.   *)
StopMotor ==
    /\ at = "stop"
    /\ \/ /\ running
          /\ UNCHANGED taken
          /\ Complete
          /\ reported' = taken
          /\ at' = "await"
          /\ UNCHANGED <<step, outcome>>
       \/ /\ ~running
          /\ step' = "gone"
          /\ edges' = << >>
          /\ Return(NoCount)
          /\ UNCHANGED motor
    /\ UNCHANGED <<exclusive, pins, holds, listener, count, press, rest>>

Collect ==
    /\ at = "collect"
    /\ at' = "over" /\ outcome' = count
    /\ step' = "gone"
    /\ UNCHANGED <<gpioVars, motor, count, press, reported, rest>>

(* main returns: the inputs drop, then the pins.                           *)
LeaveMain ==
    /\ at = "over"
    /\ \E p \in {Stop, Other} : DropView(p) \/ DropPin(p)
    /\ UNCHANGED <<motor, futures, result, at, rest>>

Main ==
    \/ TakePins \/ ReadRest \/ EnableOther \/ PollStep \/ PollEdge
    \/ YieldWait \/ StopMotor \/ Collect \/ LeaveMain

StepNext == Main \/ MotorStep \/ Press

StepSpec == StepInit /\ [][StepNext]_vars /\ WF_vars(Main) /\ WF_vars(MotorStep)

-----------------------------------------------------------------------------
(* main knows where the shaft is: a count it reports is the motor's own,   *)
(* by both routes, and the motor is at rest (stepper_until_press.rs:14-23).*)
CountIsPosition ==
    at = "over" =>
        /\ ~running
        /\ outcome # NoCount => outcome = taken
        /\ reported # NoCount => reported = outcome

(* A press loses the count only when it comes as the movement ends: then   *)
(* Stepper::stop()? fails though the count is on its way (stepper lib:190).*)
LostOnlyAtTheEnd ==
    at = "over" /\ outcome = NoCount => taken \in {0, Steps}

(* The movement ends and main with it, pressed or not.                     *)
MainEnds == <>(at = "over" /\ \A p \in {Stop, Other} : holds[p] = Free)
=============================================================================
