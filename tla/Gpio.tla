-------------------------------- MODULE Gpio --------------------------------
(***************************************************************************)
(* apis/peripherals/gpio over the GPIO driver of unittest: pins that are   *)
(* inputs, outputs or disabled, the handles a process drives them with,    *)
(* each of which disables its pin when it drops, and the interrupts, which *)
(* the driver reports through the one upcall slot all pins share.          *)
(***************************************************************************)
EXTENDS Integers, Sequences

CONSTANTS Pin,       (* pins the driver has                                 *)
          Missing,   (* of them, those the board does not expose            *)
          Handle,    (* values of Pin, InputPin and OutputPin               *)
          MaxQueue   (* bound on the upcalls waiting                        *)

GpioAssumption == Missing \subseteq Pin /\ MaxQueue \in Nat

VARIABLES exclusive, (* the program has one Pin of a number, one view of it *)
          pins,     (* the driver's GpioState of each pin                   *)
          holds,    (* what each handle is: its pin and its view            *)
          listener, (* an upcall is registered                              *)
          edges     (* upcalls scheduled and not delivered: pin and level   *)

gpioVars == <<exclusive, pins, holds, listener, edges>>

Pull == {"none", "up", "down"}
Edge == {"either", "rising", "falling"}
Mode == Pull \cup {"output", "disabled"}
Free == [pin |-> "no pin", view |-> "free"]

Init ==
    /\ exclusive \in BOOLEAN
    /\ pins = [p \in Pin |-> [mode |-> "none", level |-> FALSE, edge |-> "off"]]
    /\ holds = [h \in Handle |-> Free]
    /\ listener = FALSE
    /\ edges = << >>

-----------------------------------------------------------------------------
(* The driver's commands.  One on a missing pin fails with NODEVICE and    *)
(* changes nothing; writing to a pin that is no output succeeds all the    *)
(* same and changes nothing, and such a pin reads as low.                  *)
SetMode(p, m) == pins' = [pins EXCEPT ![p].mode = m]
SetEdge(p, e) == pins' = [pins EXCEPT ![p].edge = e]
Write(p, v) == pins' = [pins EXCEPT ![p].level = IF pins[p].mode = "output" THEN v ELSE @]
ReadInput(p) == pins[p].mode \in Pull /\ pins[p].level

Reports(p, v) ==
    /\ pins[p].level # v
    /\ pins[p].edge = "either" \/ pins[p].edge = (IF v THEN "rising" ELSE "falling")

(* set_value: the world drives a pin, and a change that the pin's edge     *)
(* asks for becomes an upcall if one is registered.                        *)
SetValue(p, v) ==
    /\ p \notin Missing
    /\ pins[p].mode # "output"
    /\ pins' = [pins EXCEPT ![p].level = v]
    /\ edges' = IF Reports(p, v) /\ listener THEN Append(edges, <<p, v>>) ELSE edges
    /\ Len(edges') <= MaxQueue
    /\ UNCHANGED <<exclusive, holds, listener>>

-----------------------------------------------------------------------------
(* Gpio::get_pin disables the pin first, whoever else holds it.            *)
GetPin(h, p) ==
    /\ holds[h] = Free
    /\ p \notin Missing
    /\ exclusive => \A g \in Handle : holds[g].pin # p
    /\ SetMode(p, "disabled")
    /\ holds' = [holds EXCEPT ![h] = [pin |-> p, view |-> "pin"]]
    /\ UNCHANGED <<exclusive, listener, edges>>

(* make_output borrows the Pin alone, make_input shares it: of two input   *)
(* views of one Pin the second is g.                                       *)
MakeOutput(h) ==
    /\ holds[h].view = "pin"
    /\ SetMode(holds[h].pin, "output")
    /\ holds' = [holds EXCEPT ![h].view = "output"]
    /\ UNCHANGED <<exclusive, listener, edges>>

MakeInput(h, pull) ==
    /\ holds[h].view = "pin"
    /\ SetMode(holds[h].pin, pull)
    /\ holds' = [holds EXCEPT ![h].view = pull]
    /\ UNCHANGED <<exclusive, listener, edges>>

MakeSecondInput(h, g, pull) ==
    /\ ~exclusive
    /\ holds[h].view \in Pull /\ holds[g] = Free
    /\ SetMode(holds[h].pin, pull)
    /\ holds' = [holds EXCEPT ![g] = [pin |-> holds[h].pin, view |-> pull]]
    /\ UNCHANGED <<exclusive, listener, edges>>

(* set, clear and toggle of an OutputPin.                                  *)
Drive(h, v) ==
    /\ holds[h].view = "output"
    /\ Write(holds[h].pin, v)
    /\ UNCHANGED <<exclusive, holds, listener, edges>>

EnableInterrupts(h, e) ==
    /\ holds[h].view \in Pull
    /\ SetEdge(holds[h].pin, e)
    /\ UNCHANGED <<exclusive, holds, listener, edges>>

DisableInterrupts(h) ==
    /\ holds[h].view \in Pull
    /\ SetEdge(holds[h].pin, "off")
    /\ UNCHANGED <<exclusive, holds, listener, edges>>

(* Wrong on purpose: the pin outlives its view.                            *)
DropViewKeeps(h) ==
    /\ holds[h].view \in Pull \cup {"output"}
    /\ holds' = [holds EXCEPT ![h].view = "pin"]
    /\ UNCHANGED <<exclusive, pins, listener, edges>>

(* InputPin and OutputPin disable the pin when they drop and leave its     *)
(* interrupt as it is; the Pin they borrowed is usable again.              *)
DropView(h) ==
    /\ holds[h].view \in Pull \cup {"output"}
    /\ SetMode(holds[h].pin, "disabled")
    /\ holds' = [holds EXCEPT ![h].view = "pin"]
    /\ UNCHANGED <<exclusive, listener, edges>>

DropPin(h) ==
    /\ holds[h].view = "pin"
    /\ holds' = [holds EXCEPT ![h] = Free]
    /\ UNCHANGED <<exclusive, pins, listener, edges>>

(* register_listener and unregister_listener; both drop what is queued for *)
(* the upcall that was there.                                              *)
Listen(on) ==
    /\ listener' = on
    /\ edges' = << >>
    /\ UNCHANGED <<exclusive, pins, holds>>

Deliver ==
    /\ edges # << >>
    /\ edges' = Tail(edges)
    /\ UNCHANGED <<exclusive, pins, holds, listener>>

Next ==
    \/ \E p \in Pin, v \in BOOLEAN : SetValue(p, v)
    \/ \E h \in Handle :
          \/ \E p \in Pin : GetPin(h, p)
          \/ MakeOutput(h)
          \/ \E pull \in Pull : MakeInput(h, pull)
          \/ \E g \in Handle, pull \in Pull : MakeSecondInput(h, g, pull)
          \/ \E v \in BOOLEAN : Drive(h, v)
          \/ \E e \in Edge : EnableInterrupts(h, e)
          \/ DisableInterrupts(h)
          \/ DropView(h)
          \/ DropPin(h)
    \/ \E on \in BOOLEAN : Listen(on)
    \/ Deliver

Spec == Init /\ [][Next]_gpioVars

-----------------------------------------------------------------------------
(* While a process keeps one view of a pin, the pin is what the view says  *)
(* it is: a read returns the pin's level and a write reaches it, whatever  *)
(* became of other handles (lib.rs:180, :186, dropping one disables).      *)
ViewIsTrue ==
    exclusive => \A h \in Handle :
        holds[h].view \in Pull \cup {"output"} => pins[holds[h].pin].mode = holds[h].view

(* A pin nobody has a view of is driven by nobody: an output that drops,   *)
(* or that is taken as a Pin again, lets go of its pin.                    *)
NoOrphanOutput ==
    \A p \in Pin : pins[p].mode = "output"
        => \E h \in Handle : holds[h] = [pin |-> p, view |-> "output"]
=============================================================================
