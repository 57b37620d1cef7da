------------------------------ MODULE Buttons ------------------------------
(***************************************************************************)
(* The buttons: the API, and the fake driver a test presses them on.  The  *)
(* driver reports the changes of a button whose interrupts are enabled, to *)
(* the one listener there is, when the process yields.                     *)
(***************************************************************************)
EXTENDS Naturals, Sequences

CONSTANTS NumButtons,   (* buttons of the board                              *)
          MaxQueue      (* bound on the queue of upcalls                     *)

ButtonsAssumption == NumButtons \in Nat \ {0} /\ MaxQueue \in Nat \ {0}

VARIABLE app

Button == 0 .. NumButtons - 1
Set(f) == app' = [x \in DOMAIN app |-> IF x \in DOMAIN f THEN f[x] ELSE app[x]]
Each(v) == [b \in Button |-> v]
Of(q, b) == {i \in DOMAIN q : q[i].button = b}

(* `told' is what the process knows of each button it follows: the state   *)
(* it had when it began to, then what the listener was told.               *)
Init == app = [pressed |-> Each(FALSE), enabled |-> Each(FALSE), listening |-> FALSE,
               queue |-> << >>, told |-> Each({}), got |-> {}]

(* The process follows a button from when both the listener is registered  *)
(* and its interrupts are enabled, if no report of it is still to come.    *)
Follows(b, enabled, listening, queue) ==
    IF ~enabled \/ ~listening THEN {}
    ELSE IF app.told[b] # {} /\ app.enabled[b] /\ app.listening /\ queue = app.queue
         THEN app.told[b]
    ELSE IF Of(queue, b) # {} THEN {} ELSE {app.pressed[b]}

(* set_pressed, by the test: a change is reported, a repetition is not;    *)
(* ChangesAny is wrong on purpose.                                         *)
ChangesAny(b, p) == TRUE
Changes(b, p) == app.pressed[b] # p
set_pressed ==
    \E b \in Button, p \in BOOLEAN :
       LET told == app.enabled[b] /\ app.listening /\ Changes(b, p) IN
       /\ Len(app.queue) < MaxQueue
       /\ Set([pressed |-> [app.pressed EXCEPT ![b] = p], got |-> {},
               queue |-> IF told THEN Append(app.queue, [button |-> b, state |-> p])
                         ELSE app.queue])

enable_interrupts ==
    \E b \in Button : Set([enabled |-> [app.enabled EXCEPT ![b] = TRUE], got |-> {},
                           told |-> [app.told EXCEPT ![b] =
                                       Follows(b, TRUE, app.listening, app.queue)]])

disable_interrupts ==
    \E b \in Button : Set([enabled |-> [app.enabled EXCEPT ![b] = FALSE], got |-> {},
                           told |-> [app.told EXCEPT ![b] = {}]])

(* A registration replaces the one before, and what was queued for that.   *)
register_listener ==
    Set([listening |-> TRUE, queue |-> << >>, got |-> {},
         told |-> [b \in Button |-> IF app.enabled[b] THEN {app.pressed[b]} ELSE {}]])

unregister_listener ==
    Set([listening |-> FALSE, queue |-> << >>, told |-> Each({}), got |-> {}])

(* A yield hands the oldest report to the listener.                        *)
Heard(e) == [app.told EXCEPT ![e.button] = IF @ = {} THEN {} ELSE {e.state}]
upcall ==
    /\ app.queue # << >>
    /\ Set([queue |-> Tail(app.queue), told |-> Heard(Head(app.queue)), got |-> {}])

(* The two questions, of any number: both are answered no when it fails.   *)
read(b) == IF b \in Button THEN {app.pressed[b]} ELSE {}
is_pressed == \E b \in 0..NumButtons :
                 Set([got |-> {[button |-> b, asked |-> TRUE, answer |-> TRUE \in read(b)]}])
is_released == \E b \in 0..NumButtons :
                 Set([got |-> {[button |-> b, asked |-> FALSE, answer |-> FALSE \in read(b)]}])

Next == set_pressed \/ enable_interrupts \/ disable_interrupts \/ register_listener
        \/ unregister_listener \/ upcall \/ is_pressed \/ is_released

-----------------------------------------------------------------------------
(* The reports at `mine' in q tell, each a change, of the way from t to p. *)
Oldest(mine, i) == \A k \in mine : i <= k
Newest(mine, i) == \A k \in mine : k <= i
Adjacent(mine, i, j) == i < j /\ \A k \in mine : k <= i \/ j <= k
Leads(q, mine, t, p) ==
    /\ mine = {} => t = {p}
    /\ \A i \in mine : Oldest(mine, i) => q[i].state \notin t
    /\ \A i \in mine : Newest(mine, i) => q[i].state = p
    /\ \A i, j \in mine : Adjacent(mine, i, j) => q[i].state # q[j].state

(* What a listener is told of a button it follows is always a change, and  *)
(* the last report, once delivered, is the state the button has: nothing   *)
(* is missed, repeated or out of order.  A question is answered yes of a   *)
(* button that has the state asked about, and of no other.                 *)
FollowedIsTrue ==
    /\ \A b \in Button : app.told[b] # {} =>
          Leads(app.queue, Of(app.queue, b), app.told[b], app.pressed[b])
    /\ \A g \in app.got : g.answer <=> g.button \in Button /\ app.pressed[g.button] = g.asked
=============================================================================
