----------------------------- MODULE ManualDash -----------------------------
(***************************************************************************)
(* examples/manual_dash.rs: a gearbox driven with a joystick and two       *)
(* buttons, in which lifting off is the clutch.  Each pass of the loop     *)
(* reads the inputs and shifts, steps engine and car by the time measured, *)
(* and redraws only what differs from what it believes the glass shows.    *)
(* The arithmetic is the program's, over constants small enough to check;  *)
(* the glass is the set of the segments, bar steps and lights that are lit. *)
(***************************************************************************)
EXTENDS Integers, Sequences, FiniteSets

CONSTANTS Ratio,     (* RATIOS * FINAL_DRIVE per gear, from first to top    *)
          RpmDivisor, Idle, Redline, ShiftLight,
          RevRise, RevFall, ClutchBite,         (* rpm per unit of time     *)
          Torque,    (* torque over the rev range                           *)
          DragRoll, DragLinear, DragSquare, LinearPer, SquarePer,
          Inertia, DrivePer,
          Throttle,  (* throttle positions, 0 closed                        *)
          Full, Lift, Clutch,
          Dt,        (* measured time steps, clamped                        *)
          KmhPer,    (* km/h per unit of speed                              *)
          Missed     (* passes a refused shift is shown for                 *)

DashAssumption ==
    /\ Ratio \in Seq(Nat) /\ {RpmDivisor, LinearPer, SquarePer, Inertia, DrivePer, Full} \subseteq Nat \ {0}
    /\ {Idle, Redline, ShiftLight, RevRise, RevFall, ClutchBite, DragRoll, DragLinear,
        DragSquare, Lift, Clutch, KmhPer, Missed} \subseteq Nat
    /\ 0 \in Throttle /\ Throttle \subseteq 0..Full /\ Dt \subseteq Nat \ {0}
    /\ \E most \in Dt : \A dt \in Dt : dt <= most
    /\ Idle <= Redline /\ \A rpm \in 0..Redline : Torque[rpm] \in Nat

VARIABLE app

TopGear == Len(Ratio)
Rest == [gear |-> 0, rpm |-> Idle, speed |-> 0, rem |-> 0]

(* The seven-segment masks, a blocky N, and nothing lit.                   *)
Digits == <<{0, 1, 2, 3, 4, 5}, {1, 2}, {0, 1, 3, 4, 6}, {0, 1, 2, 3, 6}, {1, 2, 5, 6},
            {0, 2, 3, 5, 6}, {0, 2, 3, 4, 5, 6}, {0, 1, 2}, 0..6, {0, 1, 2, 3, 5, 6}>>
Digit(n) == Digits[n + 1]
GlyphN == {0, 1, 2, 4, 5}

(* Wrong on purpose: a sentinel to force the first paint.                  *)
InitSentinel ==
    app = [at |-> "input", st |-> Rest, throttle |-> 0, up_was |-> FALSE,
           down_was |-> FALSE, both |-> FALSE, missed_for |-> 0, errs |-> FALSE,
           glass |-> {}, shown |-> {<<"gear", s>> : s \in 0..6}]

(* The screen has been cleared, and that is what is shown.                 *)
Init ==
    app = [at |-> "input", st |-> Rest, throttle |-> 0, up_was |-> FALSE,
           down_was |-> FALSE, both |-> FALSE, missed_for |-> 0, errs |-> FALSE,
           glass |-> {}, shown |-> {}]

Minus(a, b) == IF a > b THEN a - b ELSE 0
Least(a, b) == IF a < b THEN a ELSE b
Most(a, b) == IF a > b THEN a ELSE b

-----------------------------------------------------------------------------
(* The inputs of a pass and the shift they ask for: both buttons reset,    *)
(* and a shift is refused with the power on.                               *)
Input(throttle, up_now, down_now) ==
    /\ app.at = "input"
    /\ LET want_up == up_now /\ ~app.up_was
           want_down == down_now /\ ~app.down_was
           asked == want_up \/ want_down
           refused == throttle >= Lift
           shifted == IF want_up THEN Least(app.st.gear + 1, TopGear)
                      ELSE Minus(app.st.gear, 1)
       IN  app' = [app EXCEPT
              !.at = "step", !.throttle = throttle, !.both = up_now /\ down_now,
              !.up_was = up_now, !.down_was = down_now,
              !.st = IF up_now /\ down_now THEN Rest
                     ELSE IF asked /\ ~refused THEN [@ EXCEPT !.gear = shifted] ELSE @,
              !.missed_for = IF up_now /\ down_now THEN 0
                             ELSE IF asked /\ refused THEN Missed ELSE @]

-----------------------------------------------------------------------------
(* slew: towards the target without overshooting.                          *)
Slew(rpm, target, rate, dt) ==
    IF target > rpm THEN Least(rpm + rate * dt, target)
                    ELSE Most(Minus(rpm, rate * dt), target)

FreeRev(rpm, throttle, dt) ==
    LET target == Idle + ((Redline - Idle) * throttle) \div Full
    IN  Slew(rpm, target, IF target > rpm THEN RevRise ELSE RevFall, dt)

(* Wrong on purpose: the engine is on road speed at once.                  *)
RevsJump(st, throttle, dt) ==
    LET implied == IF st.gear = 0 THEN 0 ELSE (st.speed * Ratio[st.gear]) \div RpmDivisor
    IN  IF st.gear = 0 \/ throttle < Clutch \/ implied < Idle
        THEN FreeRev(Most(st.rpm, Idle), throttle, dt) ELSE implied

(* The revs of a pass: free in neutral and with the clutch in, slipping    *)
(* below lock speed, biting above it.                                      *)
Revs(st, throttle, dt) ==
    LET implied == IF st.gear = 0 THEN 0 ELSE (st.speed * Ratio[st.gear]) \div RpmDivisor
    IN  IF st.gear = 0 \/ throttle < Clutch THEN FreeRev(st.rpm, throttle, dt)
        ELSE IF implied < Idle THEN FreeRev(Most(st.rpm, Idle), throttle, dt)
        ELSE Slew(st.rpm, implied, ClutchBite, dt)

(* No drive in neutral, and none over the limiter.                         *)
Drive(st, throttle) ==
    IF st.gear = 0 \/ st.rpm >= Redline THEN 0
    ELSE (Torque[st.rpm] * throttle * Ratio[st.gear]) \div DrivePer

(* Rolling, linear and quadratic drag.                                     *)
Drag(speed) ==
    DragRoll + (DragLinear * speed) \div LinearPer + (DragSquare * (speed * speed)) \div SquarePer

(* Wrong on purpose: the division truncates and nothing is carried.        *)
IntegrateTruncates(st, drive, dt) ==
    LET num == (drive - Drag(st.speed)) * dt
        delta == IF num < 0 THEN -((-num) \div Inertia) ELSE num \div Inertia
    IN  [st EXCEPT !.speed = Most(@ + delta, 0)]

(* integrate: net force over inertia, rounded down, with the remainder     *)
(* carried to the next pass.                                               *)
Integrate(st, drive, dt) ==
    LET num == (drive - Drag(st.speed)) * dt + st.rem
    IN  [st EXCEPT !.rem = num % Inertia, !.speed = Most(@ + num \div Inertia, 0)]

Step(dt) ==
    /\ app.at = "step"
    /\ LET now == [app.st EXCEPT !.rpm = Revs(app.st, app.throttle, dt)]
       IN  app' = [app EXCEPT !.at = "display",
                      !.st = Integrate(now, Drive(now, app.throttle), dt)]

-----------------------------------------------------------------------------
Light ==
    IF app.both THEN "blue"
    ELSE IF app.st.rpm >= Redline THEN "red"
    ELSE IF app.st.rpm >= ShiftLight THEN "amber"
    ELSE IF app.missed_for > 0 THEN "red" ELSE "off"

kmh == Least(app.st.speed * KmhPer, 999)

(* What the glass should show.                                             *)
Wanted ==
    {<<"tach", k>> : k \in 1..Least(app.st.rpm, Redline)}
    \cup {<<"light", c>> : c \in {Light} \ {"off"}}
    \cup {<<"gear", s>> : s \in IF app.st.gear = 0 THEN GlyphN ELSE Digit(app.st.gear)}
    \cup {<<"ones", s>> : s \in Digit(kmh % 10)}
    \cup {<<"tens", s>> : s \in IF kmh < 10 THEN {} ELSE Digit((kmh \div 10) % 10)}
    \cup {<<"hundreds", s>> : s \in IF kmh < 100 THEN {} ELSE Digit(kmh \div 100)}

(* Only the differences are drawn; a rectangle that is refused is counted  *)
(* and believed to be drawn all the same; the glass is not followed from   *)
(* then on.                                                                *)
Display ==
    /\ app.at = "display"
    /\ LET lit == Wanted \ app.shown
           dark == app.shown \ Wanted
       IN  \E lost \in {{}, lit \cup dark} :
              app' = [app EXCEPT
                 !.at = "sleep", !.shown = Wanted, !.errs = @ \/ lost # {},
                 !.glass = IF app.errs \/ lost # {} THEN {}
                           ELSE (@ \cup lit) \ dark]

Sleep ==
    /\ app.at = "sleep"
    /\ app' = [app EXCEPT !.at = "input", !.missed_for = Minus(@, 1)]

Next ==
    \/ \E throttle \in Throttle, up, down \in BOOLEAN : Input(throttle, up, down)
    \/ \E dt \in Dt : Step(dt)
    \/ Display \/ Sleep

Fairness == WF_app(Next)
Spec == Init /\ [][Next]_app /\ Fairness

-----------------------------------------------------------------------------
(* As long as no rectangle was refused, the glass shows the state of the   *)
(* car after every pass, though only differences are ever drawn and the    *)
(* program never looks at the glass (manual_dash.rs:267).                  *)
GlassIsTrue == app.at = "sleep" /\ ~app.errs => app.glass = Wanted

(* The engine never jumps: not when a gear is selected at speed, not when  *)
(* the throttle is fed again, only when both buttons reset the car         *)
(* (manual_dash.rs:153).                                                   *)
RevsDoNotJump ==
    LET most == (CHOOSE d \in Dt : \A e \in Dt : e <= d) *
                Most(RevRise, Most(RevFall, ClutchBite)) IN
    app.at = "step" => app'.st.rpm - app.st.rpm \in -most..most

(* A car that is left alone comes to rest, however small the force that    *)
(* one pass of drag amounts to (manual_dash.rs:106, :593).                 *)
LeftAlone == app.at = "step" => app.throttle = 0
Stands == app.st.speed = 0
ComesToRest == <>[]LeftAlone => <>[]Stands
=============================================================================
