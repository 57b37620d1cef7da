------------------------------ MODULE Throttle ------------------------------
(***************************************************************************)
(* The programs that ask for a throttle: ecu_throttle.rs and ecu_dash.rs   *)
(* turn a pedal and a brake into requests, throttle_probe.rs asks blindly  *)
(* and then dies.  The driver is outside the repository; it is what the    *)
(* programs say of it: it limits the slew, closes after a silence and when *)
(* its owner dies.  A position is a class of readings: Broken and Shorted  *)
(* are outside the band, Regen below the centre, Rest at it, and those     *)
(* above Rest open the throttle one level each.                            *)
(***************************************************************************)
EXTENDS Integers

CONSTANTS Full,     (* the levels of the throttle: SCALE                    *)
          Silence,  (* driver ticks without a request before it closes      *)
          Steps     (* requests of one phase of the probe                   *)

VARIABLE app

Broken == 0
Regen == 1
Rest == 2
Shorted == Rest + Full + 1
Reading == Broken .. Shorted
Faulty == {Broken, Shorted}

Init ==
    \E p \in {"ecu_throttle", "ecu_dash", "throttle_probe"} :
       app = [program |-> p, at |-> IF p = "ecu_dash" THEN "preflight" ELSE "arm",
              raw |-> Rest, braking |-> FALSE, ever_at_rest |-> FALSE,
              locked_out |-> FALSE, calibrated |-> TRUE, since |-> "start",
              wheel_on |-> FALSE, wheel |-> FALSE, preflight |-> "none", step |-> 0,
              armed |-> FALSE, target |-> 0, actual |-> 0, quiet |-> 0, refused |-> FALSE]

Dash == app.program = "ecu_dash"
At(l) == app.at = l
Set(f) == app' = [x \in DOMAIN app |-> IF x \in DOMAIN f THEN f[x] ELSE app[x]]

(* The fields of f, and those of g that f does not name.                   *)
With(f, g) == [x \in DOMAIN f \cup DOMAIN g |-> IF x \in DOMAIN f THEN f[x] ELSE g[x]]

-----------------------------------------------------------------------------
(* The driver.  A request that is accepted ends the silence; one that is   *)
(* refused leaves the target of the one before.  A tick moves the output   *)
(* one level towards the target.                                           *)
Accept(t) == [armed |-> TRUE, target |-> t, quiet |-> 0, refused |-> FALSE]
Refused == [refused |-> TRUE]

Command(t, f, g) ==
    \/ app.armed /\ Set(With(Accept(t), With(f, g)))
    \/ Set(With(Refused, With(f, g)))

Tick ==
    LET target == IF app.quiet = Silence \/ app.at = "ended" THEN 0 ELSE app.target IN
    /\ app.armed
    /\ Set([target |-> target,
            quiet |-> IF app.quiet = Silence THEN Silence ELSE app.quiet + 1,
            actual |-> CASE app.actual < target -> app.actual + 1
                         [] app.actual > target -> app.actual - 1
                         [] OTHER -> app.actual])

-----------------------------------------------------------------------------
(* Before the loop.  The dash drives its wheel once, listens to it and     *)
(* stops it, whatever the driver answers; arming closes the throttle; and  *)
(* sixteen readings of the stick make the centre.                          *)
Preflight ==
    /\ At("preflight")
    /\ \E started, stopped \in BOOLEAN :
          Set([at |-> "arm", wheel |-> started /\ ~stopped,
               preflight |-> IF started /\ ~stopped THEN "left on" ELSE "done"])

Arm ==
    /\ At("arm")
    /\ \/ Set(With(Accept(0), [at |-> IF Dash THEN "calibrate"
                                      ELSE IF app.program = "throttle_probe" THEN "probe"
                                      ELSE "read"]))
       \/ Set([at |-> IF Dash THEN "calibrate" ELSE "ended"])

Calibrate ==
    /\ At("calibrate")
    /\ \E c \in BOOLEAN : Set([at |-> "read", calibrated |-> c])

-----------------------------------------------------------------------------
(* One pass of the loop.  A reading that fails closes the throttle in      *)
(* ecu_throttle and is taken for the centre in ecu_dash; one out of band   *)
(* disarms and ends the one, and shuts the other for this pass.            *)
AtRest(raw) == IF Dash THEN raw = Rest ELSE raw <= Rest

(* The reading clears the lockout, as `since' records: what was last seen  *)
(* of the stick and the brake that decides whether the throttle may open.  *)
Read(raw) ==
    With([at |-> "brake", raw |-> raw],
         IF AtRest(raw) THEN [ever_at_rest |-> TRUE, locked_out |-> FALSE, since |-> "rest"]
         ELSE [at |-> "brake"])

ReadPedal ==
    /\ At("read")
    /\ \E raw \in Reading :
          IF raw \in Faulty /\ ~Dash
          THEN \/ Set([at |-> "ended", target |-> 0])
               \/ Set([at |-> "ended"])
          ELSE Set(Read(raw))

LosePedal ==
    /\ At("read")
    /\ IF Dash THEN Set(With([since |-> "lost"], Read(Rest)))
               ELSE Command(0, [at |-> "read"], [step |-> 0])

(* Buttons::is_pressed is false when the driver does not answer.           *)
(* LatchNot is wrong on purpose: it forgets the brake once it is released. *)
LatchNot(braking, locked) == FALSE

Latch(braking, locked) == braking \/ locked

ReadBrake ==
    /\ At("brake")
    /\ \E pressed \in BOOLEAN :
          Set(With([at |-> "ask", braking |-> pressed,
                    locked_out |-> Latch(pressed, app.locked_out)],
                   IF pressed THEN [since |-> "brake"] ELSE [at |-> "ask"]))

Shut == app.braking \/ app.locked_out \/ ~app.ever_at_rest
        \/ (Dash /\ (app.raw \in Faulty \/ ~app.calibrated))

(* OpeningAnyway is wrong on purpose: it asks whatever the brake says.     *)
OpeningAnyway == IF app.raw <= Rest \/ app.raw = Shorted THEN 0 ELSE app.raw - Rest

Opening == IF Shut \/ app.raw <= Rest THEN 0 ELSE app.raw - Rest

Ask ==
    /\ At("ask")
    /\ Command(Opening, [at |-> IF Dash THEN "wheel" ELSE "read"], [step |-> 0])

(* The wheel of the dash turns when the output, as the driver tells it, is *)
(* open.  It is started again on every pass, stopped only on the change,   *)
(* and what it does is recorded only when the call succeeded.              *)
(* RecordWanted is wrong on purpose: it records what was wanted.           *)
RecordWanted(want, ok) == want

Record(want, ok) == IF ok THEN want ELSE app.wheel_on

Turn ==
    /\ At("wheel")
    /\ \E told \in {0, app.actual}, ok \in BOOLEAN :
          LET want == told > 0
              calls == want \/ app.wheel_on IN
          Set([at |-> "read", wheel_on |-> Record(want, ok \/ ~calls),
               wheel |-> IF ok /\ calls THEN want ELSE app.wheel])

-----------------------------------------------------------------------------
(* The probe asks for everything, falls silent, asks again and returns     *)
(* with the throttle open; its reading of the output keeps nothing alive.  *)
Probe ==
    /\ At("probe")
    /\ app.step < 3 * Steps
    /\ IF app.step \div Steps = 1 THEN Set([step |-> app.step + 1])
       ELSE Command(Full, [step |-> app.step + 1], [at |-> "probe"])

ProbeDies ==
    /\ At("probe")
    /\ app.step = 3 * Steps
    /\ Set([at |-> "ended"])

-----------------------------------------------------------------------------
Program == \/ Preflight \/ Arm \/ Calibrate \/ ReadPedal \/ LosePedal \/ ReadBrake
           \/ Ask \/ Turn \/ Probe \/ ProbeDies
Next == Program \/ Tick

Spec == Init /\ [][Next]_app /\ WF_app(Program) /\ WF_app(Tick)

-----------------------------------------------------------------------------
(* The lockout: whatever happened since, the driver is asked to open only  *)
(* when, after the last time the brake was seen, the stick was seen at     *)
(* rest -- or, in the dash, could not be read, which its loop takes for    *)
(* the centre -- unless the request that would close it was refused.       *)
BrakeHolds ==
    app.program # "throttle_probe" /\ app.target > 0 /\ ~app.refused
       /\ app.at \notin {"brake", "ask"}
       => app.since = "rest" \/ (Dash /\ app.since = "lost")

(* What ecu_dash.rs says of the lockout: only the stick clears it.         *)
OnlyTheStickClears ==
    Dash /\ app.target > 0 => app.since # "lost"

(* The dash knows whether the wheel it drives is turning, whichever of its *)
(* calls failed, unless the stop of the preflight did.                     *)
WheelIsKnown ==
    Dash /\ app.preflight = "done" => app.wheel = app.wheel_on

(* A brake that stays down closes the throttle for good, though any        *)
(* request may be refused, and so does a program that ends.                *)
Stopping == app.braking \/ app.at = "ended"
Closed == app.actual = 0
BrakeCloses == <>[]Stopping => <>[]Closed
=============================================================================
