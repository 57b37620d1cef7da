---------------------------- MODULE MCPrograms ----------------------------
(***************************************************************************)
(* Instances for TLC of the programs: the examples, the runner, and the    *)
(* test cases that call exit_test.  A behaviour is of one of them; the     *)
(* others stay as they begin.  The smaller ones share a variable.  The     *)
(* parts Programs_proofs is about keep their parameters.                   *)
(***************************************************************************)
EXTENDS Integers, Sequences

CONSTANTS DoomH, PanelH, Band, Level, PollLimit, ReadyBudget,   (* Doom     *)
          Timeout, MaxQueue, MaxSeen,                           (* WifiScan *)
          Full, Silence, Steps,                                 (* Throttle *)
          MaxAttempts, MaxOther,                             (* ScreenProbe *)
          Ratio, RpmDivisor, Idle, Redline, ShiftLight, RevRise, RevFall, ClutchBite,
          Torque, DragRoll, DragLinear, DragSquare, LinearPer, SquarePer,
          Inertia, DrivePer, Pedal, FullPedal, Lift,
          Clutch, Dt, KmhPer, Missed,                         (* ManualDash *)
          MaxOut, MaxTyped, Pipe,                                 (* Runner *)
          Byte, Half, MaxSent,                                 (* RawFrames *)
          Notes, Patience,                                        (* Beeper *)
          Ticks, Start, Period, Samples, Buckets, PerMicro, MaxLate  (* JitterProbe *)

VARIABLES part, doom, dash, wifi, throttle, probe, runner, small

vars == <<part, doom, dash, wifi, throttle, probe, runner, small>>

Ratios == <<3, 1>>
FlatTorque == [rpm \in 0..20 |-> 2]

Doom == INSTANCE Doom WITH app <- doom
Dash == INSTANCE ManualDash WITH app <- dash, Throttle <- Pedal, Full <- FullPedal
Wifi == INSTANCE WifiScan WITH app <- wifi
Throttle == INSTANCE Throttle WITH app <- throttle
Probe == INSTANCE ScreenProbe WITH app <- probe
Runner == INSTANCE Runner WITH app <- runner
Exit == INSTANCE ExitTest WITH app <- small
Frames == INSTANCE RawFrames WITH app <- small
Beeper == INSTANCE Beeper WITH app <- small
Jitter == INSTANCE JitterProbe WITH app <- small

ASSUME ProgramsAssumption ==
    /\ Doom!DoomAssumption /\ Dash!DashAssumption /\ Wifi!WifiAssumption
    /\ Frames!FramesAssumption /\ Beeper!BeeperAssumption /\ Jitter!JitterAssumption

-----------------------------------------------------------------------------
Init ==
    /\ part \in {"doom", "dash", "wifi", "throttle", "probe", "runner",
                "exit", "frames", "header", "beeper", "jitter"}
    /\ Doom!Init /\ Dash!Init /\ Wifi!Init /\ Throttle!Init /\ Probe!Init /\ Runner!Init
    /\ part # "wifi" => wifi.program = "wifi_scan"
    /\ part # "throttle" => throttle.program = "ecu_dash"
    /\ part # "probe" => probe.program = "first_draw"
    /\ part # "runner" => runner.deploy = "none" /\ runner.tbf = "absent"
    /\ CASE part = "exit" -> Exit!Init
         [] part = "frames" -> Frames!Init
         [] part = "header" -> Frames!InitNeighbour
         [] part = "beeper" -> Beeper!Init
         [] part = "jitter" -> Jitter!Init
         [] OTHER -> small = << >>

DoomNext ==
    part = "doom" /\ Doom!Next /\ UNCHANGED <<part, dash, wifi, throttle, probe, runner, small>>
DashNext ==
    part = "dash" /\ Dash!Next /\ UNCHANGED <<part, doom, wifi, throttle, probe, runner, small>>
WifiNext ==
    part = "wifi" /\ Wifi!Next /\ UNCHANGED <<part, doom, dash, throttle, probe, runner, small>>
ThrottleNext ==
    part = "throttle" /\ Throttle!Next /\ UNCHANGED <<part, doom, dash, wifi, probe, runner, small>>
ProbeNext ==
    part = "probe" /\ Probe!Next /\ UNCHANGED <<part, doom, dash, wifi, throttle, runner, small>>
RunnerNext ==
    part = "runner" /\ Runner!Next /\ UNCHANGED <<part, doom, dash, wifi, throttle, probe, small>>
SmallNext ==
    /\ \/ part = "exit" /\ Exit!Next
       \/ part = "frames" /\ Frames!Next
       \/ part = "beeper" /\ Beeper!Next
       \/ part = "jitter" /\ Jitter!Next
    /\ UNCHANGED <<part, doom, dash, wifi, throttle, probe, runner>>

Next == DoomNext \/ DashNext \/ WifiNext \/ ThrottleNext \/ ProbeNext \/ RunnerNext \/ SmallNext

(* Each program runs under the fairness of its own specification: what is  *)
(* fair of several programs is one formula here, a behaviour being of one. *)
Runs ==
    \/ part = "doom" /\ Doom!Program /\ UNCHANGED <<dash, wifi, throttle, probe, runner>>
    \/ part = "dash" /\ Dash!Next /\ UNCHANGED <<doom, wifi, throttle, probe, runner>>
    \/ part = "wifi" /\ Wifi!Main /\ UNCHANGED <<doom, dash, throttle, probe, runner>>
    \/ part = "throttle" /\ Throttle!Program /\ UNCHANGED <<doom, dash, wifi, probe, runner>>
    \/ part = "probe" /\ Probe!Program /\ UNCHANGED <<doom, dash, wifi, throttle, runner>>
    \/ part = "runner" /\ Runner!Main /\ UNCHANGED <<doom, dash, wifi, throttle, probe>>

Answers ==
    \/ part = "throttle" /\ Throttle!Tick /\ UNCHANGED <<probe, runner>>
    \/ part = "probe" /\ Probe!Fire /\ UNCHANGED <<throttle, runner>>
    \/ part = "runner" /\ Runner!Forward /\ UNCHANGED <<throttle, probe>>

Spec ==
    /\ Init /\ [][Next]_vars
    /\ WF_<<doom, dash, wifi, throttle, probe, runner>>(Runs)
    /\ WF_<<throttle, probe, runner>>(Answers)
    /\ WF_runner(part = "runner" /\ Runner!Interrupt)
    /\ WF_runner(part = "runner" /\ Runner!ChildReads)
    /\ WF_runner(part = "runner" /\ Runner!ChildObeys)

-----------------------------------------------------------------------------
(* doom.rs reads its stick for the axis it asked for, unless it has left a *)
(* conversion behind; and each frame it finishes is of one image.          *)
MisreadOnlyAfterLeaving == Doom!MisreadOnlyAfterLeaving /\ Doom!FrameIsWhole

(* What manual_dash.rs draws by differences is what it wants to be seen,   *)
(* and the revs it shows never jump in one pass.                           *)
CarIsTrue == [][Dash!GlassIsTrue /\ Dash!RevsDoNotJump]_dash

(* The wifi examples conclude nothing from what another scan did.          *)
ConfirmedIsTrue == Wifi!ConfirmedIsTrue /\ Wifi!CompleteIsOwn

(* The brake closes the throttle and keeps it closed, and the dash knows   *)
(* whether its wheel is on.                                                *)
BrakeHolds == Throttle!BrakeHolds /\ Throttle!WheelIsKnown

(* A screen probe's line without a mark is about the write it names.       *)
UnmarkedIsOwn == Probe!UnmarkedIsOwn

(* The runner shows what the child wrote, of the image just converted; the *)
(* raw radio receiver prints the fields and the payload of the frame that  *)
(* was sent, from this sender or cut short from any other.                 *)
EchoIsWhole ==
    /\ Runner!EchoIsWhole /\ Runner!ImageIsFresh
    /\ part = "frames" => Frames!FramesAreRead
    /\ part = "header" => Frames!HeaderIsRead

(* exit_test returns the Exit call of the closure it was given; kit_tune   *)
(* and kit_hush say of a note what the capsule told of that note, not of   *)
(* the buzzer's sound, and leave the capsule no note of theirs unstopped;  *)
(* jitter_probe reports the true lateness of every wake.                   *)
ReportIsTrue ==
    /\ part = "exit" => Exit!ReportIsTrue
    /\ part = "beeper" => Beeper!VerdictIsTrue
    /\ part = "jitter" => Jitter!LatenessIsTrue

(* Every program goes on or ends, whatever the drivers it waits for do:    *)
(* doom.rs draws again and again, the wifi examples and the screen probes  *)
(* end, and Ctrl+C ends the runner.  TLC takes the six properties of the   *)
(* modules sooner as two, of one shape each.                               *)
Waits == part \in {"doom", "wifi", "probe"} \/ (part = "runner" /\ runner.ctrl_c)
Arrives ==
    \/ part = "doom" /\ Doom!Draws
    \/ part = "wifi" /\ Wifi!Over
    \/ part = "probe" /\ Probe!Over
    \/ part = "runner" /\ Runner!Over

(* A car left alone comes to rest, and a brake that stays down, like a     *)
(* program that ends, closes the throttle for good.                        *)
Calms == (part = "dash" /\ Dash!LeftAlone) \/ (part = "throttle" /\ Throttle!Stopping)
Calm == (part = "dash" => Dash!Stands) /\ (part = "throttle" => Throttle!Closed)

ProgramsGoOn == (Waits ~> Arrives) /\ (<>[]Calms => <>[]Calm)
=============================================================================
