----------------------------- MODULE MCLibrary -----------------------------
(***************************************************************************)
(* Instances for TLC of the parts of the libraries that need no fairness   *)
(* of the process or little: the receive ring, GPIO pins, the stepper      *)
(* example, the fake kernel of the tests, the Formatter, and the           *)
(* conversions.  They share nothing: a behaviour is of one part, and the   *)
(* variables of the others stay as they begin.  The parts Library_proofs   *)
(* is about keep their parameters.                                         *)
(***************************************************************************)
EXTENDS Integers, Sequences

CONSTANTS N, Byte, MaxFrames,       (* the ring's, RxRing                   *)
          Pin, Missing, Handle, MaxQueue,   (* the pins', Gpio              *)
          Driver, Taker, Buffer, MaxExpected, MaxUpcalls, (* FakeKernel's   *)
          p1, p2, Steps,    (* the buttons and the movement, StepUntilPress *)
          Half, Word, Band,             (* Sensors', and the other devices' *)
          Rates, Dividers, Degrees, FormatCount, LedCount,  (* Settings'    *)
          Datum, MaxLen, NumButtons, MaxChanges,   (* SpiBus' and Buttons'  *)
          Width, Length, MaxDepth, MaxOut, MaxLeak,     (* Ufmt's           *)
          Capacity, MaxText, MaxBytes,   (* LineBuffered's                  *)
          MaxTokens,                     (* UfmtParse's                     *)
          MaxTicks, Thousand, MaxWord   (* AlarmTime's and CommandReturn's  *)

VARIABLES part,
          read, write, slot, lent, listening, queued, called, air, early, frame,
          exclusive, pins, holds, listener, edges,
          rest, running, taken, step, count, press, reported, outcome,
          kernel, drivers, upcalls, queue, db, held, lost, expected, reply, panic,
          fmt, open, out, leaked,
          at, app

ring == <<read, write, slot, lent, listening, queued, called, air, early, frame>>
gpio == <<exclusive, pins, holds, listener, edges>>
stepper == <<rest, running, taken, step, count, press, reported, outcome>>
fake == <<kernel, drivers, upcalls, queue, db, held, lost, expected, reply, panic>>
formatter == <<fmt, open, out, leaked>>
vars == <<part, ring, gpio, stepper, fake, formatter, at, app>>

(* Thresholds, one pair of them the wrong way round.                       *)
Bands == {<<1, 2>>, <<2, 1>>}

(* The empty buffer, and those of one or two bytes at two addresses.       *)
Buffers == {[at |-> 0, len |-> 0]} \cup [at : 1..2, len : 1..2]

Ring == INSTANCE RxRing
Pins == INSTANCE Gpio
Stepper == INSTANCE StepUntilPress WITH
            Missing <- {}, Handle <- {p1, p2}, Stop <- p1, Other <- p2
Fake == INSTANCE FakeKernel WITH MaxQueue <- MaxUpcalls
Formatter == INSTANCE Ufmt
Numbers == INSTANCE UfmtNumber
Formats == INSTANCE UfmtParse
Lines == INSTANCE LineBuffered
Sensors == INSTANCE Sensors WITH MaxQueue <- MaxUpcalls
Settings == INSTANCE Settings WITH Steps <- Dividers
Bus == INSTANCE SpiBus
Buttons == INSTANCE Buttons WITH MaxQueue <- MaxChanges
Alarms == INSTANCE AlarmTime WITH MaxWord <- MaxTicks
Answers == INSTANCE CommandReturn

ASSUME LibraryAssumption ==
    /\ Ring!RingAssumption
    /\ Pins!GpioAssumption
    /\ Stepper!GpioAssumption /\ Stepper!StepAssumption
    /\ Fake!FakeAssumption
    /\ Formatter!UfmtAssumption /\ Lines!LinesAssumption /\ Formats!TokensAssumption
    /\ Sensors!SensorsAssumption
    /\ Alarms!AlarmAssumption /\ Answers!AnswerAssumption
    /\ Settings!SettingsAssumption /\ Bus!SpiAssumption /\ Buttons!ButtonsAssumption

-----------------------------------------------------------------------------
Machines == {"ring", "gpio", "stepper", "fake", "formatter", "lines", "sensor", "setting",
             "bus", "button"}
Conversions == {"number", "format", "alarm", "answer"}

(* The ring's process and the stepper's main share the variable `at'.      *)
Init ==
    /\ part \in Machines \cup Conversions
    /\ read = 0 /\ write = 0 /\ slot = [i \in 0..(N - 1) |-> 0]
    /\ lent = FALSE /\ listening = FALSE /\ queued = 0 /\ called = FALSE
    /\ air = 0 /\ early = FALSE /\ frame = 0
    /\ IF part = "gpio" THEN Pins!Init ELSE Stepper!Init /\ exclusive = TRUE
    /\ rest = FALSE /\ running = FALSE /\ taken = 0 /\ step = "fresh" /\ count = -1
    /\ press = "fresh" /\ reported = -1 /\ outcome = -1
    /\ Fake!Init
    /\ Formatter!Init
    /\ at = IF part = "stepper" THEN "pins" ELSE "app"
    /\ CASE part = "lines" -> Lines!Init
         [] part = "sensor" -> Sensors!Init
         [] part = "setting" -> Settings!Init
         [] part = "bus" -> Bus!Init
         [] part = "button" -> Buttons!Init
         [] part = "number" -> Numbers!Init
         [] part = "format" -> Formats!Init
         [] part = "alarm" -> Alarms!Init
         [] part = "answer" -> Answers!Init
         [] OTHER -> app = << >>

RingNext ==
    /\ part = "ring" /\ Ring!Next
    /\ UNCHANGED <<part, gpio, stepper, fake, formatter, app>>
PinsNext ==
    /\ part = "gpio" /\ Pins!Next
    /\ UNCHANGED <<part, ring, stepper, fake, formatter, at, app>>
StepperNext ==
    /\ part = "stepper" /\ Stepper!StepNext
    /\ UNCHANGED <<part, ring, fake, formatter, app>>
FakeNext ==
    /\ part = "fake" /\ Fake!Next
    /\ UNCHANGED <<part, ring, gpio, stepper, formatter, at, app>>
FormatterNext ==
    /\ part = "formatter" /\ Formatter!Next
    /\ UNCHANGED <<part, ring, gpio, stepper, fake, at, app>>
LinesNext ==
    /\ part = "lines" /\ Lines!Next
    /\ UNCHANGED <<part, ring, gpio, stepper, fake, formatter, at>>
SensorNext ==
    /\ part = "sensor" /\ Sensors!Next
    /\ UNCHANGED <<part, ring, gpio, stepper, fake, formatter, at>>

DeviceNext ==
    /\ \/ part = "setting" /\ Settings!Next
       \/ part = "bus" /\ Bus!Next
       \/ part = "button" /\ Buttons!Next
    /\ UNCHANGED <<part, ring, gpio, stepper, fake, formatter, at>>

Next ==
    \/ RingNext \/ PinsNext \/ StepperNext \/ FakeNext \/ FormatterNext \/ LinesNext
    \/ SensorNext \/ DeviceNext

(* Each part runs as its own specification says.                           *)
Spec ==
    /\ Init /\ [][Next]_vars
    /\ WF_<<ring, at>>(part = "ring" /\ Ring!Process)
    /\ WF_<<gpio, stepper, at>>(part = "stepper" /\ Stepper!Main)
    /\ WF_<<gpio, stepper, at>>(part = "stepper" /\ Stepper!MotorStep)
    /\ WF_app(part = "sensor" /\ Sensors!Process)
    /\ WF_app(part = "sensor" /\ Sensors!set_value)

-----------------------------------------------------------------------------
(* The two byte indices of the ring implement a queue that prefers the     *)
(* newest frame, and receive_frame sleeps over a frame only when it came   *)
(* between the allow and the subscribe (rx.rs:87, :98).                    *)
RingIsQueue == Ring!RingIsQueue /\ [](part = "ring" => Ring!SleepsOnlyOverEarly)

(* A process told of a frame returns it, the stepper example ends whether  *)
(* or not a button is pressed, and a blocking reading returns.             *)
LibraryGoesOn ==
    /\ (part = "sensor" /\ Sensors!Waiting) ~> (part = "sensor" /\ ~Sensors!Waiting)
    /\ part = "ring" => Ring!ToldReturns
    /\ part = "stepper" => Stepper!MainEnds

(* A pin is what its one view says, and no output outlives its view.       *)
PinsAreTrue == part = "gpio" => Pins!ViewIsTrue /\ Pins!NoOrphanOutput

(* The stepper example reports where the motor stands, and loses that only *)
(* to a press that comes as the movement ends.                             *)
StopKeepsCount == part = "stepper" => Stepper!CountIsPosition /\ Stepper!LostOnlyAtTheEnd

(* A reading is what the sensor reported, and the call's own unless one    *)
(* was in progress when it began.                                          *)
ReadingIsOwn == part = "sensor" => Sensors!ReadingIsOwn

(* A setting is read back as it was set, the bytes of the SPI bus come in  *)
(* their order, and who listens to a button is told each of its changes.   *)
DeviceIsHeard ==
    /\ part = "setting" => Settings!SettingIsKept
    /\ part = "bus" => Bus!BytesInOrder
    /\ part = "button" => Buttons!FollowedIsTrue

(* Two drivers of the fake kernel never hold memory in common.             *)
NoOverlap == Fake!NoOverlap

(* The fake kernel's records are of the memory the drivers hold and of     *)
(* what a driver has let go of without a word (screen/mod.rs:284), and of  *)
(* queued upcalls of those who are still subscribed; and a system call     *)
(* that a test makes fail leaves them as they were.                        *)
RecordIsTrue ==
    [][/\ Fake!DbIsHeld' /\ Fake!QueueIsLive'
       /\ Fake!SkippedTouchesNothing]_fake

(* The Formatter's settings are those of what is open, and what is printed *)
(* with a width reaches it.                                                *)
FormatterBalanced == [][Formatter!FormatterBalanced' /\ Formatter!WidthReached]_formatter

(* Numbers are padded as asked, inside the buffers they are put together in.*)
NumberIsPadded == part = "number" => Numbers!NumberIsPadded

(* Text survives its way from the format string to the writer.             *)
TextIsKept ==
    /\ part = "format" => Formats!FormatIsRead
    /\ part = "lines" => Lines!TextInOrder

(* Times and answers are converted to what they were meant to be.          *)
ConversionsAreTrue ==
    /\ part = "alarm" => Alarms!TimeIsKept
    /\ part = "answer" => Answers!AnswerIsRead
=============================================================================
