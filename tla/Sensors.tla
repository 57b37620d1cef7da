------------------------------ MODULE Sensors ------------------------------
(***************************************************************************)
(* The sensors with one upcall slot, and the buzzer: each driver API with  *)
(* the fake driver it is tested against.  A measurement asked for without  *)
(* waiting (read, then a listener) and a blocking one (read_sync) share    *)
(* the slot and the driver, which serves one command at a time and may     *)
(* answer between any two system calls of the process.  One behaviour is   *)
(* of one sensor.  An Option is the set of what it holds.                  *)
(***************************************************************************)
EXTENDS Integers, Sequences

CONSTANTS Byte, Half, Word,  (* 2^8, 2^16 and 2^32                           *)
          Band,              (* thresholds <<lower, upper>> of the proximity *)
          MaxQueue           (* bound on the queue of upcalls                *)

SensorsAssumption ==
    /\ {Byte, Half, Word, MaxQueue} \subseteq Nat \ {0}
    /\ Byte < Half /\ Half < Word /\ 4 <= Word
    /\ Band \subseteq (0 .. Byte - 1) \X (0 .. Byte - 1)

VARIABLE app

Is(k) == app.kind = k
At(l) == app.at = l
Set(f) == app' = [x \in DOMAIN app |-> IF x \in DOMAIN f THEN f[x] ELSE app[x]]
With(f, g) == [x \in DOMAIN f \cup DOMAIN g |-> IF x \in DOMAIN f THEN f[x] ELSE g[x]]

-----------------------------------------------------------------------------
(* What each API asks for, a command with its two arguments, and what its  *)
(* listener makes of the arguments of the upcall.                          *)
Signed(w) == IF w < Word \div 2 THEN w ELSE w - Word

AdcReads == {<<c, 0, 0>> : c \in {"c0", "c1", "c2"}}
(* The sample is the third argument; AdcHeardFirst is wrong on purpose, as *)
(* the API once was.                                                       *)
AdcHeardFirst(args) == args[1] % Half
AdcHeard(args) == args[3] % Half

AirQualityReads == {<<"co2", 0, 0>>, <<"tvoc", 0, 0>>}
AirQualityHeard(args) == args[1]

AmbientLightReads == {<<"intensity", 0, 0>>}
AmbientLightHeard(args) == args[1]

NineDofReads == {<<"accelerometer", 0, 0>>, <<"magnetometer", 0, 0>>, <<"gyro", 0, 0>>}
NineDofHeard(args) == <<Signed(args[1]), Signed(args[2]), Signed(args[3])>>

ProximityReads == {<<"read", 0, 0>>} \cup {<<"on_interrupt", b[1], b[2]>> : b \in Band}
ProximityHeard(args) == args[1] % Byte

SoundPressureReads == {<<"pressure", 0, 0>>}
SoundPressureHeard(args) == args[1] % Byte

TemperatureReads == {<<"temperature", 0, 0>>}
TemperatureHeard(args) == Signed(args[1])

BuzzerReads == {<<"tone", 1, 1>>}
BuzzerHeard(args) == args[1]

-----------------------------------------------------------------------------
(* The fake drivers: values the test may give each to report, the commands *)
(* it has but may refuse, and the places of reports prepared for commands  *)
(* to come.  The ADC has the channels 0 and 1, and prepares by channel;    *)
(* the air quality sensor has one report for any command and a pair.       *)
Channels == [c0 |-> 0, c1 |-> 1]
FakeAdc == [values |-> {1, Half - 1}, has |-> DOMAIN Channels, keys |-> DOMAIN Channels]
FakeAirQuality ==
    [values |-> {0, Word - 1}, has |-> {"co2", "tvoc"}, keys |-> {"any", "co2", "tvoc"}]
FakeAmbientLight == [values |-> {0, Word - 1}, has |-> {"intensity"}, keys |-> {"any"}]
FakeNineDof == [values |-> {<<0, -1, 1>>, <<1, 0, -1>>},
                has |-> {"accelerometer", "magnetometer", "gyro"}, keys |-> {"any"}]
FakeProximity == [values |-> 0 .. Byte - 1, has |-> {"read", "on_interrupt"}, keys |-> {"any"}]
FakeSoundPressure == [values |-> {0, Byte - 1}, has |-> {"pressure"}, keys |-> {"any"}]
FakeTemperature == [values |-> {-1, 1}, has |-> {"temperature"}, keys |-> {"any"}]
FakeBuzzer == [values |-> {1, 2}, has |-> {"tone"}, keys |-> {"any"}]

Fake == [adc |-> FakeAdc, air |-> FakeAirQuality, light |-> FakeAmbientLight,
         ninedof |-> FakeNineDof, proximity |-> FakeProximity, sound |-> FakeSoundPressure,
         temperature |-> FakeTemperature, buzzer |-> FakeBuzzer]
Reads == [adc |-> AdcReads, air |-> AirQualityReads, light |-> AmbientLightReads,
          ninedof |-> NineDofReads, proximity |-> ProximityReads, sound |-> SoundPressureReads,
          temperature |-> TemperatureReads, buzzer |-> BuzzerReads]
Commands == Reads[app.kind]
Values == Fake[app.kind].values

Init ==
    \E k \in DOMAIN Fake :
       app = [kind |-> k, busy |-> {}, preset |-> [x \in Fake[k].keys |-> {}], off |-> {},
              listener |-> {}, queue |-> << >>, at |-> "app", want |-> << >>, rest |-> << >>,
              over |-> FALSE, turn |-> 0, got |-> << >>]

-----------------------------------------------------------------------------
(* The arguments of the upcall that reports v, and what is heard of them.  *)
Args(c, v) ==
    CASE Is("adc") -> <<0, Channels[c[1]], v % Word>>
      [] Is("ninedof") -> <<v[1] % Word, v[2] % Word, v[3] % Word>>
      [] OTHER -> <<v % Word, 0, 0>>

Heard(args) ==
    CASE Is("adc") -> AdcHeard(args)
      [] Is("air") -> AirQualityHeard(args)
      [] Is("light") -> AmbientLightHeard(args)
      [] Is("ninedof") -> NineDofHeard(args)
      [] Is("proximity") -> ProximityHeard(args)
      [] Is("sound") -> SoundPressureHeard(args)
      [] Is("temperature") -> TemperatureHeard(args)
      [] Is("buzzer") -> BuzzerHeard(args)

-----------------------------------------------------------------------------
(* The fake drivers.  set_value reports v for the command in progress and  *)
(* ends it, unless it waits for a value outside of its thresholds.  With   *)
(* nobody registered the report goes nowhere.                              *)
Filtered(c, v) == c[1] = "on_interrupt" /\ v \in c[2]..c[3]

Report(c, v, for) ==
    [args |-> Args(c, v), of |-> c, told |-> v, for |-> for, turn |-> app.turn]

Scheduled(c, vs, for) ==
    IF vs = {} \/ app.listener = {} THEN app.queue
    ELSE Append(app.queue, Report(c, CHOOSE v \in vs : TRUE, for))

set_value ==
    /\ Len(app.queue) < MaxQueue
    /\ \E c \in app.busy, v \in Values :
          /\ ~Filtered(c, v)
          /\ Set([busy |-> {}, queue |-> Scheduled(c, {v}, c[1]),
                  preset |-> IF Is("proximity") THEN [any |-> {}] ELSE app.preset])

(* set_value_sync prepares the report of a command to come, per channel in *)
(* the ADC; the air quality sensor may also be given one for each command. *)
set_value_sync ==
    \E k \in DOMAIN app.preset \ {"co2", "tvoc"}, v \in Values :
       Set([preset |-> [app.preset EXCEPT ![k] = {v}]])

set_values_sync ==
    /\ Is("air")
    /\ \E v, w \in Values : Set([preset |-> [app.preset EXCEPT !.co2 = {v}, !.tvoc = {w}]])

set_available == Is("air") /\ \E x \in {"co2", "tvoc"}, off \in BOOLEAN :
                    Set([off |-> IF off THEN app.off \cup {x} ELSE app.off \ {x}])

(* The prepared report a command finds, and what is left of them after it. *)
(* The air quality sensor looks at two, and reports the first; reading the *)
(* CO2 leaves the pair for the TVOC.  The proximity sensor keeps what is   *)
(* inside the thresholds.                                                  *)
Key(c) == CASE Is("adc") -> c[1]
            [] Is("air") /\ app.preset.any = {} -> c[1]
            [] OTHER -> "any"

Offered(c) == {v \in app.preset[Key(c)] : ~Filtered(c, v)}

Left(c) ==
    CASE Is("proximity") /\ Offered(c) = {} -> app.preset
      [] Is("air") -> [app.preset EXCEPT !.any = {}, !.co2 = IF c[1] = "tvoc" THEN {} ELSE @,
                                         !.tvoc = IF c[1] = "tvoc" THEN {} ELSE @]
      [] OTHER -> [app.preset EXCEPT ![Key(c)] = {}]

(* command: refused for a channel the board has not, a quantity the sensor *)
(* has not, and while another measurement is in progress.                  *)
Refused(c) == \/ c[1] \notin Fake[app.kind].has \ app.off
              \/ app.busy # {}

Accepted(c) ==
    [busy |-> IF Offered(c) = {} THEN {c} ELSE {},
     queue |-> Scheduled(c, Offered(c), Key(c)),
     preset |-> Left(c)]

-----------------------------------------------------------------------------
(* The process outside of a blocking call.                                 *)
register_listener == At("app") /\ Set([listener |-> {"app"}, queue |-> << >>])
unregister_listener == At("app") /\ Set([listener |-> {}, queue |-> << >>])

read ==
    /\ At("app") /\ Len(app.queue) < MaxQueue
    /\ \E c \in Commands : ~Refused(c) /\ Set(Accepted(c))

Reading(e, over) == [value |-> Heard(e.args), entry |-> e, want |-> app.want,
                     turn |-> app.turn, over |-> over]

yield_wait ==
    /\ At("app") /\ app.queue # << >>
    /\ Set([at |-> "listener", got |-> <<Reading(Head(app.queue), TRUE)>>,
            queue |-> Tail(app.queue)])

Listener == At("listener") /\ Set([at |-> "app", got |-> << >>])

(* A blocking call subscribes, commands, and yields until the cell of its  *)
(* listener is filled; its scope ends with the unsubscribe.  `turn' tells  *)
(* two calls apart, and `over' that a measurement was in progress.         *)
Subscribed(c) == [at |-> "subscribed", listener |-> {"call"}, queue |-> << >>, want |-> c,
                  over |-> app.busy # {}, turn |-> 1 - app.turn]

read_sync ==
    /\ At("app")
    /\ \E c \in Commands :
          /\ c[2] <= c[3]
          /\ Set(Subscribed(c))

(* AirQuality::read_sync measures both, the second also when the first     *)
(* failed, and only then looks at the results.                             *)
read_both ==
    /\ At("app") /\ Is("air")
    /\ Set(With([rest |-> << <<"tvoc", 0, 0>> >>], Subscribed(<<"co2", 0, 0>>)))

Command ==
    /\ At("subscribed")
    /\ IF Refused(app.want) THEN Set([at |-> "leave"])
       ELSE Set(With([at |-> "waiting"], Accepted(app.want)))

Woken ==
    /\ At("waiting") /\ app.queue # << >>
    /\ Set([at |-> "leave", got |-> <<Reading(Head(app.queue), app.over)>>,
            queue |-> Tail(app.queue)])

Leave ==
    /\ At("leave")
    /\ Set([at |-> IF app.rest = << >> THEN "app" ELSE "again", listener |-> {}, queue |-> << >>,
            want |-> << >>, over |-> FALSE, got |-> << >>])

Again == At("again") /\ Set(With([rest |-> << >>], Subscribed(app.rest[1])))

Process == Command \/ Woken \/ Leave \/ Again \/ Listener

Next ==
    \/ set_value \/ set_value_sync \/ set_values_sync \/ set_available
    \/ register_listener \/ unregister_listener \/ read \/ yield_wait
    \/ read_sync \/ read_both \/ Process

Spec == Init /\ [][Next]_app /\ WF_app(Process) /\ WF_app(set_value)

-----------------------------------------------------------------------------
(* What the process reads is what the sensor was given to report, sign and *)
(* width included, and what a blocking call reads was reported during that *)
(* call.  It is the answer to the call's own command, or what was prepared *)
(* for it, and outside of the thresholds it waits for, unless another      *)
(* measurement was still in progress when the call subscribed (air_quality *)
(* lib.rs:79): then it may be the other's.                                 *)
ReadingIsOwn ==
    app.got # << >> =>
       LET g == app.got[1] IN
       /\ g.value = g.entry.told
       /\ g.entry.turn = g.turn
       /\ ~g.over => /\ g.entry.of = g.want
                     /\ g.entry.for \in {"any", g.want[1]}
                     /\ ~Filtered(g.want, g.entry.told)

(* A blocking call that is to return: its command was accepted.            *)
Waiting == At("waiting")
=============================================================================
