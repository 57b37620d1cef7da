--------------------------- MODULE Devices_proofs ---------------------------
(***************************************************************************)
(* What is proved of the devices of MCLibrary and of uwrite!'s text: a     *)
(* reading of a sensor is the call's own, settings, bytes of a bus and     *)
(* changes of buttons arrive as they were, and format strings are read as  *)
(* they are written.  Each holds for every value of its component's        *)
(* parameters, word sizes included.                                        *)
(***************************************************************************)
EXTENDS Library_proofs

-----------------------------------------------------------------------------
(***************************************************************************)
(* The sensors.  A blocking call whose command found the driver free has   *)
(* the driver to itself until it leaves: nothing was queued before its     *)
(* command, and what is queued after it answers that.                      *)
(***************************************************************************)
Served == {c \in Sensors!Commands : c[1] \in Sensors!Fake[app.kind].has}
Fors == {"any"} \cup {c[1] : c \in Served}
Arguments == {Sensors!Args(c, v) : c \in Served, v \in Sensors!Values}
Reported == [args : Arguments, of : Served, told : Sensors!Values, for : Fors,
             turn : {0, 1}]

SensorTyped ==
    /\ DOMAIN app = {"kind", "busy", "preset", "off", "listener", "queue", "at", "want",
                     "rest", "over", "turn", "got"}
    /\ app.kind \in DOMAIN Sensors!Fake
    /\ app.preset \in [Sensors!Fake[app.kind].keys -> SUBSET Sensors!Values]
    /\ app.busy \subseteq Served
    /\ app.queue \in Seq(Reported)
    /\ app.turn \in {0, 1} /\ app.over \in BOOLEAN

(* A report is of this turn, and says what the sensor was given.           *)
ReportsAreTrue ==
    \A i \in 1..Len(app.queue) :
       /\ app.queue[i].args = Sensors!Args(app.queue[i].of, app.queue[i].told)
       /\ app.queue[i].turn = app.turn

AnswersCall(c, e) == e.of = c /\ e.for \in {"any", c[1]} /\ ~Sensors!Filtered(c, e.told)

(* What a call that had the driver to itself may take for granted.         *)
CallIsAlone ==
    /\ app.at \in {"subscribed", "waiting"} => app.want \in Sensors!Commands
    /\ app.at = "subscribed" /\ ~app.over => app.busy = {} /\ app.queue = << >>
    /\ app.at = "waiting" /\ ~app.over =>
          /\ app.busy \subseteq {app.want}
          /\ \A i \in 1..Len(app.queue) : AnswersCall(app.want, app.queue[i])
    /\ app.rest # << >> => app.rest = << <<"tvoc", 0, 0>> >> /\ app.kind = "air"
    /\ app.at = "again" => app.rest # << >>

SensorInv == SensorTyped /\ ReportsAreTrue /\ CallIsAlone /\ Sensors!ReadingIsOwn

(* A number below the divisor is its own rest, and one below zero wraps.   *)
LEMMA SmallRest ==
  ASSUME NEW w \in Nat \ {0}
  PROVE  /\ \A v \in 0..(w - 1) : v % w = v
         /\ (-1) % w = w - 1
<1>1. ASSUME NEW v \in 0..(w - 1) PROVE v % w = v
  <2>1. v = w * 0 + v
    OBVIOUS
  <2> QED BY <2>1, DividesOnly
<1>2. (-1) % w = w - 1
  <2>1. -1 = w * (-1) + (w - 1) /\ w - 1 \in 0..(w - 1)
    OBVIOUS
  <2> QED BY <2>1, DividesOnly
<1> QED BY <1>1, <1>2

(* What the sensors' numbers are.                                          *)
LEMMA SensorNumbers ==
  /\ Byte \in Nat \ {0} /\ Half \in Nat \ {0} /\ Word \in Nat \ {0}
  /\ Byte < Half /\ Half < Word /\ 4 <= Word
BY LibraryAssumption DEF Sensors!SensorsAssumption

(* A signed number travels as a word.                                      *)
LEMMA SignedTravels ==
  ASSUME NEW v \in {-1, 0, 1}
  PROVE  Sensors!Signed(v % Word) = v
<1>1. /\ Word \in Nat \ {0} /\ 4 <= Word
      /\ \A x \in 0..(Word - 1) : x % Word = x
      /\ (-1) % Word = Word - 1
  BY SensorNumbers, SmallRest
<1>2. PICK h \in Nat : h = Word \div 2
  BY <1>1
<1>3. 2 <= h /\ h <= Word - 1
  BY <1>1, <1>2
<1>4. CASE v = -1
  <2>1. v % Word = Word - 1 /\ ~(Word - 1 < h)
    BY <1>1, <1>3, <1>4
  <2> QED BY <1>1, <1>2, <1>4, <2>1 DEF Sensors!Signed
<1>5. CASE v \in {0, 1}
  <2>1. v % Word = v /\ v < h
    BY <1>1, <1>3, <1>5
  <2> QED BY <1>2, <2>1 DEF Sensors!Signed
<1> QED BY <1>4, <1>5

(* What is heard of a report is what the sensor was given.                 *)
LEMMA HeardIsTold ==
  ASSUME app.kind \in DOMAIN Sensors!Fake, NEW c, NEW v \in Sensors!Values
  PROVE  Sensors!Heard(Sensors!Args(c, v)) = v
<1>0. /\ \A x \in 0..(Word - 1) : x % Word = x
      /\ \A x \in 0..(Half - 1) : x % Half = x
      /\ \A x \in 0..(Byte - 1) : x % Byte = x
  BY SensorNumbers, SmallRest
<1>1. CASE app.kind = "adc"
  <2>1. v \in {1, Half - 1}
    BY <1>1 DEF Sensors!Values, Sensors!Fake, Sensors!FakeAdc
  <2>2. v \in 0..(Word - 1) /\ v \in 0..(Half - 1)
    BY <2>1, SensorNumbers
  <2>3. v % Word = v /\ v % Half = v
    BY <1>0, <2>2
  <2>4. Sensors!Args(c, v) = <<0, Sensors!Channels[c[1]], v % Word>>
    BY <1>1 DEF Sensors!Args, Sensors!Is
  <2>5. Sensors!Args(c, v)[3] = v
    BY <2>3, <2>4
  <2> QED BY <1>1, <2>3, <2>5 DEF Sensors!Heard, Sensors!AdcHeard, Sensors!Is
<1>2. CASE app.kind \in {"air", "light"}
  <2>1. v \in {0, Word - 1}
    BY <1>2 DEF Sensors!Values, Sensors!Fake, Sensors!FakeAirQuality, Sensors!FakeAmbientLight
  <2>2. v % Word = v
    <3>1. v \in 0..(Word - 1)
      BY <2>1, SensorNumbers
    <3> QED BY <1>0, <3>1
  <2>3. Sensors!Args(c, v)[1] = v
    BY <1>2, <2>2 DEF Sensors!Args, Sensors!Is
  <2> QED BY <1>2, <2>3
          DEF Sensors!Heard, Sensors!AirQualityHeard, Sensors!AmbientLightHeard, Sensors!Is
<1>3. CASE app.kind = "ninedof"
  <2>1. v \in {<<0, -1, 1>>, <<1, 0, -1>>}
    BY <1>3 DEF Sensors!Values, Sensors!Fake, Sensors!FakeNineDof
  <2>2. /\ Sensors!Signed(v[1] % Word) = v[1]
        /\ Sensors!Signed(v[2] % Word) = v[2]
        /\ Sensors!Signed(v[3] % Word) = v[3]
    BY <2>1, SignedTravels
  <2>3. Sensors!Args(c, v) = <<v[1] % Word, v[2] % Word, v[3] % Word>>
    BY <1>3 DEF Sensors!Args, Sensors!Is
  <2>4. Sensors!Heard(Sensors!Args(c, v)) = <<v[1], v[2], v[3]>>
    BY <1>3, <2>2, <2>3 DEF Sensors!Heard, Sensors!NineDofHeard, Sensors!Is
  <2> QED BY <2>1, <2>4
<1>4. CASE app.kind \in {"proximity", "sound"}
  <2>1. v \in 0..(Byte - 1)
    BY <1>4, SensorNumbers
       DEF Sensors!Values, Sensors!Fake, Sensors!FakeProximity, Sensors!FakeSoundPressure
  <2>2. v % Word = v /\ v % Byte = v
    <3>1. v \in 0..(Word - 1)
      BY <2>1, SensorNumbers
    <3> QED BY <1>0, <2>1, <3>1
  <2>3. Sensors!Args(c, v)[1] = v
    BY <1>4, <2>2 DEF Sensors!Args, Sensors!Is
  <2> QED BY <1>4, <2>2, <2>3
          DEF Sensors!Heard, Sensors!ProximityHeard, Sensors!SoundPressureHeard, Sensors!Is
<1>5. CASE app.kind = "temperature"
  <2>1. v \in {-1, 1}
    BY <1>5 DEF Sensors!Values, Sensors!Fake, Sensors!FakeTemperature
  <2>2. Sensors!Signed(v % Word) = v
    BY <2>1, SignedTravels
  <2>3. Sensors!Args(c, v)[1] = v % Word
    BY <1>5 DEF Sensors!Args, Sensors!Is
  <2> QED BY <1>5, <2>2, <2>3 DEF Sensors!Heard, Sensors!TemperatureHeard, Sensors!Is
<1>6. CASE app.kind = "buzzer"
  <2>1. v \in {1, 2}
    BY <1>6 DEF Sensors!Values, Sensors!Fake, Sensors!FakeBuzzer
  <2>2. v % Word = v
    <3>1. v \in 0..(Word - 1)
      BY <2>1, SensorNumbers
    <3> QED BY <1>0, <3>1
  <2>3. Sensors!Args(c, v)[1] = v
    BY <1>6, <2>2 DEF Sensors!Args, Sensors!Is
  <2> QED BY <1>6, <2>3 DEF Sensors!Heard, Sensors!BuzzerHeard, Sensors!Is
<1> QED BY <1>1, <1>2, <1>3, <1>4, <1>5, <1>6 DEF Sensors!Fake

-----------------------------------------------------------------------------
(* What Set changes is what it names.                                      *)
LEMMA SensorSets ==
  ASSUME NEW f, Sensors!Set(f)
  PROVE  /\ DOMAIN app' = DOMAIN app
         /\ \A x \in DOMAIN app \cap DOMAIN f : app'[x] = f[x]
         /\ \A x \in DOMAIN app \ DOMAIN f : app'[x] = app[x]
BY DEF Sensors!Set

(* One behaviour is of one sensor.                                         *)
LEMMA KindStays ==
  app'.kind = app.kind =>
     /\ Sensors!Commands' = Sensors!Commands /\ Sensors!Values' = Sensors!Values
     /\ Served' = Served /\ Fors' = Fors /\ Arguments' = Arguments /\ Reported' = Reported
     /\ \A c, v : (Sensors!Args(c, v))' = Sensors!Args(c, v)
<1> SUFFICES ASSUME app'.kind = app.kind
             PROVE  /\ Sensors!Commands' = Sensors!Commands
                    /\ Sensors!Values' = Sensors!Values
                    /\ Served' = Served /\ Fors' = Fors /\ Arguments' = Arguments
                    /\ Reported' = Reported
                    /\ \A c, v : (Sensors!Args(c, v))' = Sensors!Args(c, v)
  OBVIOUS
<1>1. Sensors!Commands' = Sensors!Commands /\ Sensors!Values' = Sensors!Values
  BY DEF Sensors!Commands, Sensors!Values
<1>2. \A c, v : (Sensors!Args(c, v))' = Sensors!Args(c, v)
  BY DEF Sensors!Args, Sensors!Is
<1>3. Served' = Served
  BY <1>1 DEF Served
<1>4. Fors' = Fors
  BY <1>3 DEF Fors
<1>5. Arguments' = Arguments
  BY <1>1, <1>2, <1>3 DEF Arguments
<1>6. Reported' = Reported
  BY <1>1, <1>3, <1>4, <1>5 DEF Reported
<1> QED BY <1>1, <1>2, <1>3, <1>4, <1>5, <1>6

(* What the sensor does by itself, when it reports nothing.                *)
LEMMA SilentKept ==
  ASSUME SensorInv, DOMAIN app' = DOMAIN app,
         app'.kind = app.kind, app'.turn = app.turn, app'.over = app.over,
         app'.want = app.want, app'.rest = app.rest, app'.at = app.at,
         app'.queue = app.queue, app'.got = app.got, app'.busy = app.busy,
         app'.preset \in [Sensors!Fake[app.kind].keys -> SUBSET Sensors!Values]
  PROVE  SensorInv'
<1>0. SensorTyped /\ ReportsAreTrue /\ CallIsAlone /\ Sensors!ReadingIsOwn
  BY DEF SensorInv
<1>1. SensorTyped'
  BY <1>0, KindStays DEF SensorTyped
<1>2. ReportsAreTrue'
  BY <1>0, KindStays DEF ReportsAreTrue
<1>3. CallIsAlone'
  BY <1>0, KindStays DEF CallIsAlone, AnswersCall, Sensors!Filtered
<1>4. Sensors!ReadingIsOwn'
  BY <1>0 DEF Sensors!ReadingIsOwn, Sensors!Filtered
<1> QED BY <1>1, <1>2, <1>3, <1>4 DEF SensorInv

(* A test prepares reports, and says what the sensor has.                  *)
LEMMA PrepareKept ==
  ASSUME SensorInv,
         Sensors!set_value_sync \/ Sensors!set_values_sync \/ Sensors!set_available
  PROVE  SensorInv'
<1>0. SensorTyped
  BY DEF SensorInv
<1>1. PICK f : /\ Sensors!Set(f) /\ DOMAIN f \subseteq {"preset", "off"}
               /\ "preset" \in DOMAIN f =>
                     f.preset \in [Sensors!Fake[app.kind].keys -> SUBSET Sensors!Values]
  <2>1. CASE Sensors!set_value_sync
    <3>1. PICK k \in DOMAIN app.preset, v \in Sensors!Values :
            Sensors!Set([preset |-> [app.preset EXCEPT ![k] = {v}]])
      BY <2>1 DEF Sensors!set_value_sync
    <3>2. [app.preset EXCEPT ![k] = {v}]
            \in [Sensors!Fake[app.kind].keys -> SUBSET Sensors!Values]
      BY <1>0 DEF SensorTyped
    <3> QED BY <3>1, <3>2
  <2>2. CASE Sensors!set_values_sync
    <3>1. PICK v \in Sensors!Values, w \in Sensors!Values :
            Sensors!Set([preset |-> [app.preset EXCEPT !.co2 = {v}, !.tvoc = {w}]])
      BY <2>2 DEF Sensors!set_values_sync
    <3>2. PICK p : p = [app.preset EXCEPT !.co2 = {v}, !.tvoc = {w}]
      OBVIOUS
    <3>3. p \in [Sensors!Fake[app.kind].keys -> SUBSET Sensors!Values]
      BY <1>0, <3>2 DEF SensorTyped
    <3>4. PICK f : f = [preset |-> p]
      OBVIOUS
    <3>5. DOMAIN f = {"preset"} /\ f.preset = p
      BY <3>4
    <3>6. Sensors!Set(f)
      BY <3>1, <3>2, <3>4
    <3> QED BY <3>3, <3>5, <3>6
  <2>3. CASE Sensors!set_available
    <3>1. PICK x, off : Sensors!Set([off |-> IF off THEN app.off \cup {x} ELSE app.off \ {x}])
      BY <2>3 DEF Sensors!set_available
    <3> QED BY <3>1
  <2> QED BY <2>1, <2>2, <2>3
<1>2. /\ DOMAIN app' = DOMAIN app
      /\ app'.kind = app.kind /\ app'.turn = app.turn /\ app'.over = app.over
      /\ app'.want = app.want /\ app'.rest = app.rest /\ app'.at = app.at
      /\ app'.queue = app.queue /\ app'.got = app.got /\ app'.busy = app.busy
      /\ app'.preset \in [Sensors!Fake[app.kind].keys -> SUBSET Sensors!Values]
  BY <1>0, <1>1, SensorSets DEF SensorTyped
<1> QED BY <1>2, SilentKept

(* The queue holds what it held, or a report more.                         *)
ReportsMore(q, c, vs, for) ==
    /\ q \in Seq(Reported)
    /\ \A i \in 1..Len(q) :
          \/ i \in 1..Len(app.queue) /\ q[i] = app.queue[i]
          \/ /\ q[i].of = c /\ q[i].for = for /\ q[i].told \in vs
             /\ q[i].args = Sensors!Args(c, q[i].told) /\ q[i].turn = app.turn

LEMMA ScheduledIs ==
  ASSUME SensorTyped, NEW c \in Served, NEW vs \in SUBSET Sensors!Values,
         NEW for \in {"any", c[1]}, NEW q, q = Sensors!Scheduled(c, vs, for)
  PROVE  ReportsMore(q, c, vs, for)
<1>0. app.queue \in Seq(Reported) /\ app.turn \in {0, 1}
  BY DEF SensorTyped
<1>1. CASE vs = {} \/ app.listener = {}
  BY <1>0, <1>1 DEF Sensors!Scheduled, ReportsMore
<1>2. CASE ~(vs = {} \/ app.listener = {})
  <2>1. PICK v \in vs : v = CHOOSE x \in vs : TRUE
    BY <1>2
  <2>2. PICK e : e = Sensors!Report(c, v, for)
    OBVIOUS
  <2>3. q = Append(app.queue, e)
    BY <1>2, <2>1, <2>2 DEF Sensors!Scheduled
  <2>4. /\ e.args = Sensors!Args(c, v) /\ e.of = c /\ e.told = v /\ e.for = for
        /\ e.turn = app.turn
        /\ e = [args |-> e.args, of |-> e.of, told |-> e.told, for |-> e.for, turn |-> e.turn]
    BY <2>2 DEF Sensors!Report
  <2>5. e.args \in Arguments /\ v \in Sensors!Values /\ for \in Fors
    BY <2>4 DEF Arguments, Fors
  <2>6. e \in Reported
    BY <1>0, <2>4, <2>5 DEF Reported
  <2>7. /\ q \in Seq(Reported) /\ Len(q) = Len(app.queue) + 1 /\ q[Len(app.queue) + 1] = e
        /\ \A i \in 1..Len(app.queue) : q[i] = app.queue[i]
    BY <1>0, <2>3, <2>6
  <2>8. \A i \in 1..Len(q) : i \in 1..Len(app.queue) \/ i = Len(app.queue) + 1
    BY <1>0, <2>7
  <2>9. ASSUME NEW i \in 1..Len(q)
        PROVE  \/ i \in 1..Len(app.queue) /\ q[i] = app.queue[i]
               \/ /\ q[i].of = c /\ q[i].for = for /\ q[i].told \in vs
                  /\ q[i].args = Sensors!Args(c, q[i].told) /\ q[i].turn = app.turn
    <3>1. CASE i \in 1..Len(app.queue)
      BY <2>7, <3>1
    <3>2. CASE i = Len(app.queue) + 1
      <4>1. q[i] = e
        BY <2>7, <3>2
      <4> QED BY <2>1, <2>4, <4>1
    <3> QED BY <2>8, <3>1, <3>2
  <2> QED BY <2>7, <2>9 DEF ReportsMore
<1> QED BY <1>1, <1>2

(* The driver reports for the command in progress, and is free again.      *)
LEMMA SetValueKept ==
  ASSUME SensorInv, Sensors!set_value
  PROVE  SensorInv'
<1>0. SensorTyped /\ ReportsAreTrue /\ CallIsAlone /\ Sensors!ReadingIsOwn
  BY DEF SensorInv
<1>1. PICK c, v, preset, q :
        /\ c \in app.busy /\ v \in Sensors!Values /\ ~Sensors!Filtered(c, v)
        /\ q = Sensors!Scheduled(c, {v}, c[1])
        /\ preset = IF app.kind = "proximity" THEN [any |-> {}] ELSE app.preset
        /\ Sensors!Set([busy |-> {}, queue |-> q, preset |-> preset])
  BY DEF Sensors!set_value, Sensors!Is
<1>2. c \in Served
  BY <1>0, <1>1 DEF SensorTyped
<1>3. preset \in [Sensors!Fake[app.kind].keys -> SUBSET Sensors!Values]
  <2>1. app.kind = "proximity" => Sensors!Fake[app.kind].keys = {"any"}
    BY DEF Sensors!Fake, Sensors!FakeProximity
  <2> QED BY <1>0, <1>1, <2>1 DEF SensorTyped
<1>4. /\ q \in Seq(Reported)
      /\ \A i \in 1..Len(q) :
            \/ i \in 1..Len(app.queue) /\ q[i] = app.queue[i]
            \/ /\ q[i].of = c /\ q[i].for = c[1] /\ q[i].told = v
               /\ q[i].args = Sensors!Args(c, q[i].told) /\ q[i].turn = app.turn
  <2>1. PICK vs : vs = {v}
    OBVIOUS
  <2>2. PICK for : for = c[1]
    OBVIOUS
  <2>3. /\ vs \in SUBSET Sensors!Values /\ for \in {"any", c[1]}
        /\ q = Sensors!Scheduled(c, vs, for)
    BY <1>1, <2>1, <2>2
  <2>4. ReportsMore(q, c, vs, for)
    BY <1>0, <1>2, <2>3, ScheduledIs
  <2> QED BY <2>1, <2>2, <2>4 DEF ReportsMore
<1>5. /\ DOMAIN app' = DOMAIN app
      /\ app'.kind = app.kind /\ app'.turn = app.turn /\ app'.over = app.over
      /\ app'.want = app.want /\ app'.rest = app.rest /\ app'.at = app.at
      /\ app'.queue = q /\ app'.got = app.got /\ app'.busy = {} /\ app'.preset = preset
  <2> DEFINE f == [busy |-> {}, queue |-> q, preset |-> preset]
  <2>1. Sensors!Set(f) /\ DOMAIN f = {"busy", "queue", "preset"}
        /\ f.busy = {} /\ f.queue = q /\ f.preset = preset
    BY <1>1
  <2> HIDE DEF f
  <2> QED BY <1>0, <2>1, SensorSets DEF SensorTyped
<1>6. SensorTyped'
  BY <1>0, <1>3, <1>4, <1>5, KindStays DEF SensorTyped
<1>7. ReportsAreTrue'
  BY <1>0, <1>4, <1>5, KindStays DEF ReportsAreTrue
<1>8. CallIsAlone'
  <2>1. ~(app.at = "subscribed" /\ ~app.over)
    BY <1>0, <1>1 DEF CallIsAlone
  <2>2. app.at = "waiting" /\ ~app.over =>
          c = app.want /\ \A i \in 1..Len(q) : AnswersCall(app.want, q[i])
    BY <1>0, <1>1, <1>4 DEF CallIsAlone, AnswersCall
  <2> QED BY <1>0, <1>5, <2>1, <2>2, KindStays DEF CallIsAlone, AnswersCall, Sensors!Filtered
<1>9. Sensors!ReadingIsOwn'
  BY <1>0, <1>5 DEF Sensors!ReadingIsOwn, Sensors!Filtered
<1> QED BY <1>6, <1>7, <1>8, <1>9 DEF SensorInv

(* A command that is accepted finds a report prepared for it, or waits.    *)
LEMMA AcceptedIs ==
  ASSUME SensorTyped, ReportsAreTrue, NEW c \in Sensors!Commands, ~Sensors!Refused(c),
         NEW a, a = Sensors!Accepted(c)
  PROVE  /\ DOMAIN a = {"busy", "queue", "preset"} /\ app.busy = {} /\ c \in Served
         /\ a.busy \subseteq {c}
         /\ a.preset \in [Sensors!Fake[app.kind].keys -> SUBSET Sensors!Values]
         /\ a.queue \in Seq(Reported)
         /\ \A i \in 1..Len(a.queue) :
               /\ a.queue[i].args = Sensors!Args(a.queue[i].of, a.queue[i].told)
               /\ a.queue[i].turn = app.turn
               /\ \/ i \in 1..Len(app.queue) /\ a.queue[i] = app.queue[i]
                  \/ AnswersCall(c, a.queue[i])
<1>1. c \in Served /\ app.busy = {} /\ c[1] \in Sensors!Fake[app.kind].has
  BY DEF Sensors!Refused, Served
<1>2. PICK k : k = Sensors!Key(c)
  OBVIOUS
<1>3. k \in {"any", c[1]} /\ k \in Sensors!Fake[app.kind].keys
  <2>1. app.kind \in DOMAIN Sensors!Fake
    BY DEF SensorTyped
  <2>2. CASE app.kind = "adc"
    BY <1>1, <1>2, <2>2 DEF Sensors!Key, Sensors!Is, Sensors!Fake, Sensors!FakeAdc
  <2>3. CASE app.kind = "air"
    BY <1>1, <1>2, <2>3 DEF Sensors!Key, Sensors!Is, Sensors!Fake, Sensors!FakeAirQuality
  <2>4. CASE app.kind \notin {"adc", "air"}
    <3>1. k = "any"
      BY <1>2, <2>4 DEF Sensors!Key, Sensors!Is
    <3>2. "any" \in Sensors!Fake[app.kind].keys
      BY <2>1, <2>4 DEF Sensors!Fake, Sensors!FakeAmbientLight, Sensors!FakeNineDof,
            Sensors!FakeProximity, Sensors!FakeSoundPressure, Sensors!FakeTemperature,
            Sensors!FakeBuzzer
    <3> QED BY <3>1, <3>2
  <2> QED BY <2>2, <2>3, <2>4
<1>4. PICK vs : vs = Sensors!Offered(c)
  OBVIOUS
<1>5. vs \in SUBSET Sensors!Values /\ \A v \in vs : ~Sensors!Filtered(c, v)
  <2>1. app.preset[k] \subseteq Sensors!Values
    BY <1>3 DEF SensorTyped
  <2> QED BY <1>2, <1>4, <2>1 DEF Sensors!Offered
<1>6. Sensors!Left(c) \in [Sensors!Fake[app.kind].keys -> SUBSET Sensors!Values]
  <2>0. app.preset \in [Sensors!Fake[app.kind].keys -> SUBSET Sensors!Values]
    BY DEF SensorTyped
  <2>1. CASE app.kind = "air"
    <3>1. Sensors!Fake[app.kind].keys = {"any", "co2", "tvoc"}
      BY <2>1 DEF Sensors!Fake, Sensors!FakeAirQuality
    <3>2. PICK p, r \in SUBSET Sensors!Values :
            Sensors!Left(c) = [app.preset EXCEPT !.any = {}, !.co2 = p, !.tvoc = r]
      BY <2>0, <2>1, <3>1 DEF Sensors!Left, Sensors!Is
    <3> QED BY <2>0, <3>1, <3>2
  <2>2. CASE app.kind # "air"
    <3>1. Sensors!Left(c) \in {app.preset, [app.preset EXCEPT ![k] = {}]}
      BY <1>2, <2>2 DEF Sensors!Left, Sensors!Is
    <3> QED BY <1>3, <2>0, <3>1
  <2> QED BY <2>1, <2>2
<1>7. PICK q : q = Sensors!Scheduled(c, vs, k)
  OBVIOUS
<1>8. ReportsMore(q, c, vs, k)
  <2>1. vs \in SUBSET Sensors!Values /\ k \in {"any", c[1]} /\ q = Sensors!Scheduled(c, vs, k)
    BY <1>3, <1>5, <1>7
  <2> QED BY <1>1, <2>1, ScheduledIs
<1>9. /\ DOMAIN a = {"busy", "queue", "preset"} /\ a.queue = q /\ a.busy \subseteq {c}
      /\ a.preset = Sensors!Left(c)
  BY <1>2, <1>4, <1>7 DEF Sensors!Accepted
<1>10. \A i \in 1..Len(q) :
         /\ q[i].args = Sensors!Args(q[i].of, q[i].told) /\ q[i].turn = app.turn
         /\ (i \in 1..Len(app.queue) /\ q[i] = app.queue[i]) \/ AnswersCall(c, q[i])
  BY <1>3, <1>5, <1>8 DEF ReportsAreTrue, AnswersCall, ReportsMore
<1>11. q \in Seq(Reported)
  BY <1>8 DEF ReportsMore
<1> QED BY <1>1, <1>6, <1>9, <1>10, <1>11

-----------------------------------------------------------------------------
(* The process registers a listener or takes it away: the queue goes.      *)
LEMMA RegisterKept ==
  ASSUME SensorInv, Sensors!register_listener \/ Sensors!unregister_listener
  PROVE  SensorInv'
<1>0. SensorTyped /\ ReportsAreTrue /\ CallIsAlone /\ Sensors!ReadingIsOwn
  BY DEF SensorInv
<1>1. PICK l : app.at = "app" /\ Sensors!Set([listener |-> l, queue |-> << >>])
  BY DEF Sensors!register_listener, Sensors!unregister_listener, Sensors!At
<1>2. /\ DOMAIN app' = DOMAIN app
      /\ app'.kind = app.kind /\ app'.turn = app.turn /\ app'.over = app.over
      /\ app'.want = app.want /\ app'.rest = app.rest /\ app'.at = app.at
      /\ app'.queue = << >> /\ app'.got = app.got /\ app'.busy = app.busy
      /\ app'.preset = app.preset
  <2> DEFINE f == [listener |-> l, queue |-> << >>]
  <2>1. Sensors!Set(f) /\ DOMAIN f = {"listener", "queue"} /\ f.queue = << >>
    BY <1>1
  <2> HIDE DEF f
  <2> QED BY <1>0, <2>1, SensorSets DEF SensorTyped
<1>3. SensorTyped'
  BY <1>0, <1>2, KindStays DEF SensorTyped
<1>4. ReportsAreTrue'
  BY <1>2 DEF ReportsAreTrue
<1>5. CallIsAlone'
  BY <1>0, <1>1, <1>2, KindStays DEF CallIsAlone
<1>6. Sensors!ReadingIsOwn'
  BY <1>0, <1>2 DEF Sensors!ReadingIsOwn, Sensors!Filtered
<1> QED BY <1>3, <1>4, <1>5, <1>6 DEF SensorInv

(* A measurement asked for without waiting.                                *)
LEMMA ReadKept ==
  ASSUME SensorInv, Sensors!read
  PROVE  SensorInv'
<1>0. SensorTyped /\ ReportsAreTrue /\ CallIsAlone /\ Sensors!ReadingIsOwn
  BY DEF SensorInv
<1>1. PICK c \in Sensors!Commands :
        app.at = "app" /\ ~Sensors!Refused(c) /\ Sensors!Set(Sensors!Accepted(c))
  BY DEF Sensors!read, Sensors!At
<1>2. PICK a : a = Sensors!Accepted(c)
  OBVIOUS
<1>3. /\ DOMAIN a = {"busy", "queue", "preset"} /\ c \in Served /\ a.busy \subseteq {c}
      /\ a.preset \in [Sensors!Fake[app.kind].keys -> SUBSET Sensors!Values]
      /\ a.queue \in Seq(Reported)
      /\ \A i \in 1..Len(a.queue) :
            /\ a.queue[i].args = Sensors!Args(a.queue[i].of, a.queue[i].told)
            /\ a.queue[i].turn = app.turn
  BY <1>0, <1>1, <1>2, AcceptedIs
<1>4. /\ DOMAIN app' = DOMAIN app
      /\ app'.kind = app.kind /\ app'.turn = app.turn /\ app'.over = app.over
      /\ app'.want = app.want /\ app'.rest = app.rest /\ app'.at = app.at
      /\ app'.queue = a.queue /\ app'.got = app.got /\ app'.busy = a.busy
      /\ app'.preset = a.preset
  <2>1. Sensors!Set(a)
    BY <1>1, <1>2
  <2> QED BY <1>0, <1>3, <2>1, SensorSets DEF SensorTyped
<1>5. SensorTyped'
  BY <1>0, <1>3, <1>4, KindStays DEF SensorTyped
<1>6. ReportsAreTrue'
  BY <1>3, <1>4, KindStays DEF ReportsAreTrue
<1>7. CallIsAlone'
  BY <1>0, <1>1, <1>4, KindStays DEF CallIsAlone
<1>8. Sensors!ReadingIsOwn'
  BY <1>0, <1>4 DEF Sensors!ReadingIsOwn, Sensors!Filtered
<1> QED BY <1>5, <1>6, <1>7, <1>8 DEF SensorInv

(* What is taken from the queue is what the sensor was given.              *)
LEMMA HeadIs ==
  ASSUME SensorTyped, ReportsAreTrue, app.queue # << >>, NEW e, e = Head(app.queue)
  PROVE  /\ e = app.queue[1] /\ 1 \in 1..Len(app.queue)
         /\ Sensors!Heard(e.args) = e.told /\ e.turn = app.turn
         /\ Tail(app.queue) \in Seq(Reported)
         /\ \A i \in 1..Len(Tail(app.queue)) :
               i + 1 \in 1..Len(app.queue) /\ Tail(app.queue)[i] = app.queue[i + 1]
<1>1. app.queue \in Seq(Reported)
  BY DEF SensorTyped
<1>2. /\ e = app.queue[1] /\ 1 \in 1..Len(app.queue) /\ e \in Reported
      /\ Tail(app.queue) \in Seq(Reported)
      /\ \A i \in 1..Len(Tail(app.queue)) :
            i + 1 \in 1..Len(app.queue) /\ Tail(app.queue)[i] = app.queue[i + 1]
  BY <1>1
<1>3. e.args = Sensors!Args(e.of, e.told) /\ e.turn = app.turn
  BY <1>2 DEF ReportsAreTrue
<1>4. e.told \in Sensors!Values /\ app.kind \in DOMAIN Sensors!Fake
  BY <1>2 DEF Reported, SensorTyped
<1>5. Sensors!Heard(Sensors!Args(e.of, e.told)) = e.told
  BY <1>4, HeardIsTold
<1> QED BY <1>2, <1>3, <1>5

(* The process yields, and its listener hears one report.                  *)
LEMMA ListenedKept ==
  ASSUME SensorInv, Sensors!yield_wait
  PROVE  SensorInv'
<1>0. SensorTyped /\ ReportsAreTrue /\ CallIsAlone /\ Sensors!ReadingIsOwn
  BY DEF SensorInv
<1>1. PICK e : e = Head(app.queue)
  OBVIOUS
<1>2. PICK q : q = Tail(app.queue)
  OBVIOUS
<1>3. PICK g : g = Sensors!Reading(e, TRUE)
  OBVIOUS
<1>4. /\ app.at = "app" /\ app.queue # << >>
      /\ Sensors!Set([at |-> "listener", got |-> <<g>>, queue |-> q])
  BY <1>1, <1>2, <1>3 DEF Sensors!yield_wait, Sensors!At
<1>5. /\ DOMAIN app' = DOMAIN app
      /\ app'.kind = app.kind /\ app'.turn = app.turn /\ app'.over = app.over
      /\ app'.want = app.want /\ app'.rest = app.rest /\ app'.at = "listener"
      /\ app'.queue = q /\ app'.got = <<g>> /\ app'.busy = app.busy
      /\ app'.preset = app.preset
  <2> DEFINE f == [at |-> "listener", got |-> <<g>>, queue |-> q]
  <2>1. Sensors!Set(f) /\ DOMAIN f = {"at", "got", "queue"}
        /\ f.at = "listener" /\ f.got = <<g>> /\ f.queue = q
    BY <1>4
  <2> HIDE DEF f
  <2> QED BY <1>0, <2>1, SensorSets DEF SensorTyped
<1>6. /\ Sensors!Heard(e.args) = e.told /\ e.turn = app.turn
      /\ q \in Seq(Reported)
      /\ \A i \in 1..Len(q) : i + 1 \in 1..Len(app.queue) /\ q[i] = app.queue[i + 1]
  BY <1>0, <1>1, <1>2, <1>4, HeadIs
<1>7. SensorTyped'
  BY <1>0, <1>5, <1>6, KindStays DEF SensorTyped
<1>8. ReportsAreTrue'
  BY <1>0, <1>5, <1>6, KindStays DEF ReportsAreTrue
<1>9. CallIsAlone'
  BY <1>0, <1>5, KindStays DEF CallIsAlone
<1>10. Sensors!ReadingIsOwn'
  <2>1. g.value = g.entry.told /\ g.entry.turn = g.turn /\ g.over
    BY <1>3, <1>6 DEF Sensors!Reading
  <2> QED BY <1>5, <2>1 DEF Sensors!ReadingIsOwn
<1> QED BY <1>7, <1>8, <1>9, <1>10 DEF SensorInv

(* The listener returns.                                                   *)
LEMMA ListenerKept ==
  ASSUME SensorInv, Sensors!Listener
  PROVE  SensorInv'
<1>0. SensorTyped /\ ReportsAreTrue /\ CallIsAlone /\ Sensors!ReadingIsOwn
  BY DEF SensorInv
<1>1. app.at = "listener" /\ Sensors!Set([at |-> "app", got |-> << >>])
  BY DEF Sensors!Listener, Sensors!At
<1>2. /\ DOMAIN app' = DOMAIN app
      /\ app'.kind = app.kind /\ app'.turn = app.turn /\ app'.over = app.over
      /\ app'.want = app.want /\ app'.rest = app.rest /\ app'.at = "app"
      /\ app'.queue = app.queue /\ app'.got = << >> /\ app'.busy = app.busy
      /\ app'.preset = app.preset
  <2> DEFINE f == [at |-> "app", got |-> << >>]
  <2>1. Sensors!Set(f) /\ DOMAIN f = {"at", "got"} /\ f.at = "app" /\ f.got = << >>
    BY <1>1
  <2> HIDE DEF f
  <2> QED BY <1>0, <2>1, SensorSets DEF SensorTyped
<1>3. SensorTyped'
  BY <1>0, <1>2, KindStays DEF SensorTyped
<1>4. ReportsAreTrue'
  BY <1>0, <1>2, KindStays DEF ReportsAreTrue
<1>5. CallIsAlone'
  BY <1>0, <1>2, KindStays DEF CallIsAlone
<1>6. Sensors!ReadingIsOwn'
  BY <1>2 DEF Sensors!ReadingIsOwn
<1> QED BY <1>3, <1>4, <1>5, <1>6 DEF SensorInv

-----------------------------------------------------------------------------
(* A blocking call subscribes: its turn begins with an empty queue.        *)
LEMMA SubscribedKept ==
  ASSUME SensorInv, NEW c \in Sensors!Commands,
         DOMAIN app' = DOMAIN app, app'.kind = app.kind, app'.turn = 1 - app.turn,
         app'.over = (app.busy # {}), app'.want = c, app'.at = "subscribed",
         app'.queue = << >>, app'.got = app.got, app'.busy = app.busy,
         app'.preset = app.preset,
         app'.rest # << >> => app'.rest = << <<"tvoc", 0, 0>> >> /\ app.kind = "air"
  PROVE  SensorInv'
<1>0. SensorTyped /\ ReportsAreTrue /\ CallIsAlone /\ Sensors!ReadingIsOwn
  BY DEF SensorInv
<1>1. SensorTyped'
  <2>1. app'.over \in BOOLEAN
    OBVIOUS
  <2>2. app'.turn \in {0, 1}
    BY <1>0 DEF SensorTyped
  <2> QED BY <1>0, <2>1, <2>2, KindStays DEF SensorTyped
<1>2. ReportsAreTrue'
  BY DEF ReportsAreTrue
<1>3. CallIsAlone'
  BY KindStays DEF CallIsAlone
<1>4. Sensors!ReadingIsOwn'
  BY <1>0 DEF Sensors!ReadingIsOwn, Sensors!Filtered
<1> QED BY <1>1, <1>2, <1>3, <1>4 DEF SensorInv

(* The three ways into a blocking call.                                    *)
LEMMA SyncCallKept ==
  ASSUME SensorInv, Sensors!read_sync \/ Sensors!read_both \/ Sensors!Again
  PROVE  SensorInv'
<1>0. SensorTyped /\ CallIsAlone
  BY DEF SensorInv
<1>1. PICK c, h :
        /\ c \in Sensors!Commands /\ Sensors!Set(h)
        /\ DOMAIN h \ {"rest"} = {"at", "listener", "queue", "want", "over", "turn"}
        /\ h.at = "subscribed" /\ h.queue = << >> /\ h.want = c
        /\ h.over = (app.busy # {}) /\ h.turn = 1 - app.turn
        /\ "rest" \in DOMAIN h /\ h.rest # << >> =>
              h.rest = << <<"tvoc", 0, 0>> >> /\ app.kind = "air"
  <2>0. ASSUME NEW c, NEW g, g = Sensors!Subscribed(c)
        PROVE  /\ DOMAIN g = {"at", "listener", "queue", "want", "over", "turn"}
               /\ g.at = "subscribed" /\ g.queue = << >> /\ g.want = c
               /\ g.over = (app.busy # {}) /\ g.turn = 1 - app.turn
    BY <2>0 DEF Sensors!Subscribed
  <2>1. CASE Sensors!read_sync
    <3>1. PICK c \in Sensors!Commands : Sensors!Set(Sensors!Subscribed(c))
      BY <2>1 DEF Sensors!read_sync
    <3>2. PICK h : h = Sensors!Subscribed(c)
      OBVIOUS
    <3>3. Sensors!Set(h) /\ "rest" \notin DOMAIN h
      BY <2>0, <3>1, <3>2
    <3> QED BY <2>0, <3>2, <3>3
  <2>2. CASE Sensors!read_both \/ Sensors!Again
    <3>1. PICK c, r, f :
            /\ Sensors!Set(Sensors!With(f, Sensors!Subscribed(c)))
            /\ DOMAIN f = {"rest"} /\ f.rest = r /\ app.kind = "air"
            /\ r # << >> => r = << <<"tvoc", 0, 0>> >>
            /\ c \in {<<"co2", 0, 0>>, <<"tvoc", 0, 0>>}
      <4>1. CASE Sensors!read_both
        <5>1. PICK f : f = [rest |-> << <<"tvoc", 0, 0>> >>]
          OBVIOUS
        <5>2. PICK c : c = <<"co2", 0, 0>>
          OBVIOUS
        <5>3. Sensors!Set(Sensors!With(f, Sensors!Subscribed(c))) /\ app.kind = "air"
          BY <4>1, <5>1, <5>2 DEF Sensors!read_both, Sensors!Is
        <5>4. DOMAIN f = {"rest"} /\ f.rest = << <<"tvoc", 0, 0>> >>
          BY <5>1
        <5> QED BY <5>2, <5>3, <5>4
      <4>2. CASE Sensors!Again
        <5>1. PICK f : f = [rest |-> << >>]
          OBVIOUS
        <5>2. PICK c : c = app.rest[1]
          OBVIOUS
        <5>3. Sensors!Set(Sensors!With(f, Sensors!Subscribed(c))) /\ app.at = "again"
          BY <4>2, <5>1, <5>2 DEF Sensors!Again, Sensors!At
        <5>4. DOMAIN f = {"rest"} /\ f.rest = << >>
          BY <5>1
        <5>5. app.rest = << <<"tvoc", 0, 0>> >> /\ app.kind = "air"
          BY <1>0, <5>3 DEF CallIsAlone
        <5>6. c = <<"tvoc", 0, 0>>
          BY <5>2, <5>5
        <5> QED BY <5>3, <5>4, <5>5, <5>6
      <4> QED BY <2>2, <4>1, <4>2
    <3>2. c \in Sensors!Commands
      BY <3>1 DEF Sensors!Commands, Sensors!Reads, Sensors!AirQualityReads
    <3>3. PICK g : g = Sensors!Subscribed(c)
      OBVIOUS
    <3>4. PICK h : h = Sensors!With(f, g)
      OBVIOUS
    <3>5. Sensors!Set(h)
      BY <3>1, <3>3, <3>4
    <3>6. /\ DOMAIN h = {"rest"} \cup DOMAIN g /\ h.rest = r
          /\ \A x \in DOMAIN g \ {"rest"} : h[x] = g[x]
      <4>1. /\ DOMAIN h = DOMAIN f \cup DOMAIN g /\ \A x \in DOMAIN f : h[x] = f[x]
            /\ \A x \in DOMAIN g \ DOMAIN f : h[x] = g[x]
        BY <3>4 DEF Sensors!With
      <4>2. DOMAIN f = {"rest"} /\ f.rest = r
        BY <3>1
      <4>3. h["rest"] = f["rest"]
        BY <4>1, <4>2
      <4> QED BY <4>1, <4>2, <4>3
    <3>7. /\ DOMAIN g = {"at", "listener", "queue", "want", "over", "turn"}
          /\ g.at = "subscribed" /\ g.queue = << >> /\ g.want = c
          /\ g.over = (app.busy # {}) /\ g.turn = 1 - app.turn
      BY <2>0, <3>3
    <3>8. /\ DOMAIN h \ {"rest"} = {"at", "listener", "queue", "want", "over", "turn"}
          /\ h.at = "subscribed" /\ h.queue = << >> /\ h.want = c
          /\ h.over = (app.busy # {}) /\ h.turn = 1 - app.turn
      BY <3>6, <3>7
    <3> QED BY <3>1, <3>2, <3>5, <3>6, <3>8
  <2> QED BY <2>1, <2>2
<1>2. /\ DOMAIN app' = DOMAIN app
      /\ app'.kind = app.kind /\ app'.turn = 1 - app.turn
      /\ app'.over = (app.busy # {}) /\ app'.want = c /\ app'.at = "subscribed"
      /\ app'.queue = << >> /\ app'.got = app.got /\ app'.busy = app.busy
      /\ app'.preset = app.preset
  <2>1. /\ DOMAIN app' = DOMAIN app
        /\ \A x \in DOMAIN app \cap DOMAIN h : app'[x] = h[x]
        /\ \A x \in DOMAIN app \ DOMAIN h : app'[x] = app[x]
    BY <1>1, SensorSets
  <2>2. DOMAIN app = {"kind", "busy", "preset", "off", "listener", "queue", "at", "want",
                      "rest", "over", "turn", "got"}
    BY <1>0 DEF SensorTyped
  <2>3. DOMAIN h \ {"rest"} = {"at", "listener", "queue", "want", "over", "turn"}
    BY <1>1
  <2>4. /\ app'.turn = h.turn /\ app'.over = h.over /\ app'.want = h.want
        /\ app'.at = h.at /\ app'.queue = h.queue
    BY <2>1, <2>2, <2>3
  <2>5. /\ app'.kind = app.kind /\ app'.got = app.got /\ app'.busy = app.busy
        /\ app'.preset = app.preset
    BY <2>1, <2>2, <2>3
  <2> QED BY <1>1, <2>1, <2>4, <2>5
<1>3. app'.rest # << >> => app'.rest = << <<"tvoc", 0, 0>> >> /\ app.kind = "air"
  <2>1. CASE "rest" \in DOMAIN h
    <3>1. app'.rest = h.rest
      BY <1>0, <1>1, <2>1, SensorSets DEF SensorTyped
    <3> QED BY <1>1, <2>1, <3>1
  <2>2. CASE "rest" \notin DOMAIN h
    <3>1. app'.rest = app.rest
      BY <1>0, <1>1, <2>2, SensorSets DEF SensorTyped
    <3> QED BY <1>0, <3>1 DEF CallIsAlone
  <2> QED BY <2>1, <2>2
<1>4. c \in Sensors!Commands
  BY <1>1
<1> QED BY <1>2, <1>3, <1>4, SubscribedKept

(* The call's command: refused, or the driver is the call's.               *)
LEMMA CommandKept ==
  ASSUME SensorInv, Sensors!Command
  PROVE  SensorInv'
<1>0. SensorTyped /\ ReportsAreTrue /\ CallIsAlone /\ Sensors!ReadingIsOwn
  BY DEF SensorInv
<1>1. app.at = "subscribed" /\ app.want \in Sensors!Commands
  BY <1>0 DEF Sensors!Command, Sensors!At, CallIsAlone
<1>2. CASE Sensors!Refused(app.want)
  <2>1. Sensors!Set([at |-> "leave"])
    BY <1>2 DEF Sensors!Command
  <2>2. /\ DOMAIN app' = DOMAIN app
        /\ app'.kind = app.kind /\ app'.turn = app.turn /\ app'.over = app.over
        /\ app'.want = app.want /\ app'.rest = app.rest /\ app'.at = "leave"
        /\ app'.queue = app.queue /\ app'.got = app.got /\ app'.busy = app.busy
        /\ app'.preset = app.preset
    <3> DEFINE f == [at |-> "leave"]
    <3>1. Sensors!Set(f) /\ DOMAIN f = {"at"} /\ f.at = "leave"
      BY <2>1
    <3> HIDE DEF f
    <3> QED BY <1>0, <3>1, SensorSets DEF SensorTyped
  <2>3. SensorTyped'
    BY <1>0, <2>2, KindStays DEF SensorTyped
  <2>4. ReportsAreTrue'
    BY <1>0, <2>2, KindStays DEF ReportsAreTrue
  <2>5. CallIsAlone'
    BY <1>0, <2>2, KindStays DEF CallIsAlone
  <2>6. Sensors!ReadingIsOwn'
    BY <1>0, <2>2 DEF Sensors!ReadingIsOwn, Sensors!Filtered
  <2> QED BY <2>3, <2>4, <2>5, <2>6 DEF SensorInv
<1>3. CASE ~Sensors!Refused(app.want)
  <2>1. PICK a : a = Sensors!Accepted(app.want)
    OBVIOUS
  <2>2. PICK c : c = app.want
    OBVIOUS
  <2>3. /\ DOMAIN a = {"busy", "queue", "preset"} /\ c \in Served /\ a.busy \subseteq {c}
        /\ a.preset \in [Sensors!Fake[app.kind].keys -> SUBSET Sensors!Values]
        /\ a.queue \in Seq(Reported)
        /\ \A i \in 1..Len(a.queue) :
              /\ a.queue[i].args = Sensors!Args(a.queue[i].of, a.queue[i].told)
              /\ a.queue[i].turn = app.turn
              /\ \/ i \in 1..Len(app.queue) /\ a.queue[i] = app.queue[i]
                 \/ AnswersCall(c, a.queue[i])
    <3>1. c \in Sensors!Commands /\ ~Sensors!Refused(c) /\ a = Sensors!Accepted(c)
      BY <1>1, <1>3, <2>1, <2>2
    <3> QED BY <1>0, <3>1, AcceptedIs
  <2>4. PICK f : f = [at |-> "waiting"]
    OBVIOUS
  <2>5. PICK h : h = Sensors!With(f, a)
    OBVIOUS
  <2>6. Sensors!Set(h)
    BY <1>3, <2>1, <2>4, <2>5 DEF Sensors!Command
  <2>7. /\ DOMAIN h = {"at", "busy", "queue", "preset"} /\ h.at = "waiting"
        /\ h.busy = a.busy /\ h.queue = a.queue /\ h.preset = a.preset
    <3>1. /\ DOMAIN h = DOMAIN f \cup DOMAIN a /\ \A x \in DOMAIN f : h[x] = f[x]
          /\ \A x \in DOMAIN a \ DOMAIN f : h[x] = a[x]
      BY <2>5 DEF Sensors!With
    <3>2. DOMAIN f = {"at"} /\ f.at = "waiting"
      BY <2>4
    <3>3. h["at"] = f["at"]
      BY <3>1, <3>2
    <3> QED BY <2>3, <3>1, <3>2, <3>3
  <2>8. /\ DOMAIN app' = DOMAIN app
        /\ app'.kind = app.kind /\ app'.turn = app.turn /\ app'.over = app.over
        /\ app'.want = app.want /\ app'.rest = app.rest /\ app'.at = "waiting"
        /\ app'.queue = a.queue /\ app'.got = app.got /\ app'.busy = a.busy
        /\ app'.preset = a.preset
    BY <1>0, <2>6, <2>7, SensorSets DEF SensorTyped
  <2>9. SensorTyped'
    BY <1>0, <2>3, <2>8, KindStays DEF SensorTyped
  <2>10. ReportsAreTrue'
    BY <2>3, <2>8, KindStays DEF ReportsAreTrue
  <2>11. CallIsAlone'
    <3>1. app.over \/ \A i \in 1..Len(a.queue) : AnswersCall(c, a.queue[i])
      BY <1>0, <1>1, <2>3 DEF CallIsAlone
    <3> QED BY <1>0, <1>1, <2>2, <2>3, <2>8, <3>1, KindStays
            DEF CallIsAlone, AnswersCall, Sensors!Filtered
  <2>12. Sensors!ReadingIsOwn'
    BY <1>0, <2>8 DEF Sensors!ReadingIsOwn, Sensors!Filtered
  <2> QED BY <2>9, <2>10, <2>11, <2>12 DEF SensorInv
<1> QED BY <1>2, <1>3

(* The call is woken by the first report of its turn.                      *)
LEMMA WokenKept ==
  ASSUME SensorInv, Sensors!Woken
  PROVE  SensorInv'
<1>0. SensorTyped /\ ReportsAreTrue /\ CallIsAlone /\ Sensors!ReadingIsOwn
  BY DEF SensorInv
<1>1. PICK e : e = Head(app.queue)
  OBVIOUS
<1>2. PICK q : q = Tail(app.queue)
  OBVIOUS
<1>3. PICK g : g = Sensors!Reading(e, app.over)
  OBVIOUS
<1>4. /\ app.at = "waiting" /\ app.queue # << >>
      /\ Sensors!Set([at |-> "leave", got |-> <<g>>, queue |-> q])
  BY <1>1, <1>2, <1>3 DEF Sensors!Woken, Sensors!At
<1>5. /\ DOMAIN app' = DOMAIN app
      /\ app'.kind = app.kind /\ app'.turn = app.turn /\ app'.over = app.over
      /\ app'.want = app.want /\ app'.rest = app.rest /\ app'.at = "leave"
      /\ app'.queue = q /\ app'.got = <<g>> /\ app'.busy = app.busy
      /\ app'.preset = app.preset
  <2> DEFINE f == [at |-> "leave", got |-> <<g>>, queue |-> q]
  <2>1. Sensors!Set(f) /\ DOMAIN f = {"at", "got", "queue"}
        /\ f.at = "leave" /\ f.got = <<g>> /\ f.queue = q
    BY <1>4
  <2>2. DOMAIN app = {"kind", "busy", "preset", "off", "listener", "queue", "at", "want",
                      "rest", "over", "turn", "got"}
    BY <1>0 DEF SensorTyped
  <2> HIDE DEF f
  <2>3. /\ DOMAIN app' = DOMAIN app
        /\ \A x \in DOMAIN app \cap DOMAIN f : app'[x] = f[x]
        /\ \A x \in DOMAIN app \ DOMAIN f : app'[x] = app[x]
    BY <2>1, SensorSets
  <2> QED BY <2>1, <2>2, <2>3
<1>6. /\ e = app.queue[1] /\ 1 \in 1..Len(app.queue)
      /\ Sensors!Heard(e.args) = e.told /\ e.turn = app.turn
      /\ q \in Seq(Reported)
      /\ \A i \in 1..Len(q) : i + 1 \in 1..Len(app.queue) /\ q[i] = app.queue[i + 1]
  BY <1>0, <1>1, <1>2, <1>4, HeadIs
<1>7. SensorTyped'
  BY <1>0, <1>5, <1>6, KindStays DEF SensorTyped
<1>8. ReportsAreTrue'
  BY <1>0, <1>5, <1>6, KindStays DEF ReportsAreTrue
<1>9. CallIsAlone'
  BY <1>0, <1>5, KindStays DEF CallIsAlone
<1>10. Sensors!ReadingIsOwn'
  <2>1. /\ g.value = g.entry.told /\ g.entry.turn = g.turn /\ g.over = app.over
        /\ g.want = app.want /\ g.entry = e
    BY <1>3, <1>6 DEF Sensors!Reading
  <2>2. ~app.over => AnswersCall(app.want, e)
    BY <1>0, <1>4, <1>6 DEF CallIsAlone
  <2> QED BY <1>5, <2>1, <2>2 DEF Sensors!ReadingIsOwn, AnswersCall, Sensors!Filtered
<1> QED BY <1>7, <1>8, <1>9, <1>10 DEF SensorInv

(* The call's scope ends.                                                  *)
LEMMA LeaveKept ==
  ASSUME SensorInv, Sensors!Leave
  PROVE  SensorInv'
<1>0. SensorTyped /\ ReportsAreTrue /\ CallIsAlone /\ Sensors!ReadingIsOwn
  BY DEF SensorInv
<1>1. PICK l : l = IF app.rest = << >> THEN "app" ELSE "again"
  OBVIOUS
<1>2. Sensors!Set([at |-> l, listener |-> {}, queue |-> << >>, want |-> << >>,
                   over |-> FALSE, got |-> << >>])
  BY <1>1 DEF Sensors!Leave
<1>3. /\ DOMAIN app' = DOMAIN app
      /\ app'.kind = app.kind /\ app'.turn = app.turn /\ app'.over = FALSE
      /\ app'.rest = app.rest /\ app'.at = l
      /\ app'.queue = << >> /\ app'.got = << >> /\ app'.busy = app.busy
      /\ app'.preset = app.preset
  <2> DEFINE f == [at |-> l, listener |-> {}, queue |-> << >>, want |-> << >>,
                   over |-> FALSE, got |-> << >>]
  <2>1. Sensors!Set(f) /\ DOMAIN f = {"at", "listener", "queue", "want", "over", "got"}
        /\ f.at = l /\ f.queue = << >> /\ f.over = FALSE /\ f.got = << >>
    BY <1>2
  <2> HIDE DEF f
  <2> QED BY <1>0, <2>1, SensorSets DEF SensorTyped
<1>4. SensorTyped'
  <2>1. app'.over \in BOOLEAN
    BY <1>3, Zenon
  <2>2. << >> \in Seq(Reported)
    OBVIOUS
  <2> QED BY <1>0, <1>3, <2>1, <2>2, KindStays DEF SensorTyped
<1>5. ReportsAreTrue'
  BY <1>3 DEF ReportsAreTrue
<1>6. CallIsAlone'
  BY <1>0, <1>1, <1>3, KindStays DEF CallIsAlone
<1>7. Sensors!ReadingIsOwn'
  BY <1>3 DEF Sensors!ReadingIsOwn
<1> QED BY <1>4, <1>5, <1>6, <1>7 DEF SensorInv

-----------------------------------------------------------------------------
(* It holds at the start, of any sensor.                                   *)
LEMMA SensorInit == Sensors!Init => SensorInv
<1> SUFFICES ASSUME Sensors!Init PROVE SensorInv
  OBVIOUS
<1>1. PICK k \in DOMAIN Sensors!Fake :
        app = [kind |-> k, busy |-> {}, preset |-> [x \in Sensors!Fake[k].keys |-> {}],
               off |-> {}, listener |-> {}, queue |-> << >>, at |-> "app", want |-> << >>,
               rest |-> << >>, over |-> FALSE, turn |-> 0, got |-> << >>]
  BY DEF Sensors!Init
<1>2. PICK p : p = [x \in Sensors!Fake[k].keys |-> {}]
  OBVIOUS
<1>3. /\ DOMAIN app = {"kind", "busy", "preset", "off", "listener", "queue", "at", "want",
                       "rest", "over", "turn", "got"}
      /\ app.kind = k /\ app.busy = {} /\ app.preset = p /\ app.queue = << >>
      /\ app.at = "app" /\ app.rest = << >> /\ app.over = FALSE /\ app.turn = 0
      /\ app.got = << >>
  BY <1>1, <1>2
<1>4. p \in [Sensors!Fake[k].keys -> SUBSET Sensors!Values]
  BY <1>2
<1>5. SensorTyped
  <2>1. app.over \in BOOLEAN
    BY <1>3, Zenon
  <2>2. << >> \in Seq(Reported)
    OBVIOUS
  <2> QED BY <1>3, <1>4, <2>1, <2>2 DEF SensorTyped
<1>6. ReportsAreTrue /\ CallIsAlone /\ Sensors!ReadingIsOwn
  BY <1>3 DEF ReportsAreTrue, CallIsAlone, Sensors!ReadingIsOwn
<1> QED BY <1>5, <1>6 DEF SensorInv

(* It is kept by every step of the sensor and of the process.              *)
LEMMA SensorStep ==
  ASSUME SensorInv, Sensors!Next
  PROVE  SensorInv'
<1>1. CASE Sensors!set_value
  BY <1>1, SetValueKept
<1>2. CASE Sensors!set_value_sync \/ Sensors!set_values_sync \/ Sensors!set_available
  BY <1>2, PrepareKept
<1>3. CASE Sensors!register_listener \/ Sensors!unregister_listener
  BY <1>3, RegisterKept
<1>4. CASE Sensors!read
  BY <1>4, ReadKept
<1>5. CASE Sensors!yield_wait
  BY <1>5, ListenedKept
<1>6. CASE Sensors!read_sync \/ Sensors!read_both \/ Sensors!Again
  BY <1>6, SyncCallKept
<1>7. CASE Sensors!Command
  BY <1>7, CommandKept
<1>8. CASE Sensors!Woken
  BY <1>8, WokenKept
<1>9. CASE Sensors!Leave
  BY <1>9, LeaveKept
<1>10. CASE Sensors!Listener
  BY <1>10, ListenerKept
<1> QED BY <1>1, <1>2, <1>3, <1>4, <1>5, <1>6, <1>7, <1>8, <1>9, <1>10
        DEF Sensors!Next, Sensors!Process

(* What the process reads is what the sensor was given to report, and the  *)
(* answer to its own command unless another was in progress when it began  *)
(* (air_quality lib.rs:79).                                                *)
THEOREM ReadingsStayOwn == Spec => []ReadingIsOwn
<1> DEFINE I == part = "sensor" => SensorInv
<1>1. Init => I
  <2> SUFFICES ASSUME Init, part = "sensor" PROVE SensorInv
    OBVIOUS
  <2>1. Sensors!Init
    BY DEF Init
  <2> QED BY <2>1, SensorInit
<1>2. I /\ [Next]_vars => I'
  <2>1. ASSUME I, SensorNext PROVE I'
    <3>1. part = "sensor" /\ Sensors!Next
      BY <2>1 DEF SensorNext
    <3> QED BY <2>1, <3>1, SensorStep
  <2>2. ASSUME I, [Next]_vars, ~SensorNext PROVE I'
    <3>1. part' = part
      BY <2>2 DEF Next, vars, RingNext, PinsNext, StepperNext, FakeNext, FormatterNext,
            LinesNext, DeviceNext
    <3>2. part = "sensor" => app' = app
      BY <2>2 DEF Next, vars, RingNext, PinsNext, StepperNext, FakeNext, FormatterNext,
            LinesNext, DeviceNext
    <3>3. ASSUME app' = app, SensorInv PROVE SensorInv'
      <4>1. SensorTyped /\ ReportsAreTrue /\ CallIsAlone /\ Sensors!ReadingIsOwn
        BY <3>3 DEF SensorInv
      <4>2. SensorTyped'
        BY <3>3, <4>1, KindStays DEF SensorTyped
      <4>3. ReportsAreTrue' /\ CallIsAlone'
        BY <3>3, <4>1, KindStays DEF ReportsAreTrue, CallIsAlone, AnswersCall, Sensors!Filtered
      <4>4. Sensors!ReadingIsOwn'
        BY <3>3, <4>1 DEF Sensors!ReadingIsOwn, Sensors!Filtered
      <4> QED BY <4>2, <4>3, <4>4 DEF SensorInv
    <3> QED BY <2>2, <3>1, <3>2, <3>3
  <2> QED BY <2>1, <2>2
<1>3. I => ReadingIsOwn
  BY DEF ReadingIsOwn, SensorInv
<1> QED BY <1>1, <1>2, <1>3, PTL DEF Spec

-----------------------------------------------------------------------------
(***************************************************************************)
(* What a process sets in a driver.  Each value is followed on its way:    *)
(* into the arguments, into what the driver keeps, and back.               *)
(***************************************************************************)
Offers(d) == CASE d = "radio" -> {"short", "pan", "channel", "power", "long", "on"}
               [] d = "spi" -> {"rate", "phase", "polarity"}
               [] d = "screen" -> {"rotation", "format", "resolution"}
               [] d = "leds" -> 0..LedCount

(* What a getter makes of what is kept, and what was asked for of it.      *)
ReadOf(d, s, x) == CASE d = "radio" -> Settings!RadioReads(s, Settings!RadioAnswers(s, x))
                     [] d = "spi" -> Settings!SpiReads(s, x)
                     [] OTHER -> x
AsAsked(d, s, value, asked) ==
    IF d = "spi" /\ s = "rate"
    THEN value % asked[2] = 0 /\ value \in asked[1] - asked[2] + 1 .. asked[1]
    ELSE value = asked

SettingTyped ==
    /\ DOMAIN app = {"device", "kept", "asked", "step", "got"}
    /\ app.device \in {"radio", "spi", "screen", "leds"}
    /\ app.kept = [s \in Offers(app.device) |-> app.kept[s]]
    /\ app.asked = [s \in Offers(app.device) |-> app.asked[s]]
    /\ app.step \in Nat \ {0}

KeptAsAsked ==
    \A s \in Offers(app.device) :
       AsAsked(app.device, s, ReadOf(app.device, s, app.kept[s]), app.asked[s])
GotAsAsked == \A g \in app.got : AsAsked(app.device, g.of, g.value, app.asked[g.of])

SettingInv == SettingTyped /\ KeptAsAsked /\ GotAsAsked

LEMMA SettingNumbers ==
    /\ Byte \in Nat /\ Half \in Nat /\ Word \in Nat /\ Degrees \in Nat \ {0} /\ LedCount \in Nat
    /\ 2 <= Byte /\ Byte < Half /\ Half < Word /\ Word % Byte = 0 /\ Degrees <= Half
    /\ Rates \subseteq 1 .. Word - 1 /\ Dividers \subseteq 0 .. Word - 1
BY LibraryAssumption DEF Settings!SettingsAssumption

(* A quotient and its rest, named.                                         *)
LEMMA Quotient ==
  ASSUME NEW a \in Nat, NEW b \in Nat \ {0}
  PROVE  \E q \in Nat, r \in 0..(b - 1) : q = a \div b /\ r = a % b /\ a = b * q + r
<1>1. PICK q \in Nat : q = a \div b
  BY Divides
<1>2. PICK r \in 0..(b - 1) : r = a % b
  BY Divides
<1>3. a = b * q + r
  BY <1>1, <1>2, Divides
<1> QED BY <1>1, <1>2, <1>3

(* Halves of the two sizes, in which a signed number is told from another. *)
LEMMA Halves ==
    \E b, w \in Nat : /\ b = Byte \div 2 /\ w = Word \div 2 /\ 1 <= b /\ b <= w
                      /\ b <= Byte - 1 /\ w <= Word - 1
<1>1. Byte \in Nat /\ Word \in Nat /\ 2 <= Byte /\ Byte < Word
  BY SettingNumbers
<1>2. PICK b \in Nat, r \in 0..(2 - 1) : b = Byte \div 2 /\ r = Byte % 2 /\ Byte = 2 * b + r
  BY <1>1, Quotient
<1>4. PICK w \in Nat, t \in 0..(2 - 1) : w = Word \div 2 /\ t = Word % 2 /\ Word = 2 * w + t
  BY <1>1, Quotient
<1>3. 1 <= b /\ b <= w /\ b <= Byte - 1 /\ w <= Word - 1
  BY <1>1, <1>2, <1>4
<1> QED BY <1>2, <1>3, <1>4

(* A power below zero is the greatest word, and the greatest byte of that. *)
LEMMA PowerTravels ==
  ASSUME NEW v \in {-1, 0, Byte \div 2 - 1}
  PROVE  Settings!Signed((Settings!Signed(v % Word, Word) % Word) % Byte, Byte) = v
<1>1. PICK b, w \in Nat : /\ b = Byte \div 2 /\ w = Word \div 2 /\ 1 <= b /\ b <= w
                          /\ b <= Byte - 1 /\ w <= Word - 1
  BY Halves
<1>2. /\ Byte \in Nat \ {0} /\ Word \in Nat \ {0} /\ Word % Byte = 0 /\ Byte < Word
      /\ Byte \in Int /\ Word \in Int
  BY SettingNumbers
<1>3. CASE v = -1
  <2>1. PICK m \in Int : Word = Byte * m
    <3>1. PICK m \in Nat, r \in 0..(Byte - 1) :
            m = Word \div Byte /\ r = Word % Byte /\ Word = Byte * m + r
      BY <1>2, Quotient
    <3>2. r = 0 /\ Word = Byte * m
      BY <1>2, <3>1
    <3> QED BY <3>2
  <2>2. v % Word = Word - 1
    <3>1. v = Word * (-1) + (Word - 1) /\ Word - 1 \in 0..(Word - 1)
      BY <1>2, <1>3
    <3>2. v \in Int /\ Word - 1 \in Int
      BY <1>2, <1>3
    <3> QED BY <1>2, <3>1, <3>2, DividesOnly
  <2>3. Settings!Signed(Word - 1, Word) = v
    <3>1. ~(Word - 1 < w) /\ (Word - 1) - Word = -1
      BY <1>1, <1>2
    <3> QED BY <1>1, <1>3, <3>1 DEF Settings!Signed
  <2>4. (Word - 1) % Byte = Byte - 1
    <3>1. PICK k \in Int : k = m - 1
      OBVIOUS
    <3>2. Word - 1 = Byte * k + (Byte - 1)
      BY <1>2, <2>1, <3>1
    <3>3. Byte - 1 \in 0..(Byte - 1) /\ Word - 1 \in Int
      BY <1>2
    <3> QED BY <1>2, <3>1, <3>2, <3>3, DividesOnly
  <2>5. Settings!Signed(Byte - 1, Byte) = v
    <3>1. ~(Byte - 1 < b) /\ (Byte - 1) - Byte = -1
      BY <1>1, <1>2
    <3> QED BY <1>1, <1>3, <3>1 DEF Settings!Signed
  <2> QED BY <2>2, <2>3, <2>4, <2>5
<1>4. CASE v # -1
  <2>1. v \in Nat /\ v < b /\ v < w /\ v < Byte /\ v < Word
    BY <1>1, <1>2, <1>4
  <2>2. v % Word = v /\ v % Byte = v
    BY <1>2, <2>1, ModSmall
  <2>3. Settings!Signed(v, Word) = v /\ Settings!Signed(v, Byte) = v
    BY <1>1, <2>1 DEF Settings!Signed
  <2> QED BY <2>2, <2>3
<1> QED BY <1>3, <1>4

(* A long address is put together again from its two halves.               *)
LEMMA AddressTravels == ASSUME NEW v \in Nat PROVE (v % Word) + (v \div Word) * Word = v
<1>1. Word \in Nat \ {0}
  BY SettingNumbers
<1>2. PICK q \in Nat, r \in 0..(Word - 1) : q = v \div Word /\ r = v % Word /\ v = Word * q + r
  BY <1>1, Quotient
<1>3. r + q * Word = v
  BY <1>1, <1>2
<1> QED BY <1>2, <1>3

(* The rate that a divider gives is a multiple of it, next below.          *)
LEMMA RateTravels ==
  ASSUME NEW v \in Nat \ {0}, NEW n \in Nat \ {0}, NEW x, x = (v \div n) * n
  PROVE  x % n = 0 /\ x \in v - n + 1 .. v
<1>1. PICK q \in Nat, r \in 0..(n - 1) : q = v \div n /\ r = v % n /\ v = n * q + r
  BY Quotient
<1>2. x = n * q + 0 /\ x \in Int
  BY <1>1
<1>3. x % n = 0
  <2>1. 0 \in 0..(n - 1)
    OBVIOUS
  <2> QED BY <1>2, <2>1, DividesOnly
<1>4. x = v - r
  BY <1>1, <1>2
<1> QED BY <1>1, <1>3, <1>4

-----------------------------------------------------------------------------
(* What each device keeps of what it takes, read again.                    *)
LEMMA RadioTravels ==
  ASSUME NEW s \in Offers("radio"), NEW v \in Settings!RadioAsks[s]
  PROVE  ReadOf("radio", s, Settings!RadioKeeps(s, Settings!RadioArgs(s, v))) = v
<1>1. /\ Byte \in Nat /\ Half \in Nat /\ Word \in Nat /\ 2 <= Byte /\ Byte < Half /\ Half < Word
  BY SettingNumbers
<1>2. s \in {"short", "pan", "channel", "power", "long", "on"}
  BY DEF Offers
<1>3. PICK k, w, a :
        /\ a = Settings!RadioArgs(s, v) /\ k = Settings!RadioKeeps(s, a)
        /\ w = Settings!RadioAnswers(s, k)
        /\ ReadOf("radio", s, k) = Settings!RadioReads(s, w)
  BY DEF ReadOf
<1>4. CASE s \in {"short", "pan"}
  <2>1. v \in {0, Half - 1}
    BY <1>4 DEF Settings!RadioAsks
  <2>2. a = <<v, 0>> /\ k = v
    BY <1>3, <1>4 DEF Settings!RadioArgs, Settings!RadioKeeps
  <2>3. w = v + 1 /\ ReadOf("radio", s, k) = (w - 1) % Half
    BY <1>3, <1>4, <2>2 DEF Settings!RadioAnswers, Settings!RadioReads
  <2>4. v \in 0..(Half - 1) /\ w - 1 = v
    BY <1>1, <2>1, <2>3
  <2> QED BY <1>1, <1>3, <2>3, <2>4, ModSmall
<1>5. CASE s = "channel"
  <2>1. v \in {0, Byte - 1}
    BY <1>5 DEF Settings!RadioAsks
  <2>2. a = <<v, 0>> /\ k = v
    BY <1>3, <1>5 DEF Settings!RadioArgs, Settings!RadioKeeps
  <2>3. w = v /\ ReadOf("radio", s, k) = w % Byte
    BY <1>3, <1>5, <2>2 DEF Settings!RadioAnswers, Settings!RadioReads
  <2>4. v \in 0..(Byte - 1)
    BY <1>1, <2>1
  <2> QED BY <1>1, <1>3, <2>3, <2>4, ModSmall
<1>6. CASE s = "power"
  <2>1. v \in {-1, 0, Byte \div 2 - 1}
    BY <1>6 DEF Settings!RadioAsks
  <2>2. a = <<v % Word, 0>> /\ k = Settings!Signed(v % Word, Word)
    BY <1>3, <1>6 DEF Settings!RadioArgs, Settings!RadioKeeps
  <2>3. w = k % Word /\ ReadOf("radio", s, k) = Settings!Signed(w % Byte, Byte)
    BY <1>3, <1>6 DEF Settings!RadioAnswers, Settings!RadioReads
  <2> QED BY <1>3, <2>1, <2>2, <2>3, PowerTravels
<1>7. CASE s = "long"
  <2>1. v \in {0, Word - 1, Word, Word * Word - 1}
    BY <1>7 DEF Settings!RadioAsks
  <2>2. a = <<v % Word, v \div Word>> /\ k = a[1] + a[2] * Word
    BY <1>3, <1>7 DEF Settings!RadioArgs, Settings!RadioKeeps
  <2>3. w = k /\ ReadOf("radio", s, k) = w
    BY <1>3, <1>7 DEF Settings!RadioAnswers, Settings!RadioReads
  <2>4. v \in Nat
    <3>1. 1 * 1 \in Nat /\ 1 * 1 <= Word * Word
      BY <1>1, ProductGrows
    <3>2. Word * Word \in Nat
      BY <1>1, ProductGrows
    <3>3. PICK m \in Nat : m = Word * Word
      BY <3>2
    <3> QED BY <1>1, <2>1, <3>1, <3>3
  <2>5. k = (v % Word) + (v \div Word) * Word
    BY <2>2
  <2> QED BY <1>3, <2>3, <2>4, <2>5, AddressTravels
<1>8. CASE s = "on"
  <2>2. a = <<v, 0>> /\ k = v
    BY <1>3, <1>8 DEF Settings!RadioArgs, Settings!RadioKeeps
  <2>3. w = v /\ ReadOf("radio", s, k) = w
    BY <1>3, <1>8, <2>2 DEF Settings!RadioAnswers, Settings!RadioReads
  <2> QED BY <1>3, <2>3
<1> QED BY <1>2, <1>4, <1>5, <1>6, <1>7, <1>8

(* A way of the clock is one of two, and travels as a flag.                *)
LEMMA SpiTravels ==
  ASSUME app.device = "spi", app.step \in Nat \ {0},
         NEW s \in Offers("spi"), NEW v \in Settings!SpiAsks[s]
  PROVE  AsAsked("spi", s, ReadOf("spi", s, Settings!SpiKeeps(s, Settings!SpiArgs(s, v))),
                 IF s = "rate" THEN <<v, app.step>> ELSE v)
<1>1. s \in {"rate", "phase", "polarity"}
  BY DEF Offers
<1>2. PICK k, a : /\ a = Settings!SpiArgs(s, v) /\ k = Settings!SpiKeeps(s, a)
                  /\ ReadOf("spi", s, k) = Settings!SpiReads(s, k)
  BY DEF ReadOf
<1>3. CASE s = "rate"
  <2>1. v \in Nat \ {0}
    <3>1. v \in Rates
      BY <1>3 DEF Settings!SpiAsks
    <3> QED BY <3>1, SettingNumbers
  <2>2. a = <<v, 0>> /\ k = (a[1] \div app.step) * app.step
    <3>1. a = <<v, 0>>
      BY <1>2, <1>3 DEF Settings!SpiArgs
    <3>2. k = (a[1] \div app.step) * app.step
      BY <1>2, <1>3, Zenon DEF Settings!SpiKeeps
    <3> QED BY <3>1, <3>2
  <2>3. ReadOf("spi", s, k) = k /\ k = (v \div app.step) * app.step
    BY <1>2, <1>3, <2>2 DEF Settings!SpiReads
  <2>4. k % app.step = 0 /\ k \in v - app.step + 1 .. v
    BY <2>1, <2>3, RateTravels
  <2> QED BY <1>2, <1>3, <2>3, <2>4 DEF AsAsked
<1>4. CASE s \in {"phase", "polarity"}
  <2>1. v \in IF s = "phase" THEN {"leading", "trailing"} ELSE {"low", "high"}
    BY <1>4 DEF Settings!SpiAsks
  <2>2. a = IF v \in {"leading", "low"} THEN <<0, 0>> ELSE <<1, 0>>
    BY <1>2, <1>4 DEF Settings!SpiArgs
  <2>3. k = IF v \in {"leading", "low"} THEN 0 ELSE 1
    BY <1>2, <1>4, <2>2 DEF Settings!SpiKeeps
  <2>4. ReadOf("spi", s, k) = v
    BY <1>2, <1>4, <2>1, <2>3 DEF Settings!SpiReads
  <2> QED BY <1>2, <1>4, <2>4 DEF AsAsked
<1> QED BY <1>1, <1>3, <1>4

(* What the screen does not refuse it keeps whole.                         *)
LEMMA ScreenTravels ==
  ASSUME NEW s \in Offers("screen"), NEW v \in Settings!ScreenAsks[s],
         ~Settings!ScreenRefuses(s, Settings!ScreenArgs(s, v))
  PROVE  Settings!ScreenKeeps(s, Settings!ScreenArgs(s, v)) = v
<1>1. s \in {"rotation", "format", "resolution"}
  BY DEF Offers
<1>2. Half \in Nat /\ 0 < Half /\ Degrees \in Nat \ {0} /\ Degrees <= Half
  BY SettingNumbers
<1>3. CASE s = "rotation"
  <2>1. v \in {0, Degrees - 1, Degrees}
    BY <1>3 DEF Settings!ScreenAsks
  <2>2. ~(v > Degrees - 1)
    BY <1>3 DEF Settings!ScreenRefuses, Settings!ScreenArgs
  <2>3. v \in 0..(Half - 1)
    BY <1>2, <2>1, <2>2
  <2>4. v % Half = v
    BY <1>2, <2>3, ModSmall
  <2> QED BY <1>3, <2>4 DEF Settings!ScreenKeeps, Settings!ScreenArgs
<1>4. CASE s = "format"
  BY <1>4 DEF Settings!ScreenKeeps, Settings!ScreenArgs
<1>5. CASE s = "resolution"
  <2>1. v \in {0, Half - 1} \X {0, Half - 1}
    BY <1>5 DEF Settings!ScreenAsks
  <2>2. v = <<v[1], v[2]>> /\ v[1] \in 0..(Half - 1) /\ v[2] \in 0..(Half - 1)
    BY <1>2, <2>1
  <2>3. v[1] % Half = v[1] /\ v[2] % Half = v[2]
    BY <1>2, <2>2, ModSmall
  <2> QED BY <1>5, <2>2, <2>3 DEF Settings!ScreenKeeps, Settings!ScreenArgs
<1> QED BY <1>1, <1>3, <1>4, <1>5

(* An LED is lit, dark, or the other way round.                            *)
LEMMA LedsTravel ==
  ASSUME NEW s, NEW v \in {"on", "off", "toggle"}, app.kept[s] = app.asked[s]
  PROVE  Settings!LedsKeeps(s, v) = IF v = "toggle" THEN ~app.asked[s] ELSE v = "on"
<1>1. CASE v = "on"
  BY <1>1, Zenon DEF Settings!LedsKeeps
<1>2. CASE v = "off"
  <2>1. v # "on" /\ v # "toggle"
    BY <1>2
  <2> QED BY <1>2, <2>1, Zenon DEF Settings!LedsKeeps
<1>3. CASE v = "toggle"
  <2>1. v # "on" /\ v # "off"
    BY <1>3
  <2> QED BY <1>3, <2>1, Zenon DEF Settings!LedsKeeps
<1> QED BY <1>1, <1>2, <1>3

-----------------------------------------------------------------------------
(* A setter that is not refused, of whatever device.                       *)
LEMMA SetTravels ==
  ASSUME SettingInv, NEW s \in Offers(app.device), NEW v \in Settings!Asks[s],
         ~Settings!Refuses(s, v)
  PROVE  AsAsked(app.device, s, ReadOf(app.device, s, Settings!Keeps(s, v)),
                 Settings!Believed(s, v))
<1>0. SettingTyped /\ KeptAsAsked
  BY DEF SettingInv
<1>1. app.device \in {"radio", "spi", "screen", "leds"} /\ app.step \in Nat \ {0}
  BY <1>0 DEF SettingTyped
<1>2. CASE app.device = "radio"
  <2>1. s \in Offers("radio") /\ v \in Settings!RadioAsks[s]
    BY <1>2 DEF Settings!Asks, Settings!Is
  <2>2. /\ Settings!Keeps(s, v) = Settings!RadioKeeps(s, Settings!RadioArgs(s, v))
        /\ Settings!Believed(s, v) = v
    BY <1>2 DEF Settings!Keeps, Settings!Believed, Settings!Is
  <2>3. ReadOf("radio", s, Settings!Keeps(s, v)) = v
    BY <2>1, <2>2, RadioTravels
  <2> QED BY <1>2, <2>2, <2>3 DEF AsAsked
<1>3. CASE app.device = "spi"
  <2>1. s \in Offers("spi") /\ v \in Settings!SpiAsks[s]
    BY <1>3 DEF Settings!Asks, Settings!Is
  <2>2. /\ Settings!Keeps(s, v) = Settings!SpiKeeps(s, Settings!SpiArgs(s, v))
        /\ Settings!Believed(s, v) = IF s = "rate" THEN <<v, app.step>> ELSE v
    BY <1>3 DEF Settings!Keeps, Settings!Believed, Settings!Is
  <2> QED BY <1>1, <1>3, <2>1, <2>2, SpiTravels
<1>4. CASE app.device = "screen"
  <2>1. s \in Offers("screen") /\ v \in Settings!ScreenAsks[s]
    BY <1>4 DEF Settings!Asks, Settings!Is
  <2>2. ~Settings!ScreenRefuses(s, Settings!ScreenArgs(s, v))
    BY <1>4 DEF Settings!Refuses, Settings!Is
  <2>3. /\ Settings!Keeps(s, v) = Settings!ScreenKeeps(s, Settings!ScreenArgs(s, v))
        /\ Settings!Believed(s, v) = v
    BY <1>4 DEF Settings!Keeps, Settings!Believed, Settings!Is
  <2>4. Settings!Keeps(s, v) = v
    BY <2>1, <2>2, <2>3, ScreenTravels
  <2> QED BY <1>4, <2>3, <2>4 DEF AsAsked, ReadOf
<1>5. CASE app.device = "leds"
  <2>1. v \in {"on", "off", "toggle"}
    BY <1>5 DEF Settings!Asks, Settings!LedsAsks, Settings!Is, Offers
  <2>2. app.kept[s] = app.asked[s]
    BY <1>0, <1>5 DEF KeptAsAsked, AsAsked, ReadOf
  <2>3. Settings!LedsKeeps(s, v) = IF v = "toggle" THEN ~app.asked[s] ELSE v = "on"
    BY <2>1, <2>2, LedsTravel
  <2>4. /\ Settings!Keeps(s, v) = Settings!LedsKeeps(s, v)
        /\ Settings!Believed(s, v) = IF v = "toggle" THEN ~app.asked[s] ELSE v = "on"
    <3>1. Settings!Keeps(s, v) = Settings!LedsKeeps(s, v)
      BY <1>5, Zenon DEF Settings!Keeps, Settings!Is
    <3>2. Settings!Believed(s, v) = IF v = "toggle" THEN ~app.asked[s] ELSE v = "on"
      BY <1>5, Zenon DEF Settings!Believed, Settings!Is
    <3> QED BY <3>1, <3>2
  <2>5. Settings!Keeps(s, v) = Settings!Believed(s, v)
    BY <2>3, <2>4, Zenon
  <2>6. ReadOf("leds", s, Settings!Keeps(s, v)) = Settings!Keeps(s, v)
    BY DEF ReadOf
  <2>7. AsAsked("leds", s, Settings!Keeps(s, v), Settings!Believed(s, v))
    BY <2>5 DEF AsAsked
  <2> QED BY <1>5, <2>6, <2>7
<1> QED BY <1>1, <1>2, <1>3, <1>4, <1>5

(* It changes one setting, and leaves what the others are read as.         *)
LEMMA SettingKept ==
  ASSUME SettingInv, Settings!set
  PROVE  SettingInv'
<1>0. SettingTyped /\ KeptAsAsked
  BY DEF SettingInv
<1>1. PICK s \in DOMAIN app.kept : \E v \in Settings!Asks[s] :
        IF Settings!Refuses(s, v) THEN app' = [app EXCEPT !.got = {}]
        ELSE app' = [app EXCEPT !.kept[s] = Settings!Keeps(s, v),
                                !.asked[s] = Settings!Believed(s, v), !.got = {}]
  BY DEF Settings!set
<1>2. PICK v \in Settings!Asks[s] :
        IF Settings!Refuses(s, v) THEN app' = [app EXCEPT !.got = {}]
        ELSE app' = [app EXCEPT !.kept[s] = Settings!Keeps(s, v),
                                !.asked[s] = Settings!Believed(s, v), !.got = {}]
  BY <1>1
<1>3. s \in Offers(app.device)
  BY <1>0 DEF SettingTyped
<1>4. CASE Settings!Refuses(s, v)
  <2>1. app' = [app EXCEPT !.got = {}]
    BY <1>2, <1>4
  <2> QED BY <1>0, <2>1 DEF SettingInv, SettingTyped, KeptAsAsked, GotAsAsked
<1>5. CASE ~Settings!Refuses(s, v)
  <2>1. PICK k, b : /\ k = Settings!Keeps(s, v) /\ b = Settings!Believed(s, v)
                    /\ app' = [app EXCEPT !.kept[s] = k, !.asked[s] = b, !.got = {}]
    BY <1>2, <1>5
  <2>2. AsAsked(app.device, s, ReadOf(app.device, s, k), b)
    BY <1>3, <1>5, <2>1, SetTravels
  <2>3. /\ DOMAIN app' = DOMAIN app /\ app'.device = app.device /\ app'.step = app.step
        /\ app'.kept = [app.kept EXCEPT ![s] = k] /\ app'.asked = [app.asked EXCEPT ![s] = b]
        /\ app'.got = {}
    BY <1>0, <2>1 DEF SettingTyped
  <2>4. /\ app'.kept = [t \in Offers(app.device) |-> app'.kept[t]]
        /\ app'.asked = [t \in Offers(app.device) |-> app'.asked[t]]
        /\ app'.kept[s] = k /\ app'.asked[s] = b
        /\ \A t \in Offers(app.device) :
              t # s => app'.kept[t] = app.kept[t] /\ app'.asked[t] = app.asked[t]
    BY <1>0, <1>3, <2>3 DEF SettingTyped
  <2>5. SettingTyped'
    BY <1>0, <2>3, <2>4 DEF SettingTyped
  <2>6. KeptAsAsked'
    <3> SUFFICES ASSUME NEW t \in Offers(app.device)
                 PROVE  AsAsked(app.device, t, ReadOf(app.device, t, app'.kept[t]),
                                app'.asked[t])
      BY <2>3 DEF KeptAsAsked
    <3>1. CASE t = s
      BY <2>2, <2>4, <3>1
    <3>2. CASE t # s
      <4>1. AsAsked(app.device, t, ReadOf(app.device, t, app.kept[t]), app.asked[t])
        BY <1>0 DEF KeptAsAsked
      <4> QED BY <2>4, <3>2, <4>1
    <3> QED BY <3>1, <3>2
  <2>7. GotAsAsked'
    BY <2>3 DEF GotAsAsked
  <2> QED BY <2>5, <2>6, <2>7 DEF SettingInv
<1> QED BY <1>4, <1>5

(* A getter answers with one of them.                                      *)
LEMMA GetKept ==
  ASSUME SettingInv, Settings!get
  PROVE  SettingInv'
<1>0. SettingTyped /\ KeptAsAsked
  BY DEF SettingInv
<1>1. PICK s \in DOMAIN app.kept :
        app' = [app EXCEPT !.got = {[of |-> s, value |-> Settings!Reads(s)]}]
  BY DEF Settings!get
<1>2. s \in Offers(app.device) /\ app.device \in {"radio", "spi", "screen", "leds"}
  BY <1>0 DEF SettingTyped
<1>3. Settings!Reads(s) = ReadOf(app.device, s, app.kept[s])
  BY <1>2, Zenon DEF Settings!Reads, Settings!Is, ReadOf
<1>4. PICK g : g = [of |-> s, value |-> Settings!Reads(s)]
  OBVIOUS
<1>5. /\ DOMAIN app' = DOMAIN app /\ app'.device = app.device /\ app'.step = app.step
      /\ app'.kept = app.kept /\ app'.asked = app.asked /\ app'.got = {g}
  BY <1>0, <1>1, <1>4 DEF SettingTyped
<1>6. g.of = s /\ g.value = ReadOf(app.device, s, app.kept[s])
  BY <1>3, <1>4
<1>7. SettingTyped' /\ KeptAsAsked'
  BY <1>0, <1>5 DEF SettingTyped, KeptAsAsked
<1>8. AsAsked(app.device, g.of, g.value, app.asked[g.of])
  BY <1>0, <1>2, <1>6 DEF KeptAsAsked
<1>9. GotAsAsked'
  BY <1>5, <1>8 DEF GotAsAsked
<1> QED BY <1>7, <1>9 DEF SettingInv

(* A divider is for the rates to come.                                     *)
LEMMA RateStepKept ==
  ASSUME SettingInv, Settings!set_rate_step
  PROVE  SettingInv'
<1>0. SettingTyped /\ KeptAsAsked
  BY DEF SettingInv
<1>1. PICK n \in Dividers : app' = [app EXCEPT !.step = IF n < 1 THEN 1 ELSE n, !.got = {}]
  BY DEF Settings!set_rate_step
<1>2. PICK m \in Nat \ {0} : m = IF n < 1 THEN 1 ELSE n
  BY SettingNumbers
<1>3. /\ DOMAIN app' = DOMAIN app /\ app'.device = app.device /\ app'.step = m
      /\ app'.kept = app.kept /\ app'.asked = app.asked /\ app'.got = {}
  BY <1>0, <1>1, <1>2 DEF SettingTyped
<1> QED BY <1>0, <1>3 DEF SettingInv, SettingTyped, KeptAsAsked, GotAsAsked

(* Nothing is read differently of a device nobody has set yet.             *)
LEMMA SettingBegins ==
  ASSUME NEW d \in {"radio", "spi", "screen", "leds"}, NEW k, NEW a,
         app = [device |-> d, kept |-> k, asked |-> a, step |-> 1, got |-> {}],
         k = [s \in Offers(d) |-> k[s]], a = [s \in Offers(d) |-> a[s]],
         \A s \in Offers(d) : AsAsked(d, s, ReadOf(d, s, k[s]), a[s])
  PROVE  SettingInv
<1>1. /\ DOMAIN app = {"device", "kept", "asked", "step", "got"}
      /\ app.device = d /\ app.kept = k /\ app.asked = a /\ app.step = 1 /\ app.got = {}
  OBVIOUS
<1> QED BY <1>1 DEF SettingInv, SettingTyped, KeptAsAsked, GotAsAsked

LEMMA SettingInit == Settings!Init => SettingInv
<1> SUFFICES ASSUME Settings!Init PROVE SettingInv
  OBVIOUS
<1>1. CASE app = Settings!Begins("radio", Settings!RadioInit)
  <2>1. PICK k : k = Settings!RadioInit
    OBVIOUS
  <2>2. /\ k = [s \in Offers("radio") |-> k[s]]
        /\ k.short = 0 /\ k.pan = 0 /\ k.channel = 0 /\ k.power = 0 /\ k.long = 0
        /\ k.on = FALSE
    BY <2>1 DEF Settings!RadioInit, Offers
  <2>3. ASSUME NEW s \in Offers("radio") PROVE ReadOf("radio", s, k[s]) = k[s]
    <3>1. s \in {"short", "pan", "channel", "power", "long", "on"}
      BY DEF Offers
    <3>2. /\ Byte \in Nat \ {0} /\ Half \in Nat \ {0} /\ Word \in Nat \ {0}
      BY SettingNumbers
    <3>3. 0 % Byte = 0 /\ 0 % Half = 0 /\ 0 % Word = 0
      BY <3>2, ModSmall
    <3>4. CASE s \in {"short", "pan"}
      <4>1. k[s] = 0 /\ (0 + 1) - 1 = 0
        BY <2>2, <3>4
      <4> QED BY <3>3, <3>4, <4>1
              DEF ReadOf, Settings!RadioReads, Settings!RadioAnswers
    <3>5. CASE s = "power"
      <4>1. PICK b \in Nat : b = Byte \div 2 /\ 1 <= b
        BY Halves
      <4>2. ReadOf("radio", s, k[s]) = Settings!Signed((0 % Word) % Byte, Byte)
        BY <2>2, <3>5 DEF ReadOf, Settings!RadioReads, Settings!RadioAnswers
      <4>3. Settings!Signed(0, Byte) = 0
        BY <4>1 DEF Settings!Signed
      <4> QED BY <2>2, <3>3, <3>5, <4>2, <4>3
    <3>6. CASE s \in {"channel", "long", "on"}
      BY <2>2, <3>3, <3>6 DEF ReadOf, Settings!RadioReads, Settings!RadioAnswers
    <3> QED BY <3>1, <3>4, <3>5, <3>6
  <2>4. \A s \in Offers("radio") : AsAsked("radio", s, ReadOf("radio", s, k[s]), k[s])
    BY <2>3 DEF AsAsked
  <2> QED BY <1>1, <2>1, <2>2, <2>4, SettingBegins DEF Settings!Begins
<1>2. CASE app = [Settings!Begins("spi", Settings!SpiInit) EXCEPT
                    !.kept = [rate |-> 1, phase |-> 0, polarity |-> 0],
                    !.asked.rate = <<1, 1>>]
  <2>1. PICK k, a : /\ k = [rate |-> 1, phase |-> 0, polarity |-> 0]
                    /\ a = [rate |-> <<1, 1>>, phase |-> "leading", polarity |-> "low"]
    OBVIOUS
  <2>2. app = [device |-> "spi", kept |-> k, asked |-> a, step |-> 1, got |-> {}]
    BY <1>2, <2>1 DEF Settings!Begins, Settings!SpiInit
  <2>3. /\ k = [s \in Offers("spi") |-> k[s]] /\ a = [s \in Offers("spi") |-> a[s]]
        /\ k.rate = 1 /\ k.phase = 0 /\ k.polarity = 0
        /\ a.rate = <<1, 1>> /\ a.phase = "leading" /\ a.polarity = "low"
    BY <2>1 DEF Offers
  <2>4. ASSUME NEW s \in Offers("spi") PROVE AsAsked("spi", s, ReadOf("spi", s, k[s]), a[s])
    <3>1. s \in {"rate", "phase", "polarity"}
      BY DEF Offers
    <3>2. CASE s = "rate"
      <4>1. ReadOf("spi", s, k[s]) = 1 /\ a[s][1] = 1 /\ a[s][2] = 1
        BY <2>3, <3>2 DEF ReadOf, Settings!SpiReads
      <4>2. 1 % 1 = 0 /\ 1 \in 1 - 1 + 1 .. 1
        OBVIOUS
      <4> QED BY <3>2, <4>1, <4>2 DEF AsAsked
    <3>3. CASE s \in {"phase", "polarity"}
      BY <2>3, <3>3 DEF AsAsked, ReadOf, Settings!SpiReads
    <3> QED BY <3>1, <3>2, <3>3
  <2> QED BY <2>2, <2>3, <2>4, SettingBegins
<1>3. ASSUME NEW d \in {"screen", "leds"}, NEW k, app = Settings!Begins(d, k),
             k = [s \in Offers(d) |-> k[s]]
      PROVE  SettingInv
  <2>1. \A s \in Offers(d) : AsAsked(d, s, ReadOf(d, s, k[s]), k[s])
    BY DEF AsAsked, ReadOf
  <2> QED BY <1>3, <2>1, SettingBegins DEF Settings!Begins
<1>4. CASE app = Settings!Begins("screen", Settings!ScreenInit)
  <2>1. PICK k : k = Settings!ScreenInit
    OBVIOUS
  <2>2. k = [s \in Offers("screen") |-> k[s]]
    BY <2>1 DEF Offers, Settings!ScreenInit
  <2> QED BY <1>3, <1>4, <2>1, <2>2
<1>5. CASE app = Settings!Begins("leds", Settings!LedsInit)
  <2>1. PICK k : k = Settings!LedsInit
    OBVIOUS
  <2>2. k = [s \in Offers("leds") |-> k[s]]
    BY <2>1 DEF Offers, Settings!LedsInit
  <2> QED BY <1>3, <1>5, <2>1, <2>2
<1> QED BY <1>1, <1>2, <1>4, <1>5 DEF Settings!Init

LEMMA SettingStep ==
  ASSUME SettingInv, Settings!Next
  PROVE  SettingInv'
BY SettingKept, GetKept, RateStepKept DEF Settings!Next

LEMMA SettingTells == SettingInv => Settings!SettingIsKept
BY Zenon DEF SettingInv, GotAsAsked, AsAsked, Settings!SettingIsKept, Settings!Is

-----------------------------------------------------------------------------
(***************************************************************************)
(* The bus.  What is left of the response is the end of it, from where the *)
(* process has read to; past its end zeros are read.                       *)
(***************************************************************************)
BusTyped ==
    /\ DOMAIN app = {"response", "promised", "written", "heard", "last"}
    /\ app.response \in Seq(Datum) /\ app.promised \in Seq(Datum) /\ app.heard \in Seq(Datum)

ResponseIsRest ==
    /\ Len(app.response) = IF Len(app.heard) <= Len(app.promised)
                           THEN Len(app.promised) - Len(app.heard) ELSE 0
    /\ \A i \in 1..Len(app.response) : app.response[i] = app.promised[Len(app.heard) + i]

BusInv == BusTyped /\ ResponseIsRest /\ Bus!BytesInOrder

LEMMA BusData == 0 \in Datum /\ 255 \in Datum /\ MaxLen \in Nat
BY LibraryAssumption DEF Bus!SpiAssumption

LEMMA Prepared ==
  /\ \A r \in Bus!Buffers : r \in Seq(Datum)
  /\ \A r \in Bus!Lent : r \in Seq(Datum)
<1>1. ASSUME NEW r \in Bus!Buffers PROVE r \in Seq(Datum)
  <2>1. PICK n \in 0..MaxLen : r \in [1..n -> Datum]
    BY DEF Bus!Buffers
  <2>2. n \in Nat
    BY BusData
  <2> QED BY <2>1, <2>2
<1>2. ASSUME NEW r \in Bus!Lent PROVE r \in Seq(Datum)
  <2>1. PICK n \in 0..MaxLen : r = [i \in 1..n |-> 255]
    BY DEF Bus!Lent
  <2>2. n \in Nat
    BY BusData
  <2> QED BY <2>1, <2>2, BusData
<1> QED BY <1>1, <1>2

(* A piece of a sequence.                                                  *)
LEMMA Cut ==
  ASSUME NEW s \in Seq(Datum), NEW a \in Nat, NEW b \in Nat, a <= b, b <= Len(s),
         NEW c, c = SubSeq(s, a + 1, b)
  PROVE  c \in Seq(Datum) /\ Len(c) = b - a /\ \A i \in 1..b - a : c[i] = s[a + i]
<1>1. Len(s) \in Nat
  BY LenProperties
<1>2. PICK p, q \in Int : p = a + 1 /\ q = b
  OBVIOUS
<1>3. \A i \in p..q : s[i] \in Datum
  <2>1. \A i \in p..q : i \in 1..Len(s)
    BY <1>1, <1>2
  <2> QED BY <2>1, ElementOfSeq
<1>4. /\ c \in Seq(Datum) /\ Len(c) = IF p <= q THEN q - p + 1 ELSE 0
      /\ \A i \in 1 .. q - p + 1 : c[i] = s[p + i - 1]
  BY <1>2, <1>3, SubSeqProperties
<1>5. Len(c) = b - a
  BY <1>2, <1>4
<1>6. \A i \in 1..b - a : i \in 1 .. q - p + 1 /\ p + i - 1 = a + i
  BY <1>2
<1> QED BY <1>4, <1>5, <1>6

(* What a transfer puts in a buffer.                                       *)
LEMMA Fills ==
  ASSUME BusTyped, NEW r \in Seq(Datum), NEW n \in 0..Len(r), NEW f, f = Bus!Filled(r, n)
  PROVE  /\ f \in Seq(Datum) /\ Len(f) = Len(r)
         /\ \A i \in 1..Len(r) : i > n => f[i] = r[i]
         /\ \A i \in 1..n : f[i] = IF i <= Len(app.response) THEN app.response[i] ELSE 0
<1>1. app.response \in Seq(Datum)
  BY DEF BusTyped
<1>2. PICK s, c, m : s = app.response /\ c = Len(s) /\ c \in Nat /\ m = Len(r) /\ m \in Nat
  BY <1>1, LenProperties
<1>3. f = [i \in 1..m |-> IF i > n THEN r[i] ELSE IF i <= c THEN s[i] ELSE 0]
  BY <1>2 DEF Bus!Filled
<1>4. \A i \in 1..m : (IF i > n THEN r[i] ELSE IF i <= c THEN s[i] ELSE 0) \in Datum
  <2>1. \A i \in 1..m : r[i] \in Datum
    BY <1>2, ElementOfSeq
  <2>2. \A i \in 1..c : s[i] \in Datum
    BY <1>1, <1>2, ElementOfSeq
  <2> QED BY <1>2, <2>1, <2>2, BusData
<1>5. f \in [1..m -> Datum]
  BY <1>3, <1>4, Zenon
<1>6. f \in Seq(Datum) /\ Len(f) = m
  BY <1>2, <1>5
<1>7. \A i \in 1..m : f[i] = IF i > n THEN r[i] ELSE IF i <= c THEN s[i] ELSE 0
  BY <1>3, Zenon
<1>8. \A i \in 1..n : i \in 1..m /\ ~(i > n)
  BY <1>2
<1> QED BY <1>2, <1>6, <1>7, <1>8

LEMMA TransferKept ==
  ASSUME BusInv, NEW sent, NEW r \in Seq(Datum), NEW len \in Nat,
         Bus!transfer(sent, r, len)
  PROVE  BusInv'
<1>0. BusTyped /\ ResponseIsRest /\ Bus!BytesInOrder
  BY DEF BusInv
<1>1. PICK s, h, p : /\ s = app.response /\ h = app.heard /\ p = app.promised
                     /\ s \in Seq(Datum) /\ h \in Seq(Datum) /\ p \in Seq(Datum)
  BY <1>0 DEF BusTyped
<1>2. Len(s) \in Nat /\ Len(h) \in Nat /\ Len(p) \in Nat /\ Len(r) \in Nat
  BY <1>1, LenProperties
<1>3. PICK n \in 0..Len(r) : n = Bus!Least(len, Len(r))
  BY <1>2 DEF Bus!Least
<1>4. PICK m \in 0..n : /\ m = Bus!Least(n, Len(s)) /\ m <= Len(s)
                        /\ m = IF n < Len(s) THEN n ELSE Len(s)
  BY <1>2, <1>3 DEF Bus!Least
<1>5. PICK f : f = Bus!Filled(r, n)
  OBVIOUS
<1>6. /\ f \in Seq(Datum) /\ Len(f) = Len(r)
      /\ \A i \in 1..Len(r) : i > n => f[i] = r[i]
      /\ \A i \in 1..n : f[i] = IF i <= Len(s) THEN s[i] ELSE 0
  BY <1>0, <1>1, <1>3, <1>5, Fills
<1>7. PICK left, came, t, w :
        /\ left = SubSeq(s, m + 1, Len(s)) /\ came = SubSeq(f, 1, n)
        /\ t = [before |-> r, after |-> f, n |-> n] /\ w = app.written \o sent
        /\ app' = [app EXCEPT !.response = left, !.written = w, !.heard = h \o came,
                              !.last = <<t>>]
  BY <1>1, <1>3, <1>4, <1>5 DEF Bus!transfer, Bus!Consumed
<1>8. /\ left \in Seq(Datum) /\ Len(left) = Len(s) - m
      /\ \A i \in 1..Len(left) : left[i] = s[m + i]
  <2>1. PICK e \in Nat : e = Len(s)
    BY <1>2
  <2>2. m \in Nat /\ m <= e /\ e <= Len(s) /\ left = SubSeq(s, m + 1, e)
    BY <1>2, <1>3, <1>4, <1>7, <2>1
  <2>3. left \in Seq(Datum) /\ Len(left) = e - m /\ \A i \in 1..e - m : left[i] = s[m + i]
    BY <1>1, <2>1, <2>2, Cut
  <2> QED BY <2>1, <2>3
<1>9. /\ came \in Seq(Datum) /\ Len(came) = n
      /\ \A i \in 1..n : came[i] = IF i <= Len(s) THEN s[i] ELSE 0
  <2>1. 0 \in Nat /\ n \in Nat /\ n <= Len(f) /\ 0 <= n /\ came = SubSeq(f, 0 + 1, n)
    BY <1>2, <1>3, <1>6, <1>7
  <2>2. /\ came \in Seq(Datum) /\ Len(came) = n - 0
        /\ \A i \in 1..n - 0 : came[i] = f[0 + i]
    BY <1>6, <2>1, Cut
  <2>3. n - 0 = n /\ \A i \in 1..n : 0 + i = i
    BY <2>1
  <2> QED BY <1>6, <2>2, <2>3
<1>10. PICK g : /\ g = h \o came /\ g \in Seq(Datum) /\ Len(g) = Len(h) + n
                /\ \A i \in 1 .. Len(h) + n : g[i] = IF i <= Len(h) THEN h[i]
                                                      ELSE came[i - Len(h)]
  <2>1. PICK g : g = h \o came
    OBVIOUS
  <2>2. h \in Seq(Datum) /\ came \in Seq(Datum) /\ Len(came) = n
    BY <1>1, <1>9
  <2>3. /\ h \o came \in Seq(Datum) /\ Len(h \o came) = Len(h) + Len(came)
        /\ \A i \in 1 .. Len(h) + Len(came) :
              (h \o came)[i] = IF i <= Len(h) THEN h[i] ELSE came[i - Len(h)]
    BY <2>2, ConcatProperties
  <2> QED BY <2>1, <2>2, <2>3
<1>11. /\ DOMAIN app' = DOMAIN app /\ app'.response = left /\ app'.heard = g
       /\ app'.promised = p /\ app'.last = <<t>>
  BY <1>0, <1>1, <1>7, <1>10 DEF BusTyped
<1>12. BusTyped'
  BY <1>0, <1>1, <1>8, <1>10, <1>11 DEF BusTyped
<1>13. /\ Len(s) = IF Len(h) <= Len(p) THEN Len(p) - Len(h) ELSE 0
       /\ \A i \in 1..Len(s) : s[i] = p[Len(h) + i]
       /\ \A i \in 1..Len(h) : h[i] = IF i <= Len(p) THEN p[i] ELSE 0
  BY <1>0, <1>1 DEF ResponseIsRest, Bus!BytesInOrder
<1>14. /\ Len(left) = IF Len(g) <= Len(p) THEN Len(p) - Len(g) ELSE 0
       /\ \A i \in 1..Len(left) : left[i] = p[Len(g) + i]
  <2>1. Len(left) = IF Len(g) <= Len(p) THEN Len(p) - Len(g) ELSE 0
    <3>1. PICK a, b, c \in Nat : a = Len(s) /\ b = Len(h) /\ c = Len(p)
      BY <1>2, Zenon
    <3>2. /\ a = (IF b <= c THEN c - b ELSE 0) /\ m = (IF n < a THEN n ELSE a)
          /\ Len(left) = a - m /\ Len(g) = b + n
      BY <1>4, <1>8, <1>10, <1>13, <3>1, Zenon
    <3>3. a - m = IF b + n <= c THEN c - (b + n) ELSE 0
      <4>1. n \in Nat /\ a = (IF b <= c THEN c - b ELSE 0) /\ m = (IF n < a THEN n ELSE a)
        BY <1>2, <1>3, <3>2
      <4> QED BY <4>1
    <3> QED BY <3>1, <3>2, <3>3, Zenon
  <2>2. ASSUME NEW i \in 1..Len(left) PROVE left[i] = p[Len(g) + i]
    <3>1. PICK a, b \in Nat : a = Len(s) /\ b = Len(h)
      BY <1>2, Zenon
    <3>2. n \in Nat /\ m \in Nat /\ m <= a /\ m = (IF n < a THEN n ELSE a)
      BY <1>2, <1>3, <1>4, <3>1
    <3>3. i \in 1..(a - m) /\ Len(g) = b + n
      BY <1>8, <1>10, <3>1, Zenon
    <3>4. m + i \in 1..a /\ b + (m + i) = (b + n) + i
      BY <3>2, <3>3
    <3>5. left[i] = s[m + i] /\ s[m + i] = p[b + (m + i)]
      BY <1>8, <1>13, <3>1, <3>4, Zenon
    <3> QED BY <3>3, <3>4, <3>5, Zenon
  <2> QED BY <2>1, <2>2
<1>15. ASSUME NEW i \in 1..Len(g) PROVE g[i] = IF i <= Len(p) THEN p[i] ELSE 0
  <2>1. CASE i <= Len(h)
    <3>1. g[i] = h[i] /\ i \in 1..Len(h)
      BY <1>2, <1>10, <2>1
    <3> QED BY <1>13, <3>1
  <2>2. CASE i > Len(h)
    <3>1. PICK j \in 1..n : j = i - Len(h)
      <4>1. i \in 1 .. Len(h) + n
        BY <1>10
      <4>2. i - Len(h) \in 1..n
        BY <1>2, <1>3, <2>2, <4>1
      <4> QED BY <4>2
    <3>2. g[i] = IF j <= Len(s) THEN s[j] ELSE 0
      <4>1. g[i] = came[j]
        BY <1>2, <1>10, <2>2, <3>1
      <4> QED BY <1>9, <4>1
    <3>3. i = Len(h) + j
      BY <1>2, <3>1
    <3>4. j <= Len(s) <=> i <= Len(p)
      BY <1>2, <1>3, <1>13, <3>1, <3>3
    <3>5. CASE j <= Len(s)
      <4>1. s[j] = p[i]
        BY <1>2, <1>13, <3>1, <3>3, <3>5
      <4> QED BY <3>2, <3>4, <3>5, <4>1
    <3> QED BY <3>2, <3>4, <3>5
  <2> QED BY <1>2, <1>10, <2>1, <2>2
<1>16. SubSeq(f, n + 1, Len(f)) = SubSeq(r, n + 1, Len(r))
  <2>1. PICK a, b : a = SubSeq(f, n + 1, Len(f)) /\ b = SubSeq(r, n + 1, Len(r))
    OBVIOUS
  <2>2. PICK e \in Nat : /\ e = Len(r) /\ n \in Nat /\ n <= e /\ e <= Len(f) /\ e <= Len(r)
                        /\ a = SubSeq(f, n + 1, e) /\ b = SubSeq(r, n + 1, e)
    <3>1. PICK e \in Nat : e = Len(r)
      BY <1>2
    <3>2. Len(f) = e /\ n \in Nat /\ n <= e /\ e <= e
      BY <1>2, <1>3, <1>6, <3>1
    <3>3. a = SubSeq(f, n + 1, e) /\ b = SubSeq(r, n + 1, e)
      BY <2>1, <3>1, <3>2
    <3> QED BY <3>1, <3>2, <3>3
  <2>3. a \in Seq(Datum) /\ Len(a) = e - n /\ \A i \in 1..e - n : a[i] = f[n + i]
    BY <1>6, <2>2, Cut
  <2>4. b \in Seq(Datum) /\ Len(b) = e - n /\ \A i \in 1..e - n : b[i] = r[n + i]
    <3>1. r \in Seq(Datum) /\ n \in Nat /\ e \in Nat /\ n <= e /\ e <= Len(r)
      BY <2>2
    <3>2. b = SubSeq(r, n + 1, e)
      BY <2>2
    <3> QED BY <3>1, <3>2, Cut
  <2>5. ASSUME NEW i \in 1..Len(a) PROVE a[i] = b[i]
    <3>1. i \in 1..e - n
      BY <2>3
    <3>2. n + i \in 1..Len(r) /\ n + i > n
      BY <1>2, <2>2, <3>1
    <3> QED BY <1>6, <2>3, <2>4, <3>1, <3>2
  <2>6. a = b
    BY <2>3, <2>4, <2>5, SeqEqual
  <2> QED BY <2>1, <2>6
<1>17. ResponseIsRest'
  BY <1>11, <1>14 DEF ResponseIsRest
<1>18. Bus!BytesInOrder'
  <2>1. app'.last[1] = t /\ t.after = f /\ t.before = r /\ t.n = n
    BY <1>7, <1>11
  <2> QED BY <1>11, <1>15, <1>16, <2>1 DEF Bus!BytesInOrder
<1> QED BY <1>12, <1>17, <1>18 DEF BusInv

(* The four calls and the test's two.                                      *)
LEMMA BusStep ==
  ASSUME BusInv, Bus!Next
  PROVE  BusInv'
<1>0. BusTyped /\ ResponseIsRest /\ Bus!BytesInOrder
  BY DEF BusInv
<1>1. ASSUME NEW r \in Seq(Datum) PROVE Len(r) \in Nat /\ \A len \in 0..Len(r) : len \in Nat
  BY LenProperties
<1>2. CASE Bus!set_response
  <2>1. PICK r \in Bus!Buffers :
          app' = [app EXCEPT !.response = r, !.promised = r, !.heard = << >>, !.last = << >>]
    BY <1>2 DEF Bus!set_response
  <2>2. r \in Seq(Datum) /\ Len(r) \in Nat /\ << >> \in Seq(Datum) /\ Len(<< >>) = 0
    BY <1>1, Prepared, EmptySeq
  <2>3. PICK none : none = << >> /\ none \in Seq(Datum) /\ Len(none) = 0
    BY <2>2
  <2>4. /\ DOMAIN app' = DOMAIN app /\ app'.response = r /\ app'.promised = r
        /\ app'.heard = none /\ app'.last = << >>
    BY <1>0, <2>1, <2>3 DEF BusTyped
  <2>5. BusTyped'
    BY <1>0, <2>2, <2>3, <2>4 DEF BusTyped
  <2>6. ResponseIsRest'
    BY <2>2, <2>3, <2>4 DEF ResponseIsRest
  <2>7. Bus!BytesInOrder'
    BY <2>3, <2>4 DEF Bus!BytesInOrder
  <2> QED BY <2>5, <2>6, <2>7 DEF BusInv
<1>3. CASE Bus!take_written
  <2>1. app' = [app EXCEPT !.written = << >>, !.last = << >>]
    BY <1>3 DEF Bus!take_written
  <2>2. /\ DOMAIN app' = DOMAIN app /\ app'.response = app.response
        /\ app'.promised = app.promised /\ app'.heard = app.heard /\ app'.last = << >>
    BY <1>0, <2>1 DEF BusTyped
  <2> QED BY <1>0, <2>2 DEF BusInv, BusTyped, ResponseIsRest, Bus!BytesInOrder
<1>4. CASE Bus!write_read_sync
  <2>1. PICK w \in Bus!Buffers, r \in Bus!Lent :
          \E len \in 0..Bus!Least(Len(w), Len(r)) : Bus!transfer(SubSeq(w, 1, len), r, len)
    BY <1>4 DEF Bus!write_read_sync
  <2>2. PICK len \in 0..Bus!Least(Len(w), Len(r)) : Bus!transfer(SubSeq(w, 1, len), r, len)
    BY <2>1
  <2>3. r \in Seq(Datum) /\ len \in Nat
    BY Prepared
  <2> QED BY <2>2, <2>3, TransferKept
<1>5. CASE Bus!write_sync
  <2>1. PICK w \in Bus!Buffers :
          \E len \in 0..Len(w) : Bus!transfer(SubSeq(w, 1, len), << >>, len)
    BY <1>5 DEF Bus!write_sync
  <2>2. PICK len \in 0..Len(w) : Bus!transfer(SubSeq(w, 1, len), << >>, len)
    BY <2>1
  <2>3. << >> \in Seq(Datum) /\ len \in Nat
    BY EmptySeq
  <2> QED BY <2>2, <2>3, TransferKept
<1>6. CASE Bus!read_sync \/ Bus!inplace_write_read_sync
  <2>1. PICK r \in Bus!Lent :
          \E len \in 0..Len(r) : \E sent : Bus!transfer(sent, r, len)
    BY <1>6 DEF Bus!read_sync, Bus!inplace_write_read_sync
  <2>2. PICK len \in 0..Len(r) : \E sent : Bus!transfer(sent, r, len)
    BY <2>1
  <2>3. PICK sent : Bus!transfer(sent, r, len)
    BY <2>2
  <2>4. r \in Seq(Datum) /\ len \in Nat
    BY Prepared
  <2> QED BY <2>3, <2>4, TransferKept
<1> QED BY <1>2, <1>3, <1>4, <1>5, <1>6 DEF Bus!Next

LEMMA BusInit == Bus!Init => BusInv
<1> SUFFICES ASSUME Bus!Init PROVE BusInv
  OBVIOUS
<1>1. PICK none : none = << >> /\ none \in Seq(Datum) /\ Len(none) = 0
  BY EmptySeq
<1>2. /\ DOMAIN app = {"response", "promised", "written", "heard", "last"}
      /\ app.response = none /\ app.promised = none /\ app.heard = none /\ app.last = << >>
  BY <1>1 DEF Bus!Init
<1> QED BY <1>1, <1>2 DEF BusInv, BusTyped, ResponseIsRest, Bus!BytesInOrder

-----------------------------------------------------------------------------
(***************************************************************************)
(* The buttons.  What is queued of a button that is followed leads, change *)
(* by change, from what the process was last told to the state it has.     *)
(***************************************************************************)
Changed == [button : Buttons!Button, state : BOOLEAN]

ButtonTyped ==
    /\ DOMAIN app = {"pressed", "enabled", "listening", "queue", "told", "got"}
    /\ app.pressed \in [Buttons!Button -> BOOLEAN]
    /\ app.enabled \in [Buttons!Button -> BOOLEAN] /\ app.listening \in BOOLEAN
    /\ app.told \in [Buttons!Button -> SUBSET BOOLEAN]
    /\ app.queue \in Seq(Changed)

(* Only what is enabled and listened to is followed.                       *)
FollowedIsEnabled ==
    \A b \in Buttons!Button : app.told[b] # {} => app.enabled[b] = TRUE /\ app.listening = TRUE

ChangesLead ==
    \A b \in Buttons!Button :
       app.told[b] # {} =>
          Buttons!Leads(app.queue, Buttons!Of(app.queue, b), app.told[b], app.pressed[b])

AnswersTrue ==
    \A g \in app.got : g.answer <=> /\ g.button \in Buttons!Button
                                    /\ app.pressed[g.button] = g.asked

ButtonInv == ButtonTyped /\ FollowedIsEnabled /\ ChangesLead /\ AnswersTrue

(* A change at the end of the queue.                                       *)
LEMMA LeadsFurther ==
  ASSUME NEW q \in Seq(Changed), NEW b \in Buttons!Button, NEW t, NEW o \in BOOLEAN,
         Buttons!Leads(q, Buttons!Of(q, b), t, o), NEW p \in BOOLEAN, p # o, NEW e,
         e = [button |-> b, state |-> p], NEW r, r = Append(q, e)
  PROVE  Buttons!Leads(r, Buttons!Of(r, b), t, p)
<1>0. e \in Changed /\ e.button = b /\ e.state = p
  BY DEF Changed
<1>1. /\ Len(q) \in Nat /\ Len(r) = Len(q) + 1 /\ r[Len(q) + 1] = e
      /\ DOMAIN q = 1..Len(q) /\ DOMAIN r = 1..(Len(q) + 1)
      /\ \A i \in 1..Len(q) : r[i] = q[i]
  BY <1>0
<1>2. PICK n \in Nat : n = Len(q)
  BY <1>1
<1>3. PICK old : old = Buttons!Of(q, b)
  OBVIOUS
<1>4. PICK new : new = Buttons!Of(r, b)
  OBVIOUS
<1>5. old \subseteq 1..n /\ new = old \cup {n + 1}
  BY <1>0, <1>1, <1>2, <1>3, <1>4 DEF Buttons!Of
<1>6. \A i \in old : r[i].state = q[i].state
  BY <1>1, <1>2, <1>5
<1>7. r[n + 1].state = p
  BY <1>0, <1>1, <1>2
<1>8. ASSUME NEW i \in new, Buttons!Oldest(new, i) PROVE r[i].state \notin t
  <2>1. CASE i \in old
    <3>1. Buttons!Oldest(old, i)
      BY <1>5, <1>8 DEF Buttons!Oldest
    <3> QED BY <1>3, <1>6, <2>1, <3>1 DEF Buttons!Leads
  <2>2. CASE i = n + 1
    <3>1. old = {}
      BY <1>5, <1>8, <2>2 DEF Buttons!Oldest
    <3>2. t = {o}
      BY <1>3, <3>1 DEF Buttons!Leads
    <3> QED BY <1>7, <2>2, <3>2
  <2> QED BY <1>5, <2>1, <2>2
<1>9. ASSUME NEW i \in new, Buttons!Newest(new, i) PROVE r[i].state = p
  <2>1. i = n + 1
    BY <1>5, <1>9 DEF Buttons!Newest
  <2> QED BY <1>7, <2>1
<1>10. ASSUME NEW i \in new, NEW j \in new, Buttons!Adjacent(new, i, j)
       PROVE  r[i].state # r[j].state
  <2>1. i \in old
    BY <1>5, <1>10 DEF Buttons!Adjacent
  <2>2. CASE j \in old
    <3>1. Buttons!Adjacent(old, i, j)
      BY <1>5, <1>10 DEF Buttons!Adjacent
    <3>2. q[i].state # q[j].state
      BY <1>3, <2>1, <2>2, <3>1 DEF Buttons!Leads
    <3> QED BY <1>6, <2>1, <2>2, <3>2
  <2>3. CASE j = n + 1
    <3>1. Buttons!Newest(old, i)
      BY <1>5, <1>10, <2>3 DEF Buttons!Adjacent, Buttons!Newest
    <3>2. q[i].state = o
      BY <1>3, <2>1, <3>1 DEF Buttons!Leads
    <3> QED BY <1>6, <1>7, <2>1, <2>3, <3>2
  <2> QED BY <1>5, <2>2, <2>3
<1>11. new # {}
  BY <1>5
<1>12. Buttons!Leads(r, new, t, p)
  BY <1>8, <1>9, <1>10, <1>11 DEF Buttons!Leads
<1> QED BY <1>4, <1>12

(* A change of another button.                                             *)
LEMMA LeadsAside ==
  ASSUME NEW q \in Seq(Changed), NEW b \in Buttons!Button, NEW t, NEW p,
         Buttons!Leads(q, Buttons!Of(q, b), t, p), NEW e \in Changed, e.button # b,
         NEW r, r = Append(q, e)
  PROVE  Buttons!Leads(r, Buttons!Of(r, b), t, p)
<1>1. /\ Len(q) \in Nat /\ r[Len(q) + 1] = e
      /\ DOMAIN q = 1..Len(q) /\ DOMAIN r = 1..(Len(q) + 1)
      /\ \A i \in 1..Len(q) : r[i] = q[i]
  OBVIOUS
<1>2. PICK n \in Nat : n = Len(q)
  BY <1>1
<1>3. PICK old : old = Buttons!Of(q, b)
  OBVIOUS
<1>4. Buttons!Of(r, b) = old
  <2>1. \A i \in 1..(n + 1) : i \in 1..n \/ i = n + 1
    OBVIOUS
  <2>2. \A i \in 1..n : r[i].button = q[i].button
    BY <1>1, <1>2
  <2>3. r[n + 1].button # b
    BY <1>1, <1>2
  <2>4. DOMAIN q = 1..n /\ DOMAIN r = 1..(n + 1) /\ n \in Nat
    BY <1>1, <1>2
  <2>5. \A i \in 1..n : i \in 1..(n + 1)
    OBVIOUS
  <2> QED BY <1>3, <2>1, <2>2, <2>3, <2>4, <2>5 DEF Buttons!Of
<1>5. \A i \in old : r[i].state = q[i].state
  BY <1>1, <1>3 DEF Buttons!Of
<1>6. Buttons!Leads(r, old, t, p)
  <2>1. Buttons!Leads(q, old, t, p)
    BY <1>3
  <2>2. \A i \in old : Buttons!Oldest(old, i) => r[i].state \notin t
    BY <1>5, <2>1 DEF Buttons!Leads
  <2>3. \A i \in old : Buttons!Newest(old, i) => r[i].state = p
    BY <1>5, <2>1 DEF Buttons!Leads
  <2>4. ASSUME NEW i \in old, NEW j \in old, Buttons!Adjacent(old, i, j)
        PROVE  r[i].state # r[j].state
    <3>1. q[i].state # q[j].state
      BY <2>1, <2>4 DEF Buttons!Leads
    <3> QED BY <1>5, <3>1
  <2>5. old = {} => t = {p}
    BY <2>1 DEF Buttons!Leads
  <2> QED BY <2>2, <2>3, <2>4, <2>5 DEF Buttons!Leads
<1> QED BY <1>4, <1>6

(* The oldest change of all leaves the queue.                              *)
LEMMA LeadsOn ==
  ASSUME NEW q \in Seq(Changed), q # << >>, NEW b \in Buttons!Button, NEW t, NEW p,
         Buttons!Leads(q, Buttons!Of(q, b), t, p), NEW r, r = Tail(q), NEW u,
         u = IF Head(q).button = b THEN {Head(q).state} ELSE t
  PROVE  Buttons!Leads(r, Buttons!Of(r, b), u, p)
<1>1. /\ Len(q) \in Nat /\ Len(q) >= 1 /\ Head(q) = q[1]
      /\ DOMAIN q = 1..Len(q) /\ DOMAIN r = 1..(Len(q) - 1)
      /\ \A i \in 1..(Len(q) - 1) : r[i] = q[i + 1]
  OBVIOUS
<1>2. PICK n \in Nat : n = Len(q)
  BY <1>1
<1>3. PICK old : old = Buttons!Of(q, b)
  OBVIOUS
<1>4. PICK new : new = Buttons!Of(r, b)
  OBVIOUS
<1>5. /\ old \subseteq 1..n /\ new \subseteq 1..(n - 1)
      /\ \A i \in 1..(n - 1) : i \in new <=> i + 1 \in old
      /\ 1 \in old <=> Head(q).button = b
  BY <1>1, <1>2, <1>3, <1>4 DEF Buttons!Of
<1>6. \A i \in new : r[i].state = q[i + 1].state /\ i + 1 \in old
  BY <1>1, <1>2, <1>5
<1>7. \A k \in old : k = 1 \/ k - 1 \in new
  <2>1. ASSUME NEW k \in old, k # 1 PROVE k - 1 \in new
    <3>1. k - 1 \in 1..(n - 1) /\ (k - 1) + 1 = k
      BY <1>5, <2>1
    <3> QED BY <1>5, <2>1, <3>1
  <2> QED BY <2>1
<1>8. ASSUME NEW i \in new, Buttons!Newest(new, i) PROVE r[i].state = p
  <2>1. i \in 1..(n - 1) /\ i + 1 \in old /\ \A j \in new : j <= i
    BY <1>5, <1>6, <1>8 DEF Buttons!Newest
  <2>2. ASSUME NEW k \in old PROVE k <= i + 1
    <3>1. k \in 1..n /\ (k = 1 \/ k - 1 <= i)
      BY <1>5, <1>7, <2>1
    <3> QED BY <2>1, <3>1
  <2>3. Buttons!Newest(old, i + 1)
    BY <2>1, <2>2 DEF Buttons!Newest
  <2> QED BY <1>3, <1>6, <2>3 DEF Buttons!Leads
<1>9. ASSUME NEW i \in new, NEW j \in new, Buttons!Adjacent(new, i, j)
      PROVE  r[i].state # r[j].state
  <2>1. Buttons!Adjacent(old, i + 1, j + 1)
    BY <1>5, <1>7, <1>9 DEF Buttons!Adjacent
  <2>2. q[i + 1].state # q[j + 1].state
    BY <1>3, <1>6, <2>1 DEF Buttons!Leads
  <2> QED BY <1>6, <2>2
<1>10. CASE 1 \in old
  <2>1. u = {q[1].state}
    BY <1>1, <1>5, <1>10
  <2>2. ASSUME new = {} PROVE u = {p}
    <3>1. Buttons!Newest(old, 1)
      BY <1>5, <1>7, <2>2 DEF Buttons!Newest
    <3> QED BY <1>3, <1>10, <2>1, <3>1 DEF Buttons!Leads
  <2>3. ASSUME NEW i \in new, Buttons!Oldest(new, i) PROVE r[i].state \notin u
    <3>1. Buttons!Adjacent(old, 1, i + 1)
      BY <1>5, <1>7, <2>3 DEF Buttons!Adjacent, Buttons!Oldest
    <3>2. q[1].state # q[i + 1].state
      BY <1>3, <1>6, <1>10, <3>1 DEF Buttons!Leads
    <3> QED BY <1>6, <2>1, <3>2
  <2>4. Buttons!Leads(r, new, u, p)
    BY <1>8, <1>9, <2>2, <2>3 DEF Buttons!Leads
  <2> QED BY <1>4, <2>4
<1>11. CASE 1 \notin old
  <2>1. u = t
    BY <1>5, <1>11
  <2>2. ASSUME new = {} PROVE u = {p}
    <3>1. old = {}
      BY <1>7, <1>11, <2>2
    <3> QED BY <1>3, <2>1, <3>1 DEF Buttons!Leads
  <2>3. ASSUME NEW i \in new, Buttons!Oldest(new, i) PROVE r[i].state \notin u
    <3>1. i \in 1..(n - 1) /\ \A j \in new : i <= j
      BY <1>5, <2>3 DEF Buttons!Oldest
    <3>2. ASSUME NEW k \in old PROVE i + 1 <= k
      <4>1. k \in 1..n /\ k - 1 \in new
        BY <1>5, <1>7, <1>11, <3>2
      <4>2. i <= k - 1
        BY <3>1, <4>1
      <4> QED BY <3>1, <4>1, <4>2
    <3>3. Buttons!Oldest(old, i + 1)
      BY <3>2 DEF Buttons!Oldest
    <3> QED BY <1>3, <1>6, <2>1, <3>3 DEF Buttons!Leads
  <2>4. Buttons!Leads(r, new, u, p)
    BY <1>8, <1>9, <2>2, <2>3 DEF Buttons!Leads
  <2> QED BY <1>4, <2>4
<1> QED BY <1>10, <1>11

(* What Set changes is what it names.                                      *)
LEMMA ButtonSets ==
  ASSUME NEW f, Buttons!Set(f)
  PROVE  /\ DOMAIN app' = DOMAIN app
         /\ \A x \in DOMAIN app \cap DOMAIN f : app'[x] = f[x]
         /\ \A x \in DOMAIN app \ DOMAIN f : app'[x] = app[x]
BY DEF Buttons!Set

(* The test presses a button, or lets it go.                               *)
LEMMA PressedKept ==
  ASSUME ButtonInv, Buttons!set_pressed
  PROVE  ButtonInv'
<1>0. ButtonTyped /\ FollowedIsEnabled /\ ChangesLead /\ AnswersTrue
  BY DEF ButtonInv
<1>1. PICK b, p, q, now :
        /\ b \in Buttons!Button /\ p \in BOOLEAN
        /\ now = [app.pressed EXCEPT ![b] = p]
        /\ IF app.enabled[b] /\ app.listening /\ app.pressed[b] # p
           THEN q = Append(app.queue, [button |-> b, state |-> p])
           ELSE q = app.queue
        /\ Buttons!Set([pressed |-> now, got |-> {}, queue |-> q])
  BY DEF Buttons!set_pressed, Buttons!Changes
<1>2. /\ DOMAIN app' = DOMAIN app
      /\ app'.pressed = now /\ app'.queue = q /\ app'.got = {}
      /\ app'.enabled = app.enabled /\ app'.told = app.told /\ app'.listening = app.listening
  <2> DEFINE f == [pressed |-> now, got |-> {}, queue |-> q]
  <2>1. /\ Buttons!Set(f) /\ DOMAIN f = {"pressed", "got", "queue"}
        /\ f.pressed = now /\ f.queue = q /\ f.got = {}
    BY <1>1
  <2> HIDE DEF f
  <2> QED BY <1>0, <2>1, ButtonSets DEF ButtonTyped
<1>3. /\ now \in [Buttons!Button -> BOOLEAN] /\ now[b] = p
      /\ \A c \in Buttons!Button : c # b => now[c] = app.pressed[c]
  <2>1. b \in Buttons!Button /\ p \in BOOLEAN /\ now = [app.pressed EXCEPT ![b] = p]
    BY <1>1, Zenon
  <2>2. app.pressed \in [Buttons!Button -> BOOLEAN]
    BY <1>0 DEF ButtonTyped
  <2> QED BY <2>1, <2>2, Zenon
<1>4. PICK e : e = [button |-> b, state |-> p]
  OBVIOUS
<1>5. e \in Changed /\ e.button = b
  <2>1. b \in Buttons!Button /\ p \in BOOLEAN
    BY <1>1
  <2> QED BY <1>4, <2>1 DEF Changed
<1>6. q = Append(app.queue, e) \/ q = app.queue
  BY <1>1, <1>4
<1>7. q \in Seq(Changed)
  BY <1>0, <1>5, <1>6 DEF ButtonTyped
<1>8. ASSUME NEW c \in Buttons!Button, app.told[c] # {}
      PROVE  Buttons!Leads(q, Buttons!Of(q, c), app.told[c], now[c])
  <2>1. /\ Buttons!Leads(app.queue, Buttons!Of(app.queue, c), app.told[c], app.pressed[c])
        /\ app.enabled[c] = TRUE /\ app.listening = TRUE
    BY <1>0, <1>8 DEF ChangesLead, FollowedIsEnabled
  <2>2. app.queue \in Seq(Changed) /\ app.pressed[c] \in BOOLEAN
    BY <1>0 DEF ButtonTyped
  <2>3. CASE c # b
    <3>1. now[c] = app.pressed[c]
      BY <1>3, <2>3
    <3>2. e \in Changed /\ e.button # c
      BY <1>5, <2>3
    <3>3. CASE q = Append(app.queue, e)
      BY <2>1, <2>2, <3>1, <3>2, <3>3, LeadsAside
    <3> QED BY <1>6, <2>1, <3>1, <3>3
  <2>4. CASE c = b /\ app.pressed[b] = p
    <3>1. q = app.queue /\ now[c] = app.pressed[c]
      BY <1>1, <1>3, <2>4
    <3> QED BY <2>1, <3>1
  <2>5. CASE c = b /\ app.pressed[b] # p
    <3>1. q = Append(app.queue, e) /\ now[c] = p
      BY <1>1, <1>3, <1>4, <2>1, <2>5
    <3>2. p # app.pressed[c] /\ e = [button |-> c, state |-> p] /\ p \in BOOLEAN
      BY <1>1, <1>4, <2>5
    <3> QED BY <2>1, <2>2, <3>1, <3>2, LeadsFurther
  <2> QED BY <2>3, <2>4, <2>5
<1>9. ButtonTyped'
  BY <1>0, <1>2, <1>3, <1>7 DEF ButtonTyped
<1>10. FollowedIsEnabled' /\ ChangesLead' /\ AnswersTrue'
  BY <1>0, <1>2, <1>8 DEF FollowedIsEnabled, ChangesLead, AnswersTrue
<1> QED BY <1>9, <1>10 DEF ButtonInv

(* The process follows a button from an empty queue of it, or as before.   *)
LEMMA EnableKept ==
  ASSUME ButtonInv, Buttons!enable_interrupts \/ Buttons!disable_interrupts
  PROVE  ButtonInv'
<1>0. ButtonTyped /\ FollowedIsEnabled /\ ChangesLead /\ AnswersTrue
  BY DEF ButtonInv
<1>1. PICK b, on, t, enabled, told :
        /\ b \in Buttons!Button /\ on \in BOOLEAN
        /\ enabled = [app.enabled EXCEPT ![b] = on]
        /\ told = [app.told EXCEPT ![b] = t]
        /\ t = IF on THEN Buttons!Follows(b, TRUE, app.listening, app.queue) ELSE {}
        /\ Buttons!Set([enabled |-> enabled, got |-> {}, told |-> told])
  <2>1. CASE Buttons!enable_interrupts
    <3>1. PICK b \in Buttons!Button :
            Buttons!Set([enabled |-> [app.enabled EXCEPT ![b] = TRUE], got |-> {},
                         told |-> [app.told EXCEPT ![b] =
                                     Buttons!Follows(b, TRUE, app.listening, app.queue)]])
      BY <2>1 DEF Buttons!enable_interrupts
    <3>2. TRUE \in BOOLEAN
      OBVIOUS
    <3> QED BY <3>1, <3>2
  <2>2. CASE Buttons!disable_interrupts
    <3>1. PICK b \in Buttons!Button :
            Buttons!Set([enabled |-> [app.enabled EXCEPT ![b] = FALSE], got |-> {},
                         told |-> [app.told EXCEPT ![b] = {}]])
      BY <2>2 DEF Buttons!disable_interrupts
    <3>2. FALSE \in BOOLEAN
      OBVIOUS
    <3> QED BY <3>1, <3>2
  <2> QED BY <2>1, <2>2
<1>2. /\ DOMAIN app' = DOMAIN app
      /\ app'.pressed = app.pressed /\ app'.queue = app.queue /\ app'.got = {}
      /\ app'.enabled = enabled /\ app'.told = told /\ app'.listening = app.listening
  <2> DEFINE f == [enabled |-> enabled, got |-> {}, told |-> told]
  <2>1. /\ Buttons!Set(f) /\ DOMAIN f = {"enabled", "got", "told"}
        /\ f.enabled = enabled /\ f.told = told /\ f.got = {}
    BY <1>1
  <2> HIDE DEF f
  <2> QED BY <1>0, <2>1, ButtonSets DEF ButtonTyped
<1>3. /\ enabled \in [Buttons!Button -> BOOLEAN] /\ enabled[b] = on
      /\ \A c \in Buttons!Button : c # b => enabled[c] = app.enabled[c]
  BY <1>0, <1>1 DEF ButtonTyped
<1>4. ASSUME t # {}
      PROVE  /\ on = TRUE /\ app.listening = TRUE
             /\ \/ t = app.told[b]
                \/ t = {app.pressed[b]} /\ Buttons!Of(app.queue, b) = {}
  <2>1. on = TRUE
    BY <1>1, <1>4
  <2>2. t = Buttons!Follows(b, TRUE, app.listening, app.queue)
    BY <1>1, <2>1, Zenon
  <2>3. app.listening
    <3> SUFFICES ASSUME ~app.listening PROVE FALSE
      OBVIOUS
    <3>1. Buttons!Follows(b, TRUE, app.listening, app.queue) = {}
      BY Zenon DEF Buttons!Follows
    <3> QED BY <1>4, <2>2, <3>1, Zenon
  <2>4. t = app.told[b] \/ (t = {app.pressed[b]} /\ Buttons!Of(app.queue, b) = {})
    <3>1. CASE app.told[b] # {} /\ app.enabled[b]
      BY <2>2, <2>3, <3>1, Zenon DEF Buttons!Follows
    <3>2. CASE ~(app.told[b] # {} /\ app.enabled[b])
      <4>1. t = IF Buttons!Of(app.queue, b) # {} THEN {} ELSE {app.pressed[b]}
        BY <2>2, <2>3, <3>2, Zenon DEF Buttons!Follows
      <4> QED BY <1>4, <4>1
    <3> QED BY <3>1, <3>2
  <2> QED BY <1>0, <2>1, <2>3, <2>4 DEF ButtonTyped
<1>5. t \in SUBSET BOOLEAN
  <2>1. app.told[b] \in SUBSET BOOLEAN /\ app.pressed[b] \in BOOLEAN
    <3>1. b \in Buttons!Button
      BY <1>1
    <3> QED BY <1>0, <3>1 DEF ButtonTyped
  <2>2. CASE t = {}
    BY <2>2, Zenon
  <2>3. CASE t # {}
    <3>1. \/ t = app.told[b]
          \/ t = {app.pressed[b]} /\ Buttons!Of(app.queue, b) = {}
      BY <1>4, <2>3
    <3> QED BY <2>1, <3>1
  <2> QED BY <2>2, <2>3
<1>6. /\ told \in [Buttons!Button -> SUBSET BOOLEAN] /\ told[b] = t
      /\ \A c \in Buttons!Button : c # b => told[c] = app.told[c]
  BY <1>0, <1>1, <1>5 DEF ButtonTyped
<1>7. ASSUME NEW c \in Buttons!Button, told[c] # {}
      PROVE  Buttons!Leads(app.queue, Buttons!Of(app.queue, c), told[c], app.pressed[c])
  <2>1. CASE told[c] = app.told[c]
    BY <1>0, <1>7, <2>1 DEF ChangesLead
  <2>2. CASE c = b /\ t = {app.pressed[b]} /\ Buttons!Of(app.queue, b) = {}
    BY <1>6, <2>2 DEF Buttons!Leads
  <2> QED BY <1>4, <1>6, <1>7, <2>1, <2>2
<1>8. ASSUME NEW c \in Buttons!Button, told[c] # {}
      PROVE  enabled[c] = TRUE /\ app.listening = TRUE
  BY <1>0, <1>3, <1>4, <1>6, <1>8 DEF FollowedIsEnabled
<1>9. ButtonTyped'
  BY <1>0, <1>2, <1>3, <1>6 DEF ButtonTyped
<1>10. FollowedIsEnabled' /\ ChangesLead' /\ AnswersTrue'
  BY <1>2, <1>7, <1>8 DEF FollowedIsEnabled, ChangesLead, AnswersTrue
<1> QED BY <1>9, <1>10 DEF ButtonInv

(* A registration, or its end, empties the queue.                          *)
LEMMA ListenKept ==
  ASSUME ButtonInv, Buttons!register_listener \/ Buttons!unregister_listener
  PROVE  ButtonInv'
<1>0. ButtonTyped /\ FollowedIsEnabled /\ ChangesLead /\ AnswersTrue
  BY DEF ButtonInv
<1>1. PICK told, on :
        /\ on \in BOOLEAN /\ told = [b \in Buttons!Button |->
                     IF on = TRUE /\ app.enabled[b] THEN {app.pressed[b]} ELSE {}]
        /\ Buttons!Set([listening |-> on, queue |-> << >>, got |-> {}, told |-> told])
  <2>1. CASE Buttons!register_listener
    <3>1. PICK told :
            told = [b \in Buttons!Button |-> IF app.enabled[b] THEN {app.pressed[b]} ELSE {}]
      OBVIOUS
    <3>2. told = [b \in Buttons!Button |->
                    IF TRUE = TRUE /\ app.enabled[b] THEN {app.pressed[b]} ELSE {}]
      BY <3>1
    <3>3. Buttons!Set([listening |-> TRUE, queue |-> << >>, got |-> {}, told |-> told])
      BY <2>1, <3>1 DEF Buttons!register_listener
    <3> QED BY <3>2, <3>3
  <2>2. CASE Buttons!unregister_listener
    <3>1. PICK told : told = [b \in Buttons!Button |-> {}]
      OBVIOUS
    <3>2. told = [b \in Buttons!Button |->
                    IF FALSE = TRUE /\ app.enabled[b] THEN {app.pressed[b]} ELSE {}]
      BY <3>1
    <3>3. Buttons!Set([listening |-> FALSE, queue |-> << >>, got |-> {}, told |-> told])
      BY <2>2, <3>1 DEF Buttons!unregister_listener, Buttons!Each
    <3> QED BY <3>2, <3>3
  <2> QED BY <2>1, <2>2
<1>2. /\ DOMAIN app' = DOMAIN app
      /\ app'.pressed = app.pressed /\ app'.queue = << >> /\ app'.got = {}
      /\ app'.enabled = app.enabled /\ app'.told = told /\ app'.listening = on
  <2> DEFINE f == [listening |-> on, queue |-> << >>, got |-> {}, told |-> told]
  <2>1. /\ Buttons!Set(f) /\ DOMAIN f = {"listening", "queue", "got", "told"}
        /\ f.listening = on /\ f.queue = << >> /\ f.told = told /\ f.got = {}
    BY <1>1
  <2> HIDE DEF f
  <2> QED BY <1>0, <2>1, ButtonSets DEF ButtonTyped
<1>3. \A b \in Buttons!Button :
        told[b] # {} => on = TRUE /\ app.enabled[b] = TRUE /\ told[b] = {app.pressed[b]}
  BY <1>0, <1>1 DEF ButtonTyped
<1>4. told \in [Buttons!Button -> SUBSET BOOLEAN]
  BY <1>0, <1>1 DEF ButtonTyped
<1>5. \A b : Buttons!Of(<< >>, b) = {}
  BY DEF Buttons!Of
<1>6. ButtonTyped'
  <2>1. << >> \in Seq(Changed)
    OBVIOUS
  <2>2. app'.listening \in BOOLEAN
    BY <1>1, <1>2, Zenon
  <2> QED BY <1>0, <1>2, <1>4, <2>1, <2>2 DEF ButtonTyped
<1>7. FollowedIsEnabled' /\ ChangesLead' /\ AnswersTrue'
  <2>1. \A b \in Buttons!Button :
          told[b] # {} => Buttons!Leads(<< >>, Buttons!Of(<< >>, b), told[b], app.pressed[b])
    BY <1>3, <1>5 DEF Buttons!Leads
  <2> QED BY <1>2, <1>3, <2>1 DEF FollowedIsEnabled, ChangesLead, AnswersTrue
<1> QED BY <1>6, <1>7 DEF ButtonInv

(* The listener is told of the oldest change.                              *)
LEMMA ToldKept ==
  ASSUME ButtonInv, Buttons!upcall
  PROVE  ButtonInv'
<1>0. ButtonTyped /\ FollowedIsEnabled /\ ChangesLead /\ AnswersTrue
  BY DEF ButtonInv
<1>1. PICK e : e = Head(app.queue)
  OBVIOUS
<1>2. PICK q : q = Tail(app.queue)
  OBVIOUS
<1>3. PICK told : told = Buttons!Heard(e)
  OBVIOUS
<1>4. app.queue # << >> /\ Buttons!Set([queue |-> q, told |-> told, got |-> {}])
  BY <1>1, <1>2, <1>3 DEF Buttons!upcall
<1>5. /\ DOMAIN app' = DOMAIN app
      /\ app'.pressed = app.pressed /\ app'.queue = q /\ app'.got = {}
      /\ app'.enabled = app.enabled /\ app'.told = told /\ app'.listening = app.listening
  <2> DEFINE f == [queue |-> q, told |-> told, got |-> {}]
  <2>1. /\ Buttons!Set(f) /\ DOMAIN f = {"queue", "told", "got"}
        /\ f.queue = q /\ f.told = told /\ f.got = {}
    BY <1>4
  <2> HIDE DEF f
  <2> QED BY <1>0, <2>1, ButtonSets DEF ButtonTyped
<1>6. app.queue \in Seq(Changed) /\ q \in Seq(Changed) /\ e \in Changed
  BY <1>0, <1>1, <1>2, <1>4 DEF ButtonTyped
<1>7. e.button \in Buttons!Button /\ e.state \in BOOLEAN
  BY <1>6 DEF Changed
<1>8. PICK c \in Buttons!Button : c = e.button
  BY <1>7
<1>9. /\ told \in [Buttons!Button -> SUBSET BOOLEAN]
      /\ told[c] = IF app.told[c] = {} THEN {} ELSE {e.state}
      /\ \A b \in Buttons!Button : b # c => told[b] = app.told[b]
  <2>1. PICK x : x = IF app.told[c] = {} THEN {} ELSE {e.state}
    OBVIOUS
  <2>2. x \in SUBSET BOOLEAN
    BY <1>7, <2>1
  <2>3. told = [app.told EXCEPT ![c] = x]
    BY <1>3, <1>8, <2>1 DEF Buttons!Heard
  <2> QED BY <1>0, <2>1, <2>2, <2>3 DEF ButtonTyped
<1>10. ASSUME NEW b \in Buttons!Button, told[b] # {}
       PROVE  /\ app.told[b] # {} /\ Buttons!Leads(q, Buttons!Of(q, b), told[b], app.pressed[b])
  <2>1. app.told[b] # {}
    BY <1>9, <1>10
  <2>2. Buttons!Leads(app.queue, Buttons!Of(app.queue, b), app.told[b], app.pressed[b])
    BY <1>0, <2>1 DEF ChangesLead
  <2>3. told[b] = IF Head(app.queue).button = b THEN {Head(app.queue).state} ELSE app.told[b]
    BY <1>1, <1>8, <1>9, <2>1
  <2> QED BY <1>2, <1>4, <1>6, <2>1, <2>2, <2>3, LeadsOn
<1>11. ButtonTyped'
  BY <1>0, <1>5, <1>6, <1>9 DEF ButtonTyped
<1>12. FollowedIsEnabled' /\ ChangesLead' /\ AnswersTrue'
  BY <1>0, <1>5, <1>10 DEF FollowedIsEnabled, ChangesLead, AnswersTrue
<1> QED BY <1>11, <1>12 DEF ButtonInv

(* A question changes nothing, and is answered by the state.               *)
LEMMA AskedKept ==
  ASSUME ButtonInv, Buttons!is_pressed \/ Buttons!is_released
  PROVE  ButtonInv'
<1>0. ButtonTyped /\ FollowedIsEnabled /\ ChangesLead /\ AnswersTrue
  BY DEF ButtonInv
<1>1. PICK b, asked, g :
        /\ g = [button |-> b, asked |-> asked, answer |-> asked \in Buttons!read(b)]
        /\ Buttons!Set([got |-> {g}])
  <2>2. ASSUME NEW asked, NEW b,
               Buttons!Set([got |-> {[button |-> b, asked |-> asked,
                                      answer |-> asked \in Buttons!read(b)]}])
        PROVE  \E g : /\ g = [button |-> b, asked |-> asked,
                              answer |-> asked \in Buttons!read(b)]
                      /\ Buttons!Set([got |-> {g}])
    BY <2>2, Zenon
  <2>3. CASE Buttons!is_pressed
    BY <2>2, <2>3, Zenon DEF Buttons!is_pressed
  <2>4. CASE Buttons!is_released
    BY <2>2, <2>4, Zenon DEF Buttons!is_released
  <2> QED BY <2>3, <2>4
<1>2. /\ DOMAIN app' = DOMAIN app
      /\ app'.pressed = app.pressed /\ app'.queue = app.queue /\ app'.got = {g}
      /\ app'.enabled = app.enabled /\ app'.told = app.told /\ app'.listening = app.listening
  <2> DEFINE f == [got |-> {g}]
  <2>1. /\ Buttons!Set(f) /\ DOMAIN f = {"got"} /\ f.got = {g}
    BY <1>1
  <2> HIDE DEF f
  <2> QED BY <1>0, <2>1, ButtonSets DEF ButtonTyped
<1>3. g.answer <=> g.button \in Buttons!Button /\ app.pressed[g.button] = g.asked
  <2>1. g.button = b /\ g.asked = asked /\ g.answer = (asked \in Buttons!read(b))
    BY <1>1, Zenon
  <2>2. asked \in Buttons!read(b) <=> b \in Buttons!Button /\ app.pressed[b] = asked
    BY Zenon DEF Buttons!read
  <2> QED BY <2>1, <2>2, Zenon
<1>4. ButtonTyped' /\ FollowedIsEnabled' /\ ChangesLead'
  BY <1>0, <1>2 DEF ButtonTyped, FollowedIsEnabled, ChangesLead
<1>5. AnswersTrue'
  BY <1>2, <1>3, Zenon DEF AnswersTrue
<1> QED BY <1>4, <1>5 DEF ButtonInv

(* It holds of buttons that nobody has pressed, and is kept.               *)
LEMMA ButtonInit == Buttons!Init => ButtonInv
<1> SUFFICES ASSUME Buttons!Init PROVE ButtonInv
  OBVIOUS
<1>1. PICK none, nobody :
        /\ none = [b \in Buttons!Button |-> FALSE] /\ nobody = [b \in Buttons!Button |-> {}]
        /\ app = [pressed |-> none, enabled |-> none, listening |-> FALSE,
                  queue |-> << >>, told |-> nobody, got |-> {}]
  BY DEF Buttons!Init, Buttons!Each
<1>2. /\ DOMAIN app = {"pressed", "enabled", "listening", "queue", "told", "got"}
      /\ app.pressed = none /\ app.enabled = none /\ app.told = nobody
      /\ app.queue = << >> /\ app.got = {} /\ app.listening = FALSE
  BY <1>1
<1>3. none \in [Buttons!Button -> BOOLEAN]
  BY <1>1, Zenon
<1>4. /\ nobody \in [Buttons!Button -> SUBSET BOOLEAN] /\ << >> \in Seq(Changed)
      /\ \A b \in Buttons!Button : nobody[b] = {}
  BY <1>1
<1>5. app.listening \in BOOLEAN
  BY <1>2, Zenon
<1> QED BY <1>2, <1>3, <1>4, <1>5
        DEF ButtonInv, ButtonTyped, FollowedIsEnabled, ChangesLead, AnswersTrue

LEMMA ButtonStep ==
  ASSUME ButtonInv, Buttons!Next
  PROVE  ButtonInv'
BY PressedKept, EnableKept, ListenKept, ToldKept, AskedKept DEF Buttons!Next

(* And says what a listener and a question are told.                       *)
LEMMA ButtonTells == ButtonInv => Buttons!FollowedIsTrue
BY Zenon DEF ButtonInv, ChangesLead, AnswersTrue, Buttons!FollowedIsTrue

-----------------------------------------------------------------------------
(* A device is heard as it was spoken to: settings, bytes and changes.     *)
THEOREM DevicesStayHeard == Spec => []DeviceIsHeard
<1> DEFINE I == /\ part = "setting" => SettingInv
                /\ part = "bus" => BusInv
                /\ part = "button" => ButtonInv
<1>1. Init => I
  <2>1. ASSUME Init, part = "setting" PROVE SettingInv
    BY <2>1, SettingInit DEF Init
  <2>2. ASSUME Init, part = "bus" PROVE BusInv
    BY <2>2, BusInit DEF Init
  <2>3. ASSUME Init, part = "button" PROVE ButtonInv
    BY <2>3, ButtonInit DEF Init
  <2> QED BY <2>1, <2>2, <2>3
<1>2. I /\ [Next]_vars => I'
  <2>1. ASSUME I, DeviceNext PROVE I'
    <3>0. part' = part
      BY <2>1 DEF DeviceNext
    <3>1. CASE part = "setting"
      <4>1. SettingInv /\ Settings!Next
        BY <2>1, <3>1 DEF DeviceNext
      <4> QED BY <3>0, <3>1, <4>1, SettingStep
    <3>2. CASE part = "bus"
      <4>1. BusInv /\ Bus!Next
        BY <2>1, <3>2 DEF DeviceNext
      <4> QED BY <3>0, <3>2, <4>1, BusStep
    <3>3. CASE part = "button"
      <4>1. ButtonInv /\ Buttons!Next
        BY <2>1, <3>3 DEF DeviceNext
      <4> QED BY <3>0, <3>3, <4>1, ButtonStep
    <3> QED BY <2>1, <3>1, <3>2, <3>3 DEF DeviceNext
  <2>2. ASSUME I, [Next]_vars, ~DeviceNext PROVE I'
    <3>1. part' = part
      BY <2>2 DEF Next, vars, RingNext, PinsNext, StepperNext, FakeNext, FormatterNext,
            LinesNext, SensorNext
    <3>2. part \in {"setting", "bus", "button"} => app' = app
      BY <2>2 DEF Next, vars, RingNext, PinsNext, StepperNext, FakeNext, FormatterNext,
            LinesNext, SensorNext
    <3>3. ASSUME app' = app, SettingInv PROVE SettingInv'
      BY <3>3 DEF SettingInv, SettingTyped, KeptAsAsked, GotAsAsked
    <3>4. ASSUME app' = app, BusInv PROVE BusInv'
      BY <3>4 DEF BusInv, BusTyped, ResponseIsRest, Bus!BytesInOrder
    <3>5. ASSUME app' = app, ButtonInv PROVE ButtonInv'
      BY <3>5 DEF ButtonInv, ButtonTyped, FollowedIsEnabled, ChangesLead, AnswersTrue
    <3> QED BY <2>2, <3>1, <3>2, <3>3, <3>4, <3>5
  <2> QED BY <2>1, <2>2
<1>3. I => DeviceIsHeard
  <2>1. BusInv => Bus!BytesInOrder
    BY DEF BusInv
  <2> QED BY <2>1, SettingTells, ButtonTells DEF DeviceIsHeard
<1> QED BY <1>1, <1>2, <1>3, PTL DEF Spec

(***************************************************************************)
(* Recursive functions.  H says what f is at s from what it is at members  *)
(* of D of smaller rank r; then there is such an f.                        *)
(***************************************************************************)
Grows(D, R, r, H) ==
    \A g \in [D -> R], h \in [D -> R], s \in D :
       (\A t \in D : r[t] < r[s] => g[t] = h[t]) => H[<<g, s>>] = H[<<h, s>>]

UpToRank(D, R, r, H, n, g) ==
    g \in [D -> R] /\ \A s \in D : r[s] < n => g[s] = H[<<g, s>>]

AgreeAt(D, R, r, H, m, n, g, h, s) == g[s] = h[s]

LEMMA SameUpToRank ==
  ASSUME NEW D, NEW R, NEW r \in [D -> Nat], NEW H, Grows(D, R, r, H),
         NEW m \in Nat, NEW n \in Nat, NEW g, NEW h,
         UpToRank(D, R, r, H, m, g), UpToRank(D, R, r, H, n, h),
         NEW s \in D, r[s] < m, r[s] < n
  PROVE  AgreeAt(D, R, r, H, m, n, g, h, s)
<1>1. SUFFICES ASSUME g[s] # h[s]
               PROVE  FALSE
  BY Zenon DEF AgreeAt
<1>2. PICK M \in SUBSET Nat :
        M = {k \in Nat : k < m /\ k < n /\ \E t \in D : r[t] = k /\ g[t] # h[t]}
  OBVIOUS
<1>3. r[s] \in M
  BY <1>1, <1>2
<1>4. PICK k \in M : \A j \in M : k <= j
  BY <1>3, LeastNat, Zenon
<1>5. PICK t \in D : r[t] = k /\ g[t] # h[t]
  BY <1>2, <1>4, Zenon
<1>6. k < m /\ k < n
  BY <1>2, <1>4, Zenon
<1>7. \A u \in D : r[u] < r[t] => g[u] = h[u]
  <2> SUFFICES ASSUME NEW u \in D, r[u] < r[t]
               PROVE  g[u] = h[u]
    OBVIOUS
  <2>1. r[u] \in Nat /\ r[u] < m /\ r[u] < n /\ ~(k <= r[u])
    BY <1>4, <1>5, <1>6
  <2> QED BY <1>2, <1>4, <2>1, Zenon
<1>8. g \in [D -> R] /\ h \in [D -> R] /\ g[t] = H[<<g, t>>] /\ h[t] = H[<<h, t>>]
  BY <1>5, <1>6, Zenon DEF UpToRank
<1>9. H[<<g, t>>] = H[<<h, t>>]
  BY <1>7, <1>8, Zenon DEF Grows
<1> QED BY <1>5, <1>8, <1>9, Zenon

LEMMA ThereIsUpToRank ==
  ASSUME NEW D, NEW R, NEW x \in R, NEW r \in [D -> Nat], NEW H \in [[D -> R] \X D -> R],
         Grows(D, R, r, H), NEW n \in Nat
  PROVE  \E g : UpToRank(D, R, r, H, n, g)
<1>1. SUFFICES ASSUME ~\E g : UpToRank(D, R, r, H, n, g)
               PROVE  FALSE
  OBVIOUS
<1>2. PICK M \in SUBSET Nat : M = {k \in Nat : ~\E g : UpToRank(D, R, r, H, k, g)}
  OBVIOUS
<1>3. n \in M
  BY <1>1, <1>2, Zenon
<1>4. PICK k \in M : \A j \in M : k <= j
  BY <1>3, LeastNat, Zenon
<1>5. ~\E g : UpToRank(D, R, r, H, k, g)
  BY <1>2, <1>4, Zenon
<1>6. k # 0
  <2> SUFFICES ASSUME k = 0
               PROVE  FALSE
    OBVIOUS
  <2>1. [s \in D |-> x] \in [D -> R]
    BY Zenon
  <2>2. \A s \in D : ~(r[s] < 0)
    OBVIOUS
  <2>3. UpToRank(D, R, r, H, 0, [s \in D |-> x])
    BY <2>1, <2>2, Zenon DEF UpToRank
  <2> QED BY <1>5, <2>3, Zenon
<1>7. k - 1 \in Nat /\ ~(k <= k - 1)
  BY <1>4, <1>6
<1>8. PICK g : UpToRank(D, R, r, H, k - 1, g)
  BY <1>2, <1>4, <1>7, Zenon
<1>9. PICK h : h = [s \in D |-> H[<<g, s>>]]
  OBVIOUS
<1>10. g \in [D -> R]
  BY <1>8, Zenon DEF UpToRank
<1>11. h \in [D -> R]
  <2>1. \A s \in D : H[<<g, s>>] \in R
    BY <1>10, Zenon
  <2> QED BY <1>9, <2>1, Zenon
<1>12. ASSUME NEW s \in D, r[s] < k
       PROVE  h[s] = H[<<h, s>>]
  <2>1. ASSUME NEW t \in D, r[t] < r[s]
        PROVE  g[t] = h[t]
    <3>1. r[t] < k - 1
      BY <1>4, <1>12, <2>1
    <3> QED BY <1>8, <1>9, <3>1, Zenon DEF UpToRank
  <2>2. H[<<g, s>>] = H[<<h, s>>]
    BY <1>10, <1>11, <2>1, Zenon DEF Grows
  <2> QED BY <1>9, <2>2, Zenon
<1> QED BY <1>5, <1>11, <1>12, Zenon DEF UpToRank

HasFunction(D, R, r, H) == \E f \in [D -> R] : f = [s \in D |-> H[<<f, s>>]]

LEMMA RecursionHasFunction ==
  ASSUME NEW D, NEW R, R # {}, NEW r \in [D -> Nat], NEW H \in [[D -> R] \X D -> R],
         Grows(D, R, r, H)
  PROVE  HasFunction(D, R, r, H)
<1>1. PICK G : G = [n \in Nat |-> CHOOSE g : UpToRank(D, R, r, H, n, g)]
  OBVIOUS
<1>2. \A n \in Nat : UpToRank(D, R, r, H, n, G[n])
  <2> SUFFICES ASSUME NEW n \in Nat
               PROVE  UpToRank(D, R, r, H, n, G[n])
    OBVIOUS
  <2>1. \E g : UpToRank(D, R, r, H, n, g)
    <3>1. PICK x : x \in R
      OBVIOUS
    <3> QED BY <3>1, ThereIsUpToRank
  <2> QED BY <1>1, <2>1, Zenon
<1>3. PICK f : f = [s \in D |-> G[r[s] + 1][s]]
  OBVIOUS
<1>4. \A s \in D : r[s] \in Nat /\ r[s] + 1 \in Nat /\ r[s] < r[s] + 1
  OBVIOUS
<1>5. f \in [D -> R]
  <2>1. \A s \in D : G[r[s] + 1] \in [D -> R]
    BY <1>2, <1>4, Zenon DEF UpToRank
  <2>2. \A s \in D : G[r[s] + 1][s] \in R
    BY <2>1, Zenon
  <2> QED BY <1>3, <2>2, Zenon
<1>6. ASSUME NEW s \in D
      PROVE  f[s] = H[<<f, s>>]
  <2>1. PICK g : g = G[r[s] + 1]
    OBVIOUS
  <2>2. UpToRank(D, R, r, H, r[s] + 1, g)
    BY <1>2, <1>4, <2>1, Zenon
  <2>3. g \in [D -> R] /\ g[s] = H[<<g, s>>]
    BY <1>4, <2>2, Zenon DEF UpToRank
  <2>4. ASSUME NEW t \in D, r[t] < r[s]
        PROVE  g[t] = f[t]
    <3>1. UpToRank(D, R, r, H, r[t] + 1, G[r[t] + 1])
      BY <1>2, <1>4, Zenon
    <3>2. PICK m \in Nat, n \in Nat : /\ m = r[s] + 1 /\ n = r[t] + 1
                                     /\ r[t] < m /\ r[t] < n
      BY <1>4, <2>4
    <3>3. PICK h : h = G[n] /\ UpToRank(D, R, r, H, n, h)
      BY <3>1, <3>2, Zenon
    <3>4. UpToRank(D, R, r, H, m, g)
      BY <2>2, <3>2, Zenon
    <3>5. AgreeAt(D, R, r, H, m, n, g, h, t)
      BY <2>4, <3>2, <3>3, <3>4, SameUpToRank, Zenon
    <3> QED BY <1>3, <3>2, <3>3, <3>5, Zenon DEF AgreeAt
  <2>5. H[<<g, s>>] = H[<<f, s>>]
    BY <1>5, <2>3, <2>4, Zenon DEF Grows
  <2> QED BY <1>3, <2>1, <2>3, <2>5, Zenon
<1>7. f = [s \in D |-> H[<<f, s>>]]
  BY <1>3, <1>6, Zenon
<1> QED BY <1>5, <1>7, Zenon DEF HasFunction

(* A function is of R everywhere when it is at s whenever it is at all     *)
(* members of smaller rank.                                                *)
StaysIn(D, R, r, u) ==
    \A s \in D, g \in [D -> R] : (\A t \in D : r[t] < r[s] => g[t] = u[t]) => u[s] \in R

LEMMA RecursionIsTyped ==
  ASSUME NEW D, NEW R, R # {}, NEW r \in [D -> Nat], NEW u, StaysIn(D, R, r, u),
         u = [s \in D |-> u[s]]
  PROVE  u \in [D -> R]
<1>1. SUFFICES ASSUME NEW s \in D, u[s] \notin R
               PROVE  FALSE
  BY Zenon
<1>2. PICK M \in SUBSET Nat : M = {k \in Nat : \E t \in D : r[t] = k /\ u[t] \notin R}
  OBVIOUS
<1>3. r[s] \in M
  BY <1>1, <1>2
<1>4. PICK k \in M : \A j \in M : k <= j
  BY <1>3, LeastNat, Zenon
<1>5. PICK t \in D : r[t] = k /\ u[t] \notin R
  BY <1>2, <1>4, Zenon
<1>6. PICK x : x \in R
  OBVIOUS
<1>7. PICK g : g = [v \in D |-> IF u[v] \in R THEN u[v] ELSE x]
  OBVIOUS
<1>8. g \in [D -> R]
  BY <1>6, <1>7, Zenon
<1>9. ASSUME NEW v \in D, r[v] < r[t]
      PROVE  g[v] = u[v]
  <2>1. r[v] \in Nat /\ ~(k <= r[v])
    BY <1>4, <1>5, <1>9
  <2>2. u[v] \in R
    BY <1>2, <1>4, <2>1, Zenon
  <2> QED BY <1>7, <2>2, Zenon
<1> QED BY <1>5, <1>8, <1>9, Zenon DEF StaysIn

(***************************************************************************)
(* A sequence by its first element.                                        *)
(***************************************************************************)
FirstIs(S, s, x, t) ==
    /\ s = <<x>> \o t /\ s \in Seq(S) /\ Len(s) = Len(t) + 1 /\ s # << >>
    /\ s[1] = x /\ \A i \in 1..Len(t) : s[i + 1] = t[i]

LEMMA OneIs ==
  ASSUME NEW S, NEW x \in S
  PROVE  <<x>> \in Seq(S) /\ Len(<<x>>) = 1 /\ <<x>>[1] = x
OBVIOUS

LEMMA Begun ==
  ASSUME NEW S, NEW x \in S, NEW t \in Seq(S)
  PROVE  FirstIs(S, <<x>> \o t, x, t)
<1>1. PICK h \in Seq(S) : h = <<x>> /\ Len(h) = 1 /\ h[1] = x
  BY OneIs, Zenon
<1>2. PICK m \in Nat : m = Len(t)
  BY LenProperties, Zenon
<1>3. /\ h \o t \in Seq(S) /\ Len(h \o t) = Len(h) + Len(t)
      /\ \A i \in 1 .. Len(h) + Len(t) :
            (h \o t)[i] = IF i <= Len(h) THEN h[i] ELSE t[i - Len(h)]
  BY <1>1, ConcatProperties
<1>4. PICK s \in Seq(S) : s = h \o t
  BY <1>3, Zenon
<1>5. Len(s) = 1 + m /\ \A i \in 1..(1 + m) : s[i] = IF i <= 1 THEN h[i] ELSE t[i - 1]
  BY <1>1, <1>2, <1>3, <1>4, Zenon
<1>6. 1 \in 1..(1 + m) /\ 1 <= 1 /\ 1 + m = m + 1 /\ 1 + m # 0
  BY <1>2
<1>7. ASSUME NEW i \in 1..m
      PROVE  s[i + 1] = t[i]
  <2>1. i + 1 \in 1..(1 + m) /\ ~(i + 1 <= 1) /\ (i + 1) - 1 = i
    BY <1>2, <1>7
  <2> QED BY <1>5, <2>1, Zenon
<1>8. s # << >>
  BY <1>5, <1>6, EmptySeq, Zenon
<1> QED BY <1>1, <1>2, <1>4, <1>5, <1>6, <1>7, <1>8, Zenon DEF FirstIs

(* Sequences with the same elements.                                       *)
LEMMA Alike ==
  ASSUME NEW S, NEW s \in Seq(S), NEW t \in Seq(S), NEW n \in Nat, Len(s) = n, Len(t) = n,
         \A i \in 1..n : s[i] = t[i]
  PROVE  s = t
OBVIOUS

LEMMA Begins1 ==
  ASSUME NEW S, NEW s \in Seq(S), s # << >>
  PROVE  \E x \in S, t \in Seq(S) : FirstIs(S, s, x, t)
<1>1. PICK m \in Nat : m = Len(s) /\ m # 0
  BY EmptySeq, Zenon
<1>2. CutAt(S, s, 1)
  <2>1. 1 \in 0..Len(s)
    BY <1>1
  <2> QED BY <2>1, CutsInTwo, Zenon
<1>3. PICK h \in Seq(S), t \in Seq(S) :
        h = SubSeq(s, 1, 1) /\ t = SubSeq(s, 1 + 1, Len(s)) /\ h \o t = s /\ Len(h) = 1
  BY <1>2, Zenon DEF CutAt
<1>4. PICK x \in S : h = <<x>>
  <2>1. PICK x \in S : x = h[1]
    <3>1. 1 \in 1..1
      OBVIOUS
    <3> QED BY <1>3, <3>1, ElementOfSeq, Zenon
  <2>2. PICK g \in Seq(S) : g = <<x>> /\ Len(g) = 1 /\ g[1] = x
    BY OneIs, Zenon
  <2>3. \A i \in 1..1 : h[i] = g[i]
    <3>1. \A i \in 1..1 : i = 1
      OBVIOUS
    <3> QED BY <2>1, <2>2, <3>1, Zenon
  <2>4. 1 \in Nat
    OBVIOUS
  <2>5. h = g
    BY <1>3, <2>2, <2>3, <2>4, Alike, Zenon
  <2> QED BY <2>2, <2>5, Zenon
<1> QED BY <1>3, <1>4, Begun, Zenon

(* What is left of it, and what is cut off.                                *)
CutsAlike(s, x, t, k) ==
    /\ SubSeq(s, (k + 1) + 1, Len(s)) = SubSeq(t, k + 1, Len(t))
    /\ SubSeq(s, 1, k + 1) = <<x>> \o SubSeq(t, 1, k)

LEMMA CutBehindFirst ==
  ASSUME NEW S, NEW x \in S, NEW t \in Seq(S), NEW s, FirstIs(S, s, x, t), NEW k \in 0..Len(t)
  PROVE  CutsAlike(s, x, t, k)
<1>1. PICK m \in Nat : m = Len(t)
  BY LenProperties, Zenon
<1>2. /\ s \in Seq(S) /\ Len(s) = m + 1 /\ s[1] = x /\ \A i \in 1..m : s[i + 1] = t[i]
  BY <1>1, Zenon DEF FirstIs
<1>3. k \in Nat /\ k <= m /\ k + 1 \in 0..Len(s) /\ (m + 1) - (k + 1) = m - k /\ m - k \in Nat
  BY <1>1, <1>2
<1>4. CutAt(S, s, k + 1) /\ CutAt(S, t, k)
  BY <1>2, <1>3, CutsInTwo, Zenon
<1>5. PICK a \in Seq(S), b \in Seq(S) :
        /\ a = SubSeq(s, (k + 1) + 1, Len(s)) /\ b = SubSeq(t, k + 1, Len(t))
        /\ Len(a) = m - k /\ Len(b) = m - k
        /\ \A i \in 1..(m - k) : a[i] = s[(k + 1) + i] /\ b[i] = t[k + i]
  <2>1. PICK a \in Seq(S) :
          /\ a = SubSeq(s, (k + 1) + 1, Len(s)) /\ Len(a) = Len(s) - (k + 1)
          /\ \A i \in 1..(Len(s) - (k + 1)) : a[i] = s[(k + 1) + i]
    BY <1>4, Zenon DEF CutAt
  <2>2. PICK b \in Seq(S) :
          /\ b = SubSeq(t, k + 1, Len(t)) /\ Len(b) = Len(t) - k
          /\ \A i \in 1..(Len(t) - k) : b[i] = t[k + i]
    BY <1>4, Zenon DEF CutAt
  <2>3. Len(s) - (k + 1) = m - k /\ Len(t) - k = m - k
    BY <1>1, <1>2, <1>3, Zenon
  <2>4. /\ Len(a) = m - k /\ \A i \in 1..(m - k) : a[i] = s[(k + 1) + i]
        /\ Len(b) = m - k /\ \A i \in 1..(m - k) : b[i] = t[k + i]
    BY <2>1, <2>2, <2>3
  <2> QED BY <2>1, <2>2, <2>4, Zenon
<1>6. a = b
  <2>1. ASSUME NEW i \in 1..(m - k)
        PROVE  a[i] = b[i]
    <3>1. (k + 1) + i = (k + i) + 1 /\ k + i \in 1..m
      BY <1>3, <2>1
    <3> QED BY <1>2, <1>5, <3>1, Zenon
  <2> QED BY <1>3, <1>5, <2>1, Alike, Zenon
<1>7. PICK c \in Seq(S), d \in Seq(S) :
        /\ c = SubSeq(s, 1, k + 1) /\ d = SubSeq(t, 1, k)
        /\ Len(c) = k + 1 /\ Len(d) = k
        /\ \A i \in 1..(k + 1) : c[i] = s[i]
        /\ \A i \in 1..k : d[i] = t[i]
  BY <1>4, Zenon DEF CutAt
<1>8. PICK e \in Seq(S) : /\ e = <<x>> \o d /\ Len(e) = k + 1 /\ e[1] = x
                          /\ \A i \in 1..k : e[i + 1] = d[i]
  <2>1. FirstIs(S, <<x>> \o d, x, d)
    BY <1>7, Begun, Zenon
  <2>2. PICK e \in Seq(S) :
          e = <<x>> \o d /\ Len(e) = Len(d) + 1 /\ e[1] = x /\ \A i \in 1..Len(d) : e[i + 1] = d[i]
    BY <2>1, Zenon DEF FirstIs
  <2>3. Len(e) = k + 1 /\ \A i \in 1..k : e[i + 1] = d[i]
    BY <1>7, <2>2
  <2> QED BY <2>2, <2>3, Zenon
<1>9. c = e
  <2>1. ASSUME NEW i \in 1..(k + 1)
        PROVE  c[i] = e[i]
    <3>1. CASE i = 1
      BY <1>2, <1>7, <1>8, <2>1, <3>1, Zenon
    <3>2. CASE i # 1
      <4>1. PICK j \in 1..k : i = j + 1 /\ j \in 1..m
        <5>1. i - 1 \in 1..k /\ i = (i - 1) + 1 /\ i - 1 \in 1..m
          BY <1>1, <1>3, <2>1, <3>2
        <5> QED BY <5>1, Zenon
      <4> QED BY <1>2, <1>7, <1>8, <2>1, <4>1, ZenonT(40)
    <3> QED BY <3>1, <3>2
  <2>2. k + 1 \in Nat
    BY <1>3
  <2> QED BY <1>7, <1>8, <2>1, <2>2, Alike, Zenon
<1> QED BY <1>5, <1>6, <1>7, <1>8, <1>9, Zenon DEF CutsAlike

(* Cut off nothing.                                                        *)
LEMMA CutNothing ==
  ASSUME NEW S, NEW t \in Seq(S)
  PROVE  SubSeq(t, 0 + 1, Len(t)) = t /\ SubSeq(t, 1, 0) = << >>
<1>1. 0 \in 0..Len(t) /\ 0 < 1 /\ 0 + 1 = 1
  <2>1. Len(t) \in Nat
    BY LenProperties, Zenon
  <2> QED BY <2>1
<1>2. SubSeq(t, 1, 0) = << >>
  BY <1>1, SubSeqEmpty
<1> QED BY <1>1, <1>2, SubSeqFull

(* Where an element is first, and what a sequence begins with.             *)
IndexAt(s, c, i) ==
    /\ i \in 0..Len(s)
    /\ i = 0 => \A j \in 1..Len(s) : s[j] # c
    /\ i # 0 => s[i] = c /\ \A j \in 1..(i - 1) : s[j] # c

LEMMA IndexIs ==
  ASSUME NEW S, NEW s \in Seq(S), NEW c
  PROVE  IndexAt(s, c, Formats!IndexOf(s, c))
<1>1. PICK m \in Nat : m = Len(s)
  BY LenProperties, Zenon
<1>2. PICK all : all = {i \in 1..m : s[i] = c}
  OBVIOUS
<1>3. CASE all = {}
  <2>1. Formats!IndexOf(s, c) = 0
    BY <1>1, <1>2, <1>3, Zenon DEF Formats!IndexOf
  <2>2. 0 \in 0..m /\ \A i \in 1..m : s[i] # c
    BY <1>2, <1>3
  <2> QED BY <1>1, <2>1, <2>2, Zenon DEF IndexAt
<1>4. CASE all # {}
  <2>1. PICK n \in all : \A j \in all : n <= j
    <3>1. all \in SUBSET Nat
      BY <1>2
    <3> QED BY <1>4, <3>1, LeastNat, Zenon
  <2>2. PICK n2 : n2 = Formats!Min(all)
    OBVIOUS
  <2>3. n2 \in all /\ \A j \in all : n2 <= j
    BY <2>1, <2>2, Zenon DEF Formats!Min
  <2>4. n2 = Formats!IndexOf(s, c)
    BY <1>1, <1>2, <1>4, <2>2, Zenon DEF Formats!IndexOf
  <2>5. n2 \in 1..m /\ s[n2] = c
    BY <1>2, <2>3, Zenon
  <2>6. ASSUME NEW i \in 1..(n2 - 1)
        PROVE  s[i] # c
    <3>1. i \in 1..m /\ ~(n2 <= i)
      BY <2>5, <2>6
    <3> QED BY <1>2, <2>3, <3>1, Zenon
  <2>7. n2 \in 0..m /\ n2 # 0
    BY <2>5
  <2> QED BY <1>1, <2>4, <2>5, <2>6, <2>7, Zenon DEF IndexAt
<1> QED BY <1>3, <1>4

LEMMA IndexIsOne ==
  ASSUME NEW S, NEW s \in Seq(S), NEW c, NEW i, NEW j, IndexAt(s, c, i), IndexAt(s, c, j)
  PROVE  i = j
BY LenProperties DEF IndexAt

IndexBehind(s, c, x, t) ==
    /\ x = c => Formats!IndexOf(s, c) = 1
    /\ x # c => Formats!IndexOf(s, c)
                   = IF Formats!IndexOf(t, c) = 0 THEN 0 ELSE Formats!IndexOf(t, c) + 1

LEMMA IndexBehindFirst ==
  ASSUME NEW S, NEW x \in S, NEW t \in Seq(S), NEW s, FirstIs(S, s, x, t), NEW c
  PROVE  IndexBehind(s, c, x, t)
<1>1. PICK m \in Nat : m = Len(t)
  BY LenProperties, Zenon
<1>2. /\ s \in Seq(S) /\ Len(s) = m + 1 /\ s[1] = x
  BY <1>1, Zenon DEF FirstIs
<1>3. \A i \in 1..m : s[i + 1] = t[i]
  <2>1. \A i \in 1..Len(t) : s[i + 1] = t[i]
    BY Zenon DEF FirstIs
  <2> QED BY <1>1, <2>1
<1>4. PICK k : k = Formats!IndexOf(s, c) /\ IndexAt(s, c, k)
  BY <1>2, IndexIs, Zenon
<1>5. CASE x = c
  <2>1. 1 \in 0..(m + 1) /\ 1 # 0 /\ \A j \in 1..(1 - 1) : s[j] # c
    OBVIOUS
  <2>2. IndexAt(s, c, 1)
    BY <1>2, <1>5, <2>1, Zenon DEF IndexAt
  <2> QED BY <1>2, <1>4, <1>5, <2>2, IndexIsOne, Zenon DEF IndexBehind
<1>6. CASE x # c
  <2>1. PICK i : i = Formats!IndexOf(t, c) /\ IndexAt(t, c, i)
    BY IndexIs, Zenon
  <2>2. CASE i = 0
    <3>1. \A j \in 1..m : t[j] # c
      BY <1>1, <2>1, <2>2 DEF IndexAt
    <3>2. ASSUME NEW j \in 1..(m + 1)
          PROVE  s[j] # c
      <4>1. j = 1 \/ (j - 1 \in 1..m /\ (j - 1) + 1 = j)
        BY <3>2
      <4> QED BY <1>2, <1>3, <1>6, <3>1, <4>1, Zenon
    <3>3. 0 \in 0..(m + 1)
      OBVIOUS
    <3>4. IndexAt(s, c, 0)
      BY <1>2, <3>2, <3>3, Zenon DEF IndexAt
    <3> QED BY <1>2, <1>4, <1>6, <2>1, <2>2, <3>4, IndexIsOne, Zenon DEF IndexBehind
  <2>3. CASE i # 0
    <3>1. i \in 1..m /\ t[i] = c /\ \A j \in 1..(i - 1) : t[j] # c
      BY <1>1, <2>1, <2>3 DEF IndexAt
    <3>2. ASSUME NEW j \in 1..((i + 1) - 1)
          PROVE  s[j] # c
      <4>1. j = 1 \/ (j - 1 \in 1..(i - 1) /\ j - 1 \in 1..m /\ (j - 1) + 1 = j)
        BY <3>1, <3>2
      <4> QED BY <1>2, <1>3, <1>6, <3>1, <4>1, Zenon
    <3>3. i + 1 \in 0..(m + 1) /\ i + 1 # 0
      BY <3>1
    <3>4. s[i + 1] = c
      BY <1>3, <3>1, Zenon
    <3>5. IndexAt(s, c, i + 1)
      BY <1>2, <3>2, <3>3, <3>4, Zenon DEF IndexAt
    <3>6. k = i + 1
      BY <1>2, <1>4, <3>5, IndexIsOne, Zenon
    <3> QED BY <1>4, <1>6, <2>1, <2>3, <3>6, Zenon DEF IndexBehind
  <2> QED BY <2>2, <2>3
<1> QED BY <1>5, <1>6

LEMMA IndexInNone ==
  ASSUME NEW c
  PROVE  Formats!IndexOf(<< >>, c) = 0
<1>1. << >> \in Seq({}) /\ Len(<< >>) = 0
  BY EmptySeq, Zenon
<1>2. PICK i : i = Formats!IndexOf(<< >>, c) /\ IndexAt(<< >>, c, i)
  BY <1>1, IndexIs, Zenon
<1>3. i = 0
  BY <1>1, <1>2 DEF IndexAt
<1> QED BY <1>2, <1>3

LEMMA BeginsOne ==
  ASSUME NEW S, NEW s \in Seq(S), NEW y \in S
  PROVE  Formats!Begins(s, <<y>>) <=> s # << >> /\ s[1] = y
<1>1. PICK m \in Nat : m = Len(s)
  BY LenProperties, Zenon
<1>2. PICK g \in Seq(S) : g = <<y>> /\ Len(g) = 1 /\ g[1] = y
  BY OneIs, Zenon
<1>3. s = << >> <=> ~(m >= 1)
  <2>1. (s = << >> => m = 0) /\ (s # << >> => m # 0)
    BY <1>1, EmptySeq, Zenon
  <2> QED BY <2>1
<1>4. Formats!Begins(s, g) <=> m >= 1 /\ SubSeq(s, 1, 1) = g
  BY <1>1, <1>2, Zenon DEF Formats!Begins
<1>5. ASSUME m >= 1
      PROVE  SubSeq(s, 1, 1) = g <=> s[1] = y
  <2>1. 1 \in 0..Len(s) /\ 1 \in 1..1 /\ \A i \in 1..1 : i = 1
    BY <1>1, <1>5
  <2>2. PICK h \in Seq(S) : h = SubSeq(s, 1, 1) /\ Len(h) = 1 /\ h[1] = s[1]
    <3>1. CutAt(S, s, 1)
      BY <2>1, CutsInTwo, Zenon
    <3> QED BY <2>1, <3>1, Zenon DEF CutAt
  <2>3. h[1] = g[1] => h = g
    <3>1. ASSUME h[1] = g[1] PROVE \A i \in 1..1 : h[i] = g[i]
      BY <2>1, <3>1, Zenon
    <3>2. 1 \in Nat
      OBVIOUS
    <3> QED BY <1>2, <2>2, <3>1, <3>2, Alike, Zenon
  <2> QED BY <1>2, <2>2, <2>3, Zenon
<1> QED BY <1>2, <1>3, <1>4, <1>5, Zenon

BeginsBoth(s, x, t, y, z) ==
    Formats!Begins(s, <<y, z>>) <=> x = y /\ Formats!Begins(t, <<z>>)

LEMMA BeginsTwo ==
  ASSUME NEW S, NEW x \in S, NEW t \in Seq(S), NEW s, FirstIs(S, s, x, t),
         NEW y \in S, NEW z \in S
  PROVE  BeginsBoth(s, x, t, y, z)
<1>1. PICK m \in Nat : m = Len(t)
  BY LenProperties, Zenon
<1>2. /\ s \in Seq(S) /\ Len(s) = m + 1 /\ s[1] = x
  BY <1>1, Zenon DEF FirstIs
<1>3. \A i \in 1..m : s[i + 1] = t[i]
  <2>1. \A i \in 1..Len(t) : s[i + 1] = t[i]
    BY Zenon DEF FirstIs
  <2> QED BY <1>1, <2>1
<1>4. PICK g \in Seq(S) : g = <<y, z>> /\ Len(g) = 2 /\ g[1] = y /\ g[2] = z
  <2>1. <<y, z>> \in Seq(S) /\ Len(<<y, z>>) = 2 /\ <<y, z>>[1] = y /\ <<y, z>>[2] = z
    OBVIOUS
  <2> QED BY <2>1, Zenon
<1>5. Formats!Begins(s, g) <=> m + 1 >= 2 /\ SubSeq(s, 1, 2) = g
  BY <1>2, <1>4, Zenon DEF Formats!Begins
<1>6. Formats!Begins(t, <<z>>) <=> m >= 1 /\ t[1] = z
  <2>1. (t = << >> => m = 0) /\ (t # << >> => m # 0)
    BY <1>1, EmptySeq, Zenon
  <2>2. t # << >> <=> m >= 1
    BY <2>1
  <2> QED BY <2>2, BeginsOne, Zenon
<1>7. m + 1 >= 2 <=> m >= 1
  OBVIOUS
<1>8. ASSUME m >= 1
      PROVE  SubSeq(s, 1, 2) = g <=> x = y /\ t[1] = z
  <2>1. /\ 2 \in 0..Len(s) /\ 1 \in 1..2 /\ 2 \in 1..2 /\ 2 \in Nat /\ 1 + 1 = 2 /\ 1 \in 1..m
        /\ \A i \in 1..2 : i = 1 \/ i = 2
    BY <1>2, <1>8
  <2>2. PICK h \in Seq(S) : h = SubSeq(s, 1, 2) /\ Len(h) = 2 /\ h[1] = s[1] /\ h[2] = s[2]
    <3>1. CutAt(S, s, 2)
      BY <1>2, <2>1, CutsInTwo, Zenon
    <3> QED BY <2>1, <3>1, Zenon DEF CutAt
  <2>3. s[2] = t[1]
    BY <1>3, <2>1, Zenon
  <2>4. h[1] = g[1] /\ h[2] = g[2] => h = g
    <3>1. ASSUME h[1] = g[1], h[2] = g[2] PROVE \A i \in 1..2 : h[i] = g[i]
      BY <2>1, <3>1, Zenon
    <3> QED BY <1>4, <2>1, <2>2, <3>1, Alike, Zenon
  <2> QED BY <1>2, <1>4, <2>2, <2>3, <2>4, Zenon
<1> QED BY <1>4, <1>5, <1>6, <1>7, <1>8, Zenon DEF BeginsBoth

(***************************************************************************)
(* unescape, as a recursion over shorter and shorter text.                 *)
(***************************************************************************)
Texts == Seq(Formats!Token)
MaybeTexts == Texts \cup {Formats!BadText}

LEMMA TokensAre ==
  /\ "{" \in Formats!Token /\ "}" \in Formats!Token /\ "D" \in Formats!Token
  /\ "W" \in Formats!Token /\ "{" # "}" /\ "D" # "}" /\ "W" # "}" /\ "D" # "{" /\ "W" # "{"
  /\ "error" \notin Formats!Token
BY DEF Formats!Token

LEMMA BadTextIsNone == Formats!BadText \notin Texts
<1>1. ASSUME NEW S, NEW x, <<x>> \in Seq(S)
      PROVE  x \in S
  <2>1. 1 \in 1..Len(<<x>>) /\ <<x>>[1] = x
    OBVIOUS
  <2> QED BY <1>1, <2>1, ElementOfSeq, Zenon
<1> QED BY <1>1, TokensAre, Zenon DEF Formats!BadText, Texts

DropAt(S, s, n) ==
    /\ Formats!Drop(s, n) \in Seq(S) /\ Len(Formats!Drop(s, n)) = Len(s) - n
    /\ n # 0 => Len(Formats!Drop(s, n)) < Len(s)

LEMMA DropIs ==
  ASSUME NEW S, NEW s \in Seq(S), NEW n \in 0..Len(s)
  PROVE  DropAt(S, s, n)
<1>1. CutAt(S, s, n)
  BY CutsInTwo, Zenon
<1>2. PICK d \in Seq(S) : d = Formats!Drop(s, n) /\ Len(d) = Len(s) - n
  BY <1>1, Zenon DEF CutAt, Formats!Drop
<1>3. n # 0 => Len(s) - n < Len(s)
  <2>1. Len(s) \in Nat
    BY LenProperties, Zenon
  <2> QED BY <2>1
<1> QED BY <1>2, <1>3, Zenon DEF DropAt

(* What begins behind i tokens has another one.                            *)
StepOver(S, s, i) ==
    /\ i + 1 \in 0..Len(s) /\ i + 1 # 0 /\ Formats!Drop(s, i + 1) \in Seq(S)
    /\ Len(Formats!Drop(s, i + 1)) < Len(s) /\ SubSeq(s, 1, i) \in Seq(S)

LEMMA StepsOver ==
  ASSUME NEW S, NEW s \in Seq(S), NEW i \in 0..Len(s), NEW y \in S,
         Formats!Begins(Formats!Drop(s, i), <<y>>)
  PROVE  StepOver(S, s, i)
<1>1. DropAt(S, s, i)
  BY DropIs, Zenon
<1>2. PICK d \in Seq(S) : d = Formats!Drop(s, i) /\ Len(d) = Len(s) - i
  BY <1>1, Zenon DEF DropAt
<1>3. Len(d) # 0
  <2>1. d # << >>
    BY <1>2, BeginsOne, Zenon
  <2> QED BY <2>1, EmptySeq
<1>4. i + 1 \in 0..Len(s) /\ i + 1 # 0
  BY <1>2, <1>3, LenProperties
<1>5. DropAt(S, s, i + 1)
  BY <1>4, DropIs, Zenon
<1>6. SubSeq(s, 1, i) \in Seq(S)
  <2>1. CutAt(S, s, i)
    BY CutsInTwo, Zenon
  <2> QED BY <2>1, Zenon DEF CutAt
<1> QED BY <1>4, <1>5, <1>6, Zenon DEF StepOver, DropAt

UnescapeBody(f, s) ==
    LET i == Formats!IndexOf(s, "}") IN
    IF i = 0 THEN s
    ELSE IF ~Formats!Begins(Formats!Drop(s, i), <<"}">>) THEN Formats!BadText
    ELSE LET left == f[Formats!Drop(s, i + 1)] IN
         IF left = Formats!BadText THEN Formats!BadText ELSE SubSeq(s, 1, i) \o left

UnescapeGrows(g, s) ==
    /\ UnescapeBody(g, s) \in MaybeTexts
    /\ \A h : (\A t \in Texts : Len(t) < Len(s) => g[t] = h[t])
                 => UnescapeBody(g, s) = UnescapeBody(h, s)

LEMMA UnescapeBodyGrows ==
  ASSUME NEW g \in [Texts -> MaybeTexts], NEW s \in Texts
  PROVE  UnescapeGrows(g, s)
<1>1. PICK i : i = Formats!IndexOf(s, "}") /\ i \in 0..Len(s)
  BY IndexIs, Zenon DEF IndexAt, Texts
<1>2. CASE i = 0
  <2>1. \A h : UnescapeBody(h, s) = s
    BY <1>1, <1>2, Zenon DEF UnescapeBody
  <2> QED BY <2>1, Zenon DEF UnescapeGrows, MaybeTexts
<1>3. CASE i # 0 /\ ~Formats!Begins(Formats!Drop(s, i), <<"}">>)
  <2>1. \A h : UnescapeBody(h, s) = Formats!BadText
    BY <1>1, <1>3, Zenon DEF UnescapeBody
  <2> QED BY <2>1, Zenon DEF UnescapeGrows, MaybeTexts
<1>4. CASE i # 0 /\ Formats!Begins(Formats!Drop(s, i), <<"}">>)
  <2>1. StepOver(Formats!Token, s, i)
    BY <1>1, <1>4, StepsOver, TokensAre, Zenon DEF Texts
  <2>2. PICK d \in Texts : d = Formats!Drop(s, i + 1) /\ Len(d) < Len(s)
    BY <2>1, Zenon DEF StepOver, Texts
  <2>3. \A h : UnescapeBody(h, s) = IF h[d] = Formats!BadText THEN Formats!BadText
                                    ELSE SubSeq(s, 1, i) \o h[d]
    BY <1>1, <1>4, <2>2, Zenon DEF UnescapeBody
  <2>4. UnescapeBody(g, s) \in MaybeTexts
    <3>1. g[d] \in MaybeTexts
      BY <2>2, Zenon
    <3>2. ASSUME g[d] # Formats!BadText
          PROVE  SubSeq(s, 1, i) \o g[d] \in Texts
      <4>1. g[d] \in Texts /\ SubSeq(s, 1, i) \in Texts
        BY <2>1, <3>1, <3>2, Zenon DEF MaybeTexts, StepOver, Texts
      <4> QED BY <4>1, ConcatProperties, Zenon DEF Texts
    <3> QED BY <2>3, <3>2, Zenon DEF MaybeTexts
  <2> QED BY <2>2, <2>3, <2>4, Zenon DEF UnescapeGrows
<1> QED BY <1>2, <1>3, <1>4, Zenon

LEMMA UnescapeIs ==
  /\ Formats!unescape \in [Texts -> MaybeTexts]
  /\ \A s \in Texts : Formats!unescape[s] = UnescapeBody(Formats!unescape, s)
<1>1. PICK r \in [Texts -> Nat] : \A s \in Texts : r[s] = Len(s)
  <2> DEFINE q == [s \in Texts |-> Len(s)]
  <2>1. \A s \in Texts : Len(s) \in Nat
    BY LenProperties, Zenon DEF Texts
  <2>2. q \in [Texts -> Nat]
    BY <2>1, Zenon
  <2>3. \A s \in Texts : q[s] = Len(s)
    BY Zenon
  <2> HIDE DEF q
  <2> QED BY <2>2, <2>3, Zenon
<1>2. PICK H \in [[Texts -> MaybeTexts] \X Texts -> MaybeTexts] :
        \A g \in [Texts -> MaybeTexts], s \in Texts : H[<<g, s>>] = UnescapeBody(g, s)
  <2> DEFINE K == [p \in [Texts -> MaybeTexts] \X Texts |-> UnescapeBody(p[1], p[2])]
  <2>1. ASSUME NEW p \in [Texts -> MaybeTexts] \X Texts
        PROVE  UnescapeBody(p[1], p[2]) \in MaybeTexts
    <3>1. p[1] \in [Texts -> MaybeTexts] /\ p[2] \in Texts
      OBVIOUS
    <3> QED BY <3>1, UnescapeBodyGrows, Zenon DEF UnescapeGrows
  <2>2. K \in [[Texts -> MaybeTexts] \X Texts -> MaybeTexts]
    BY <2>1, Zenon
  <2>3. ASSUME NEW g \in [Texts -> MaybeTexts], NEW s \in Texts
        PROVE  K[<<g, s>>] = UnescapeBody(g, s)
    <3>1. <<g, s>> \in [Texts -> MaybeTexts] \X Texts /\ <<g, s>>[1] = g /\ <<g, s>>[2] = s
      OBVIOUS
    <3> QED BY <3>1, Zenon
  <2> HIDE DEF K
  <2> QED BY <2>2, <2>3, Zenon
<1>3. Grows(Texts, MaybeTexts, r, H)
  <2> SUFFICES ASSUME NEW g \in [Texts -> MaybeTexts], NEW h \in [Texts -> MaybeTexts],
                      NEW s \in Texts, \A t \in Texts : r[t] < r[s] => g[t] = h[t]
               PROVE  H[<<g, s>>] = H[<<h, s>>]
    BY Zenon DEF Grows
  <2>1. UnescapeGrows(g, s)
    BY UnescapeBodyGrows, Zenon
  <2>2. \A t \in Texts : Len(t) < Len(s) => g[t] = h[t]
    BY <1>1, Zenon
  <2> QED BY <1>2, <2>1, <2>2, Zenon DEF UnescapeGrows
<1>4. Formats!BadText \in MaybeTexts
  BY Zenon DEF MaybeTexts
<1>5. PICK f \in [Texts -> MaybeTexts] : f = [s \in Texts |-> H[<<f, s>>]]
  <2>1. MaybeTexts # {}
    BY <1>4, Zenon
  <2>2. HasFunction(Texts, MaybeTexts, r, H)
    BY <1>3, <2>1, RecursionHasFunction, Zenon
  <2> QED BY <2>2, Zenon DEF HasFunction
<1>6. f = [s \in Texts |-> UnescapeBody(f, s)]
  <2>1. \A s \in Texts : H[<<f, s>>] = UnescapeBody(f, s)
    BY <1>2, <1>5, Zenon
  <2> QED BY <1>5, <2>1, Zenon
<1>7. Formats!unescape = CHOOSE u : u = [s \in Texts |-> UnescapeBody(u, s)]
  BY Zenon DEF Formats!unescape, UnescapeBody, Texts
<1>8. Formats!unescape = [s \in Texts |-> UnescapeBody(Formats!unescape, s)]
  BY <1>6, <1>7, Zenon
<1>9. \A s \in Texts : Formats!unescape[s] = UnescapeBody(Formats!unescape, s)
  BY <1>8, Zenon
<1>10. Formats!unescape \in [Texts -> MaybeTexts]
  <2>1. PICK u : u = Formats!unescape
    OBVIOUS
  <2>2. StaysIn(Texts, MaybeTexts, r, u)
    <3> SUFFICES ASSUME NEW s \in Texts, NEW g \in [Texts -> MaybeTexts],
                        \A t \in Texts : r[t] < r[s] => g[t] = u[t]
                 PROVE  u[s] \in MaybeTexts
      BY Zenon DEF StaysIn
    <3>1. UnescapeGrows(g, s)
      BY UnescapeBodyGrows, Zenon
    <3>2. \A t \in Texts : Len(t) < Len(s) => g[t] = u[t]
      BY <1>1, Zenon
    <3> QED BY <1>9, <2>1, <3>1, <3>2, Zenon DEF UnescapeGrows
  <2>3. MaybeTexts # {}
    BY <1>4, Zenon
  <2>4. u = [s \in Texts |-> u[s]]
    BY <1>8, <1>9, <2>1, Zenon
  <2> QED BY <2>1, <2>2, <2>3, <2>4, RecursionIsTyped, ZenonT(40)
<1> QED BY <1>9, <1>10

(* Drop and a cut just before, of a sequence by its first element.         *)
DropsAlike(s, x, t, k) ==
    /\ Formats!Drop(s, k + 1) = Formats!Drop(t, k)
    /\ SubSeq(s, 1, k + 1) = <<x>> \o SubSeq(t, 1, k)

LEMMA DropBehindFirst ==
  ASSUME NEW S, NEW x \in S, NEW t \in Seq(S), NEW s, FirstIs(S, s, x, t), NEW k \in 0..Len(t)
  PROVE  DropsAlike(s, x, t, k)
<1>1. CutsAlike(s, x, t, k)
  BY CutBehindFirst, Zenon
<1> QED BY <1>1, Zenon DEF CutsAlike, DropsAlike, Formats!Drop

LEMMA DropNone ==
  ASSUME NEW S, NEW t \in Seq(S)
  PROVE  Formats!Drop(t, 0) = t
BY CutNothing, Zenon DEF Formats!Drop

LEMMA DropOne ==
  ASSUME NEW S, NEW x \in S, NEW t \in Seq(S), NEW s, FirstIs(S, s, x, t)
  PROVE  Formats!Drop(s, 1) = t
<1>1. 0 \in 0..Len(t) /\ 0 + 1 = 1
  <2>1. Len(t) \in Nat
    BY LenProperties, Zenon
  <2> QED BY <2>1
<1>2. DropsAlike(s, x, t, 0)
  BY <1>1, DropBehindFirst, Zenon
<1>3. Formats!Drop(t, 0) = t
  BY DropNone, Zenon
<1> QED BY <1>1, <1>2, <1>3, Zenon DEF DropsAlike

-----------------------------------------------------------------------------
(* What is gathered of a text behind b, from left to right.                *)
TextIn(b, s) == Formats!Text(b, s) \in MaybeTexts

LEMMA TextsAre ==
  ASSUME NEW b \in Texts, NEW s \in Texts
  PROVE  TextIn(b, s)
<1>1. PICK u : u = Formats!unescape[s]
  OBVIOUS
<1>2. u \in MaybeTexts
  BY <1>1, UnescapeIs, Zenon
<1>3. CASE u = Formats!BadText
  BY <1>1, <1>3, Zenon DEF TextIn, Formats!Text, MaybeTexts
<1>4. CASE u # Formats!BadText
  <2>1. u \in Texts
    BY <1>2, <1>4, Zenon DEF MaybeTexts
  <2>2. b \o u \in Texts
    BY <2>1, ConcatProperties, Zenon DEF Texts
  <2> QED BY <1>1, <1>4, <2>2, Zenon DEF TextIn, Formats!Text, MaybeTexts
<1> QED BY <1>3, <1>4

LEMMA TextOfNone ==
  ASSUME NEW b \in Texts
  PROVE  Formats!Text(b, << >>) = b
<1>1. << >> \in Texts
  BY EmptySeq, Zenon DEF Texts
<1>2. Formats!unescape[<< >>] = << >>
  BY <1>1, UnescapeIs, IndexInNone, Zenon DEF UnescapeBody
<1>3. << >> # Formats!BadText
  BY <1>1, BadTextIsNone, Zenon
<1>4. b \o << >> = b
  BY ConcatEmptySeq, Zenon DEF Texts
<1> QED BY <1>2, <1>3, <1>4, Zenon DEF Formats!Text

(* When unescape puts x before what it makes of t, so does Text.           *)
Unescapes(s, x, t) ==
    Formats!unescape[s] = IF Formats!unescape[t] = Formats!BadText THEN Formats!BadText
                          ELSE <<x>> \o Formats!unescape[t]

TextJoins(b, s, x, t) == Formats!Text(b, s) = Formats!Text(b \o <<x>>, t)

LEMMA TextBehind ==
  ASSUME NEW b \in Texts, NEW x \in Formats!Token, NEW t \in Texts, NEW s, Unescapes(s, x, t)
  PROVE  TextJoins(b, s, x, t)
<1>1. PICK u \in MaybeTexts : u = Formats!unescape[t]
  BY UnescapeIs, Zenon
<1>2. Formats!unescape[s] = IF u = Formats!BadText THEN Formats!BadText ELSE <<x>> \o u
  BY <1>1, Zenon DEF Unescapes
<1>3. CASE u = Formats!BadText
  BY <1>1, <1>2, <1>3, Zenon DEF TextJoins, Formats!Text
<1>4. CASE u # Formats!BadText
  <2>1. u \in Texts /\ <<x>> \in Texts
    BY <1>1, <1>4, OneIs, Zenon DEF MaybeTexts, Texts
  <2>2. <<x>> \o u \in Texts /\ (b \o <<x>>) \o u = b \o (<<x>> \o u)
    <3>1. JoinsTo(Formats!Token, b, <<x>>, u, u)
      BY <2>1, FourParts, Zenon DEF Texts
    <3> QED BY <3>1, Zenon DEF JoinsTo, Texts
  <2> QED BY <1>1, <1>2, <1>4, <2>2, BadTextIsNone, Zenon DEF TextJoins, Formats!Text
<1> QED BY <1>3, <1>4

LEMMA NextIsSome ==
  ASSUME NEW n \in Nat, NEW i \in 0..n
  PROVE  i + 1 # 0
OBVIOUS

LEMMA TextOfOther ==
  ASSUME NEW b \in Texts, NEW x \in Formats!Token, NEW t \in Texts, NEW s,
         FirstIs(Formats!Token, s, x, t), x # "}"
  PROVE  TextJoins(b, s, x, t)
<1>1. s = <<x>> \o t /\ s \in Texts
  BY Zenon DEF FirstIs, Texts
<1>2. IndexBehind(s, "}", x, t)
  BY IndexBehindFirst, Zenon DEF Texts
<1>3. PICK i : i = Formats!IndexOf(t, "}") /\ i \in 0..Len(t)
  BY IndexIs, Zenon DEF IndexAt, Texts
<1>4. PICK u : u = Formats!unescape[t] /\ u = UnescapeBody(Formats!unescape, t) /\ u \in MaybeTexts
  BY UnescapeIs, Zenon
<1>5. Formats!unescape[s] = IF u = Formats!BadText THEN Formats!BadText ELSE <<x>> \o u
  <2>1. Formats!unescape[s] = UnescapeBody(Formats!unescape, s)
    BY <1>1, UnescapeIs, Zenon
  <2>2. CASE i = 0
    <3>1. u = t /\ t # Formats!BadText
      BY <1>3, <1>4, <2>2, BadTextIsNone, Zenon DEF UnescapeBody
    <3>2. Formats!unescape[s] = s
      BY <1>2, <1>3, <2>1, <2>2, Zenon DEF UnescapeBody, IndexBehind
    <3> QED BY <1>1, <3>1, <3>2, Zenon
  <2>3. CASE i # 0
    <3>1. i + 1 # 0
      <4>1. PICK m \in Nat : m = Len(t)
        BY LenProperties, Zenon DEF Texts
      <4> QED BY <1>3, <4>1, NextIsSome, Zenon
    <3>2. Formats!IndexOf(s, "}") = i + 1
      BY <1>2, <1>3, <2>3, Zenon DEF IndexBehind
    <3>3. Formats!Drop(s, i + 1) = Formats!Drop(t, i)
          /\ SubSeq(s, 1, i + 1) = <<x>> \o SubSeq(t, 1, i)
      <4>1. DropsAlike(s, x, t, i)
        BY <1>3, DropBehindFirst, Zenon DEF Texts
      <4> QED BY <4>1, Zenon DEF DropsAlike
    <3>4. CASE ~Formats!Begins(Formats!Drop(t, i), <<"}">>)
      <4>1. u = Formats!BadText
        BY <1>3, <1>4, <2>3, <3>4, Zenon DEF UnescapeBody
      <4>2. Formats!unescape[s] = Formats!BadText
        BY <2>1, <3>1, <3>2, <3>3, <3>4, Zenon DEF UnescapeBody
      <4> QED BY <4>1, <4>2, Zenon
    <3>5. CASE Formats!Begins(Formats!Drop(t, i), <<"}">>)
      <4>1. StepOver(Formats!Token, t, i)
        BY <1>3, <3>5, StepsOver, TokensAre, Zenon DEF Texts
      <4>2. PICK j : j = i + 1 /\ j \in 0..Len(t)
        BY <4>1, Zenon DEF StepOver
      <4>3. Formats!Drop(s, j + 1) = Formats!Drop(t, j)
        <5>1. DropsAlike(s, x, t, j)
          BY <4>2, DropBehindFirst, Zenon DEF Texts
        <5> QED BY <5>1, Zenon DEF DropsAlike
      <4>4. PICK v : v = Formats!unescape[Formats!Drop(t, j)] /\ v \in MaybeTexts
        BY <4>1, <4>2, UnescapeIs, Zenon DEF StepOver, Texts
      <4>5. u = IF v = Formats!BadText THEN Formats!BadText ELSE SubSeq(t, 1, i) \o v
        BY <1>3, <1>4, <2>3, <3>5, <4>2, <4>4, Zenon DEF UnescapeBody
      <4>6. Formats!unescape[s] = IF v = Formats!BadText THEN Formats!BadText
                                  ELSE (<<x>> \o SubSeq(t, 1, i)) \o v
        BY <2>1, <3>1, <3>2, <3>3, <3>5, <4>2, <4>3, <4>4, Zenon DEF UnescapeBody
      <4>7. CASE v = Formats!BadText
        BY <4>5, <4>6, <4>7, Zenon
      <4>8. CASE v # Formats!BadText
        <5>1. PICK c \in Texts : c = SubSeq(t, 1, i)
          BY <4>1, Zenon DEF StepOver, Texts
        <5>2. v \in Texts
          BY <4>4, <4>8, Zenon DEF MaybeTexts
        <5>3. <<x>> \in Texts
          BY OneIs, Zenon DEF Texts
        <5>4. (<<x>> \o c) \o v = <<x>> \o (c \o v) /\ c \o v \in Texts
          <6>1. JoinsTo(Formats!Token, <<x>>, c, v, v)
            BY <5>1, <5>2, <5>3, FourParts, Zenon DEF Texts
          <6> QED BY <6>1, Zenon DEF JoinsTo, Texts
        <5> QED BY <4>5, <4>6, <4>8, <5>1, <5>4, BadTextIsNone, Zenon
      <4> QED BY <4>7, <4>8
    <3> QED BY <3>4, <3>5
  <2> QED BY <2>2, <2>3
<1>6. Unescapes(s, x, t)
  BY <1>4, <1>5, Zenon DEF Unescapes
<1> QED BY <1>6, TextBehind, Zenon

(* Two closing braces are one, and a single one is an error.               *)
LEMMA CutOne ==
  ASSUME NEW S, NEW x \in S, NEW t \in Seq(S), NEW s, FirstIs(S, s, x, t)
  PROVE  SubSeq(s, 1, 1) = <<x>>
<1>1. 0 \in 0..Len(t) /\ 0 + 1 = 1
  <2>1. Len(t) \in Nat
    BY LenProperties, Zenon
  <2> QED BY <2>1
<1>2. DropsAlike(s, x, t, 0)
  BY <1>1, DropBehindFirst, Zenon
<1>3. SubSeq(t, 1, 0) = << >>
  BY CutNothing, Zenon
<1>4. <<x>> \o << >> = <<x>>
  BY OneIs, ConcatEmptySeq, Zenon
<1> QED BY <1>1, <1>2, <1>3, <1>4, Zenon DEF DropsAlike

DropsTwo(s, x, t, y, v) == Formats!Drop(s, 2) = v /\ Formats!Drop(s, 1 + 1) = v

LEMMA DropTwo ==
  ASSUME NEW S, NEW x \in S, NEW t \in Seq(S), NEW s, FirstIs(S, s, x, t),
         NEW y \in S, NEW v \in Seq(S), FirstIs(S, t, y, v)
  PROVE  DropsTwo(s, x, t, y, v)
<1>1. 1 \in 0..Len(t) /\ 1 + 1 = 2
  <2>1. PICK m \in Nat : m = Len(v)
    BY LenProperties, Zenon
  <2>2. Len(t) = m + 1
    BY <2>1, Zenon DEF FirstIs
  <2> QED BY <2>2
<1>2. DropsAlike(s, x, t, 1)
  BY <1>1, DropBehindFirst, Zenon
<1>3. Formats!Drop(t, 1) = v
  BY DropOne, Zenon
<1> QED BY <1>1, <1>2, <1>3, Zenon DEF DropsAlike, DropsTwo

LEMMA OneIsNotNone == 1 # 0 /\ 2 # 0 /\ 2 # 1 /\ 1 > 0 /\ 2 > 0 /\ ~(0 > 0)
OBVIOUS

LEMMA TextOfEscaped ==
  ASSUME NEW b \in Texts, NEW s, NEW t \in Texts, NEW v \in Texts,
         FirstIs(Formats!Token, s, "}", t), FirstIs(Formats!Token, t, "}", v)
  PROVE  TextJoins(b, s, "}", v)
<1>1. PICK c \in Formats!Token : c = "}"
  BY TokensAre, Zenon
<1>2. FirstIs(Formats!Token, s, c, t) /\ FirstIs(Formats!Token, t, c, v) /\ s \in Texts
  BY <1>1, Zenon DEF FirstIs, Texts
<1>3. Formats!IndexOf(s, c) = 1
  <2>1. IndexBehind(s, c, c, t)
    BY <1>2, IndexBehindFirst, Zenon DEF Texts
  <2> QED BY <2>1, Zenon DEF IndexBehind
<1>4. Formats!Begins(Formats!Drop(s, 1), <<c>>)
  <2>1. t # << >> /\ t[1] = c
    BY <1>2, Zenon DEF FirstIs
  <2>2. Formats!Begins(t, <<c>>)
    BY <2>1, BeginsOne, Zenon DEF Texts
  <2> QED BY <1>2, <2>2, DropOne, Zenon DEF Texts
<1>5. Formats!Drop(s, 1 + 1) = v
  <2>1. DropsTwo(s, c, t, c, v)
    BY <1>2, DropTwo, Zenon DEF Texts
  <2> QED BY <2>1, Zenon DEF DropsTwo
<1>6. SubSeq(s, 1, 1) = <<c>>
  BY <1>2, CutOne, Zenon DEF Texts
<1>7. Formats!unescape[s] = UnescapeBody(Formats!unescape, s)
  BY <1>2, UnescapeIs, Zenon
<1>8. Unescapes(s, c, v)
  BY <1>1, <1>3, <1>4, <1>5, <1>6, <1>7, OneIsNotNone, Zenon DEF Unescapes, UnescapeBody
<1>9. TextJoins(b, s, c, v)
  BY <1>8, TextBehind, Zenon
<1> QED BY <1>1, <1>9, Zenon

LEMMA TextOfBad ==
  ASSUME NEW b, NEW s, NEW t \in Texts, FirstIs(Formats!Token, s, "}", t),
         ~Formats!Begins(t, <<"}">>)
  PROVE  Formats!Text(b, s) = Formats!BadText
<1>1. PICK c \in Formats!Token : c = "}"
  BY TokensAre, Zenon
<1>2. FirstIs(Formats!Token, s, c, t) /\ s \in Texts
  BY <1>1, Zenon DEF FirstIs, Texts
<1>3. Formats!IndexOf(s, c) = 1
  <2>1. IndexBehind(s, c, c, t)
    BY <1>2, IndexBehindFirst, Zenon DEF Texts
  <2> QED BY <2>1, Zenon DEF IndexBehind
<1>4. Formats!Drop(s, 1) = t
  BY <1>2, DropOne, Zenon DEF Texts
<1>5. Formats!unescape[s] = UnescapeBody(Formats!unescape, s)
  BY <1>2, UnescapeIs, Zenon
<1>6. Formats!unescape[s] = Formats!BadText
  BY <1>1, <1>3, <1>4, <1>5, OneIsNotNone, Zenon DEF UnescapeBody
<1> QED BY <1>6, Zenon DEF Formats!Text

(***************************************************************************)
(* Where a text is cut: before its first opening brace and behind it.      *)
(***************************************************************************)
OpenAt(s) == Formats!IndexOf(s, "{")
BeforeOpen(s) == IF OpenAt(s) = 0 THEN s ELSE SubSeq(s, 1, OpenAt(s) - 1)
BehindOpen(s) == IF OpenAt(s) = 0 THEN << >> ELSE Formats!Drop(s, OpenAt(s))

CutAtOpen(s) ==
    /\ BeforeOpen(s) \in Texts /\ BehindOpen(s) \in Texts
    /\ OpenAt(s) # 0 => Len(BehindOpen(s)) < Len(s)

LEMMA LastIsBefore ==
  ASSUME NEW n \in Nat, NEW i \in 0..n, i # 0
  PROVE  i - 1 \in 0..n
OBVIOUS

LEMMA CutsAtOpen ==
  ASSUME NEW s \in Texts
  PROVE  CutAtOpen(s)
<1>1. PICK i : i = OpenAt(s) /\ i \in 0..Len(s)
  BY IndexIs, Zenon DEF IndexAt, Texts, OpenAt
<1>2. CASE i = 0
  <2>1. << >> \in Texts
    BY EmptySeq, Zenon DEF Texts
  <2> QED BY <1>1, <1>2, <2>1, Zenon DEF CutAtOpen, BeforeOpen, BehindOpen
<1>3. CASE i # 0
  <2>1. i - 1 \in 0..Len(s)
    <3>1. Len(s) \in Nat
      BY LenProperties, Zenon DEF Texts
    <3> QED BY <1>1, <1>3, <3>1, LastIsBefore, Zenon
  <2>2. CutAt(Formats!Token, s, i - 1)
    BY <2>1, CutsInTwo, Zenon DEF Texts
  <2>3. SubSeq(s, 1, i - 1) \in Texts
    BY <2>2, Zenon DEF CutAt, Texts
  <2>4. DropAt(Formats!Token, s, i)
    BY <1>1, DropIs, Zenon DEF Texts
  <2> QED BY <1>1, <1>3, <2>3, <2>4, Zenon
           DEF CutAtOpen, BeforeOpen, BehindOpen, DropAt, Texts
<1> QED BY <1>2, <1>3

(* What is not an opening brace does not change where the next one is.     *)
CutsBehind(s, x, t) ==
    /\ FirstIs(Formats!Token, BeforeOpen(s), x, BeforeOpen(t))
    /\ OpenAt(s) = 0 <=> OpenAt(t) = 0
    /\ BehindOpen(s) = BehindOpen(t)

LEMMA OneLess ==
  ASSUME NEW n \in Nat, NEW i \in 0..n, i # 0
  PROVE  /\ i + 1 # 0 /\ i - 1 \in 0..n /\ (i + 1) - 1 = (i - 1) + 1
OBVIOUS

LEMMA OpensBehind ==
  ASSUME NEW s, NEW x \in Formats!Token, NEW t \in Texts, FirstIs(Formats!Token, s, x, t),
         x # "{"
  PROVE  CutsBehind(s, x, t)
<1>1. PICK i : i = OpenAt(t) /\ i \in 0..Len(t)
  BY IndexIs, Zenon DEF IndexAt, Texts, OpenAt
<1>2. IndexBehind(s, "{", x, t)
  BY IndexBehindFirst, Zenon DEF Texts
<1>3. CASE i = 0
  <2>1. OpenAt(s) = 0
    BY <1>1, <1>2, <1>3, Zenon DEF OpenAt, IndexBehind
  <2> QED BY <1>1, <1>3, <2>1, Zenon DEF CutsBehind, BeforeOpen, BehindOpen
<1>4. CASE i # 0
  <2>1. OpenAt(s) = i + 1
    BY <1>1, <1>2, <1>4, Zenon DEF OpenAt, IndexBehind
  <2>2. i + 1 # 0 /\ i - 1 \in 0..Len(t) /\ (i + 1) - 1 = (i - 1) + 1
    <3>1. Len(t) \in Nat
      BY LenProperties, Zenon DEF Texts
    <3> QED BY <1>1, <1>4, <3>1, OneLess, Zenon
  <2>3. DropsAlike(s, x, t, i)
    BY <1>1, DropBehindFirst, Zenon DEF Texts
  <2>4. PICK k : k = i - 1 /\ k \in 0..Len(t) /\ k + 1 = (i + 1) - 1
    BY <2>2, Zenon
  <2>5. DropsAlike(s, x, t, k)
    BY <2>4, DropBehindFirst, Zenon DEF Texts
  <2>6. BehindOpen(s) = BehindOpen(t)
    BY <1>1, <1>4, <2>1, <2>2, <2>3, Zenon DEF DropsAlike, BehindOpen
  <2>7. BeforeOpen(t) = SubSeq(t, 1, k) /\ BeforeOpen(t) \in Texts
    BY <1>1, <1>4, <2>4, CutsAtOpen, Zenon DEF BeforeOpen, CutAtOpen
  <2>8. BeforeOpen(s) = SubSeq(s, 1, k + 1)
    BY <2>1, <2>2, <2>4, Zenon DEF BeforeOpen
  <2>9. BeforeOpen(s) = <<x>> \o BeforeOpen(t)
    BY <2>5, <2>7, <2>8, Zenon DEF DropsAlike
  <2>10. FirstIs(Formats!Token, <<x>> \o BeforeOpen(t), x, BeforeOpen(t))
    BY <2>7, Begun, Zenon DEF Texts
  <2> QED BY <1>1, <1>4, <2>1, <2>2, <2>6, <2>9, <2>10, Zenon DEF CutsBehind
<1> QED BY <1>3, <1>4

LEMMA NoneBeforeFirst == 1 # 0 /\ 1 - 1 = 0
OBVIOUS

LEMMA OpensHere ==
  ASSUME NEW s, NEW t \in Texts, FirstIs(Formats!Token, s, "{", t)
  PROVE  OpenAt(s) # 0 /\ BeforeOpen(s) = << >> /\ BehindOpen(s) = t
<1>1. PICK c \in Formats!Token : c = "{"
  BY TokensAre, Zenon
<1>2. FirstIs(Formats!Token, s, c, t) /\ s \in Texts
  BY <1>1, Zenon DEF FirstIs, Texts
<1>3. IndexBehind(s, c, c, t)
  BY <1>2, IndexBehindFirst, Zenon DEF Texts
<1>4. OpenAt(s) = 1
  BY <1>1, <1>3, Zenon DEF IndexBehind, OpenAt
<1>6. SubSeq(s, 1, 0) = << >>
  BY <1>2, CutNothing, Zenon DEF Texts
<1>7. Formats!Drop(s, 1) = t
  BY <1>2, DropOne, Zenon DEF Texts
<1> QED BY <1>4, <1>6, <1>7, NoneBeforeFirst, Zenon DEF BeforeOpen, BehindOpen

LEMMA OpensNowhere == OpenAt(<< >>) = 0 /\ BeforeOpen(<< >>) = << >>
BY IndexInNone, Zenon DEF OpenAt, BeforeOpen

(* What does not begin with a closing brace does not up to the cut either. *)
LEMMA BeginsNotBefore ==
  ASSUME NEW t \in Texts, ~Formats!Begins(t, <<"}">>)
  PROVE  ~Formats!Begins(BeforeOpen(t), <<"}">>)
<1>1. PICK c \in Formats!Token : c = "}"
  BY TokensAre, Zenon
<1>2. BeforeOpen(t) \in Texts
  BY CutsAtOpen, Zenon DEF CutAtOpen
<1>3. CASE t = << >>
  <2>1. BeforeOpen(t) = << >>
    BY <1>3, OpensNowhere, Zenon
  <2> QED BY <1>1, <1>2, <2>1, BeginsOne, Zenon DEF Texts
<1>4. CASE t # << >>
  <2>1. PICK y \in Formats!Token, w \in Texts : FirstIs(Formats!Token, t, y, w)
    BY <1>4, Begins1, Zenon DEF Texts
  <2>2. CASE y = "{"
    <3>1. BeforeOpen(t) = << >>
      BY <2>1, <2>2, OpensHere, Zenon
    <3> QED BY <1>1, <1>2, <3>1, BeginsOne, Zenon DEF Texts
  <2>3. CASE y # "{"
    <3>1. CutsBehind(t, y, w)
      BY <2>1, <2>3, OpensBehind, Zenon
    <3>2. BeforeOpen(t)[1] = y /\ t[1] = y
      BY <2>1, <3>1, Zenon DEF CutsBehind, FirstIs
    <3>3. t[1] # c
      BY <1>1, <1>4, BeginsOne, Zenon DEF Texts
    <3> QED BY <1>1, <1>2, <3>2, <3>3, BeginsOne, Zenon DEF Texts
  <2> QED BY <2>2, <2>3
<1> QED BY <1>3, <1>4

-----------------------------------------------------------------------------
(* What an opening brace opens lies inside the text.                       *)
OpenedIs(t) ==
    /\ Formats!Opened(t) \in 0..Len(t)
    /\ Formats!Opened(t) > 0 <=> Formats!Opened(t) # 0
    /\ Formats!Opened(t) # 0 => t # << >>

LEMMA TwoInside ==
  ASSUME NEW n \in Nat
  PROVE  /\ 0 \in 0..n /\ ~(0 > 0) /\ (n >= 1 => 1 \in 0..n /\ 1 > 0 /\ 1 # 0 /\ n # 0)
         /\ (n >= 2 => 2 \in 0..n /\ 2 > 0 /\ 2 # 0 /\ n # 0)
OBVIOUS

LEMMA OpenedInside ==
  ASSUME NEW t \in Texts
  PROVE  OpenedIs(t)
<1>1. PICK n \in Nat : n = Len(t) /\ (n # 0 => t # << >>)
  BY LenProperties, EmptySeq, Zenon DEF Texts
<1>2. Len(<<"}">>) = 1 /\ Len(<<"D", "}">>) = 2 /\ Len(<<"W", "}">>) = 2
  OBVIOUS
<1>3. CASE Formats!Begins(t, <<"}">>)
  <2>1. n >= 1
    BY <1>1, <1>2, <1>3, Zenon DEF Formats!Begins
  <2>2. t # << >> /\ t[1] = "}"
    BY <1>3, BeginsOne, TokensAre, Zenon DEF Texts
  <2>3. PICK y \in Formats!Token, w \in Texts : FirstIs(Formats!Token, t, y, w)
    BY <2>2, Begins1, Zenon DEF Texts
  <2>4. y = "}"
    BY <2>2, <2>3, Zenon DEF FirstIs
  <2>5. BeginsBoth(t, y, w, "D", "}") /\ BeginsBoth(t, y, w, "W", "}")
    BY <2>3, BeginsTwo, TokensAre, Zenon DEF Texts
  <2>6. ~Formats!Begins(t, <<"D", "}">>) /\ ~Formats!Begins(t, <<"W", "}">>)
    BY <2>4, <2>5, TokensAre, Zenon DEF BeginsBoth
  <2>7. Formats!Opened(t) = 1
    BY <1>3, <2>6, Zenon DEF Formats!Opened
  <2> QED BY <1>1, <2>1, <2>7, TwoInside, Zenon DEF OpenedIs
<1>4. CASE /\ ~Formats!Begins(t, <<"}">>)
           /\ Formats!Begins(t, <<"D", "}">>) \/ Formats!Begins(t, <<"W", "}">>)
  <2>1. n >= 2 /\ Formats!Opened(t) = 2
    BY <1>1, <1>2, <1>4, Zenon DEF Formats!Begins, Formats!Opened
  <2> QED BY <1>1, <2>1, TwoInside, Zenon DEF OpenedIs
<1>5. CASE ~Formats!Begins(t, <<"}">>) /\ ~Formats!Begins(t, <<"D", "}">>)
           /\ ~Formats!Begins(t, <<"W", "}">>)
  <2>1. Formats!Opened(t) = 0
    BY <1>5, Zenon DEF Formats!Opened
  <2> QED BY <1>1, <2>1, TwoInside, Zenon DEF OpenedIs
<1> QED BY <1>3, <1>4, <1>5, Zenon

(***************************************************************************)
(* Pieces, and what the parser reads from: text gathered and text to come. *)
(***************************************************************************)
Kinds == Formats!Token \cup {"str", "error"}
Pieces == Seq([kind : Kinds, text : Texts])
Ahead == Texts \X Texts

LEMMA ErrorIsPieces == Formats!Error \in Pieces
<1>1. << >> \in Texts /\ "error" \in Kinds
  BY EmptySeq, Zenon DEF Texts, Kinds
<1>2. [kind |-> "error", text |-> << >>] \in [kind : Kinds, text : Texts]
  BY <1>1
<1> QED BY <1>2, OneIs, Zenon DEF Formats!Error, Formats!Spec1, Pieces

LEMMA PieceIsPieces ==
  ASSUME NEW x \in Texts
  PROVE  Formats!Piece(x) \in Pieces
<1>1. "str" \in Kinds
  BY Zenon DEF Kinds
<1>2. [kind |-> "str", text |-> x] \in [kind : Kinds, text : Texts]
  BY <1>1
<1>3. <<[kind |-> "str", text |-> x]>> \in Pieces
  BY <1>2, OneIs, Zenon DEF Pieces
<1>4. << >> \in Pieces
  BY EmptySeq, Zenon DEF Pieces
<1> QED BY <1>3, <1>4, Zenon DEF Formats!Piece, Formats!Str

LEMMA OpenedIsPieces ==
  ASSUME NEW x \in Texts, NEW k \in Formats!Token
  PROVE  Formats!Piece(x) \o <<Formats!Spec1(k)>> \in Pieces
<1>1. << >> \in Texts /\ k \in Kinds
  BY EmptySeq, Zenon DEF Texts, Kinds
<1>2. [kind |-> k, text |-> << >>] \in [kind : Kinds, text : Texts]
  BY <1>1
<1>3. <<Formats!Spec1(k)>> \in Pieces
  BY <1>2, OneIs, Zenon DEF Pieces, Formats!Spec1
<1>4. Formats!Piece(x) \in Pieces
  BY PieceIsPieces, Zenon
<1> QED BY <1>3, <1>4, ConcatProperties, Zenon DEF Pieces

LEMMA ThenIsPieces ==
  ASSUME NEW a \in Pieces, NEW c \in Pieces
  PROVE  Formats!Then(a, c) \in Pieces
<1>1. a \o c \in Pieces
  BY ConcatProperties, Zenon DEF Pieces
<1> QED BY <1>1, ErrorIsPieces, Zenon DEF Formats!Then

LEMMA StillBelow ==
  ASSUME NEW i \in Nat, NEW j \in Nat, NEW k \in Nat, i < j, j < k
  PROVE  i < k
OBVIOUS

(* Dropping some of what is shorter than s.                                *)
DropsOf(d, s, n) ==
    Formats!Drop(d, n) \in Texts /\ Len(Formats!Drop(d, n)) < Len(s)

LEMMA DropsBelow ==
  ASSUME NEW d \in Texts, NEW s \in Texts, Len(d) < Len(s), NEW n \in 0..Len(d), n # 0
  PROVE  DropsOf(d, s, n)
<1>1. DropAt(Formats!Token, d, n)
  BY DropIs, Zenon DEF Texts
<1>2. PICK e \in Texts : e = Formats!Drop(d, n) /\ Len(e) < Len(d)
  BY <1>1, Zenon DEF DropAt, Texts
<1>3. Len(e) \in Nat /\ Len(d) \in Nat /\ Len(s) \in Nat
  BY LenProperties, Zenon DEF Texts
<1> QED BY <1>2, <1>3, StillBelow, Zenon DEF DropsOf

-----------------------------------------------------------------------------
(* Parse, as a recursion over shorter and shorter text to come.            *)
ParseBody(f, p) ==
    LET buf == p[1]
        s == p[2]
        i == Formats!IndexOf(s, "{")
        text == Formats!Text(buf, IF i = 0 THEN s ELSE SubSeq(s, 1, i - 1))
        tail == Formats!Drop(s, i)
        n == Formats!Opened(tail) IN
    IF text = Formats!BadText THEN Formats!Error
    ELSE IF i = 0 THEN Formats!Piece(text)
    ELSE IF n > 0 THEN Formats!Then(Formats!Piece(text) \o <<Formats!Spec1(tail[1])>>,
                                    f[<< << >>, Formats!Drop(tail, n) >>])
    ELSE IF Formats!Begins(tail, <<"{">>)
    THEN f[<<text \o <<"{">>, Formats!Drop(tail, 1)>>]
    ELSE Formats!Error

ParseFrom(f, x, ends, d) ==
    IF x = Formats!BadText THEN Formats!Error
    ELSE IF ends THEN Formats!Piece(x)
    ELSE IF Formats!Opened(d) > 0
    THEN Formats!Then(Formats!Piece(x) \o <<Formats!Spec1(d[1])>>,
                      f[<< << >>, Formats!Drop(d, Formats!Opened(d)) >>])
    ELSE IF Formats!Begins(d, <<"{">>)
    THEN f[<<x \o <<"{">>, Formats!Drop(d, 1)>>]
    ELSE Formats!Error

ParsesFrom(f, b, s) ==
    ParseBody(f, <<b, s>>)
       = ParseFrom(f, Formats!Text(b, BeforeOpen(s)), OpenAt(s) = 0, BehindOpen(s))

LEMMA PairIs ==
  ASSUME NEW a, NEW c
  PROVE  <<a, c>>[1] = a /\ <<a, c>>[2] = c
OBVIOUS

LEMMA ParsesFromCut ==
  ASSUME NEW f, NEW b \in Texts, NEW s \in Texts
  PROVE  ParsesFrom(f, b, s)
<1>1. PICK p : p = <<b, s>> /\ p[1] = b /\ p[2] = s
  BY PairIs, ZenonT(40)
<1>2. CASE OpenAt(s) = 0
  BY <1>1, <1>2, Zenon DEF ParsesFrom, ParseBody, ParseFrom, OpenAt, BeforeOpen, BehindOpen
<1>3. CASE OpenAt(s) # 0
  BY <1>1, <1>3, Zenon DEF ParsesFrom, ParseBody, ParseFrom, OpenAt, BeforeOpen, BehindOpen
<1> QED BY <1>2, <1>3

AgreeBelow(g, h, s) == \A q \in Ahead : Len(q[2]) < Len(s) => g[q] = h[q]

ParseFromGrows(g, x, ends, d, s) ==
    /\ ParseFrom(g, x, ends, d) \in Pieces
    /\ \A h : AgreeBelow(g, h, s) => ParseFrom(g, x, ends, d) = ParseFrom(h, x, ends, d)

LEMMA ParseGrowsFrom ==
  ASSUME NEW g \in [Ahead -> Pieces], NEW x \in MaybeTexts, NEW ends \in BOOLEAN,
         NEW d \in Texts, NEW s \in Texts, ~ends => Len(d) < Len(s)
  PROVE  ParseFromGrows(g, x, ends, d, s)
<1>1. OpenedIs(d)
  BY OpenedInside, Zenon
<1>2. << >> \in Texts
  BY EmptySeq, Zenon DEF Texts
<1>3. CASE x = Formats!BadText
  BY <1>3, ErrorIsPieces, Zenon DEF ParseFromGrows, ParseFrom
<1>4. CASE x # Formats!BadText /\ ends
  <2>1. x \in Texts
    BY <1>4, Zenon DEF MaybeTexts
  <2> QED BY <1>4, <2>1, PieceIsPieces, Zenon DEF ParseFromGrows, ParseFrom
<1>5. CASE x # Formats!BadText /\ ~ends /\ Formats!Opened(d) > 0
  <2>1. x \in Texts /\ Len(d) < Len(s)
    BY <1>5, Zenon DEF MaybeTexts
  <2>2. DropsOf(d, s, Formats!Opened(d)) /\ d # << >>
    BY <1>1, <1>5, <2>1, DropsBelow, Zenon DEF OpenedIs
  <2>3. PICK q \in Ahead : q = << << >>, Formats!Drop(d, Formats!Opened(d)) >>
                           /\ Len(q[2]) < Len(s)
    <3>1. PICK e \in Texts : e = Formats!Drop(d, Formats!Opened(d)) /\ Len(e) < Len(s)
      BY <2>2, Zenon DEF DropsOf
    <3>2. << << >>, e >> \in Ahead /\ << << >>, e >>[2] = e
      BY <1>2 DEF Ahead
    <3> QED BY <3>1, <3>2, Zenon
  <2>4. PICK a \in Pieces : a = Formats!Piece(x) \o <<Formats!Spec1(d[1])>>
    <3>1. d[1] \in Formats!Token
      <4>1. PICK y \in Formats!Token, w \in Texts : FirstIs(Formats!Token, d, y, w)
        BY <2>2, Begins1, Zenon DEF Texts
      <4> QED BY <4>1, Zenon DEF FirstIs
    <3> QED BY <2>1, <3>1, OpenedIsPieces, Zenon
  <2>5. \A h : ParseFrom(h, x, ends, d) = Formats!Then(a, h[q])
    BY <1>5, <2>3, <2>4, Zenon DEF ParseFrom
  <2>6. g[q] \in Pieces
    BY <2>3, Zenon
  <2>7. ParseFrom(g, x, ends, d) \in Pieces
    BY <2>4, <2>5, <2>6, ThenIsPieces, Zenon
  <2> QED BY <2>3, <2>5, <2>7, Zenon DEF ParseFromGrows, AgreeBelow
<1>6. CASE /\ x # Formats!BadText /\ ~ends /\ ~(Formats!Opened(d) > 0)
           /\ Formats!Begins(d, <<"{">>)
  <2>1. x \in Texts /\ Len(d) < Len(s)
    BY <1>6, Zenon DEF MaybeTexts
  <2>2. PICK y \in Formats!Token, w \in Texts : FirstIs(Formats!Token, d, y, w)
    <3>1. d # << >>
      BY <1>6, BeginsOne, TokensAre, Zenon DEF Texts
    <3> QED BY <3>1, Begins1, Zenon DEF Texts
  <2>3. Formats!Drop(d, 1) = w
    BY <2>2, DropOne, Zenon DEF Texts
  <2>4. Len(w) < Len(s)
    <3>1. Len(w) \in Nat /\ Len(d) \in Nat /\ Len(s) \in Nat /\ Len(d) = Len(w) + 1
      BY <2>2, LenProperties, Zenon DEF Texts, FirstIs
    <3>2. Len(w) < Len(w) + 1
      BY <3>1
    <3> QED BY <2>1, <3>1, <3>2, StillBelow, Zenon
  <2>5. x \o <<"{">> \in Texts
    <3>1. <<"{">> \in Texts
      BY OneIs, TokensAre, Zenon DEF Texts
    <3> QED BY <2>1, <3>1, ConcatProperties, Zenon DEF Texts
  <2>6. PICK q \in Ahead : q = <<x \o <<"{">>, w>> /\ Len(q[2]) < Len(s)
    <3>1. PICK e \in Texts : e = x \o <<"{">>
      BY <2>5, Zenon
    <3>2. <<e, w>> \in Ahead /\ <<e, w>>[2] = w
      BY DEF Ahead
    <3> QED BY <2>4, <3>1, <3>2, Zenon
  <2>7. \A h : ParseFrom(h, x, ends, d) = h[q]
    BY <1>6, <2>3, <2>6, Zenon DEF ParseFrom
  <2>8. g[q] \in Pieces
    BY <2>6, Zenon
  <2> QED BY <2>6, <2>7, <2>8, Zenon DEF ParseFromGrows, AgreeBelow
<1>7. CASE /\ x # Formats!BadText /\ ~ends /\ ~(Formats!Opened(d) > 0)
           /\ ~Formats!Begins(d, <<"{">>)
  BY <1>7, ErrorIsPieces, Zenon DEF ParseFromGrows, ParseFrom
<1> QED BY <1>3, <1>4, <1>5, <1>6, <1>7, Zenon

LEMMA LengthAhead == \E r \in [Ahead -> Nat] : \A p \in Ahead : r[p] = Len(p[2])
<1> DEFINE q == [p \in Ahead |-> Len(p[2])]
<1>1. \A p \in Ahead : Len(p[2]) \in Nat
  <2>1. \A p \in Ahead : p[2] \in Texts
    BY DEF Ahead
  <2> QED BY <2>1, LenProperties, Zenon DEF Texts
<1>2. q \in [Ahead -> Nat]
  BY <1>1, Zenon
<1>3. \A p \in Ahead : q[p] = Len(p[2])
  BY Zenon
<1> HIDE DEF q
<1> QED BY <1>2, <1>3, Zenon

LEMMA AheadIs ==
  ASSUME NEW p \in Ahead
  PROVE  p = <<p[1], p[2]>> /\ p[1] \in Texts /\ p[2] \in Texts
BY DEF Ahead

ParseGrows(g, p) ==
    /\ ParseBody(g, p) \in Pieces
    /\ \A h : AgreeBelow(g, h, p[2]) => ParseBody(g, p) = ParseBody(h, p)

LEMMA ParseGrowsAlways ==
  ASSUME NEW g \in [Ahead -> Pieces], NEW p \in Ahead
  PROVE  ParseGrows(g, p)
<1>1. PICK b \in Texts, s \in Texts : p = <<b, s>> /\ p[2] = s
  BY AheadIs, Zenon
<1>2. PICK x \in MaybeTexts : x = Formats!Text(b, BeforeOpen(s))
  <2>1. TextIn(b, BeforeOpen(s))
    BY CutsAtOpen, TextsAre, Zenon DEF CutAtOpen
  <2> QED BY <2>1, Zenon DEF TextIn
<1>3. (OpenAt(s) = 0) \in BOOLEAN
  OBVIOUS
<1>4. PICK d \in Texts : d = BehindOpen(s) /\ (OpenAt(s) # 0 => Len(d) < Len(s))
  BY CutsAtOpen, Zenon DEF CutAtOpen
<1>5. ParseFromGrows(g, x, OpenAt(s) = 0, d, s)
  BY <1>3, <1>4, ParseGrowsFrom, Zenon
<1>6. \A h : ParseBody(h, p) = ParseFrom(h, x, OpenAt(s) = 0, d)
  <2>1. \A h : ParsesFrom(h, b, s)
    BY ParsesFromCut, Zenon
  <2> QED BY <1>1, <1>2, <1>4, <2>1, Zenon DEF ParsesFrom
<1> QED BY <1>1, <1>5, <1>6, ZenonT(40) DEF ParseGrows, ParseFromGrows

LEMMA ParseIs ==
  /\ Formats!Parse \in [Ahead -> Pieces]
  /\ \A p \in Ahead : Formats!Parse[p] = ParseBody(Formats!Parse, p)
<1>1. PICK r \in [Ahead -> Nat] : \A p \in Ahead : r[p] = Len(p[2])
  BY LengthAhead, Zenon
<1>2. PICK H \in [[Ahead -> Pieces] \X Ahead -> Pieces] :
        \A g \in [Ahead -> Pieces], p \in Ahead : H[<<g, p>>] = ParseBody(g, p)
  <2> DEFINE K == [q \in [Ahead -> Pieces] \X Ahead |-> ParseBody(q[1], q[2])]
  <2>1. ASSUME NEW q \in [Ahead -> Pieces] \X Ahead
        PROVE  ParseBody(q[1], q[2]) \in Pieces
    <3>1. q[1] \in [Ahead -> Pieces] /\ q[2] \in Ahead
      OBVIOUS
    <3> QED BY <3>1, ParseGrowsAlways, Zenon DEF ParseGrows
  <2>2. K \in [[Ahead -> Pieces] \X Ahead -> Pieces]
    BY <2>1, Zenon
  <2>3. ASSUME NEW g \in [Ahead -> Pieces], NEW p \in Ahead
        PROVE  K[<<g, p>>] = ParseBody(g, p)
    <3>1. <<g, p>> \in [Ahead -> Pieces] \X Ahead /\ <<g, p>>[1] = g /\ <<g, p>>[2] = p
      OBVIOUS
    <3> QED BY <3>1, Zenon
  <2> HIDE DEF K
  <2> QED BY <2>2, <2>3, Zenon
<1>3. Grows(Ahead, Pieces, r, H)
  <2> SUFFICES ASSUME NEW g \in [Ahead -> Pieces], NEW h \in [Ahead -> Pieces],
                      NEW p \in Ahead, \A q \in Ahead : r[q] < r[p] => g[q] = h[q]
               PROVE  H[<<g, p>>] = H[<<h, p>>]
    BY Zenon DEF Grows
  <2>1. ParseGrows(g, p)
    BY ParseGrowsAlways, Zenon
  <2>2. AgreeBelow(g, h, p[2])
    BY <1>1, Zenon DEF AgreeBelow
  <2> QED BY <1>2, <2>1, <2>2, Zenon DEF ParseGrows
<1>4. Pieces # {}
  BY ErrorIsPieces, Zenon
<1>5. PICK f \in [Ahead -> Pieces] : f = [p \in Ahead |-> H[<<f, p>>]]
  <2>1. HasFunction(Ahead, Pieces, r, H)
    BY <1>3, <1>4, RecursionHasFunction, Zenon
  <2> QED BY <2>1, Zenon DEF HasFunction
<1>6. f = [p \in Ahead |-> ParseBody(f, p)]
  <2>1. \A p \in Ahead : H[<<f, p>>] = ParseBody(f, p)
    BY <1>2, <1>5, Zenon
  <2> QED BY <1>5, <2>1, Zenon
<1>7. Formats!Parse = CHOOSE u : u = [p \in Ahead |-> ParseBody(u, p)]
  BY Zenon DEF Formats!Parse, ParseBody, Ahead, Texts
<1>8. Formats!Parse = [p \in Ahead |-> ParseBody(Formats!Parse, p)]
  BY <1>6, <1>7, Zenon
<1>9. \A p \in Ahead : Formats!Parse[p] = ParseBody(Formats!Parse, p)
  BY <1>8, Zenon
<1>10. Formats!Parse \in [Ahead -> Pieces]
  <2>1. PICK u : u = Formats!Parse
    OBVIOUS
  <2>2. StaysIn(Ahead, Pieces, r, u)
    <3> SUFFICES ASSUME NEW p \in Ahead, NEW g \in [Ahead -> Pieces],
                        \A q \in Ahead : r[q] < r[p] => g[q] = u[q]
                 PROVE  u[p] \in Pieces
      BY Zenon DEF StaysIn
    <3>1. ParseGrows(g, p)
      BY ParseGrowsAlways, Zenon
    <3>2. AgreeBelow(g, u, p[2])
      BY <1>1, Zenon DEF AgreeBelow
    <3> QED BY <1>9, <2>1, <3>1, <3>2, Zenon DEF ParseGrows
  <2>3. u = [p \in Ahead |-> u[p]]
    BY <1>8, <1>9, <2>1, Zenon
  <2> QED BY <1>4, <2>1, <2>2, <2>3, RecursionIsTyped, ZenonT(40)
<1> QED BY <1>9, <1>10

(***************************************************************************)
(* Scan, likewise.                                                         *)
(***************************************************************************)
ScanBody(f, p) ==
    LET text == p[1]
        s == p[2]
        before == IF text = << >> THEN << >> ELSE <<Formats!Str(text)>>
        n == Formats!Opened(Formats!Drop(s, 1)) IN
    IF s = << >> THEN before
    ELSE IF Formats!Begins(s, <<"{", "{">>) \/ Formats!Begins(s, <<"}", "}">>)
    THEN f[<<text \o <<s[1]>>, Formats!Drop(s, 2)>>]
    ELSE IF s[1] = "}" THEN Formats!Error
    ELSE IF s[1] # "{" THEN f[<<text \o <<s[1]>>, Formats!Drop(s, 1)>>]
    ELSE IF n = 0 THEN Formats!Error
    ELSE Formats!Then(before \o <<Formats!Spec1(s[2])>>, f[<< << >>, Formats!Drop(s, 1 + n)>>])

(* The same, by the first token.                                           *)
Doubles(x, t) ==
    (x = "{" /\ Formats!Begins(t, <<"{">>)) \/ (x = "}" /\ Formats!Begins(t, <<"}">>))

ScanFrom(f, b, x, t) ==
    IF Doubles(x, t) THEN f[<<b \o <<x>>, Formats!Drop(t, 1)>>]
    ELSE IF x = "}" THEN Formats!Error
    ELSE IF x # "{" THEN f[<<b \o <<x>>, t>>]
    ELSE IF Formats!Opened(t) = 0 THEN Formats!Error
    ELSE Formats!Then(Formats!Piece(b) \o <<Formats!Spec1(t[1])>>,
                      f[<< << >>, Formats!Drop(t, Formats!Opened(t))>>])

ScansNone(f, b) == ScanBody(f, <<b, << >> >>) = Formats!Piece(b)

LEMMA ScansNothing ==
  ASSUME NEW f, NEW b \in Texts
  PROVE  ScansNone(f, b)
<1>1. PICK p : p = <<b, << >> >> /\ p[1] = b /\ p[2] = << >>
  BY PairIs, ZenonT(40)
<1> QED BY <1>1, Zenon DEF ScansNone, ScanBody, Formats!Piece

ScansFrom(f, b, s, x, t) == ScanBody(f, <<b, s>>) = ScanFrom(f, b, x, t)

(* What the definition of ScanBody looks at, by the first token.           *)
FirstSeen(s, x, t) ==
    /\ s # << >> /\ s[1] = x /\ Formats!Drop(s, 1) = t
    /\ Formats!Begins(s, <<"{", "{">>) \/ Formats!Begins(s, <<"}", "}">>) <=> Doubles(x, t)
    /\ t # << >> => s[2] = t[1] /\ Formats!Drop(s, 2) = Formats!Drop(t, 1)
    /\ Formats!Drop(s, 1 + Formats!Opened(t)) = Formats!Drop(t, Formats!Opened(t))

LEMMA SumTurns ==
  ASSUME NEW n \in Nat, NEW i \in 0..n
  PROVE  1 + i = i + 1
OBVIOUS

LEMMA OneOfMany ==
  ASSUME NEW m \in Nat
  PROVE  1 \in 1..(m + 1) /\ 1 + 1 = 2
OBVIOUS

LEMMA InAhead ==
  ASSUME NEW b \in Texts, NEW t \in Texts
  PROVE  <<b, t>> \in Ahead /\ <<b, t>>[2] = t
BY DEF Ahead

LEMMA FirstIsSeen ==
  ASSUME NEW s, NEW x \in Formats!Token, NEW t \in Texts, FirstIs(Formats!Token, s, x, t)
  PROVE  FirstSeen(s, x, t)
<1>1. s # << >> /\ s[1] = x /\ Formats!Drop(s, 1) = t
  BY DropOne, ZenonT(40) DEF FirstIs, Texts
<1>2. Formats!Begins(s, <<"{", "{">>) \/ Formats!Begins(s, <<"}", "}">>) <=> Doubles(x, t)
  <2>1. BeginsBoth(s, x, t, "{", "{") /\ BeginsBoth(s, x, t, "}", "}")
    BY BeginsTwo, TokensAre, Zenon DEF Texts
  <2> QED BY <2>1, Zenon DEF BeginsBoth, Doubles
<1>3. ASSUME t # << >>
      PROVE  s[2] = t[1] /\ Formats!Drop(s, 2) = Formats!Drop(t, 1)
  <2>1. PICK y \in Formats!Token, v \in Texts : FirstIs(Formats!Token, t, y, v)
    BY <1>3, Begins1, Zenon DEF Texts
  <2>2. Formats!Drop(s, 2) = v /\ Formats!Drop(t, 1) = v
    <3>1. DropsTwo(s, x, t, y, v)
      BY <2>1, DropTwo, Zenon DEF Texts
    <3>2. Formats!Drop(t, 1) = v
      BY <2>1, DropOne, Zenon DEF Texts
    <3> QED BY <3>1, <3>2, Zenon DEF DropsTwo
  <2>3. s[2] = t[1]
    <3>1. PICK m \in Nat : m = Len(v)
      BY LenProperties, Zenon DEF Texts
    <3>2. 1 \in 1..Len(t) /\ 1 + 1 = 2
      BY <2>1, <3>1, OneOfMany, Zenon DEF FirstIs
    <3>3. \A i \in 1..Len(t) : s[i + 1] = t[i]
      BY Zenon DEF FirstIs
    <3> QED BY <3>2, <3>3, Zenon
  <2> QED BY <2>2, <2>3, Zenon
<1>4. Formats!Drop(s, 1 + Formats!Opened(t)) = Formats!Drop(t, Formats!Opened(t))
  <2>1. PICK n : n = Formats!Opened(t) /\ n \in 0..Len(t)
    BY OpenedInside, Zenon DEF OpenedIs
  <2>2. 1 + n = n + 1
    <3>1. Len(t) \in Nat
      BY LenProperties, Zenon DEF Texts
    <3> QED BY <2>1, <3>1, SumTurns, Zenon
  <2>3. DropsAlike(s, x, t, n)
    BY <2>1, DropBehindFirst, Zenon DEF Texts
  <2> QED BY <2>1, <2>2, <2>3, Zenon DEF DropsAlike
<1> QED BY <1>1, <1>2, <1>3, <1>4, Zenon DEF FirstSeen

LEMMA ScansFirst ==
  ASSUME NEW f, NEW b \in Texts, NEW s, NEW x \in Formats!Token, NEW t \in Texts,
         FirstIs(Formats!Token, s, x, t)
  PROVE  ScansFrom(f, b, s, x, t)
<1>1. PICK p : p = <<b, s>> /\ p[1] = b /\ p[2] = s
  BY PairIs, ZenonT(40)
<1>2. FirstSeen(s, x, t)
  BY FirstIsSeen, Zenon
<1>3. CASE Doubles(x, t)
  <2>1. t # << >>
    BY <1>3, BeginsOne, TokensAre, Zenon DEF Doubles, Texts
  <2>2. ScanFrom(f, b, x, t) = f[<<b \o <<x>>, Formats!Drop(t, 1)>>]
    BY <1>3, Zenon DEF ScanFrom
  <2>3. ScanBody(f, p) = f[<<b \o <<x>>, Formats!Drop(t, 1)>>]
    BY <1>1, <1>2, <1>3, <2>1, Zenon DEF FirstSeen, ScanBody
  <2> QED BY <1>1, <2>2, <2>3, Zenon DEF ScansFrom
<1>4. CASE ~Doubles(x, t) /\ x = "}"
  BY <1>1, <1>2, <1>4, Zenon DEF FirstSeen, ScanBody, ScanFrom, ScansFrom
<1>5. CASE ~Doubles(x, t) /\ x # "}" /\ x # "{"
  BY <1>1, <1>2, <1>5, Zenon DEF FirstSeen, ScanBody, ScanFrom, ScansFrom
<1>6. CASE ~Doubles(x, t) /\ x # "}" /\ x = "{" /\ Formats!Opened(t) = 0
  BY <1>1, <1>2, <1>6, Zenon DEF FirstSeen, ScanBody, ScanFrom, ScansFrom
<1>7. CASE ~Doubles(x, t) /\ x # "}" /\ x = "{" /\ Formats!Opened(t) # 0
  <2>1. t # << >>
    BY <1>7, OpenedInside, Zenon DEF OpenedIs
  <2>2. ScanFrom(f, b, x, t)
          = Formats!Then(Formats!Piece(b) \o <<Formats!Spec1(t[1])>>,
                         f[<< << >>, Formats!Drop(t, Formats!Opened(t))>>])
    BY <1>7, Zenon DEF ScanFrom
  <2>3. ScanBody(f, p)
          = Formats!Then(Formats!Piece(b) \o <<Formats!Spec1(t[1])>>,
                         f[<< << >>, Formats!Drop(t, Formats!Opened(t))>>])
    BY <1>1, <1>2, <1>7, <2>1, Zenon DEF FirstSeen, ScanBody, Formats!Piece
  <2> QED BY <1>1, <2>2, <2>3, Zenon DEF ScansFrom
<1> QED BY <1>3, <1>4, <1>5, <1>6, <1>7, Zenon

ScanFromGrows(g, b, s, x, t) ==
    /\ ScanFrom(g, b, x, t) \in Pieces
    /\ \A h : AgreeBelow(g, h, s) => ScanFrom(g, b, x, t) = ScanFrom(h, b, x, t)

LEMMA ScanGrowsFrom ==
  ASSUME NEW g \in [Ahead -> Pieces], NEW b \in Texts, NEW s, NEW x \in Formats!Token,
         NEW t \in Texts, FirstIs(Formats!Token, s, x, t)
  PROVE  ScanFromGrows(g, b, s, x, t)
<1>1. s \in Texts /\ Len(t) < Len(s)
  <2>1. PICK m \in Nat : m = Len(t)
    BY LenProperties, Zenon DEF Texts
  <2>2. Len(s) = m + 1 /\ s \in Texts
    BY <2>1, Zenon DEF FirstIs, Texts
  <2>3. m < m + 1
    BY <2>1
  <2> QED BY <2>1, <2>2, <2>3, Zenon
<1>2. b \o <<x>> \in Texts /\ << >> \in Texts
  BY OneIs, EmptySeq, ConcatProperties, Zenon DEF Texts
<1>3. CASE Doubles(x, t)
  <2>1. PICK y \in Formats!Token, w \in Texts : FirstIs(Formats!Token, t, y, w)
    <3>1. t # << >>
      BY <1>3, BeginsOne, TokensAre, Zenon DEF Doubles, Texts
    <3> QED BY <3>1, Begins1, Zenon DEF Texts
  <2>2. Formats!Drop(t, 1) = w
    BY <2>1, DropOne, Zenon DEF Texts
  <2>3. Len(w) < Len(s)
    <3>1. Len(w) \in Nat /\ Len(t) \in Nat /\ Len(s) \in Nat /\ Len(t) = Len(w) + 1
      BY <1>1, <2>1, LenProperties, Zenon DEF Texts, FirstIs
    <3>2. Len(w) < Len(w) + 1
      BY <3>1
    <3> QED BY <1>1, <3>1, <3>2, StillBelow, Zenon
  <2>4. PICK q \in Ahead : q = <<b \o <<x>>, w>> /\ Len(q[2]) < Len(s)
    BY <1>2, <2>3, InAhead, Zenon
  <2>5. \A h : ScanFrom(h, b, x, t) = h[q]
    BY <1>3, <2>2, <2>4, Zenon DEF ScanFrom
  <2> QED BY <2>4, <2>5, Zenon DEF ScanFromGrows, AgreeBelow
<1>4. CASE ~Doubles(x, t) /\ x = "}"
  BY <1>4, ErrorIsPieces, Zenon DEF ScanFromGrows, ScanFrom
<1>5. CASE ~Doubles(x, t) /\ x # "}" /\ x # "{"
  <2>1. PICK q \in Ahead : q = <<b \o <<x>>, t>> /\ Len(q[2]) < Len(s)
    BY <1>1, <1>2, InAhead, Zenon
  <2>2. \A h : ScanFrom(h, b, x, t) = h[q]
    BY <1>5, <2>1, Zenon DEF ScanFrom
  <2> QED BY <2>1, <2>2, Zenon DEF ScanFromGrows, AgreeBelow
<1>6. CASE ~Doubles(x, t) /\ x # "}" /\ x = "{" /\ Formats!Opened(t) = 0
  BY <1>6, ErrorIsPieces, Zenon DEF ScanFromGrows, ScanFrom
<1>7. CASE ~Doubles(x, t) /\ x # "}" /\ x = "{" /\ Formats!Opened(t) # 0
  <2>1. DropsOf(t, s, Formats!Opened(t)) /\ t # << >>
    BY <1>1, <1>7, OpenedInside, DropsBelow, Zenon DEF OpenedIs
  <2>2. PICK e \in Texts : e = Formats!Drop(t, Formats!Opened(t)) /\ Len(e) < Len(s)
    BY <2>1, Zenon DEF DropsOf
  <2>3. PICK q \in Ahead : q = << << >>, e >> /\ Len(q[2]) < Len(s)
    BY <1>2, <2>2, InAhead, Zenon
  <2>4. PICK a \in Pieces : a = Formats!Piece(b) \o <<Formats!Spec1(t[1])>>
    <3>1. PICK y \in Formats!Token, w \in Texts : FirstIs(Formats!Token, t, y, w)
      BY <2>1, Begins1, Zenon DEF Texts
    <3>2. t[1] \in Formats!Token
      BY <3>1, Zenon DEF FirstIs
    <3> QED BY <3>2, OpenedIsPieces, Zenon
  <2>5. \A h : ScanFrom(h, b, x, t) = Formats!Then(a, h[q])
    BY <1>7, <2>2, <2>3, <2>4, Zenon DEF ScanFrom
  <2>6. g[q] \in Pieces
    BY <2>3, Zenon
  <2>7. ScanFrom(g, b, x, t) \in Pieces
    BY <2>4, <2>5, <2>6, ThenIsPieces, Zenon
  <2> QED BY <2>3, <2>5, <2>7, Zenon DEF ScanFromGrows, AgreeBelow
<1> QED BY <1>3, <1>4, <1>5, <1>6, <1>7, Zenon

ScanGrows(g, p) ==
    /\ ScanBody(g, p) \in Pieces
    /\ \A h : AgreeBelow(g, h, p[2]) => ScanBody(g, p) = ScanBody(h, p)

LEMMA ScanGrowsAlways ==
  ASSUME NEW g \in [Ahead -> Pieces], NEW p \in Ahead
  PROVE  ScanGrows(g, p)
<1>1. PICK b \in Texts, s \in Texts : p = <<b, s>> /\ p[2] = s
  BY AheadIs, Zenon
<1>2. CASE s = << >>
  <2>1. \A h : ScansNone(h, b)
    BY ScansNothing, Zenon
  <2>2. \A h : ScanBody(h, p) = Formats!Piece(b)
    BY <1>1, <1>2, <2>1, Zenon DEF ScansNone
  <2> QED BY <2>2, PieceIsPieces, Zenon DEF ScanGrows
<1>3. CASE s # << >>
  <2>1. PICK x \in Formats!Token, t \in Texts : FirstIs(Formats!Token, s, x, t)
    BY <1>3, Begins1, Zenon DEF Texts
  <2>2. ScanFromGrows(g, b, s, x, t)
    BY <2>1, ScanGrowsFrom, Zenon
  <2>3. \A h : ScanBody(h, p) = ScanFrom(h, b, x, t)
    <3>1. \A h : ScansFrom(h, b, s, x, t)
      BY <2>1, ScansFirst, Zenon
    <3> QED BY <1>1, <3>1, Zenon DEF ScansFrom
  <2> QED BY <1>1, <2>2, <2>3, Zenon DEF ScanGrows, ScanFromGrows
<1> QED BY <1>2, <1>3

LEMMA ScanIs ==
  /\ Formats!Scan \in [Ahead -> Pieces]
  /\ \A p \in Ahead : Formats!Scan[p] = ScanBody(Formats!Scan, p)
<1>1. PICK r \in [Ahead -> Nat] : \A p \in Ahead : r[p] = Len(p[2])
  BY LengthAhead, Zenon
<1>2. PICK H \in [[Ahead -> Pieces] \X Ahead -> Pieces] :
        \A g \in [Ahead -> Pieces], p \in Ahead : H[<<g, p>>] = ScanBody(g, p)
  <2> DEFINE K == [q \in [Ahead -> Pieces] \X Ahead |-> ScanBody(q[1], q[2])]
  <2>1. ASSUME NEW q \in [Ahead -> Pieces] \X Ahead
        PROVE  ScanBody(q[1], q[2]) \in Pieces
    <3>1. q[1] \in [Ahead -> Pieces] /\ q[2] \in Ahead
      OBVIOUS
    <3> QED BY <3>1, ScanGrowsAlways, Zenon DEF ScanGrows
  <2>2. K \in [[Ahead -> Pieces] \X Ahead -> Pieces]
    BY <2>1, Zenon
  <2>3. ASSUME NEW g \in [Ahead -> Pieces], NEW p \in Ahead
        PROVE  K[<<g, p>>] = ScanBody(g, p)
    <3>1. <<g, p>> \in [Ahead -> Pieces] \X Ahead /\ <<g, p>>[1] = g /\ <<g, p>>[2] = p
      OBVIOUS
    <3> QED BY <3>1, Zenon
  <2> HIDE DEF K
  <2> QED BY <2>2, <2>3, Zenon
<1>3. Grows(Ahead, Pieces, r, H)
  <2> SUFFICES ASSUME NEW g \in [Ahead -> Pieces], NEW h \in [Ahead -> Pieces],
                      NEW p \in Ahead, \A q \in Ahead : r[q] < r[p] => g[q] = h[q]
               PROVE  H[<<g, p>>] = H[<<h, p>>]
    BY Zenon DEF Grows
  <2>1. ScanGrows(g, p)
    BY ScanGrowsAlways, Zenon
  <2>2. AgreeBelow(g, h, p[2])
    BY <1>1, Zenon DEF AgreeBelow
  <2> QED BY <1>2, <2>1, <2>2, Zenon DEF ScanGrows
<1>4. Pieces # {}
  BY ErrorIsPieces, Zenon
<1>5. PICK f \in [Ahead -> Pieces] : f = [p \in Ahead |-> H[<<f, p>>]]
  <2>1. HasFunction(Ahead, Pieces, r, H)
    BY <1>3, <1>4, RecursionHasFunction, Zenon
  <2> QED BY <2>1, Zenon DEF HasFunction
<1>6. f = [p \in Ahead |-> ScanBody(f, p)]
  <2>1. \A p \in Ahead : H[<<f, p>>] = ScanBody(f, p)
    BY <1>2, <1>5, Zenon
  <2> QED BY <1>5, <2>1, Zenon
<1>7. Formats!Scan = CHOOSE u : u = [p \in Ahead |-> ScanBody(u, p)]
  BY Zenon DEF Formats!Scan, ScanBody, Ahead, Texts
<1>8. Formats!Scan = [p \in Ahead |-> ScanBody(Formats!Scan, p)]
  BY <1>6, <1>7, Zenon
<1>9. \A p \in Ahead : Formats!Scan[p] = ScanBody(Formats!Scan, p)
  BY <1>8, Zenon
<1>10. Formats!Scan \in [Ahead -> Pieces]
  <2>1. PICK u : u = Formats!Scan
    OBVIOUS
  <2>2. StaysIn(Ahead, Pieces, r, u)
    <3> SUFFICES ASSUME NEW p \in Ahead, NEW g \in [Ahead -> Pieces],
                        \A q \in Ahead : r[q] < r[p] => g[q] = u[q]
                 PROVE  u[p] \in Pieces
      BY Zenon DEF StaysIn
    <3>1. ScanGrows(g, p)
      BY ScanGrowsAlways, Zenon
    <3>2. AgreeBelow(g, u, p[2])
      BY <1>1, Zenon DEF AgreeBelow
    <3> QED BY <1>9, <2>1, <3>1, <3>2, Zenon DEF ScanGrows
  <2>3. u = [p \in Ahead |-> u[p]]
    BY <1>8, <1>9, <2>1, Zenon
  <2> QED BY <1>4, <2>1, <2>2, <2>3, RecursionIsTyped, Zenon
<1> QED BY <1>9, <1>10

(***************************************************************************)
(* Parse, by the first token: it reads as Scan does.                       *)
(***************************************************************************)
Parses(b, s) ==
    Formats!Parse[<<b, s>>]
       = ParseFrom(Formats!Parse, Formats!Text(b, BeforeOpen(s)), OpenAt(s) = 0, BehindOpen(s))

LEMMA ParsesCut ==
  ASSUME NEW b \in Texts, NEW s \in Texts
  PROVE  Parses(b, s)
<1>1. PICK p \in Ahead : p = <<b, s>>
  BY InAhead, Zenon
<1>2. Formats!Parse[p] = ParseBody(Formats!Parse, p)
  BY <1>1, ParseIs, Zenon
<1>3. ParsesFrom(Formats!Parse, b, s)
  BY ParsesFromCut, Zenon
<1> QED BY <1>1, <1>2, <1>3, Zenon DEF Parses, ParsesFrom

LEMMA NoneIsBad ==
  ASSUME NEW b \in Texts
  PROVE  b # Formats!BadText
BY BadTextIsNone, Zenon

LEMMA ParsesNothing ==
  ASSUME NEW b \in Texts
  PROVE  Formats!Parse[<<b, << >> >>] = Formats!Piece(b)
<1>1. << >> \in Texts
  BY EmptySeq, Zenon DEF Texts
<1>2. Parses(b, << >>)
  BY <1>1, ParsesCut, Zenon
<1>3. OpenAt(<< >>) = 0 /\ BeforeOpen(<< >>) = << >>
  BY OpensNowhere, Zenon
<1>4. Formats!Text(b, << >>) = b /\ b # Formats!BadText
  BY TextOfNone, NoneIsBad, Zenon
<1> QED BY <1>2, <1>3, <1>4, Zenon DEF Parses, ParseFrom

ParsesFirst(b, s, x, t) == Formats!Parse[<<b, s>>] = ScanFrom(Formats!Parse, b, x, t)

LEMMA ParsesOther ==
  ASSUME NEW b \in Texts, NEW s, NEW x \in Formats!Token, NEW t \in Texts,
         FirstIs(Formats!Token, s, x, t), x # "{", x # "}"
  PROVE  ParsesFirst(b, s, x, t)
<1>1. PICK c \in Texts : c = b \o <<x>>
  <2>1. b \o <<x>> \in Texts
    BY OneIs, ConcatProperties, Zenon DEF Texts
  <2> QED BY <2>1, Zenon
<1>2. s \in Texts
  BY Zenon DEF FirstIs, Texts
<1>3. Parses(b, s) /\ Parses(c, t)
  BY <1>1, <1>2, ParsesCut, Zenon
<1>4. CutsBehind(s, x, t)
  BY OpensBehind, Zenon
<1>5. Formats!Text(b, BeforeOpen(s)) = Formats!Text(c, BeforeOpen(t))
  <2>1. BeforeOpen(t) \in Texts
    BY CutsAtOpen, Zenon DEF CutAtOpen
  <2>2. FirstIs(Formats!Token, BeforeOpen(s), x, BeforeOpen(t))
    BY <1>4, Zenon DEF CutsBehind
  <2>3. TextJoins(b, BeforeOpen(s), x, BeforeOpen(t))
    BY <2>1, <2>2, TextOfOther, Zenon
  <2> QED BY <1>1, <2>3, Zenon DEF TextJoins
<1>6. Formats!Parse[<<b, s>>] = Formats!Parse[<<c, t>>]
  <2>1. (OpenAt(s) = 0) = (OpenAt(t) = 0) /\ BehindOpen(s) = BehindOpen(t)
    BY <1>4, Zenon DEF CutsBehind
  <2> QED BY <1>3, <1>5, <2>1, Zenon DEF Parses
<1>7. ScanFrom(Formats!Parse, b, x, t) = Formats!Parse[<<c, t>>]
  BY <1>1, Zenon DEF ScanFrom, Doubles
<1> QED BY <1>6, <1>7, Zenon DEF ParsesFirst

LEMMA ParsesEscaped ==
  ASSUME NEW b \in Texts, NEW s, NEW x \in Formats!Token, NEW t \in Texts,
         FirstIs(Formats!Token, s, x, t), x = "}", Formats!Begins(t, <<"}">>)
  PROVE  ParsesFirst(b, s, x, t)
<1>1. PICK c \in Texts : c = b \o <<x>>
  <2>1. b \o <<x>> \in Texts
    BY OneIs, ConcatProperties, Zenon DEF Texts
  <2> QED BY <2>1, Zenon
<1>2. s \in Texts /\ x # "{"
  BY TokensAre, Zenon DEF FirstIs, Texts
<1>3. PICK v \in Texts : FirstIs(Formats!Token, t, x, v)
  <2>1. t # << >> /\ t[1] = x
    BY BeginsOne, Zenon DEF Texts
  <2>2. PICK y \in Formats!Token, v \in Texts : FirstIs(Formats!Token, t, y, v)
    BY <2>1, Begins1, Zenon DEF Texts
  <2>3. y = x
    BY <2>1, <2>2, Zenon DEF FirstIs
  <2> QED BY <2>2, <2>3, Zenon
<1>4. Parses(b, s) /\ Parses(c, v)
  BY <1>1, <1>2, <1>3, ParsesCut, Zenon
<1>5. CutsBehind(s, x, t) /\ CutsBehind(t, x, v)
  BY <1>2, <1>3, OpensBehind, Zenon
<1>6. Formats!Text(b, BeforeOpen(s)) = Formats!Text(c, BeforeOpen(v))
  <2>1. BeforeOpen(t) \in Texts /\ BeforeOpen(v) \in Texts
    BY <1>3, CutsAtOpen, Zenon DEF CutAtOpen
  <2>2. /\ FirstIs(Formats!Token, BeforeOpen(s), "}", BeforeOpen(t))
        /\ FirstIs(Formats!Token, BeforeOpen(t), "}", BeforeOpen(v))
    BY <1>5, Zenon DEF CutsBehind
  <2>3. TextJoins(b, BeforeOpen(s), "}", BeforeOpen(v))
    BY <2>1, <2>2, TextOfEscaped, Zenon
  <2> QED BY <1>1, <2>3, Zenon DEF TextJoins
<1>7. Formats!Parse[<<b, s>>] = Formats!Parse[<<c, v>>]
  <2>1. (OpenAt(s) = 0) = (OpenAt(v) = 0) /\ BehindOpen(s) = BehindOpen(v)
    BY <1>5, Zenon DEF CutsBehind
  <2> QED BY <1>4, <1>6, <2>1, Zenon DEF Parses
<1>8. ScanFrom(Formats!Parse, b, x, t) = Formats!Parse[<<c, v>>]
  <2>1. Formats!Drop(t, 1) = v
    BY <1>3, DropOne, Zenon DEF Texts
  <2> QED BY <1>1, <2>1, Zenon DEF ScanFrom, Doubles
<1> QED BY <1>7, <1>8, Zenon DEF ParsesFirst

LEMMA ParsesClosing ==
  ASSUME NEW b \in Texts, NEW s, NEW x \in Formats!Token, NEW t \in Texts,
         FirstIs(Formats!Token, s, x, t), x = "}", ~Formats!Begins(t, <<"}">>)
  PROVE  ParsesFirst(b, s, x, t)
<1>1. s \in Texts /\ x # "{"
  BY TokensAre, Zenon DEF FirstIs, Texts
<1>2. Parses(b, s)
  BY <1>1, ParsesCut, Zenon
<1>3. CutsBehind(s, x, t)
  BY <1>1, OpensBehind, Zenon
<1>4. Formats!Text(b, BeforeOpen(s)) = Formats!BadText
  <2>1. BeforeOpen(t) \in Texts
    BY CutsAtOpen, Zenon DEF CutAtOpen
  <2>2. ~Formats!Begins(BeforeOpen(t), <<"}">>)
    BY BeginsNotBefore, Zenon
  <2>3. FirstIs(Formats!Token, BeforeOpen(s), "}", BeforeOpen(t))
    BY <1>3, Zenon DEF CutsBehind
  <2> QED BY <2>1, <2>2, <2>3, TextOfBad, Zenon
<1>5. Formats!Parse[<<b, s>>] = Formats!Error
  BY <1>2, <1>4, Zenon DEF Parses, ParseFrom
<1>6. ScanFrom(Formats!Parse, b, x, t) = Formats!Error
  BY <1>1, Zenon DEF ScanFrom, Doubles
<1> QED BY <1>5, <1>6, Zenon DEF ParsesFirst

LEMMA DoubledOpensNone ==
  ASSUME NEW t \in Texts, Formats!Begins(t, <<"{">>)
  PROVE  Formats!Opened(t) = 0
<1>1. t # << >> /\ t[1] = "{"
  BY BeginsOne, TokensAre, Zenon DEF Texts
<1>2. PICK y \in Formats!Token, w \in Texts : FirstIs(Formats!Token, t, y, w)
  BY <1>1, Begins1, Zenon DEF Texts
<1>3. y = "{"
  BY <1>1, <1>2, Zenon DEF FirstIs
<1>4. BeginsBoth(t, y, w, "D", "}") /\ BeginsBoth(t, y, w, "W", "}")
  BY <1>2, BeginsTwo, TokensAre, Zenon DEF Texts
<1>5. ~Formats!Begins(t, <<"D", "}">>) /\ ~Formats!Begins(t, <<"W", "}">>)
  BY <1>3, <1>4, TokensAre, Zenon DEF BeginsBoth
<1>6. ~Formats!Begins(t, <<"}">>)
  BY <1>1, BeginsOne, TokensAre, Zenon DEF Texts
<1> QED BY <1>5, <1>6, Zenon DEF Formats!Opened

LEMMA ParsesOpening ==
  ASSUME NEW b \in Texts, NEW s, NEW x \in Formats!Token, NEW t \in Texts,
         FirstIs(Formats!Token, s, x, t), x = "{"
  PROVE  ParsesFirst(b, s, x, t)
<1>1. s \in Texts /\ x # "}" /\ FirstIs(Formats!Token, s, "{", t)
  BY TokensAre, Zenon DEF FirstIs, Texts
<1>2. OpenAt(s) # 0 /\ BeforeOpen(s) = << >> /\ BehindOpen(s) = t
  BY <1>1, OpensHere, Zenon
<1>3. Formats!Text(b, << >>) = b /\ b # Formats!BadText
  BY TextOfNone, NoneIsBad, Zenon
<1>4. Formats!Parse[<<b, s>>] = ParseFrom(Formats!Parse, b, FALSE, t)
  <2>1. Parses(b, s)
    BY <1>1, ParsesCut, Zenon
  <2>2. (OpenAt(s) = 0) = FALSE
    BY <1>2, Zenon
  <2> QED BY <1>2, <1>3, <2>1, <2>2, Zenon DEF Parses
<1>5. CASE Formats!Begins(t, <<"{">>)
  <2>1. ~(Formats!Opened(t) > 0)
    <3>1. Formats!Opened(t) = 0
      BY <1>5, DoubledOpensNone, Zenon
    <3> QED BY <3>1, OneIsNotNone, Zenon
  <2>2. ParseFrom(Formats!Parse, b, FALSE, t)
          = Formats!Parse[<<b \o <<"{">>, Formats!Drop(t, 1)>>]
    BY <1>3, <1>5, <2>1, Zenon DEF ParseFrom
  <2>3. ScanFrom(Formats!Parse, b, x, t)
          = Formats!Parse[<<b \o <<"{">>, Formats!Drop(t, 1)>>]
    BY <1>5, Zenon DEF ScanFrom, Doubles
  <2> QED BY <1>4, <2>2, <2>3, Zenon DEF ParsesFirst
<1>6. CASE ~Formats!Begins(t, <<"{">>) /\ Formats!Opened(t) = 0
  <2>1. ~(Formats!Opened(t) > 0)
    BY <1>6, OneIsNotNone, Zenon
  <2>2. ParseFrom(Formats!Parse, b, FALSE, t) = Formats!Error
    BY <1>3, <1>6, <2>1, Zenon DEF ParseFrom
  <2>3. ScanFrom(Formats!Parse, b, x, t) = Formats!Error
    BY <1>1, <1>6, Zenon DEF ScanFrom, Doubles
  <2> QED BY <1>4, <2>2, <2>3, Zenon DEF ParsesFirst
<1>7. CASE ~Formats!Begins(t, <<"{">>) /\ Formats!Opened(t) # 0
  <2>1. Formats!Opened(t) > 0
    BY <1>7, OpenedInside, Zenon DEF OpenedIs
  <2>2. PICK y : y = Formats!Then(Formats!Piece(b) \o <<Formats!Spec1(t[1])>>,
                   Formats!Parse[<< << >>, Formats!Drop(t, Formats!Opened(t))>>])
    OBVIOUS
  <2>3. ParseFrom(Formats!Parse, b, FALSE, t) = y
    BY <1>3, <1>7, <2>1, <2>2, Zenon DEF ParseFrom
  <2>4. ScanFrom(Formats!Parse, b, x, t) = y
    BY <1>1, <1>7, <2>2, Zenon DEF ScanFrom, Doubles
  <2> QED BY <1>4, <2>3, <2>4, Zenon DEF ParsesFirst
<1> QED BY <1>5, <1>6, <1>7, Zenon

LEMMA ParsesByFirst ==
  ASSUME NEW b \in Texts, NEW s, NEW x \in Formats!Token, NEW t \in Texts,
         FirstIs(Formats!Token, s, x, t)
  PROVE  ParsesFirst(b, s, x, t)
BY ParsesOther, ParsesEscaped, ParsesClosing, ParsesOpening, Zenon

-----------------------------------------------------------------------------
(* Parse and Scan are the same function.                                   *)
Same(b, s) == Formats!Parse[<<b, s>>] = Formats!Scan[<<b, s>>]

LEMMA SameNext ==
  ASSUME NEW b \in Texts, NEW s \in Texts, AgreeBelow(Formats!Parse, Formats!Scan, s)
  PROVE  Same(b, s)
<1>1. PICK p \in Ahead : p = <<b, s>>
  BY InAhead, Zenon
<1>2. Formats!Scan[p] = ScanBody(Formats!Scan, p)
  BY <1>1, ScanIs, Zenon
<1>3. CASE s = << >>
  <2>1. Formats!Parse[<<b, << >> >>] = Formats!Piece(b)
    BY ParsesNothing, Zenon
  <2>2. ScansNone(Formats!Scan, b)
    BY ScansNothing, Zenon
  <2> QED BY <1>1, <1>2, <1>3, <2>1, <2>2, Zenon DEF Same, ScansNone
<1>4. CASE s # << >>
  <2>1. PICK x \in Formats!Token, t \in Texts : FirstIs(Formats!Token, s, x, t)
    BY <1>4, Begins1, Zenon DEF Texts
  <2>2. ParsesFirst(b, s, x, t)
    BY <2>1, ParsesByFirst, Zenon
  <2>3. ScansFrom(Formats!Scan, b, s, x, t)
    BY <2>1, ScansFirst, Zenon
  <2>4. ScanFromGrows(Formats!Parse, b, s, x, t)
    BY <2>1, ParseIs, ScanGrowsFrom, Zenon
  <2> QED BY <1>1, <1>2, <2>2, <2>3, <2>4, Zenon
           DEF Same, ParsesFirst, ScansFrom, ScanFromGrows
<1> QED BY <1>3, <1>4

LEMMA NotAtMost ==
  ASSUME NEW i \in Nat, NEW j \in Nat, i < j
  PROVE  ~(j <= i)
OBVIOUS

LEMMA SameAlways ==
  ASSUME NEW b \in Texts, NEW s \in Texts
  PROVE  Same(b, s)
<1>1. PICK r \in [Ahead -> Nat] : \A p \in Ahead : r[p] = Len(p[2])
  BY LengthAhead, Zenon
<1>2. PICK M \in SUBSET Nat :
        M = {k \in Nat : \E p \in Ahead : r[p] = k /\ Formats!Parse[p] # Formats!Scan[p]}
  OBVIOUS
<1>3. SUFFICES ASSUME ~Same(b, s)
               PROVE  FALSE
  OBVIOUS
<1>4. PICK p0 \in Ahead : p0 = <<b, s>>
  BY InAhead, Zenon
<1>5. r[p0] \in M
  <2>1. Formats!Parse[p0] # Formats!Scan[p0]
    BY <1>3, <1>4, Zenon DEF Same
  <2>2. r[p0] \in Nat
    BY <1>4, Zenon
  <2> QED BY <1>2, <1>4, <2>1, <2>2, Zenon
<1>6. PICK k \in M : \A j \in M : k <= j
  BY <1>5, LeastNat, Zenon
<1>7. PICK p \in Ahead : r[p] = k /\ Formats!Parse[p] # Formats!Scan[p]
  BY <1>2, <1>6, Zenon
<1>8. PICK c \in Texts, t \in Texts : p = <<c, t>> /\ p[2] = t
  BY <1>7, AheadIs, Zenon
<1>9. AgreeBelow(Formats!Parse, Formats!Scan, t)
  <2> SUFFICES ASSUME NEW q \in Ahead, Len(q[2]) < Len(t)
               PROVE  Formats!Parse[q] = Formats!Scan[q]
    BY Zenon DEF AgreeBelow
  <2>1. r[q] \in Nat /\ r[p] \in Nat /\ r[q] < r[p]
    <3>1. r[q] < r[p]
      BY <1>1, <1>7, <1>8, Zenon
    <3> QED BY <1>7, <3>1, Zenon
  <2>2. ~(k <= r[q])
    BY <1>7, <2>1, NotAtMost, Zenon
  <2> QED BY <1>2, <1>6, <2>1, <2>2, Zenon
<1>10. Same(c, t)
  BY <1>8, <1>9, SameNext, Zenon
<1> QED BY <1>7, <1>8, <1>10, Zenon DEF Same

-----------------------------------------------------------------------------
LEMMA FunctionIsText ==
  ASSUME NEW n \in Nat, NEW s \in [1..n -> Formats!Token]
  PROVE  s \in Texts
BY DEF Texts

LEMMA FormatsBegin ==
  ASSUME Formats!Init
  PROVE  app \in Texts
<1>1. MaxTokens \in Nat
  BY LibraryAssumption DEF LibraryAssumption, Formats!TokensAssumption
<1>2. PICK n \in 0..MaxTokens : app \in [1..n -> Formats!Token]
  BY Zenon DEF Formats!Init
<1>3. n \in Nat
  BY <1>1, <1>2
<1> QED BY <1>2, <1>3, FunctionIsText, Zenon

(* How a format string is read does not depend on how the macro cuts it.   *)
LEMMA FormatsRead ==
  ASSUME app \in Texts
  PROVE  Formats!FormatIsRead
<1>1. << >> \in Texts
  BY EmptySeq, Zenon DEF Texts
<1>2. Same(<< >>, app)
  BY <1>1, SameAlways, Zenon
<1> QED BY <1>2, Zenon DEF Same, Formats!FormatIsRead

TextInv ==
    /\ part = "format" => app \in Texts
    /\ part = "lines" => LinesInv

LEMMA TextStarts ==
  ASSUME Init
  PROVE  TextInv
<1>1. ASSUME part = "format"
      PROVE  app \in Texts
  <2>1. Formats!Init
    BY <1>1 DEF Init
  <2> QED BY <2>1, FormatsBegin, Zenon
<1>2. ASSUME part = "lines"
      PROVE  LinesInv
  <2>1. Lines!Init
    BY <1>2 DEF Init
  <2> QED BY <2>1, LinesInit, Zenon
<1> QED BY <1>1, <1>2, Zenon DEF TextInv

LEMMA LinesUnchanged ==
  ASSUME LinesInv, UNCHANGED app
  PROVE  LinesInv'
BY Zenon DEF LinesInv, LinesFields, LinesTyped, LinesPlace, LinesOrder, Written, Coming

LEMMA TextNext ==
  ASSUME TextInv, [Next]_vars
  PROVE  TextInv'
<1>1. part' = part
  BY DEF Next, vars, RingNext, PinsNext, StepperNext, FakeNext, FormatterNext, LinesNext,
         SensorNext, DeviceNext
<1>2. CASE part = "format"
  <2>1. app' = app
    BY <1>2 DEF Next, vars, RingNext, PinsNext, StepperNext, FakeNext, FormatterNext,
         LinesNext, SensorNext, DeviceNext
  <2>2. app \in Texts
    BY <1>2, Zenon DEF TextInv
  <2>3. app' \in Texts /\ part' # "lines"
    BY <1>1, <1>2, <2>1, <2>2
  <2> QED BY <2>3, Zenon DEF TextInv, Texts, Formats!Token
<1>3. CASE part = "lines"
  <2>1. Lines!Next \/ UNCHANGED app
    BY <1>3 DEF Next, vars, RingNext, PinsNext, StepperNext, FakeNext, FormatterNext,
         LinesNext, SensorNext, DeviceNext
  <2>2. LinesInv
    BY <1>3, Zenon DEF TextInv
  <2>3. LinesInv'
    BY <2>1, <2>2, LinesStep, LinesUnchanged, Zenon
  <2>4. part' # "format"
    BY <1>1, <1>3
  <2> QED BY <2>3, <2>4, Zenon DEF TextInv
<1>4. CASE part # "format" /\ part # "lines"
  <2>1. part' # "format" /\ part' # "lines"
    BY <1>1, <1>4
  <2> QED BY <2>1, Zenon DEF TextInv
<1> QED BY <1>2, <1>3, <1>4

(* For every format string of the tokens and every sequence of writes and  *)
(* failures: parse and unescape read what a reading from left to right     *)
(* finds (ufmt/macros/src/lib.rs), and LineBuffered hands on what was      *)
(* written, in order, at most once, and all of it until a write fails      *)
(* (ufmt/utils/src/lib.rs).                                                *)
THEOREM TextStaysKept == Spec => []TextIsKept
<1>1. Init => TextInv
  BY TextStarts
<1>2. TextInv /\ [Next]_vars => TextInv'
  BY TextNext
<1>3. TextInv => TextIsKept
  BY FormatsRead, LinesInOrder, Zenon DEF TextInv, TextIsKept
<1> QED BY <1>1, <1>2, <1>3, PTL DEF Spec
=============================================================================
