------------------------------ MODULE Settings ------------------------------
(***************************************************************************)
(* What a process sets in a driver and reads back from it: the radio, the  *)
(* bus of the SPI controller, the screen and the LEDs, each API with its   *)
(* fake driver.  A setter packs its value into the two arguments of a      *)
(* command, the driver keeps what it makes of them, and a getter unpacks   *)
(* the word it answers with.  One behaviour is of one device.              *)
(***************************************************************************)
EXTENDS Integers

CONSTANTS Byte, Half, Word,   (* 2^8, 2^16 and 2^32                         *)
          Rates, Steps,       (* bit rates asked for, and dividers in steps *)
          Degrees, FormatCount, LedCount  (* 360, pixel formats, LEDs     *)

SettingsAssumption ==
    /\ {Byte, Half, Word, Degrees, FormatCount, LedCount} \subseteq Nat \ {0}
    /\ 2 <= Byte /\ Byte < Half /\ Half < Word /\ Word % Byte = 0
    /\ Degrees <= Half /\ FormatCount <= Half
    /\ Rates \subseteq 1 .. Word - 1 /\ Steps \subseteq 0 .. Word - 1

VARIABLE app

Is(k) == app.device = k
Signed(w, m) == IF w < m \div 2 THEN w ELSE w - m

-----------------------------------------------------------------------------
(* The radio.  A signed power travels as a word, addresses are answered    *)
(* one higher than they are, and the long address takes both arguments.    *)
RadioInit == [short |-> 0, pan |-> 0, channel |-> 0, power |-> 0, long |-> 0, on |-> FALSE]
RadioAsks ==
    [short |-> {0, Half - 1}, pan |-> {0, Half - 1}, channel |-> {0, Byte - 1},
     power |-> {-1, 0, Byte \div 2 - 1}, long |-> {0, Word - 1, Word, Word * Word - 1},
     on |-> BOOLEAN]
RadioArgs(s, v) == CASE s = "power" -> <<v % Word, 0>>
                     [] s = "long" -> <<v % Word, v \div Word>>
                     [] OTHER -> <<v, 0>>
RadioKeeps(s, a) == CASE s = "power" -> Signed(a[1], Word)
                      [] s = "long" -> a[1] + a[2] * Word
                      [] OTHER -> a[1]
RadioAnswers(s, x) == CASE s \in {"short", "pan"} -> x + 1
                        [] s = "power" -> x % Word
                        [] OTHER -> x
(* RadioReadsPlain is wrong on purpose: it takes the word for the power.   *)
RadioReadsPlain(s, w) == IF s \in {"short", "pan"} THEN (w - 1) % Half ELSE w
RadioReads(s, w) == CASE s \in {"short", "pan"} -> (w - 1) % Half
                      [] s = "channel" -> w % Byte
                      [] s = "power" -> Signed(w % Byte, Byte)
                      [] OTHER -> w

-----------------------------------------------------------------------------
(* The SPI controller's bus: the driver rounds the rate down to what its   *)
(* divider can give, and takes anything but zero as one.                   *)
SpiInit == [rate |-> 1, phase |-> "leading", polarity |-> "low"]
SpiAsks == [rate |-> Rates, phase |-> {"leading", "trailing"}, polarity |-> {"low", "high"}]
SpiArgs(s, v) == IF s = "rate" THEN <<v, 0>>
                 ELSE <<IF v \in {"leading", "low"} THEN 0 ELSE 1, 0>>
SpiKeeps(s, a) == IF s = "rate" THEN (a[1] \div app.step) * app.step
                  ELSE IF a[1] # 0 THEN 1 ELSE 0
SpiReads(s, w) == CASE s = "rate" -> w
                    [] s = "phase" -> IF w = 0 THEN "leading" ELSE "trailing"
                    [] s = "polarity" -> IF w = 0 THEN "low" ELSE "high"

-----------------------------------------------------------------------------
(* The screen: a rotation below a full turn, one of its pixel formats, a   *)
(* width and a height.  Its setters wait for an upcall, which the fake     *)
(* queues before it answers: SyncCall has what can come between.           *)
ScreenInit == [rotation |-> 0, format |-> 0, resolution |-> <<0, 0>>]
ScreenAsks ==
    [rotation |-> {0, Degrees - 1, Degrees}, format |-> {0, FormatCount - 1, FormatCount},
     resolution |-> {0, Half - 1} \X {0, Half - 1}]
ScreenArgs(s, v) == IF s = "resolution" THEN v ELSE <<v, 0>>
ScreenRefuses(s, a) == \/ s = "rotation" /\ a[1] > Degrees - 1
                       \/ s = "format" /\ a[1] >= FormatCount
ScreenKeeps(s, a) == CASE s = "resolution" -> <<a[1] % Half, a[2] % Half>>
                       [] s = "rotation" -> a[1] % Half
                       [] OTHER -> a[1]

(* The LEDs, by number, one of them not on the board.                      *)
LedsInit == [l \in 0..LedCount |-> FALSE]
LedsAsks == [l \in 0..LedCount |-> {"on", "off", "toggle"}]
LedsRefuses(l) == l >= LedCount
LedsKeeps(l, how) == CASE how = "on" -> TRUE [] how = "off" -> FALSE
                       [] how = "toggle" -> ~app.kept[l]

-----------------------------------------------------------------------------
Asks == CASE Is("radio") -> RadioAsks [] Is("spi") -> SpiAsks
          [] Is("screen") -> ScreenAsks [] Is("leds") -> LedsAsks

Refuses(s, v) ==
    \/ Is("screen") /\ ScreenRefuses(s, ScreenArgs(s, v))
    \/ Is("leds") /\ LedsRefuses(s)

Keeps(s, v) ==
    CASE Is("radio") -> RadioKeeps(s, RadioArgs(s, v))
      [] Is("spi") -> SpiKeeps(s, SpiArgs(s, v))
      [] Is("screen") -> ScreenKeeps(s, ScreenArgs(s, v))
      [] Is("leds") -> LedsKeeps(s, v)

Reads(s) ==
    CASE Is("radio") -> RadioReads(s, RadioAnswers(s, app.kept[s]))
      [] Is("spi") -> SpiReads(s, app.kept[s])
      [] OTHER -> app.kept[s]

Begins(d, values) == [device |-> d, kept |-> values, asked |-> values, step |-> 1, got |-> {}]

Init ==
    \/ app = Begins("radio", RadioInit)
    \/ app = [Begins("spi", SpiInit) EXCEPT !.kept = [rate |-> 1, phase |-> 0, polarity |-> 0],
                                            !.asked.rate = <<1, 1>>]
    \/ app = Begins("screen", ScreenInit)
    \/ app = Begins("leds", LedsInit)

(* A setter, or a call of it that is refused and changes nothing.  `asked' *)
(* is what the process believes: a rate with the divider of that time.     *)
Believed(s, v) ==
    CASE Is("spi") /\ s = "rate" -> <<v, app.step>>
      [] Is("leds") -> IF v = "toggle" THEN ~app.asked[s] ELSE v = "on"
      [] OTHER -> v

set ==
    \E s \in DOMAIN app.kept : \E v \in Asks[s] :
       IF Refuses(s, v) THEN app' = [app EXCEPT !.got = {}]
       ELSE app' = [app EXCEPT !.kept[s] = Keeps(s, v), !.asked[s] = Believed(s, v), !.got = {}]

get == \E s \in DOMAIN app.kept : app' = [app EXCEPT !.got = {[of |-> s, value |-> Reads(s)]}]

set_rate_step ==
    Is("spi") /\ \E n \in Steps : app' = [app EXCEPT !.step = IF n < 1 THEN 1 ELSE n, !.got = {}]

Next == set \/ get \/ set_rate_step

-----------------------------------------------------------------------------
(* A getter returns what its own setter was last asked for and did not     *)
(* refuse, sign and width included, whatever else was set in between; the  *)
(* rate is one the divider of that time can give, the next below the one   *)
(* asked for.                                                              *)
SettingIsKept ==
    \A g \in app.got :
       LET asked == app.asked[g.of] IN
       IF Is("spi") /\ g.of = "rate"
       THEN g.value % asked[2] = 0 /\ g.value \in asked[1] - asked[2] + 1 .. asked[1]
       ELSE g.value = asked
=============================================================================
