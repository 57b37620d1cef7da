------------------------------ MODULE AlarmTime ------------------------------
(***************************************************************************)
(* The arithmetic of the alarm API, on words that wrap or saturate at      *)
(* MaxWord and with Thousand for the milliseconds of a second.             *)
(***************************************************************************)
EXTENDS Integers

CONSTANTS MaxWord,  (* u32::MAX                                             *)
          Thousand  (* 1000                                                 *)

AlarmAssumption == MaxWord \in Nat /\ Thousand \in Nat \ {0}

VARIABLE app

U32 == 0..MaxWord

(* A time to sleep or a count of ticks, and the frequency of the alarm:    *)
(* every state is an initial one.                                          *)
Init == \E t, f \in U32 : app = [time |-> t, freq |-> f]
Spec == Init /\ [][UNCHANGED app]_app

-----------------------------------------------------------------------------
saturating_mul(a, b) == IF a * b > MaxWord THEN MaxWord ELSE a * b

(* DivDown is wrong on purpose: it rounds down.                            *)
DivDown(a, b) == a \div b
div_ceil(a, b) == a \div b + (IF a % b = 0 THEN 0 ELSE 1)

to_ticks(ms, freq) == div_ceil(saturating_mul(ms, freq), Thousand)

(* The division by a whole number of ticks a millisecond: none of them     *)
(* when the alarm is slower than that, and the division panics.            *)
get_milliseconds(ticks, freq) == ticks \div (freq \div Thousand)

-----------------------------------------------------------------------------
(* A sleep is never shorter than asked, and less than a tick longer, while *)
(* the product fits a word; and the clock never runs slow, but for the     *)
(* part of a millisecond that it does not show.                            *)
TimeIsKept ==
    /\ app.time * app.freq <= MaxWord =>
          LET ticks == to_ticks(app.time, app.freq) IN
          /\ ticks * Thousand >= app.time * app.freq
          /\ (ticks - 1) * Thousand < app.time * app.freq
    /\ app.freq >= Thousand =>
          (get_milliseconds(app.time, app.freq) + 1) * app.freq > app.time * Thousand

(* What to_ticks says of its saturation: it tops out at about an hour at   *)
(* 1 MHz, which is the longest time a word of ticks holds.                 *)
TopsOutAtTheLongest ==
    app.time * app.freq <= MaxWord * Thousand
       => to_ticks(app.time, app.freq) * Thousand >= app.time * app.freq
=============================================================================
