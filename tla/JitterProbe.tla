---------------------------- MODULE JitterProbe ----------------------------
(***************************************************************************)
(* jitter_probe.rs: how late a periodic task wakes.  Wake n is due at      *)
(* t0 + n * period of the driver's counter, which wraps; the lateness is   *)
(* the signed difference of the counter read after the wake, and it is     *)
(* counted by powers of two.  `time' is the time that does not wrap.       *)
(***************************************************************************)
EXTENDS Integers, Sequences, FiniteSetsExt

CONSTANTS Ticks,        (* 2^32: where the counter wraps                     *)
          Start,        (* what the counter may show when the program starts *)
          Period, Samples, Buckets,
          PerMicro,     (* ticks of a microsecond                            *)
          MaxLate       (* bound on how late one wake is                     *)

(* A deadline fits the counter, and no lateness reaches half of it.        *)
JitterAssumption ==
    /\ {Ticks, Period, Samples, Buckets, PerMicro, MaxLate} \subseteq Nat \ {0}
    /\ Start \subseteq 0 .. Ticks - 1
    /\ Period * Samples < Ticks /\ Samples * MaxLate < Ticks \div 2

VARIABLE app

At(l) == app.at = l
Counter(time) == time % Ticks
Signed(w) == IF w < Ticks \div 2 THEN w ELSE w - Ticks
(* A division of the code goes towards zero.                               *)
Towards0(x) == IF x < 0 THEN -((-x) \div PerMicro) ELSE x \div PerMicro
Abs(x) == IF x < 0 THEN -x ELSE x

(* Nothing late is bucket 0, and bucket i begins at 2^(i - 1).             *)
From(i) == IF i = 0 THEN 0 ELSE 2 ^ (i - 1)
bucket(us) == Max({i \in 0 .. Buckets - 1 : From(i) <= us})

Init ==
    \E time \in Start :
       app = [at |-> "start", time |-> time, began |-> time, t0 |-> 0, n |-> 0,
              hist |-> [i \in 0 .. Buckets - 1 |-> 0], least |-> << >>, most |-> << >>,
              early |-> 0, errors |-> 0, seen |-> << >>]

(* The frequency, or the counter, may fail to be read.                     *)
Begin ==
    /\ At("start")
    /\ \/ app' = [app EXCEPT !.at = "over"]
       \/ app' = [app EXCEPT !.at = "sleep", !.t0 = Counter(app.time), !.n = 1]

(* The kernel's alarm fires once the counter is no longer between the      *)
(* reference and the deadline, at once when that has passed; the process   *)
(* runs some time after it.  The hardware's clock may be one tick early.   *)
Due(n) == app.began + n * Period
sleep_until ==
    /\ At("sleep")
    /\ \E late \in -1..MaxLate :
          LET woken == IF app.time >= Due(app.n) THEN app.time + (IF late < 0 THEN 0 ELSE late)
                       ELSE Due(app.n) + late
          IN app' = [app EXCEPT !.at = "read", !.time = woken]

(* A sample is lost when the alarm, or the counter, fails.                 *)
Fails ==
    /\ At("sleep") \/ At("read")
    /\ app' = [app EXCEPT !.errors = @ + 1, !.n = @ + 1,
                          !.at = IF app.n = Samples THEN "over" ELSE "sleep"]

(* ExpectedLate is wrong on purpose: a relative deadline moves with every  *)
(* late wake.                                                              *)
ExpectedLate(n) == IF app.seen = << >> THEN Counter(app.t0 + Period)
                   ELSE Counter(app.seen[Len(app.seen)].woken + Period)
Expected(n) == Counter(app.t0 + Counter(Period * n))

Farther(best, e, beyond) == IF best = << >> \/ beyond THEN <<e, app.n>> ELSE best

Sample ==
    /\ At("read")
    /\ LET e == Towards0(Signed((Counter(app.time) - Expected(app.n)) % Ticks)) IN
       app' = [app EXCEPT
          !.hist[bucket(Abs(e))] = @ + 1,
          !.least = Farther(@, e, @ # << >> /\ e < @[1]),
          !.most = Farther(@, e, @ # << >> /\ e > @[1]),
          !.early = IF e < 0 THEN @ + 1 ELSE @,
          !.seen = Append(@, [n |-> app.n, late |-> app.time - Due(app.n), woken |-> app.time]),
          !.n = @ + 1, !.at = IF app.n = Samples THEN "over" ELSE "sleep"]

Next == Begin \/ sleep_until \/ Fails \/ Sample

-----------------------------------------------------------------------------
(* What is reported is of the true lateness, wherever the counter wrapped: *)
(* every sample is counted once or lost to an error, in the bucket of its  *)
(* size; the extremes are samples, at the number said; and one wake that   *)
(* is late does not make the next look punctual.                           *)
LatenessIsTrue ==
    LET of(s) == Towards0(s.late)
        samples == {app.seen[i] : i \in 1..Len(app.seen)}
    IN /\ \A i \in 0 .. Buckets - 1 :
             app.hist[i] = Cardinality({s \in samples : bucket(Abs(of(s))) = i})
       /\ app.early = Cardinality({s \in samples : of(s) < 0})
       /\ At("over") /\ app.n > 0 => Len(app.seen) + app.errors = Samples
       /\ samples # {} =>
             /\ \A s \in samples : app.least[1] <= of(s) /\ of(s) <= app.most[1]
             /\ \A b \in {app.least, app.most} : \E s \in samples : s.n = b[2] /\ of(s) = b[1]
=============================================================================
