------------------------- MODULE Programs_proofs -------------------------
(***************************************************************************)
(* What the programs keep, for every value of their parameters: the stick  *)
(* doom.rs reads and the frames it shows, what the wifi examples conclude, *)
(* the brake of the throttle programs, the lines of the screen probe, the  *)
(* glass and the revs of the manual gearbox, what the test harness, the    *)
(* beepers and the jitter probe report, what the runner prints, and what   *)
(* the raw radio receiver reads.                                           *)
(* Each part has an invariant of its own, a lemma for each of its actions, *)
(* and the steps of the other parts leave its variable alone.              *)
(***************************************************************************)
EXTENDS MCPrograms, FiniteSetTheorems, SequenceTheorems, WellFoundedInduction, TLAPS

-----------------------------------------------------------------------------
(***************************************************************************)
(* The throttle programs.  What was last seen of stick and brake decides   *)
(* whether the throttle may be asked to open.                              *)
(***************************************************************************)
ThrottleTyped ==
    /\ DOMAIN throttle = {"program", "at", "raw", "braking", "ever_at_rest", "locked_out",
                          "calibrated", "since", "wheel_on", "wheel", "preflight", "step",
                          "armed", "target", "actual", "quiet", "refused"}
    /\ throttle.since \in {"start", "rest", "lost", "brake"}
    /\ throttle.wheel_on \in BOOLEAN /\ throttle.wheel \in BOOLEAN
    /\ throttle.braking \in BOOLEAN /\ throttle.locked_out \in BOOLEAN
    /\ throttle.ever_at_rest \in BOOLEAN /\ throttle.refused \in BOOLEAN
    /\ throttle.at = "probe" => throttle.program = "throttle_probe"

SinceIsKept ==
    /\ throttle.since = "start" => ~throttle.ever_at_rest
    /\ throttle.since = "brake" => throttle.locked_out
    /\ throttle.since = "lost" => Throttle!Dash

WheelInv ==
    /\ throttle.at = "preflight" => ~throttle.wheel_on
    /\ Throttle!WheelIsKnown

ThrottleInv == ThrottleTyped /\ SinceIsKept /\ Throttle!BrakeHolds /\ WheelInv

(* The preflight leaves the wheel off or says that it left it on.          *)
LEMMA PreflightKept ==
  ASSUME ThrottleInv, Throttle!Preflight
  PROVE  ThrottleInv'
<1>0. ThrottleTyped /\ SinceIsKept /\ Throttle!BrakeHolds /\ WheelInv
  BY DEF ThrottleInv
<1>1. PICK started \in BOOLEAN, stopped \in BOOLEAN :
         Throttle!Set([at |-> "arm", wheel |-> started /\ ~stopped,
                 preflight |-> IF started /\ ~stopped THEN "left on" ELSE "done"])
  BY DEF Throttle!Preflight
<1>2. /\ throttle.at = "preflight" /\ throttle'.at = "arm"
      /\ throttle'.wheel = (started /\ ~stopped)
      /\ throttle'.preflight = IF started /\ ~stopped THEN "left on" ELSE "done"
  BY <1>0, <1>1 DEF ThrottleTyped, Throttle!Preflight, Throttle!At, Throttle!Set
<1>3. /\ DOMAIN throttle' = DOMAIN throttle
      /\ \A x \in DOMAIN throttle \ {"at", "wheel", "preflight"} : throttle'[x] = throttle[x]
  BY <1>1 DEF Throttle!Set
<1>4. ThrottleTyped'
  BY <1>0, <1>2, <1>3 DEF ThrottleTyped
<1>5. SinceIsKept' /\ Throttle!BrakeHolds'
  BY <1>0, <1>2, <1>3 DEF ThrottleTyped, SinceIsKept, Throttle!BrakeHolds, Throttle!Dash
<1>6. WheelInv'
  BY <1>0, <1>2, <1>3 DEF ThrottleTyped, WheelInv, Throttle!WheelIsKnown, Throttle!Dash
<1> QED BY <1>4, <1>5, <1>6 DEF ThrottleInv

(* A step that touches neither what was seen nor what was asked.           *)
LEMMA SeenKept ==
  ASSUME ThrottleInv, DOMAIN throttle' = DOMAIN throttle,
         \/ throttle'.at = throttle.at
         \/ throttle.at \notin {"preflight", "brake", "ask"} /\ throttle'.at # "preflight",
         \A x \in {"program", "braking", "ever_at_rest", "locked_out", "since", "wheel_on",
                   "wheel", "preflight", "refused"} : throttle'[x] = throttle[x],
         throttle'.target \in {0, throttle.target},
         throttle'.at = "probe" => throttle.program = "throttle_probe"
  PROVE  ThrottleInv'
<1>0. ThrottleTyped /\ SinceIsKept /\ Throttle!BrakeHolds /\ WheelInv
  BY DEF ThrottleInv
<1>1. ThrottleTyped'
  BY <1>0 DEF ThrottleTyped
<1>2. SinceIsKept'
  BY <1>0 DEF SinceIsKept, Throttle!Dash
<1>3. WheelInv'
  BY <1>0 DEF WheelInv, Throttle!WheelIsKnown, Throttle!Dash
<1>4. Throttle!BrakeHolds'
  BY <1>0 DEF Throttle!BrakeHolds, Throttle!Dash
<1> QED BY <1>1, <1>2, <1>3, <1>4 DEF ThrottleInv

(* What Set changes is what it names.                                      *)
LEMMA SetDoes ==
  ASSUME NEW f, Throttle!Set(f)
  PROVE  /\ DOMAIN throttle' = DOMAIN throttle
         /\ \A x \in DOMAIN throttle \cap DOMAIN f : throttle'[x] = f[x]
         /\ \A x \in DOMAIN throttle \ DOMAIN f : throttle'[x] = throttle[x]
BY DEF Throttle!Set

(* A request is accepted and sets the target, or is refused and sets       *)
(* nothing.                                                                *)
LEMMA CommandDoes ==
  ASSUME ThrottleTyped, NEW t, NEW f, NEW g, NEW place, NEW s,
         \/ f = [at |-> place] /\ g = [step |-> s]
         \/ f = [step |-> s] /\ g = [at |-> place],
         Throttle!Command(t, f, g)
  PROVE  /\ DOMAIN throttle' = DOMAIN throttle
         /\ throttle'.at = place
         /\ \A x \in {"program", "braking", "ever_at_rest", "locked_out", "since", "wheel_on",
                      "wheel", "preflight"} : throttle'[x] = throttle[x]
         /\ \/ throttle'.target = t /\ throttle'.refused = FALSE
            \/ throttle'.target = throttle.target /\ throttle'.refused = TRUE
<1> DEFINE W == Throttle!With(f, g)
<1>1. DOMAIN W = {"at", "step"} /\ W.at = place
  <2>1. CASE f = [at |-> place] /\ g = [step |-> s]
    BY <2>1 DEF Throttle!With
  <2>2. CASE f = [step |-> s] /\ g = [at |-> place]
    BY <2>2 DEF Throttle!With
  <2> QED BY <2>1, <2>2
<1>2. CASE Throttle!Set(Throttle!With(Throttle!Accept(t), W))
  <2> DEFINE A == Throttle!With(Throttle!Accept(t), W)
  <2>1. /\ DOMAIN A = {"armed", "target", "quiet", "refused", "at", "step"}
        /\ A.at = place /\ A.target = t /\ A.refused = FALSE
    <3> HIDE DEF W
    <3> QED BY <1>1 DEF Throttle!Accept, Throttle!With
  <2> HIDE DEF A
  <2> QED BY <1>2, <2>1, SetDoes DEF ThrottleTyped, A
<1>3. CASE Throttle!Set(Throttle!With(Throttle!Refused, W))
  <2> DEFINE A == Throttle!With(Throttle!Refused, W)
  <2>1. DOMAIN A = {"refused", "at", "step"} /\ A.at = place /\ A.refused = TRUE
    <3> HIDE DEF W
    <3> QED BY <1>1 DEF Throttle!Refused, Throttle!With
  <2> HIDE DEF A
  <2> QED BY <1>3, <2>1, SetDoes DEF ThrottleTyped, A
<1> QED BY <1>2, <1>3 DEF Throttle!Command

(* A request to close the throttle, or one that may be made, keeps the     *)
(* invariant.                                                              *)
LEMMA RequestKept ==
  ASSUME ThrottleInv, NEW t, NEW f, NEW g, NEW place, NEW s,
         \/ f = [at |-> place] /\ g = [step |-> s]
         \/ f = [step |-> s] /\ g = [at |-> place],
         Throttle!Command(t, f, g), throttle.at # "preflight",
         place \notin {"preflight", "brake", "ask"},
         place = "probe" => throttle.program = "throttle_probe",
         \/ t = 0
         \/ throttle.program = "throttle_probe"
         \/ throttle.since = "rest" \/ (Throttle!Dash /\ throttle.since = "lost")
  PROVE  ThrottleInv'
<1>0. ThrottleTyped /\ SinceIsKept /\ Throttle!BrakeHolds /\ WheelInv
  BY DEF ThrottleInv
<1>c. /\ DOMAIN throttle' = DOMAIN throttle
      /\ throttle'.at = place
      /\ \A x \in {"program", "braking", "ever_at_rest", "locked_out", "since", "wheel_on",
                   "wheel", "preflight"} : throttle'[x] = throttle[x]
      /\ \/ throttle'.target = t /\ throttle'.refused = FALSE
         \/ throttle'.target = throttle.target /\ throttle'.refused = TRUE
  BY <1>0, CommandDoes
<1>1. ThrottleTyped'
  BY <1>0, <1>c DEF ThrottleTyped
<1>2. SinceIsKept'
  BY <1>0, <1>c DEF SinceIsKept, Throttle!Dash
<1>3. WheelInv'
  BY <1>0, <1>c DEF WheelInv, Throttle!WheelIsKnown, Throttle!Dash
<1>4. Throttle!BrakeHolds'
  BY <1>0, <1>c DEF Throttle!BrakeHolds, Throttle!Dash
<1> QED BY <1>1, <1>2, <1>3, <1>4 DEF ThrottleInv

(* What a place says of the program that is there.                         *)
LEMMA ArmKept ==
  ASSUME ThrottleInv, Throttle!Arm \/ Throttle!Calibrate
  PROVE  ThrottleInv'
<1>0. ThrottleTyped /\ SinceIsKept /\ Throttle!BrakeHolds /\ WheelInv
  BY DEF ThrottleInv
<1>1. CASE Throttle!Calibrate
  <2>1. PICK c \in BOOLEAN : Throttle!Set([at |-> "read", calibrated |-> c])
    BY <1>1 DEF Throttle!Calibrate
  <2>2. throttle.at = "calibrate"
    BY <1>1 DEF Throttle!Calibrate, Throttle!At
  <2>3. /\ DOMAIN throttle' = DOMAIN throttle /\ throttle'.at = "read"
        /\ \A x \in DOMAIN throttle \ {"at", "calibrated"} : throttle'[x] = throttle[x]
    BY <1>0, <2>1, SetDoes DEF ThrottleTyped
  <2> QED BY <1>0, <2>2, <2>3, SeenKept DEF ThrottleTyped
<1>2. CASE Throttle!Arm
  <2>1. throttle.at = "arm"
    BY <1>2 DEF Throttle!Arm, Throttle!At
  <2>2. PICK place \in {"calibrate", "probe", "read", "ended"} :
           /\ place = "probe" => throttle.program = "throttle_probe"
           /\ \/ Throttle!Set(Throttle!With(Throttle!Accept(0), [at |-> place]))
              \/ Throttle!Set([at |-> place])
    BY <1>2 DEF Throttle!Arm
  <2>3. CASE Throttle!Set([at |-> place])
    <3>1. /\ DOMAIN throttle' = DOMAIN throttle /\ throttle'.at = place
          /\ \A x \in DOMAIN throttle \ {"at"} : throttle'[x] = throttle[x]
      BY <1>0, <2>3, SetDoes DEF ThrottleTyped
    <3> QED BY <1>0, <2>1, <2>2, <3>1, SeenKept DEF ThrottleTyped
  <2>4. CASE Throttle!Set(Throttle!With(Throttle!Accept(0), [at |-> place]))
    <3> DEFINE A == Throttle!With(Throttle!Accept(0), [at |-> place])
    <3>1. /\ DOMAIN A = {"armed", "target", "quiet", "refused", "at"}
          /\ A.at = place /\ A.target = 0 /\ A.refused = FALSE
      BY DEF Throttle!Accept, Throttle!With
    <3>2. /\ DOMAIN throttle' = DOMAIN throttle /\ throttle'.at = place
          /\ throttle'.target = 0 /\ throttle'.refused = FALSE
          /\ \A x \in DOMAIN throttle \ {"armed", "target", "quiet", "refused", "at"} :
                throttle'[x] = throttle[x]
      <4> HIDE DEF A
      <4> QED BY <1>0, <2>4, <3>1, SetDoes DEF ThrottleTyped, A
    <3>3. ThrottleTyped' /\ SinceIsKept'
      BY <1>0, <2>2, <3>2 DEF ThrottleTyped, SinceIsKept, Throttle!Dash
    <3>4. WheelInv'
      BY <1>0, <3>2 DEF WheelInv, ThrottleTyped, Throttle!WheelIsKnown, Throttle!Dash
    <3>5. Throttle!BrakeHolds'
      BY <3>2 DEF Throttle!BrakeHolds
    <3> QED BY <3>3, <3>4, <3>5 DEF ThrottleInv
  <2> QED BY <2>2, <2>3, <2>4
<1> QED BY <1>1, <1>2

(* What a reading does, of the fields the invariant is about.              *)
LEMMA ReadDoes ==
  ASSUME ThrottleTyped, NEW raw, Throttle!Set(Throttle!Read(raw))
  PROVE  /\ DOMAIN throttle' = DOMAIN throttle /\ throttle'.at = "brake"
         /\ \A x \in DOMAIN throttle \ {"at", "raw", "ever_at_rest", "locked_out", "since"} :
               throttle'[x] = throttle[x]
         /\ \/ /\ throttle'.ever_at_rest = TRUE /\ throttle'.locked_out = FALSE
               /\ throttle'.since = "rest"
            \/ \A x \in {"ever_at_rest", "locked_out", "since"} : throttle'[x] = throttle[x]
<1>1. CASE Throttle!AtRest(raw)
  <2>1. Throttle!Read(raw) =
          Throttle!With([at |-> "brake", raw |-> raw],
                        [ever_at_rest |-> TRUE, locked_out |-> FALSE, since |-> "rest"])
    BY <1>1 DEF Throttle!Read
  <2> DEFINE A == Throttle!Read(raw)
  <2>2. /\ DOMAIN A = {"at", "raw", "ever_at_rest", "locked_out", "since"}
        /\ A.at = "brake" /\ A.ever_at_rest = TRUE /\ A.locked_out = FALSE /\ A.since = "rest"
    BY <2>1 DEF Throttle!With
  <2> HIDE DEF A
  <2> QED BY <2>2, SetDoes DEF ThrottleTyped, A
<1>2. CASE ~Throttle!AtRest(raw)
  <2>1. Throttle!Read(raw) = Throttle!With([at |-> "brake", raw |-> raw], [at |-> "brake"])
    BY <1>2 DEF Throttle!Read
  <2> DEFINE A == Throttle!Read(raw)
  <2>2. DOMAIN A = {"at", "raw"} /\ A.at = "brake"
    BY <2>1 DEF Throttle!With
  <2> HIDE DEF A
  <2> QED BY <2>2, SetDoes DEF ThrottleTyped, A
<1> QED BY <1>1, <1>2

(* A reading that succeeds is the one that may release the lockout.        *)
LEMMA ReadPedalKept ==
  ASSUME ThrottleInv, Throttle!ReadPedal
  PROVE  ThrottleInv'
<1>0. ThrottleTyped /\ SinceIsKept /\ Throttle!BrakeHolds /\ WheelInv
  BY DEF ThrottleInv
<1>1. throttle.at = "read"
  BY DEF Throttle!ReadPedal, Throttle!At
<1>2. PICK raw : \/ Throttle!Set([at |-> "ended", target |-> 0])
                 \/ Throttle!Set([at |-> "ended"])
                 \/ Throttle!Set(Throttle!Read(raw))
  BY DEF Throttle!ReadPedal
<1>3. CASE Throttle!Set([at |-> "ended", target |-> 0])
  <2>1. /\ DOMAIN throttle' = DOMAIN throttle /\ throttle'.at = "ended" /\ throttle'.target = 0
        /\ \A x \in DOMAIN throttle \ {"at", "target"} : throttle'[x] = throttle[x]
    BY <1>0, <1>3, SetDoes DEF ThrottleTyped
  <2> QED BY <1>0, <1>1, <2>1, SeenKept DEF ThrottleTyped
<1>4. CASE Throttle!Set([at |-> "ended"])
  <2>1. /\ DOMAIN throttle' = DOMAIN throttle /\ throttle'.at = "ended"
        /\ \A x \in DOMAIN throttle \ {"at"} : throttle'[x] = throttle[x]
    BY <1>0, <1>4, SetDoes DEF ThrottleTyped
  <2> QED BY <1>0, <1>1, <2>1, SeenKept DEF ThrottleTyped
<1>5. CASE Throttle!Set(Throttle!Read(raw))
  <2>1. /\ DOMAIN throttle' = DOMAIN throttle /\ throttle'.at = "brake"
        /\ \A x \in DOMAIN throttle \ {"at", "raw", "ever_at_rest", "locked_out", "since"} :
              throttle'[x] = throttle[x]
        /\ \/ /\ throttle'.ever_at_rest = TRUE /\ throttle'.locked_out = FALSE
              /\ throttle'.since = "rest"
           \/ \A x \in {"ever_at_rest", "locked_out", "since"} : throttle'[x] = throttle[x]
    BY <1>0, <1>5, ReadDoes
  <2>2. ThrottleTyped' /\ SinceIsKept'
    BY <1>0, <2>1 DEF ThrottleTyped, SinceIsKept, Throttle!Dash
  <2>3. WheelInv'
    BY <1>0, <2>1 DEF WheelInv, ThrottleTyped, Throttle!WheelIsKnown, Throttle!Dash
  <2>4. Throttle!BrakeHolds'
    BY <2>1 DEF Throttle!BrakeHolds
  <2> QED BY <2>2, <2>3, <2>4 DEF ThrottleInv
<1> QED BY <1>2, <1>3, <1>4, <1>5

(* A reading that fails releases it in the dash only.                      *)
LEMMA LosePedalKept ==
  ASSUME ThrottleInv, Throttle!LosePedal
  PROVE  ThrottleInv'
<1>0. ThrottleTyped /\ SinceIsKept /\ Throttle!BrakeHolds /\ WheelInv
  BY DEF ThrottleInv
<1>1. throttle.at = "read"
  BY DEF Throttle!LosePedal, Throttle!At
<1>2. CASE Throttle!Command(0, [at |-> "read"], [step |-> 0])
  BY <1>1, <1>2, RequestKept
<1>3. CASE /\ Throttle!Dash
           /\ Throttle!Set(Throttle!With([since |-> "lost"], Throttle!Read(Throttle!Rest)))
  <2>1. Throttle!Read(Throttle!Rest) =
          Throttle!With([at |-> "brake", raw |-> Throttle!Rest],
                        [ever_at_rest |-> TRUE, locked_out |-> FALSE, since |-> "rest"])
    BY <1>3 DEF Throttle!Read, Throttle!AtRest
  <2> DEFINE R == Throttle!Read(Throttle!Rest)
             A == Throttle!With([since |-> "lost"], R)
  <2>2. /\ DOMAIN R = {"at", "raw", "ever_at_rest", "locked_out", "since"}
        /\ R.at = "brake" /\ R.ever_at_rest = TRUE /\ R.locked_out = FALSE
    BY <2>1 DEF Throttle!With
  <2>3. /\ DOMAIN A = {"at", "raw", "ever_at_rest", "locked_out", "since"}
        /\ A.at = "brake" /\ A.ever_at_rest = TRUE /\ A.locked_out = FALSE /\ A.since = "lost"
    <3> HIDE DEF R
    <3> QED BY <2>2 DEF Throttle!With
  <2>4. /\ DOMAIN throttle' = DOMAIN throttle /\ throttle'.at = "brake"
        /\ \A x \in DOMAIN throttle \ {"at", "raw", "ever_at_rest", "locked_out", "since"} :
              throttle'[x] = throttle[x]
        /\ throttle'.ever_at_rest = TRUE /\ throttle'.locked_out = FALSE
        /\ throttle'.since = "lost"
    <3> HIDE DEF A
    <3> QED BY <1>0, <1>3, <2>3, SetDoes DEF ThrottleTyped, A
  <2>5. ThrottleTyped' /\ SinceIsKept'
    BY <1>0, <1>3, <2>4 DEF ThrottleTyped, SinceIsKept, Throttle!Dash
  <2>6. WheelInv'
    BY <1>0, <2>4 DEF WheelInv, ThrottleTyped, Throttle!WheelIsKnown, Throttle!Dash
  <2>7. Throttle!BrakeHolds'
    BY <2>4 DEF Throttle!BrakeHolds
  <2> QED BY <2>5, <2>6, <2>7 DEF ThrottleInv
<1> QED BY <1>2, <1>3 DEF Throttle!LosePedal

(* A brake that is seen locks the stick out.                               *)
LEMMA ReadBrakeKept ==
  ASSUME ThrottleInv, Throttle!ReadBrake
  PROVE  ThrottleInv'
<1>0. ThrottleTyped /\ SinceIsKept /\ Throttle!BrakeHolds /\ WheelInv
  BY DEF ThrottleInv
<1>1. PICK pressed \in BOOLEAN :
         Throttle!Set(Throttle!With([at |-> "ask", braking |-> pressed,
                                     locked_out |-> Throttle!Latch(pressed, throttle.locked_out)],
                        IF pressed THEN [since |-> "brake"] ELSE [at |-> "ask"]))
  BY DEF Throttle!ReadBrake
<1>2. PICK locked \in BOOLEAN : locked = (pressed \/ throttle.locked_out)
  BY <1>0 DEF ThrottleTyped
<1>3. locked = Throttle!Latch(pressed, throttle.locked_out)
  BY <1>0, <1>2 DEF Throttle!Latch, ThrottleTyped
<1> DEFINE A == Throttle!With([at |-> "ask", braking |-> pressed, locked_out |-> locked],
                              IF pressed THEN [since |-> "brake"] ELSE [at |-> "ask"])
<1>4. /\ {"at", "braking", "locked_out"} \subseteq DOMAIN A
      /\ DOMAIN A \subseteq {"at", "braking", "locked_out", "since"}
      /\ A.at = "ask" /\ A.braking = pressed /\ A.locked_out = locked
      /\ pressed => "since" \in DOMAIN A /\ A.since = "brake"
      /\ ~pressed => "since" \notin DOMAIN A
  <2>1. CASE pressed
    BY <2>1 DEF Throttle!With
  <2>2. CASE ~pressed
    BY <2>2 DEF Throttle!With
  <2> QED BY <2>1, <2>2
<1>5. Throttle!Set(A)
  BY <1>1, <1>3
<1>6. /\ DOMAIN throttle' = DOMAIN throttle /\ throttle'.at = "ask"
      /\ throttle'.braking = pressed /\ throttle'.locked_out = locked
      /\ throttle'.since = IF pressed THEN "brake" ELSE throttle.since
      /\ \A x \in DOMAIN throttle \ {"at", "braking", "locked_out", "since"} :
            throttle'[x] = throttle[x]
  <2> HIDE DEF A
  <2> QED BY <1>0, <1>4, <1>5, SetDoes DEF ThrottleTyped
<1>7. ThrottleTyped' /\ SinceIsKept'
  BY <1>0, <1>2, <1>6 DEF ThrottleTyped, SinceIsKept, Throttle!Dash
<1>8. WheelInv'
  BY <1>0, <1>6 DEF WheelInv, ThrottleTyped, Throttle!WheelIsKnown, Throttle!Dash
<1>9. Throttle!BrakeHolds'
  BY <1>6 DEF Throttle!BrakeHolds
<1> QED BY <1>7, <1>8, <1>9 DEF ThrottleInv

(* The throttle is asked to open only past both.                           *)
LEMMA AskKept ==
  ASSUME ThrottleInv, Throttle!Ask
  PROVE  ThrottleInv'
<1>0. ThrottleTyped /\ SinceIsKept /\ Throttle!BrakeHolds /\ WheelInv
  BY DEF ThrottleInv
<1>1. throttle.at = "ask"
  BY DEF Throttle!Ask, Throttle!At
<1>2. PICK t : t = Throttle!Opening
  OBVIOUS
<1>3. PICK place \in {"wheel", "read"} : Throttle!Command(t, [at |-> place], [step |-> 0])
  BY <1>2 DEF Throttle!Ask
<1>4. t = 0 \/ ~Throttle!Shut
  BY <1>2 DEF Throttle!Opening
<1>5. ~Throttle!Shut => throttle.since = "rest" \/ (Throttle!Dash /\ throttle.since = "lost")
  BY <1>0 DEF Throttle!Shut, SinceIsKept, ThrottleTyped
<1> QED BY <1>1, <1>3, <1>4, <1>5, RequestKept

(* The wheel's state is what the last accepted request made it.            *)
LEMMA TurnKept ==
  ASSUME ThrottleInv, Throttle!Turn
  PROVE  ThrottleInv'
<1>0. ThrottleTyped /\ SinceIsKept /\ Throttle!BrakeHolds /\ WheelInv
  BY DEF ThrottleInv
<1>1. throttle.at = "wheel"
  BY DEF Throttle!Turn, Throttle!At
<1>2. PICK told \in {0, throttle.actual}, ok \in BOOLEAN :
         Throttle!Set([at |-> "read",
            wheel_on |-> Throttle!Record(told > 0, ok \/ ~(told > 0 \/ throttle.wheel_on)),
            wheel |-> IF ok /\ (told > 0 \/ throttle.wheel_on) THEN told > 0
                      ELSE throttle.wheel])
  BY DEF Throttle!Turn
<1> DEFINE want == told > 0
           calls == want \/ throttle.wheel_on
<1>3. /\ DOMAIN throttle' = DOMAIN throttle /\ throttle'.at = "read"
      /\ throttle'.wheel_on = IF ok \/ ~calls THEN want ELSE throttle.wheel_on
      /\ throttle'.wheel = IF ok /\ calls THEN want ELSE throttle.wheel
      /\ \A x \in DOMAIN throttle \ {"at", "wheel_on", "wheel"} : throttle'[x] = throttle[x]
  BY <1>0, <1>2 DEF ThrottleTyped, Throttle!Set, Throttle!Record
<1>b. want \in BOOLEAN /\ calls \in BOOLEAN /\ calls = (want \/ throttle.wheel_on)
  OBVIOUS
<1> HIDE DEF want, calls
<1>4. throttle'.wheel_on \in BOOLEAN /\ throttle'.wheel \in BOOLEAN
  BY <1>0, <1>3, <1>b DEF ThrottleTyped
<1>c. ThrottleTyped' /\ SinceIsKept'
  BY <1>0, <1>3, <1>4 DEF ThrottleTyped, SinceIsKept, Throttle!Dash
<1>5. WheelInv'
  BY <1>0, <1>b, <1>3 DEF WheelInv, ThrottleTyped, Throttle!WheelIsKnown, Throttle!Dash
<1>6. Throttle!BrakeHolds'
  BY <1>0, <1>1, <1>3 DEF Throttle!BrakeHolds, ThrottleTyped, Throttle!Dash
<1> QED BY <1>c, <1>5, <1>6 DEF ThrottleInv

(* The probe asks without a stick; it promises nothing of one.             *)
LEMMA ProbeKept ==
  ASSUME ThrottleInv, Throttle!Probe \/ Throttle!ProbeDies
  PROVE  ThrottleInv'
<1>0. ThrottleTyped
  BY DEF ThrottleInv
<1>1. throttle.at = "probe" /\ throttle.program = "throttle_probe"
  BY <1>0 DEF Throttle!Probe, Throttle!ProbeDies, Throttle!At, ThrottleTyped
<1>2. PICK s : s = throttle.step + 1
  OBVIOUS
<1>3. CASE Throttle!Set([at |-> "ended"])
  <2>1. /\ DOMAIN throttle' = DOMAIN throttle /\ throttle'.at = "ended"
        /\ \A x \in DOMAIN throttle \ {"at"} : throttle'[x] = throttle[x]
    BY <1>0, <1>3, SetDoes DEF ThrottleTyped
  <2> QED BY <1>0, <1>1, <2>1, SeenKept DEF ThrottleTyped
<1>4. CASE Throttle!Set([step |-> s])
  <2>1. /\ DOMAIN throttle' = DOMAIN throttle
        /\ \A x \in DOMAIN throttle \ {"step"} : throttle'[x] = throttle[x]
    BY <1>0, <1>4, SetDoes DEF ThrottleTyped
  <2> QED BY <1>0, <1>1, <2>1, SeenKept DEF ThrottleTyped
<1>5. CASE Throttle!Command(Full, [step |-> s], [at |-> "probe"])
  BY <1>1, <1>5, RequestKept
<1> QED BY <1>2, <1>3, <1>4, <1>5 DEF Throttle!Probe, Throttle!ProbeDies

(* The throttle's own deadline only closes it.                             *)
LEMMA TickKept ==
  ASSUME ThrottleInv, Throttle!Tick
  PROVE  ThrottleInv'
<1>0. ThrottleTyped
  BY DEF ThrottleInv
<1>1. /\ DOMAIN throttle' = DOMAIN throttle /\ throttle'.target \in {0, throttle.target}
      /\ \A x \in DOMAIN throttle \ {"target", "quiet", "actual"} : throttle'[x] = throttle[x]
  BY <1>0 DEF ThrottleTyped, Throttle!Tick, Throttle!Set
<1> QED BY <1>0, <1>1, SeenKept DEF ThrottleTyped

(* Nothing has been seen at the start.                                     *)
LEMMA ThrottleInit == Throttle!Init => ThrottleInv
BY DEF Throttle!Init, ThrottleInv, ThrottleTyped, SinceIsKept, WheelInv,
       Throttle!BrakeHolds, Throttle!WheelIsKnown, Throttle!Dash

(* The invariant of the throttle programs is inductive.                    *)
LEMMA ThrottleStep == ThrottleInv /\ [Throttle!Next]_throttle => ThrottleInv'
<1> SUFFICES ASSUME ThrottleInv, [Throttle!Next]_throttle PROVE ThrottleInv'
  OBVIOUS
<1>1. CASE UNCHANGED throttle
  BY <1>1 DEF ThrottleInv, ThrottleTyped, SinceIsKept, WheelInv, Throttle!BrakeHolds,
              Throttle!WheelIsKnown, Throttle!Dash
<1>2. CASE Throttle!Next
  BY <1>2, PreflightKept, ArmKept, ReadPedalKept, LosePedalKept, ReadBrakeKept, AskKept,
     TurnKept, ProbeKept, TickKept DEF Throttle!Next, Throttle!Program
<1> QED BY <1>1, <1>2

(* Whatever request is refused and whatever reading fails, the throttle is *)
(* asked to open only after the stick was seen at rest since the brake was *)
(* last seen, or, in the dash, could not be read; and the dash knows       *)
(* whether its wheel turns.                                                *)
THEOREM BrakeIsKept == Spec => []BrakeHolds
<1>1. Init => ThrottleInv
  BY ThrottleInit DEF Init
<1>2. ThrottleInv /\ [Next]_vars => ThrottleInv'
  <2>1. [Next]_vars => [Throttle!Next]_throttle
    BY DEF Next, vars, DoomNext, DashNext, WifiNext, ThrottleNext, ProbeNext, RunnerNext,
           SmallNext
  <2> QED BY <2>1, ThrottleStep
<1>3. ThrottleInv => BrakeHolds
  BY DEF ThrottleInv, WheelInv, BrakeHolds
<1> QED BY <1>1, <1>2, <1>3, PTL DEF Spec

-----------------------------------------------------------------------------
(***************************************************************************)
(* doom.rs.  Of the converter, in a burst that did not begin with a        *)
(* conversion left behind: only the read that started a conversion has one *)
(* going on, and an answer on its way is to its own axis.                  *)
(***************************************************************************)
DoomTyped ==
    /\ DOMAIN doom = {"at", "waited", "want", "told", "in_burst", "axis", "polls", "sample",
                      "listening", "queued", "converting", "left", "misread", "frame", "y",
                      "line", "drawn"}
    /\ doom.left \in BOOLEAN /\ doom.misread \in BOOLEAN /\ doom.listening \in BOOLEAN

ForAxis(s) == s = Doom!None \/ s.channel = Doom!Axis[doom.axis]

ReadIsOwn ==
    /\ doom.listening \/ doom.queued = Doom!None
    /\ doom.listening => doom.at \in {"command", "poll", "end"}
    /\ doom.at = "command" => doom.sample = Doom!None
    /\ ~doom.left =>
         IF doom.at \in {"poll", "end"}
         THEN /\ doom.converting \in {-1, Doom!Axis[doom.axis]}
              /\ ForAxis(doom.queued) /\ ForAxis(doom.sample)
         ELSE doom.converting = -1 /\ doom.queued = Doom!None
    /\ ~doom.misread

(* Of the panel: the rows above y are those of the frame.                  *)
RowsAreDrawn ==
    doom.at = "band" =>
      /\ doom.y \in 0..PanelH
      /\ \A i \in 0..PanelH - 1 : i < doom.y => doom.drawn[i] = Doom!Pixels(Doom!ymap[i])

DoomInv == DoomTyped /\ ReadIsOwn /\ RowsAreDrawn

(* Every nonempty set of naturals has a least element.  The library's      *)
(* well-foundedness of < stands in for induction.                          *)
LEMMA LeastNat ==
  ASSUME NEW M \in SUBSET Nat, M # {}
  PROVE  \E m \in M : \A k \in M : m <= k
<1> DEFINE R == {p \in Nat \X Nat : p[1] < p[2]}
<1>1. R = OpToRel(<, Nat)
  BY DEF OpToRel
<1>2. IsWellFoundedOn(R, Nat)
  BY <1>1, NatLessThanWellFounded
<1>3. PICK m \in M : \A k \in M : ~(<<k, m>> \in R)
  BY <1>2, WFMin
<1>4. ASSUME NEW k \in M PROVE m <= k
  <2>1. k \in Nat /\ m \in Nat /\ <<k, m>> \in Nat \X Nat
    OBVIOUS
  <2>2. k < m => <<k, m>> \in R
    BY <2>1
  <2> QED BY <1>3, <2>1, <2>2
<1> QED BY <1>4

(* A step that keeps the reading, and begins or ends none, keeps its part. *)
LEMMA ReadKept ==
  ASSUME DoomInv, DOMAIN doom' = DOMAIN doom,
         \A x \in {"axis", "sample", "listening", "queued", "converting", "left", "misread"} :
            doom'[x] = doom[x],
         doom'.at # "command",
         (doom'.at = "end") = (doom.at = "end"),
         (doom'.at = "poll") = (doom.at = "poll"),
         doom.at # "command"
  PROVE  DoomTyped' /\ ReadIsOwn'
<1>0. DoomTyped /\ ReadIsOwn
  BY DEF DoomInv
<1>1. DoomTyped'
  BY <1>0 DEF DoomTyped
<1>2. ReadIsOwn'
  BY <1>0 DEF ReadIsOwn, ForAxis
<1> QED BY <1>1, <1>2

(* A reading begins with nothing sampled or queued for it.                 *)
LEMMA SubscribeRead ==
  ASSUME DoomInv, Doom!Subscribe
  PROVE  DoomTyped' /\ ReadIsOwn'
<1>0. DoomTyped /\ ReadIsOwn
  BY DEF DoomInv
<1>1. /\ DOMAIN doom' = DOMAIN doom /\ doom.at = "subscribe" /\ doom'.at = "command"
      /\ doom'.listening = TRUE /\ doom'.sample = Doom!None
      /\ \A x \in DOMAIN doom \ {"at", "listening", "sample", "polls"} : doom'[x] = doom[x]
  BY <1>0 DEF Doom!Subscribe, Doom!Set, Doom!At, DoomTyped
<1>2. DoomTyped'
  BY <1>0, <1>1 DEF DoomTyped
<1>3. ReadIsOwn'
  BY <1>0, <1>1 DEF ReadIsOwn, ForAxis, DoomTyped
<1> QED BY <1>2, <1>3

(* A command that is accepted converts its own axis.                       *)
LEMMA CommandRead ==
  ASSUME DoomInv, Doom!Command
  PROVE  DoomTyped' /\ ReadIsOwn'
<1>0. DoomTyped /\ ReadIsOwn
  BY DEF DoomInv
<1>a. doom.at = "command"
  BY DEF Doom!Command, Doom!At
<1>1. CASE Doom!Set([at |-> "end"])
  <2>1. /\ DOMAIN doom' = DOMAIN doom /\ doom'.at = "end"
        /\ \A x \in DOMAIN doom \ {"at"} : doom'[x] = doom[x]
    BY <1>0, <1>1 DEF Doom!Set, DoomTyped
  <2>2. DoomTyped'
    BY <1>0, <2>1 DEF DoomTyped
  <2>3. ReadIsOwn'
    BY <1>0, <1>a, <2>1 DEF ReadIsOwn, ForAxis, DoomTyped
  <2> QED BY <2>2, <2>3
<1>2. CASE /\ doom.converting = -1
           /\ Doom!Set([at |-> "poll", converting |-> Doom!Axis[doom.axis]])
  <2>1. /\ DOMAIN doom' = DOMAIN doom /\ doom'.at = "poll"
        /\ doom'.converting = Doom!Axis[doom.axis]
        /\ \A x \in DOMAIN doom \ {"at", "converting"} : doom'[x] = doom[x]
    BY <1>0, <1>2 DEF Doom!Set, DoomTyped
  <2>2. DoomTyped'
    BY <1>0, <2>1 DEF DoomTyped
  <2>3. ReadIsOwn'
    BY <1>0, <1>a, <2>1 DEF ReadIsOwn, ForAxis, DoomTyped
  <2> QED BY <2>2, <2>3
<1> QED BY <1>1, <1>2 DEF Doom!Command

(* A poll takes what is queued, which is for its axis.                     *)
LEMMA PollRead ==
  ASSUME DoomInv, Doom!Poll
  PROVE  DoomTyped' /\ ReadIsOwn'
<1>0. DoomTyped /\ ReadIsOwn
  BY DEF DoomInv
<1>a. doom.at = "poll"
  BY DEF Doom!Poll, Doom!At
<1>1. CASE Doom!Set([at |-> "end"])
  <2>1. /\ DOMAIN doom' = DOMAIN doom /\ doom'.at = "end"
        /\ \A x \in DOMAIN doom \ {"at"} : doom'[x] = doom[x]
    BY <1>0, <1>1 DEF Doom!Set, DoomTyped
  <2>2. DoomTyped'
    BY <1>0, <2>1 DEF DoomTyped
  <2>3. ReadIsOwn'
    BY <1>0, <1>a, <2>1 DEF ReadIsOwn, ForAxis, DoomTyped
  <2> QED BY <2>2, <2>3
<1>2. CASE ~Doom!GivesUp
  <2>1. /\ DOMAIN doom' = DOMAIN doom /\ doom'.at = "poll" /\ doom'.queued = Doom!None
        /\ doom'.sample \in {doom.queued, doom.sample}
        /\ \A x \in DOMAIN doom \ {"polls", "sample", "queued"} : doom'[x] = doom[x]
    BY <1>0, <1>a, <1>2 DEF Doom!Poll, Doom!Set, DoomTyped
  <2>2. DoomTyped'
    BY <1>0, <2>1 DEF DoomTyped
  <2>3. ReadIsOwn'
    BY <1>0, <1>a, <2>1 DEF ReadIsOwn, ForAxis, DoomTyped
  <2> QED BY <2>2, <2>3
<1> QED BY <1>1, <1>2 DEF Doom!Poll

(* A reading that is given up leaves its conversion behind, and says so.   *)
LEMMA EndReadRead ==
  ASSUME DoomInv, Doom!EndRead
  PROVE  DoomTyped' /\ ReadIsOwn'
<1>0. DoomTyped /\ ReadIsOwn
  BY DEF DoomInv
<1>a. doom.at = "end"
  BY DEF Doom!EndRead, Doom!At
<1> DEFINE mis == /\ doom.sample # Doom!None /\ doom.sample.channel # Doom!Axis[doom.axis]
                  /\ ~doom.left
<1>b. mis = FALSE
  BY <1>0, <1>a DEF ReadIsOwn, ForAxis
<1>1. /\ DOMAIN doom' = DOMAIN doom
      /\ doom'.at \in {"subscribe", "buttons"}
      /\ doom'.listening = FALSE /\ doom'.queued = Doom!None /\ doom'.sample = Doom!None
      /\ doom'.left = (doom.converting # -1) /\ doom'.misread = mis
      /\ doom'.converting = doom.converting
  BY <1>0 DEF Doom!EndRead, Doom!Set, Doom!With, Doom!Unsubscribed, DoomTyped
<1> HIDE DEF mis
<1>2. DoomTyped'
  BY <1>0, <1>b, <1>1 DEF DoomTyped
<1>3. ReadIsOwn'
  BY <1>b, <1>1 DEF ReadIsOwn, ForAxis
<1> QED BY <1>2, <1>3

(* The converter answers for the axis it was converting.                   *)
LEMMA ConvertRead ==
  ASSUME DoomInv, Doom!Convert
  PROVE  DoomTyped' /\ ReadIsOwn'
<1>0. DoomTyped /\ ReadIsOwn
  BY DEF DoomInv
<1>1. PICK level \in Level :
         Doom!Set([converting |-> -1,
                   queued |-> IF doom.listening
                              THEN [channel |-> doom.converting, level |-> level]
                              ELSE doom.queued])
  BY DEF Doom!Convert
<1>2. /\ DOMAIN doom' = DOMAIN doom /\ doom'.converting = -1
      /\ \/ doom.listening /\ doom'.queued = [channel |-> doom.converting, level |-> level]
         \/ doom'.queued = doom.queued
      /\ \A x \in DOMAIN doom \ {"converting", "queued"} : doom'[x] = doom[x]
  BY <1>0, <1>1 DEF Doom!Set, DoomTyped
<1>a. doom.converting # -1
  BY DEF Doom!Convert
<1>b. doom'.queued = doom.queued \/ (doom.listening /\ doom'.queued.channel = doom.converting)
  BY <1>2
<1>3. DoomTyped'
  BY <1>0, <1>2 DEF DoomTyped
<1>4. ReadIsOwn'
  BY <1>0, <1>2, <1>a, <1>b DEF ReadIsOwn, ForAxis, DoomTyped
<1> QED BY <1>3, <1>4

(* A burst begins its first reading outside any other.                     *)
LEMMA GetKeyRead ==
  ASSUME DoomInv, Doom!GetKey
  PROVE  DoomTyped' /\ ReadIsOwn'
<1>0. DoomTyped /\ ReadIsOwn
  BY DEF DoomInv
<1>1. /\ DOMAIN doom' = DOMAIN doom /\ doom.at = "tick" /\ doom'.at = "subscribe"
      /\ \A x \in DOMAIN doom \ {"at", "axis", "want"} : doom'[x] = doom[x]
  BY <1>0 DEF Doom!GetKey, Doom!Set, Doom!At, DoomTyped
<1>2. DoomTyped'
  BY <1>0, <1>1 DEF DoomTyped
<1>3. ReadIsOwn'
  BY <1>0, <1>1 DEF ReadIsOwn, ForAxis, DoomTyped
<1> QED BY <1>2, <1>3

(* The steps that have nothing to do with the stick.                       *)
Elsewhere == Doom!WaitReady \/ Doom!TellKey \/ Doom!EndBurst \/ Doom!ReadButtons
             \/ Doom!DrawFrame \/ Doom!DrawBand \/ Doom!EndFrame

(* They keep its part.                                                     *)
LEMMA ElsewhereRead ==
  ASSUME DoomInv, Elsewhere
  PROVE  DoomTyped' /\ ReadIsOwn'
<1>0. DoomTyped
  BY DEF DoomInv
<1>1. /\ DOMAIN doom' = DOMAIN doom
      /\ \A x \in {"axis", "sample", "listening", "queued", "converting", "left", "misread"} :
            doom'[x] = doom[x]
      /\ doom.at \notin {"command", "poll", "end"} /\ doom'.at \notin {"command", "poll", "end"}
  <2>1. CASE Doom!WaitReady
    BY <1>0, <2>1 DEF Doom!WaitReady, Doom!Set, Doom!At, DoomTyped
  <2>2. CASE Doom!TellKey
    BY <1>0, <2>2 DEF Doom!TellKey, Doom!Set, Doom!At, DoomTyped
  <2>3. CASE Doom!EndBurst
    BY <1>0, <2>3 DEF Doom!EndBurst, Doom!Set, Doom!At, DoomTyped
  <2>4. CASE Doom!ReadButtons
    BY <1>0, <2>4 DEF Doom!ReadButtons, Doom!Set, Doom!At, DoomTyped
  <2>5. CASE Doom!DrawFrame
    BY <1>0, <2>5 DEF Doom!DrawFrame, Doom!Set, Doom!At, DoomTyped
  <2>6. CASE Doom!DrawBand
    <3>1. doom.at = "band"
      BY <2>6 DEF Doom!DrawBand, Doom!At
    <3>2. PICK line, y, drawn :
            \/ Doom!Set([line |-> line, y |-> y, drawn |-> drawn])
            \/ Doom!Set([line |-> line, at |-> "tick", y |-> y, drawn |-> drawn])
      BY <2>6 DEF Doom!DrawBand
    <3>3. CASE Doom!Set([line |-> line, y |-> y, drawn |-> drawn])
      BY <1>0, <3>1, <3>3 DEF Doom!Set, DoomTyped
    <3>4. CASE Doom!Set([line |-> line, at |-> "tick", y |-> y, drawn |-> drawn])
      BY <1>0, <3>1, <3>4 DEF Doom!Set, DoomTyped
    <3> QED BY <3>2, <3>3, <3>4
  <2>7. CASE Doom!EndFrame
    BY <1>0, <2>7 DEF Doom!EndFrame, Doom!Set, Doom!At, DoomTyped
  <2> QED BY <2>1, <2>2, <2>3, <2>4, <2>5, <2>6, <2>7 DEF Elsewhere
<1> QED BY <1>1, ReadKept

(* A source row is a row.                                                  *)
LEMMA SourceIsRow ==
  ASSUME NEW i \in 0..PanelH - 1
  PROVE  Doom!ymap[i] \in Nat
<1>0. DoomH \in Nat \ {0} /\ PanelH \in Nat \ {0}
  BY ProgramsAssumption DEF Doom!DoomAssumption
<1>1. PICK p \in Nat : p = i * DoomH
  BY <1>0
<1>2. p \div PanelH \in Nat
  BY <1>0
<1> QED BY <1>0, <1>1, <1>2 DEF Doom!ymap

(* A band's lines are those of their source rows, whichever of them were   *)
(* copied from the one above.                                              *)
LEMMA LinesAreTrue ==
  ASSUME DoomInv, doom.at = "band", doom.y < PanelH
  PROVE  Doom!Lines = [r \in 0..Doom!Rows - 1 |-> Doom!Pixels(Doom!ymap[doom.y + r])]
<1> DEFINE S == 0..Doom!Rows - 1
           P(r) == Doom!Pixels(Doom!ymap[doom.y + r])
           F(g) == [r \in S |-> IF Doom!ymap[doom.y + r] # Doom!Built(r) THEN P(r)
                             ELSE IF r = 0 THEN doom.line ELSE g[r - 1]]
           good == [r \in S |-> P(r)]
<1>0. Doom!Rows \in Nat /\ doom.y \in Nat /\ doom.y + Doom!Rows <= PanelH /\ PanelH \in Nat
  BY ProgramsAssumption DEF DoomInv, RowsAreDrawn, Doom!Rows, Doom!DoomAssumption
<1>1. ASSUME NEW g, g = F(g) PROVE g = good
  <2> SUFFICES ASSUME g # good PROVE FALSE
    OBVIOUS
  <2> DEFINE Bad == {r \in S : g[r] # good[r]}
  <2>a. g = [r \in S |-> g[r]]
    BY <1>1
  <2>b. (\A r \in S : g[r] = good[r]) => g = good
    <3> HIDE DEF S
    <3> QED BY <2>a
  <2>1. Bad # {} /\ Bad \in SUBSET Nat
    <3>1. S \subseteq Nat
      BY <1>0
    <3> HIDE DEF good, S
    <3>2. PICK s \in S : g[s] # good[s]
      BY <2>b
    <3> QED BY <3>1, <3>2
  <2>2. PICK r \in Bad : \A k \in Bad : r <= k
    BY <2>1, LeastNat
  <2>3. r \in S /\ g[r] # P(r)
    OBVIOUS
  <2>4. g[r] = IF Doom!ymap[doom.y + r] # Doom!Built(r) THEN P(r)
               ELSE IF r = 0 THEN doom.line ELSE g[r - 1]
    BY <1>1, <2>3
  <2>5. Doom!ymap[doom.y + r] = Doom!Built(r)
    BY <2>3, <2>4
  <2>6. r # 0
    <3> SUFFICES ASSUME r = 0 PROVE FALSE
      OBVIOUS
    <3>1. doom.y + r \in 0..PanelH - 1
      BY <1>0, <2>3
    <3> QED BY <2>5, <3>1, SourceIsRow DEF Doom!Built
  <2>7. r - 1 \in S /\ g[r - 1] = P(r - 1)
    BY <1>0, <2>2, <2>3, <2>6
  <2>8. Doom!ymap[doom.y + r] = Doom!ymap[doom.y + (r - 1)]
    BY <1>0, <2>3, <2>5, <2>6 DEF Doom!Built
  <2> QED BY <2>3, <2>4, <2>5, <2>6, <2>7, <2>8
<1>2. good = F(good)
  <2>1. ASSUME NEW r \in S, r # 0, Doom!ymap[doom.y + r] = Doom!Built(r)
        PROVE  r - 1 \in S /\ good[r - 1] = P(r)
    <3>1. r - 1 \in S /\ (doom.y + r) - 1 = doom.y + (r - 1)
      BY <1>0, <2>1
    <3>2. Doom!ymap[doom.y + r] = Doom!ymap[doom.y + (r - 1)]
      BY <1>0, <2>1, <3>1 DEF Doom!Built
    <3> QED BY <3>1, <3>2
  <2>2. Doom!ymap[doom.y + 0] # Doom!Built(0)
    <3>1. doom.y + 0 \in 0..PanelH - 1
      BY <1>0
    <3> QED BY <3>1, SourceIsRow DEF Doom!Built
  <2>3. ASSUME NEW r \in S
        PROVE  P(r) = IF Doom!ymap[doom.y + r] # Doom!Built(r) THEN P(r)
                      ELSE IF r = 0 THEN doom.line ELSE good[r - 1]
    BY <2>1, <2>2
  <2> QED BY <2>3
<1> QED BY <1>1, <1>2 DEF Doom!Lines

(* A band fills the rows of its own from the frame being drawn.            *)
LEMMA DrawBandRows ==
  ASSUME DoomInv, Doom!DrawBand
  PROVE  RowsAreDrawn'
<1>0. DoomTyped /\ RowsAreDrawn
  BY DEF DoomInv
<1>1. doom.at = "band" /\ doom.y < PanelH
  BY DEF Doom!DrawBand, Doom!At
<1>2. /\ Doom!Rows \in Nat \ {0} /\ doom.y \in Nat /\ doom.y + Doom!Rows <= PanelH
      /\ PanelH \in Nat
  BY <1>0, <1>1, ProgramsAssumption DEF RowsAreDrawn, Doom!Rows, Doom!DoomAssumption
<1> DEFINE lines == [r \in 0..Doom!Rows - 1 |-> Doom!Pixels(Doom!ymap[doom.y + r])]
           drawn == [y \in 0..PanelH - 1 |->
                       IF y \in doom.y..doom.y + Doom!Rows - 1 THEN lines[y - doom.y]
                       ELSE doom.drawn[y]]
<1>3. \/ Doom!Set([line |-> lines[Doom!Rows - 1], y |-> doom.y + Doom!Rows, drawn |-> drawn])
      \/ Doom!Set([line |-> lines[Doom!Rows - 1], at |-> "tick", y |-> 0, drawn |-> Doom!Blank])
  BY <1>1, LinesAreTrue DEF Doom!DrawBand
<1>4. CASE Doom!Set([line |-> lines[Doom!Rows - 1], at |-> "tick", y |-> 0,
                     drawn |-> Doom!Blank])
  <2>1. doom'.at = "tick"
    BY <1>0, <1>4 DEF Doom!Set, DoomTyped
  <2> QED BY <2>1 DEF RowsAreDrawn
<1>5. CASE Doom!Set([line |-> lines[Doom!Rows - 1], y |-> doom.y + Doom!Rows, drawn |-> drawn])
  <2>1. /\ doom'.y = doom.y + Doom!Rows /\ doom'.drawn = drawn
        /\ doom'.at = "band" /\ doom'.frame = doom.frame
    <3> HIDE DEF drawn, lines
    <3> QED BY <1>0, <1>1, <1>5 DEF Doom!Set, DoomTyped
  <2>2. ASSUME NEW i \in 0..PanelH - 1, i < doom.y + Doom!Rows
        PROVE  drawn[i] = Doom!Pixels(Doom!ymap[i])
    <3>1. CASE i < doom.y
      BY <1>0, <1>1, <1>2, <3>1 DEF RowsAreDrawn
    <3>2. CASE ~(i < doom.y)
      <4>1. i \in doom.y..doom.y + Doom!Rows - 1 /\ i - doom.y \in 0..Doom!Rows - 1
        BY <1>2, <2>2, <3>2
      <4>2. doom.y + (i - doom.y) = i
        BY <1>2
      <4>3. drawn[i] = lines[i - doom.y]
        BY <4>1
      <4>4. lines[i - doom.y] = Doom!Pixels(Doom!ymap[doom.y + (i - doom.y)])
        BY <4>1
      <4> QED BY <4>2, <4>3, <4>4
    <3> QED BY <3>1, <3>2
  <2>3. \A i : Doom!Pixels(i)' = Doom!Pixels(i)
    BY <2>1 DEF Doom!Pixels
  <2> HIDE DEF drawn, lines
  <2> QED BY <1>2, <2>1, <2>2, <2>3 DEF RowsAreDrawn
<1> QED BY <1>3, <1>4, <1>5

(* A frame begins with no row drawn.                                       *)
LEMMA DrawFrameRows ==
  ASSUME DoomInv, Doom!DrawFrame
  PROVE  RowsAreDrawn'
<1>1. doom'.y = 0
  BY DEF Doom!DrawFrame, Doom!Set, DoomInv, DoomTyped
<1>2. PanelH \in Nat
  BY ProgramsAssumption DEF Doom!DoomAssumption
<1> QED BY <1>1, <1>2 DEF RowsAreDrawn

(* Every other action leaves the picture alone.                            *)
LEMMA OtherRows ==
  ASSUME DoomInv, Doom!Next, ~Doom!DrawFrame, ~Doom!DrawBand
  PROVE  RowsAreDrawn'
<1>0. DoomTyped /\ RowsAreDrawn
  BY DEF DoomInv
<1>1. \/ doom'.at # "band"
      \/ \A x \in {"at", "y", "drawn", "frame"} : doom'[x] = doom[x]
  <2>1. CASE Doom!WaitReady
    BY <1>0, <2>1 DEF Doom!WaitReady, Doom!Set, Doom!At, DoomTyped
  <2>2. CASE Doom!GetKey
    BY <1>0, <2>2 DEF Doom!GetKey, Doom!Set, Doom!At, DoomTyped
  <2>3. CASE Doom!TellKey
    BY <1>0, <2>3 DEF Doom!TellKey, Doom!Set, Doom!At, DoomTyped
  <2>4. CASE Doom!EndBurst
    BY <1>0, <2>4 DEF Doom!EndBurst, Doom!Set, Doom!At, DoomTyped
  <2>5. CASE Doom!Subscribe
    BY <1>0, <2>5 DEF Doom!Subscribe, Doom!Set, Doom!At, DoomTyped
  <2>6. CASE Doom!Command
    BY <1>0, <2>6 DEF Doom!Command, Doom!Set, Doom!At, DoomTyped
  <2>7. CASE Doom!Poll
    BY <1>0, <2>7 DEF Doom!Poll, Doom!Set, Doom!At, DoomTyped
  <2>8. CASE Doom!EndRead
    BY <1>0, <2>8 DEF Doom!EndRead, Doom!Set, Doom!With, Doom!Unsubscribed, DoomTyped
  <2>9. CASE Doom!ReadButtons
    BY <1>0, <2>9 DEF Doom!ReadButtons, Doom!Set, Doom!At, DoomTyped
  <2>10. CASE Doom!EndFrame
    BY <1>0, <2>10 DEF Doom!EndFrame, Doom!Set, Doom!At, DoomTyped
  <2>11. CASE Doom!Convert
    BY <1>0, <2>11 DEF Doom!Convert, Doom!Set, DoomTyped
  <2> QED BY <2>1, <2>2, <2>3, <2>4, <2>5, <2>6, <2>7, <2>8, <2>9, <2>10, <2>11
          DEF Doom!Next, Doom!Program
<1>2. \A i : (\A x \in {"at", "y", "drawn", "frame"} : doom'[x] = doom[x])
             => Doom!Pixels(i)' = Doom!Pixels(i)
  BY DEF Doom!Pixels
<1> QED BY <1>0, <1>1, <1>2 DEF RowsAreDrawn

(* No reading goes on and no frame is drawn at the start.                  *)
LEMMA DoomInit == Doom!Init => DoomInv
BY DEF Doom!Init, DoomInv, DoomTyped, ReadIsOwn, RowsAreDrawn, Doom!None

(* The invariant of doom.rs is inductive.                                  *)
LEMMA DoomStep == DoomInv /\ [Doom!Next]_doom => DoomInv'
<1> SUFFICES ASSUME DoomInv, [Doom!Next]_doom PROVE DoomInv'
  OBVIOUS
<1>1. CASE UNCHANGED doom
  BY <1>1 DEF DoomInv, DoomTyped, ReadIsOwn, RowsAreDrawn, ForAxis, Doom!Pixels
<1>2. CASE Doom!Next
  <2>1. DoomTyped' /\ ReadIsOwn'
    BY <1>2, SubscribeRead, CommandRead, PollRead, EndReadRead, ConvertRead, GetKeyRead,
       ElsewhereRead DEF Doom!Next, Doom!Program, Elsewhere
  <2>2. RowsAreDrawn'
    BY <1>2, DrawFrameRows, DrawBandRows, OtherRows
  <2> QED BY <2>1, <2>2 DEF DoomInv
<1> QED BY <1>1, <1>2

(* doom.rs takes a sample for the axis it was asked of unless a read ended *)
(* with a conversion still going on, and a frame drawn to its end shows    *)
(* every row of that frame, for every size of panel, frame and band.       *)
THEOREM DoomSeesAndShows == Spec => []MisreadOnlyAfterLeaving
<1>1. Init => DoomInv
  BY DoomInit DEF Init
<1>2. DoomInv /\ [Next]_vars => DoomInv'
  <2>1. [Next]_vars => [Doom!Next]_doom
    BY DEF Next, vars, DoomNext, DashNext, WifiNext, ThrottleNext, ProbeNext, RunnerNext,
           SmallNext
  <2> QED BY <2>1, DoomStep
<1>3. DoomInv => MisreadOnlyAfterLeaving
  <2> SUFFICES ASSUME DoomInv PROVE Doom!MisreadOnlyAfterLeaving /\ Doom!FrameIsWhole
    BY DEF MisreadOnlyAfterLeaving
  <2>1. Doom!MisreadOnlyAfterLeaving
    BY DEF DoomInv, ReadIsOwn, Doom!MisreadOnlyAfterLeaving
  <2>2. PanelH \in Nat
    BY ProgramsAssumption DEF Doom!DoomAssumption
  <2>3. Doom!FrameIsWhole
    BY <2>2 DEF DoomInv, RowsAreDrawn, Doom!FrameIsWhole, Doom!At
  <2> QED BY <2>1, <2>3
<1> QED BY <1>1, <1>2, <1>3, PTL DEF Spec

-----------------------------------------------------------------------------
(***************************************************************************)
(* The wifi examples.  An end of a scan that has reached the program is of *)
(* the scan in progress or marks the pass as late; and in wifi_stop_scan   *)
(* nothing is heard of a scan before it runs.                              *)
(***************************************************************************)
Places == Wifi!Waits \cup {"init", "init_done", "open", "command", "A", "B", "C", "D", "close",
                           "told", "over"}

Upcall == ({"init"} \X {"ok", "failed"}) \cup ({"stop"} \X {0}) \cup ({"scan"} \X {0, 1} \X Nat)

WifiTyped ==
    /\ DOMAIN wifi = {"program", "at", "waited", "pass", "status", "sink", "stopped", "phase",
                      "verdict", "open", "queue", "tasks", "pending", "scan", "ended", "late",
                      "running"}
    /\ wifi.program \in Wifi!Program /\ wifi.at \in Places
    /\ wifi.sink \in [seen : Nat, done : BOOLEAN, after_done : BOOLEAN]
    /\ wifi.phase \in Seq({"A", "B", "C", "D"} \X BOOLEAN)
    /\ wifi.queue \in Seq(Upcall) /\ wifi.scan \in Nat
    /\ wifi.tasks \in {"none", "scan", "stop"}
    /\ wifi.pending \in BOOLEAN /\ wifi.late \in BOOLEAN /\ wifi.running \in BOOLEAN

(* The end of the scan in progress is queued only once it has ended.       *)
EndIsTrue(u) ==
    u[1] = "scan" => /\ u[3] <= wifi.scan
                     /\ u[2] = 0 /\ u[3] = wifi.scan => wifi.ended = wifi.scan

ScanEnded == wifi.ended = wifi.scan \/ wifi.late

EndsAreTrue ==
    /\ \A i \in 1..Len(wifi.queue) : EndIsTrue(wifi.queue[i])
    /\ wifi.program = "wifi_scan" =>
         /\ wifi.at \notin {"A", "wait_A"}
         /\ wifi.at = "command" => ~wifi.sink.done
         /\ wifi.at \notin {"open", "told", "over"} /\ wifi.sink.done => ScanEnded
    /\ wifi.at \notin {"told", "over"} => wifi.verdict \notin {"complete", "confirmed"}
    /\ Wifi!CompleteIsOwn

(* wifi_stop_scan: before the scan, and while it is only asked for.        *)
Early == {"init", "wait_init", "init_done", "open", "A", "wait_A", "command"}
Unheard == wifi.at \in Early \/ wifi.tasks = "scan"

RanThen == wifi.phase[2][2] /\ wifi.phase[3][2] => wifi.running

StopIsTrue ==
    /\ wifi.program = "wifi_stop_scan" =>
         /\ Unheard => /\ ~wifi.pending /\ wifi.sink.seen = 0
                       /\ \A i \in 1..Len(wifi.queue) : wifi.queue[i][1] # "scan"
         /\ wifi.at \in Early => wifi.tasks # "scan"
         /\ wifi.at \in Early \ {"wait_A", "command"} => Len(wifi.phase) = 0
         /\ wifi.at \in {"wait_A", "command", "B"} => Len(wifi.phase) = 1
         /\ wifi.at = "B" => wifi.tasks # "stop"
         /\ wifi.at \in {"wait_C", "C"} =>
              Len(wifi.phase) = 2 /\ (wifi.phase[2][2] => wifi.tasks # "stop")
         /\ wifi.at \in {"wait_D", "D"} => Len(wifi.phase) \in {2, 3}
         /\ wifi.at \in {"wait_D", "D"} /\ Len(wifi.phase) = 3 => RanThen
         /\ Len(wifi.phase) = 4 => RanThen
    /\ Wifi!ConfirmedIsTrue

WifiInv == WifiTyped /\ EndsAreTrue /\ StopIsTrue

(* A step that only moves on, and not into a place that promises anything. *)
LEMMA MoveOn ==
  ASSUME WifiInv, DOMAIN wifi' = DOMAIN wifi,
         \A x \in DOMAIN wifi \ {"at", "waited", "stopped", "status", "pass", "open"} :
            wifi'[x] = wifi[x],
         \/ wifi'.at = wifi.at
         \/ wifi.at = "init" /\ wifi'.at = "wait_init"
         \/ wifi.at \in Wifi!Waits /\ wifi'.at = Wifi!After[wifi.at]
         \/ wifi.at = "C" /\ wifi'.at = "wait_D"
         \/ wifi.at = "D" /\ wifi'.at = "close"
         \/ wifi.at = "told" /\ wifi'.at = "over"
  PROVE  WifiInv'
<1>0. WifiTyped /\ EndsAreTrue /\ StopIsTrue
  BY DEF WifiInv
<1>1. /\ wifi'.program = wifi.program /\ wifi'.sink = wifi.sink /\ wifi'.phase = wifi.phase
      /\ wifi'.verdict = wifi.verdict /\ wifi'.queue = wifi.queue /\ wifi'.tasks = wifi.tasks
      /\ wifi'.pending = wifi.pending /\ wifi'.scan = wifi.scan /\ wifi'.ended = wifi.ended
      /\ wifi'.late = wifi.late /\ wifi'.running = wifi.running
  BY <1>0 DEF WifiTyped
<1>2. \/ wifi'.at = wifi.at
      \/ <<wifi.at, wifi'.at>> \in
            {<<"init", "wait_init">>, <<"wait_init", "init_done">>, <<"wait_scan", "close">>,
             <<"wait_A", "command">>, <<"wait_C", "C">>, <<"wait_D", "D">>,
             <<"wait_end", "close">>, <<"C", "wait_D">>, <<"D", "close">>, <<"told", "over">>}
  BY DEF Wifi!Waits, Wifi!After
<1>3. WifiTyped'
  BY <1>0, <1>1, <1>2 DEF WifiTyped, Places, Wifi!Waits
<1>4. EndsAreTrue'
  BY <1>0, <1>1, <1>2 DEF EndsAreTrue, EndIsTrue, ScanEnded, Wifi!CompleteIsOwn
<1>5. StopIsTrue'
  BY <1>0, <1>1, <1>2 DEF StopIsTrue, Unheard, Early, RanThen, Wifi!ConfirmedIsTrue
<1> QED BY <1>3, <1>4, <1>5 DEF WifiInv

(* A wait that is over moves on as its condition says.                     *)
LEMMA WaitUntilKept ==
  ASSUME WifiInv, Wifi!WaitUntil
  PROVE  WifiInv'
<1>0. WifiTyped
  BY DEF WifiInv
<1>1. wifi.at \in Wifi!Waits
  BY DEF Wifi!WaitUntil
<1>2. \/ Wifi!Set([at |-> Wifi!After[wifi.at], waited |-> 0])
      \/ Wifi!Set([waited |-> wifi.waited + 1])
  BY DEF Wifi!WaitUntil, Wifi!Go
<1>3. /\ DOMAIN wifi' = DOMAIN wifi
      /\ wifi'.at = wifi.at \/ wifi'.at = Wifi!After[wifi.at]
      /\ \A x \in DOMAIN wifi \ {"at", "waited"} : wifi'[x] = wifi[x]
  BY <1>0, <1>2 DEF Wifi!Set, WifiTyped
<1> QED BY <1>1, <1>3, MoveOn

(* The steps between the waits.                                            *)
LEMMA MovesKept ==
  ASSUME WifiInv,
         \/ Wifi!StartInit
         \/ Wifi!At("C") /\ Wifi!Set(Wifi!Go("wait_D"))
         \/ Wifi!At("D") /\ Wifi!Set(Wifi!Go("close"))
         \/ Wifi!NextPass
  PROVE  WifiInv'
<1>0. WifiTyped /\ EndsAreTrue /\ StopIsTrue
  BY DEF WifiInv
<1>1. CASE Wifi!At("init") /\ Wifi!Set(Wifi!Go("wait_init"))
  <2>1. /\ DOMAIN wifi' = DOMAIN wifi /\ wifi.at = "init" /\ wifi'.at = "wait_init"
        /\ \A x \in DOMAIN wifi \ {"at", "waited"} : wifi'[x] = wifi[x]
    BY <1>0, <1>1 DEF Wifi!Set, Wifi!Go, Wifi!At, WifiTyped
  <2> QED BY <2>1, MoveOn
<1>2. CASE Wifi!At("C") /\ Wifi!Set(Wifi!Go("wait_D"))
  <2>1. /\ DOMAIN wifi' = DOMAIN wifi /\ wifi.at = "C" /\ wifi'.at = "wait_D"
        /\ \A x \in DOMAIN wifi \ {"at", "waited"} : wifi'[x] = wifi[x]
    BY <1>0, <1>2 DEF Wifi!Set, Wifi!Go, Wifi!At, WifiTyped
  <2> QED BY <2>1, MoveOn
<1>3. CASE Wifi!At("D") /\ Wifi!Set(Wifi!Go("close"))
  <2>1. /\ DOMAIN wifi' = DOMAIN wifi /\ wifi.at = "D" /\ wifi'.at = "close"
        /\ \A x \in DOMAIN wifi \ {"at", "waited"} : wifi'[x] = wifi[x]
    BY <1>0, <1>3 DEF Wifi!Set, Wifi!Go, Wifi!At, WifiTyped
  <2> QED BY <2>1, MoveOn
<1>4. CASE Wifi!At("told") /\ Wifi!Set([at |-> "over"])
  <2>1. /\ DOMAIN wifi' = DOMAIN wifi /\ wifi.at = "told" /\ wifi'.at = "over"
        /\ \A x \in DOMAIN wifi \ {"at"} : wifi'[x] = wifi[x]
    BY <1>0, <1>4 DEF Wifi!Set, Wifi!At, WifiTyped
  <2> QED BY <2>1, MoveOn
<1>5. CASE Wifi!At("init") /\ Wifi!Set([at |-> "over", verdict |-> "no init"])
  <2>1. /\ DOMAIN wifi' = DOMAIN wifi /\ wifi.at = "init" /\ wifi'.at = "over"
        /\ wifi'.verdict = "no init"
        /\ wifi'.program = wifi.program /\ wifi'.sink = wifi.sink
        /\ wifi'.phase = wifi.phase /\ wifi'.queue = wifi.queue /\ wifi'.tasks = wifi.tasks
        /\ wifi'.pending = wifi.pending /\ wifi'.scan = wifi.scan
        /\ wifi'.ended = wifi.ended /\ wifi'.late = wifi.late
        /\ wifi'.running = wifi.running
    BY <1>0, <1>5 DEF Wifi!Set, Wifi!At, WifiTyped
  <2>2. WifiTyped'
    BY <1>0, <2>1 DEF WifiTyped, Places
  <2>3. EndsAreTrue'
    <3>1. (\A i \in 1..Len(wifi.queue) : EndIsTrue(wifi.queue[i]))'
      BY <1>0, <2>1 DEF EndsAreTrue, EndIsTrue
    <3> QED BY <1>0, <2>1, <3>1 DEF EndsAreTrue, Wifi!CompleteIsOwn
  <2>4. StopIsTrue'
    BY <1>0, <2>1 DEF StopIsTrue, Unheard, Early, RanThen, Wifi!ConfirmedIsTrue, WifiTyped
  <2> QED BY <2>2, <2>3, <2>4 DEF WifiInv
<1>6. CASE /\ Wifi!At("told") /\ wifi.program = "wifi_scan"
           /\ Wifi!Set([at |-> "open", pass |-> 2, verdict |-> "none", late |-> FALSE])
  <2>1. /\ DOMAIN wifi' = DOMAIN wifi /\ wifi.at = "told" /\ wifi'.at = "open"
        /\ wifi'.verdict = "none" /\ wifi'.late = FALSE
        /\ wifi'.program = wifi.program /\ wifi'.sink = wifi.sink
        /\ wifi'.phase = wifi.phase /\ wifi'.queue = wifi.queue /\ wifi'.tasks = wifi.tasks
        /\ wifi'.pending = wifi.pending /\ wifi'.scan = wifi.scan
        /\ wifi'.ended = wifi.ended /\ wifi'.running = wifi.running
    BY <1>0, <1>6 DEF Wifi!Set, Wifi!At, WifiTyped
  <2>2. WifiTyped'
    BY <1>0, <2>1 DEF WifiTyped, Places
  <2>3. EndsAreTrue'
    <3>1. (\A i \in 1..Len(wifi.queue) : EndIsTrue(wifi.queue[i]))'
      BY <1>0, <2>1 DEF EndsAreTrue, EndIsTrue
    <3> QED BY <1>0, <2>1, <3>1 DEF EndsAreTrue, Wifi!CompleteIsOwn
  <2>4. StopIsTrue'
    BY <1>0, <1>6, <2>1 DEF StopIsTrue, Wifi!ConfirmedIsTrue, WifiTyped
  <2> QED BY <2>2, <2>3, <2>4 DEF WifiInv
<1> QED BY <1>1, <1>2, <1>3, <1>4, <1>5, <1>6 DEF Wifi!StartInit, Wifi!NextPass

(* The driver is ready, or the program ends.                               *)
LEMMA InitDoneKept ==
  ASSUME WifiInv, Wifi!InitDone
  PROVE  WifiInv'
<1>0. WifiTyped /\ EndsAreTrue /\ StopIsTrue
  BY DEF WifiInv
<1>1. /\ DOMAIN wifi' = DOMAIN wifi /\ wifi.at = "init_done" /\ wifi'.at \in {"open", "over"}
      /\ wifi'.verdict \in {"none", "no init"}
      /\ wifi'.program = wifi.program /\ wifi'.sink = wifi.sink /\ wifi'.phase = wifi.phase
      /\ wifi'.tasks = wifi.tasks /\ wifi'.pending = wifi.pending /\ wifi'.scan = wifi.scan
      /\ wifi'.ended = wifi.ended /\ wifi'.late = wifi.late /\ wifi'.running = wifi.running
  BY <1>0 DEF Wifi!InitDone, Wifi!Set, Wifi!At, WifiTyped
<1>e. wifi'.queue \in Seq(Upcall) /\ \A i \in 1..Len(wifi'.queue) : FALSE
  <2>1. wifi'.queue = << >>
    BY <1>0 DEF Wifi!InitDone, Wifi!Set, WifiTyped
  <2> QED BY <2>1
<1>2. WifiTyped'
  BY <1>0, <1>1, <1>e DEF WifiTyped, Places
<1>3. EndsAreTrue'
  BY <1>0, <1>1, <1>e DEF EndsAreTrue, EndIsTrue, Wifi!CompleteIsOwn, WifiTyped
<1>4. StopIsTrue'
  BY <1>0, <1>1, <1>e DEF StopIsTrue, Unheard, Early, RanThen, Wifi!ConfirmedIsTrue, WifiTyped
<1> QED BY <1>2, <1>3, <1>4 DEF WifiInv

(* A pass begins with a sink of its own.                                   *)
LEMMA OpenKept ==
  ASSUME WifiInv, Wifi!Open
  PROVE  WifiInv'
<1>0. WifiTyped /\ EndsAreTrue /\ StopIsTrue
  BY DEF WifiInv
<1>a. wifi.at = "open"
  BY DEF Wifi!Open, Wifi!At
<1>1. CASE Wifi!Set([at |-> "over", verdict |-> "could not start"])
  <2>1. /\ DOMAIN wifi' = DOMAIN wifi /\ wifi'.at = "over" /\ wifi'.verdict = "could not start"
        /\ wifi'.program = wifi.program /\ wifi'.sink = wifi.sink
        /\ wifi'.phase = wifi.phase /\ wifi'.queue = wifi.queue /\ wifi'.tasks = wifi.tasks
        /\ wifi'.pending = wifi.pending /\ wifi'.scan = wifi.scan
        /\ wifi'.ended = wifi.ended /\ wifi'.late = wifi.late
        /\ wifi'.running = wifi.running
    BY <1>0, <1>1 DEF Wifi!Set, WifiTyped
  <2>2. WifiTyped'
    BY <1>0, <2>1 DEF WifiTyped, Places
  <2>3. EndsAreTrue'
    <3>1. (\A i \in 1..Len(wifi.queue) : EndIsTrue(wifi.queue[i]))'
      BY <1>0, <2>1 DEF EndsAreTrue, EndIsTrue
    <3> QED BY <1>0, <2>1, <3>1 DEF EndsAreTrue, Wifi!CompleteIsOwn
  <2>4. StopIsTrue'
    BY <1>0, <1>a, <2>1 DEF StopIsTrue, Unheard, Early, RanThen, Wifi!ConfirmedIsTrue, WifiTyped
  <2> QED BY <2>2, <2>3, <2>4 DEF WifiInv
<1>2. CASE Wifi!Set([open |-> TRUE, sink |-> Wifi!Sink,
                     at |-> IF Wifi!Scans THEN "command" ELSE "A"])
  <2>1. /\ DOMAIN wifi' = DOMAIN wifi /\ wifi'.at \in {"command", "A"}
        /\ wifi'.at = "A" <=> wifi.program = "wifi_stop_scan"
        /\ wifi'.sink = [seen |-> 0, done |-> FALSE, after_done |-> FALSE]
        /\ wifi'.program = wifi.program /\ wifi'.phase = wifi.phase
        /\ wifi'.verdict = wifi.verdict /\ wifi'.queue = wifi.queue
        /\ wifi'.tasks = wifi.tasks /\ wifi'.pending = wifi.pending
        /\ wifi'.scan = wifi.scan /\ wifi'.ended = wifi.ended /\ wifi'.late = wifi.late
        /\ wifi'.running = wifi.running
    BY <1>0, <1>2 DEF Wifi!Set, Wifi!Sink, Wifi!Scans, WifiTyped
  <2>2. WifiTyped'
    BY <1>0, <2>1 DEF WifiTyped, Places
  <2>3. EndsAreTrue'
    BY <1>0, <1>a, <2>1 DEF EndsAreTrue, EndIsTrue, Wifi!CompleteIsOwn, WifiTyped
  <2>4. StopIsTrue'
    BY <1>0, <1>a, <2>1 DEF StopIsTrue, Unheard, Early, RanThen, Wifi!ConfirmedIsTrue, WifiTyped
  <2> QED BY <2>2, <2>3, <2>4 DEF WifiInv
<1> QED BY <1>1, <1>2 DEF Wifi!Open

(* A scan that starts is the one in progress from then on.                 *)
LEMMA StartScanKept ==
  ASSUME WifiInv, Wifi!StartScan
  PROVE  WifiInv'
<1>0. WifiTyped /\ EndsAreTrue /\ StopIsTrue
  BY DEF WifiInv
<1>a. wifi.at = "command"
  BY DEF Wifi!StartScan, Wifi!At
<1>1. CASE Wifi!Set([at |-> "close", verdict |-> "could not start"])
  <2>1. /\ DOMAIN wifi' = DOMAIN wifi /\ wifi'.at = "close" /\ wifi'.verdict = "could not start"
        /\ wifi'.program = wifi.program /\ wifi'.sink = wifi.sink
        /\ wifi'.phase = wifi.phase /\ wifi'.queue = wifi.queue /\ wifi'.tasks = wifi.tasks
        /\ wifi'.pending = wifi.pending /\ wifi'.scan = wifi.scan
        /\ wifi'.ended = wifi.ended /\ wifi'.late = wifi.late
        /\ wifi'.running = wifi.running
    BY <1>0, <1>1 DEF Wifi!Set, WifiTyped
  <2>2. WifiTyped'
    BY <1>0, <2>1 DEF WifiTyped, Places
  <2>3. EndsAreTrue'
    <3>1. (\A i \in 1..Len(wifi.queue) : EndIsTrue(wifi.queue[i]))'
      BY <1>0, <2>1 DEF EndsAreTrue, EndIsTrue
    <3> QED BY <1>0, <1>a, <2>1, <3>1 DEF EndsAreTrue, ScanEnded, Wifi!CompleteIsOwn
  <2>4. StopIsTrue'
    BY <1>0, <1>a, <2>1 DEF StopIsTrue, Unheard, Early, RanThen, Wifi!ConfirmedIsTrue, WifiTyped
  <2> QED BY <2>2, <2>3, <2>4 DEF WifiInv
<1>2. CASE ~Wifi!Busy
  <2>1. /\ DOMAIN wifi' = DOMAIN wifi /\ wifi'.at \in {"wait_scan", "B"}
        /\ wifi'.tasks = "scan" /\ wifi'.scan = wifi.scan + 1
        /\ wifi'.program = wifi.program /\ wifi'.sink = wifi.sink
        /\ wifi'.phase = wifi.phase /\ wifi'.verdict = wifi.verdict
        /\ wifi'.queue = wifi.queue /\ wifi'.pending = wifi.pending
        /\ wifi'.ended = wifi.ended /\ wifi'.late = wifi.late
        /\ wifi'.running = wifi.running
    BY <1>0, <1>2 DEF Wifi!StartScan, Wifi!Set, WifiTyped
  <2>2. WifiTyped'
    BY <1>0, <2>1 DEF WifiTyped, Places, Wifi!Waits
  <2>3. ASSUME NEW i \in 1..Len(wifi.queue) PROVE EndIsTrue(wifi.queue[i])'
    <3>1. wifi.queue[i] \in Upcall
      BY <1>0 DEF WifiTyped
    <3>2. wifi.queue[i][1] = "scan" => wifi.queue[i][3] \in Nat
      BY <3>1 DEF Upcall
    <3>3. EndIsTrue(wifi.queue[i])
      BY <1>0 DEF EndsAreTrue
    <3> QED BY <1>0, <2>1, <3>2, <3>3 DEF EndIsTrue, WifiTyped
  <2>4. EndsAreTrue'
    BY <1>0, <1>a, <2>1, <2>3 DEF EndsAreTrue, ScanEnded, Wifi!CompleteIsOwn, WifiTyped
  <2>5. StopIsTrue'
    BY <1>0, <1>a, <2>1 DEF StopIsTrue, Unheard, Early, RanThen, Wifi!ConfirmedIsTrue, WifiTyped
  <2> QED BY <2>2, <2>4, <2>5 DEF WifiInv
<1> QED BY <1>1, <1>2 DEF Wifi!StartScan

(* What a call of stop_scan changes: it is remembered with its answer, and *)
(* accepted only when nothing is outstanding.                              *)
LEMMA StopScanDoes ==
  ASSUME WifiTyped, NEW name \in {"A", "B", "C", "D"}, NEW next, Wifi!StopScan(name, next)
  PROVE  /\ DOMAIN wifi' = DOMAIN wifi /\ wifi.at = name /\ wifi'.at = next
         /\ wifi'.phase \in Seq({"A", "B", "C", "D"} \X BOOLEAN)
         /\ Len(wifi'.phase) = Len(wifi.phase) + 1
         /\ \A i \in 1..Len(wifi.phase) : wifi'.phase[i] = wifi.phase[i]
         /\ wifi'.phase[Len(wifi.phase) + 1][2] = Wifi!Busy
         /\ wifi'.tasks = IF Wifi!Busy THEN wifi.tasks ELSE "stop"
         /\ wifi'.running = IF name = "C" THEN wifi.pending ELSE wifi.running
         /\ wifi'.program = wifi.program /\ wifi'.sink = wifi.sink
         /\ wifi'.verdict = wifi.verdict /\ wifi'.queue = wifi.queue
         /\ wifi'.pending = wifi.pending /\ wifi'.scan = wifi.scan
         /\ wifi'.ended = wifi.ended /\ wifi'.late = wifi.late
<1>1. Wifi!Busy \in BOOLEAN
  BY DEF Wifi!Busy, WifiTyped
<1>2. PICK answer \in {"A", "B", "C", "D"} \X BOOLEAN :
         answer = <<name, Wifi!Busy>> /\ answer[2] = Wifi!Busy
  <2>1. PICK b \in BOOLEAN : b = Wifi!Busy
    BY <1>1
  <2>2. <<name, b>> \in {"A", "B", "C", "D"} \X BOOLEAN /\ <<name, b>>[2] = b
    OBVIOUS
  <2> QED BY <2>1, <2>2
<1>3. /\ DOMAIN wifi' = DOMAIN wifi /\ wifi.at = name /\ wifi'.at = next
      /\ wifi'.phase = Append(wifi.phase, answer)
      /\ wifi'.tasks = IF Wifi!Busy THEN wifi.tasks ELSE "stop"
      /\ wifi'.running = IF name = "C" THEN wifi.pending ELSE wifi.running
      /\ wifi'.program = wifi.program /\ wifi'.sink = wifi.sink
      /\ wifi'.verdict = wifi.verdict /\ wifi'.queue = wifi.queue
      /\ wifi'.pending = wifi.pending /\ wifi'.scan = wifi.scan
      /\ wifi'.ended = wifi.ended /\ wifi'.late = wifi.late
  BY <1>2 DEF Wifi!StopScan, Wifi!Set, Wifi!At, WifiTyped
<1>4. wifi.phase \in Seq({"A", "B", "C", "D"} \X BOOLEAN)
  BY DEF WifiTyped
<1>5. /\ wifi'.phase \in Seq({"A", "B", "C", "D"} \X BOOLEAN)
      /\ Len(wifi'.phase) = Len(wifi.phase) + 1
      /\ \A i \in 1..Len(wifi.phase) : wifi'.phase[i] = wifi.phase[i]
      /\ wifi'.phase[Len(wifi.phase) + 1] = answer
  <2> DEFINE A == {"A", "B", "C", "D"} \X BOOLEAN
  <2>1. wifi.phase \in Seq(A) /\ answer \in A /\ wifi'.phase = Append(wifi.phase, answer)
    BY <1>2, <1>3, <1>4
  <2> HIDE DEF A
  <2>2. /\ wifi'.phase \in Seq(A) /\ Len(wifi'.phase) = Len(wifi.phase) + 1
        /\ \A i \in 1..Len(wifi.phase) : wifi'.phase[i] = wifi.phase[i]
        /\ wifi'.phase[Len(wifi.phase) + 1] = answer
    BY <2>1
  <2> QED BY <2>2 DEF A
<1> QED BY <1>2, <1>3, <1>5

(* Such a call leaves what is said of scans alone.                         *)
LEMMA PhaseEnds ==
  ASSUME WifiInv, NEW name \in {"A", "B", "C", "D"}, NEW next \in Places, Wifi!StopScan(name, next),
         next \notin {"A", "open", "told", "over"},
         next \in {"wait_A", "command"} => name = "A"
  PROVE  WifiTyped' /\ EndsAreTrue'
<1>0. WifiTyped /\ EndsAreTrue
  BY DEF WifiInv
<1>1. /\ DOMAIN wifi' = DOMAIN wifi /\ wifi.at = name /\ wifi'.at = next
      /\ wifi'.phase \in Seq({"A", "B", "C", "D"} \X BOOLEAN)
      /\ wifi'.tasks = IF Wifi!Busy THEN wifi.tasks ELSE "stop"
      /\ wifi'.running = IF name = "C" THEN wifi.pending ELSE wifi.running
      /\ wifi'.program = wifi.program /\ wifi'.sink = wifi.sink
      /\ wifi'.verdict = wifi.verdict /\ wifi'.queue = wifi.queue
      /\ wifi'.pending = wifi.pending /\ wifi'.scan = wifi.scan
      /\ wifi'.ended = wifi.ended /\ wifi'.late = wifi.late
  BY <1>0, StopScanDoes
<1>2. WifiTyped'
  BY <1>0, <1>1 DEF WifiTyped
<1>3. EndsAreTrue'
  BY <1>0, <1>1 DEF EndsAreTrue, EndIsTrue, ScanEnded, Wifi!CompleteIsOwn
<1> QED BY <1>2, <1>3

(* The first stop finds no scan.                                           *)
LEMMA PhaseAKept ==
  ASSUME WifiInv, Wifi!PhaseA
  PROVE  WifiInv'
<1>0. WifiTyped /\ EndsAreTrue /\ StopIsTrue
  BY DEF WifiInv
<1>1. PICK next \in {"command", "wait_A"} : Wifi!StopScan("A", next)
  BY DEF Wifi!PhaseA
<1>2. WifiTyped' /\ EndsAreTrue'
  BY <1>1, PhaseEnds DEF Places, Wifi!Waits
<1>3. /\ wifi.at = "A" /\ wifi'.at = next
      /\ Len(wifi'.phase) = Len(wifi.phase) + 1
      /\ wifi'.tasks \in {wifi.tasks, "stop"}
      /\ wifi'.running = wifi.running
      /\ wifi'.program = wifi.program /\ wifi'.sink = wifi.sink
      /\ wifi'.verdict = wifi.verdict /\ wifi'.queue = wifi.queue
      /\ wifi'.pending = wifi.pending
  BY <1>0, <1>1, StopScanDoes
<1>4. StopIsTrue'
  BY <1>0, <1>3 DEF StopIsTrue, Unheard, Early, Wifi!ConfirmedIsTrue
<1> QED BY <1>2, <1>4 DEF WifiInv

(* The second is made once the scan has been asked for.                    *)
LEMMA PhaseBKept ==
  ASSUME WifiInv, Wifi!PhaseB
  PROVE  WifiInv'
<1>0. WifiTyped /\ EndsAreTrue /\ StopIsTrue
  BY DEF WifiInv
<1>1. Wifi!StopScan("B", "wait_C")
  BY DEF Wifi!PhaseB
<1>2. WifiTyped' /\ EndsAreTrue'
  BY <1>1, PhaseEnds DEF Places, Wifi!Waits
<1>3. /\ wifi.at = "B" /\ wifi'.at = "wait_C"
      /\ Len(wifi'.phase) = Len(wifi.phase) + 1
      /\ wifi'.phase[Len(wifi.phase) + 1][2] = Wifi!Busy
      /\ wifi'.tasks = IF Wifi!Busy THEN wifi.tasks ELSE "stop"
      /\ wifi'.running = wifi.running
      /\ wifi'.program = wifi.program /\ wifi'.sink = wifi.sink
      /\ wifi'.verdict = wifi.verdict /\ wifi'.queue = wifi.queue
      /\ wifi'.pending = wifi.pending
  BY <1>0, <1>1, StopScanDoes
<1>4. wifi.program = "wifi_stop_scan" =>
        Len(wifi'.phase) = 2 /\ wifi.tasks # "stop" /\ wifi'.phase[2][2] = Wifi!Busy
  <2>1. wifi.program = "wifi_stop_scan" => Len(wifi.phase) = 1 /\ wifi.tasks # "stop"
    BY <1>0, <1>3 DEF StopIsTrue
  <2>2. PICK n : n = Len(wifi.phase)
    OBVIOUS
  <2>3. n = 1 => n + 1 = 2
    OBVIOUS
  <2>4. Len(wifi'.phase) = n + 1 /\ wifi'.phase[n + 1][2] = Wifi!Busy
    BY <1>3, <2>2
  <2> QED BY <2>1, <2>2, <2>3, <2>4
<1>5. StopIsTrue'
  BY <1>0, <1>3, <1>4 DEF StopIsTrue, Unheard, Early, Wifi!ConfirmedIsTrue
<1> QED BY <1>2, <1>5 DEF WifiInv

(* The third is made once the scan has been heard of, so that it has run.  *)
LEMMA PhaseCKept ==
  ASSUME WifiInv, wifi.sink.seen > 0, Wifi!StopScan("C", "wait_D")
  PROVE  WifiInv'
<1>0. WifiTyped /\ EndsAreTrue /\ StopIsTrue
  BY DEF WifiInv
<1>2. WifiTyped' /\ EndsAreTrue'
  BY PhaseEnds DEF Places, Wifi!Waits
<1>3. /\ wifi.at = "C" /\ wifi'.at = "wait_D"
      /\ Len(wifi'.phase) = Len(wifi.phase) + 1
      /\ \A i \in 1..Len(wifi.phase) : wifi'.phase[i] = wifi.phase[i]
      /\ wifi'.phase[Len(wifi.phase) + 1][2] = Wifi!Busy
      /\ wifi'.tasks = IF Wifi!Busy THEN wifi.tasks ELSE "stop"
      /\ wifi'.running = wifi.pending
      /\ wifi'.program = wifi.program /\ wifi'.sink = wifi.sink
      /\ wifi'.verdict = wifi.verdict /\ wifi'.queue = wifi.queue
      /\ wifi'.pending = wifi.pending
  BY <1>0, StopScanDoes
<1>4. wifi.program = "wifi_stop_scan" =>
        /\ Len(wifi'.phase) = 3 /\ wifi.tasks # "scan"
        /\ wifi'.phase[2][2] => wifi.tasks # "stop"
        /\ wifi'.phase[3][2] = Wifi!Busy
  <2>1. wifi.program = "wifi_stop_scan" =>
          Len(wifi.phase) = 2 /\ wifi.tasks # "scan" /\ (wifi.phase[2][2] => wifi.tasks # "stop")
    BY <1>0, <1>3 DEF StopIsTrue, Unheard
  <2>2. PICK n : n = Len(wifi.phase)
    OBVIOUS
  <2>3. Len(wifi'.phase) = n + 1 /\ wifi'.phase[n + 1][2] = Wifi!Busy
    BY <1>3, <2>2
  <2>4. n = 2 => n + 1 = 3 /\ 2 \in 1..n
    OBVIOUS
  <2>5. n = 2 => wifi'.phase[2] = wifi.phase[2]
    BY <1>3, <2>2, <2>4
  <2> QED BY <2>1, <2>2, <2>3, <2>4, <2>5
<1>5. wifi.program = "wifi_stop_scan" => RanThen'
  BY <1>0, <1>3, <1>4 DEF RanThen, Wifi!Busy, WifiTyped
<1>6. StopIsTrue'
  BY <1>0, <1>3, <1>4, <1>5 DEF StopIsTrue, EndsAreTrue, Unheard, Early, Wifi!ConfirmedIsTrue
<1> QED BY <1>2, <1>6 DEF WifiInv

(* The last is made, if at all, once the scan is over.                     *)
LEMMA PhaseDKept ==
  ASSUME WifiInv, Wifi!StopScan("D", "wait_end")
  PROVE  WifiInv'
<1>0. WifiTyped /\ EndsAreTrue /\ StopIsTrue
  BY DEF WifiInv
<1>2. WifiTyped' /\ EndsAreTrue'
  BY PhaseEnds DEF Places, Wifi!Waits
<1>3. /\ wifi.at = "D" /\ wifi'.at = "wait_end"
      /\ Len(wifi'.phase) = Len(wifi.phase) + 1
      /\ \A i \in 1..Len(wifi.phase) : wifi'.phase[i] = wifi.phase[i]
      /\ wifi'.tasks \in {wifi.tasks, "stop"}
      /\ wifi'.running = wifi.running
      /\ wifi'.program = wifi.program /\ wifi'.sink = wifi.sink
      /\ wifi'.verdict = wifi.verdict /\ wifi'.queue = wifi.queue
      /\ wifi'.pending = wifi.pending
  BY <1>0, StopScanDoes
<1>4. ASSUME wifi.program = "wifi_stop_scan", Len(wifi'.phase) = 4 PROVE RanThen'
  <2>1. Len(wifi.phase) = 3
    <3>1. Len(wifi.phase) \in {2, 3}
      BY <1>0, <1>3, <1>4 DEF StopIsTrue
    <3>2. PICK n \in {2, 3} : n = Len(wifi.phase)
      BY <3>1
    <3>3. n + 1 = 4
      BY <1>3, <1>4, <3>2
    <3>4. n = 3
      BY <3>3
    <3> QED BY <3>2, <3>4
  <2>2. RanThen
    BY <1>0, <1>3, <1>4, <2>1 DEF StopIsTrue
  <2>3. wifi'.phase[2] = wifi.phase[2] /\ wifi'.phase[3] = wifi.phase[3]
    BY <1>3, <2>1
  <2> QED BY <1>3, <2>2, <2>3 DEF RanThen
<1>5. StopIsTrue'
  BY <1>0, <1>3, <1>4 DEF StopIsTrue, Unheard, Early, Wifi!ConfirmedIsTrue
<1> QED BY <1>2, <1>5 DEF WifiInv

(* The verdict is drawn from what the pass saw.                            *)
LEMMA CloseKept ==
  ASSUME WifiInv, Wifi!Close
  PROVE  WifiInv'
<1>0. WifiTyped /\ EndsAreTrue /\ StopIsTrue
  BY DEF WifiInv
<1>1. PICK verdict : verdict = Wifi!Verdict
  OBVIOUS
<1>2. /\ DOMAIN wifi' = DOMAIN wifi /\ wifi.at = "close" /\ wifi'.at = "told"
      /\ wifi'.verdict = verdict /\ wifi'.tasks \in {wifi.tasks, "stop"}
      /\ wifi'.program = wifi.program /\ wifi'.sink = wifi.sink /\ wifi'.phase = wifi.phase
      /\ wifi'.pending = wifi.pending /\ wifi'.scan = wifi.scan
      /\ wifi'.ended = wifi.ended /\ wifi'.late = wifi.late /\ wifi'.running = wifi.running
  BY <1>0, <1>1 DEF Wifi!Close, Wifi!Set, Wifi!At, WifiTyped
<1>e. wifi'.queue \in Seq(Upcall) /\ \A i \in 1..Len(wifi'.queue) : FALSE
  <2>1. wifi'.queue = << >>
    BY <1>0 DEF Wifi!Close, Wifi!Set, WifiTyped
  <2> QED BY <2>1
<1>3. WifiTyped'
  BY <1>0, <1>2, <1>e DEF WifiTyped, Places
<1>4. wifi.verdict \notin {"complete", "confirmed"}
  BY <1>0, <1>2 DEF EndsAreTrue
<1>5. verdict = "complete" => ScanEnded
  <2> SUFFICES ASSUME verdict = "complete" PROVE ScanEnded
    OBVIOUS
  <2>1. wifi.program = "wifi_scan" /\ wifi.sink.done
    <3>1. Wifi!Report # "complete"
      BY DEF Wifi!Report
    <3>2. wifi.program \in {"wifi_scan", "wifi_scan_exit", "wifi_stop_scan"}
      BY <1>0 DEF Wifi!Program, WifiTyped
    <3> QED BY <1>1, <1>4, <3>1, <3>2 DEF Wifi!Verdict
  <2> QED BY <1>0, <1>2, <2>1 DEF EndsAreTrue
<1>6. verdict = "confirmed" => wifi.running
  <2> SUFFICES ASSUME verdict = "confirmed" PROVE wifi.running
    OBVIOUS
  <2>1. wifi.program = "wifi_stop_scan" /\ Wifi!Report = "confirmed"
    <3>1. wifi.program \in {"wifi_scan", "wifi_scan_exit", "wifi_stop_scan"}
      BY <1>0 DEF Wifi!Program, WifiTyped
    <3> QED BY <1>1, <1>4, <3>1 DEF Wifi!Verdict
  <2>2. Len(wifi.phase) = 4 /\ \A i \in 1..4 : wifi.phase[i][2] = Wifi!Expected[i]
    BY <2>1 DEF Wifi!Report
  <2>3. wifi.phase[2][2] /\ wifi.phase[3][2]
    <3>1. Wifi!Expected[2] = TRUE /\ Wifi!Expected[3] = TRUE
      BY DEF Wifi!Expected
    <3>2. wifi.phase[2][2] = Wifi!Expected[2] /\ wifi.phase[3][2] = Wifi!Expected[3]
      BY <2>2
    <3> QED BY <3>1, <3>2
  <2> QED BY <1>0, <2>1, <2>2, <2>3 DEF StopIsTrue, RanThen
<1>7. EndsAreTrue'
  BY <1>0, <1>2, <1>5, <1>e DEF EndsAreTrue, ScanEnded, Wifi!CompleteIsOwn
<1>8. StopIsTrue'
  BY <1>0, <1>2, <1>6, <1>e DEF StopIsTrue, Unheard, Early, RanThen, Wifi!ConfirmedIsTrue
<1> QED BY <1>3, <1>7, <1>8 DEF WifiInv

(* What is queued is taken from the front.                                 *)
LEMMA TailIsQueued ==
  ASSUME NEW S, NEW q \in Seq(S), q # << >>
  PROVE  /\ Tail(q) \in Seq(S) /\ Head(q) = q[1] /\ 1 \in 1..Len(q) /\ q[1] \in S
         /\ \A i \in 1..Len(Tail(q)) : i + 1 \in 1..Len(q) /\ Tail(q)[i] = q[i + 1]
OBVIOUS

(* What a queue holds after Append.                                        *)
LEMMA AppendIsQueued ==
  ASSUME NEW S, NEW q \in Seq(S), NEW u \in S
  PROVE  /\ Append(q, u) \in Seq(S)
         /\ \A i \in 1..Len(Append(q, u)) :
               (i \in 1..Len(q) /\ Append(q, u)[i] = q[i]) \/ Append(q, u)[i] = u
OBVIOUS

(* An upcall that is delivered enters the sink.                            *)
LEMMA DeliverKept ==
  ASSUME WifiInv, Wifi!Deliver
  PROVE  WifiInv'
<1>0. WifiTyped /\ EndsAreTrue /\ StopIsTrue
  BY DEF WifiInv
<1>1. wifi.at \in Wifi!Waits /\ wifi.queue # << >>
  BY DEF Wifi!Deliver
<1>2. /\ wifi.queue \in Seq(Upcall) /\ Tail(wifi.queue) \in Seq(Upcall)
      /\ Head(wifi.queue) = wifi.queue[1]
      /\ 1 \in 1..Len(wifi.queue) /\ wifi.queue[1] \in Upcall
      /\ \A i \in 1..Len(Tail(wifi.queue)) :
            i + 1 \in 1..Len(wifi.queue) /\ Tail(wifi.queue)[i] = wifi.queue[i + 1]
  BY <1>0, <1>1, TailIsQueued DEF WifiTyped
<1>3. PICK u \in Upcall : u = wifi.queue[1] /\ u = Head(wifi.queue)
  BY <1>2
<1>4. PICK sink : sink = IF u[1] = "scan" THEN Wifi!Heard(u[2]) ELSE wifi.sink
  OBVIOUS
<1>5. PICK late \in BOOLEAN : late <=> wifi.late \/ (u[1] = "scan" /\ u[3] # wifi.scan)
  OBVIOUS
<1>6. /\ DOMAIN wifi' = DOMAIN wifi /\ wifi'.queue = Tail(wifi.queue)
      /\ wifi'.sink = sink /\ wifi'.late = late /\ wifi'.at = wifi.at
      /\ wifi'.program = wifi.program /\ wifi'.phase = wifi.phase
      /\ wifi'.verdict = wifi.verdict /\ wifi'.tasks = wifi.tasks
      /\ wifi'.pending = wifi.pending /\ wifi'.scan = wifi.scan
      /\ wifi'.ended = wifi.ended /\ wifi'.running = wifi.running
  <2>1. wifi' = [wifi EXCEPT !.queue = Tail(wifi.queue),
                     !.status = IF u[1] = "init" THEN u[2] ELSE wifi.status,
                     !.stopped = wifi.stopped \/ u[1] = "stop",
                     !.sink = sink,
                     !.late = wifi.late \/ (u[1] = "scan" /\ u[3] # wifi.scan)]
    BY <1>3, <1>4 DEF Wifi!Deliver
  <2>2. (wifi.late \/ (u[1] = "scan" /\ u[3] # wifi.scan)) = late
    BY <1>0, <1>5 DEF WifiTyped
  <2> QED BY <1>0, <2>1, <2>2 DEF WifiTyped
<1>7. /\ sink \in [seen : Nat, done : BOOLEAN, after_done : BOOLEAN]
      /\ u[1] # "scan" => sink = wifi.sink
      /\ sink.done => wifi.sink.done \/ (u[1] = "scan" /\ u[2] = 0)
  <2>1. PICK old \in [seen : Nat, done : BOOLEAN, after_done : BOOLEAN] : old = wifi.sink
    BY <1>0 DEF WifiTyped
  <2>2. CASE u[1] # "scan"
    BY <1>4, <2>1, <2>2
  <2>a. PICK after : after = (wifi.program = "wifi_scan" /\ old.done)
    OBVIOUS
  <2>3. CASE u[1] = "scan" /\ after
    BY <1>4, <2>a, <2>1, <2>3 DEF Wifi!Heard
  <2>4. CASE u[1] = "scan" /\ ~after /\ u[2] = 0
    BY <1>4, <2>a, <2>1, <2>4 DEF Wifi!Heard
  <2>5. CASE u[1] = "scan" /\ ~after /\ u[2] # 0
    <3>1. PICK n \in Nat : n = IF old.seen < MaxSeen THEN old.seen + 1 ELSE old.seen
      BY <2>1
    <3>2. sink = [old EXCEPT !.seen = n]
      BY <1>4, <2>a, <2>1, <2>5, <3>1 DEF Wifi!Heard
    <3> QED BY <2>1, <2>5, <3>2
  <2> QED BY <2>2, <2>3, <2>4, <2>5
<1>8. EndIsTrue(u)
  BY <1>0, <1>2, <1>3 DEF EndsAreTrue
<1>9. WifiTyped'
  BY <1>0, <1>2, <1>5, <1>6, <1>7 DEF WifiTyped
<1>10. EndsAreTrue'
  <2>1. ASSUME NEW i \in 1..Len(wifi'.queue) PROVE EndIsTrue(wifi.queue[i])'
    <3>1. i + 1 \in 1..Len(wifi.queue) /\ wifi'.queue[i] = wifi.queue[i + 1]
      BY <1>2, <1>6
    <3>2. EndIsTrue(wifi.queue[i + 1])
      BY <1>0, <3>1 DEF EndsAreTrue
    <3> QED BY <1>6, <3>1, <3>2 DEF EndIsTrue
  <2>2. sink.done => wifi.sink.done \/ ScanEnded'
    BY <1>0, <1>5, <1>6, <1>7, <1>8 DEF EndIsTrue, ScanEnded
  <2>3. ScanEnded => ScanEnded'
    BY <1>0, <1>5, <1>6 DEF ScanEnded, WifiTyped
  <2>4. wifi.at \notin {"told", "over", "command"}
    BY <1>1 DEF Wifi!Waits
  <2> QED BY <1>0, <1>6, <2>1, <2>2, <2>3, <2>4 DEF EndsAreTrue, Wifi!CompleteIsOwn
<1>11. StopIsTrue'
  <2>1. wifi.program = "wifi_stop_scan" /\ Unheard => u[1] # "scan"
    BY <1>0, <1>2, <1>3 DEF StopIsTrue
  <2>2. wifi.program = "wifi_stop_scan" /\ Unheard =>
          \A i \in 1..Len(wifi'.queue) : wifi'.queue[i][1] # "scan"
    BY <1>0, <1>2, <1>6 DEF StopIsTrue
  <2> QED BY <1>0, <1>6, <1>7, <2>1, <2>2
          DEF StopIsTrue, Unheard, Early, RanThen, Wifi!ConfirmedIsTrue
<1> QED BY <1>9, <1>10, <1>11 DEF WifiInv

(* The radio queues something of the scan in progress, or the answer to a  *)
(* stop, if it queues anything.                                            *)
LEMMA Scheduled ==
  ASSUME WifiTyped, NEW u \in Upcall, NEW q, q = Wifi!Schedule(u)
  PROVE  /\ q \in Seq(Upcall)
         /\ \A i \in 1..Len(q) : (i \in 1..Len(wifi.queue) /\ q[i] = wifi.queue[i]) \/ q[i] = u
<1>1. wifi.queue \in Seq(Upcall)
  BY DEF WifiTyped
<1>2. q = wifi.queue \/ q = Append(wifi.queue, u)
  BY DEF Wifi!Schedule
<1>3. CASE q = wifi.queue
  BY <1>1, <1>3
<1>4. CASE q = Append(wifi.queue, u)
  BY <1>1, <1>4, AppendIsQueued
<1> QED BY <1>2, <1>3, <1>4

(* A step of the radio that queues at most one upcall, and a true one.     *)
LEMMA RadioKept ==
  ASSUME WifiInv, NEW u \in Upcall, NEW q,
         DOMAIN wifi' = DOMAIN wifi, wifi'.queue = q,
         q \in Seq(Upcall),
         \A i \in 1..Len(q) : (i \in 1..Len(wifi.queue) /\ q[i] = wifi.queue[i]) \/ q[i] = u,
         wifi'.at = wifi.at, wifi'.program = wifi.program, wifi'.sink = wifi.sink,
         wifi'.phase = wifi.phase, wifi'.verdict = wifi.verdict, wifi'.scan = wifi.scan,
         wifi'.late = wifi.late, wifi'.running = wifi.running,
         wifi'.ended \in {wifi.ended, wifi.scan}, wifi'.pending \in BOOLEAN,
         wifi'.tasks \in {"none", wifi.tasks},
         wifi.program = "wifi_stop_scan" /\ wifi'.tasks = "scan" => ~wifi'.pending,
         EndIsTrue(u)', u[1] = "scan" => wifi.pending,
         wifi'.pending => wifi.pending \/ wifi.tasks = "scan"
  PROVE  WifiInv'
<1>0. WifiTyped /\ EndsAreTrue /\ StopIsTrue
  BY DEF WifiInv
<1>1. \A i \in 1..Len(q) : (i \in 1..Len(wifi.queue) /\ q[i] = wifi.queue[i]) \/ q[i] = u
  OBVIOUS
<1>2. WifiTyped'
  BY <1>0 DEF WifiTyped
<1>3. EndsAreTrue'
  <2>1. ASSUME NEW i \in 1..Len(q) PROVE EndIsTrue(q[i])'
    <3>1. CASE q[i] = u
      BY <3>1
    <3>2. CASE i \in 1..Len(wifi.queue) /\ q[i] = wifi.queue[i]
      BY <1>0, <3>2 DEF EndsAreTrue, EndIsTrue
    <3> QED BY <1>1, <3>1, <3>2
  <2>2. ScanEnded => ScanEnded'
    BY DEF ScanEnded
  <2> QED BY <1>0, <2>1, <2>2 DEF EndsAreTrue, ScanEnded, Wifi!CompleteIsOwn
<1>4. StopIsTrue'
  <2>1. ASSUME wifi.program = "wifi_stop_scan", Unheard'
        PROVE  Unheard /\ wifi.pending = FALSE /\ wifi'.pending = FALSE
    BY <1>0, <2>1 DEF StopIsTrue, Unheard, WifiTyped
  <2>2. ASSUME wifi.program = "wifi_stop_scan", Unheard', NEW i \in 1..Len(q)
        PROVE  q[i][1] # "scan"
    BY <1>0, <1>1, <2>1, <2>2 DEF StopIsTrue
  <2> QED BY <1>0, <2>1, <2>2 DEF StopIsTrue, Unheard, RanThen, Wifi!ConfirmedIsTrue
<1> QED BY <1>2, <1>3, <1>4 DEF WifiInv

(* The driver drains its task, and answers a stop when it does.            *)
LEMMA DrainKept ==
  ASSUME WifiInv, Wifi!Drain
  PROVE  WifiInv'
<1>0. WifiTyped
  BY DEF WifiInv
<1> DEFINE u == <<"stop", 0>>
<1>1. u \in Upcall /\ u[1] = "stop"
  BY DEF Upcall
<1>2. PICK q : q = IF wifi.tasks = "stop" /\ ~Wifi!Scans THEN Wifi!Schedule(u) ELSE wifi.queue
  OBVIOUS
<1>3. /\ q \in Seq(Upcall)
      /\ \A i \in 1..Len(q) : (i \in 1..Len(wifi.queue) /\ q[i] = wifi.queue[i]) \/ q[i] = u
  BY <1>0, <1>1, <1>2, Scheduled DEF WifiTyped
<1>4. /\ DOMAIN wifi' = DOMAIN wifi /\ wifi'.queue = q /\ wifi'.at = wifi.at
      /\ wifi'.tasks = "none" /\ wifi'.pending = (wifi.tasks = "scan")
      /\ wifi'.program = wifi.program /\ wifi'.sink = wifi.sink /\ wifi'.phase = wifi.phase
      /\ wifi'.verdict = wifi.verdict /\ wifi'.scan = wifi.scan /\ wifi'.ended = wifi.ended
      /\ wifi'.late = wifi.late /\ wifi'.running = wifi.running
  BY <1>0, <1>2 DEF Wifi!Drain, Wifi!Set, WifiTyped
<1>5. EndIsTrue(u)'
  BY <1>1 DEF EndIsTrue
<1> HIDE DEF u
<1> QED BY <1>1, <1>3, <1>4, <1>5, RadioKept

(* A network is reported of the scan that runs.                            *)
LEMMA ScannedNetworkKept ==
  ASSUME WifiInv, Wifi!ScannedNetwork
  PROVE  WifiInv'
<1>0. WifiTyped
  BY DEF WifiInv
<1>1. PICK u \in Upcall : u = <<"scan", 1, wifi.scan>>
  BY <1>0 DEF Upcall, WifiTyped
<1>2. PICK q : q = Wifi!Schedule(u)
  OBVIOUS
<1>3. /\ q \in Seq(Upcall)
      /\ \A i \in 1..Len(q) : (i \in 1..Len(wifi.queue) /\ q[i] = wifi.queue[i]) \/ q[i] = u
  BY <1>0, <1>2, Scheduled
<1>4. /\ DOMAIN wifi' = DOMAIN wifi /\ wifi'.queue = q /\ wifi'.at = wifi.at
      /\ wifi.pending
      /\ wifi'.program = wifi.program /\ wifi'.sink = wifi.sink /\ wifi'.phase = wifi.phase
      /\ wifi'.verdict = wifi.verdict /\ wifi'.tasks = wifi.tasks
      /\ wifi'.pending = wifi.pending /\ wifi'.scan = wifi.scan /\ wifi'.ended = wifi.ended
      /\ wifi'.late = wifi.late /\ wifi'.running = wifi.running
  BY <1>0, <1>1, <1>2 DEF Wifi!ScannedNetwork, Wifi!Set, WifiTyped
<1>5. EndIsTrue(u)'
  BY <1>0, <1>1, <1>4 DEF EndIsTrue, WifiTyped
<1>6. wifi.program = "wifi_stop_scan" /\ wifi'.tasks = "scan" => ~wifi'.pending
  BY <1>4 DEF WifiInv, StopIsTrue, Unheard
<1> QED BY <1>0, <1>1, <1>3, <1>4, <1>5, <1>6, RadioKept DEF WifiTyped

(* A scan that is over queues its end.                                     *)
LEMMA ScanDoneKept ==
  ASSUME WifiInv, Wifi!ScanDone
  PROVE  WifiInv'
<1>0. WifiTyped
  BY DEF WifiInv
<1>1. PICK u \in Upcall : u = <<"scan", 0, wifi.scan>>
  BY <1>0 DEF Upcall, WifiTyped
<1>2. PICK q : q = Wifi!Schedule(u)
  OBVIOUS
<1>3. /\ q \in Seq(Upcall)
      /\ \A i \in 1..Len(q) : (i \in 1..Len(wifi.queue) /\ q[i] = wifi.queue[i]) \/ q[i] = u
  BY <1>0, <1>2, Scheduled
<1>4. /\ DOMAIN wifi' = DOMAIN wifi /\ wifi'.queue = q /\ wifi'.at = wifi.at
      /\ wifi.pending /\ wifi'.pending = FALSE /\ wifi'.ended = wifi.scan
      /\ wifi'.program = wifi.program /\ wifi'.sink = wifi.sink /\ wifi'.phase = wifi.phase
      /\ wifi'.verdict = wifi.verdict /\ wifi'.tasks = wifi.tasks
      /\ wifi'.scan = wifi.scan /\ wifi'.late = wifi.late /\ wifi'.running = wifi.running
  BY <1>0, <1>1, <1>2 DEF Wifi!ScanDone, Wifi!Set, WifiTyped
<1>5. EndIsTrue(u)'
  BY <1>0, <1>1, <1>4 DEF EndIsTrue, WifiTyped
<1> QED BY <1>0, <1>1, <1>3, <1>4, <1>5, RadioKept DEF WifiTyped

(* The radio answers the initialisation.                                   *)
LEMMA RadioInitKept ==
  ASSUME WifiInv, Wifi!RadioInit
  PROVE  WifiInv'
<1>0. WifiTyped
  BY DEF WifiInv
<1>1. PICK s \in {"ok", "failed"} : Wifi!Set([queue |-> << <<"init", s>> >>])
  BY DEF Wifi!RadioInit
<1>2. PICK u \in Upcall : u = <<"init", s>> /\ u[1] = "init"
  <2>1. <<"init", s>> \in {"init"} \X {"ok", "failed"}
    OBVIOUS
  <2> QED BY <2>1 DEF Upcall
<1>3. PICK q : q = <<u>>
  OBVIOUS
<1>4. /\ q \in Seq(Upcall)
      /\ \A i \in 1..Len(q) : (i \in 1..Len(wifi.queue) /\ q[i] = wifi.queue[i]) \/ q[i] = u
  BY <1>3
<1>5. /\ DOMAIN wifi' = DOMAIN wifi /\ wifi'.queue = q /\ wifi'.at = wifi.at
      /\ wifi'.pending = wifi.pending /\ wifi'.ended = wifi.ended
      /\ wifi'.program = wifi.program /\ wifi'.sink = wifi.sink /\ wifi'.phase = wifi.phase
      /\ wifi'.verdict = wifi.verdict /\ wifi'.tasks = wifi.tasks
      /\ wifi'.scan = wifi.scan /\ wifi'.late = wifi.late /\ wifi'.running = wifi.running
  BY <1>0, <1>1, <1>2, <1>3 DEF Wifi!Set, WifiTyped
<1>6. EndIsTrue(u)'
  BY <1>2 DEF EndIsTrue
<1>7. wifi.program = "wifi_stop_scan" /\ wifi'.tasks = "scan" => ~wifi'.pending
  BY <1>5 DEF WifiInv, StopIsTrue, Unheard
<1> QED BY <1>0, <1>2, <1>4, <1>5, <1>6, <1>7, RadioKept DEF WifiTyped

(* Nothing is queued or heard at the start.                                *)
LEMMA WifiInit == Wifi!Init => WifiInv
<1> SUFFICES ASSUME Wifi!Init PROVE WifiInv
  OBVIOUS
<1>1. PICK p \in Wifi!Program :
         wifi = [program |-> p, at |-> "init", waited |-> 0, pass |-> 1, status |-> "none",
                 sink |-> Wifi!Sink, stopped |-> FALSE, phase |-> << >>, verdict |-> "none",
                 open |-> FALSE, queue |-> << >>,
                 tasks |-> "none", pending |-> FALSE, scan |-> 0, ended |-> 0,
                 late |-> FALSE, running |-> FALSE]
  BY DEF Wifi!Init
<1>2. /\ wifi.queue = << >> /\ wifi.phase = << >>
      /\ wifi.sink = [seen |-> 0, done |-> FALSE, after_done |-> FALSE]
  BY <1>1 DEF Wifi!Sink
<1>3. /\ wifi.queue \in Seq(Upcall) /\ \A i \in 1..Len(wifi.queue) : FALSE
      /\ wifi.phase \in Seq({"A", "B", "C", "D"} \X BOOLEAN) /\ Len(wifi.phase) = 0
  BY <1>2
<1>4. WifiTyped
  <2>1. DOMAIN wifi = {"program", "at", "waited", "pass", "status", "sink", "stopped", "phase",
                       "verdict", "open", "queue", "tasks", "pending", "scan", "ended", "late",
                       "running"}
    BY <1>1
  <2>2. /\ wifi.program \in Wifi!Program /\ wifi.at = "init" /\ wifi.scan = 0
        /\ wifi.tasks = "none" /\ wifi.pending = FALSE /\ wifi.late = FALSE
        /\ wifi.running = FALSE
    BY <1>1
  <2>3. wifi.sink \in [seen : Nat, done : BOOLEAN, after_done : BOOLEAN]
    BY <1>2
  <2>4. wifi.at \in Places
    BY <2>2 DEF Places
  <2>5. wifi.scan \in Nat /\ wifi.tasks \in {"none", "scan", "stop"}
    BY <2>2
  <2>6. wifi.pending \in BOOLEAN /\ wifi.late \in BOOLEAN /\ wifi.running \in BOOLEAN
    BY <2>2
  <2> QED BY ONLY <1>3, <2>1, <2>2, <2>3, <2>4, <2>5, <2>6 DEF WifiTyped
<1>5. EndsAreTrue
  BY <1>1, <1>2, <1>3 DEF EndsAreTrue, Wifi!CompleteIsOwn
<1>6. StopIsTrue
  BY <1>1, <1>2, <1>3 DEF StopIsTrue, Unheard, Early, Wifi!ConfirmedIsTrue
<1> QED BY <1>4, <1>5, <1>6 DEF WifiInv

(* The invariant of the wifi examples is inductive.                        *)
LEMMA WifiStep == WifiInv /\ [Wifi!Next]_wifi => WifiInv'
<1> SUFFICES ASSUME WifiInv, [Wifi!Next]_wifi PROVE WifiInv'
  OBVIOUS
<1>1. CASE UNCHANGED wifi
  BY <1>1 DEF WifiInv, WifiTyped, EndsAreTrue, EndIsTrue, ScanEnded, StopIsTrue, Unheard, RanThen,
              Wifi!CompleteIsOwn, Wifi!ConfirmedIsTrue
<1>2. CASE Wifi!Main
  BY <1>2, WaitUntilKept, MovesKept, InitDoneKept, OpenKept, StartScanKept, PhaseAKept, PhaseBKept,
     PhaseCKept, PhaseDKept, CloseKept DEF Wifi!Main, Wifi!PhaseC, Wifi!PhaseD
<1>3. CASE Wifi!Deliver \/ Wifi!Radio
  BY <1>3, DeliverKept, RadioInitKept, DrainKept, ScannedNetworkKept, ScanDoneKept DEF Wifi!Radio
<1> QED BY <1>1, <1>2, <1>3 DEF Wifi!Next

(* What wifi_stop_scan confirms it saw while a scan ran, and a scan that   *)
(* wifi_scan calls complete has ended, unless its pass took an end of the  *)
(* one before.                                                             *)
THEOREM WifiConcludesTruly == Spec => []ConfirmedIsTrue
<1>1. Init => WifiInv
  BY WifiInit DEF Init
<1>2. WifiInv /\ [Next]_vars => WifiInv'
  <2>1. [Next]_vars => [Wifi!Next]_wifi
    BY DEF Next, vars, DoomNext, DashNext, WifiNext, ThrottleNext, ProbeNext, RunnerNext,
           SmallNext
  <2> QED BY <2>1, WifiStep
<1>3. WifiInv => ConfirmedIsTrue
  BY DEF WifiInv, EndsAreTrue, StopIsTrue, ConfirmedIsTrue
<1> QED BY <1>1, <1>2, <1>3, PTL DEF Spec

-----------------------------------------------------------------------------
(***************************************************************************)
(* The screen probes.  While no line is marked and nothing was left behind *)
(* uncounted, an answer of an older command is one of a step of this very  *)
(* attempt that timed out.                                                 *)
(***************************************************************************)
Report == [whose : {"own", "old", "alarm", "other"}, status : {"ok", "failed", "fired", "done"}]

ProbeTyped ==
    /\ DOMAIN probe = {"program", "at", "op", "attempt", "frame", "write", "own", "others",
                       "poisoned", "marked", "left", "first", "subscribed", "armed", "serving",
                       "queue"}
    /\ probe.at \in {"attempt", "subscribe", "command", "wait", "after", "tally", "end"}
    /\ probe.op \in {"first", "frame", "write", "full", "fill"}
    /\ probe.serving \in {"none", "own", "old"} /\ probe.queue \in Seq(Report)
    /\ probe.own \in BOOLEAN /\ probe.poisoned \in BOOLEAN /\ probe.left \in BOOLEAN
    /\ probe.subscribed \in BOOLEAN

Holds(whose) == \E i \in 1..Len(probe.queue) : probe.queue[i].whose = whose

StepsAreApart ==
    /\ probe.at \notin {"command", "wait"} => ~probe.subscribed /\ Len(probe.queue) = 0
    /\ probe.serving = "own" => probe.at = "wait"
    /\ probe.at = "command" \/ probe.serving = "own" => ~Holds("own")
    /\ probe.at = "tally" => probe.op = "write"

Clean == Probe!FirstDraw /\ ~probe.poisoned /\ ~probe.left
Stale == probe.serving = "old" \/ Holds("old")

Excused ==
    \/ probe.op = "write" /\ probe.at \notin {"attempt", "end"} /\ probe.frame = "timeout"
    \/ probe.op = "frame" /\ probe.at = "after" /\ probe.frame = "timeout"
    \/ probe.op = "write" /\ probe.at \in {"after", "tally"} /\ probe.write = "timeout"
    \/ probe.op \in {"full", "fill", "first"} /\ probe.at = "after"

StaleIsExcused == Clean /\ Stale => Excused

WriteIsOwn ==
    Clean /\ ~probe.own /\ probe.op = "write" /\ probe.at \in {"after", "tally"}
       => probe.frame = "timeout"

ProbeInv == ProbeTyped /\ StepsAreApart /\ StaleIsExcused /\ WriteIsOwn

(* What Set changes is what it names.                                      *)
LEMMA ProbeSets ==
  ASSUME NEW f, Probe!Set(f)
  PROVE  /\ DOMAIN probe' = DOMAIN probe
         /\ \A x \in DOMAIN probe \cap DOMAIN f : probe'[x] = f[x]
         /\ \A x \in DOMAIN probe \ DOMAIN f : probe'[x] = probe[x]
BY DEF Probe!Set

(* What the end of a step sets.                                            *)
Ends(e, outcome, own) ==
    /\ {"at", "subscribed", "armed", "queue"} \subseteq DOMAIN e
    /\ DOMAIN e \subseteq {"at", "subscribed", "armed", "queue", "frame", "write", "own"}
    /\ e.at = "after" /\ e.subscribed = FALSE /\ e.queue = << >>
    /\ probe.op = "frame" => "frame" \in DOMAIN e /\ e.frame = outcome
    /\ probe.op # "frame" => "frame" \notin DOMAIN e
    /\ probe.op = "write" => {"write", "own"} \subseteq DOMAIN e /\ e.write = outcome /\ e.own = own
    /\ probe.op # "write" => {"write", "own"} \cap DOMAIN e = {}

(* End sets just that.                                                     *)
LEMMA EndIs ==
  ASSUME NEW outcome, NEW own
  PROVE  Ends(Probe!End(outcome, own), outcome, own)
<1> DEFINE g == [at |-> "after", subscribed |-> FALSE, armed |-> FALSE, queue |-> << >>]
<1>1. CASE probe.op = "frame"
  <2>1. Probe!End(outcome, own) = Probe!With([frame |-> outcome], g)
    BY <1>1 DEF Probe!End
  <2> QED BY <1>1, <2>1 DEF Probe!With, Ends
<1>2. CASE probe.op = "write"
  <2>1. Probe!End(outcome, own) = Probe!With([write |-> outcome, own |-> own], g)
    BY <1>2 DEF Probe!End
  <2> QED BY <1>2, <2>1 DEF Probe!With, Ends
<1>3. CASE probe.op \notin {"frame", "write"}
  <2>1. Probe!End(outcome, own) = Probe!With([at |-> "after"], g)
    BY <1>3 DEF Probe!End
  <2> QED BY <1>3, <2>1 DEF Probe!With, Ends
<1> QED BY <1>1, <1>2, <1>3

(* A step ends: with its outcome, its queue dropped, and the driver left   *)
(* with what is still to be answered.                                      *)
LEMMA EndDoes ==
  ASSUME ProbeTyped, NEW outcome, NEW own, NEW serving, NEW left,
         \/ /\ Probe!Set(Probe!End(outcome, own))
            /\ serving = probe.serving /\ left = probe.left
         \/ /\ Probe!Set(Probe!With([serving |-> serving], Probe!End(outcome, own)))
            /\ left = probe.left
         \/ Probe!Set(Probe!With([serving |-> serving, left |-> left], Probe!End(outcome, own)))
  PROVE  /\ DOMAIN probe' = DOMAIN probe /\ probe'.at = "after" /\ probe'.op = probe.op
         /\ probe'.program = probe.program /\ probe'.poisoned = probe.poisoned
         /\ probe'.subscribed = FALSE /\ probe'.queue = << >>
         /\ probe'.serving = serving /\ probe'.left = left
         /\ probe.op = "frame" => probe'.frame = outcome
         /\ probe.op # "frame" => probe'.frame = probe.frame
         /\ probe.op = "write" => probe'.write = outcome /\ probe'.own = own
         /\ probe.op # "write" => probe'.write = probe.write /\ probe'.own = probe.own
<1> DEFINE e == Probe!End(outcome, own)
<1>1. Ends(e, outcome, own)
  BY EndIs
<1>2. PICK f : /\ Probe!Set(f)
               /\ {"at", "subscribed", "armed", "queue"} \subseteq DOMAIN f
               /\ probe.op = "frame" => "frame" \in DOMAIN f /\ f.frame = outcome
               /\ probe.op = "write" => {"write", "own"} \subseteq DOMAIN f
                                        /\ f.write = outcome /\ f.own = own
               /\ probe.op # "frame" => "frame" \notin DOMAIN f
               /\ probe.op # "write" => {"write", "own"} \cap DOMAIN f = {}
               /\ DOMAIN f \cap {"op", "program", "poisoned"} = {}
               /\ f.at = "after" /\ f.subscribed = FALSE /\ f.queue = << >>
               /\ IF "serving" \in DOMAIN f THEN f.serving = serving ELSE serving = probe.serving
               /\ IF "left" \in DOMAIN f THEN f.left = left ELSE left = probe.left
  <2>1. CASE Probe!Set(e) /\ serving = probe.serving /\ left = probe.left
    <3> HIDE DEF e
    <3> QED BY <1>1, <2>1 DEF Ends
  <2>2. CASE Probe!Set(Probe!With([serving |-> serving], e)) /\ left = probe.left
    <3> DEFINE f == Probe!With([serving |-> serving], e)
    <3>1. DOMAIN f = {"serving"} \cup DOMAIN e /\ f.serving = serving
          /\ \A x \in DOMAIN e \ {"serving"} : f[x] = e[x]
      <4> HIDE DEF e
      <4> QED BY DEF Probe!With
    <3> HIDE DEF e, f
    <3> QED BY <1>1, <2>2, <3>1 DEF f, Ends
  <2>3. CASE Probe!Set(Probe!With([serving |-> serving, left |-> left], e))
    <3> DEFINE f == Probe!With([serving |-> serving, left |-> left], e)
    <3>1. DOMAIN f = {"serving", "left"} \cup DOMAIN e /\ f.serving = serving /\ f.left = left
          /\ \A x \in DOMAIN e \ {"serving", "left"} : f[x] = e[x]
      <4> HIDE DEF e
      <4> QED BY DEF Probe!With
    <3> HIDE DEF e, f
    <3> QED BY <1>1, <2>3, <3>1 DEF f, Ends
  <2> QED BY <2>1, <2>2, <2>3
<1> QED BY <1>2, ProbeSets DEF ProbeTyped


(* The queue of a step holds what it held, or one upcall more.             *)
LEMMA ProbeQueued ==
  ASSUME ProbeTyped, NEW u \in Report, NEW q, q = Probe!Queued(u).queue
  PROVE  /\ q \in Seq(Report)
         /\ ~probe.subscribed => q = probe.queue
         /\ \A i \in 1..Len(q) : q[i].whose = u.whose \/ Holds(q[i].whose)
<1>1. /\ q = IF probe.subscribed THEN Append(probe.queue, u) ELSE probe.queue
      /\ probe.queue \in Seq(Report)
  BY DEF Probe!Queued, ProbeTyped
<1> QED BY <1>1 DEF Holds

(* An upcall is queued, by the driver, the alarm or another.               *)
LEMMA QueueKeeps ==
  ASSUME ProbeInv, NEW u \in Report, NEW g, Probe!Set(Probe!With(g, Probe!Queued(u))),
         DOMAIN g \subseteq {"serving", "armed", "others"},
         IF "serving" \in DOMAIN g
         THEN g.serving = "none" /\ u.whose = probe.serving
         ELSE u.whose \notin {"own", "old"}
  PROVE  ProbeInv'
<1>0. ProbeTyped /\ StepsAreApart /\ StaleIsExcused /\ WriteIsOwn
  BY DEF ProbeInv
<1> DEFINE f == Probe!With(g, Probe!Queued(u))
<1>1. /\ DOMAIN f = DOMAIN g \cup {"queue"}
      /\ f.queue = Probe!Queued(u).queue
      /\ "serving" \in DOMAIN g => f.serving = "none"
  <2> DEFINE q == Probe!Queued(u)
  <2>1. DOMAIN q = {"queue"} /\ "queue" \notin DOMAIN g
    BY DEF Probe!Queued
  <2> HIDE DEF q
  <2>2. f = Probe!With(g, q)
    BY DEF q
  <2>3. /\ DOMAIN f = DOMAIN g \cup DOMAIN q
        /\ \A x \in DOMAIN g : f[x] = g[x]
        /\ \A x \in DOMAIN q \ DOMAIN g : f[x] = q[x]
    BY <2>2 DEF Probe!With
  <2> HIDE DEF f
  <2>4. f.queue = q.queue
    BY <2>1, <2>3
  <2> QED BY <2>1, <2>3, <2>4 DEF q
<1>2. /\ DOMAIN probe' = DOMAIN probe
      /\ probe'.at = probe.at /\ probe'.op = probe.op /\ probe'.program = probe.program
      /\ probe'.poisoned = probe.poisoned /\ probe'.left = probe.left
      /\ probe'.own = probe.own /\ probe'.frame = probe.frame /\ probe'.write = probe.write
      /\ probe'.subscribed = probe.subscribed
      /\ probe'.queue = Probe!Queued(u).queue
      /\ probe'.serving = IF "serving" \in DOMAIN g THEN "none" ELSE probe.serving
  <2>1. Probe!Set(f)
    OBVIOUS
  <2> HIDE DEF f
  <2> QED BY <2>1, <1>0, <1>1, ProbeSets DEF ProbeTyped
<1>3. /\ probe'.queue \in Seq(Report)
      /\ ~probe.subscribed => probe'.queue = probe.queue
      /\ Holds("own")' => Holds("own") \/ u.whose = "own"
      /\ Holds("old")' => Holds("old") \/ u.whose = "old"
  <2>1. /\ probe'.queue \in Seq(Report)
        /\ ~probe.subscribed => probe'.queue = probe.queue
        /\ \A i \in 1..Len(probe'.queue) :
             probe'.queue[i].whose = u.whose \/ Holds(probe'.queue[i].whose)
    BY <1>0, <1>2, ProbeQueued
  <2> QED BY <2>1 DEF Holds
<1>4. ProbeTyped'
  BY <1>0, <1>2, <1>3 DEF ProbeTyped
<1>5. StepsAreApart'
  BY <1>0, <1>2, <1>3 DEF StepsAreApart
<1>6. Stale' => Stale
  BY <1>2, <1>3 DEF Stale
<1>7. StaleIsExcused' /\ WriteIsOwn'
  BY <1>0, <1>2, <1>6 DEF StaleIsExcused, WriteIsOwn, Clean, Excused, Probe!FirstDraw
<1> QED BY <1>4, <1>5, <1>7 DEF ProbeInv

(* The driver answers the command it has.                                  *)
LEMMA AnswerKeeps ==
  ASSUME ProbeInv, Probe!Answer
  PROVE  ProbeInv'
<1>1. PICK s \in {"ok", "failed"} :
        Probe!Set(Probe!With([serving |-> "none"], Probe!Queued(Probe!Of(probe.serving, s))))
  BY DEF Probe!Answer
<1>2. Probe!Of(probe.serving, s) \in Report /\ Probe!Of(probe.serving, s).whose = probe.serving
  BY DEF Probe!Of, Report, ProbeInv, ProbeTyped, Probe!Answer
<1> QED BY <1>1, <1>2, QueueKeeps

(* The deadline is no answer.                                              *)
LEMMA FireKeeps ==
  ASSUME ProbeInv, Probe!Fire
  PROVE  ProbeInv'
<1>1. Probe!Set(Probe!With([armed |-> FALSE], Probe!Queued(Probe!Of("alarm", "fired"))))
  BY DEF Probe!Fire
<1>2. Probe!Of("alarm", "fired") \in Report /\ Probe!Of("alarm", "fired").whose = "alarm"
  BY DEF Probe!Of, Report
<1> QED BY <1>1, <1>2, QueueKeeps

(* Another driver's upcall is none either.                                 *)
LEMMA OtherKeeps ==
  ASSUME ProbeInv, Probe!Other
  PROVE  ProbeInv'
<1>1. Probe!Set(Probe!With([others |-> probe.others + 1],
                           Probe!Queued(Probe!Of("other", "done"))))
  BY DEF Probe!Other
<1>2. Probe!Of("other", "done") \in Report /\ Probe!Of("other", "done").whose = "other"
  BY DEF Probe!Of, Report
<1> QED BY <1>1, <1>2, QueueKeeps

(* What an end of a step keeps: its outcome is what excuses what is left.  *)
LEMMA EndKeeps ==
  ASSUME ProbeInv, probe.at \in {"subscribe", "command", "wait"},
         NEW outcome, NEW own \in BOOLEAN, NEW serving \in {"none", "old"}, NEW left \in BOOLEAN,
         \/ /\ Probe!Set(Probe!End(outcome, own))
            /\ serving = probe.serving /\ left = probe.left
         \/ /\ Probe!Set(Probe!With([serving |-> serving], Probe!End(outcome, own)))
            /\ left = probe.left
         \/ Probe!Set(Probe!With([serving |-> serving, left |-> left], Probe!End(outcome, own))),
         ~left => ~probe.left,
         ~left /\ serving = "old" => Stale \/ outcome = "timeout",
         own \/ Stale
  PROVE  ProbeInv'
<1>0. ProbeTyped /\ StepsAreApart /\ StaleIsExcused /\ WriteIsOwn
  BY DEF ProbeInv
<1>1. /\ DOMAIN probe' = DOMAIN probe /\ probe'.at = "after" /\ probe'.op = probe.op
      /\ probe'.program = probe.program /\ probe'.poisoned = probe.poisoned
      /\ probe'.subscribed = FALSE /\ probe'.queue = << >>
      /\ probe'.serving = serving /\ probe'.left = left
      /\ probe.op = "frame" => probe'.frame = outcome
      /\ probe.op # "frame" => probe'.frame = probe.frame
      /\ probe.op = "write" => probe'.write = outcome /\ probe'.own = own
      /\ probe.op # "write" => probe'.write = probe.write /\ probe'.own = probe.own
  BY <1>0, EndDoes
<1>2. ProbeTyped'
  <2>1. probe'.own \in BOOLEAN
    BY <1>0, <1>1 DEF ProbeTyped
  <2>2. probe'.queue \in Seq(Report)
    BY <1>1
  <2> QED BY <1>0, <1>1, <2>1, <2>2 DEF ProbeTyped
<1>3. Len(probe'.queue) = 0 /\ ~Holds("own")' /\ ~Holds("old")'
  <2>1. Len(probe'.queue) = 0
    BY <1>1
  <2> QED BY <2>1 DEF Holds
<1>4. StepsAreApart'
  BY <1>1, <1>3 DEF StepsAreApart
<1>5. ASSUME Clean'
      PROVE  /\ Clean
             /\ Stale => probe.op = "write" /\ probe.frame = "timeout"
             /\ Stale' => Stale \/ outcome = "timeout"
  <2>1. Clean
    BY <1>1, <1>5 DEF Clean, Probe!FirstDraw
  <2>2. Stale => probe.op = "write" /\ probe.frame = "timeout"
    BY <1>0, <2>1 DEF StaleIsExcused, Excused
  <2>3. Stale' => Stale \/ outcome = "timeout"
    BY <1>1, <1>3, <1>5 DEF Stale, Clean
  <2> QED BY <2>1, <2>2, <2>3
<1>6. StaleIsExcused'
  <2> SUFFICES ASSUME Clean', Stale' PROVE Excused'
    BY DEF StaleIsExcused
  <2>1. CASE Stale
    BY <1>1, <1>5, <2>1 DEF Excused
  <2>2. CASE outcome = "timeout"
    BY <1>0, <1>1, <2>2 DEF Excused, ProbeTyped
  <2> QED BY <1>5, <2>1, <2>2
<1>7. WriteIsOwn'
  BY <1>1, <1>5 DEF WriteIsOwn
<1> QED BY <1>2, <1>4, <1>6, <1>7 DEF ProbeInv

(* A step begins with an empty queue of its own.                           *)
LEMMA SubscribeKeeps ==
  ASSUME ProbeInv, Probe!Subscribe
  PROVE  ProbeInv'
<1>0. ProbeTyped /\ StepsAreApart /\ StaleIsExcused /\ WriteIsOwn /\ probe.at = "subscribe"
  BY DEF ProbeInv, Probe!Subscribe, Probe!At
<1>1. CASE Probe!Set([at |-> "command", subscribed |-> TRUE, queue |-> << >>])
  <2>1. /\ DOMAIN probe' = DOMAIN probe
        /\ probe'.at = "command" /\ probe'.op = probe.op /\ probe'.program = probe.program
        /\ probe'.poisoned = probe.poisoned /\ probe'.left = probe.left
        /\ probe'.own = probe.own /\ probe'.frame = probe.frame /\ probe'.write = probe.write
        /\ probe'.subscribed = TRUE /\ probe'.queue = << >> /\ probe'.serving = probe.serving
    BY <1>0, <1>1 DEF ProbeTyped, Probe!Set
  <2>2. probe'.queue \in Seq(Report) /\ Len(probe'.queue) = 0
    BY <2>1
  <2>3. ~Holds("own")' /\ ~Holds("old")'
    BY <2>2 DEF Holds
  <2>4. ProbeTyped'
    BY <1>0, <2>1, <2>2 DEF ProbeTyped
  <2>5. StepsAreApart'
    BY <1>0, <2>1, <2>3 DEF StepsAreApart
  <2>6. StaleIsExcused' /\ WriteIsOwn'
    BY <1>0, <2>1, <2>3
       DEF StaleIsExcused, WriteIsOwn, Stale, Clean, Excused, Probe!FirstDraw
  <2> QED BY <2>4, <2>5, <2>6 DEF ProbeInv
<1>2. CASE Probe!Set(Probe!End("setup", TRUE))
  <2>1. probe.serving \in {"none", "old"} /\ probe.left \in BOOLEAN
    BY <1>0 DEF ProbeTyped, StepsAreApart
  <2>2. probe.serving = "old" => Stale
    BY DEF Stale
  <2> QED BY <1>0, <1>2, <2>1, <2>2, EndKeeps
<1> QED BY <1>1, <1>2 DEF Probe!Subscribe

(* A command that is accepted finds the driver free and nothing of its own *)
(* queued.                                                                 *)
LEMMA CommandKeeps ==
  ASSUME ProbeInv, Probe!Command
  PROVE  ProbeInv'
<1>0. ProbeTyped /\ StepsAreApart /\ StaleIsExcused /\ WriteIsOwn /\ probe.at = "command"
  BY DEF ProbeInv, Probe!Command, Probe!At
<1>1. CASE Probe!Set(Probe!End("refused", TRUE))
  <2>1. probe.serving \in {"none", "old"} /\ probe.left \in BOOLEAN
    BY <1>0 DEF ProbeTyped, StepsAreApart
  <2>2. probe.serving = "old" => Stale
    BY DEF Stale
  <2> QED BY <1>0, <1>1, <2>1, <2>2, EndKeeps
<1>2. CASE probe.serving = "none"
           /\ Probe!Set(Probe!With([at |-> "wait", serving |-> "own"], Probe!Arm))
  <2>1. PICK f : /\ Probe!Set(f) /\ DOMAIN f = {"at", "serving", "armed"}
                 /\ f.at = "wait" /\ f.serving = "own"
    <3> DEFINE f == Probe!With([at |-> "wait", serving |-> "own"], Probe!Arm)
    <3>1. DOMAIN f = {"at", "serving", "armed"} /\ f.at = "wait" /\ f.serving = "own"
      BY DEF Probe!With, Probe!Arm
    <3> HIDE DEF f
    <3> QED BY <1>2, <3>1 DEF f
  <2>2. /\ DOMAIN probe' = DOMAIN probe
        /\ probe'.at = "wait" /\ probe'.op = probe.op /\ probe'.program = probe.program
        /\ probe'.poisoned = probe.poisoned /\ probe'.left = probe.left
        /\ probe'.own = probe.own /\ probe'.frame = probe.frame /\ probe'.write = probe.write
        /\ probe'.subscribed = probe.subscribed /\ probe'.queue = probe.queue
        /\ probe'.serving = "own"
    BY <1>0, <2>1, ProbeSets DEF ProbeTyped
  <2>3. ~Holds("own") /\ (Holds("own")' <=> Holds("own")) /\ (Holds("old")' <=> Holds("old"))
    BY <1>0, <2>2 DEF Holds, StepsAreApart
  <2>4. ProbeTyped' /\ StepsAreApart'
    BY <1>0, <2>2, <2>3 DEF ProbeTyped, StepsAreApart
  <2>5. StaleIsExcused' /\ WriteIsOwn'
    BY <1>0, <2>2, <2>3
       DEF StaleIsExcused, WriteIsOwn, Stale, Clean, Excused, Probe!FirstDraw
  <2> QED BY <2>4, <2>5 DEF ProbeInv
<1>3. CASE Probe!Set(Probe!With([serving |-> "old", left |-> TRUE], Probe!End("setup", TRUE)))
  BY <1>0, <1>3, EndKeeps
<1> QED BY <1>1, <1>2, <1>3 DEF Probe!Command

(* What is waited for ends the step; what is not leaves the queue.         *)
LEMMA WaitKeeps ==
  ASSUME ProbeInv, Probe!Wait
  PROVE  ProbeInv'
<1>0. /\ ProbeTyped /\ StepsAreApart /\ StaleIsExcused /\ WriteIsOwn
      /\ probe.at = "wait" /\ probe.queue # << >>
  BY DEF ProbeInv, Probe!Wait, Probe!At
<1> DEFINE u == Head(probe.queue)
<1>1. /\ u \in Report /\ Len(probe.queue) > 0 /\ u = probe.queue[1]
      /\ Tail(probe.queue) \in Seq(Report)
      /\ \A i \in 1..Len(Tail(probe.queue)) :
           i + 1 \in 1..Len(probe.queue) /\ Tail(probe.queue)[i] = probe.queue[i + 1]
  BY <1>0 DEF ProbeTyped
<1>2. Holds(u.whose)
  BY <1>1 DEF Holds
<1>3. CASE u.whose = "other"
  <2>1. Probe!Set([queue |-> Tail(probe.queue)])
    BY <1>3 DEF Probe!Wait
  <2>2. /\ DOMAIN probe' = DOMAIN probe
        /\ probe'.at = probe.at /\ probe'.op = probe.op /\ probe'.program = probe.program
        /\ probe'.poisoned = probe.poisoned /\ probe'.left = probe.left
        /\ probe'.own = probe.own /\ probe'.frame = probe.frame /\ probe'.write = probe.write
        /\ probe'.subscribed = probe.subscribed /\ probe'.queue = Tail(probe.queue)
        /\ probe'.serving = probe.serving
    BY <1>0, <2>1 DEF ProbeTyped, Probe!Set
  <2>3. (Holds("own")' => Holds("own")) /\ (Holds("old")' => Holds("old"))
    BY <1>1, <2>2 DEF Holds
  <2>4. ProbeTyped'
    BY <1>0, <1>1, <2>2 DEF ProbeTyped
  <2>5. StepsAreApart'
    BY <1>0, <2>2, <2>3 DEF StepsAreApart
  <2>6. StaleIsExcused' /\ WriteIsOwn'
    BY <1>0, <2>2, <2>3
       DEF StaleIsExcused, WriteIsOwn, Stale, Clean, Excused, Probe!FirstDraw
  <2> QED BY <2>4, <2>5, <2>6 DEF ProbeInv
<1>4. /\ Probe!Late \in {"none", "old"} /\ probe.left \in BOOLEAN
      /\ probe.serving # "own" => Probe!Late = probe.serving
  BY <1>0 DEF Probe!Late, ProbeTyped
<1>5. CASE u.whose = "alarm"
  <2>1. Probe!Set(Probe!With([serving |-> Probe!Late], Probe!End("timeout", TRUE)))
    BY <1>5 DEF Probe!Wait
  <2> QED BY <1>0, <1>4, <2>1, EndKeeps
<1>6. CASE u.whose \in {"own", "old"}
  <2>1. Probe!Set(Probe!With([serving |-> Probe!Late],
                             Probe!End(u.status, u.whose = "own")))
    BY <1>6 DEF Probe!Wait
  <2>2. u.whose = "old" => Stale
    BY <1>2 DEF Stale
  <2>3. probe.serving = "own" => u.whose = "old"
    BY <1>0, <1>2, <1>6 DEF StepsAreApart
  <2>4. Probe!Late = "old" => Stale
    BY <1>4, <2>2, <2>3 DEF Stale
  <2>5. PICK own \in BOOLEAN : own = (u.whose = "own")
    OBVIOUS
  <2>6. own \/ Stale
    BY <1>6, <2>2, <2>5
  <2>7. PICK status : status = u.status
    OBVIOUS
  <2>8. Probe!Set(Probe!With([serving |-> Probe!Late], Probe!End(status, own)))
    BY <2>1, <2>5, <2>7
  <2>9. PICK late \in {"none", "old"} : late = Probe!Late
    BY <1>4
  <2> HIDE DEF u
  <2>10. Probe!Set(Probe!With([serving |-> late], Probe!End(status, own)))
    BY <2>8, <2>9
  <2> QED BY <1>0, <1>4, <2>4, <2>6, <2>9, <2>10, EndKeeps
<1> QED BY <1>1, <1>3, <1>5, <1>6 DEF Report

(* Outside a step nothing is queued, and a step that begins finds what the *)
(* driver was left with.                                                   *)
LEMMA BetweenKeeps ==
  ASSUME ProbeInv, probe.at \in {"attempt", "after", "tally"},
         DOMAIN probe' = DOMAIN probe,
         probe'.at \in {"attempt", "subscribe", "tally", "end"},
         probe'.op \in {"first", "frame", "write", "full", "fill"},
         probe'.at = "tally" => probe'.op = "write",
         probe'.program = probe.program, probe'.serving = probe.serving,
         probe'.queue = probe.queue, probe'.subscribed = probe.subscribed,
         probe'.poisoned \in BOOLEAN, probe'.left \in BOOLEAN, probe'.own \in BOOLEAN
  PROVE  ProbeTyped' /\ StepsAreApart' /\ (Stale' <=> probe.serving = "old")
         /\ (Stale <=> probe.serving = "old")
<1>0. ProbeTyped /\ StepsAreApart /\ Len(probe.queue) = 0
  BY DEF ProbeInv, StepsAreApart
<1>1. ~Holds("own") /\ ~Holds("old") /\ ~Holds("own")' /\ ~Holds("old")'
  <2>1. Len(probe'.queue) = 0
    BY <1>0
  <2> QED BY <1>0, <2>1 DEF Holds
<1>2. ProbeTyped'
  BY <1>0 DEF ProbeTyped
<1>3. StepsAreApart'
  BY <1>0, <1>1 DEF StepsAreApart
<1>4. (Stale' <=> probe.serving = "old") /\ (Stale <=> probe.serving = "old")
  BY <1>1 DEF Stale
<1> QED BY <1>2, <1>3, <1>4

(* A step that timed out is followed by one that is excused, or is         *)
(* counted.                                                                *)
LEMMA AfterKeeps ==
  ASSUME ProbeInv, Probe!After
  PROVE  ProbeInv'
<1>0. ProbeTyped /\ StaleIsExcused /\ WriteIsOwn /\ probe.at = "after"
  BY DEF ProbeInv, Probe!After, Probe!At
<1>1. CASE probe.op = "frame"
  <2>1. Probe!Set(Probe!Begin("write"))
    BY <1>1 DEF Probe!After
  <2>2. /\ DOMAIN probe' = DOMAIN probe /\ probe'.at = "subscribe" /\ probe'.op = "write"
        /\ probe'.program = probe.program /\ probe'.serving = probe.serving
        /\ probe'.queue = probe.queue /\ probe'.subscribed = probe.subscribed
        /\ probe'.poisoned = probe.poisoned /\ probe'.left = probe.left
        /\ probe'.own = probe.own /\ probe'.frame = probe.frame
    BY <1>0, <2>1 DEF ProbeTyped, Probe!Set, Probe!Begin
  <2>3. ProbeTyped' /\ StepsAreApart' /\ (Stale' => Stale)
    BY <1>0, <2>2, BetweenKeeps DEF ProbeTyped
  <2>4. StaleIsExcused' /\ WriteIsOwn'
    BY <1>0, <1>1, <2>2, <2>3 DEF StaleIsExcused, WriteIsOwn, Clean, Excused, Probe!FirstDraw
  <2> QED BY <2>3, <2>4 DEF ProbeInv
<1>2. CASE probe.op = "write"
  <2>1. Probe!Set([at |-> "tally"])
    BY <1>2 DEF Probe!After
  <2>2. /\ DOMAIN probe' = DOMAIN probe /\ probe'.at = "tally" /\ probe'.op = "write"
        /\ probe'.program = probe.program /\ probe'.serving = probe.serving
        /\ probe'.queue = probe.queue /\ probe'.subscribed = probe.subscribed
        /\ probe'.poisoned = probe.poisoned /\ probe'.left = probe.left
        /\ probe'.own = probe.own /\ probe'.frame = probe.frame /\ probe'.write = probe.write
    BY <1>0, <1>2, <2>1 DEF ProbeTyped, Probe!Set
  <2>3. ProbeTyped' /\ StepsAreApart' /\ (Stale' => Stale)
    BY <1>0, <2>2, BetweenKeeps DEF ProbeTyped
  <2>4. StaleIsExcused' /\ WriteIsOwn'
    BY <1>0, <1>2, <2>2, <2>3 DEF StaleIsExcused, WriteIsOwn, Clean, Excused, Probe!FirstDraw
  <2> QED BY <2>3, <2>4 DEF ProbeInv
<1>3. CASE probe.op \in {"full", "fill", "first"}
  <2>1. PICK left \in BOOLEAN : left = (probe.left \/ probe.serving = "old")
    BY <1>0 DEF ProbeTyped
  <2>2. PICK f : /\ Probe!Set(f) /\ f.left = left /\ f.at \in {"attempt", "subscribe"}
                 /\ "op" \in DOMAIN f => f.op = "fill"
                 /\ {"at", "left"} \subseteq DOMAIN f
                 /\ DOMAIN f \subseteq {"at", "left", "op", "others"}
    <3>1. CASE probe.op = "full"
      <4> DEFINE f == Probe!With([left |-> left], Probe!Begin("fill"))
      <4>1. Probe!Set(f)
        BY <2>1, <3>1 DEF Probe!After
      <4>2. f.left = left /\ f.at = "subscribe" /\ f.op = "fill"
            /\ DOMAIN f = {"at", "left", "op", "others"}
        BY DEF Probe!With, Probe!Begin
      <4> HIDE DEF f
      <4> QED BY <4>1, <4>2
    <3>2. CASE probe.op # "full"
      <4> DEFINE f == [at |-> "attempt", left |-> left]
      <4>1. Probe!Set(f)
        BY <1>3, <2>1, <3>2 DEF Probe!After
      <4>2. f.left = left /\ f.at = "attempt" /\ DOMAIN f = {"at", "left"}
        OBVIOUS
      <4> HIDE DEF f
      <4> QED BY <4>1, <4>2
    <3> QED BY <3>1, <3>2
  <2>3. /\ DOMAIN probe' = DOMAIN probe /\ probe'.at \in {"attempt", "subscribe"}
        /\ probe'.op \in {probe.op, "fill"}
        /\ probe'.program = probe.program /\ probe'.serving = probe.serving
        /\ probe'.queue = probe.queue /\ probe'.subscribed = probe.subscribed
        /\ probe'.poisoned = probe.poisoned /\ probe'.left = left
        /\ probe'.own = probe.own
    BY <1>0, <2>2, ProbeSets DEF ProbeTyped
  <2>4. ProbeTyped' /\ StepsAreApart' /\ (Stale' <=> probe.serving = "old")
    BY <1>0, <1>3, <2>3, BetweenKeeps DEF ProbeTyped
  <2>5. StaleIsExcused' /\ WriteIsOwn'
    BY <2>1, <2>3, <2>4 DEF StaleIsExcused, WriteIsOwn, Clean
  <2> QED BY <2>4, <2>5 DEF ProbeInv
<1> QED BY <1>0, <1>1, <1>2, <1>3 DEF ProbeTyped

(* An attempt that left a command behind at the tally poisons those after  *)
(* it: a clean run goes on with nothing outstanding.                       *)
LEMMA TallyKeeps ==
  ASSUME ProbeInv, Probe!TallyLine
  PROVE  ProbeInv'
<1>0. /\ ProbeTyped /\ StaleIsExcused /\ WriteIsOwn /\ probe.at = "tally"
      /\ probe.op = "write"
  BY DEF ProbeInv, StepsAreApart, Probe!TallyLine, Probe!At
<1>1. PICK poisoned \in BOOLEAN :
        poisoned = (probe.poisoned \/ Probe!Poisons(probe.frame, probe.write))
  BY <1>0 DEF ProbeTyped, Probe!Poisons, Probe!FirstDraw
<1>2. PICK painting \in BOOLEAN :
        painting = (Probe!FirstDraw /\ probe.write = "ok" /\ ~probe.first)
  OBVIOUS
<1>3. PICK f : /\ Probe!Set(f) /\ f.poisoned = poisoned /\ f.at \in {"attempt", "subscribe"}
               /\ "op" \in DOMAIN f => f.op = "full"
               /\ {"at", "poisoned"} \subseteq DOMAIN f
               /\ DOMAIN f \subseteq {"at", "marked", "poisoned", "first", "op", "others"}
  <2> DEFINE g == [marked |-> probe.poisoned, poisoned |-> poisoned,
                   first |-> probe.first \/ painting]
             b == IF painting THEN Probe!Begin("full") ELSE [at |-> "attempt"]
             f == Probe!With(g, b)
  <2>1. Probe!Set(f)
    BY <1>1, <1>2 DEF Probe!TallyLine, Probe!Tally
  <2>2. DOMAIN g = {"marked", "poisoned", "first"} /\ g.poisoned = poisoned
    OBVIOUS
  <2>3. /\ "at" \in DOMAIN b /\ b.at \in {"attempt", "subscribe"}
        /\ DOMAIN b \subseteq {"at", "op", "others"}
        /\ "op" \in DOMAIN b => b.op = "full"
    <3>1. CASE painting
      BY <3>1 DEF Probe!Begin
    <3>2. CASE ~painting
      BY <3>2
    <3> QED BY <3>1, <3>2
  <2> HIDE DEF g, b
  <2>4. /\ DOMAIN f = DOMAIN g \cup DOMAIN b
        /\ \A x \in DOMAIN g : f[x] = g[x]
        /\ \A x \in DOMAIN b \ DOMAIN g : f[x] = b[x]
    BY DEF Probe!With
  <2> HIDE DEF f
  <2>5. /\ f.poisoned = poisoned /\ f.at = b.at
        /\ "op" \in DOMAIN f => f.op = b.op /\ "op" \in DOMAIN b
    BY <2>2, <2>3, <2>4
  <2> QED BY <2>1, <2>2, <2>3, <2>4, <2>5
<1>4. /\ DOMAIN probe' = DOMAIN probe /\ probe'.at \in {"attempt", "subscribe"}
      /\ probe'.op \in {probe.op, "full"}
      /\ probe'.program = probe.program /\ probe'.serving = probe.serving
      /\ probe'.queue = probe.queue /\ probe'.subscribed = probe.subscribed
      /\ probe'.poisoned = poisoned /\ probe'.left = probe.left
      /\ probe'.own = probe.own
  BY <1>0, <1>3, ProbeSets DEF ProbeTyped
<1>5. ProbeTyped' /\ StepsAreApart' /\ (Stale' => Stale)
  BY <1>0, <1>4, BetweenKeeps DEF ProbeTyped
<1>6. StaleIsExcused'
  <2> SUFFICES ASSUME Clean', Stale PROVE FALSE
    BY <1>5 DEF StaleIsExcused
  <2>1. Clean /\ probe.frame # "timeout" /\ probe.write # "timeout"
    BY <1>1, <1>4 DEF Clean, Probe!FirstDraw, Probe!Poisons
  <2> QED BY <1>0, <2>1 DEF StaleIsExcused, Excused
<1>7. WriteIsOwn'
  BY <1>4 DEF WriteIsOwn
<1> QED BY <1>5, <1>6, <1>7 DEF ProbeInv

(* An attempt of a clean run begins with nothing outstanding.              *)
LEMMA AttemptKeeps ==
  ASSUME ProbeInv, Probe!Attempt \/ Probe!Stop
  PROVE  ProbeInv'
<1>0. ProbeTyped /\ StaleIsExcused /\ probe.at = "attempt"
  BY DEF ProbeInv, Probe!Attempt, Probe!Stop, Probe!At
<1>1. PICK f : /\ Probe!Set(f)
               /\ "at" \in DOMAIN f /\ f.at \in {"subscribe", "end"}
               /\ "op" \in DOMAIN f => f.op \in {"first", "frame"}
               /\ "own" \in DOMAIN f => f.own = TRUE
               /\ DOMAIN f \subseteq {"at", "op", "others", "first", "attempt", "frame",
                                      "write", "own"}
  <2>1. CASE Probe!Set(Probe!With([first |-> TRUE], Probe!Begin("first")))
    <3> DEFINE f == Probe!With([first |-> TRUE], Probe!Begin("first"))
    <3>1. DOMAIN f = {"first", "at", "op", "others"} /\ f.at = "subscribe" /\ f.op = "first"
      BY DEF Probe!With, Probe!Begin
    <3> HIDE DEF f
    <3> QED BY <2>1, <3>1 DEF f
  <2>2. CASE Probe!Set(Probe!With([attempt |-> probe.attempt + 1, frame |-> "none",
                                   write |-> "none", own |-> TRUE], Probe!Begin("frame")))
    <3> DEFINE f == Probe!With([attempt |-> probe.attempt + 1, frame |-> "none",
                                write |-> "none", own |-> TRUE], Probe!Begin("frame"))
    <3>1. DOMAIN f = {"attempt", "frame", "write", "own", "at", "op", "others"}
          /\ f.at = "subscribe" /\ f.op = "frame" /\ f.own = TRUE
      BY DEF Probe!With, Probe!Begin
    <3> HIDE DEF f
    <3> QED BY <2>2, <3>1 DEF f
  <2>3. CASE Probe!Set([at |-> "end"])
    <3> DEFINE f == [at |-> "end"]
    <3>1. DOMAIN f = {"at"} /\ f.at = "end"
      OBVIOUS
    <3> HIDE DEF f
    <3> QED BY <2>3, <3>1 DEF f
  <2> QED BY <2>1, <2>2, <2>3 DEF Probe!Attempt, Probe!Stop
<1>2. /\ DOMAIN probe' = DOMAIN probe /\ probe'.at \in {"subscribe", "end"}
      /\ probe'.op \in {probe.op, "first", "frame"}
      /\ probe'.program = probe.program /\ probe'.serving = probe.serving
      /\ probe'.queue = probe.queue /\ probe'.subscribed = probe.subscribed
      /\ probe'.poisoned = probe.poisoned /\ probe'.left = probe.left
      /\ probe'.own \in BOOLEAN
  <2>1. /\ DOMAIN probe' = DOMAIN probe
        /\ \A x \in DOMAIN probe \cap DOMAIN f : probe'[x] = f[x]
        /\ \A x \in DOMAIN probe \ DOMAIN f : probe'[x] = probe[x]
    BY <1>1, ProbeSets
  <2>2. probe'.own \in BOOLEAN
    <3>1. CASE "own" \in DOMAIN f
      BY <1>0, <1>1, <2>1, <3>1 DEF ProbeTyped
    <3>2. CASE "own" \notin DOMAIN f
      BY <1>0, <2>1, <3>2 DEF ProbeTyped
    <3> QED BY <3>1, <3>2
  <2>3. probe'.op \in {probe.op, "first", "frame"} /\ probe'.at \in {"subscribe", "end"}
    BY <1>0, <1>1, <2>1 DEF ProbeTyped
  <2> QED BY <1>0, <1>1, <2>1, <2>2, <2>3 DEF ProbeTyped
<1>3. ProbeTyped' /\ StepsAreApart' /\ (Stale' => Stale)
  BY <1>0, <1>2, BetweenKeeps DEF ProbeTyped
<1>4. StaleIsExcused'
  <2>1. ~(Clean /\ Stale)
    BY <1>0 DEF StaleIsExcused, Excused
  <2> QED BY <1>2, <1>3, <2>1 DEF StaleIsExcused, Clean, Probe!FirstDraw
<1>5. WriteIsOwn'
  BY <1>2 DEF WriteIsOwn
<1> QED BY <1>3, <1>4, <1>5 DEF ProbeInv

(* Nothing is outstanding at the start.                                    *)
LEMMA ProbeInit == Probe!Init => ProbeInv
<1> SUFFICES ASSUME Probe!Init PROVE ProbeInv
  OBVIOUS
<1>1. /\ DOMAIN probe = {"program", "at", "op", "attempt", "frame", "write", "own", "others",
                         "poisoned", "marked", "left", "first", "subscribed", "armed",
                         "serving", "queue"}
      /\ probe.at = "attempt" /\ probe.op = "first" /\ probe.serving = "none"
      /\ probe.queue = << >> /\ probe.own = TRUE /\ probe.poisoned = FALSE
      /\ probe.left = FALSE /\ probe.subscribed = FALSE
  BY DEF Probe!Init
<1>2. probe.queue \in Seq(Report) /\ Len(probe.queue) = 0
  BY <1>1
<1>3. ~Holds("own") /\ ~Holds("old")
  BY <1>2 DEF Holds
<1> QED BY <1>1, <1>2, <1>3 DEF ProbeInv, ProbeTyped, StepsAreApart, StaleIsExcused, Stale,
                                WriteIsOwn

(* The invariant of the screen probe is inductive.                         *)
LEMMA ProbeStep == ProbeInv /\ [Probe!Next]_probe => ProbeInv'
<1> SUFFICES ASSUME ProbeInv, [Probe!Next]_probe PROVE ProbeInv'
  OBVIOUS
<1>1. CASE UNCHANGED probe
  BY <1>1 DEF ProbeInv, ProbeTyped, StepsAreApart, StaleIsExcused, Stale, Clean, Excused,
              Holds, WriteIsOwn, Probe!FirstDraw
<1>2. CASE Probe!Next
  BY <1>2, SubscribeKeeps, CommandKeeps, WaitKeeps, AfterKeeps, TallyKeeps, AttemptKeeps,
     AnswerKeeps, FireKeeps, OtherKeeps DEF Probe!Next, Probe!Program
<1> QED BY <1>1, <1>2

(* However late the screen answers, if at all, and wherever its upcalls    *)
(* fall among the deadlines and the other upcalls: a line of the first     *)
(* draw that is printed without the mark reports its own write, unless its *)
(* own frame timed out or an uncounted command was left with the driver.   *)
THEOREM UnmarkedLinesAreOwn == Spec => []UnmarkedIsOwn
<1>1. Init => ProbeInv
  BY ProbeInit DEF Init
<1>2. ProbeInv /\ [Next]_vars => ProbeInv'
  <2>1. [Next]_vars => [Probe!Next]_probe
    BY DEF Next, vars, DoomNext, DashNext, WifiNext, ThrottleNext, ProbeNext, RunnerNext,
           SmallNext
  <2> QED BY <2>1, ProbeStep
<1>3. ProbeInv => UnmarkedIsOwn
  BY DEF ProbeInv, ProbeTyped, StepsAreApart, WriteIsOwn, Clean, UnmarkedIsOwn,
      Probe!UnmarkedIsOwn, Probe!At
<1> QED BY <1>1, <1>2, <1>3, PTL DEF Spec

-----------------------------------------------------------------------------
(***************************************************************************)
(* The manual gearbox.  Until a rectangle is refused the glass is what the *)
(* program believes; and the engine is never below its idle, so that no    *)
(* way of coupling it to the road lifts it at once.                        *)
(***************************************************************************)
DashTyped ==
    /\ dash = [at |-> dash.at, st |-> dash.st, throttle |-> dash.throttle,
               up_was |-> dash.up_was, down_was |-> dash.down_was, both |-> dash.both,
               missed_for |-> dash.missed_for, errs |-> dash.errs, glass |-> dash.glass,
               shown |-> dash.shown]
    /\ dash.st = [gear |-> dash.st.gear, rpm |-> dash.st.rpm, speed |-> dash.st.speed,
                  rem |-> dash.st.rem]
    /\ dash.at \in {"input", "step", "display", "sleep"} /\ dash.throttle \in Pedal
    /\ dash.st.gear \in 0..Len(Ratio) /\ dash.st.speed \in Nat /\ dash.st.rem \in Int
    /\ dash.st.rpm \in Nat /\ Idle <= dash.st.rpm
    /\ dash.errs \in BOOLEAN

GlassIsBelieved ==
    /\ ~dash.errs => dash.glass = dash.shown
    /\ dash.at = "sleep" => dash.shown = Dash!Wanted

DashInv == DashTyped /\ GlassIsBelieved

(* A product of naturals grows with its factors.                           *)
LEMMA ProductGrows ==
  ASSUME NEW a \in Nat, NEW b \in Nat, NEW c \in Nat, NEW d \in Nat, a <= b, c <= d
  PROVE  a * c \in Nat /\ a * c <= b * d
<1>1. PICK x \in Nat : b = a + x
  <2>1. b - a \in Nat /\ b = a + (b - a)
    OBVIOUS
  <2> QED BY <2>1
<1>2. PICK y \in Nat : d = c + y
  <2>1. d - c \in Nat /\ d = c + (d - c)
    OBVIOUS
  <2> QED BY <2>1
<1>3. a * c \in Nat /\ a * y \in Nat /\ x * c \in Nat /\ x * y \in Nat
  BY SMT
<1>4. b * d = a * c + a * y + x * c + x * y
  BY <1>1, <1>2
<1> QED BY <1>3, <1>4

(* A quotient by a positive number is a number of the same sort.           *)
LEMMA QuotientIs ==
  ASSUME NEW a \in Int, NEW b \in Nat \ {0}
  PROVE  a \div b \in Int /\ a % b \in Int /\ (a \in Nat => a \div b \in Nat)
OBVIOUS

(* Slewing moves no further than its rate and no further than its target.  *)
LEMMA SlewMoves ==
  ASSUME NEW rpm \in Nat, NEW target \in Nat, NEW rate \in Nat, NEW dt \in Nat,
         NEW r, r = Dash!Slew(rpm, target, rate, dt)
  PROVE  /\ r \in Nat /\ r - rpm \in -(rate * dt)..(rate * dt)
         /\ \A least \in Nat : least <= rpm /\ least <= target => least <= r
<1>1. PICK m \in Nat : m = rate * dt
  OBVIOUS
<1>2. r = IF target > rpm THEN (IF rpm + m < target THEN rpm + m ELSE target)
          ELSE IF (IF rpm > m THEN rpm - m ELSE 0) > target
               THEN (IF rpm > m THEN rpm - m ELSE 0) ELSE target
  BY <1>1 DEF Dash!Slew, Dash!Least, Dash!Most, Dash!Minus
<1>3. r \in Nat /\ r - rpm \in -m..m
      /\ \A least \in Nat : least <= rpm /\ least <= target => least <= r
  BY <1>2
<1> QED BY <1>1, <1>3

(* What the parameters are.                                                *)
LEMMA DashNumbers ==
  /\ Ratio \in Seq(Nat) /\ RpmDivisor \in Nat \ {0} /\ Inertia \in Nat \ {0}
  /\ DrivePer \in Nat \ {0} /\ FullPedal \in Nat \ {0}
  /\ Idle \in Nat /\ Redline \in Nat /\ Idle <= Redline
  /\ RevRise \in Nat /\ RevFall \in Nat /\ ClutchBite \in Nat
  /\ DragRoll \in Nat /\ DragLinear \in Nat /\ DragSquare \in Nat
  /\ LinearPer \in Nat \ {0} /\ SquarePer \in Nat \ {0}
  /\ 0 \in Pedal /\ \A pedal \in Pedal : pedal \in Nat
  /\ \A dt \in Dt : dt \in Nat
  /\ \A rpm \in 0..Redline : Torque[rpm] \in Nat
  /\ \A gear \in 1..Len(Ratio) : Ratio[gear] \in Nat
<1>1. /\ Ratio \in Seq(Nat) /\ RpmDivisor \in Nat \ {0} /\ Inertia \in Nat \ {0}
      /\ DrivePer \in Nat \ {0} /\ FullPedal \in Nat \ {0}
      /\ Idle \in Nat /\ Redline \in Nat /\ Idle <= Redline
      /\ RevRise \in Nat /\ RevFall \in Nat /\ ClutchBite \in Nat
      /\ DragRoll \in Nat /\ DragLinear \in Nat /\ DragSquare \in Nat
      /\ LinearPer \in Nat \ {0} /\ SquarePer \in Nat \ {0}
      /\ Pedal \subseteq 0..FullPedal /\ Dt \subseteq Nat \ {0} /\ 0 \in Pedal
      /\ \A rpm \in 0..Redline : Torque[rpm] \in Nat
  BY ProgramsAssumption DEF Dash!DashAssumption
<1>2. \A pedal \in Pedal : pedal \in Nat
  BY <1>1
<1>3. \A dt \in Dt : dt \in Nat
  BY <1>1
<1>4. \A gear \in 1..Len(Ratio) : Ratio[gear] \in Nat
  BY <1>1
<1> QED BY <1>1, <1>2, <1>3, <1>4

(* The most that the revs may move in one pass.                            *)
MostRate == Dash!Most(RevRise, Dash!Most(RevFall, ClutchBite))
Longest == CHOOSE d \in Dt : \A e \in Dt : e <= d

(* No rate moves them further in any time.                                 *)
LEMMA MostMoves ==
  ASSUME NEW rate \in {RevRise, RevFall, ClutchBite}, NEW dt \in Dt
  PROVE  rate * dt \in Nat /\ Longest * MostRate \in Nat /\ rate * dt <= Longest * MostRate
<1>1. MostRate \in Nat /\ rate \in Nat /\ rate <= MostRate
  BY DashNumbers DEF MostRate, Dash!Most
<1>2. Longest \in Dt /\ \A e \in Dt : e <= Longest
  <2>1. \E d \in Dt : \A e \in Dt : e <= d
    BY ProgramsAssumption DEF Dash!DashAssumption
  <2> QED BY <2>1 DEF Longest
<1>3. Longest \in Nat /\ dt \in Nat /\ dt <= Longest
  BY <1>2, DashNumbers
<1>4. PICK d \in Nat : d = Longest
  BY <1>3
<1>5. PICK m \in Nat : m = MostRate
  BY <1>1
<1>6. dt <= d /\ rate <= m
  BY <1>1, <1>3, <1>4, <1>5
<1>7. rate * dt \in Nat /\ rate * dt <= m * d /\ m * d = d * m /\ d * m \in Nat
  <2>1. rate * dt \in Nat /\ rate * dt <= m * d
    BY <1>1, <1>3, <1>6, ProductGrows
  <2>2. m * d \in Nat
    BY ProductGrows
  <2> QED BY <2>1, <2>2
<1> QED BY <1>4, <1>5, <1>7

(* Free or biting, the revs of a pass stay above idle and near the last.   *)
LEMMA FreeRevMoves ==
  ASSUME NEW rpm \in Nat, Idle <= rpm, NEW pedal \in Pedal, NEW dt \in Dt,
         NEW r, r = Dash!FreeRev(rpm, pedal, dt)
  PROVE  r \in Nat /\ Idle <= r /\ r - rpm \in -(Longest * MostRate)..(Longest * MostRate)
<1>1. PICK target : target = Idle + ((Redline - Idle) * pedal) \div FullPedal
  OBVIOUS
<1>2. PICK rate \in {RevRise, RevFall} : r = Dash!Slew(rpm, target, rate, dt)
  BY <1>1 DEF Dash!FreeRev
<1>3. target \in Nat /\ Idle <= target
  <2>1. Redline - Idle \in Nat /\ pedal \in Nat
    BY DashNumbers
  <2>2. PICK p : p = (Redline - Idle) * pedal
    OBVIOUS
  <2>3. p \in Nat
    BY <2>1, <2>2, ProductGrows
  <2>4. p \div FullPedal \in Nat
    <3>1. FullPedal \in Nat \ {0}
      BY DashNumbers
    <3> QED BY <2>3, <3>1, QuotientIs
  <2>5. PICK q \in Nat : q = p \div FullPedal
    BY <2>4
  <2>6. target = Idle + q /\ Idle \in Nat
    BY <1>1, <2>2, <2>5, DashNumbers
  <2> QED BY <2>6
<1>4. dt \in Nat /\ rate \in Nat /\ Idle \in Nat
  BY DashNumbers
<1>5. /\ r \in Nat /\ r - rpm \in -(rate * dt)..(rate * dt)
      /\ \A least \in Nat : least <= rpm /\ least <= target => least <= r
  BY <1>2, <1>3, <1>4, SlewMoves
<1>6. PICK m \in Nat : m = rate * dt
  BY MostMoves
<1>7. PICK l \in Nat : l = Longest * MostRate
  BY MostMoves
<1>8. m <= l
  BY <1>6, <1>7, MostMoves
<1>9. r - rpm \in -l..l
  BY <1>5, <1>6, <1>8
<1> QED BY <1>3, <1>4, <1>5, <1>7, <1>9

(* However engine and road are coupled, the revs of a pass stay above idle *)
(* and near the last.                                                      *)
LEMMA RevsMove ==
  ASSUME DashTyped, NEW dt \in Dt, NEW r, r = Dash!Revs(dash.st, dash.throttle, dt)
  PROVE  /\ r \in Nat /\ Idle <= r
         /\ r - dash.st.rpm \in -(Longest * MostRate)..(Longest * MostRate)
<1>1. dash.st.rpm \in Nat /\ Idle <= dash.st.rpm /\ dash.throttle \in Pedal
  BY DEF DashTyped
<1>2. CASE r = Dash!FreeRev(dash.st.rpm, dash.throttle, dt)
  BY <1>1, <1>2, FreeRevMoves
<1>3. CASE r = Dash!FreeRev(Dash!Most(dash.st.rpm, Idle), dash.throttle, dt)
  <2>1. Dash!Most(dash.st.rpm, Idle) = dash.st.rpm
    BY <1>1, DashNumbers DEF Dash!Most
  <2> QED BY <1>1, <1>3, <2>1, FreeRevMoves
<1>4. CASE /\ dash.st.gear # 0
           /\ LET implied == (dash.st.speed * Ratio[dash.st.gear]) \div RpmDivisor IN
              ~(implied < Idle) /\ r = Dash!Slew(dash.st.rpm, implied, ClutchBite, dt)
  <2>1. PICK implied : implied = (dash.st.speed * Ratio[dash.st.gear]) \div RpmDivisor
    OBVIOUS
  <2>2. Ratio[dash.st.gear] \in Nat /\ dash.st.speed \in Nat
    <3>1. dash.st.gear \in 1..Len(Ratio) /\ dash.st.speed \in Nat
      <4>1. dash.st.gear \in 0..Len(Ratio) /\ Len(Ratio) \in Nat
        BY DashNumbers DEF DashTyped
      <4> QED BY <1>4, <4>1 DEF DashTyped
    <3> QED BY <3>1, DashNumbers
  <2>3. implied \in Nat
    <3>1. PICK p : p = dash.st.speed * Ratio[dash.st.gear]
      OBVIOUS
    <3>2. p \in Nat
      BY <2>2, <3>1
    <3>3. RpmDivisor \in Nat \ {0}
      BY DashNumbers
    <3>4. p \div RpmDivisor \in Nat
      BY <3>2, <3>3, QuotientIs
    <3> QED BY <2>1, <3>1, <3>4
  <2>4. Idle <= implied /\ r = Dash!Slew(dash.st.rpm, implied, ClutchBite, dt)
    BY <1>4, <2>1, <2>3, DashNumbers
  <2>5. dt \in Nat /\ ClutchBite \in Nat /\ Idle \in Nat
    BY DashNumbers
  <2>6. /\ r \in Nat /\ r - dash.st.rpm \in -(ClutchBite * dt)..(ClutchBite * dt)
        /\ \A least \in Nat : least <= dash.st.rpm /\ least <= implied => least <= r
    BY <1>1, <2>3, <2>4, <2>5, SlewMoves
  <2>7. PICK m \in Nat : m = ClutchBite * dt
    BY MostMoves
  <2>8. PICK l \in Nat : l = Longest * MostRate
    BY MostMoves
  <2>9. m <= l
    BY <2>7, <2>8, MostMoves
  <2>10. r - dash.st.rpm \in -l..l
    BY <1>1, <2>6, <2>7, <2>9
  <2> QED BY <1>1, <2>4, <2>5, <2>6, <2>8, <2>10
<1> QED BY <1>2, <1>3, <1>4 DEF Dash!Revs

(* A pass of the road moves its speed, and carries a remainder.            *)
LEMMA RoadMoves ==
  ASSUME NEW st, st = [gear |-> st.gear, rpm |-> st.rpm, speed |-> st.speed, rem |-> st.rem],
         st.gear \in 0..Len(Ratio), st.rpm \in Nat, st.speed \in Nat, st.rem \in Int,
         NEW pedal \in Pedal, NEW dt \in Dt,
         NEW r, r = Dash!Integrate(st, Dash!Drive(st, pedal), dt)
  PROVE  /\ r = [gear |-> st.gear, rpm |-> st.rpm, speed |-> r.speed, rem |-> r.rem]
         /\ r.speed \in Nat /\ r.rem \in Int
<1>1. PICK drive : drive = Dash!Drive(st, pedal)
  OBVIOUS
<1>2. drive \in Int
  <2>1. CASE st.gear = 0 \/ st.rpm >= Redline
    BY <1>1, <2>1 DEF Dash!Drive
  <2>2. CASE ~(st.gear = 0 \/ st.rpm >= Redline)
    <3>0. Redline \in Nat /\ DrivePer \in Nat \ {0} /\ Len(Ratio) \in Nat
      BY DashNumbers
    <3>a. st.rpm \in 0..Redline /\ st.gear \in 1..Len(Ratio)
      BY <2>2, <3>0
    <3>1. Torque[st.rpm] \in Nat /\ Ratio[st.gear] \in Nat /\ pedal \in Nat
      BY <3>a, DashNumbers
    <3>2. PICK p : p = Torque[st.rpm] * pedal * Ratio[st.gear]
      OBVIOUS
    <3>3. p \in Int
      BY <3>1, <3>2
    <3>4. drive = p \div DrivePer
      BY <1>1, <2>2, <3>2 DEF Dash!Drive
    <3>5. p \div DrivePer \in Int
      BY <3>0, <3>3, QuotientIs
    <3> QED BY <3>4, <3>5
  <2> QED BY <2>1, <2>2
<1>3. PICK num : num = (drive - Dash!Drag(st.speed)) * dt + st.rem
  OBVIOUS
<1>4. num \in Int
  <2>1. PICK d : d = Dash!Drag(st.speed)
    OBVIOUS
  <2>2. d \in Int
    <3>1. /\ DragRoll \in Nat /\ DragLinear \in Nat /\ DragSquare \in Nat /\ st.speed \in Nat
          /\ LinearPer \in Nat \ {0} /\ SquarePer \in Nat \ {0}
      BY DashNumbers
    <3>2. PICK lin \in Nat : lin = DragLinear * st.speed
      BY <3>1, ProductGrows
    <3>3. PICK square \in Nat : square = st.speed * st.speed
      BY <3>1, ProductGrows
    <3>4. PICK quad \in Nat : quad = DragSquare * square
      BY <3>1, ProductGrows
    <3>5. PICK p, q \in Nat : p = lin \div LinearPer /\ q = quad \div SquarePer
      BY <3>1, QuotientIs
    <3>6. d = DragRoll + p + q
      BY <2>1, <3>2, <3>3, <3>4, <3>5 DEF Dash!Drag
    <3> QED BY <3>1, <3>5, <3>6
  <2>3. drive - d \in Int /\ dt \in Int
    <3>1. dt \in Nat
      BY DashNumbers
    <3> QED BY <1>2, <2>2, <3>1
  <2>4. PICK sum \in Int : sum = drive - d
    BY <2>3
  <2>5. PICK e \in Int : e = dt
    BY <2>3
  <2>6. PICK p : p = sum * e
    OBVIOUS
  <2>7. p \in Int
    BY <2>6
  <2>8. num = p + st.rem
    BY <1>3, <2>1, <2>4, <2>5, <2>6
  <2> QED BY <2>7, <2>8
<1>5. num % Inertia \in Int /\ st.speed + num \div Inertia \in Int
  <2>1. Inertia \in Nat \ {0}
    BY DashNumbers
  <2>2. PICK q \in Int : q = num \div Inertia
    BY <1>4, <2>1, QuotientIs
  <2> QED BY <1>4, <2>1, <2>2, QuotientIs
<1>6. r = [st EXCEPT !.rem = num % Inertia, !.speed = Dash!Most(st.speed + num \div Inertia, 0)]
  BY <1>1, <1>3 DEF Dash!Integrate
<1>7. Dash!Most(st.speed + num \div Inertia, 0) \in Nat
  BY <1>5 DEF Dash!Most
<1> QED BY <1>5, <1>6, <1>7

(* The inputs choose a gear, or put the car back to rest.                  *)
LEMMA InputKept ==
  ASSUME DashInv, NEW pedal \in Pedal, NEW up \in BOOLEAN, NEW down \in BOOLEAN,
         Dash!Input(pedal, up, down)
  PROVE  DashInv'
<1>0. DashTyped /\ GlassIsBelieved
  BY DEF DashInv
<1>1. PICK st, missed :
        /\ dash' = [dash EXCEPT !.at = "step", !.throttle = pedal, !.both = up /\ down,
                                !.up_was = up, !.down_was = down, !.st = st,
                                !.missed_for = missed]
        /\ \/ st = Dash!Rest
           \/ st = dash.st
           \/ st = [dash.st EXCEPT !.gear = Dash!Least(dash.st.gear + 1, Dash!TopGear)]
           \/ st = [dash.st EXCEPT !.gear = Dash!Minus(dash.st.gear, 1)]
  BY DEF Dash!Input
<1>2. /\ st = [gear |-> st.gear, rpm |-> st.rpm, speed |-> st.speed, rem |-> st.rem]
      /\ st.gear \in 0..Len(Ratio) /\ st.rpm \in Nat /\ Idle <= st.rpm
      /\ st.speed \in Nat /\ st.rem \in Int
  <2>0. Len(Ratio) \in Nat /\ Idle \in Nat /\ dash.st.gear \in 0..Len(Ratio)
    BY <1>0, DashNumbers DEF DashTyped
  <2>1. CASE st = Dash!Rest
    BY <2>0, <2>1 DEF Dash!Rest
  <2>2. CASE st = dash.st
    BY <1>0, <2>2 DEF DashTyped
  <2>3. CASE st = [dash.st EXCEPT !.gear = Dash!Least(dash.st.gear + 1, Dash!TopGear)]
    <3>1. Dash!Least(dash.st.gear + 1, Dash!TopGear) \in 0..Len(Ratio)
      BY <2>0 DEF Dash!Least, Dash!TopGear
    <3> QED BY <1>0, <2>3, <3>1 DEF DashTyped
  <2>4. CASE st = [dash.st EXCEPT !.gear = Dash!Minus(dash.st.gear, 1)]
    <3>1. Dash!Minus(dash.st.gear, 1) \in 0..Len(Ratio)
      BY <2>0 DEF Dash!Minus
    <3> QED BY <1>0, <2>4, <3>1 DEF DashTyped
  <2> QED BY <1>1, <2>1, <2>2, <2>3, <2>4
<1>3. /\ dash' = [at |-> "step", st |-> st, throttle |-> pedal, up_was |-> up,
                  down_was |-> down, both |-> (up /\ down), missed_for |-> missed,
                  errs |-> dash.errs, glass |-> dash.glass, shown |-> dash.shown]
  BY <1>0, <1>1 DEF DashTyped
<1>4. DashTyped'
  BY <1>0, <1>2, <1>3 DEF DashTyped
<1>5. GlassIsBelieved'
  BY <1>0, <1>3 DEF GlassIsBelieved
<1> QED BY <1>4, <1>5 DEF DashInv

(* A pass of engine and car.                                               *)
LEMMA StepKept ==
  ASSUME DashInv, NEW dt \in Dt, Dash!Step(dt)
  PROVE  /\ DashInv'
         /\ dash'.st.rpm - dash.st.rpm \in -(Longest * MostRate)..(Longest * MostRate)
<1>0. DashTyped /\ GlassIsBelieved /\ dash.at = "step"
  BY DEF DashInv, Dash!Step
<1>1. PICK rpm : rpm = Dash!Revs(dash.st, dash.throttle, dt)
  OBVIOUS
<1>2. /\ rpm \in Nat /\ Idle <= rpm
      /\ rpm - dash.st.rpm \in -(Longest * MostRate)..(Longest * MostRate)
  BY <1>0, <1>1, RevsMove
<1>3. PICK now : now = [dash.st EXCEPT !.rpm = rpm]
  OBVIOUS
<1>4. /\ now = [gear |-> now.gear, rpm |-> now.rpm, speed |-> now.speed, rem |-> now.rem]
      /\ now.gear \in 0..Len(Ratio) /\ now.rpm = rpm
      /\ now.speed \in Nat /\ now.rem \in Int
  BY <1>0, <1>3 DEF DashTyped
<1>5. PICK st : st = Dash!Integrate(now, Dash!Drive(now, dash.throttle), dt)
  OBVIOUS
<1>6. /\ st = [gear |-> now.gear, rpm |-> rpm, speed |-> st.speed, rem |-> st.rem]
      /\ st.speed \in Nat /\ st.rem \in Int
  BY <1>0, <1>2, <1>4, <1>5, RoadMoves DEF DashTyped
<1>7. dash' = [dash EXCEPT !.at = "display", !.st = st]
  BY <1>1, <1>3, <1>5 DEF Dash!Step
<1>8. dash' = [at |-> "display", st |-> st, throttle |-> dash.throttle,
               up_was |-> dash.up_was, down_was |-> dash.down_was, both |-> dash.both,
               missed_for |-> dash.missed_for, errs |-> dash.errs, glass |-> dash.glass,
               shown |-> dash.shown]
  BY <1>0, <1>7 DEF DashTyped
<1>9. DashTyped'
  BY <1>0, <1>2, <1>4, <1>6, <1>8 DEF DashTyped
<1>10. GlassIsBelieved'
  BY <1>0, <1>8 DEF GlassIsBelieved
<1>11. dash'.st.rpm = rpm
  BY <1>6, <1>8
<1> QED BY <1>2, <1>9, <1>10, <1>11 DEF DashInv

(* What the glass should show is a matter of the car and the refusal.      *)
LEMMA WantedStays ==
  ASSUME dash'.st = dash.st, dash'.both = dash.both, dash'.missed_for = dash.missed_for
  PROVE  Dash!Wanted' = Dash!Wanted
<1>1. Dash!Light' = Dash!Light
  BY DEF Dash!Light
<1>2. Dash!kmh' = Dash!kmh
  BY DEF Dash!kmh, Dash!Least
<1> QED BY <1>1, <1>2 DEF Dash!Wanted, Dash!Least

(* What is drawn and what is wiped makes the glass what is wanted.         *)
LEMMA DisplayKept ==
  ASSUME DashInv, Dash!Display \/ Dash!Sleep
  PROVE  DashInv'
<1>0. DashTyped /\ GlassIsBelieved
  BY DEF DashInv
<1>1. CASE Dash!Display
  <2>1. PICK lost \in {{}, (Dash!Wanted \ dash.shown) \cup (dash.shown \ Dash!Wanted)} :
          dash' = [dash EXCEPT
                     !.at = "sleep", !.shown = Dash!Wanted, !.errs = @ \/ lost # {},
                     !.glass = IF dash.errs \/ lost # {} THEN {}
                               ELSE (@ \cup (Dash!Wanted \ dash.shown))
                                       \ (dash.shown \ Dash!Wanted)]
    BY <1>1 DEF Dash!Display
  <2>2. PICK wanted : wanted = Dash!Wanted
    OBVIOUS
  <2>3. PICK errs, glass :
          /\ errs \in BOOLEAN /\ errs = (dash.errs \/ lost # {})
          /\ glass = IF errs THEN {} ELSE (dash.glass \cup (wanted \ dash.shown))
                                             \ (dash.shown \ wanted)
    OBVIOUS
  <2>4. dash' = [at |-> "sleep", st |-> dash.st, throttle |-> dash.throttle,
                 up_was |-> dash.up_was, down_was |-> dash.down_was, both |-> dash.both,
                 missed_for |-> dash.missed_for, errs |-> errs, glass |-> glass,
                 shown |-> wanted]
    BY <1>0, <2>1, <2>2, <2>3 DEF DashTyped
  <2>5. ~errs => glass = wanted
    <3> SUFFICES ASSUME ~errs PROVE glass = wanted
      OBVIOUS
    <3>1. dash.glass = dash.shown
      BY <1>0, <2>3 DEF GlassIsBelieved
    <3>2. glass = (dash.shown \cup (wanted \ dash.shown)) \ (dash.shown \ wanted)
      BY <2>3, <3>1
    <3>3. \A x : x \in glass <=> x \in wanted
      BY <3>2
    <3> QED BY <2>3, <3>2, <3>3
  <2>6. Dash!Wanted' = wanted
    <3>1. dash'.st = dash.st /\ dash'.both = dash.both /\ dash'.missed_for = dash.missed_for
      BY <2>4
    <3> QED BY <2>2, <3>1, WantedStays
  <2>7. DashTyped'
    BY <1>0, <2>3, <2>4 DEF DashTyped
  <2>8. dash'.errs = errs /\ dash'.glass = glass /\ dash'.shown = wanted /\ dash'.at = "sleep"
    BY <2>4
  <2>9. GlassIsBelieved'
    BY <2>5, <2>6, <2>8 DEF GlassIsBelieved
  <2> QED BY <2>7, <2>9 DEF DashInv
<1>2. CASE Dash!Sleep
  <2>1. PICK missed : dash' = [dash EXCEPT !.at = "input", !.missed_for = missed]
    BY <1>2 DEF Dash!Sleep
  <2>2. dash' = [at |-> "input", st |-> dash.st, throttle |-> dash.throttle,
                 up_was |-> dash.up_was, down_was |-> dash.down_was, both |-> dash.both,
                 missed_for |-> missed, errs |-> dash.errs, glass |-> dash.glass,
                 shown |-> dash.shown]
    BY <1>0, <2>1 DEF DashTyped
  <2> QED BY <1>0, <2>2 DEF DashInv, DashTyped, GlassIsBelieved
<1> QED BY <1>1, <1>2

(* The car begins at rest before a cleared glass.                          *)
LEMMA DashInit == Dash!Init => DashInv
BY DashNumbers DEF Dash!Init, Dash!Rest, DashInv, DashTyped, GlassIsBelieved

(* The invariant of the gearbox is inductive, and every step of it is a    *)
(* true one.                                                               *)
LEMMA DashStep ==
  ASSUME DashInv, [Dash!Next]_dash
  PROVE  DashInv' /\ [Dash!GlassIsTrue /\ Dash!RevsDoNotJump]_dash
<1>1. Dash!GlassIsTrue
  BY DEF DashInv, GlassIsBelieved, Dash!GlassIsTrue
<1>2. CASE UNCHANGED dash
  <2>1. Dash!Wanted' = Dash!Wanted
    BY <1>2, WantedStays
  <2> QED BY <1>2, <2>1 DEF DashInv, DashTyped, GlassIsBelieved
<1>3. CASE \E pedal \in Pedal, up, down \in BOOLEAN : Dash!Input(pedal, up, down)
  <2>1. dash.at = "input"
    BY <1>3 DEF Dash!Input
  <2>2. DashInv'
    BY <1>3, InputKept
  <2> QED BY <1>1, <2>1, <2>2 DEF Dash!RevsDoNotJump
<1>4. CASE \E dt \in Dt : Dash!Step(dt)
  <2>1. DashInv' /\ dash'.st.rpm - dash.st.rpm \in -(Longest * MostRate)..(Longest * MostRate)
    BY <1>4, StepKept
  <2>2. Dash!RevsDoNotJump
    BY <2>1 DEF Dash!RevsDoNotJump, Longest, MostRate
  <2> QED BY <1>1, <2>1, <2>2
<1>5. CASE Dash!Display \/ Dash!Sleep
  <2>1. dash.at \in {"display", "sleep"}
    BY <1>5 DEF Dash!Display, Dash!Sleep
  <2>2. DashInv'
    BY <1>5, DisplayKept
  <2> QED BY <1>1, <2>1, <2>2 DEF Dash!RevsDoNotJump
<1> QED BY <1>2, <1>3, <1>4, <1>5 DEF Dash!Next

(* However the throttle and the buttons are worked and however long a pass *)
(* takes: until a rectangle is refused the glass shows after every pass    *)
(* what it should, drawn by differences alone, and the revs move in a pass *)
(* by no more than the fastest rate over the longest time.                 *)
THEOREM CarStaysTrue == Spec => CarIsTrue
<1>1. Init => DashInv
  BY DashInit DEF Init
<1>2. [Next]_vars => [Dash!Next]_dash
  BY DEF Next, vars, DoomNext, DashNext, WifiNext, ThrottleNext, ProbeNext, RunnerNext, SmallNext
<1>3. DashInv /\ [Next]_vars => DashInv' /\ [Dash!GlassIsTrue /\ Dash!RevsDoNotJump]_dash
  BY <1>2, DashStep
<1> QED BY <1>1, <1>3, PTL DEF Spec, CarIsTrue

-----------------------------------------------------------------------------
-----------------------------------------------------------------------------
(***************************************************************************)
(* exit_test.  Every line that names an Exit call, the first or not, is of *)
(* a thread that ran the closure of the place A asked for.                 *)
(***************************************************************************)
ExitThread == {"none", "begin", "exit"} \cup Exit!Ending
ExitLine == Exit!ExitCall \cup {"WrongCase", "DidNotExit", "noise"}

ExitFields == DOMAIN small = {"closure", "runs", "call", "at", "signal", "thread", "running",
                             "half", "out", "result"}

ExitTyped ==
    /\ ExitFields /\ small.call \in 1..2
    /\ small.closure \in [Exit!Place -> Exit!Ending]
    /\ small.thread \in [Exit!Case -> ExitThread]
    /\ small.out \in Seq(ExitLine)

OfTheCall(what) == what = small.closure[small.signal]

ExitTrue ==
    /\ small.at = "A waits" => small.signal = Exit!Places.asked[small.call]
    /\ \A c \in Exit!Case : small.thread[c] \in Exit!Ending => OfTheCall(small.thread[c])
    /\ \A i \in 1..Len(small.out) :
          small.out[i] \in Exit!ExitCall => OfTheCall(small.out[i])
    /\ Exit!ReportIsTrue

ExitInv == ExitTyped /\ ExitTrue

(* What Set changes is what it names.                                      *)
LEMMA ExitSets ==
  ASSUME NEW f, Exit!Set(f)
  PROVE  /\ DOMAIN small' = DOMAIN small
         /\ \A x \in DOMAIN small \cap DOMAIN f : small'[x] = f[x]
         /\ \A x \in DOMAIN small \ DOMAIN f : small'[x] = small[x]
BY DEF Exit!Set

LEMMA ExitWith ==
  ASSUME NEW f, NEW g
  PROVE  /\ DOMAIN Exit!With(f, g) = DOMAIN f \cup DOMAIN g
         /\ \A x \in DOMAIN f : Exit!With(f, g)[x] = f[x]
         /\ \A x \in DOMAIN g \ DOMAIN f : Exit!With(f, g)[x] = g[x]
BY DEF Exit!With

LEMMA ExitPlaces ==
  /\ Exit!Places.asked[1] = "p1" /\ Exit!Places.asked[2] = "p2" /\ Len(Exit!Places.asked) = 2
BY DEF Exit!Places

LEMMA NoLines ==
  << >> \in Seq(ExitLine) /\ Len(<< >>) = 0 /\ 1..0 = {} /\ 1 \in 1..2
OBVIOUS

LEMMA ExitHeads == \A c \in Exit!Case : Head(Exit!Places[c]) \in Exit!Place
BY DEF Exit!Case, Exit!Places, Exit!Place

(* A asks for a place, and B begins.                                       *)
LEMMA ExitSpawned ==
  ASSUME ExitInv, Exit!Spawn
  PROVE  ExitInv'
<1>0. ExitTyped /\ ExitTrue /\ ExitFields
  BY DEF ExitInv, ExitTyped
<1> DEFINE f == [at |-> "A waits", signal |-> Exit!Places.asked[small.call], running |-> TRUE,
            out |-> << >>, half |-> FALSE,
            thread |-> [c \in Exit!Case |-> IF c \in small.runs THEN "begin" ELSE "none"]]
<1>1. Exit!Set(f)
  BY DEF Exit!Spawn
<1>b. DOMAIN f = {"at", "signal", "running", "out", "half", "thread"}
  OBVIOUS
<1>2. /\ f.at = "A waits" /\ f.signal = Exit!Places.asked[small.call] /\ f.out = << >>
      /\ f.thread = [c \in Exit!Case |-> IF c \in small.runs THEN "begin" ELSE "none"]
  OBVIOUS
<1> HIDE DEF f
<1>3. /\ DOMAIN small' = DOMAIN small /\ small'.at = "A waits" /\ small'.out = << >>
      /\ small'.signal = Exit!Places.asked[small'.call] /\ small'.call = small.call
      /\ small'.closure = small.closure
      /\ small'.thread = [c \in Exit!Case |-> IF c \in small.runs THEN "begin" ELSE "none"]
  <2>1. /\ DOMAIN small' = DOMAIN small /\ small'.at = f.at /\ small'.out = f.out
        /\ small'.signal = f.signal /\ small'.thread = f.thread
        /\ small'.call = small.call /\ small'.closure = small.closure
    BY <1>0, <1>1, <1>b, ExitSets DEF ExitFields
  <2> QED BY Zenon, <1>2, <2>1
<1>4. /\ small'.thread \in [Exit!Case -> ExitThread]
      /\ \A c \in Exit!Case : small'.thread[c] \notin Exit!Ending
  BY <1>3 DEF ExitThread, Exit!Ending, Exit!ExitCall
<1>5. small'.out \in Seq(ExitLine) /\ Len(small'.out) = 0 /\ 1..Len(small'.out) = {}
  BY Zenon, <1>3, NoLines
<1>6. ExitTyped'
  BY <1>0, <1>3, <1>4, <1>5 DEF ExitTyped, ExitFields
<1>7. Exit!ReportIsTrue'
  BY <1>3 DEF Exit!ReportIsTrue, Exit!At
<1>8. ExitTrue'
  BY <1>3, <1>4, <1>5, <1>7 DEF ExitTrue
<1> QED BY <1>6, <1>8 DEF ExitInv

(* A takes the first message for the answer.                               *)
LEMMA ExitCollected ==
  ASSUME ExitInv, Exit!Collect \/ Exit!Continue
  PROVE  ExitInv'
<1>0. ExitTyped /\ ExitTrue /\ ExitFields
  BY DEF ExitInv, ExitTyped
<1>1. CASE Exit!Continue
  <2> DEFINE f == [at |-> "A spawns", call |-> small.call + 1, result |-> "none"]
  <2>1. Exit!Set(f) /\ small.call < 2
    BY <1>1, ExitPlaces DEF Exit!Continue
  <2>b. DOMAIN f = {"at", "call", "result"}
    OBVIOUS
  <2>2. f.at = "A spawns" /\ f.call = small.call + 1
    OBVIOUS
  <2> HIDE DEF f
  <2>3. /\ DOMAIN small' = DOMAIN small /\ small'.at = "A spawns"
        /\ small'.call = small.call + 1 /\ small'.out = small.out
        /\ small'.thread = small.thread /\ small'.signal = small.signal
        /\ small'.closure = small.closure
    <3>1. /\ DOMAIN small' = DOMAIN small /\ small'.at = f.at /\ small'.call = f.call
          /\ small'.out = small.out /\ small'.thread = small.thread
          /\ small'.signal = small.signal /\ small'.closure = small.closure
      BY <1>0, <2>1, <2>b, ExitSets DEF ExitFields
    <3> QED BY Zenon, <2>2, <3>1
  <2>4. small'.call \in 1..2
    <3>1. small.call \in 1..2
      BY Zenon, <1>0 DEF ExitTyped
    <3>2. small.call + 1 \in 1..2
      BY <2>1, <3>1
    <3> QED BY Zenon, <2>3, <3>2
  <2>5. Exit!ReportIsTrue'
    BY <2>3 DEF Exit!ReportIsTrue, Exit!At
  <2> QED BY <1>0, <2>3, <2>4, <2>5 DEF ExitInv, ExitTyped, ExitFields, ExitTrue, OfTheCall
<1>2. CASE Exit!Collect
  <2>0. small.at = "A waits"
    BY <1>2 DEF Exit!Collect, Exit!At
  <2>1. CASE \E i \in 1..Len(small.out) :
                /\ Exit!Counts(i) /\ small.out[i] \in Exit!ExitCall
                /\ Exit!Set([at |-> "A returned", result |-> small.out[i]])
    <3>1. PICK i \in 1..Len(small.out) :
                /\ small.out[i] \in Exit!ExitCall
                /\ Exit!Set([at |-> "A returned", result |-> small.out[i]])
      BY <2>1
    <3> DEFINE f == [at |-> "A returned", result |-> small.out[i]]
    <3>b. DOMAIN f = {"at", "result"}
      OBVIOUS
    <3>2. f.at = "A returned" /\ f.result = small.out[i]
      BY Zenon
    <3>3. Exit!Set(f)
      BY <3>1
    <3> HIDE DEF f
    <3>4. /\ DOMAIN small' = DOMAIN small /\ small'.at = "A returned"
          /\ small'.result = small.out[i]
          /\ small'.call = small.call /\ small'.out = small.out
          /\ small'.thread = small.thread /\ small'.signal = small.signal
          /\ small'.closure = small.closure
      <4>1. /\ DOMAIN small' = DOMAIN small /\ small'.at = f.at /\ small'.result = f.result
            /\ small'.call = small.call /\ small'.out = small.out
            /\ small'.thread = small.thread /\ small'.signal = small.signal
            /\ small'.closure = small.closure
        BY <1>0, <3>b, <3>3, ExitSets DEF ExitFields
      <4> QED BY Zenon, <3>2, <4>1
    <3>5. small.out[i] = small.closure[small.signal]
      BY <1>0, <3>1 DEF ExitTrue, OfTheCall
    <3>6. small.signal = Exit!Places.asked[small.call]
      BY <1>0, <2>0 DEF ExitTrue
    <3>7. Exit!ReportIsTrue'
      BY <3>4, <3>5, <3>6 DEF Exit!ReportIsTrue, Exit!At
    <3> QED BY <1>0, <3>4, <3>7 DEF ExitInv, ExitTyped, ExitFields, ExitTrue, OfTheCall
  <2>2. CASE Exit!Set([at |-> "A panicked"])
    <3> DEFINE f == [at |-> "A panicked"]
    <3>1. DOMAIN f = {"at"} /\ f.at = "A panicked"
      OBVIOUS
    <3>2. Exit!Set(f)
      BY <2>2
    <3> HIDE DEF f
    <3>3. /\ DOMAIN small' = DOMAIN small /\ small'.at = "A panicked"
          /\ small'.call = small.call /\ small'.out = small.out
          /\ small'.thread = small.thread /\ small'.signal = small.signal
          /\ small'.closure = small.closure
      BY <1>0, <3>1, <3>2, ExitSets DEF ExitFields
    <3>4. Exit!ReportIsTrue'
      BY <3>3 DEF Exit!ReportIsTrue, Exit!At
    <3> QED BY <1>0, <3>3, <3>4 DEF ExitInv, ExitTyped, ExitFields, ExitTrue, OfTheCall
  <2> QED BY <1>2, <2>1, <2>2 DEF Exit!Collect
<1> QED BY <1>1, <1>2

(* What a line of a thread does to the invariant.                          *)
LEMMA ExitPrinted ==
  ASSUME ExitInv, NEW c \in Exit!Case, NEW line \in ExitLine, NEW s \in ExitThread,
         line \in Exit!ExitCall => OfTheCall(line),
         s \notin Exit!Ending,
         Exit!Set(Exit!With(Exit!PrintLine(line), Exit!Thread(c, s)))
  PROVE  ExitInv'
<1>0. ExitTyped /\ ExitTrue /\ ExitFields
  BY DEF ExitInv, ExitTyped
<1> DEFINE f == Exit!With(Exit!PrintLine(line), Exit!Thread(c, s))
<1>1. PICK shown : shown = IF small.half THEN "noise" ELSE line
  OBVIOUS
<1>2. shown \in ExitLine /\ (shown \in Exit!ExitCall => OfTheCall(shown))
  BY <1>1 DEF ExitLine, Exit!ExitCall
<1>3. /\ DOMAIN f = {"out", "half", "thread"} /\ f.out = Append(small.out, shown)
      /\ f.thread = [small.thread EXCEPT ![c] = s]
  <2>1. DOMAIN Exit!PrintLine(line) = {"out", "half"} /\ DOMAIN Exit!Thread(c, s) = {"thread"}
    BY DEF Exit!PrintLine, Exit!Thread
  <2>2. Exit!PrintLine(line).out = Append(small.out, shown)
    BY Zenon, <1>1 DEF Exit!PrintLine
  <2>3. Exit!Thread(c, s).thread = [small.thread EXCEPT ![c] = s]
    BY Zenon DEF Exit!Thread
  <2>4. PICK p, t : p = Exit!PrintLine(line) /\ t = Exit!Thread(c, s)
    OBVIOUS
  <2>5. f = Exit!With(p, t)
    BY <2>4
  <2>d. DOMAIN p = {"out", "half"} /\ DOMAIN t = {"thread"}
    BY <2>1, <2>4
  <2>6. DOMAIN f = {"out", "half", "thread"}
    <3>1. DOMAIN f = DOMAIN p \cup DOMAIN t
      BY Zenon, <2>5, ExitWith
    <3> QED BY <2>d, <3>1
  <2>7. f.out = p.out /\ f.thread = t.thread
    <3>1. "out" \in DOMAIN p /\ "thread" \in DOMAIN t \ DOMAIN p
      BY <2>d
    <3>2. f = Exit!With(p, t)
      BY <2>5
    <3> HIDE DEF f
    <3>3. Exit!With(p, t).out = p.out
      BY <3>1 DEF Exit!With
    <3>4. Exit!With(p, t).thread = t.thread
      BY <3>1 DEF Exit!With
    <3> QED BY Zenon, <3>2, <3>3, <3>4
  <2> QED BY Zenon, <2>2, <2>3, <2>4, <2>6, <2>7
<1> HIDE DEF f
<1>4. /\ DOMAIN small' = DOMAIN small /\ small'.at = small.at /\ small'.result = small.result
      /\ small'.call = small.call /\ small'.out = Append(small.out, shown)
      /\ small'.thread = [small.thread EXCEPT ![c] = s] /\ small'.signal = small.signal
      /\ small'.closure = small.closure
  <2>1. Exit!Set(f)
    BY DEF f
  <2> QED BY <1>0, <1>3, <2>1, ExitSets DEF ExitFields
<1>5. /\ small'.thread \in [Exit!Case -> ExitThread]
      /\ \A d \in Exit!Case : small'.thread[d] = IF d = c THEN s ELSE small.thread[d]
  BY <1>0, <1>4 DEF ExitTyped
<1>6. /\ small'.out \in Seq(ExitLine)
      /\ \A i \in 1..Len(small'.out) :
            small'.out[i] = shown \/ (i \in 1..Len(small.out) /\ small'.out[i] = small.out[i])
  BY <1>0, <1>2, <1>4 DEF ExitTyped
<1>7. ExitTyped'
  BY <1>0, <1>4, <1>5, <1>6 DEF ExitTyped, ExitFields
<1>8. (\A d \in Exit!Case : small.thread[d] \in Exit!Ending => OfTheCall(small.thread[d]))'
  <2> SUFFICES ASSUME NEW d \in Exit!Case, small'.thread[d] \in Exit!Ending
               PROVE  OfTheCall(small.thread[d])'
    OBVIOUS
  <2>1. small'.thread[d] = small.thread[d]
    BY Zenon, <1>5
  <2>2. OfTheCall(small.thread[d])
    BY Zenon, <1>0, <2>1 DEF ExitTrue
  <2> QED BY Zenon, <1>4, <2>1, <2>2 DEF OfTheCall
<1>9. (\A i \in 1..Len(small.out) :
          small.out[i] \in Exit!ExitCall => OfTheCall(small.out[i]))'
  <2> SUFFICES ASSUME NEW i \in 1..Len(small'.out), small'.out[i] \in Exit!ExitCall
               PROVE  OfTheCall(small.out[i])'
    OBVIOUS
  <2>1. small'.out[i] = shown \/ (i \in 1..Len(small.out) /\ small'.out[i] = small.out[i])
    BY Zenon, <1>6
  <2>2. OfTheCall(small'.out[i])
    BY Zenon, <1>0, <1>2, <2>1 DEF ExitTrue
  <2> QED BY Zenon, <1>4, <2>2 DEF OfTheCall
<1>10. Exit!ReportIsTrue'
  BY <1>0, <1>4 DEF ExitTrue, Exit!ReportIsTrue, Exit!At
<1>11. small'.at = "A waits" => small'.signal = Exit!Places.asked[small'.call]
  BY Zenon, <1>0, <1>4 DEF ExitTrue
<1>12. ExitTrue'
  BY Zenon, <1>8, <1>9, <1>10, <1>11 DEF ExitTrue
<1> QED BY <1>7, <1>12 DEF ExitInv

(* A step that prints nothing.                                             *)
LEMMA ExitSilent ==
  ASSUME ExitInv, DOMAIN small' = DOMAIN small,
         \A x \in DOMAIN small \ {"thread", "running", "half"} : small'[x] = small[x],
         small'.thread \in [Exit!Case -> ExitThread],
         \A c \in Exit!Case : small'.thread[c] \in Exit!Ending => OfTheCall(small'.thread[c])
  PROVE  ExitInv'
<1>0. ExitTyped /\ ExitTrue /\ ExitFields
  BY DEF ExitInv, ExitTyped
<1>1. /\ small'.at = small.at /\ small'.result = small.result
      /\ small'.call = small.call /\ small'.out = small.out
      /\ small'.signal = small.signal /\ small'.closure = small.closure
  BY <1>0 DEF ExitFields
<1>2. ExitTyped'
  BY <1>0, <1>1 DEF ExitTyped, ExitFields
<1>3. Exit!ReportIsTrue'
  BY <1>0, <1>1 DEF ExitTrue, Exit!ReportIsTrue, Exit!At
<1>4. ExitTrue'
  BY <1>0, <1>1, <1>3 DEF ExitTrue, OfTheCall
<1> QED BY <1>2, <1>4 DEF ExitInv

LEMMA ExitStep ==
  ASSUME ExitInv, Exit!Next
  PROVE  ExitInv'
<1>0. ExitTyped /\ ExitTrue /\ ExitFields
  BY DEF ExitInv, ExitTyped
<1>1. ASSUME NEW c \in Exit!Case, Exit!RunTest(c) PROVE ExitInv'
  <2>1. PICK place : place = Head(Exit!Places[c])
    OBVIOUS
  <2>2. CASE place = small.signal
    <3>1. Exit!Set(Exit!Thread(c, small.closure[place]))
      BY <1>1, <2>1, <2>2 DEF Exit!RunTest, Exit!Named
    <3> DEFINE f == Exit!Thread(c, small.closure[place])
    <3>2. /\ DOMAIN f = {"thread"}
          /\ f.thread = [small.thread EXCEPT ![c] = small.closure[place]]
      BY DEF Exit!Thread
    <3>3. Exit!Set(f)
      BY <3>1
    <3> HIDE DEF f
    <3>4. /\ DOMAIN small' = DOMAIN small
          /\ \A x \in DOMAIN small \ {"thread"} : small'[x] = small[x]
          /\ small'.thread = [small.thread EXCEPT ![c] = small.closure[place]]
      BY <1>0, <3>2, <3>3, ExitSets DEF ExitFields
    <3>5. place \in Exit!Place
      BY <2>1, ExitHeads
    <3>6. small.closure[place] \in Exit!Ending /\ OfTheCall(small.closure[place])
      BY <1>0, <2>2, <3>5 DEF ExitTyped, OfTheCall
    <3>7. /\ small'.thread \in [Exit!Case -> ExitThread]
          /\ \A d \in Exit!Case :
                small'.thread[d] = IF d = c THEN small.closure[place] ELSE small.thread[d]
      BY <1>0, <3>4, <3>6 DEF ExitTyped, ExitThread
    <3>8. \A d \in Exit!Case : small'.thread[d] \in Exit!Ending => OfTheCall(small'.thread[d])
      BY <1>0, <3>6, <3>7 DEF ExitTrue
    <3> QED BY <3>4, <3>7, <3>8, ExitSilent
  <2>3. CASE place # small.signal
    <3>1. Exit!Set(Exit!With(Exit!PrintLine("WrongCase"), Exit!Thread(c, "exit")))
      BY <1>1, <2>1, <2>3 DEF Exit!RunTest, Exit!Named
    <3>2. /\ "WrongCase" \in ExitLine /\ "WrongCase" \notin Exit!ExitCall
          /\ "exit" \in ExitThread /\ "exit" \notin Exit!Ending
      BY DEF ExitLine, ExitThread, Exit!ExitCall, Exit!Ending
    <3> QED BY <3>1, <3>2, ExitPrinted
  <2> QED BY <2>2, <2>3
<1>2. ASSUME NEW c \in Exit!Case, Exit!Exit(c) PROVE ExitInv'
  <2>1. PICK line : line = small.thread[c]
    OBVIOUS
  <2>2. /\ line \in Exit!ExitCall /\ line \in Exit!Ending /\ line \in ExitLine
        /\ Exit!Set(Exit!With(Exit!PrintLine(line), Exit!Thread(c, "exit")))
    BY <1>2, <2>1 DEF Exit!Exit, Exit!Ending, ExitLine
  <2>3. OfTheCall(line)
    BY <1>0, <2>1, <2>2 DEF ExitTrue
  <2>4. "exit" \in ExitThread /\ "exit" \notin Exit!Ending
    BY DEF ExitThread, Exit!ExitCall, Exit!Ending
  <2> QED BY <2>2, <2>3, <2>4, ExitPrinted
<1>3. ASSUME NEW c \in Exit!Case, Exit!ComeBack(c) PROVE ExitInv'
  <2>1. Exit!Set(Exit!With(Exit!PrintLine("DidNotExit"), Exit!Thread(c, "exit")))
    BY <1>3 DEF Exit!ComeBack
  <2>2. /\ "DidNotExit" \in ExitLine /\ "DidNotExit" \notin Exit!ExitCall
        /\ "exit" \in ExitThread /\ "exit" \notin Exit!Ending
    BY DEF ExitLine, ExitThread, Exit!ExitCall, Exit!Ending
  <2> QED BY <2>1, <2>2, ExitPrinted
<1>4. ASSUME NEW c \in Exit!Case, Exit!EndProcess(c) PROVE ExitInv'
  <2> DEFINE f == [running |-> FALSE, thread |-> [d \in Exit!Case |-> "none"]]
  <2>1. /\ DOMAIN f = {"running", "thread"} /\ f.thread = [d \in Exit!Case |-> "none"]
        /\ Exit!Set(f)
    BY <1>4 DEF Exit!EndProcess
  <2> HIDE DEF f
  <2>2. /\ DOMAIN small' = DOMAIN small
        /\ \A x \in DOMAIN small \ {"thread", "running"} : small'[x] = small[x]
        /\ small'.thread = [d \in Exit!Case |-> "none"]
    BY <1>0, <2>1, ExitSets DEF ExitFields
  <2>3. "none" \in ExitThread /\ "none" \notin Exit!Ending
    BY DEF ExitThread, Exit!Ending, Exit!ExitCall
  <2>4. /\ small'.thread \in [Exit!Case -> ExitThread]
        /\ \A d \in Exit!Case : small'.thread[d] \notin Exit!Ending
    BY <2>2, <2>3
  <2> QED BY <2>2, <2>4, ExitSilent
<1>5. ASSUME Exit!HalfLine PROVE ExitInv'
  <2> DEFINE f == [half |-> TRUE]
  <2>1. DOMAIN f = {"half"} /\ Exit!Set(f)
    BY <1>5 DEF Exit!HalfLine
  <2> HIDE DEF f
  <2>2. /\ DOMAIN small' = DOMAIN small
        /\ \A x \in DOMAIN small \ {"half"} : small'[x] = small[x]
    BY <2>1, ExitSets
  <2>3. small'.thread = small.thread
    BY <1>0, <2>2 DEF ExitFields
  <2> QED BY <1>0, <2>2, <2>3, ExitSilent DEF ExitTyped, ExitTrue
<1> QED BY <1>1, <1>2, <1>3, <1>4, <1>5, ExitSpawned, ExitCollected DEF Exit!Next

(* A has asked for nothing yet.                                            *)
LEMMA ExitInit == Exit!Init => ExitInv
<1> SUFFICES ASSUME Exit!Init PROVE ExitInv
  OBVIOUS
<1>1. /\ DOMAIN small = {"closure", "runs", "call", "at", "signal", "thread", "running",
                         "half", "out", "result"}
      /\ small.call = 1 /\ small.at = "A spawns" /\ small.out = << >>
      /\ small.thread = [c \in Exit!Case |-> "none"]
      /\ small.closure \in [Exit!Place -> Exit!Ending]
  <2>1. PICK closure, runs, none, thread :
           /\ closure \in [Exit!Place -> Exit!Ending]
           /\ none = << >> /\ thread = [c \in Exit!Case |-> "none"]
           /\ small = [closure |-> closure, runs |-> runs,
                       call |-> 1, at |-> "A spawns", signal |-> "none",
                       thread |-> thread, running |-> FALSE,
                       half |-> FALSE, out |-> none, result |-> "none"]
    BY Zenon DEF Exit!Init
  <2>2. DOMAIN small = {"closure", "runs", "call", "at", "signal", "thread", "running",
                        "half", "out", "result"}
    <3> HIDE <2>1
    <3> QED BY DEF Exit!Init
  <2>3. /\ small.call = 1 /\ small.at = "A spawns" /\ small.out = none
        /\ small.thread = thread /\ small.closure = closure
    BY Zenon, <2>1
  <2> QED BY Zenon, <2>1, <2>2, <2>3
<1>a. small.at = "A spawns"
  BY Zenon, <1>1
<1>2. small.out \in Seq(ExitLine) /\ 1..Len(small.out) = {} /\ small.call \in 1..2
  BY Zenon, <1>1, NoLines
<1>3. "none" \in ExitThread /\ "none" \notin Exit!Ending
  BY DEF ExitThread, Exit!Ending, Exit!ExitCall
<1>4. /\ small.thread \in [Exit!Case -> ExitThread]
      /\ \A d \in Exit!Case : small.thread[d] \notin Exit!Ending
  BY <1>1, <1>3
<1>5. Exit!ReportIsTrue /\ small.at # "A waits"
  <2>1. small.at \notin {"A waits", "A returned"}
    BY ONLY <1>a
  <2> QED BY Zenon, <2>1 DEF Exit!ReportIsTrue, Exit!At
<1>6. ExitTyped
  BY Zenon, <1>1, <1>2, <1>4 DEF ExitTyped, ExitFields
<1> QED BY Zenon, <1>2, <1>4, <1>5, <1>6 DEF ExitInv, ExitTrue

-----------------------------------------------------------------------------
-----------------------------------------------------------------------------
(***************************************************************************)
(* The beepers.  The capsule plays or keeps waiting a note of the          *)
(* program's only while its end has not been told; the notes that have     *)
(* ended are those before the one the program is at, and that one.         *)
(***************************************************************************)
Told == [status : {0, 1}, note : 1..Notes]

BeepFields == DOMAIN small = {"program", "at", "active", "waiting", "upcalls", "ended", "done",
                              "note", "waited", "played", "faults", "first", "stop", "said"}

BeepTyped ==
    /\ small.note \in 1..Notes
    /\ small.active \in 0..(Notes + 1) /\ small.waiting \in 0..Notes
    /\ small.faults \in Nat
    /\ ~Beeper!Tune => small.note = 1 /\ small.program = "hush"

(* What is queued, and what the listener was told.                         *)
QueuedIsOwn ==
    /\ small.upcalls \in Seq(Told) /\ small.done \in Seq(Told)
    /\ \A i \in 1..Len(small.upcalls) : small.upcalls[i].note = small.note
DoneIsOwn ==
    /\ small.done # << >> => small.upcalls = << >> /\ small.done[1].note = small.note
    /\ small.upcalls # << >> \/ small.done # << >> => small.note \in small.ended

Listening == small.at \in {"wait", "judge"}

BeepPlace ==
    \/ small.at \in {"begin", "note"} /\ small.said = "none"
    \/ Listening /\ small.said = "none"
    \/ /\ small.at \in {"stop", "final stop"} /\ small.said \in {"none", "could not run"}
       /\ small.at = "final stop" => ~Beeper!Tune
    \/ small.at = "over"

OwnSounds ==
    /\ small.active \in 1..Notes =>
          /\ small.waiting = 0
          /\ \/ small.at = "begin" /\ ~Beeper!Tune
             \/ small.at = "over"
             \/ /\ Listening \/ small.at = "stop"
                /\ small.active = small.note /\ small.note \notin small.ended
    /\ small.waiting # 0 =>
          /\ Listening \/ small.at \in {"stop", "over"}
          /\ small.waiting = small.note /\ small.note \notin small.ended

OwnEnded ==
    /\ small.at = "begin" => small.note = 1
    /\ small.at \in {"begin", "note"} =>
          small.ended = 1..(small.note - 1) /\ small.upcalls = << >>
    /\ Listening =>
          /\ small.ended = 1..(small.note - 1) \/ small.ended = 1..small.note
          /\ QueuedIsOwn /\ DoneIsOwn
    /\ small.at = "stop" /\ Beeper!Tune /\ small.faults = 0 /\ small.said = "none" =>
          small.ended = 1..Notes
    /\ small.at \in {"begin", "note"} /\ ~Beeper!Tune => small.done = << >>
    /\ ~Beeper!Tune /\ small.done # << >> => 1 \in small.ended

BeepInv == BeepFields /\ BeepTyped /\ BeepPlace /\ OwnSounds /\ OwnEnded /\ Beeper!VerdictIsTrue

(* What Set changes is what it names.                                      *)
LEMMA BeepSets ==
  ASSUME NEW f, Beeper!Set(f)
  PROVE  /\ DOMAIN small' = DOMAIN small
         /\ \A x \in DOMAIN small \cap DOMAIN f : small'[x] = f[x]
         /\ \A x \in DOMAIN small \ DOMAIN f : small'[x] = small[x]
BY DEF Beeper!Set

LEMMA BeepAssumed == Notes \in Nat \ {0}
BY ProgramsAssumption DEF ProgramsAssumption, Beeper!BeeperAssumption

(* One upcall in a queue that was empty.                                   *)
LEMMA OneUpcall ==
  ASSUME NEW one \in Told
  PROVE  /\ Append(<< >>, one) \in Seq(Told) /\ Append(<< >>, one) # << >>
         /\ \A i \in 1..Len(Append(<< >>, one)) : Append(<< >>, one)[i].note = one.note
OBVIOUS

(* The buzzer's own steps, and another process's.                          *)
LEMMA OthersBeep ==
  ASSUME BeepInv, Beeper!OtherPlays
  PROVE  BeepInv'
<1>0. BeepFields /\ BeepTyped /\ BeepPlace /\ OwnSounds /\ OwnEnded /\ Beeper!VerdictIsTrue
  BY DEF BeepInv
<1> DEFINE f == [active |-> Notes + 1]
<1>1. DOMAIN f = {"active"} /\ f.active = Notes + 1 /\ Beeper!Set(f) /\ small.at # "over"
  BY DEF Beeper!OtherPlays, Beeper!Other, Beeper!At
<1> HIDE DEF f
<1>2. /\ BeepFields' /\ small'.active = Notes + 1
      /\ small'.program = small.program /\ small'.at = small.at
      /\ small'.waiting = small.waiting /\ small'.upcalls = small.upcalls
      /\ small'.ended = small.ended /\ small'.done = small.done /\ small'.note = small.note
      /\ small'.faults = small.faults /\ small'.stop = small.stop /\ small'.said = small.said
  BY <1>0, <1>1, BeepSets DEF BeepFields
<1>3. Notes + 1 \in 0..(Notes + 1) /\ Notes + 1 \notin 1..Notes
  BY BeepAssumed
<1>4. BeepTyped' /\ BeepPlace' /\ OwnEnded'
  BY Zenon, <1>0, <1>2, <1>3
     DEF BeepTyped, BeepPlace, OwnEnded, QueuedIsOwn, DoneIsOwn, Listening, Beeper!Tune
<1>5. OwnSounds'
  BY Zenon, <1>0, <1>2, <1>3 DEF OwnSounds, Listening, Beeper!Tune
<1>6. Beeper!VerdictIsTrue'
  BY Zenon, <1>0, <1>2, <1>3 DEF Beeper!VerdictIsTrue, Beeper!At, Beeper!Mine
<1> QED BY <1>2, <1>4, <1>5, <1>6 DEF BeepInv

(* The buzzer passes to who waits.                                         *)
LEMMA BuzzerFreed ==
  ASSUME BeepFields, NEW s, s = Beeper!Freed(small)
  PROVE  /\ DOMAIN s = DOMAIN small
         /\ small.waiting = 0 => s.active = 0 /\ s.waiting = small.waiting
         /\ small.waiting # 0 => s.active = small.waiting /\ s.waiting = 0
         /\ \A x \in DOMAIN small \ {"active", "waiting"} : s[x] = small[x]
<1>1. CASE small.waiting = 0
  <2>1. s = [small EXCEPT !.active = 0]
    BY <1>1 DEF Beeper!Freed, Beeper!Nobody
  <2> QED BY <1>1, <2>1 DEF BeepFields
<1>2. CASE small.waiting # 0
  <2>1. s = [small EXCEPT !.active = small.waiting, !.waiting = 0]
    BY <1>2 DEF Beeper!Freed, Beeper!Nobody
  <2> QED BY <1>2, <2>1 DEF BeepFields
<1> QED BY <1>1, <1>2

LEMMA BuzzerPasses ==
  ASSUME BeepInv, small.at # "over", small' = Beeper!Freed(small),
         small.active = Notes + 1 \/ small.active \in 1..Notes
  PROVE  BeepInv'
<1>0. BeepFields /\ BeepTyped /\ BeepPlace /\ OwnSounds /\ OwnEnded /\ Beeper!VerdictIsTrue
  BY DEF BeepInv
<1>1. /\ DOMAIN small' = DOMAIN small
      /\ small.waiting = 0 => small'.active = 0 /\ small'.waiting = small.waiting
      /\ small.waiting # 0 => small'.active = small.waiting /\ small'.waiting = 0
      /\ \A x \in DOMAIN small \ {"active", "waiting"} : small'[x] = small[x]
  BY <1>0, BuzzerFreed
<1>2. /\ BeepFields'
      /\ small'.program = small.program /\ small'.at = small.at
      /\ small'.upcalls = small.upcalls
      /\ small'.ended = small.ended /\ small'.done = small.done /\ small'.note = small.note
      /\ small'.faults = small.faults /\ small'.stop = small.stop /\ small'.said = small.said
  BY <1>0, <1>1 DEF BeepFields
<1>3. /\ 0 \notin 1..Notes /\ 0 \in 0..Notes /\ 0 \in 0..(Notes + 1)
      /\ \A w \in 0..Notes : w \in 0..(Notes + 1) /\ (w # 0 => w \in 1..Notes)
  BY BeepAssumed
<1>4. small.waiting \in 0..Notes
  BY Zenon, <1>0 DEF BeepTyped
<1>5. BeepTyped'
  BY Zenon, <1>0, <1>1, <1>2, <1>3, <1>4 DEF BeepTyped, Beeper!Tune
<1>6. BeepPlace' /\ OwnEnded'
  BY Zenon, <1>0, <1>2 DEF BeepPlace, OwnEnded, QueuedIsOwn, DoneIsOwn, Listening, Beeper!Tune
<1>7. OwnSounds'
  <2>1. CASE small.waiting = 0
    BY Zenon, <1>1, <1>2, <1>3, <2>1 DEF OwnSounds
  <2>2. CASE small.waiting # 0
    <3>1. Listening \/ small.at = "stop"
      BY <1>0, <2>2 DEF OwnSounds
    <3>2. small.waiting = small.note /\ small.note \notin small.ended
      BY Zenon, <1>0, <2>2 DEF OwnSounds
    <3> QED BY Zenon, <1>1, <1>2, <2>2, <3>1, <3>2 DEF OwnSounds, Listening
  <2> QED BY <2>1, <2>2
<1>8. Beeper!VerdictIsTrue'
  BY Zenon, <1>0, <1>2 DEF Beeper!VerdictIsTrue, Beeper!At, Beeper!Mine
<1> QED BY <1>2, <1>5, <1>6, <1>7, <1>8 DEF BeepInv

LEMMA OthersEnd ==
  ASSUME BeepInv, Beeper!OtherEnds
  PROVE  BeepInv'
BY BuzzerPasses DEF Beeper!OtherEnds, Beeper!At, Beeper!Other

(* A note ends, and is told to who listens.                                *)
LEMMA NoteEnds ==
  ASSUME BeepInv, Beeper!buzzer_done
  PROVE  BeepInv'
<1>0. BeepFields /\ BeepTyped /\ BeepPlace /\ OwnSounds /\ OwnEnded /\ Beeper!VerdictIsTrue
  BY DEF BeepInv
<1>1. small.at # "over" /\ small.active \in 1..Notes
  BY DEF Beeper!buzzer_done, Beeper!At, Beeper!Mine
<1>2. CASE small' = Beeper!Freed(small)
  BY <1>1, <1>2, BuzzerPasses
<1>3. CASE small' # Beeper!Freed(small)
  <2>1. PICK status \in {0, 1} : small' = Beeper!Freed(
            IF Beeper!Listens
            THEN [small EXCEPT !.ended = @ \cup {small.active},
                               !.upcalls = Append(@, [status |-> status, note |-> small.active])]
            ELSE small)
    BY Zenon DEF Beeper!buzzer_done
  <2>2. Beeper!Listens
    BY Zenon, <1>3, <2>1
  <2>3. Listening
    <3>1. small.at \in {"wait", "judge", "note"}
      BY <2>2 DEF Beeper!Listens, Beeper!At
    <3>2. Listening \/ small.at \in {"begin", "stop"}
      BY Zenon, <1>0, <1>1 DEF OwnSounds
    <3> QED BY <3>1, <3>2
  <2>4. small.waiting = 0 /\ small.active = small.note /\ small.note \notin small.ended
    <3>1. small.at # "begin"
      BY <2>3 DEF Listening
    <3> QED BY Zenon, <1>0, <1>1, <3>1 DEF OwnSounds
  <2>5. QueuedIsOwn /\ DoneIsOwn
    BY Zenon, <1>0, <2>3 DEF OwnEnded
  <2>6. small.upcalls = << >> /\ small.done = << >>
    BY Zenon, <2>4, <2>5 DEF DoneIsOwn
  <2>7. small.ended = 1..(small.note - 1)
    <3>1. small.note \in 1..small.note
      <4>1. small.note \in 1..Notes
        BY Zenon, <1>0 DEF BeepTyped
      <4> QED BY <4>1
    <3> QED BY Zenon, <1>0, <2>3, <2>4, <3>1 DEF OwnEnded
  <2>8. PICK one : one = [status |-> status, note |-> small.note]
    OBVIOUS
  <2>9. one \in Told /\ one.note = small.note
    BY <1>0, <2>1, <2>8 DEF Told, BeepTyped
  <2>10. PICK told : told = Append(small.upcalls, one)
    OBVIOUS
  <2>11. /\ told \in Seq(Told) /\ told # << >>
         /\ \A i \in 1..Len(told) : told[i].note = one.note
    BY <2>6, <2>9, <2>10, OneUpcall
  <2>12. small' = Beeper!Freed([small EXCEPT !.ended = small.ended \cup {small.note},
                                            !.upcalls = told])
    BY Zenon, <2>1, <2>2, <2>4, <2>8, <2>10
  <2>13. small' = [[small EXCEPT !.ended = small.ended \cup {small.note},
                                !.upcalls = told] EXCEPT !.active = 0]
    BY <1>0, <2>4, <2>12 DEF Beeper!Freed, Beeper!Nobody, BeepFields
  <2>14. /\ BeepFields' /\ small'.active = 0 /\ small'.waiting = small.waiting
         /\ small'.program = small.program /\ small'.at = small.at
         /\ small'.upcalls = told /\ small'.ended = small.ended \cup {small.note}
         /\ small'.done = small.done /\ small'.note = small.note
         /\ small'.faults = small.faults /\ small'.stop = small.stop
         /\ small'.said = small.said
    BY <1>0, <2>13 DEF BeepFields
  <2>15. small'.ended = 1..small.note /\ small.note \in small'.ended
    <3>1. small.note \in 1..Notes
      BY Zenon, <1>0 DEF BeepTyped
    <3>2. (1..(small.note - 1)) \cup {small.note} = 1..small.note
      BY <3>1
    <3> QED BY Zenon, <2>7, <2>14, <3>2
  <2>16. BeepTyped'
    <3>1. 0 \in 0..(Notes + 1)
      BY BeepAssumed
    <3> QED BY Zenon, <1>0, <2>14, <3>1 DEF BeepTyped, Beeper!Tune
  <2>17. BeepPlace'
    BY Zenon, <1>0, <2>14 DEF BeepPlace, Listening, Beeper!Tune
  <2>18. OwnSounds'
    <3>1. 0 \notin 1..Notes
      BY BeepAssumed
    <3> QED BY Zenon, <2>4, <2>14, <3>1 DEF OwnSounds
  <2>19. QueuedIsOwn' /\ DoneIsOwn'
    BY Zenon, <2>5, <2>6, <2>9, <2>11, <2>14, <2>15 DEF QueuedIsOwn, DoneIsOwn
  <2>20. OwnEnded'
    <3>1. small.at \notin {"begin", "note", "stop"}
      BY <2>3 DEF Listening
    <3>2. Listening'
      BY Zenon, <2>3, <2>14 DEF Listening
    <3> QED BY Zenon, <1>0, <2>6, <2>14, <2>15, <2>19, <3>1, <3>2 DEF OwnEnded, Beeper!Tune
  <2>21. Beeper!VerdictIsTrue'
    <3>1. small.said = "none"
      <4>1. small.at \notin {"begin", "note", "stop", "final stop", "over"}
        BY <2>3 DEF Listening
      <4> QED BY Zenon, <1>0, <4>1 DEF BeepPlace
    <3>2. small.said \notin {"good", "complete", "never fired"}
      BY <3>1
    <3> QED BY Zenon, <1>1, <2>6, <2>14, <3>2 DEF Beeper!VerdictIsTrue, Beeper!At
  <2> QED BY <2>14, <2>16, <2>17, <2>18, <2>20, <2>21 DEF BeepInv
<1> QED BY <1>2, <1>3

(* What Leave sets.                                                        *)
LEMMA BeepLeaves ==
  ASSUME BeepFields, NEW at, NEW f, Beeper!Leave(at, f),
         DOMAIN f \subseteq {"faults", "said"}
  PROVE  /\ BeepFields' /\ small'.at = at /\ small'.upcalls = << >>
         /\ small'.faults = IF "faults" \in DOMAIN f THEN f.faults ELSE small.faults
         /\ small'.said = IF "said" \in DOMAIN f THEN f.said ELSE small.said
         /\ small'.program = small.program /\ small'.active = small.active
         /\ small'.waiting = small.waiting /\ small'.ended = small.ended
         /\ small'.done = small.done /\ small'.note = small.note
         /\ small'.stop = small.stop
<1> DEFINE g == [at |-> at, upcalls |-> << >>]
           h == Beeper!With(g, f)
<1>1. DOMAIN g = {"at", "upcalls"} /\ g.at = at /\ g.upcalls = << >>
  OBVIOUS
<1>2. Beeper!Set(h)
  BY DEF Beeper!Leave
<1> HIDE DEF g
<1>3. /\ DOMAIN h = DOMAIN g \cup DOMAIN f
      /\ \A x \in DOMAIN h : h[x] = IF x \in DOMAIN g THEN g[x] ELSE f[x]
  BY DEF Beeper!With
<1> HIDE DEF h
<1>4. /\ DOMAIN small' = DOMAIN small
      /\ \A x \in DOMAIN small : small'[x] = IF x \in DOMAIN h THEN h[x] ELSE small[x]
  BY <1>2 DEF Beeper!Set
<1>5. \A x \in DOMAIN small :
         small'[x] = IF x \in DOMAIN g THEN g[x]
                     ELSE IF x \in DOMAIN f THEN f[x] ELSE small[x]
  BY <1>3, <1>4
<1>6. /\ small'.at = g.at /\ small'.upcalls = g.upcalls
      /\ small'.faults = IF "faults" \in DOMAIN f THEN f.faults ELSE small.faults
      /\ small'.said = IF "said" \in DOMAIN f THEN f.said ELSE small.said
  <2>1. DOMAIN g = {"at", "upcalls"}
    BY <1>1
  <2> QED BY <1>5, <2>1 DEF BeepFields
<1>7. /\ BeepFields'
      /\ small'.program = small.program /\ small'.active = small.active
      /\ small'.waiting = small.waiting /\ small'.ended = small.ended
      /\ small'.done = small.done /\ small'.note = small.note
      /\ small'.stop = small.stop
  <2>1. DOMAIN g = {"at", "upcalls"}
    BY <1>1
  <2> QED BY <1>4, <1>5, <2>1 DEF BeepFields
<1> QED BY Zenon, <1>1, <1>6, <1>7

(* The press, and the stop that comes first.                               *)
LEMMA Pressed ==
  ASSUME BeepInv, Beeper!wait_for_press
  PROVE  BeepInv'
<1>0. BeepFields /\ BeepTyped /\ BeepPlace /\ OwnSounds /\ OwnEnded /\ Beeper!VerdictIsTrue
  BY DEF BeepInv
<1>1. PICK at \in {"note", "over"} : Beeper!Set([at |-> at])
  BY DEF Beeper!wait_for_press
<1>2. Beeper!Tune /\ small.at = "begin"
  BY DEF Beeper!wait_for_press, Beeper!At
<1> DEFINE f == [at |-> at]
<1>3. DOMAIN f = {"at"} /\ f.at = at /\ Beeper!Set(f)
  BY <1>1
<1> HIDE DEF f
<1>4. /\ BeepFields' /\ small'.at = at
      /\ small'.program = small.program /\ small'.active = small.active
      /\ small'.waiting = small.waiting /\ small'.upcalls = small.upcalls
      /\ small'.ended = small.ended /\ small'.done = small.done /\ small'.note = small.note
      /\ small'.faults = small.faults /\ small'.stop = small.stop /\ small'.said = small.said
  BY <1>0, <1>3, BeepSets DEF BeepFields
<1>5. small.active \notin 1..Notes /\ small.waiting = 0
  <2>1. ~Listening /\ small.at # "stop" /\ small.at # "over"
    BY <1>2 DEF Listening
  <2> QED BY <1>0, <1>2, <2>1 DEF OwnSounds
<1>6. /\ small.said = "none" /\ small.ended = 1..(small.note - 1) /\ small.upcalls = << >>
  <2>1. ~Listening /\ small.at \notin {"stop", "final stop", "over"}
    BY <1>2 DEF Listening
  <2>2. small.at \in {"begin", "note"}
    BY <1>2
  <2> QED BY Zenon, <1>0, <2>1, <2>2 DEF BeepPlace, OwnEnded
<1>7. at \notin {"begin", "wait", "judge", "stop", "final stop"}
  BY <1>1
<1>8. BeepTyped' /\ OwnSounds'
  BY Zenon, <1>0, <1>4, <1>5 DEF BeepTyped, OwnSounds, Beeper!Tune
<1>9. BeepPlace'
  BY <1>1, <1>4, <1>6 DEF BeepPlace
<1>10. OwnEnded'
  <2>1. ~Listening' /\ small'.at # "begin" /\ small'.at # "stop" /\ Beeper!Tune'
    BY Zenon, <1>2, <1>4, <1>7 DEF Listening, Beeper!Tune
  <2> QED BY Zenon, <1>4, <1>6, <2>1 DEF OwnEnded
<1>11. Beeper!VerdictIsTrue'
  <2>1. small'.said \notin {"good", "complete", "never fired"} /\ small'.at # "judge"
    BY <1>4, <1>6, <1>7
  <2> QED BY Zenon, <1>4, <1>5, <2>1 DEF Beeper!VerdictIsTrue, Beeper!At, Beeper!Mine
<1> QED BY <1>4, <1>8, <1>9, <1>10, <1>11 DEF BeepInv

LEMMA NotesNumbered ==
  /\ 0 \notin 1..Notes /\ 0 \in 0..(Notes + 1)
  /\ Notes + 1 \notin 1..Notes
  /\ \A k \in 0..(Notes + 1) : k # 0 /\ k # Notes + 1 => k \in 1..Notes
BY BeepAssumed

(* A stop leaves the capsule with a note of the program's only where it is *)
(* answered as one that stops it.                                          *)
LEMMA StopLeaves ==
  ASSUME BeepFields, BeepTyped, small.active \in 1..Notes => small.waiting = 0,
         NEW s \in Beeper!AfterStop
  PROVE  /\ DOMAIN s = DOMAIN small /\ s.active \in 0..(Notes + 1)
         /\ s.active \in 1..Notes => s.active = small.active /\ Beeper!Stopped = "ok"
         /\ \A x \in DOMAIN small \ {"active"} : s[x] = small[x]
<1>1. small.active \in 0..(Notes + 1)
  BY Zenon DEF BeepTyped
<1>2. small.active \in 1..Notes <=> Beeper!Stopped = "ok"
  <2>1. CASE small.active = 0
    BY <2>1, NotesNumbered DEF Beeper!Stopped, Beeper!Nobody
  <2>2. CASE small.active = Notes + 1
    BY <2>2, BeepAssumed DEF Beeper!Stopped, Beeper!Nobody, Beeper!Other
  <2>3. CASE small.active # 0 /\ small.active # Notes + 1
    <3>1. Beeper!Stopped = "ok"
      BY <2>3 DEF Beeper!Stopped, Beeper!Nobody, Beeper!Other
    <3> QED BY Zenon, <1>1, <2>3, <3>1, NotesNumbered
  <2> QED BY <2>1, <2>2, <2>3
<1>3. CASE s = small
  BY Zenon, <1>1, <1>2, <1>3
<1>4. CASE Beeper!Stopped = "ok" /\ s = Beeper!Freed(small)
  <2>1. s = [small EXCEPT !.active = 0]
    BY <1>2, <1>4 DEF Beeper!Freed, Beeper!Nobody
  <2>2. /\ DOMAIN s = DOMAIN small /\ s.active = 0
        /\ \A x \in DOMAIN small \ {"active"} : s[x] = small[x]
    BY <2>1 DEF BeepFields
  <2> QED BY Zenon, <2>2, NotesNumbered
<1>5. s = small \/ (Beeper!Stopped = "ok" /\ s = Beeper!Freed(small))
  <2>1. CASE Beeper!Stopped = "ok"
    BY <2>1 DEF Beeper!AfterStop
  <2>2. CASE Beeper!Stopped # "ok"
    BY <2>2 DEF Beeper!AfterStop
  <2> QED BY <2>1, <2>2
<1> QED BY Zenon, <1>3, <1>4, <1>5

LEMMA StoppedFirst ==
  ASSUME BeepInv, Beeper!FirstStop
  PROVE  BeepInv'
<1>0. BeepFields /\ BeepTyped /\ BeepPlace /\ OwnSounds /\ OwnEnded /\ Beeper!VerdictIsTrue
  BY DEF BeepInv
<1>1. ~Beeper!Tune /\ small.at = "begin"
  BY DEF Beeper!FirstStop, Beeper!At
<1>2. PICK s, first, at :
         /\ s \in Beeper!AfterStop
         /\ small' = [s EXCEPT !.first = first, !.at = at]
         /\ first = Beeper!Stopped
         /\ at = IF first \in {"ok", "RESERVE"} THEN "over" ELSE "note"
  BY DEF Beeper!FirstStop
<1>3. small.waiting = 0
  <2>1. ~Listening /\ small.at # "stop" /\ small.at # "over"
    BY <1>1 DEF Listening
  <2> QED BY <1>0, <2>1 DEF OwnSounds
<1>4. /\ DOMAIN s = DOMAIN small /\ s.active \in 0..(Notes + 1)
      /\ s.active \in 1..Notes => first = "ok"
      /\ \A x \in DOMAIN small \ {"active"} : s[x] = small[x]
  BY Zenon, <1>0, <1>2, <1>3, StopLeaves
<1>5. at \in {"over", "note"} /\ (first = "ok" => at = "over")
  BY <1>2
<1>6. /\ BeepFields' /\ small'.at = at /\ small'.active = s.active
      /\ small'.program = small.program /\ small'.waiting = small.waiting
      /\ small'.upcalls = small.upcalls
      /\ small'.ended = small.ended /\ small'.done = small.done /\ small'.note = small.note
      /\ small'.faults = small.faults /\ small'.said = small.said
      /\ small'.first = first
  BY <1>0, <1>2, <1>4 DEF BeepFields
<1>7. /\ small.said = "none" /\ small.ended = 1..(small.note - 1) /\ small.upcalls = << >>
      /\ small.done = << >>
  <2>1. ~Listening /\ small.at \notin {"stop", "final stop", "over"}
    BY <1>1 DEF Listening
  <2>2. small.at \in {"begin", "note"}
    BY <1>1
  <2> QED BY Zenon, <1>0, <1>1, <2>1, <2>2 DEF BeepPlace, OwnEnded
<1>8. at \notin {"begin", "wait", "judge", "stop", "final stop"}
  BY <1>5
<1>9. BeepTyped' /\ OwnSounds'
  BY Zenon, <1>0, <1>3, <1>4, <1>5, <1>6 DEF BeepTyped, OwnSounds, Beeper!Tune
<1>10. BeepPlace'
  BY <1>5, <1>6, <1>7 DEF BeepPlace
<1>11. OwnEnded'
  <2>1. ~Listening' /\ small'.at # "begin" /\ small'.at # "stop"
    BY Zenon, <1>6, <1>8 DEF Listening
  <2> QED BY Zenon, <1>6, <1>7, <2>1 DEF OwnEnded
<1>12. Beeper!VerdictIsTrue'
  <2>1. small'.said \notin {"good", "complete", "never fired"} /\ small'.at # "judge"
    BY <1>6, <1>7, <1>8
  <2> QED BY Zenon, <1>4, <1>6, <2>1 DEF Beeper!VerdictIsTrue, Beeper!At, Beeper!Mine
<1> QED BY <1>6, <1>9, <1>10, <1>11, <1>12 DEF BeepInv

(* Where the scope is left before a note has been asked for.               *)
LEMMA NotedLeft ==
  ASSUME BeepInv, small.at = "note", BeepFields',
         small'.at = IF Beeper!Tune THEN "stop" ELSE "final stop",
         small'.upcalls = << >>, small'.faults \in Nat,
         \/ small'.said = "could not run"
         \/ small'.said = small.said /\ small'.faults # 0
         \/ small'.said = small.said /\ ~Beeper!Tune,
         small'.program = small.program /\ small'.active = small.active,
         small'.waiting = small.waiting /\ small'.ended = small.ended,
         small'.done = small.done /\ small'.note = small.note,
         small'.stop = small.stop
  PROVE  BeepInv'
<1>0. BeepFields /\ BeepTyped /\ BeepPlace /\ OwnSounds /\ OwnEnded /\ Beeper!VerdictIsTrue
  BY DEF BeepInv
<1>1. small.active \notin 1..Notes /\ small.waiting = 0 /\ small.said = "none"
  <2>1. ~Listening /\ small.at \notin {"begin", "stop", "final stop", "over"}
    BY DEF Listening
  <2> QED BY Zenon, <1>0, <2>1 DEF OwnSounds, BeepPlace
<1>2. /\ small'.at \in {"stop", "final stop"}
      /\ small'.at \notin {"begin", "note", "wait", "judge", "over"}
      /\ (small'.at = "stop" => Beeper!Tune)
      /\ small'.said \in {"none", "could not run"}
      /\ small'.said \notin {"good", "complete", "never fired"}
  BY <1>1
<1>3. BeepTyped' /\ OwnSounds'
  BY Zenon, <1>0, <1>1 DEF BeepTyped, OwnSounds, Beeper!Tune
<1>4. BeepPlace'
  <2>1. small'.at = "final stop" => ~Beeper!Tune
    <3>1. "stop" # "final stop"
      OBVIOUS
    <3> QED BY Zenon, <3>1
  <2> QED BY Zenon, <1>2, <2>1 DEF BeepPlace, Beeper!Tune
<1>5. OwnEnded'
  <2>1. ~Listening'
    BY Zenon, <1>2 DEF Listening
  <2>2. small'.at = "stop" /\ small'.said = "none" => small'.faults # 0
    BY <1>1, <1>2
  <2>3. ~Beeper!Tune /\ small.done # << >> => 1 \in small.ended
    BY Zenon, <1>0 DEF OwnEnded
  <2> QED BY Zenon, <1>2, <2>1, <2>2, <2>3 DEF OwnEnded, Beeper!Tune
<1>6. Beeper!VerdictIsTrue'
  BY Zenon, <1>1, <1>2 DEF Beeper!VerdictIsTrue, Beeper!At, Beeper!Mine
<1> QED BY <1>3, <1>4, <1>5, <1>6 DEF BeepInv

LEMMA Unregistered ==
  ASSUME BeepInv, Beeper!register_listener
  PROVE  BeepInv'
<1>0. BeepFields /\ BeepTyped
  BY DEF BeepInv
<1> DEFINE f == [said |-> "could not run"]
<1>1. /\ DOMAIN f = {"said"} /\ f.said = "could not run" /\ small.at = "note"
      /\ Beeper!Leave(IF Beeper!Tune THEN "stop" ELSE "final stop", f)
  BY DEF Beeper!register_listener, Beeper!At
<1>2. /\ DOMAIN f \subseteq {"faults", "said"}
      /\ "faults" \notin DOMAIN f /\ "said" \in DOMAIN f
  BY <1>1
<1> HIDE DEF f
<1>3. /\ BeepFields' /\ small'.at = (IF Beeper!Tune THEN "stop" ELSE "final stop")
      /\ small'.upcalls = << >> /\ small'.said = f.said /\ small'.faults = small.faults
      /\ small'.program = small.program /\ small'.active = small.active
      /\ small'.waiting = small.waiting /\ small'.ended = small.ended
      /\ small'.done = small.done /\ small'.note = small.note
      /\ small'.stop = small.stop
  BY Zenon, <1>0, <1>1, <1>2, BeepLeaves
<1>4. small'.faults \in Nat
  BY Zenon, <1>0, <1>3 DEF BeepTyped
<1>5. small'.said = "could not run"
  BY Zenon, <1>1, <1>3
<1> QED BY Zenon, <1>1, <1>3, <1>4, <1>5, NotedLeft

LEMMA NothingNamed == DOMAIN << >> = {}
OBVIOUS

(* A note is asked for: it sounds, waits or is refused.                    *)
LEMMA NoteRefused ==
  ASSUME BeepInv, small.at = "note", Beeper!Refused
  PROVE  BeepInv'
<1>0. BeepFields /\ BeepTyped
  BY DEF BeepInv
<1>1. CASE Beeper!Tune
  <2> DEFINE f == [faults |-> small.faults + 1]
  <2>1. /\ DOMAIN f = {"faults"} /\ f.faults = small.faults + 1
        /\ Beeper!Leave("stop", f)
    BY <1>1 DEF Beeper!Refused
  <2>2. /\ DOMAIN f \subseteq {"faults", "said"}
        /\ "faults" \in DOMAIN f /\ "said" \notin DOMAIN f
    BY <2>1
  <2> HIDE DEF f
  <2>3. /\ BeepFields' /\ small'.at = "stop"
        /\ small'.upcalls = << >> /\ small'.said = small.said /\ small'.faults = f.faults
        /\ small'.program = small.program /\ small'.active = small.active
        /\ small'.waiting = small.waiting /\ small'.ended = small.ended
        /\ small'.done = small.done /\ small'.note = small.note
        /\ small'.stop = small.stop
    BY Zenon, <1>0, <2>1, <2>2, BeepLeaves
  <2>4. small'.faults \in Nat /\ small'.faults # 0
    <3>1. small.faults \in Nat
      BY Zenon, <1>0 DEF BeepTyped
    <3>2. small.faults + 1 \in Nat /\ small.faults + 1 # 0
      BY <3>1
    <3> QED BY Zenon, <2>1, <2>3, <3>2
  <2> QED BY Zenon, <1>1, <2>3, <2>4, NotedLeft
<1>2. CASE ~Beeper!Tune
  <2> DEFINE f == << >>
  <2>0. DOMAIN f = {}
    BY NothingNamed
  <2>1. DOMAIN f = {} /\ Beeper!Leave("final stop", f)
    BY Zenon, <1>2, <2>0 DEF Beeper!Refused
  <2>2. /\ DOMAIN f \subseteq {"faults", "said"}
        /\ "faults" \notin DOMAIN f /\ "said" \notin DOMAIN f
    BY <2>1
  <2> HIDE DEF f
  <2>3. /\ BeepFields' /\ small'.at = "final stop"
        /\ small'.upcalls = << >> /\ small'.said = small.said /\ small'.faults = small.faults
        /\ small'.program = small.program /\ small'.active = small.active
        /\ small'.waiting = small.waiting /\ small'.ended = small.ended
        /\ small'.done = small.done /\ small'.note = small.note
        /\ small'.stop = small.stop
    BY Zenon, <1>0, <2>1, <2>2, BeepLeaves
  <2>4. small'.faults \in Nat
    BY Zenon, <1>0, <2>3 DEF BeepTyped
  <2> QED BY Zenon, <1>2, <2>3, <2>4, NotedLeft
<1> QED BY <1>1, <1>2

LEMMA NoteAsked ==
  ASSUME BeepInv, Beeper!tone
  PROVE  BeepInv'
<1>0. BeepFields /\ BeepTyped /\ BeepPlace /\ OwnSounds /\ OwnEnded /\ Beeper!VerdictIsTrue
  BY DEF BeepInv
<1>1. small.at = "note"
  BY DEF Beeper!tone, Beeper!At
<1>2. CASE Beeper!Refused
  BY <1>1, <1>2, NoteRefused
<1>3. CASE ~Beeper!Refused
  <2>1. /\ small.active \notin 1..Notes /\ small.waiting = 0 /\ small.said = "none"
        /\ small.ended = 1..(small.note - 1) /\ small.upcalls = << >>
        /\ (~Beeper!Tune => small.done = << >>)
    <3>1. /\ ~Listening /\ small.at \notin {"begin", "stop", "final stop", "over"}
          /\ small.at \in {"begin", "note"}
      BY <1>1 DEF Listening
    <3> QED BY Zenon, <1>0, <3>1 DEF OwnSounds, BeepPlace, OwnEnded
  <2>2. PICK none : none = << >>
    OBVIOUS
  <2>3. small.note \in 1..Notes /\ small.note # 0 /\ small.note \notin 1..(small.note - 1)
    <3>1. small.note \in 1..Notes
      BY Zenon, <1>0 DEF BeepTyped
    <3> QED BY <3>1
  <2>4. /\ BeepFields' /\ small'.at = "wait" /\ small'.done = none
        /\ \/ small.active = 0 /\ small'.active = small.note /\ small'.waiting = small.waiting
           \/ /\ small.active # 0
              /\ small'.active = small.active /\ small'.waiting = small.note
        /\ small'.program = small.program /\ small'.upcalls = small.upcalls
        /\ small'.ended = small.ended /\ small'.note = small.note
        /\ small'.faults = small.faults /\ small'.stop = small.stop
        /\ small'.said = small.said
    <3>1. CASE /\ small.active = 0
               /\ Beeper!Set([at |-> "wait", done |-> none, waited |-> 0, active |-> small.note])
      <4> DEFINE f == [at |-> "wait", done |-> none, waited |-> 0, active |-> small.note]
      <4>1. /\ DOMAIN f = {"at", "done", "waited", "active"}
            /\ f.at = "wait" /\ f.done = none /\ f.active = small.note
        OBVIOUS
      <4>2. Beeper!Set(f)
        BY <3>1
      <4> HIDE DEF f
      <4> QED BY <1>0, <3>1, <4>1, <4>2, BeepSets DEF BeepFields
    <3>2. CASE /\ small.active # 0
               /\ Beeper!Set([at |-> "wait", done |-> none, waited |-> 0, waiting |-> small.note])
      <4> DEFINE f == [at |-> "wait", done |-> none, waited |-> 0, waiting |-> small.note]
      <4>1. /\ DOMAIN f = {"at", "done", "waited", "waiting"}
            /\ f.at = "wait" /\ f.done = none /\ f.waiting = small.note
        OBVIOUS
      <4>2. Beeper!Set(f)
        BY <3>2
      <4> HIDE DEF f
      <4> QED BY <1>0, <3>2, <4>1, <4>2, BeepSets DEF BeepFields
    <3> QED BY Zenon, <1>3, <2>2, <3>1, <3>2 DEF Beeper!tone, Beeper!Nobody
  <2>5. small'.done = << >> /\ << >> \in Seq(Told) /\ 1..Len(<< >>) = {}
    <3>1. << >> \in Seq(Told) /\ 1..Len(<< >>) = {}
      OBVIOUS
    <3> QED BY Zenon, <2>2, <2>4, <3>1
  <2>6. BeepTyped'
    <3>1. \A k \in 1..Notes : k \in 0..(Notes + 1) /\ k \in 0..Notes
      BY BeepAssumed
    <3> QED BY Zenon, <1>0, <2>3, <2>4, <3>1 DEF BeepTyped, Beeper!Tune
  <2>7. BeepPlace' /\ Listening'
    BY Zenon, <2>1, <2>4 DEF BeepPlace, Listening
  <2>8. OwnSounds'
    BY Zenon, <2>1, <2>3, <2>4, <2>7 DEF OwnSounds
  <2>9. OwnEnded'
    <3>1. QueuedIsOwn' /\ DoneIsOwn'
      BY Zenon, <2>1, <2>4, <2>5 DEF QueuedIsOwn, DoneIsOwn
    <3>2. small'.at \notin {"begin", "note", "stop"}
      BY <2>4
    <3> QED BY Zenon, <2>1, <2>4, <2>5, <3>1, <3>2 DEF OwnEnded, Beeper!Tune
  <2>10. Beeper!VerdictIsTrue'
    <3>1. small'.said \notin {"good", "complete", "never fired"} /\ small'.at # "over"
      BY <2>1, <2>4
    <3> QED BY Zenon, <2>5, <3>1 DEF Beeper!VerdictIsTrue, Beeper!At
  <2> QED BY <2>4, <2>6, <2>7, <2>8, <2>9, <2>10 DEF BeepInv
<1> QED BY <1>2, <1>3

(* The wait ends, or tells of what was queued.                             *)
LEMMA WaitEnds ==
  ASSUME BeepInv, Beeper!At("wait"), Beeper!Set([at |-> "judge"])
  PROVE  BeepInv'
<1>0. BeepFields /\ BeepTyped /\ BeepPlace /\ OwnSounds /\ OwnEnded /\ Beeper!VerdictIsTrue
  BY DEF BeepInv
<1>1. small.at = "wait"
  BY DEF Beeper!At
<1> DEFINE f == [at |-> "judge"]
<1>2. DOMAIN f = {"at"} /\ f.at = "judge" /\ Beeper!Set(f)
  OBVIOUS
<1> HIDE DEF f
<1>3. /\ BeepFields' /\ small'.at = f.at
      /\ small'.program = small.program /\ small'.active = small.active
      /\ small'.waiting = small.waiting /\ small'.upcalls = small.upcalls
      /\ small'.ended = small.ended /\ small'.done = small.done /\ small'.note = small.note
      /\ small'.faults = small.faults /\ small'.stop = small.stop /\ small'.said = small.said
  BY <1>0, <1>2, BeepSets DEF BeepFields
<1>4. small'.at = "judge" /\ Listening /\ Listening'
  BY Zenon, <1>1, <1>2, <1>3 DEF Listening
<1>5. small.said = "none" /\ QueuedIsOwn /\ DoneIsOwn
  <2>1. small.at \notin {"begin", "note", "stop", "final stop", "over"}
    BY <1>1
  <2> QED BY Zenon, <1>0, <1>4, <2>1 DEF BeepPlace, OwnEnded
<1>6. small'.at \notin {"begin", "note", "stop", "over"} /\ small.at # "begin"
  BY <1>1, <1>4
<1>7. BeepTyped' /\ BeepPlace' /\ OwnSounds'
  <2>1. BeepTyped' /\ BeepPlace'
    BY Zenon, <1>0, <1>3, <1>4, <1>5 DEF BeepTyped, BeepPlace, Beeper!Tune
  <2>2. small.at \notin {"begin", "over"}
    BY <1>1
  <2>3. OwnSounds'
    BY Zenon, <1>0, <1>3, <1>4, <2>2 DEF OwnSounds
  <2> QED BY <2>1, <2>3
<1>8. OwnEnded'
  <2>1. QueuedIsOwn' /\ DoneIsOwn'
    BY Zenon, <1>3, <1>5 DEF QueuedIsOwn, DoneIsOwn
  <2> QED BY Zenon, <1>0, <1>3, <1>4, <1>6, <2>1 DEF OwnEnded, Beeper!Tune
<1>9. Beeper!VerdictIsTrue'
  <2>1. small'.said \notin {"good", "complete", "never fired"}
    BY <1>3, <1>5
  <2> QED BY Zenon, <1>3, <1>5, <1>6, <2>1 DEF Beeper!VerdictIsTrue, Beeper!At, DoneIsOwn
<1> QED BY <1>3, <1>7, <1>8, <1>9 DEF BeepInv

(* The last of a queue of upcalls is one of them.                          *)
LEMMA LastIsOne ==
  ASSUME NEW s \in Seq(Told), s # << >>
  PROVE  Len(s) \in 1..Len(s) /\ s[Len(s)] \in Told
OBVIOUS

LEMMA OneTold ==
  ASSUME NEW u \in Told
  PROVE  <<u>> \in Seq(Told) /\ <<u>>[1] = u /\ <<u>> # << >>
OBVIOUS

LEMMA SleepTells ==
  ASSUME BeepInv, Beeper!At("wait"), NEW told,
         told = (IF small.upcalls = << >> THEN small.done
                 ELSE <<small.upcalls[Len(small.upcalls)]>>),
         NEW waited, NEW none, none = << >>, small.done = << >>,
         Beeper!Set([waited |-> waited, upcalls |-> none, done |-> told])
  PROVE  BeepInv'
<1>0. BeepFields /\ BeepTyped /\ BeepPlace /\ OwnSounds /\ OwnEnded /\ Beeper!VerdictIsTrue
  BY DEF BeepInv
<1>1. small.at = "wait"
  BY DEF Beeper!At
<1> DEFINE f == [waited |-> waited, upcalls |-> none, done |-> told]
<1>2. /\ DOMAIN f = {"waited", "upcalls", "done"} /\ f.upcalls = none /\ f.done = told
      /\ Beeper!Set(f)
  OBVIOUS
<1> HIDE DEF f
<1>3. /\ BeepFields' /\ small'.at = small.at
      /\ small'.program = small.program /\ small'.active = small.active
      /\ small'.waiting = small.waiting /\ small'.upcalls = f.upcalls
      /\ small'.ended = small.ended /\ small'.done = f.done /\ small'.note = small.note
      /\ small'.faults = small.faults /\ small'.stop = small.stop /\ small'.said = small.said
  BY <1>0, <1>2, BeepSets DEF BeepFields
<1>4. small'.upcalls = << >> /\ small'.done = told
  BY Zenon, <1>2, <1>3
<1>5. Listening /\ Listening' /\ small.at \notin {"begin", "note", "stop", "over", "judge"}
  BY <1>1, <1>3 DEF Listening
<1>6. small.said = "none" /\ QueuedIsOwn /\ DoneIsOwn
  <2>1. small.at \notin {"begin", "note", "stop", "final stop", "over"}
    BY <1>1
  <2> QED BY Zenon, <1>0, <1>5, <2>1 DEF BeepPlace, OwnEnded
<1>7. /\ told \in Seq(Told)
      /\ told # << >> => told[1].note = small.note /\ small.note \in small.ended
  <2>1. CASE small.upcalls = << >>
    BY Zenon, <1>6, <2>1 DEF QueuedIsOwn
  <2>2. CASE small.upcalls # << >>
    <3>1. PICK u : u = small.upcalls[Len(small.upcalls)]
      OBVIOUS
    <3>2. u \in Told /\ u.note = small.note
      BY Zenon, <1>6, <2>2, <3>1, LastIsOne DEF QueuedIsOwn
    <3>3. told = <<u>>
      BY Zenon, <2>2, <3>1
    <3>4. told \in Seq(Told) /\ told[1] = u
      BY Zenon, <3>2, <3>3, OneTold
    <3> QED BY Zenon, <1>6, <2>2, <3>2, <3>4 DEF DoneIsOwn
  <2> QED BY <2>1, <2>2
<1>8. << >> \in Seq(Told) /\ 1..Len(<< >>) = {}
  OBVIOUS
<1>9. QueuedIsOwn' /\ DoneIsOwn'
  BY Zenon, <1>3, <1>4, <1>7, <1>8 DEF QueuedIsOwn, DoneIsOwn
<1>10. BeepTyped' /\ BeepPlace' /\ OwnSounds'
  BY Zenon, <1>0, <1>3, <1>5, <1>6 DEF BeepTyped, BeepPlace, OwnSounds, Beeper!Tune
<1>11. ~Beeper!Tune /\ told # << >> => 1 \in small.ended
  BY Zenon, <1>0, <1>7 DEF BeepTyped
<1>12. OwnEnded'
  BY Zenon, <1>0, <1>3, <1>4, <1>5, <1>9, <1>11 DEF OwnEnded, Beeper!Tune
<1>13. Beeper!VerdictIsTrue'
  <2>1. small'.said \notin {"good", "complete", "never fired"}
    BY <1>3, <1>6
  <2> QED BY Zenon, <1>3, <1>5, <2>1 DEF Beeper!VerdictIsTrue, Beeper!At
<1> QED BY <1>3, <1>10, <1>12, <1>13 DEF BeepInv

LEMMA WaitGoesOn ==
  ASSUME BeepInv, Beeper!wait_until
  PROVE  BeepInv'
<1>1. Beeper!At("wait")
  BY DEF Beeper!wait_until
<1>2. PICK waited : waited = small.waited + 1
  OBVIOUS
<1>3. PICK none : none = << >>
  OBVIOUS
<1>4. PICK told : told = (IF small.upcalls = << >> THEN small.done
                          ELSE <<small.upcalls[Len(small.upcalls)]>>)
  OBVIOUS
<1>5. \/ Beeper!Set([at |-> "judge"])
      \/ /\ small.done = << >>
         /\ Beeper!Set([waited |-> waited, upcalls |-> none, done |-> told])
  BY Zenon, <1>2, <1>3, <1>4 DEF Beeper!wait_until
<1>6. CASE Beeper!Set([at |-> "judge"])
  BY <1>1, <1>6, WaitEnds
<1>7. CASE /\ small.done = << >>
           /\ Beeper!Set([waited |-> waited, upcalls |-> none, done |-> told])
  BY Zenon, <1>1, <1>3, <1>4, <1>7, SleepTells
<1>8. QED BY <1>5, <1>6, <1>7

(* What is told at the judgement.                                          *)
LEMMA Judged ==
  ASSUME BeepInv, small.at = "judge"
  PROVE  /\ Listening /\ small.said = "none" /\ small.note \in 1..Notes
         /\ small.done # << >> =>
               /\ small.ended = 1..small.note /\ small.note \in small.ended
               /\ small.upcalls = << >>
               /\ small.active \notin 1..Notes /\ small.waiting = 0
<1>0. BeepFields /\ BeepTyped /\ BeepPlace /\ OwnSounds /\ OwnEnded
  BY DEF BeepInv
<1>1. Listening /\ small.at \notin {"begin", "note", "stop", "final stop", "over"}
  BY DEF Listening
<1>2. small.said = "none" /\ small.note \in 1..Notes
  BY Zenon, <1>0, <1>1 DEF BeepPlace, BeepTyped
<1>3. ASSUME small.done # << >>
      PROVE  /\ small.ended = 1..small.note /\ small.note \in small.ended
             /\ small.upcalls = << >>
             /\ small.active \notin 1..Notes /\ small.waiting = 0
  <2>1. small.note \in small.ended /\ small.upcalls = << >>
    BY Zenon, <1>0, <1>1, <1>3 DEF OwnEnded, DoneIsOwn
  <2>2. small.note \notin 1..(small.note - 1)
    BY <1>2
  <2>3. small.ended = 1..small.note
    BY Zenon, <1>0, <1>1, <2>1, <2>2 DEF OwnEnded
  <2>4. small.active \notin 1..Notes /\ small.waiting = 0
    BY Zenon, <1>0, <1>1, <2>1 DEF OwnSounds
  <2> QED BY Zenon, <2>1, <2>3, <2>4
<1> QED BY Zenon, <1>1, <1>2, <1>3

(* A judgement that ends the program's notes.                              *)
LEMMA JudgedLast ==
  ASSUME BeepInv, small.at = "judge", BeepFields',
         small'.at = "stop", small'.upcalls = << >>, small'.faults \in Nat,
         small'.faults # 0 \/ ~Beeper!Tune,
         small'.program = small.program /\ small'.active = small.active,
         small'.waiting = small.waiting /\ small'.ended = small.ended,
         small'.done = small.done /\ small'.note = small.note,
         small'.stop = small.stop /\ small'.said = small.said
  PROVE  BeepInv'
<1>0. BeepFields /\ BeepTyped /\ BeepPlace /\ OwnSounds /\ OwnEnded
  BY DEF BeepInv
<1>1. Listening /\ small.said = "none" /\ small.at # "begin"
  BY Judged
<1>2. /\ small'.at \notin {"begin", "note", "wait", "judge", "final stop", "over"}
      /\ small'.said \notin {"good", "complete", "never fired"}
  BY <1>1
<1>3. ~Listening'
  BY Zenon, <1>2 DEF Listening
<1>4. BeepTyped' /\ BeepPlace' /\ OwnSounds'
  BY Zenon, <1>0, <1>1, <1>2 DEF BeepTyped, BeepPlace, OwnSounds, Beeper!Tune
<1>5. OwnEnded'
  BY Zenon, <1>0, <1>2, <1>3 DEF OwnEnded, Beeper!Tune
<1>6. Beeper!VerdictIsTrue'
  BY Zenon, <1>2 DEF Beeper!VerdictIsTrue, Beeper!At
<1> QED BY <1>4, <1>5, <1>6 DEF BeepInv

LEMMA NoteMissing ==
  ASSUME BeepInv, small.at = "judge", Beeper!Leave("stop", [faults |-> small.faults + 1])
  PROVE  BeepInv'
<1>0. BeepFields /\ BeepTyped
  BY DEF BeepInv
<1> DEFINE f == [faults |-> small.faults + 1]
<1>1. /\ DOMAIN f = {"faults"} /\ f.faults = small.faults + 1
      /\ Beeper!Leave("stop", f)
  OBVIOUS
<1>2. /\ DOMAIN f \subseteq {"faults", "said"}
      /\ "faults" \in DOMAIN f /\ "said" \notin DOMAIN f
  BY <1>1
<1> HIDE DEF f
<1>3. /\ BeepFields' /\ small'.at = "stop"
      /\ small'.upcalls = << >> /\ small'.said = small.said /\ small'.faults = f.faults
      /\ small'.program = small.program /\ small'.active = small.active
      /\ small'.waiting = small.waiting /\ small'.ended = small.ended
      /\ small'.done = small.done /\ small'.note = small.note
      /\ small'.stop = small.stop
  BY Zenon, <1>0, <1>1, <1>2, BeepLeaves
<1>4. small'.faults \in Nat /\ small'.faults # 0
  <2>1. small.faults \in Nat
    BY Zenon, <1>0 DEF BeepTyped
  <2>2. small.faults + 1 \in Nat /\ small.faults + 1 # 0
    BY <2>1
  <2> QED BY Zenon, <1>1, <1>3, <2>2
<1> QED BY Zenon, <1>3, <1>4, JudgedLast

LEMMA HushJudged ==
  ASSUME BeepInv, Beeper!HushJudge
  PROVE  BeepInv'
<1>0. BeepFields /\ BeepTyped
  BY DEF BeepInv
<1> DEFINE f == << >>
<1>1. DOMAIN f = {}
  BY NothingNamed
<1>2. /\ ~Beeper!Tune /\ small.at = "judge" /\ Beeper!Leave("stop", f)
      /\ DOMAIN f \subseteq {"faults", "said"}
      /\ "faults" \notin DOMAIN f /\ "said" \notin DOMAIN f
  BY <1>1 DEF Beeper!HushJudge, Beeper!At
<1> HIDE DEF f
<1>3. /\ BeepFields' /\ small'.at = "stop"
      /\ small'.upcalls = << >> /\ small'.said = small.said /\ small'.faults = small.faults
      /\ small'.program = small.program /\ small'.active = small.active
      /\ small'.waiting = small.waiting /\ small'.ended = small.ended
      /\ small'.done = small.done /\ small'.note = small.note
      /\ small'.stop = small.stop
  BY Zenon, <1>0, <1>2, BeepLeaves
<1>4. small'.faults \in Nat
  BY Zenon, <1>0, <1>3 DEF BeepTyped
<1> QED BY Zenon, <1>2, <1>3, <1>4, JudgedLast

(* A note that was told of is counted, and the next one is asked for.      *)
LEMMA NoteCounted ==
  ASSUME BeepInv, Beeper!Tune, small.at = "judge", small.done # << >>,
         NEW played, NEW fault \in {0, 1}, NEW at, at = Beeper!Goes,
         Beeper!Set([played |-> played, at |-> at, faults |-> small.faults + fault,
                     note |-> IF at = "note" THEN small.note + 1 ELSE small.note])
  PROVE  BeepInv'
<1>0. BeepFields /\ BeepTyped /\ BeepPlace /\ OwnSounds /\ OwnEnded
  BY DEF BeepInv
<1>1. PICK note : note = IF at = "note" THEN small.note + 1 ELSE small.note
  OBVIOUS
<1>2. PICK faults : faults = small.faults + fault
  OBVIOUS
<1> DEFINE f == [played |-> played, at |-> at, faults |-> faults, note |-> note]
<1>3. /\ DOMAIN f = {"played", "at", "faults", "note"}
      /\ f.at = at /\ f.note = note /\ f.faults = faults
      /\ Beeper!Set(f)
  BY <1>1, <1>2
<1> HIDE DEF f
<1>4. /\ BeepFields' /\ small'.at = f.at
      /\ small'.program = small.program /\ small'.active = small.active
      /\ small'.waiting = small.waiting /\ small'.upcalls = small.upcalls
      /\ small'.ended = small.ended /\ small'.done = small.done /\ small'.note = f.note
      /\ small'.faults = f.faults /\ small'.stop = small.stop /\ small'.said = small.said
  BY <1>0, <1>3, BeepSets DEF BeepFields
<1>5. small'.at = at /\ small'.note = note /\ small'.faults = faults
  BY Zenon, <1>3, <1>4
<1>6. /\ Listening /\ small.said = "none" /\ small.note \in 1..Notes
      /\ small.ended = 1..small.note /\ small.upcalls = << >>
      /\ small.active \notin 1..Notes /\ small.waiting = 0
  BY Zenon, Judged
<1>7. faults \in Nat
  <2>1. small.faults \in Nat
    BY Zenon, <1>0 DEF BeepTyped
  <2> QED BY <1>2, <2>1
<1>8. \/ at = "stop" /\ small.note = Notes /\ note = small.note
      \/ at = "note" /\ small.note # Notes /\ note = small.note + 1
  BY <1>1 DEF Beeper!Goes
<1>9. note \in 1..Notes /\ (at = "note" => small.ended = 1..(note - 1))
  BY <1>6, <1>8, BeepAssumed
<1>10. /\ at \notin {"begin", "wait", "judge", "final stop", "over"}
       /\ small.said \notin {"good", "complete", "never fired"}
  BY <1>6, <1>8
<1>11. ~Listening'
  BY Zenon, <1>5, <1>10 DEF Listening
<1>12. BeepTyped' /\ OwnSounds'
  BY Zenon, <1>0, <1>4, <1>5, <1>6, <1>7, <1>9 DEF BeepTyped, OwnSounds, Beeper!Tune
<1>13. BeepPlace'
  BY Zenon, <1>4, <1>5, <1>6, <1>8, <1>10 DEF BeepPlace
<1>14. OwnEnded'
  <2>1. at = "stop" => small.ended = 1..Notes /\ at # "note"
    BY <1>6, <1>8
  <2>2. Beeper!Tune'
    BY Zenon, <1>4 DEF Beeper!Tune
  <2> QED BY Zenon, <1>4, <1>5, <1>6, <1>9, <1>10, <1>11, <2>1, <2>2 DEF OwnEnded
<1>15. Beeper!VerdictIsTrue'
  BY Zenon, <1>4, <1>5, <1>10 DEF Beeper!VerdictIsTrue, Beeper!At
<1> QED BY <1>4, <1>12, <1>13, <1>14, <1>15 DEF BeepInv

LEMMA TuneJudged ==
  ASSUME BeepInv, Beeper!Judge
  PROVE  BeepInv'
<1>1. Beeper!Tune /\ small.at = "judge"
  BY DEF Beeper!Judge, Beeper!At
<1>2. CASE small.done = << >>
  <2>1. Beeper!Leave("stop", [faults |-> small.faults + 1])
    BY <1>2 DEF Beeper!Judge
  <2> QED BY <1>1, <2>1, NoteMissing
<1>3. CASE small.done # << >>
  <2>1. PICK at : at = Beeper!Goes
    OBVIOUS
  <2>2. PICK good : good = (small.done[1].status = 0)
    OBVIOUS
  <2>3. PICK played : played = small.played + (IF good THEN 1 ELSE 0)
    OBVIOUS
  <2>4. PICK fault \in {0, 1} : fault = IF good THEN 0 ELSE 1
    OBVIOUS
  <2>5. Beeper!Set([played |-> played, at |-> at, faults |-> small.faults + fault,
                    note |-> IF at = "note" THEN small.note + 1 ELSE small.note])
    BY Zenon, <1>3, <2>1, <2>2, <2>3, <2>4 DEF Beeper!Judge
  <2> QED BY Zenon, <1>1, <1>3, <2>1, <2>5, NoteCounted
<1> QED BY <1>2, <1>3

(* A stop that is granted is of the program's own note, which has not ended. *)
LEMMA StopGranted ==
  ASSUME BeepInv, small.at \in {"stop", "final stop"}, Beeper!Stopped = "ok"
  PROVE  small.note \in 1..Notes /\ small.note \notin small.ended
<1>0. BeepTyped /\ OwnSounds
  BY DEF BeepInv
<1>1. small.active \in 1..Notes
  <2>1. small.active # 0 /\ small.active # Notes + 1
    BY DEF Beeper!Stopped, Beeper!Nobody, Beeper!Other
  <2>2. small.active \in 0..(Notes + 1)
    BY Zenon, <1>0 DEF BeepTyped
  <2> QED BY Zenon, <2>1, <2>2, NotesNumbered
<1>2. small.at # "begin"
  OBVIOUS
<1> QED BY Zenon, <1>0, <1>1, <1>2 DEF OwnSounds, BeepTyped

(* What is said at the end.                                                *)
LEMMA SaysTrue ==
  ASSUME BeepInv, small.at \in {"stop", "final stop"}, NEW says, says = Beeper!Says
  PROVE  /\ says = "good" => small.ended = 1..Notes /\ Beeper!Stopped # "ok"
         /\ says = "complete" => 1 \in small.ended
         /\ says = "never fired" => 1 \notin small.ended
<1>0. BeepTyped /\ BeepPlace /\ OwnEnded
  BY DEF BeepInv
<1>1. /\ small.said \in {"none", "could not run"}
      /\ small.at = "final stop" => ~Beeper!Tune
  <2>1. ~Listening /\ small.at \notin {"begin", "note", "over"}
    BY DEF Listening
  <2> QED BY Zenon, <1>0, <2>1 DEF BeepPlace
<1>2. CASE Beeper!Tune
  <2>1. small.at = "stop"
    BY <1>1, <1>2
  <2>2. says \notin {"complete", "never fired"}
    BY <1>1, <1>2 DEF Beeper!Says
  <2>3. ASSUME says = "good" PROVE small.ended = 1..Notes /\ Beeper!Stopped # "ok"
    <3>1. small.said = "none" /\ small.faults = 0
      BY <1>1, <1>2, <2>3 DEF Beeper!Says
    <3>2. small.ended = 1..Notes
      BY Zenon, <1>0, <1>2, <2>1, <3>1 DEF OwnEnded
    <3>3. Beeper!Stopped # "ok"
      BY Zenon, <3>2, StopGranted
    <3> QED BY <3>2, <3>3
  <2> QED BY <2>2, <2>3
<1>3. CASE ~Beeper!Tune
  <2>1. says # "good"
    BY <1>3 DEF Beeper!Says
  <2>2. says = "complete" => small.done # << >>
    BY <1>3 DEF Beeper!Says
  <2>3. says = "never fired" => Beeper!Stopped = "ok"
    BY <1>3 DEF Beeper!Says
  <2>4. small.note = 1
    BY Zenon, <1>0, <1>3 DEF BeepTyped
  <2> QED BY Zenon, <1>0, <1>3, <2>1, <2>2, <2>3, <2>4, StopGranted DEF OwnEnded
<1> QED BY <1>2, <1>3

LEMMA StoppedLast ==
  ASSUME BeepInv, Beeper!LastStop
  PROVE  BeepInv'
<1>0. BeepFields /\ BeepTyped /\ BeepPlace /\ OwnSounds /\ OwnEnded
  BY DEF BeepInv
<1>1. small.at \in {"stop", "final stop"}
  BY DEF Beeper!LastStop, Beeper!At
<1>2. PICK s \in Beeper!AfterStop :
         small' = [s EXCEPT !.at = "over", !.stop = Beeper!Stopped, !.said = Beeper!Says]
  BY Zenon DEF Beeper!LastStop
<1>3. PICK says : says = Beeper!Says
  OBVIOUS
<1>4. PICK stop : stop = Beeper!Stopped
  OBVIOUS
<1>5. /\ DOMAIN s = DOMAIN small /\ s.active \in 0..(Notes + 1)
      /\ s.active \in 1..Notes => small.waiting = 0 /\ stop = "ok"
      /\ \A x \in DOMAIN small \ {"active"} : s[x] = small[x]
  <2>1. small.active \in 1..Notes => small.waiting = 0
    BY Zenon, <1>0 DEF OwnSounds
  <2> QED BY Zenon, <1>0, <1>2, <1>4, <2>1, StopLeaves
<1>6. PICK over : over = "over"
  OBVIOUS
<1>7. small' = [s EXCEPT !.at = over, !.stop = stop, !.said = says]
  BY Zenon, <1>2, <1>3, <1>4, <1>6
<1>8. /\ BeepFields' /\ small'.at = over /\ small'.active = s.active
      /\ small'.program = small.program /\ small'.waiting = small.waiting
      /\ small'.upcalls = small.upcalls
      /\ small'.ended = small.ended /\ small'.done = small.done /\ small'.note = small.note
      /\ small'.faults = small.faults /\ small'.stop = stop /\ small'.said = says
  <2>1. DOMAIN s = DOMAIN small /\ \A x \in DOMAIN small \ {"active"} : s[x] = small[x]
    BY Zenon, <1>5
  <2> QED BY <1>0, <1>7, <2>1 DEF BeepFields
<1>9. small'.at = "over" /\ small'.at \notin {"begin", "note", "wait", "judge", "stop"}
  BY <1>6, <1>8
<1>10. BeepTyped' /\ BeepPlace'
  BY Zenon, <1>0, <1>5, <1>8, <1>9 DEF BeepTyped, BeepPlace, Beeper!Tune
<1>11. OwnSounds'
  <2>1. small.waiting # 0 => small.waiting = small.note /\ small.note \notin small.ended
    BY Zenon, <1>0 DEF OwnSounds
  <2> QED BY Zenon, <1>5, <1>8, <1>9, <2>1 DEF OwnSounds
<1>12. OwnEnded'
  <2>1. ~Listening'
    BY Zenon, <1>9 DEF Listening
  <2> QED BY Zenon, <1>0, <1>8, <1>9, <2>1 DEF OwnEnded, Beeper!Tune
<1>13. Beeper!VerdictIsTrue'
  <2>1. /\ says = "good" => small.ended = 1..Notes /\ stop # "ok"
        /\ says = "complete" => 1 \in small.ended
        /\ says = "never fired" => 1 \notin small.ended
    BY <1>1, <1>3, <1>4, SaysTrue
  <2> QED BY Zenon, <1>5, <1>8, <1>9, <2>1 DEF Beeper!VerdictIsTrue, Beeper!At, Beeper!Mine
<1> QED BY <1>8, <1>10, <1>11, <1>12, <1>13 DEF BeepInv

LEMMA BeepStep ==
  ASSUME BeepInv, Beeper!Next
  PROVE  BeepInv'
BY Zenon, OthersBeep, OthersEnd, NoteEnds, Pressed, StoppedFirst, Unregistered, NoteAsked,
   WaitGoesOn, TuneJudged, HushJudged, StoppedLast DEF Beeper!Next

LEMMA BeepInit ==
  ASSUME Beeper!Init
  PROVE  BeepInv
<1>1. PICK p \in {"tune", "hush"}, who \in {0, Notes + 1, 1} :
         /\ who = 1 => p = "hush"
         /\ small = [program |-> p, at |-> "begin", active |-> who, waiting |-> 0,
                     upcalls |-> << >>, ended |-> {}, done |-> << >>, note |-> 1, waited |-> 0,
                     played |-> 0, faults |-> 0, first |-> "none", stop |-> "none",
                     said |-> "none"]
  BY Zenon DEF Beeper!Init, Beeper!Nobody, Beeper!Other
<1>2. PICK none : none = << >>
  OBVIOUS
<1>3. /\ BeepFields /\ small.program = p /\ small.at = "begin" /\ small.active = who
      /\ small.waiting = 0 /\ small.upcalls = none /\ small.ended = {} /\ small.done = none
      /\ small.note = 1 /\ small.faults = 0 /\ small.said = "none"
  BY <1>1, <1>2 DEF BeepFields
<1>4. /\ 1 \in 1..Notes /\ {0, Notes + 1, 1} \subseteq 0..(Notes + 1) /\ 0 \in 0..Notes
      /\ 0 \notin 1..Notes /\ Notes + 1 \notin 1..Notes /\ 1..(1 - 1) = {} /\ 0 \in Nat
  BY BeepAssumed
<1>5. /\ small.program # "tune" => small.program = "hush"
      /\ who \in 1..Notes => small.program # "tune"
  BY <1>1, <1>3, <1>4
<1>6. BeepTyped
  BY Zenon, <1>3, <1>4, <1>5 DEF BeepTyped, Beeper!Tune
<1>7. small.at \notin {"wait", "judge", "stop", "over"} /\ small.at \in {"begin", "note"}
  BY <1>3
<1>8. BeepPlace
  BY Zenon, <1>3, <1>7 DEF BeepPlace
<1>9. OwnSounds
  BY Zenon, <1>3, <1>5 DEF OwnSounds, Beeper!Tune
<1>10. OwnEnded
  <2>1. ~Listening
    BY Zenon, <1>7 DEF Listening
  <2> QED BY Zenon, <1>2, <1>3, <1>4, <1>7, <2>1 DEF OwnEnded
<1>11. Beeper!VerdictIsTrue
  <2>1. small.said \notin {"good", "complete", "never fired"}
    BY <1>3
  <2> QED BY Zenon, <1>7, <2>1 DEF Beeper!VerdictIsTrue, Beeper!At
<1> QED BY <1>3, <1>6, <1>8, <1>9, <1>10, <1>11 DEF BeepInv

-----------------------------------------------------------------------------
-----------------------------------------------------------------------------
(***************************************************************************)
(* The jitter probe.  A wake is due a whole number of periods after the    *)
(* first read of the counter, so that what it shows late is what is late;  *)
(* every sample is one of the set that is counted, and none counts twice.  *)
(***************************************************************************)
LEMMA JitterNumbers ==
  /\ Ticks \in Nat \ {0} /\ Period \in Nat \ {0} /\ Samples \in Nat \ {0}
  /\ Buckets \in Nat \ {0} /\ PerMicro \in Nat \ {0} /\ MaxLate \in Nat \ {0}
  /\ Start \subseteq 0..(Ticks - 1) /\ Samples * MaxLate < Ticks \div 2
BY ProgramsAssumption DEF ProgramsAssumption, Jitter!JitterAssumption

LEMMA Remainder ==
  ASSUME NEW t \in Nat \ {0}, NEW a \in Int
  PROVE  a % t \in 0..(t - 1) /\ a \div t \in Int /\ a = (t * (a \div t)) + (a % t)
OBVIOUS

LEMMA RemainderIs ==
  ASSUME NEW t \in Nat \ {0}, NEW q \in Int, NEW r \in 0..(t - 1)
  PROVE  ((t * q) + r) % t = r
<1>1. (t * q) + r \in Int
  OBVIOUS
<1>2. PICK p \in Int, s \in 0..(t - 1) :
         /\ s = ((t * q) + r) % t
         /\ (t * q) + r = (t * p) + s
  BY <1>1, Remainder
<1>3. t * (q - p) = s - r
  <2>1. t * (q - p) = (t * q) - (t * p)
    OBVIOUS
  <2> QED BY <1>2, <2>1
<1>4. CASE q = p
  BY <1>2, <1>4
<1>5. CASE q > p
  <2>1. PICK m \in Nat : q - p = m + 1
    BY <1>5
  <2>2. t * (q - p) = (t * m) + t /\ t * m >= 0
    BY <2>1
  <2> QED BY <1>2, <1>3, <2>2
<1>6. CASE q < p
  <2>1. PICK m \in Nat : q - p = -(m + 1)
    BY <1>6
  <2>2. t * (q - p) = -((t * m) + t) /\ t * m >= 0
    BY <2>1
  <2> QED BY <1>2, <1>3, <2>2
<1> QED BY <1>2, <1>4, <1>5, <1>6

(* Remainders may be taken at any time.                                    *)
LEMMA RemainderAdds ==
  ASSUME NEW t \in Nat \ {0}, NEW a \in Int, NEW b \in Int
  PROVE  ((a % t) + (b % t)) % t = (a + b) % t
<1>1. PICK p \in Int, r \in 0..(t - 1) : r = a % t /\ a = (t * p) + r
  BY Remainder
<1>2. PICK q \in Int, s \in 0..(t - 1) : s = b % t /\ b = (t * q) + s
  BY Remainder
<1>3. PICK m \in Int, u \in 0..(t - 1) : u = (r + s) % t /\ r + s = (t * m) + u
  <2>1. r + s \in Int
    OBVIOUS
  <2> QED BY <2>1, Remainder
<1>4. a + b = (t * (p + q + m)) + u /\ p + q + m \in Int
  <2>1. t * (p + q + m) = (t * p) + (t * q) + (t * m)
    OBVIOUS
  <2>2. PICK x \in Int, y \in Int, z \in Int : x = t * p /\ y = t * q /\ z = t * m
    OBVIOUS
  <2>3. a = x + r /\ b = y + s /\ r + s = z + u
    BY <1>1, <1>2, <1>3, <2>2
  <2>4. a + b = ((x + y) + z) + u
    BY <2>3
  <2> QED BY <2>1, <2>2, <2>4
<1>5. (a + b) % t = u
  BY <1>4, RemainderIs
<1> QED BY <1>1, <1>2, <1>3, <1>5

LEMMA RemainderSubtracts ==
  ASSUME NEW t \in Nat \ {0}, NEW a \in Int, NEW b \in Int
  PROVE  ((a % t) - (b % t)) % t = (a - b) % t
<1>1. PICK p \in Int, r \in 0..(t - 1) : r = a % t /\ a = (t * p) + r
  BY Remainder
<1>2. PICK q \in Int, s \in 0..(t - 1) : s = b % t /\ b = (t * q) + s
  BY Remainder
<1>3. PICK m \in Int, u \in 0..(t - 1) : u = (r - s) % t /\ r - s = (t * m) + u
  <2>1. r - s \in Int
    OBVIOUS
  <2> QED BY <2>1, Remainder
<1>4. a - b = (t * (p - q + m)) + u /\ p - q + m \in Int
  <2>1. t * (p - q + m) = (t * p) - (t * q) + (t * m)
    OBVIOUS
  <2>2. PICK x \in Int, y \in Int, z \in Int : x = t * p /\ y = t * q /\ z = t * m
    OBVIOUS
  <2>3. a = x + r /\ b = y + s /\ r - s = z + u
    BY <1>1, <1>2, <1>3, <2>2
  <2>4. a - b = ((x - y) + z) + u
    BY <2>3
  <2> QED BY <2>1, <2>2, <2>4
<1>5. (a - b) % t = u
  BY <1>4, RemainderIs
<1> QED BY <1>1, <1>2, <1>3, <1>5

(* What the counter shows late of a wake is how late it is.                *)
LEMMA LateIsRead ==
  ASSUME NEW t \in Nat \ {0}, t >= 4, NEW began \in Int, NEW time \in Int, NEW step \in Int,
         NEW d \in Int, d = time - (began + step), -1 <= d, d < t \div 2
  PROVE  LET w == ((time % t) - (((began % t) + (step % t)) % t)) % t
         IN (IF w < t \div 2 THEN w ELSE w - t) = d
<1>1. ((began % t) + (step % t)) % t = (began + step) % t
  BY RemainderAdds
<1>2. began + step \in Int
  OBVIOUS
<1>3. ((time % t) - ((began + step) % t)) % t = d % t
  BY <1>2, RemainderSubtracts
<1>4. 2 * (t \div 2) <= t
  OBVIOUS
<1>5. CASE d >= 0
  <2>1. d \in 0..(t - 1)
    BY <1>4, <1>5
  <2>2. d % t = d
    <3>1. ((t * 0) + d) % t = d
      BY <2>1, RemainderIs
    <3> QED BY <3>1
  <2> QED BY <1>1, <1>3, <2>2
<1>6. CASE d = -1
  <2>1. d % t = t - 1
    <3>1. t - 1 \in 0..(t - 1)
      OBVIOUS
    <3>2. ((t * (-1)) + (t - 1)) % t = t - 1
      BY <3>1, RemainderIs
    <3>3. (t * (-1)) + (t - 1) = d
      BY <1>6
    <3> QED BY <3>2, <3>3
  <2>2. ~(t - 1 < t \div 2)
    BY <1>4
  <2> QED BY <1>1, <1>3, <1>6, <2>1, <2>2
<1> QED BY <1>5, <1>6

Woken == [n : Int, late : Int, woken : Int]
Of(s) == Jitter!Towards0(s.late)
InBucket(i, set) == {s \in set : Jitter!bucket(Jitter!Abs(Of(s))) = i}
EarlyOnes(set) == {s \in set : Of(s) < 0}
Seen == {small.seen[i] : i \in 1..Len(small.seen)}
Due(n) == small.began + (n * Period)

JitterFields == DOMAIN small = {"at", "time", "began", "t0", "n", "hist", "least", "most",
                                "early", "errors", "seen"}

JitterTyped ==
    /\ small.time \in Int /\ small.began \in Int
    /\ small.n \in Nat /\ small.errors \in Nat /\ small.early \in Nat
    /\ small.hist \in [0..(Buckets - 1) -> Nat]
    /\ small.seen \in Seq(Woken)

(* Before a sample is taken, the wake is as late as its own lateness and   *)
(* those before it make it at most.                                        *)
Probing ==
    /\ small.n \in 1..Samples /\ small.t0 = small.began % Ticks
    /\ Len(small.seen) + small.errors = small.n - 1
Punctual(time, n) == time <= Due(n) + (n * MaxLate)

JitterPlace ==
    /\ small.at = "start" => small.n = 0 /\ Len(small.seen) + small.errors = 0
                             /\ small.time = small.began
    /\ small.at \in {"sleep", "read"} => Probing
    /\ small.at = "sleep" => Punctual(small.time, small.n - 1)
    /\ small.at = "read" => Punctual(small.time, small.n) /\ -1 <= small.time - Due(small.n)
    /\ small.at = "over" /\ small.n > 0 => Len(small.seen) + small.errors = Samples
    /\ small.at \in {"start", "sleep", "read", "over"}

Counted ==
    /\ IsFiniteSet(Seen)
    /\ \A s \in Seen : s \in Woken /\ s.n < small.n
    /\ \A i \in 0..(Buckets - 1) : small.hist[i] = Cardinality(InBucket(i, Seen))
    /\ small.early = Cardinality(EarlyOnes(Seen))

Extremes ==
    /\ Seen = {} => small.least = << >> /\ small.most = << >>
    /\ Seen # {} =>
          /\ small.least # << >> /\ small.most # << >>
          /\ \A s \in Seen : small.least[1] <= Of(s) /\ Of(s) <= small.most[1]
          /\ \E s \in Seen : s.n = small.least[2] /\ Of(s) = small.least[1]
          /\ \E s \in Seen : s.n = small.most[2] /\ Of(s) = small.most[1]

JitterInv == JitterFields /\ JitterTyped /\ JitterPlace /\ Counted /\ Extremes

(* The invariant says what the program's report is held to.                *)
LEMMA JitterTold ==
  ASSUME JitterInv
  PROVE  Jitter!LatenessIsTrue
<1>0. JitterPlace /\ Counted /\ Extremes
  BY DEF JitterInv
<1>1. \A set : Jitter!Cardinality(set) = Cardinality(set)
  BY Zenon DEF Jitter!Cardinality, Cardinality
<1>2. \A i \in 0..(Buckets - 1) : small.hist[i] = Jitter!Cardinality(InBucket(i, Seen))
  BY Zenon, <1>0, <1>1 DEF Counted
<1>3. small.early = Jitter!Cardinality(EarlyOnes(Seen))
  BY Zenon, <1>0, <1>1 DEF Counted
<1>4. small.at = "over" /\ small.n > 0 => Len(small.seen) + small.errors = Samples
  BY Zenon, <1>0 DEF JitterPlace
<1>5. Seen # {} =>
         /\ \A s \in Seen : small.least[1] <= Of(s) /\ Of(s) <= small.most[1]
         /\ \A b \in {small.least, small.most} : \E s \in Seen : s.n = b[2] /\ Of(s) = b[1]
  BY Zenon, <1>0 DEF Extremes
<1> QED BY Zenon, <1>2, <1>3, <1>4, <1>5
           DEF Jitter!LatenessIsTrue, InBucket, EarlyOnes, Seen, Of, Jitter!At

LEMMA JitterInit ==
  ASSUME Jitter!Init
  PROVE  JitterInv
<1>1. PICK time \in Start :
         small = [at |-> "start", time |-> time, began |-> time, t0 |-> 0, n |-> 0,
                  hist |-> [i \in 0..(Buckets - 1) |-> 0], least |-> << >>, most |-> << >>,
                  early |-> 0, errors |-> 0, seen |-> << >>]
  BY Zenon DEF Jitter!Init
<1>2. PICK none : none = << >>
  OBVIOUS
<1>3. PICK hist : hist = [i \in 0..(Buckets - 1) |-> 0]
  OBVIOUS
<1>4. PICK start : start = "start"
  OBVIOUS
<1>5. small = [at |-> start, time |-> time, began |-> time, t0 |-> 0, n |-> 0,
               hist |-> hist, least |-> none, most |-> none,
               early |-> 0, errors |-> 0, seen |-> none]
  BY Zenon, <1>1, <1>2, <1>3, <1>4
<1>6. /\ JitterFields /\ small.at = start /\ small.time = time /\ small.began = time
      /\ small.n = 0 /\ small.hist = hist /\ small.least = none /\ small.most = none
      /\ small.early = 0 /\ small.errors = 0 /\ small.seen = none
  BY <1>5 DEF JitterFields
<1>7. time \in Int /\ hist \in [0..(Buckets - 1) -> Nat] /\ 0 \in Nat
  <2>1. \A x \in 0..(Ticks - 1) : x \in Int
    OBVIOUS
  <2> QED BY <1>3, <2>1, JitterNumbers
<1>8. << >> \in Seq(Woken) /\ Len(<< >>) = 0 /\ 1..0 = {} /\ 0 + 0 = 0
  OBVIOUS
<1>9. Seen = {}
  BY Zenon, <1>2, <1>6, <1>8 DEF Seen
<1>10. JitterTyped
  BY Zenon, <1>2, <1>6, <1>7, <1>8 DEF JitterTyped
<1>11. small.at = "start" /\ small.at \notin {"sleep", "read", "over"}
  BY <1>4, <1>6
<1>12. JitterPlace
  BY Zenon, <1>2, <1>6, <1>8, <1>11 DEF JitterPlace
<1>13. Counted
  <2>1. \A i : InBucket(i, Seen) = {}
    BY Zenon, <1>9 DEF InBucket
  <2>2. EarlyOnes(Seen) = {}
    BY Zenon, <1>9 DEF EarlyOnes
  <2>3. \A i \in 0..(Buckets - 1) : hist[i] = 0
    BY <1>3
  <2>4. IsFiniteSet({}) /\ Cardinality({}) = 0
    BY FS_EmptySet
  <2> QED BY Zenon, <1>6, <1>9, <2>1, <2>2, <2>3, <2>4 DEF Counted
<1>14. Extremes
  BY Zenon, <1>2, <1>6, <1>9 DEF Extremes
<1> QED BY <1>6, <1>10, <1>12, <1>13, <1>14 DEF JitterInv

(* A step that takes no sample leaves what is counted as it is.            *)
LEMMA CountsLeft ==
  ASSUME JitterInv, small'.seen = small.seen, small'.hist = small.hist,
         small'.early = small.early, small'.least = small.least, small'.most = small.most,
         small'.n \in Nat, small'.n >= small.n
  PROVE  Counted' /\ Extremes'
<1>0. JitterTyped /\ Counted /\ Extremes
  BY DEF JitterInv
<1>1. Seen' = Seen
  BY Zenon DEF Seen
<1>2. \A s \in Seen : s \in Woken /\ s.n < small'.n
  <2>1. \A s \in Seen : s \in Woken /\ s.n < small.n
    BY Zenon, <1>0 DEF Counted
  <2>2. small.n \in Nat
    BY Zenon, <1>0 DEF JitterTyped
  <2>3. \A k \in Int : k < small.n => k < small'.n
    BY <2>2
  <2>4. \A s \in Woken : s.n \in Int
    BY DEF Woken
  <2> QED BY Zenon, <2>1, <2>3, <2>4
<1>3. Counted'
  BY Zenon, <1>0, <1>1, <1>2 DEF Counted
<1>4. Extremes'
  BY Zenon, <1>0, <1>1 DEF Extremes
<1> QED BY <1>3, <1>4

(* How late a wake may be grows with every wake before it.                 *)
LEMMA LaterStill ==
  ASSUME NEW n \in Nat, NEW time \in Int, small.began \in Int, n >= 1
  PROVE  /\ Punctual(time, n - 1) => Punctual(time, n)
         /\ Punctual(time, n - 1) /\ time >= Due(n) =>
               \A late \in 0..MaxLate : Punctual(time + late, n)
         /\ \A late \in -1..MaxLate : Punctual(Due(n) + late, n)
         /\ Due(n) \in Int /\ n * MaxLate \in Nat /\ n * Period \in Nat
<1>1. MaxLate \in Nat /\ Period \in Nat
  BY JitterNumbers
<1>2. PICK p \in Nat : p = (n - 1) * Period
  BY <1>1
<1>3. PICK l \in Nat : l = (n - 1) * MaxLate
  BY <1>1
<1>4. n * Period = p + Period
  BY <1>1, <1>2
<1>5. n * MaxLate = l + MaxLate
  BY <1>1, <1>3
<1>6. /\ Due(n) = small.began + (p + Period) /\ Due(n - 1) = small.began + p
  BY <1>2, <1>4 DEF Due
<1> QED BY <1>1, <1>3, <1>5, <1>6, <1>4 DEF Punctual

LEMMA Begun ==
  ASSUME JitterInv, Jitter!Begin
  PROVE  JitterInv'
<1>0. JitterFields /\ JitterTyped /\ JitterPlace
  BY DEF JitterInv
<1>1. small.at = "start"
  BY DEF Jitter!Begin, Jitter!At
<1>2. small.n = 0 /\ Len(small.seen) + small.errors = 0 /\ small.time = small.began
  BY Zenon, <1>0, <1>1 DEF JitterPlace
<1>3. PICK at, t0, n : /\ small' = [small EXCEPT !.at = at, !.t0 = t0, !.n = n]
                       /\ \/ at = "over" /\ n = 0
                          \/ at = "sleep" /\ t0 = small.began % Ticks /\ n = 1
  <2>1. CASE small' = [small EXCEPT !.at = "over"]
    <3>1. small' = [small EXCEPT !.at = "over", !.t0 = small.t0, !.n = 0]
      BY <1>0, <1>2, <2>1 DEF JitterFields
    <3> QED BY <3>1
  <2>2. CASE small' = [small EXCEPT !.at = "sleep", !.t0 = Jitter!Counter(small.time), !.n = 1]
    BY <1>2, <2>2 DEF Jitter!Counter
  <2> QED BY Zenon, <2>1, <2>2 DEF Jitter!Begin
<1>4. /\ JitterFields' /\ small'.at = at /\ small'.t0 = t0 /\ small'.n = n
      /\ small'.time = small.time /\ small'.began = small.began
      /\ small'.hist = small.hist /\ small'.least = small.least /\ small'.most = small.most
      /\ small'.early = small.early /\ small'.errors = small.errors
      /\ small'.seen = small.seen
  BY <1>0, <1>3 DEF JitterFields
<1>5. n \in Nat /\ n >= small.n /\ (at = "sleep" => n = 1) /\ (at = "over" => n = 0)
  BY <1>2, <1>3
<1>6. JitterTyped'
  BY Zenon, <1>0, <1>4, <1>5 DEF JitterTyped
<1>7. at \in {"sleep", "over"} /\ at \notin {"start", "read"}
  BY <1>3
<1>8. JitterPlace'
  <2>1. CASE at = "over"
    <3>1. at \notin {"start", "sleep", "read"} /\ ~(n > 0)
      BY <1>5, <2>1
    <3> QED BY Zenon, <1>4, <1>7, <3>1 DEF JitterPlace
  <2>2. CASE at = "sleep"
    <3>1. at \notin {"start", "over", "read"} /\ at \in {"sleep", "read"}
      BY <2>2
    <3>2. n = 1 /\ t0 = small.began % Ticks
      BY <1>3, <2>2
    <3>3. 1 \in 1..Samples /\ 1 - 1 = 0
      BY JitterNumbers
    <3>4. Punctual(small.time, 0)
      <4>1. small.began \in Int
        BY Zenon, <1>0 DEF JitterTyped
      <4>2. 0 * Period = 0 /\ 0 * MaxLate = 0
        BY JitterNumbers
      <4> QED BY <1>2, <4>1, <4>2 DEF Punctual, Due
    <3>5. Probing'
      BY Zenon, <1>2, <1>4, <3>2, <3>3 DEF Probing
    <3>6. (Punctual(small.time, small.n - 1))'
      BY Zenon, <1>4, <3>2, <3>3, <3>4 DEF Punctual, Due
    <3> QED BY Zenon, <1>4, <1>7, <3>1, <3>5, <3>6 DEF JitterPlace, Punctual, Due
  <2> QED BY <1>7, <2>1, <2>2
<1>9. Counted' /\ Extremes'
  BY Zenon, <1>4, <1>5, CountsLeft
<1> QED BY <1>4, <1>6, <1>8, <1>9 DEF JitterInv

LEMMA SleepReads == \A at : at = "sleep" => at \in {"sleep", "read"}
OBVIOUS

(* A wake is done with: counted, or lost to an error.                      *)
LEMMA WakeOver ==
  ASSUME JitterInv, small.at \in {"sleep", "read"}, NEW at,
         \/ small.n = Samples /\ at = "over"
         \/ small.n # Samples /\ at = "sleep",
         small'.at = at, small'.time = small.time, small'.began = small.began,
         small'.t0 = small.t0, small'.n = small.n + 1,
         Len(small'.seen) + small'.errors = (Len(small.seen) + small.errors) + 1
  PROVE  JitterPlace' /\ small'.n \in Nat /\ small'.n >= small.n
<1>0. JitterTyped /\ JitterPlace
  BY DEF JitterInv
<1>1. PICK n \in 1..Samples : n = small.n
  BY Zenon, <1>0 DEF JitterPlace, Probing
<1>2. /\ n \in Nat /\ n >= 1 /\ n + 1 \in Nat /\ n + 1 >= n /\ n + 1 > 0 /\ (n + 1) - 1 = n
      /\ n # Samples => n + 1 \in 1..Samples
      /\ n = Samples => (n - 1) + 1 = Samples
      /\ (n - 1) + 1 = n
  BY JitterNumbers
<1>3. small.t0 = small.began % Ticks /\ Len(small.seen) + small.errors = n - 1
  BY Zenon, <1>0, <1>1 DEF JitterPlace, Probing
<1>4. Punctual(small.time, n)
  <2>1. Punctual(small.time, n - 1) \/ Punctual(small.time, n)
    <3>1. CASE small.at = "sleep"
      BY Zenon, <1>0, <1>1, <3>1 DEF JitterPlace
    <3>2. CASE small.at = "read"
      BY Zenon, <1>0, <1>1, <3>2 DEF JitterPlace
    <3> QED BY <3>1, <3>2
  <2>2. small.time \in Int /\ small.began \in Int
    BY Zenon, <1>0 DEF JitterTyped
  <2> QED BY Zenon, <1>2, <2>1, <2>2, LaterStill
<1>5. Len(small'.seen) + small'.errors = n
  BY Zenon, <1>2, <1>3
<1>6. small'.n = n + 1
  BY Zenon, <1>1
<1>7. at \in {"start", "sleep", "read", "over"} /\ at # "start" /\ at # "read"
      /\ (at = "sleep" => n # Samples) /\ (at = "over" => n = Samples)
  BY <1>1
<1>8. JitterPlace'
  <2>0. small'.n - 1 = n
    BY Zenon, <1>2, <1>6
  <2>1. at \in {"sleep", "read"} => (Probing)'
    <3>1. small'.t0 = small'.began % Ticks
      BY Zenon, <1>3
    <3>2. at \in {"sleep", "read"} => small'.n \in 1..Samples
      BY Zenon, <1>2, <1>6, <1>7
    <3> QED BY Zenon, <1>5, <2>0, <3>1, <3>2 DEF Probing
  <2>2. (Punctual(small.time, small.n - 1))'
    BY Zenon, <1>4, <2>0 DEF Punctual, Due
  <2> QED BY Zenon, <1>5, <1>6, <1>7, <2>1, <2>2 DEF JitterPlace, Punctual, Due
<1> QED BY Zenon, <1>1, <1>2, <1>6, <1>8

LEMMA WakeLost ==
  ASSUME JitterInv, Jitter!Fails
  PROVE  JitterInv'
<1>0. JitterFields /\ JitterTyped /\ JitterPlace
  BY DEF JitterInv
<1>1. small.at \in {"sleep", "read"}
  BY DEF Jitter!Fails, Jitter!At
<1>2. PICK at : at = IF small.n = Samples THEN "over" ELSE "sleep"
  OBVIOUS
<1>3. small' = [small EXCEPT !.errors = small.errors + 1, !.n = small.n + 1, !.at = at]
  BY <1>2 DEF Jitter!Fails
<1>4. /\ JitterFields' /\ small'.at = at /\ small'.t0 = small.t0 /\ small'.n = small.n + 1
      /\ small'.time = small.time /\ small'.began = small.began
      /\ small'.hist = small.hist /\ small'.least = small.least /\ small'.most = small.most
      /\ small'.early = small.early /\ small'.errors = small.errors + 1
      /\ small'.seen = small.seen
  BY <1>0, <1>3 DEF JitterFields
<1>5. small.errors \in Nat /\ small.errors + 1 \in Nat
      /\ Len(small.seen) + (small.errors + 1) = (Len(small.seen) + small.errors) + 1
  <2>1. small.errors \in Nat /\ small.seen \in Seq(Woken)
    BY Zenon, <1>0 DEF JitterTyped
  <2>2. PICK e, l : e = small.errors /\ l = Len(small.seen)
    OBVIOUS
  <2>3. l \in Nat
    BY <2>1, <2>2
  <2>4. e + 1 \in Nat /\ l + (e + 1) = (l + e) + 1
    BY <2>1, <2>2, <2>3
  <2> QED BY Zenon, <2>1, <2>2, <2>4
<1>6. \/ small.n = Samples /\ at = "over"
      \/ small.n # Samples /\ at = "sleep"
  BY Zenon, <1>2
<1>7. JitterPlace' /\ small'.n \in Nat /\ small'.n >= small.n
  BY Zenon, <1>1, <1>4, <1>5, <1>6, WakeOver
<1>8. JitterTyped'
  BY Zenon, <1>0, <1>4, <1>5, <1>7 DEF JitterTyped
<1>9. Counted' /\ Extremes'
  BY Zenon, <1>4, <1>7, CountsLeft
<1> QED BY <1>4, <1>7, <1>8, <1>9 DEF JitterInv

LEMMA Slept ==
  ASSUME JitterInv, Jitter!sleep_until
  PROVE  JitterInv'
<1>0. JitterFields /\ JitterTyped /\ JitterPlace
  BY DEF JitterInv
<1>1. small.at = "sleep"
  BY DEF Jitter!sleep_until, Jitter!At
<1>2. PICK n \in 1..Samples : n = small.n
  BY Zenon, <1>0, <1>1, SleepReads DEF JitterPlace, Probing
<1>3. PICK began \in Int, time \in Int : began = small.began /\ time = small.time
  BY Zenon, <1>0 DEF JitterTyped
<1>4. PICK late, woken, at :
         /\ late \in -1..MaxLate
         /\ woken = IF time >= began + (n * Period)
                    THEN time + (IF late < 0 THEN 0 ELSE late)
                    ELSE began + (n * Period) + late
         /\ at = "read"
         /\ small' = [small EXCEPT !.at = at, !.time = woken]
  BY Zenon, <1>2, <1>3 DEF Jitter!sleep_until, Jitter!Due
<1>5. /\ JitterFields' /\ small'.at = at /\ small'.t0 = small.t0 /\ small'.n = small.n
      /\ small'.time = woken /\ small'.began = small.began
      /\ small'.hist = small.hist /\ small'.least = small.least /\ small'.most = small.most
      /\ small'.early = small.early /\ small'.errors = small.errors
      /\ small'.seen = small.seen
  BY <1>0, <1>4 DEF JitterFields
<1>6. n \in Nat /\ n >= 1 /\ n * Period \in Nat /\ small.began \in Int
  BY <1>3, JitterNumbers
<1>7. /\ Punctual(time, n - 1) /\ time >= Due(n) =>
            \A l \in 0..MaxLate : Punctual(time + l, n)
      /\ \A l \in -1..MaxLate : Punctual(Due(n) + l, n)
      /\ Due(n) \in Int
  BY Zenon, <1>6, LaterStill
<1>8. Punctual(time, n - 1)
  BY Zenon, <1>0, <1>1, <1>2, <1>3 DEF JitterPlace
<1>9. Due(n) = began + (n * Period)
  BY Zenon, <1>3 DEF Due
<1>10. woken \in Int /\ Punctual(woken, n) /\ -1 <= woken - Due(n)
  <2>1. PICK due \in Int : due = Due(n)
    BY <1>7
  <2>2. woken = IF time >= due THEN time + (IF late < 0 THEN 0 ELSE late) ELSE due + late
    BY Zenon, <1>4, <1>9, <2>1
  <2>3. late \in Int /\ MaxLate \in Nat /\ 0 \in 0..MaxLate /\ -1 <= late
        /\ (~(late < 0) => late \in 0..MaxLate)
    <3>1. late \in -1..MaxLate
      BY <1>4, Zenon
    <3> QED BY <3>1, JitterNumbers
  <2>4. CASE time >= due
    <3>1. PICK l \in 0..MaxLate : l = IF late < 0 THEN 0 ELSE late
      BY <2>3
    <3>2. woken = time + l
      BY Zenon, <2>2, <2>4, <3>1
    <3>3. Punctual(time + l, n)
      BY Zenon, <1>7, <1>8, <2>1, <2>4
    <3>4. time + l \in Int /\ -1 <= (time + l) - due
      BY <2>3, <2>4
    <3> QED BY Zenon, <2>1, <3>2, <3>3, <3>4
  <2>5. CASE ~(time >= due)
    <3>1. woken = due + late
      BY Zenon, <2>2, <2>5
    <3>2. Punctual(due + late, n)
      <4>1. late \in -1..MaxLate
        BY <1>4, Zenon
      <4> QED BY Zenon, <1>7, <2>1, <4>1
    <3>3. due + late \in Int /\ -1 <= (due + late) - due
      BY <2>3
    <3> QED BY Zenon, <2>1, <3>1, <3>2, <3>3
  <2> QED BY <2>4, <2>5
<1>11. JitterTyped'
  BY Zenon, <1>0, <1>5, <1>10 DEF JitterTyped
<1>12. at \notin {"start", "sleep", "over"} /\ at \in {"start", "sleep", "read", "over"}
  BY <1>4
<1>13. JitterPlace'
  <2>1. Probing'
    BY Zenon, <1>0, <1>1, <1>5, SleepReads DEF JitterPlace, Probing
  <2>2. (Punctual(small.time, small.n))' /\ -1 <= (small.time - Due(small.n))'
    BY Zenon, <1>2, <1>3, <1>5, <1>10 DEF Punctual, Due
  <2> QED BY Zenon, <1>5, <1>12, <2>1, <2>2 DEF JitterPlace, Punctual, Due
<1>14. Counted' /\ Extremes'
  <2>1. n <= n
    BY <1>6
  <2> QED BY Zenon, <1>2, <1>5, <1>6, <2>1, CountsLeft
<1> QED BY <1>5, <1>11, <1>13, <1>14 DEF JitterInv

LEMMA HalfCounter == Ticks >= 4 /\ \A n \in 1..Samples : n * MaxLate < Ticks \div 2
<1>1. PICK h \in Int : h = Ticks \div 2 /\ 2 * h <= Ticks
  BY JitterNumbers
<1>2. Samples * MaxLate >= 1 /\ Samples * MaxLate \in Nat
  BY JitterNumbers
<1>3. \A n \in 1..Samples : n * MaxLate <= Samples * MaxLate /\ n * MaxLate \in Nat
  <2> TAKE n \in 1..Samples
  <2>1. PICK k \in Nat : Samples = n + k
    BY JitterNumbers
  <2>2. Samples * MaxLate = (n * MaxLate) + (k * MaxLate) /\ k * MaxLate \in Nat
        /\ n * MaxLate \in Nat
    BY <2>1, JitterNumbers
  <2> QED BY <2>2
<1>4. Samples * MaxLate < h
  BY <1>1, JitterNumbers
<1>5. PICK m \in Nat : m = Samples * MaxLate
  BY <1>2
<1>6. m >= 1 /\ m < h
  BY <1>2, <1>4, <1>5
<1>7. Ticks >= 4
  BY <1>1, <1>6, JitterNumbers
<1>8. ASSUME NEW n \in 1..Samples PROVE n * MaxLate < h
  <2>1. PICK k \in Nat : k = n * MaxLate
    BY <1>3
  <2>2. k <= m
    BY <1>3, <1>5, <2>1
  <2> QED BY <1>1, <1>6, <2>1, <2>2
<1> QED BY <1>1, <1>7, <1>8

(* The lateness that is read is the true one.                              *)
LEMMA SampleIsLate ==
  ASSUME JitterInv, small.at = "read"
  PROVE  /\ small.time - Due(small.n) \in Int
         /\ Jitter!Signed((Jitter!Counter(small.time) - Jitter!Expected(small.n)) % Ticks)
               = small.time - Due(small.n)
<1>0. JitterTyped /\ JitterPlace
  BY DEF JitterInv
<1>1. small.at \in {"sleep", "read"}
  OBVIOUS
<1>2. /\ Punctual(small.time, small.n) /\ -1 <= small.time - Due(small.n)
      /\ small.n \in 1..Samples /\ small.t0 = small.began % Ticks
  BY Zenon, <1>0, <1>1 DEF JitterPlace, Probing
<1>3. PICK n \in 1..Samples : n = small.n
  BY Zenon, <1>2
<1>4. PICK time \in Int, began \in Int : time = small.time /\ began = small.began
  BY Zenon, <1>0 DEF JitterTyped
<1>5. PICK step \in Int : step = n * Period /\ step = Period * n
  BY JitterNumbers
<1>6. PICK most \in Int : most = n * MaxLate /\ most < Ticks \div 2
  BY HalfCounter, JitterNumbers
<1>7. time <= (began + step) + most /\ -1 <= time - (began + step)
  BY Zenon, <1>2, <1>3, <1>4, <1>5, <1>6 DEF Punctual, Due
<1>8. PICK d \in Int : d = time - (began + step)
  OBVIOUS
<1>9. -1 <= d /\ d < Ticks \div 2
  <2>1. PICK h \in Int : h = Ticks \div 2
    BY JitterNumbers
  <2> QED BY <1>6, <1>7, <1>8, <2>1
<1>10. LET w == ((time % Ticks) - (((began % Ticks) + (step % Ticks)) % Ticks)) % Ticks
       IN (IF w < Ticks \div 2 THEN w ELSE w - Ticks) = d
  BY <1>8, <1>9, HalfCounter, JitterNumbers, LateIsRead
<1>11. Jitter!Signed((Jitter!Counter(time) - Jitter!Expected(n)) % Ticks) = d
  BY Zenon, <1>2, <1>4, <1>5, <1>10 DEF Jitter!Signed, Jitter!Counter, Jitter!Expected
<1>12. small.time - Due(small.n) = d
  BY Zenon, <1>3, <1>4, <1>5, <1>8 DEF Due
<1> QED BY Zenon, <1>3, <1>4, <1>11, <1>12

LEMMA Whole == ASSUME NEW x \in Int PROVE Jitter!Towards0(x) \in Int
<1>1. CASE x < 0
  <2>1. -x \in Int /\ PerMicro \in Nat \ {0}
    BY JitterNumbers
  <2>2. (-x) \div PerMicro \in Int
    BY <2>1, Remainder
  <2>3. -((-x) \div PerMicro) \in Int
    BY <2>2
  <2> QED BY <1>1, <2>3 DEF Jitter!Towards0
<1>2. CASE ~(x < 0)
  <2>1. x \div PerMicro \in Int
    BY JitterNumbers, Remainder
  <2> QED BY <1>2, <2>1 DEF Jitter!Towards0
<1> QED BY <1>1, <1>2

LEMMA AppendedTo ==
  ASSUME NEW S, NEW s \in Seq(S), NEW x \in S
  PROVE  Append(s, x) \in Seq(S)
OBVIOUS

(* One more is seen.                                                       *)
LEMMA OneMoreSeen ==
  ASSUME NEW s \in Seq(Woken), NEW x \in Woken
  PROVE  /\ Append(s, x) \in Seq(Woken) /\ Len(Append(s, x)) = Len(s) + 1
         /\ {Append(s, x)[i] : i \in 1..Len(Append(s, x))}
               = {s[i] : i \in 1..Len(s)} \cup {x}
<1>1. PICK t \in Seq(Woken) : t = Append(s, x)
  BY Zenon, AppendedTo
<1>2. Len(t) = Len(s) + 1 /\ t[Len(s) + 1] = x /\ \A i \in 1..Len(s) : t[i] = s[i]
  BY <1>1
<1>3. 1..(Len(s) + 1) = (1..Len(s)) \cup {Len(s) + 1}
  <2>1. \A n \in Nat : 1..(n + 1) = (1..n) \cup {n + 1}
    <3> SUFFICES ASSUME NEW n \in Nat PROVE 1..(n + 1) = (1..n) \cup {n + 1}
      OBVIOUS
    <3>1. \A k : k \in 1..(n + 1) <=> k \in (1..n) \cup {n + 1}
      OBVIOUS
    <3> QED BY Zenon, <3>1
  <2>2. Len(s) \in Nat
    OBVIOUS
  <2> QED BY Zenon, <2>1, <2>2
<1>4. {t[i] : i \in 1..Len(t)} = {s[i] : i \in 1..Len(s)} \cup {x}
  BY <1>2, <1>3
<1> QED BY Zenon, <1>1, <1>2, <1>4

(* One more sample, early or late by e, is one more of its bucket.         *)
OneMoreIs(set, x, b, e) ==
    /\ IsFiniteSet(set \cup {x})
    /\ \A i : Cardinality(InBucket(i, set \cup {x}))
                = IF i = b THEN Cardinality(InBucket(i, set)) + 1
                  ELSE Cardinality(InBucket(i, set))
    /\ Cardinality(EarlyOnes(set \cup {x}))
          = IF e < 0 THEN Cardinality(EarlyOnes(set)) + 1 ELSE Cardinality(EarlyOnes(set))

LEMMA OneMoreCounted ==
  ASSUME NEW set, IsFiniteSet(set), NEW x, x \notin set
  PROVE  OneMoreIs(set, x, Jitter!bucket(Jitter!Abs(Of(x))), Of(x))
<1>1. IsFiniteSet(set \cup {x})
  BY FS_AddElement
<1>2. ASSUME NEW i
      PROVE  Cardinality(InBucket(i, set \cup {x}))
                = IF i = Jitter!bucket(Jitter!Abs(Of(x)))
                  THEN Cardinality(InBucket(i, set)) + 1 ELSE Cardinality(InBucket(i, set))
  <2>1. PICK in : in = InBucket(i, set)
    OBVIOUS
  <2>2. IsFiniteSet(in) /\ x \notin in
    <3>1. in \in SUBSET set
      BY Zenon, <2>1 DEF InBucket
    <3> QED BY Zenon, <3>1, FS_Subset
  <2>3. CASE i = Jitter!bucket(Jitter!Abs(Of(x)))
    <3>1. InBucket(i, set \cup {x}) = in \cup {x}
      BY <2>1, <2>3 DEF InBucket
    <3>2. Cardinality(in \cup {x}) = Cardinality(in) + 1
      BY <2>2, FS_AddElement
    <3> QED BY Zenon, <2>1, <2>3, <3>1, <3>2
  <2>4. CASE i # Jitter!bucket(Jitter!Abs(Of(x)))
    <3>1. InBucket(i, set \cup {x}) = in
      BY <2>1, <2>4 DEF InBucket
    <3> QED BY Zenon, <2>1, <2>4, <3>1
  <2> QED BY <2>3, <2>4
<1>3. Cardinality(EarlyOnes(set \cup {x}))
         = IF Of(x) < 0 THEN Cardinality(EarlyOnes(set)) + 1 ELSE Cardinality(EarlyOnes(set))
  <2>1. PICK in : in = EarlyOnes(set)
    OBVIOUS
  <2>2. IsFiniteSet(in) /\ x \notin in
    <3>1. in \in SUBSET set
      BY Zenon, <2>1 DEF EarlyOnes
    <3> QED BY Zenon, <3>1, FS_Subset
  <2>3. CASE Of(x) < 0
    <3>1. EarlyOnes(set \cup {x}) = in \cup {x}
      BY <2>1, <2>3 DEF EarlyOnes
    <3>2. Cardinality(in \cup {x}) = Cardinality(in) + 1
      BY <2>2, FS_AddElement
    <3> QED BY Zenon, <2>1, <2>3, <3>1, <3>2
  <2>4. CASE ~(Of(x) < 0)
    <3>1. EarlyOnes(set \cup {x}) = in
      BY <2>1, <2>4 DEF EarlyOnes
    <3> QED BY Zenon, <2>1, <2>4, <3>1
  <2> QED BY <2>3, <2>4
<1> QED BY <1>1, <1>2, <1>3, Zenon DEF OneMoreIs

(* The extremes, once one more is seen.                                    *)
LEMMA ExtremesGrow ==
  ASSUME Extremes, \A s \in Seen : s \in Woken, NEW x \in Woken, x.n = small.n,
         Seen' = Seen \cup {x}, NEW e, e = Of(x),
         small'.least = Jitter!Farther(small.least, e, small.least # << >> /\ e < small.least[1]),
         small'.most = Jitter!Farther(small.most, e, small.most # << >> /\ e > small.most[1])
  PROVE  Extremes'
<1>1. \A s \in Woken : Of(s) \in Int
  <2>1. \A s \in Woken : s.late \in Int
    BY DEF Woken
  <2> QED BY Zenon, <2>1, Whole DEF Of
<1>2. PICK one : one = <<e, x.n>>
  OBVIOUS
<1>3. one # << >> /\ one[1] = e /\ one[2] = x.n
  BY <1>2
<1>4. /\ small'.least = (IF small.least = << >> \/ (small.least # << >> /\ e < small.least[1])
                         THEN one ELSE small.least)
      /\ small'.most = (IF small.most = << >> \/ (small.most # << >> /\ e > small.most[1])
                        THEN one ELSE small.most)
  BY Zenon, <1>2 DEF Jitter!Farther
<1>5. Seen' # {} /\ e \in Int
  BY Zenon, <1>1
<1>6. CASE Seen = {}
  <2>1. small.least = << >> /\ small.most = << >>
    BY Zenon, <1>6 DEF Extremes
  <2>2. small'.least = one /\ small'.most = one
    BY Zenon, <1>4, <2>1
  <2>3. Seen' = {x} /\ e <= e
    BY <1>5, <1>6
  <2>4. \A s \in Seen' : small'.least[1] <= Of(s) /\ Of(s) <= small'.most[1]
    BY Zenon, <1>3, <2>2, <2>3
  <2>5. x \in Seen' /\ x.n = small'.least[2] /\ Of(x) = small'.least[1]
        /\ x.n = small'.most[2] /\ Of(x) = small'.most[1]
    BY Zenon, <1>3, <2>2, <2>3
  <2> QED BY Zenon, <1>3, <1>5, <2>2, <2>4, <2>5 DEF Extremes
<1>7. CASE Seen # {}
  <2>1. /\ small.least # << >> /\ small.most # << >>
        /\ \A s \in Seen : small.least[1] <= Of(s) /\ Of(s) <= small.most[1]
        /\ \E s \in Seen : s.n = small.least[2] /\ Of(s) = small.least[1]
        /\ \E s \in Seen : s.n = small.most[2] /\ Of(s) = small.most[1]
    BY Zenon, <1>7 DEF Extremes
  <2>2. PICK lo \in Int, hi \in Int : lo = small.least[1] /\ hi = small.most[1]
    BY Zenon, <1>1, <2>1
  <2>3. /\ small'.least = IF e < lo THEN one ELSE small.least
        /\ small'.most = IF e > hi THEN one ELSE small.most
    BY Zenon, <1>4, <2>1, <2>2
  <2>4. /\ small'.least[1] = IF e < lo THEN e ELSE lo
        /\ small'.most[1] = IF e > hi THEN e ELSE hi
    BY Zenon, <1>3, <2>2, <2>3
  <2>5. \A k \in Int : lo <= k /\ k <= hi
           => (IF e < lo THEN e ELSE lo) <= k /\ k <= (IF e > hi THEN e ELSE hi)
    BY <1>5
  <2>6. (IF e < lo THEN e ELSE lo) <= e /\ e <= (IF e > hi THEN e ELSE hi)
    BY <1>5
  <2>7. \A s \in Seen' : small'.least[1] <= Of(s) /\ Of(s) <= small'.most[1]
    <3> SUFFICES ASSUME NEW s \in Seen'
                 PROVE  small'.least[1] <= Of(s) /\ Of(s) <= small'.most[1]
      OBVIOUS
    <3>1. CASE s = x
      BY Zenon, <2>4, <2>6, <3>1
    <3>2. CASE s \in Seen
      <4>1. lo <= Of(s) /\ Of(s) <= hi /\ Of(s) \in Int
        BY Zenon, <1>1, <2>1, <2>2, <3>2
      <4> QED BY Zenon, <2>4, <2>5, <4>1
    <3> QED BY Zenon, <3>1, <3>2
  <2>8. small'.least # << >> /\ small'.most # << >>
    BY Zenon, <1>3, <2>1, <2>3
  <2>9. \E s \in Seen' : s.n = small'.least[2] /\ Of(s) = small'.least[1]
    <3>1. CASE e < lo
      BY Zenon, <1>3, <2>3, <3>1
    <3>2. CASE ~(e < lo)
      BY Zenon, <2>1, <2>3, <3>2
    <3> QED BY <3>1, <3>2
  <2>10. \E s \in Seen' : s.n = small'.most[2] /\ Of(s) = small'.most[1]
    <3>1. CASE e > hi
      BY Zenon, <1>3, <2>3, <3>1
    <3>2. CASE ~(e > hi)
      BY Zenon, <2>1, <2>3, <3>2
    <3> QED BY <3>1, <3>2
  <2> QED BY Zenon, <1>5, <2>7, <2>8, <2>9, <2>10 DEF Extremes
<1> QED BY <1>6, <1>7

LEMMA OneMoreIn ==
  ASSUME NEW S, NEW h \in [S -> Nat], NEW b
  PROVE  [h EXCEPT ![b] = h[b] + 1] \in [S -> Nat]
<1>1. \A i \in S : h[i] + 1 \in Nat
  OBVIOUS
<1>2. PICK k : k = h[b] + 1
  OBVIOUS
<1>3. b \in S => k \in Nat
  BY <1>1, <1>2
<1>4. [h EXCEPT ![b] = k] \in [S -> Nat]
  <2>1. CASE b \in S
    BY <1>3, <2>1
  <2>2. CASE b \notin S
    BY <2>2
  <2> QED BY <2>1, <2>2
<1> QED BY Zenon, <1>2, <1>4

LEMMA Sampled ==
  ASSUME JitterInv, Jitter!Sample
  PROVE  JitterInv'
<1>0. JitterFields /\ JitterTyped /\ JitterPlace /\ Counted /\ Extremes
  BY DEF JitterInv
<1>1. small.at = "read"
  BY DEF Jitter!Sample, Jitter!At
<1>2. PICK d \in Int :
         /\ d = small.time - Due(small.n)
         /\ Jitter!Signed((Jitter!Counter(small.time) - Jitter!Expected(small.n)) % Ticks) = d
  BY Zenon, <1>1, SampleIsLate
<1>3. PICK n \in 1..Samples, seen \in Seq(Woken), time \in Int :
         n = small.n /\ seen = small.seen /\ time = small.time
  <2>1. small.at \in {"sleep", "read"}
    BY <1>1
  <2> QED BY Zenon, <1>0, <2>1 DEF JitterTyped, JitterPlace, Probing
<1>4. PICK x : x = [n |-> n, late |-> d, woken |-> time]
  OBVIOUS
<1>5. x \in Woken /\ x.n = n /\ x.late = d
  <2>1. n \in Int
    OBVIOUS
  <2> QED BY <1>4, <2>1 DEF Woken
<1>6. PICK e : e = Jitter!Towards0(d)
  OBVIOUS
<1>7. e = Of(x)
  BY Zenon, <1>5, <1>6 DEF Of
<1>8. PICK b : b = Jitter!bucket(Jitter!Abs(e))
  OBVIOUS
<1>9. PICK hist : hist = [small.hist EXCEPT ![b] = small.hist[b] + 1]
  OBVIOUS
<1>10. PICK least, most :
          /\ least = Jitter!Farther(small.least, e, small.least # << >> /\ e < small.least[1])
          /\ most = Jitter!Farther(small.most, e, small.most # << >> /\ e > small.most[1])
  OBVIOUS
<1>11. PICK early : early = IF e < 0 THEN small.early + 1 ELSE small.early
  OBVIOUS
<1>12. PICK at : at = IF small.n = Samples THEN "over" ELSE "sleep"
  OBVIOUS
<1>13. PICK more \in Seq(Woken) :
          /\ more = Append(seen, x) /\ Len(more) = Len(seen) + 1
          /\ {more[i] : i \in 1..Len(more)} = {seen[i] : i \in 1..Len(seen)} \cup {x}
  BY Zenon, <1>5, OneMoreSeen
<1>14. Jitter!Due(small.n) = Due(small.n)
  BY Zenon DEF Jitter!Due, Due
<1>15. small' = [small EXCEPT !.hist = hist, !.least = least, !.most = most, !.early = early,
                              !.seen = more, !.n = small.n + 1, !.at = at]
  BY ZenonT(40), <1>2, <1>3, <1>4, <1>6, <1>8, <1>9, <1>10, <1>11, <1>12, <1>13, <1>14
     DEF Jitter!Sample
<1>16. /\ JitterFields' /\ small'.at = at /\ small'.t0 = small.t0 /\ small'.n = small.n + 1
       /\ small'.time = small.time /\ small'.began = small.began
       /\ small'.hist = hist /\ small'.least = least /\ small'.most = most
       /\ small'.early = early /\ small'.errors = small.errors /\ small'.seen = more
  BY <1>0, <1>15 DEF JitterFields
<1>17. Len(small'.seen) + small'.errors = (Len(small.seen) + small.errors) + 1
  <2>1. small.errors \in Nat
    BY Zenon, <1>0 DEF JitterTyped
  <2>2. PICK l \in Nat, errors \in Nat : l = Len(seen) /\ errors = small.errors
    BY <2>1
  <2>3. (l + 1) + errors = (l + errors) + 1
    OBVIOUS
  <2> QED BY Zenon, <1>3, <1>13, <1>16, <2>2, <2>3
<1>18. JitterPlace' /\ small'.n \in Nat /\ small'.n >= small.n
  <2>1. \/ small.n = Samples /\ at = "over"
        \/ small.n # Samples /\ at = "sleep"
    BY Zenon, <1>12
  <2>2. small.at \in {"sleep", "read"}
    BY <1>1
  <2> QED BY Zenon, <1>16, <1>17, <2>1, <2>2, WakeOver
<1>19. hist \in [0..(Buckets - 1) -> Nat] /\ early \in Nat
  <2>1. small.hist \in [0..(Buckets - 1) -> Nat] /\ small.early \in Nat
    BY Zenon, <1>0 DEF JitterTyped
  <2>2. early \in Nat
    BY <1>11, <2>1
  <2>3. hist \in [0..(Buckets - 1) -> Nat]
    BY Zenon, <1>9, <2>1, OneMoreIn
  <2> QED BY <2>2, <2>3
<1>20. JitterTyped'
  BY Zenon, <1>0, <1>16, <1>18, <1>19 DEF JitterTyped
<1>21. Seen' = Seen \cup {x}
  BY Zenon, <1>3, <1>13, <1>16 DEF Seen
<1>22. (\A s \in Seen : s \in Woken) /\ x \notin Seen
       /\ \A s \in Seen' : s \in Woken /\ s.n < small'.n
  <2>1. \A s \in Seen : s \in Woken /\ s.n < n
    BY Zenon, <1>0, <1>3 DEF Counted
  <2>2. ~(n < n) /\ n < n + 1 /\ \A k \in Int : k < n => k < n + 1
    OBVIOUS
  <2>3. \A s \in Woken : s.n \in Int
    BY DEF Woken
  <2> QED BY Zenon, <1>3, <1>5, <1>16, <1>21, <2>1, <2>2, <2>3
<1>23. IsFiniteSet(Seen)
  BY Zenon, <1>0 DEF Counted
<1>24. /\ IsFiniteSet(Seen')
       /\ \A i : Cardinality(InBucket(i, Seen'))
                   = IF i = b THEN Cardinality(InBucket(i, Seen)) + 1
                     ELSE Cardinality(InBucket(i, Seen))
       /\ Cardinality(EarlyOnes(Seen'))
             = IF e < 0 THEN Cardinality(EarlyOnes(Seen)) + 1 ELSE Cardinality(EarlyOnes(Seen))
  <2>1. PICK set : set = Seen
    OBVIOUS
  <2>2. IsFiniteSet(set) /\ x \notin set
    BY Zenon, <1>22, <1>23, <2>1
  <2>3. /\ IsFiniteSet(set \cup {x})
        /\ \A i : Cardinality(InBucket(i, set \cup {x}))
                    = IF i = b THEN Cardinality(InBucket(i, set)) + 1
                      ELSE Cardinality(InBucket(i, set))
        /\ Cardinality(EarlyOnes(set \cup {x}))
              = IF e < 0 THEN Cardinality(EarlyOnes(set)) + 1 ELSE Cardinality(EarlyOnes(set))
    <3>1. OneMoreIs(set, x, Jitter!bucket(Jitter!Abs(Of(x))), Of(x))
      BY Zenon, <2>2, OneMoreCounted
    <3>2. OneMoreIs(set, x, b, e)
      BY Zenon, <1>7, <1>8, <3>1
    <3> QED BY Zenon, <3>2 DEF OneMoreIs
  <2>4. Seen' = set \cup {x}
    BY Zenon, <1>21, <2>1
  <2> QED BY Zenon, <2>1, <2>3, <2>4
<1>25. \A i \in 0..(Buckets - 1) :
          hist[i] = IF i = b THEN small.hist[i] + 1 ELSE small.hist[i]
  <2>1. small.hist \in [0..(Buckets - 1) -> Nat]
    BY Zenon, <1>0 DEF JitterTyped
  <2> QED BY <1>9, <2>1
<1>26. \A i \in 0..(Buckets - 1) : hist[i] = Cardinality(InBucket(i, Seen'))
  <2> SUFFICES ASSUME NEW i \in 0..(Buckets - 1)
               PROVE  hist[i] = Cardinality(InBucket(i, Seen'))
    OBVIOUS
  <2>1. small.hist[i] = Cardinality(InBucket(i, Seen))
    BY Zenon, <1>0 DEF Counted
  <2> QED BY Zenon, <1>24, <1>25, <2>1
<1>27. early = Cardinality(EarlyOnes(Seen'))
  BY Zenon, <1>0, <1>11, <1>24 DEF Counted
<1>28. Counted'
  BY Zenon, <1>16, <1>22, <1>24, <1>26, <1>27 DEF Counted
<1>29. Extremes'
  BY Zenon, <1>0, <1>3, <1>5, <1>7, <1>10, <1>16, <1>21, <1>22, ExtremesGrow
<1> QED BY <1>16, <1>18, <1>20, <1>28, <1>29 DEF JitterInv

LEMMA JitterStep ==
  ASSUME JitterInv, Jitter!Next
  PROVE  JitterInv'
BY Begun, Slept, WakeLost, Sampled DEF Jitter!Next

-----------------------------------------------------------------------------
(* Whatever the threads, the buzzer and the clock do, and however often    *)
(* each fails: exit_test returns the call of the closure it was given, the *)
(* verdict on a note is of that note, and the lateness told is the true    *)
(* one, wherever the counter wraps.                                        *)
SmallInv ==
    /\ part = "exit" => ExitInv
    /\ part = "beeper" => BeepInv
    /\ part = "jitter" => JitterInv

LEMMA SmallInit == Init => SmallInv
<1>1. Init /\ part = "exit" => Exit!Init
  BY DEF Init
<1>2. Init /\ part = "beeper" => Beeper!Init
  BY DEF Init
<1>3. Init /\ part = "jitter" => Jitter!Init
  BY DEF Init
<1> QED BY Zenon, <1>1, <1>2, <1>3, ExitInit, BeepInit, JitterInit DEF SmallInv

LEMMA SmallLeft ==
  ASSUME SmallInv, UNCHANGED <<part, small>>
  PROVE  SmallInv'
<1>1. part' = part /\ small' = small
  OBVIOUS
<1>2. ExitInv => ExitInv'
  BY Zenon, <1>1 DEF ExitInv, ExitTyped, ExitTrue, ExitFields, OfTheCall, Exit!ReportIsTrue,
     Exit!At
<1>3. BeepInv => BeepInv'
  BY ZenonT(40), <1>1 DEF BeepInv, BeepFields, BeepTyped, BeepPlace, OwnSounds, OwnEnded,
     QueuedIsOwn, DoneIsOwn, Listening, Beeper!Tune, Beeper!VerdictIsTrue, Beeper!At
<1>4. ASSUME JitterInv PROVE JitterInv'
  <2>0. JitterFields /\ JitterTyped /\ JitterPlace
    BY <1>4 DEF JitterInv
  <2>1. JitterFields' /\ JitterTyped'
    BY Zenon, <1>1, <2>0 DEF JitterFields, JitterTyped
  <2>2. JitterPlace'
    BY Zenon, <1>1, <2>0 DEF JitterPlace, Probing, Punctual, Due
  <2>3. Counted' /\ Extremes'
    <3>1. small.n \in Nat
      BY Zenon, <2>0 DEF JitterTyped
    <3>2. small.n >= small.n
      BY <3>1
    <3> QED BY Zenon, <1>1, <1>4, <3>1, <3>2, CountsLeft
  <2> QED BY <2>1, <2>2, <2>3 DEF JitterInv
<1> QED BY Zenon, <1>1, <1>2, <1>3, <1>4 DEF SmallInv

LEMMA SmallStep ==
  ASSUME SmallInv, [Next]_vars
  PROVE  SmallInv'
<1>1. CASE UNCHANGED <<part, small>>
  BY <1>1, SmallLeft
<1>2. CASE SmallNext
  <2>1. part' = part
    BY <1>2 DEF SmallNext
  <2>2. CASE part = "exit" /\ Exit!Next
    BY <2>1, <2>2, ExitStep DEF SmallInv
  <2>3. CASE part = "frames" /\ Frames!Next
    BY <2>1, <2>3 DEF SmallInv
  <2>4. CASE part = "beeper" /\ Beeper!Next
    BY <2>1, <2>4, BeepStep DEF SmallInv
  <2>5. CASE part = "jitter" /\ Jitter!Next
    BY <2>1, <2>5, JitterStep DEF SmallInv
  <2> QED BY <1>2, <2>2, <2>3, <2>4, <2>5 DEF SmallNext
<1> QED BY <1>1, <1>2 DEF Next, vars, DoomNext, DashNext, WifiNext, ThrottleNext, ProbeNext,
                          RunnerNext

THEOREM ReportsStayTrue == Spec => []ReportIsTrue
<1>1. Init => SmallInv
  BY SmallInit
<1>2. SmallInv /\ [Next]_vars => SmallInv'
  BY SmallStep
<1>3. SmallInv => ReportIsTrue
  BY JitterTold DEF SmallInv, ReportIsTrue, ExitInv, ExitTrue, BeepInv
<1> QED BY <1>1, <1>2, <1>3, PTL DEF Spec

-----------------------------------------------------------------------------
Letters == {"x", "n"}

(* What the runner's loop pushes for one byte.                             *)
Pushed(b) == IF b = "n" THEN <<"r", "n">> ELSE <<b>>

(* The loop over the first n bytes of s.                                   *)
Pushes(s, n, h) == h = [i \in 0..n |-> IF i = 0 THEN << >> ELSE h[i - 1] \o Pushed(s[i])]

(* The loop runs to its end, whatever it is given.                         *)
LEMMA LoopEnds ==
  ASSUME NEW s, NEW n \in Nat
  PROVE  \E h : Pushes(s, n, h)
<1> DEFINE Bad == {m \in Nat : ~\E h : Pushes(s, m, h)}
<1> SUFFICES ASSUME Bad # {} PROVE FALSE
  BY Zenon
<1>1. PICK m \in Bad : \A k \in Bad : m <= k
  BY LeastNat, Zenon
<1>2. m \in Nat /\ ~\E h : Pushes(s, m, h)
  BY <1>1
<1>3. CASE m = 0
  <2> DEFINE h == [i \in 0..0 |-> << >>]
  <2>1. Pushes(s, 0, h)
    BY DEF Pushes
  <2> QED BY <1>2, <1>3, <2>1
<1>4. CASE m # 0
  <2>1. m - 1 \in Nat /\ m - 1 < m
    BY <1>2, <1>4
  <2>2. m - 1 \notin Bad
    BY <1>1, <1>2, <2>1
  <2>3. PICK g : Pushes(s, m - 1, g)
    BY <2>1, <2>2
  <2> DEFINE h == [i \in 0..m |-> IF i = m THEN g[m - 1] \o Pushed(s[m]) ELSE g[i]]
  <2>4. \A i \in 0..(m - 1) : h[i] = IF i = 0 THEN << >> ELSE g[i - 1] \o Pushed(s[i])
    BY <1>2, <2>1, <2>3 DEF Pushes
  <2>5. \A i \in 0..(m - 1) : h[i] = g[i]
    BY <1>2, <2>1
  <2>6. h = [i \in 0..m |-> IF i = 0 THEN << >> ELSE h[i - 1] \o Pushed(s[i])]
    <3>1. ASSUME NEW i \in 0..m
          PROVE  h[i] = IF i = 0 THEN << >> ELSE h[i - 1] \o Pushed(s[i])
      <4>1. CASE i = m
        <5>1. m - 1 \in 0..(m - 1) /\ i # 0
          BY <1>2, <1>4, <4>1
        <5>2. h[m - 1] = g[m - 1] /\ h[m] = g[m - 1] \o Pushed(s[m])
          BY <1>2, <2>5, <5>1
        <5> HIDE DEF h
        <5> QED BY <4>1, <5>1, <5>2
      <4>2. CASE i # m
        <5>1. i \in 0..(m - 1) /\ (i # 0 => i - 1 \in 0..(m - 1))
          BY <1>2, <4>2
        <5>2. i # 0 => h[i - 1] = g[i - 1]
          BY <2>5, <5>1
        <5>3. h[i] = IF i = 0 THEN << >> ELSE g[i - 1] \o Pushed(s[i])
          BY <2>4, <5>1
        <5> HIDE DEF h
        <5> QED BY <5>2, <5>3
      <4> QED BY <4>1, <4>2
    <3>2. h = [i \in 0..m |-> h[i]]
      OBVIOUS
    <3> HIDE DEF h
    <3> QED BY <3>1, <3>2
  <2> HIDE DEF h
  <2>7. Pushes(s, m, h)
    BY <2>6 DEF Pushes
  <2> QED BY <1>2, <2>7
<1> QED BY <1>3, <1>4

(* What it has pushed depends on what it has read.                         *)
LEMMA LoopsAgree ==
  ASSUME NEW u, NEW v, NEW n \in Nat, NEW m \in Nat, n <= m,
         NEW h, NEW g, Pushes(u, n, h), Pushes(v, m, g), \A i \in 1..n : u[i] = v[i]
  PROVE  \A i \in 0..n : h[i] = g[i]
<1> DEFINE Bad == {i \in Nat : i <= n /\ h[i] # g[i]}
<1> SUFFICES ASSUME Bad # {} PROVE FALSE
  BY SMT
<1>1. PICK i \in Bad : \A k \in Bad : i <= k
  <2>1. Bad \in SUBSET Nat
    OBVIOUS
  <2> QED BY <2>1, LeastNat, Zenon
<1>2. i \in Nat /\ i <= n /\ h[i] # g[i]
  BY <1>1
<1>3. /\ h[i] = IF i = 0 THEN << >> ELSE h[i - 1] \o Pushed(u[i])
      /\ g[i] = IF i = 0 THEN << >> ELSE g[i - 1] \o Pushed(v[i])
  <2>1. i \in 0..n /\ i \in 0..m
    BY <1>2
  <2> QED BY <2>1 DEF Pushes
<1>4. i # 0 => h[i - 1] = g[i - 1] /\ u[i] = v[i]
  BY <1>1, <1>2
<1> QED BY <1>2, <1>3, <1>4

(* What is printed of a text is printed byte by byte.                      *)
LEMMA CrlfLoops ==
  ASSUME NEW s \in Seq(Letters)
  PROVE  \E h : Pushes(s, Len(s), h) /\ Runner!Crlf(s) = h[Len(s)]
<1>1. Len(s) \in Nat
  OBVIOUS
<1>2. \E h : Pushes(s, Len(s), h)
  BY <1>1, LoopEnds, Zenon
<1> DEFINE H == CHOOSE h : Pushes(s, Len(s), h)
<1>3. Pushes(s, Len(s), H)
  BY <1>2, Zenon
<1>4. Runner!Crlf(s) = H[Len(s)]
  BY Zenon DEF Runner!Crlf, Pushes, Pushed
<1> QED BY <1>3, <1>4, Zenon

LEMMA CrlfAppends ==
  ASSUME NEW s \in Seq(Letters), NEW b \in Letters
  PROVE  Runner!Crlf(Append(s, b)) = Runner!Crlf(s) \o Pushed(b)
<1> DEFINE t == Append(s, b)
<1>1. /\ t \in Seq(Letters) /\ Len(t) = Len(s) + 1 /\ Len(s) \in Nat
      /\ t[Len(s) + 1] = b /\ \A i \in 1..Len(s) : s[i] = t[i]
  BY DEF Letters
<1> HIDE DEF t
<1>2. PICK h : Pushes(s, Len(s), h) /\ Runner!Crlf(s) = h[Len(s)]
  BY CrlfLoops, Zenon
<1>3. PICK g : Pushes(t, Len(t), g) /\ Runner!Crlf(t) = g[Len(t)]
  BY <1>1, CrlfLoops, Zenon
<1>4. h[Len(s)] = g[Len(s)]
  <2>1. Len(t) \in Nat /\ Len(s) <= Len(t) /\ Len(s) \in 0..Len(s)
    BY <1>1
  <2>2. Pushes(s, Len(s), h) /\ Pushes(t, Len(t), g) /\ \A i \in 1..Len(s) : s[i] = t[i]
    BY <1>1, <1>2, <1>3
  <2>3. PICK n \in Nat, m \in Nat : n = Len(s) /\ m = Len(t)
    BY <1>1, <2>1, Zenon
  <2>4. n <= m /\ Pushes(s, n, h) /\ Pushes(t, m, g) /\ \A i \in 1..n : s[i] = t[i]
    BY <2>1, <2>2, <2>3, Zenon
  <2>5. \A i \in 0..n : h[i] = g[i]
    BY <2>4, LoopsAgree
  <2> QED BY <2>1, <2>3, <2>5, Zenon
<1>5. g[Len(s) + 1] = g[Len(s)] \o Pushed(t[Len(s) + 1])
  BY <1>1, <1>3 DEF Pushes
<1>6. Runner!Crlf(t) = Runner!Crlf(s) \o Pushed(b)
  BY <1>1, <1>2, <1>3, <1>4, <1>5, Zenon
<1> QED BY <1>6 DEF t

LEMMA CrlfOfNone == Runner!Crlf(<< >>) = << >>
<1>1. << >> \in Seq(Letters) /\ Len(<< >>) = 0
  OBVIOUS
<1>2. PICK h : Pushes(<< >>, 0, h) /\ Runner!Crlf(<< >>) = h[0]
  BY <1>1, CrlfLoops, Zenon
<1> QED BY <1>2 DEF Pushes

(* Of letters and carriage returns only.                                   *)
LEMMA PushedTyped ==
  ASSUME NEW b \in Letters
  PROVE  Pushed(b) \in Seq(Letters \cup {"r"})
<1> DEFINE All == Letters \cup {"r"}
<1>1. "r" \in All /\ "n" \in All /\ b \in All
  BY DEF Letters
<1> HIDE DEF All
<1>2. PICK r, n : r = "r" /\ n = "n"
  OBVIOUS
<1>3. <<r, n>> \in Seq(All) /\ <<b>> \in Seq(All)
  BY <1>1, <1>2
<1>4. Pushed(b) \in Seq(All)
  BY <1>2, <1>3, Zenon DEF Pushed
<1> QED BY <1>4, Zenon DEF All

LEMMA CrlfTyped ==
  ASSUME NEW s \in Seq(Letters), NEW t \in Seq(Letters \cup {"r"})
  PROVE  /\ Runner!Crlf(s) \in Seq(Letters \cup {"r"})
         /\ t \o Runner!Crlf(s) \in Seq(Letters \cup {"r"})
<1> DEFINE All == Letters \cup {"r"}
<1>1. PICK h : Pushes(s, Len(s), h) /\ Runner!Crlf(s) = h[Len(s)]
  BY CrlfLoops, Zenon
<1>2. Len(s) \in Nat
  OBVIOUS
<1> DEFINE Bad == {i \in Nat : i <= Len(s) /\ h[i] \notin Seq(All)}
<1>3. Bad = {}
  <2> SUFFICES ASSUME Bad # {} PROVE FALSE
    BY Zenon
  <2>1. PICK i \in Bad : \A k \in Bad : i <= k
    <3>1. Bad \in SUBSET Nat
      OBVIOUS
    <3> QED BY <3>1, LeastNat, Zenon
  <2>2. i \in Nat /\ i <= Len(s) /\ h[i] \notin Seq(All)
    BY <2>1
  <2>3. h[i] = IF i = 0 THEN << >> ELSE h[i - 1] \o Pushed(s[i])
    <3>1. i \in 0..Len(s)
      BY <1>2, <2>2
    <3> QED BY <1>1, <3>1 DEF Pushes
  <2>4. i # 0 => h[i - 1] \in Seq(All)
    <3>1. i # 0 => i - 1 \in Nat /\ i - 1 <= Len(s) /\ ~(i <= i - 1)
      BY <1>2, <2>2
    <3>2. i - 1 \in Bad => i <= i - 1
      BY <2>1, Zenon
    <3> QED BY <3>1, <3>2, Zenon
  <2>5. i # 0 => Pushed(s[i]) \in Seq(All)
    <3>1. i # 0 => s[i] \in Letters
      BY <1>2, <2>2
    <3>2. \A b \in Letters : Pushed(b) \in Seq(All)
      BY PushedTyped, Zenon
    <3> QED BY <3>1, <3>2, Zenon
  <2> HIDE DEF Bad, All
  <2>6. i # 0 => h[i - 1] \o Pushed(s[i]) \in Seq(All)
    BY <2>4, <2>5
  <2> QED BY <2>2, <2>3, <2>6
<1>4. h[Len(s)] \in Seq(All)
  BY <1>2, <1>3
<1>5. Runner!Crlf(s) \in Seq(All)
  BY <1>1, <1>4, Zenon
<1> QED BY <1>5

(***************************************************************************)
(* The runner: where its main thread is decides what has been built, run   *)
(* and translated, and what the child wrote is what was printed and what   *)
(* is still in the pipe.                                                   *)
(***************************************************************************)
Watched == {"at", "deploy", "tbf", "raw", "child", "out", "wrote", "printed", "open"}

RunnerFields == Watched \subseteq DOMAIN runner

RunnerPlace ==
    /\ runner.at \in {"start", "elf2tab", "verify", "deploy"} => runner.child = "none"
    /\ runner.at = "elf2tab" => runner.tbf = "absent"
    /\ runner.at = "verify" => runner.tbf \in {"absent", "new"}
    /\ runner.at = "deploy" \/ runner.child # "none" => runner.tbf = "new"
    /\ runner.raw \in BOOLEAN
    /\ runner.raw \/ runner.at = "stdin" => runner.deploy = "qemu"
    /\ runner.at \in {"stderr", "read"} /\ runner.deploy = "qemu" => runner.raw
    /\ runner.at \in {"wait", "restore"} \/ (runner.at = "end" /\ runner.child # "none")
          => runner.out = << >> /\ ~runner.open

Echoed ==
    /\ runner.out \in Seq(Letters) /\ runner.wrote \in Seq(Letters)
    /\ runner.printed \in Seq(Letters \cup {"r"})
    /\ IF runner.deploy = "qemu"
       THEN Runner!Crlf(runner.wrote) = runner.printed \o Runner!Crlf(runner.out)
       ELSE runner.wrote = runner.printed \o runner.out

RunnerInv == RunnerFields /\ RunnerPlace /\ Echoed

LEMMA RunnerSets ==
  ASSUME NEW f, Runner!Set(f)
  PROVE  /\ DOMAIN runner' = DOMAIN runner
         /\ \A x \in DOMAIN runner \cap DOMAIN f : runner'[x] = f[x]
         /\ \A x \in DOMAIN runner \ DOMAIN f : runner'[x] = runner[x]
BY DEF Runner!Set

LEMMA RunnerKeeps ==
  ASSUME RunnerInv, NEW f, Runner!Set(f), DOMAIN f \cap Watched = {}
  PROVE  RunnerInv'
<1>0. RunnerFields /\ RunnerPlace /\ Echoed
  BY DEF RunnerInv
<1>1. /\ RunnerFields' /\ runner'.at = runner.at /\ runner'.deploy = runner.deploy
      /\ runner'.tbf = runner.tbf /\ runner'.raw = runner.raw /\ runner'.child = runner.child
      /\ runner'.out = runner.out /\ runner'.wrote = runner.wrote
      /\ runner'.printed = runner.printed /\ runner'.open = runner.open
  BY <1>0, RunnerSets DEF RunnerFields, Watched
<1> QED BY <1>0, <1>1, Zenon DEF RunnerInv, RunnerPlace, Echoed

(* A step of the main thread that shows nothing.                           *)
LEMMA RunnerGoes ==
  ASSUME RunnerInv, RunnerFields', RunnerPlace',
         runner'.out = runner.out, runner'.wrote = runner.wrote,
         runner'.printed = runner.printed, runner'.deploy = runner.deploy
  PROVE  RunnerInv'
BY Zenon DEF RunnerInv, Echoed

LEMMA RunnerPanics ==
  ASSUME RunnerInv, Runner!Panic
  PROVE  RunnerInv'
<1>0. RunnerFields /\ RunnerPlace /\ Echoed
  BY DEF RunnerInv
<1> DEFINE f == [at |-> "panicked", raw |-> FALSE]
<1>1. DOMAIN f = {"at", "raw"} /\ f.at = "panicked" /\ f.raw = FALSE /\ Runner!Set(f)
  BY DEF Runner!Panic
<1> HIDE DEF f
<1>2. /\ RunnerFields' /\ runner'.at = f.at /\ runner'.deploy = runner.deploy
      /\ runner'.tbf = runner.tbf /\ runner'.raw = f.raw /\ runner'.child = runner.child
      /\ runner'.out = runner.out /\ runner'.wrote = runner.wrote
      /\ runner'.printed = runner.printed /\ runner'.open = runner.open
  BY <1>0, <1>1, RunnerSets DEF RunnerFields, Watched
<1>3. runner'.at = "panicked" /\ runner'.raw = FALSE
  BY <1>1, <1>2, Zenon
<1>4. RunnerPlace'
  BY <1>0, <1>2, <1>3 DEF RunnerPlace
<1> QED BY <1>2, <1>4, RunnerGoes

(* The conversion, and the start of the child.                             *)
LEMMA ConvertsFresh ==
  ASSUME RunnerInv, Runner!RemoveTbf \/ Runner!Elf2tab
  PROVE  RunnerInv'
<1>0. RunnerFields /\ RunnerPlace /\ Echoed
  BY DEF RunnerInv
<1>1. ASSUME NEW at, NEW tbf, Runner!Set([at |-> at, tbf |-> tbf]),
             \/ at = "elf2tab" /\ tbf = "absent" /\ runner.at = "start"
             \/ at = "verify" /\ tbf \in {"absent", "new"} /\ runner.at = "elf2tab"
      PROVE  RunnerInv'
  <2> DEFINE f == [at |-> at, tbf |-> tbf]
  <2>1. DOMAIN f = {"at", "tbf"} /\ f.at = at /\ f.tbf = tbf /\ Runner!Set(f)
    BY <1>1
  <2> HIDE DEF f
  <2>2. /\ RunnerFields' /\ runner'.at = f.at /\ runner'.deploy = runner.deploy
        /\ runner'.tbf = f.tbf /\ runner'.raw = runner.raw /\ runner'.child = runner.child
        /\ runner'.out = runner.out /\ runner'.wrote = runner.wrote
        /\ runner'.printed = runner.printed /\ runner'.open = runner.open
    BY <1>0, <2>1, RunnerSets DEF RunnerFields, Watched
  <2>3. runner'.at = at /\ runner'.tbf = tbf
    BY <2>1, <2>2, Zenon
  <2>4. RunnerPlace'
    BY <1>0, <1>1, <2>2, <2>3 DEF RunnerPlace
  <2> QED BY <2>2, <2>4, RunnerGoes
<1>2. CASE Runner!RemoveTbf
  <2>1. \/ Runner!Panic
        \/ runner.at = "start" /\ Runner!Set([at |-> "elf2tab", tbf |-> "absent"])
    BY <1>2, Zenon DEF Runner!RemoveTbf, Runner!Or, Runner!Remove, Runner!At
  <2>2. PICK at, tbf : at = "elf2tab" /\ tbf = "absent"
    OBVIOUS
  <2> QED BY <1>1, <2>1, <2>2, RunnerPanics, Zenon
<1>3. CASE Runner!Elf2tab
  <2>1. PICK wrote \in BOOLEAN :
           \/ Runner!Panic
           \/ Runner!Set([at |-> "verify", tbf |-> IF wrote THEN "new" ELSE runner.tbf])
    BY <1>3, Zenon DEF Runner!Elf2tab, Runner!Or
  <2>2. PICK at, tbf : at = "verify" /\ tbf = IF wrote THEN "new" ELSE runner.tbf
    OBVIOUS
  <2>3. runner.at = "elf2tab"
    BY <1>3, Zenon DEF Runner!Elf2tab, Runner!At
  <2>4. tbf \in {"absent", "new"}
    BY <1>0, <2>2, <2>3 DEF RunnerPlace
  <2>5. Runner!Panic \/ Runner!Set([at |-> at, tbf |-> tbf])
    BY <2>1, <2>2, Zenon
  <2> QED BY <1>1, <2>2, <2>3, <2>4, <2>5, RunnerPanics, Zenon
<1> QED BY <1>2, <1>3

LEMMA VerifiesFresh ==
  ASSUME RunnerInv, Runner!Verify
  PROVE  RunnerInv'
<1>0. RunnerFields /\ RunnerPlace /\ Echoed
  BY DEF RunnerInv
<1>1. PICK at : at = IF runner.deploy = "none" THEN "end" ELSE "deploy"
  OBVIOUS
<1>2. /\ runner.at = "verify"
      /\ Runner!Panic \/ (runner.tbf # "absent" /\ Runner!Set([at |-> at]))
  BY <1>1, Zenon DEF Runner!Verify, Runner!Or, Runner!At
<1>3. ASSUME runner.tbf # "absent", Runner!Set([at |-> at]) PROVE RunnerInv'
  <2> DEFINE f == [at |-> at]
  <2>1. DOMAIN f = {"at"} /\ f.at = at /\ Runner!Set(f)
    BY <1>3
  <2> HIDE DEF f
  <2>2. /\ RunnerFields' /\ runner'.at = f.at /\ runner'.deploy = runner.deploy
        /\ runner'.tbf = runner.tbf /\ runner'.raw = runner.raw /\ runner'.child = runner.child
        /\ runner'.out = runner.out /\ runner'.wrote = runner.wrote
        /\ runner'.printed = runner.printed /\ runner'.open = runner.open
    BY <1>0, <2>1, RunnerSets DEF RunnerFields, Watched
  <2>3. runner'.at = at
    BY <2>1, <2>2, Zenon
  <2>4. RunnerPlace'
    BY <1>0, <1>1, <1>2, <1>3, <2>2, <2>3 DEF RunnerPlace
  <2> QED BY <2>2, <2>4, RunnerGoes
<1> QED BY <1>2, <1>3, RunnerPanics

LEMMA Deploys ==
  ASSUME RunnerInv, Runner!Deploy
  PROVE  RunnerInv'
<1>0. RunnerFields /\ RunnerPlace /\ Echoed
  BY DEF RunnerInv
<1>1. PICK at : at = IF runner.deploy = "qemu" THEN "stdin" ELSE "read"
  OBVIOUS
<1>2. /\ runner.at = "deploy"
      /\ Runner!Panic \/ Runner!Set([at |-> at, child |-> "running"])
  BY <1>1, Zenon DEF Runner!Deploy, Runner!Or, Runner!At
<1>3. ASSUME Runner!Set([at |-> at, child |-> "running"]) PROVE RunnerInv'
  <2> DEFINE f == [at |-> at, child |-> "running"]
  <2>1. DOMAIN f = {"at", "child"} /\ f.at = at /\ f.child = "running" /\ Runner!Set(f)
    BY <1>3
  <2> HIDE DEF f
  <2>2. /\ RunnerFields' /\ runner'.at = f.at /\ runner'.deploy = runner.deploy
        /\ runner'.tbf = runner.tbf /\ runner'.raw = runner.raw /\ runner'.child = f.child
        /\ runner'.out = runner.out /\ runner'.wrote = runner.wrote
        /\ runner'.printed = runner.printed /\ runner'.open = runner.open
    BY <1>0, <2>1, RunnerSets DEF RunnerFields, Watched
  <2>3. runner'.at = at /\ runner'.child = "running"
    BY <2>1, <2>2, Zenon
  <2>4. RunnerPlace'
    BY <1>0, <1>1, <1>2, <2>2, <2>3 DEF RunnerPlace
  <2> QED BY <2>2, <2>4, RunnerGoes
<1> QED BY <1>2, <1>3, RunnerPanics

LEMMA ForwardsStdin ==
  ASSUME RunnerInv, Runner!ForwardStdin
  PROVE  RunnerInv'
<1>0. RunnerFields /\ RunnerPlace /\ Echoed
  BY DEF RunnerInv
<1>1. runner.at = "stdin"
  BY DEF Runner!ForwardStdin, Runner!At
<1>2. CASE Runner!Set([at |-> "stderr", stdin |-> "run", raw |-> TRUE])
  <2> DEFINE f == [at |-> "stderr", stdin |-> "run", raw |-> TRUE]
  <2>1. DOMAIN f = {"at", "stdin", "raw"} /\ f.at = "stderr" /\ f.raw = TRUE /\ Runner!Set(f)
    BY <1>2
  <2> HIDE DEF f
  <2>2. /\ RunnerFields' /\ runner'.at = f.at /\ runner'.deploy = runner.deploy
        /\ runner'.tbf = runner.tbf /\ runner'.raw = f.raw /\ runner'.child = runner.child
        /\ runner'.out = runner.out /\ runner'.wrote = runner.wrote
        /\ runner'.printed = runner.printed /\ runner'.open = runner.open
    BY <1>0, <2>1, RunnerSets DEF RunnerFields, Watched
  <2>3. runner'.at = "stderr" /\ runner'.raw = TRUE
    BY <2>1, <2>2, Zenon
  <2>4. RunnerPlace'
    BY <1>0, <1>1, <2>2, <2>3 DEF RunnerPlace
  <2> QED BY <2>2, <2>4, RunnerGoes
<1>3. CASE Runner!Set([at |-> "panicked", stdin |-> "run"])
  <2> DEFINE f == [at |-> "panicked", stdin |-> "run"]
  <2>1. DOMAIN f = {"at", "stdin"} /\ f.at = "panicked" /\ Runner!Set(f)
    BY <1>3
  <2> HIDE DEF f
  <2>2. /\ RunnerFields' /\ runner'.at = f.at /\ runner'.deploy = runner.deploy
        /\ runner'.tbf = runner.tbf /\ runner'.raw = runner.raw /\ runner'.child = runner.child
        /\ runner'.out = runner.out /\ runner'.wrote = runner.wrote
        /\ runner'.printed = runner.printed /\ runner'.open = runner.open
    BY <1>0, <2>1, RunnerSets DEF RunnerFields, Watched
  <2>3. runner'.at = "panicked"
    BY <2>1, <2>2, Zenon
  <2>4. RunnerPlace'
    BY <1>0, <1>1, <2>2, <2>3 DEF RunnerPlace
  <2> QED BY <2>2, <2>4, RunnerGoes
<1> QED BY <1>2, <1>3 DEF Runner!ForwardStdin

LEMMA ForwardsStderr ==
  ASSUME RunnerInv, Runner!ForwardStderr
  PROVE  RunnerInv'
<1>0. RunnerFields /\ RunnerPlace /\ Echoed
  BY DEF RunnerInv
<1> DEFINE f == [at |-> "read", stderr |-> "run"]
<1>1. /\ runner.at = "stderr" /\ DOMAIN f = {"at", "stderr"} /\ f.at = "read"
      /\ Runner!Set(f)
  BY DEF Runner!ForwardStderr, Runner!At
<1> HIDE DEF f
<1>2. /\ RunnerFields' /\ runner'.at = f.at /\ runner'.deploy = runner.deploy
      /\ runner'.tbf = runner.tbf /\ runner'.raw = runner.raw /\ runner'.child = runner.child
      /\ runner'.out = runner.out /\ runner'.wrote = runner.wrote
      /\ runner'.printed = runner.printed /\ runner'.open = runner.open
  BY <1>0, <1>1, RunnerSets DEF RunnerFields, Watched
<1>3. runner'.at = "read"
  BY <1>1, <1>2, Zenon
<1>4. RunnerPlace'
  BY <1>0, <1>1, <1>2, <1>3 DEF RunnerPlace
<1> QED BY <1>2, <1>4, RunnerGoes

(* The main thread ends: the child is awaited, the terminal restored.      *)
LEMMA RunnerEnds ==
  ASSUME RunnerInv, Runner!Wait \/ Runner!Restore
  PROVE  RunnerInv'
<1>0. RunnerFields /\ RunnerPlace /\ Echoed
  BY DEF RunnerInv
<1>1. CASE Runner!Wait
  <2> DEFINE f == [at |-> "restore", child |-> "reaped"]
  <2>1. /\ runner.at = "wait" /\ runner.child = "exited"
        /\ DOMAIN f = {"at", "child"} /\ f.at = "restore" /\ f.child = "reaped"
        /\ Runner!Set(f)
    BY <1>1 DEF Runner!Wait, Runner!At
  <2> HIDE DEF f
  <2>2. /\ RunnerFields' /\ runner'.at = f.at /\ runner'.deploy = runner.deploy
        /\ runner'.tbf = runner.tbf /\ runner'.raw = runner.raw /\ runner'.child = f.child
        /\ runner'.out = runner.out /\ runner'.wrote = runner.wrote
        /\ runner'.printed = runner.printed /\ runner'.open = runner.open
    BY <1>0, <2>1, RunnerSets DEF RunnerFields, Watched
  <2>3. runner'.at = "restore" /\ runner'.child = "reaped"
    BY <2>1, <2>2, Zenon
  <2>4. RunnerPlace'
    BY <1>0, <2>1, <2>2, <2>3 DEF RunnerPlace
  <2> QED BY <2>2, <2>4, RunnerGoes
<1>2. CASE Runner!Restore
  <2>0. PICK at : at = IF runner.status THEN "end" ELSE "panicked"
    OBVIOUS
  <2> DEFINE f == [at |-> at, raw |-> FALSE]
  <2>1. runner.at = "restore" /\ Runner!Set(f)
    BY <1>2, <2>0, Zenon DEF Runner!Restore, Runner!At
  <2>2. DOMAIN f = {"at", "raw"} /\ f.at = at /\ f.raw = FALSE
    OBVIOUS
  <2> HIDE DEF f
  <2>3. /\ RunnerFields' /\ runner'.at = f.at /\ runner'.deploy = runner.deploy
        /\ runner'.tbf = runner.tbf /\ runner'.raw = f.raw /\ runner'.child = runner.child
        /\ runner'.out = runner.out /\ runner'.wrote = runner.wrote
        /\ runner'.printed = runner.printed /\ runner'.open = runner.open
    BY <1>0, <2>1, <2>2, RunnerSets DEF RunnerFields, Watched
  <2>4. runner'.at = at /\ runner'.raw = FALSE /\ at \in {"end", "panicked"}
    BY <2>0, <2>2, <2>3, Zenon
  <2>5. RunnerPlace'
    BY <1>0, <2>1, <2>3, <2>4 DEF RunnerPlace
  <2> QED BY <2>3, <2>5, RunnerGoes
<1> QED BY <1>1, <1>2

(* The main thread reads: what it prints is what was in the pipe.          *)
LEMMA Reads ==
  ASSUME RunnerInv, Runner!Read
  PROVE  RunnerInv'
<1>0. RunnerFields /\ RunnerPlace /\ Echoed
  BY DEF RunnerInv
<1>1. runner.at = "read"
  BY DEF Runner!Read, Runner!At
<1>2. CASE runner.out = << >> /\ ~runner.open /\ Runner!Set([at |-> "wait"])
  <2> DEFINE f == [at |-> "wait"]
  <2>1. DOMAIN f = {"at"} /\ f.at = "wait" /\ Runner!Set(f)
    BY <1>2
  <2> HIDE DEF f
  <2>2. /\ RunnerFields' /\ runner'.at = f.at /\ runner'.deploy = runner.deploy
        /\ runner'.tbf = runner.tbf /\ runner'.raw = runner.raw /\ runner'.child = runner.child
        /\ runner'.out = runner.out /\ runner'.wrote = runner.wrote
        /\ runner'.printed = runner.printed /\ runner'.open = runner.open
    BY <1>0, <2>1, RunnerSets DEF RunnerFields, Watched
  <2>3. runner'.at = "wait"
    BY <2>1, <2>2, Zenon
  <2>4. RunnerPlace'
    BY <1>0, <1>1, <1>2, <2>2, <2>3 DEF RunnerPlace
  <2> QED BY <2>2, <2>4, RunnerGoes
<1>3. ASSUME NEW text, text = runner.printed \o Runner!Translated(runner.out),
             NEW none, none = << >>,
             Runner!Set([printed |-> text, out |-> none])
      PROVE  RunnerInv'
  <2> DEFINE f == [printed |-> text, out |-> none]
  <2>1. DOMAIN f = {"printed", "out"} /\ f.printed = text /\ f.out = none /\ Runner!Set(f)
    BY <1>3
  <2> HIDE DEF f
  <2>2. /\ RunnerFields' /\ runner'.at = runner.at /\ runner'.deploy = runner.deploy
        /\ runner'.tbf = runner.tbf /\ runner'.raw = runner.raw /\ runner'.child = runner.child
        /\ runner'.out = f.out /\ runner'.wrote = runner.wrote
        /\ runner'.printed = f.printed /\ runner'.open = runner.open
    BY <1>0, <2>1, RunnerSets DEF RunnerFields, Watched
  <2>3. runner'.printed = text /\ runner'.out = << >>
    BY <1>3, <2>1, <2>2, Zenon
  <2>4. runner.at \notin {"wait", "restore", "end"}
    BY <1>1
  <2>5. RunnerPlace'
    BY <1>0, <2>2, <2>4, Zenon DEF RunnerPlace
  <2>6. runner.raw <=> runner.deploy = "qemu"
    BY <1>0, <1>1 DEF RunnerPlace
  <2>7. CASE runner.deploy = "qemu"
    <3>1. text = runner.printed \o Runner!Crlf(runner.out)
      BY <1>3, <2>6, <2>7, Zenon DEF Runner!Translated
    <3>2. /\ Runner!Crlf(runner.wrote) = text /\ text \in Seq(Letters \cup {"r"})
      BY <1>0, <2>7, <3>1, CrlfTyped, Zenon DEF Echoed
    <3>3. text = text \o << >>
      BY <3>2
    <3>4. Echoed'
      <4>1. << >> \in Seq(Letters)
        OBVIOUS
      <4> QED BY <1>0, <2>2, <2>3, <2>7, <3>2, <3>3, <4>1, CrlfOfNone, Zenon DEF Echoed
    <3> QED BY <2>2, <2>5, <3>4 DEF RunnerInv
  <2>8. CASE runner.deploy # "qemu"
    <3>1. text = runner.wrote
      BY <1>0, <1>3, <2>6, <2>8, Zenon DEF Runner!Translated, Echoed
    <3>2. text \in Seq(Letters) /\ text \in Seq(Letters \cup {"r"}) /\ text = text \o << >>
      <4>1. text \in Seq(Letters)
        BY <1>0, <3>1, Zenon DEF Echoed
      <4> QED BY <4>1
    <3>3. Echoed'
      <4>1. << >> \in Seq(Letters)
        OBVIOUS
      <4> QED BY <1>0, <2>2, <2>3, <2>8, <3>1, <3>2, <4>1, Zenon DEF Echoed
    <3> QED BY <2>2, <2>5, <3>3 DEF RunnerInv
  <2> QED BY <2>7, <2>8
<1>4. PICK text, none : text = runner.printed \o Runner!Translated(runner.out) /\ none = << >>
  OBVIOUS
<1>5. \/ runner.out = << >> /\ ~runner.open /\ Runner!Set([at |-> "wait"])
      \/ Runner!Panic
      \/ Runner!Set([printed |-> text, out |-> none])
  BY <1>4, Zenon DEF Runner!Read, Runner!Or, Runner!Echo
<1> QED BY <1>2, <1>3, <1>4, <1>5, RunnerPanics

(* What the child writes is in the pipe, until it closes it.               *)
LEMMA Writes ==
  ASSUME RunnerInv, runner.open, NEW b \in Letters,
         Runner!Set([out |-> Append(runner.out, b), wrote |-> Append(runner.wrote, b)])
  PROVE  RunnerInv'
<1>0. RunnerFields /\ RunnerPlace /\ Echoed
  BY DEF RunnerInv
<1>1. PICK out, wrote : out = Append(runner.out, b) /\ wrote = Append(runner.wrote, b)
  OBVIOUS
<1> DEFINE f == [out |-> out, wrote |-> wrote]
<1>2. Runner!Set(f)
  BY <1>1, Zenon
<1>3. DOMAIN f = {"out", "wrote"} /\ f.out = out /\ f.wrote = wrote
  OBVIOUS
<1> HIDE DEF f
<1>4. /\ RunnerFields' /\ runner'.at = runner.at /\ runner'.deploy = runner.deploy
      /\ runner'.tbf = runner.tbf /\ runner'.raw = runner.raw /\ runner'.child = runner.child
      /\ runner'.out = f.out /\ runner'.wrote = f.wrote
      /\ runner'.printed = runner.printed /\ runner'.open = runner.open
  BY <1>0, <1>2, <1>3, RunnerSets DEF RunnerFields, Watched
<1>5. RunnerPlace'
  BY <1>0, <1>4, Zenon DEF RunnerPlace
<1>6. runner'.out = out /\ runner'.wrote = wrote
  BY <1>3, <1>4, Zenon
<1>7. PICK o, w, p : o = runner.out /\ w = runner.wrote /\ p = runner.printed
  OBVIOUS
<1>8. /\ o \in Seq(Letters) /\ w \in Seq(Letters) /\ p \in Seq(Letters \cup {"r"})
      /\ out = Append(o, b) /\ wrote = Append(w, b)
  BY <1>0, <1>1, <1>7, Zenon DEF Echoed
<1>9. out \in Seq(Letters) /\ wrote \in Seq(Letters)
  BY <1>8
<1>10. CASE runner.deploy = "qemu"
  <2>1. Runner!Crlf(w) = p \o Runner!Crlf(o)
    BY <1>0, <1>7, <1>10, Zenon DEF Echoed
  <2>2. /\ Runner!Crlf(out) = Runner!Crlf(o) \o Pushed(b)
        /\ Runner!Crlf(wrote) = Runner!Crlf(w) \o Pushed(b)
    BY <1>8, CrlfAppends, Zenon
  <2>3. PICK c, q : c = Runner!Crlf(o) /\ q = Pushed(b)
    OBVIOUS
  <2>4. c \in Seq(Letters \cup {"r"}) /\ q \in Seq(Letters \cup {"r"})
    <3>1. Runner!Crlf(o) \in Seq(Letters \cup {"r"})
      BY <1>8, CrlfTyped
    <3>2. Pushed(b) \in Seq(Letters \cup {"r"})
      BY PushedTyped
    <3> QED BY <2>3, <3>1, <3>2, Zenon
  <2>5. (p \o c) \o q = p \o (c \o q)
    <3> DEFINE All == Letters \cup {"r"}
    <3>1. p \in Seq(All) /\ c \in Seq(All) /\ q \in Seq(All)
      BY <1>8, <2>4
    <3> HIDE DEF All
    <3> QED BY <3>1, ConcatAssociative
  <2>6. Runner!Crlf(wrote) = p \o Runner!Crlf(out)
    BY <2>1, <2>2, <2>3, <2>5, Zenon
  <2>7. Echoed'
    BY <1>4, <1>6, <1>7, <1>8, <1>9, <1>10, <2>6, Zenon DEF Echoed
  <2> QED BY <1>4, <1>5, <2>7 DEF RunnerInv
<1>11. CASE runner.deploy # "qemu"
  <2>1. w = p \o o
    BY <1>0, <1>7, <1>11, Zenon DEF Echoed
  <2>2. Append(p \o o, b) = p \o Append(o, b)
    <3> DEFINE All == Letters \cup {"r"}
    <3>1. p \in Seq(All) /\ o \in Seq(All) /\ b \in All
      BY <1>8
    <3> HIDE DEF All
    <3>2. PICK one : one = <<b>>
      OBVIOUS
    <3>3. p \o o \in Seq(All) /\ one \in Seq(All)
      BY <3>1, <3>2
    <3>4. Append(p \o o, b) = (p \o o) \o one /\ Append(o, b) = o \o one
      BY <3>1, <3>2, <3>3, AppendIsConcat, Zenon
    <3>5. (p \o o) \o one = p \o (o \o one)
      BY <3>1, <3>3, ConcatAssociative
    <3> QED BY <3>4, <3>5, Zenon
  <2>3. wrote = p \o out
    BY <1>8, <2>1, <2>2, Zenon
  <2>4. Echoed'
    BY <1>4, <1>6, <1>7, <1>8, <1>9, <1>11, <2>3, Zenon DEF Echoed
  <2> QED BY <1>4, <1>5, <2>4 DEF RunnerInv
<1> QED BY <1>10, <1>11

LEMMA ChildWritesKept ==
  ASSUME RunnerInv, Runner!ChildWrites
  PROVE  RunnerInv'
<1>1. PICK b \in Letters :
         \/ runner.open
            /\ Runner!Set([out |-> Append(runner.out, b), wrote |-> Append(runner.wrote, b)])
         \/ Runner!Set([err |-> Append(runner.err, b),
                        wrote_err |-> Append(runner.wrote_err, b)])
  BY Zenon DEF Runner!ChildWrites, Letters
<1>2. CASE Runner!Set([err |-> Append(runner.err, b),
                       wrote_err |-> Append(runner.wrote_err, b)])
  <2> DEFINE f == [err |-> Append(runner.err, b), wrote_err |-> Append(runner.wrote_err, b)]
  <2>1. DOMAIN f \cap Watched = {}
    BY DEF Watched
  <2>2. Runner!Set(f)
    BY <1>2
  <2> HIDE DEF f
  <2> QED BY <2>1, <2>2, RunnerKeeps, Zenon
<1> QED BY <1>1, <1>2, Writes

(* The child ends its output, or itself.                                   *)
LEMMA ChildEnds ==
  ASSUME RunnerInv, Runner!ChildCloses \/ Runner!ChildExits \/ Runner!ChildObeys
  PROVE  RunnerInv'
<1>0. RunnerFields /\ RunnerPlace /\ Echoed
  BY DEF RunnerInv
<1>1. runner.child = "running"
  BY Zenon DEF Runner!ChildCloses, Runner!ChildExits, Runner!ChildObeys, Runner!Running
<1>2. PICK f : /\ Runner!Set(f)
               /\ DOMAIN f \cap Watched \subseteq {"open", "child"}
               /\ "open" \in DOMAIN f /\ f.open = FALSE
               /\ "child" \in DOMAIN f => f.child = "exited"
  <2>1. CASE Runner!ChildCloses
    <3> DEFINE g == [open |-> FALSE]
    <3>1. Runner!Set(g)
      BY <2>1 DEF Runner!ChildCloses
    <3>2. DOMAIN g = {"open"} /\ g.open = FALSE
      OBVIOUS
    <3> HIDE DEF g
    <3> QED BY <3>1, <3>2
  <2>2. CASE Runner!ChildExits
    <3>1. PICK s \in BOOLEAN :
             Runner!Set([child |-> "exited", open |-> FALSE, status |-> s])
      BY <2>2 DEF Runner!ChildExits
    <3> DEFINE g == [child |-> "exited", open |-> FALSE, status |-> s]
    <3>2. Runner!Set(g)
      BY <3>1
    <3>3. DOMAIN g = {"child", "open", "status"} /\ g.open = FALSE /\ g.child = "exited"
      OBVIOUS
    <3> HIDE DEF g
    <3> QED BY <3>2, <3>3 DEF Watched
  <2>3. CASE Runner!ChildObeys
    <3> DEFINE g == [child |-> "exited", open |-> FALSE]
    <3>1. Runner!Set(g)
      BY <2>3 DEF Runner!ChildObeys
    <3>2. DOMAIN g = {"child", "open"} /\ g.open = FALSE /\ g.child = "exited"
      OBVIOUS
    <3> HIDE DEF g
    <3> QED BY <3>1, <3>2
  <2> QED BY <2>1, <2>2, <2>3
<1>3. /\ RunnerFields' /\ runner'.at = runner.at /\ runner'.deploy = runner.deploy
      /\ runner'.tbf = runner.tbf /\ runner'.raw = runner.raw
      /\ runner'.child = (IF "child" \in DOMAIN f THEN f.child ELSE runner.child)
      /\ runner'.out = runner.out /\ runner'.wrote = runner.wrote
      /\ runner'.printed = runner.printed /\ runner'.open = f.open
  BY <1>0, <1>2, RunnerSets DEF RunnerFields, Watched
<1>4. runner'.open = FALSE /\ runner'.child \in {"running", "exited"}
  BY <1>1, <1>2, <1>3, Zenon
<1>5. RunnerPlace'
  BY <1>0, <1>1, <1>3, <1>4 DEF RunnerPlace
<1> QED BY <1>3, <1>5, RunnerGoes

(* What the other threads and the terminal do is not of these fields.      *)
LEMMA OthersKept ==
  ASSUME RunnerInv,
         \/ Runner!Forward \/ Runner!Interrupt \/ Runner!ForwardErr
         \/ Runner!ChildReads \/ Runner!Type
  PROVE  RunnerInv'
<1>1. PICK f : Runner!Set(f) /\ DOMAIN f \cap Watched = {}
  <2>1. CASE Runner!Forward
    <3>1. PICK n, buffer, typed :
             \/ Runner!Set([stdin |-> "kill"])
             \/ Runner!Set([stdin |-> "gone"])
             \/ Runner!Set([pipe |-> n, buffer |-> buffer])
             \/ Runner!Set([buffer |-> buffer, typed |-> typed])
      BY <2>1, Zenon DEF Runner!Forward, Runner!FillBuf, Runner!Write
    <3>2. /\ DOMAIN [stdin |-> "kill"] \cap Watched = {}
          /\ DOMAIN [stdin |-> "gone"] \cap Watched = {}
          /\ DOMAIN [pipe |-> n, buffer |-> buffer] \cap Watched = {}
          /\ DOMAIN [buffer |-> buffer, typed |-> typed] \cap Watched = {}
      BY DEF Watched
    <3> QED BY <3>1, <3>2, Zenon
  <2>2. CASE Runner!Interrupt
    <3>1. PICK b : Runner!Set([stdin |-> "gone", interrupted |-> b])
      BY <2>2, Zenon DEF Runner!Interrupt
    <3>2. DOMAIN [stdin |-> "gone", interrupted |-> b] \cap Watched = {}
      BY DEF Watched
    <3> QED BY <3>1, <3>2, Zenon
  <2>3. CASE Runner!ForwardErr
    <3>1. PICK text, none :
             \/ Runner!Set([printed_err |-> text, err |-> none])
             \/ Runner!Set([stderr |-> "gone"])
      BY <2>3, Zenon DEF Runner!ForwardErr
    <3>2. /\ DOMAIN [printed_err |-> text, err |-> none] \cap Watched = {}
          /\ DOMAIN [stderr |-> "gone"] \cap Watched = {}
      BY DEF Watched
    <3> QED BY <3>1, <3>2, Zenon
  <2>4. CASE Runner!ChildReads
    <3>1. PICK n : Runner!Set([pipe |-> n])
      BY <2>4, Zenon DEF Runner!ChildReads
    <3>2. DOMAIN [pipe |-> n] \cap Watched = {}
      BY DEF Watched
    <3> QED BY <3>1, <3>2, Zenon
  <2>5. CASE Runner!Type
    <3>1. PICK typed, n, c : Runner!Set([typed |-> typed, pressed |-> n, ctrl_c |-> c])
      BY <2>5, Zenon DEF Runner!Type
    <3>2. DOMAIN [typed |-> typed, pressed |-> n, ctrl_c |-> c] \cap Watched = {}
      BY DEF Watched
    <3> QED BY <3>1, <3>2, Zenon
  <2> QED BY <2>1, <2>2, <2>3, <2>4, <2>5
<1> QED BY <1>1, RunnerKeeps, Zenon

LEMMA RunnerStep ==
  ASSUME RunnerInv, Runner!Next
  PROVE  RunnerInv'
BY ConvertsFresh, VerifiesFresh, Deploys, ForwardsStdin, ForwardsStderr, Reads, RunnerEnds,
   ChildWritesKept, ChildEnds, OthersKept, Zenon DEF Runner!Next, Runner!Main

LEMMA RunnerInit ==
  ASSUME Runner!Init
  PROVE  RunnerInv
<1>1. PICK d, tbf :
         runner = [at |-> "start", deploy |-> d, tbf |-> tbf,
              raw |-> FALSE, child |-> "none", status |-> TRUE,
              out |-> << >>, wrote |-> << >>, printed |-> << >>, open |-> TRUE,
              err |-> << >>, wrote_err |-> << >>, printed_err |-> << >>,
              stdin |-> "none", stderr |-> "none", typed |-> << >>, buffer |-> << >>,
              pressed |-> 0, pipe |-> 0, ctrl_c |-> FALSE, interrupted |-> FALSE]
  BY Zenon DEF Runner!Init
<1>2. RunnerFields
  BY <1>1 DEF RunnerFields, Watched
<1>3. /\ runner.at = "start" /\ runner.child = "none" /\ runner.raw = FALSE
      /\ runner.out = << >> /\ runner.wrote = << >> /\ runner.printed = << >>
  BY <1>1
<1>4. RunnerPlace
  BY <1>3 DEF RunnerPlace
<1>5. << >> \in Seq(Letters) /\ << >> \in Seq(Letters \cup {"r"}) /\ << >> \o << >> = << >>
  OBVIOUS
<1>6. Echoed
  BY <1>3, <1>5, CrlfOfNone, Zenon DEF Echoed
<1> QED BY <1>2, <1>4, <1>6 DEF RunnerInv

(* So what is printed is a beginning of what is expected, and all of it    *)
(* where the pipe is empty and closed.                                     *)
LEMMA RunnerTold ==
  ASSUME RunnerInv
  PROVE  Runner!EchoIsWhole /\ Runner!ImageIsFresh
<1>0. RunnerFields /\ RunnerPlace /\ Echoed
  BY DEF RunnerInv
<1>1. Runner!ImageIsFresh
  BY <1>0, Zenon DEF Runner!ImageIsFresh, RunnerPlace
<1>2. PICK expected : expected = IF runner.deploy = "qemu" THEN Runner!Crlf(runner.wrote)
                                                        ELSE runner.wrote
  OBVIOUS
<1>3. PICK rest : rest = IF runner.deploy = "qemu" THEN Runner!Crlf(runner.out)
                                                 ELSE runner.out
  OBVIOUS
<1>4. PICK p : p = runner.printed
  OBVIOUS
<1>5. /\ expected = p \o rest /\ p \in Seq(Letters \cup {"r"})
  BY <1>0, <1>2, <1>3, <1>4, Zenon DEF Echoed
<1>6. rest \in Seq(Letters \cup {"r"})
  <2>1. runner.out \in Seq(Letters)
    BY <1>0, Zenon DEF Echoed
  <2>2. \A s \in Seq(Letters) : s \in Seq(Letters \cup {"r"})
    OBVIOUS
  <2>3. Runner!Crlf(runner.out) \in Seq(Letters \cup {"r"})
    BY <1>0, <2>1, CrlfTyped, Zenon DEF Echoed
  <2> QED BY <1>3, <2>1, <2>2, <2>3, Zenon
<1>7. Len(p) <= Len(expected) /\ p = SubSeq(expected, 1, Len(p))
  BY <1>5, <1>6
<1>8. runner.at = "end" /\ runner.child # "none" => p = expected
  <2> SUFFICES ASSUME runner.at = "end" /\ runner.child # "none" PROVE p = expected
    BY Zenon
  <2>1. runner.out = << >>
    BY <1>0, Zenon DEF RunnerPlace
  <2>2. rest = << >>
    BY <1>3, <2>1, CrlfOfNone, Zenon
  <2>3. p \o << >> = p
    BY <1>5
  <2> QED BY <1>5, <2>2, <2>3, Zenon
<1>9. Runner!EchoIsWhole
  BY <1>2, <1>4, <1>7, <1>8, Zenon DEF Runner!EchoIsWhole, Runner!At
<1> QED BY <1>1, <1>9

-----------------------------------------------------------------------------
(***************************************************************************)
(* The receiver.  s has read a frame up to n, or has stopped somewhere     *)
(* before; what it has said is what it has read.                           *)
(***************************************************************************)
HasRead(f, s, n, ok) ==
    /\ DOMAIN s = {"end", "offset", "said"}
    /\ s.offset \in 2..n /\ s.offset <= Len(f)
    /\ s.said = SubSeq(f, 3, s.offset)
    /\ ok => s.end = "reading" /\ s.offset = n
    /\ ~ok => s.end = "malformed"

(* Two pieces of a sequence that meet.                                     *)
LEMMA PiecesJoin ==
  ASSUME NEW S, NEW u \in Seq(S), NEW m \in Nat, NEW z \in Nat, 2 <= m, m + z <= Len(u)
  PROVE  SubSeq(u, 3, m) \o SubSeq(u, m + 1, m + z) = SubSeq(u, 3, m + z)
<1>1. PICK a, b, c : /\ a = SubSeq(u, 3, m) /\ b = SubSeq(u, m + 1, m + z)
                     /\ c = SubSeq(u, 3, m + z)
  OBVIOUS
<1>2. Len(u) \in Nat
  OBVIOUS
<1>3. /\ a \in Seq(S) /\ Len(a) = m - 2 /\ \A i \in 1..m - 2 : a[i] = u[i + 2]
  BY <1>1, <1>2
<1>4. /\ b \in Seq(S) /\ Len(b) = z /\ \A i \in 1..z : b[i] = u[i + m]
  BY <1>1, <1>2
<1>5. /\ c \in Seq(S) /\ Len(c) = (m - 2) + z /\ \A i \in 1..((m - 2) + z) : c[i] = u[i + 2]
  BY <1>1, <1>2
<1>6. PICK d : d = a \o b
  OBVIOUS
<1>7. /\ d \in Seq(S) /\ Len(d) = (m - 2) + z
      /\ \A i \in 1..((m - 2) + z) : d[i] = IF i <= m - 2 THEN a[i] ELSE b[i - (m - 2)]
  BY <1>3, <1>4, <1>6
<1>8. ASSUME NEW i \in 1..((m - 2) + z) PROVE c[i] = d[i]
  <2>1. CASE i <= m - 2
    BY <1>3, <1>5, <1>7, <2>1
  <2>2. CASE ~(i <= m - 2)
    <3>1. i - (m - 2) \in 1..z /\ (i - (m - 2)) + m = i + 2
      BY <2>2
    <3> QED BY <1>4, <1>5, <1>7, <2>2, <3>1
  <2> QED BY <2>1, <2>2
<1>9. c = d
  BY <1>5, <1>7, <1>8, SeqEqual
<1> QED BY <1>1, <1>6, <1>9, Zenon

LEMMA PairParts == ASSUME NEW a, NEW b PROVE <<a, b>>[1] = a /\ <<a, b>>[2] = b
OBVIOUS

LEMMA PartIsRead ==
  ASSUME NEW S, NEW f \in Seq(S), NEW s, NEW n \in Nat, NEW ok \in BOOLEAN,
         HasRead(f, s, n, ok), NEW name, NEW z \in Nat, NEW good \in BOOLEAN,
         good <=> (ok /\ ~Frames!Malformed(f[1], name) /\ n + z <= Len(f))
  PROVE  HasRead(f, Frames!ReadPart(f, s, <<name, z>>), n + z, good)
<1>1. PICK p : p = <<name, z>> /\ p[1] = name /\ p[2] = z
  BY PairParts, ZenonT(40)
<1>2. PICK r : r = Frames!ReadPart(f, s, p)
  OBVIOUS
<1>a. Len(f) \in Nat
  OBVIOUS
<1>b. n + z \in Nat /\ n <= n + z
  OBVIOUS
<1>3. n + z \in Nat /\ Len(f) \in Nat /\ n <= n + z
  BY <1>a, <1>b, Zenon
<1>4. CASE ~ok
  <2>1. s.end # "reading"
    BY <1>4 DEF HasRead
  <2>2. r = s
    BY <1>2, <2>1, Zenon DEF Frames!ReadPart
  <2>3. s.offset \in 2..n + z
    BY <1>3 DEF HasRead
  <2>4. HasRead(f, r, n + z, good)
    BY <1>4, <2>2, <2>3, Zenon DEF HasRead
  <2> QED BY <1>1, <1>2, <2>4, Zenon
<1>5. CASE ok /\ ~good
  <2>1. s.end = "reading" /\ s.offset = n
    BY <1>5, Zenon DEF HasRead
  <2>2. Frames!Malformed(f[1], p[1]) \/ s.offset + p[2] > Len(f)
    <3>1. Frames!Malformed(f[1], name) \/ ~(n + z <= Len(f))
      BY <1>5, Zenon
    <3>2. ~(n + z <= Len(f)) => n + z > Len(f)
      BY <1>3
    <3> QED BY <1>1, <2>1, <3>1, <3>2, Zenon
  <2>3. r = [s EXCEPT !.end = "malformed"]
    BY <1>2, <2>1, <2>2, Zenon DEF Frames!ReadPart
  <2>4. DOMAIN s = {"end", "offset", "said"}
    BY Zenon DEF HasRead
  <2>5. /\ DOMAIN r = {"end", "offset", "said"} /\ r.end = "malformed"
        /\ r.offset = s.offset /\ r.said = s.said
    BY <2>3, <2>4
  <2>6. s.offset \in 2..n + z
    BY <1>3 DEF HasRead
  <2>7. HasRead(f, r, n + z, good)
    BY <1>5, <2>5, <2>6, Zenon DEF HasRead
  <2> QED BY <1>1, <1>2, <2>7, Zenon
<1>6. CASE good
  <2>1. ok /\ s.end = "reading" /\ s.offset = n
    BY <1>6, Zenon DEF HasRead
  <2>2. ~(Frames!Malformed(f[1], p[1]) \/ s.offset + p[2] > Len(f))
    <3>1. ~Frames!Malformed(f[1], name) /\ n + z <= Len(f)
      BY <1>6, Zenon
    <3>2. n + z <= Len(f) => ~(n + z > Len(f))
      BY <1>3
    <3> QED BY <1>1, <2>1, <3>1, <3>2, Zenon
  <2>3. PICK more : more = s.said \o SubSeq(f, s.offset + 1, s.offset + p[2])
    OBVIOUS
  <2>4. PICK far : far = s.offset + p[2]
    OBVIOUS
  <2>5. r = [s EXCEPT !.offset = far, !.said = more]
    BY <1>2, <2>1, <2>2, <2>3, <2>4, Zenon DEF Frames!ReadPart
  <2>6. DOMAIN s = {"end", "offset", "said"}
    BY Zenon DEF HasRead
  <2>7. /\ DOMAIN r = {"end", "offset", "said"} /\ r.end = s.end
        /\ r.offset = far /\ r.said = more
    BY <2>5, <2>6
  <2>8. far = n + z
    BY <1>1, <2>1, <2>4, Zenon
  <2>9. more = SubSeq(f, 3, far)
    <3>1. s.said = SubSeq(f, 3, n) /\ n >= 2 /\ n <= Len(f)
      BY <2>1 DEF HasRead
    <3>2. n + z <= Len(f)
      BY <1>6
    <3>3. SubSeq(f, 3, n) \o SubSeq(f, n + 1, n + z) = SubSeq(f, 3, n + z)
      BY <3>1, <3>2, PiecesJoin
    <3> QED BY <1>1, <2>1, <2>3, <2>8, <3>1, <3>3, Zenon
  <2>10. far \in 2..n + z /\ far <= Len(f)
    <3>1. n >= 2 /\ n + z <= Len(f)
      BY <1>6, <2>1 DEF HasRead
    <3> QED BY <2>8, <3>1
  <2>11. HasRead(f, r, n + z, good)
    BY <1>6, <2>1, <2>7, <2>8, <2>9, <2>10, Zenon DEF HasRead
  <2> QED BY <1>1, <1>2, <2>11, Zenon
<1> QED BY <1>4, <1>5, <1>6

LEMMA FiveParts ==
  ASSUME NEW a, NEW b, NEW c, NEW d, NEW e
  PROVE  /\ <<a, b, c, d, e>>[1] = a /\ <<a, b, c, d, e>>[2] = b /\ <<a, b, c, d, e>>[3] = c
         /\ <<a, b, c, d, e>>[4] = d /\ <<a, b, c, d, e>>[5] = e
OBVIOUS

(* The sizes of the five parts that a frame control announces, the length  *)
(* of the header they make, and whether the receiver knows its layout.     *)
Numbered(c) == IF c.suppressed THEN 0 ELSE 1
PanTo(c) == IF c.dst = "none" THEN 0 ELSE 2
PanFrom(c) == IF c.src = "none" \/ c.compressed THEN 0 ELSE 2
HeaderLength(c) ==
    2 + Numbered(c) + PanTo(c) + Frames!AddressSize(c.dst) + PanFrom(c)
      + Frames!AddressSize(c.src)
KnownLayout(c) ==
    "reserved" \notin {c.dst, c.src} /\ ~(c.compressed /\ c.dst = "none" /\ c.src # "none")

LEMMA SizeTyped ==
  ASSUME NEW c
  PROVE  /\ Numbered(c) \in Nat /\ PanTo(c) \in Nat /\ PanFrom(c) \in Nat
         /\ \A m : Frames!AddressSize(m) \in Nat
<1>1. 0 \in Nat /\ 1 \in Nat /\ 2 \in Nat /\ 8 \in Nat
  OBVIOUS
<1> QED BY <1>1, Zenon DEF Numbered, PanTo, PanFrom, Frames!AddressSize

(* What the receiver has said of a header is what it has read of it, and   *)
(* it has read the whole of it if it knows its layout and it is there.     *)
LEMMA HeaderIsSaid ==
  ASSUME NEW S, NEW f \in Seq(S), Len(f) >= 2, NEW c, c = f[1], NEW begun,
         begun = [end |-> "reading", offset |-> 2, said |-> << >>],
         NEW good \in BOOLEAN, good <=> (KnownLayout(c) /\ HeaderLength(c) <= Len(f))
  PROVE  HasRead(f, Frames!ReadHeader(f, begun), HeaderLength(c), good)
<1>1. PICK z1 \in Nat, z2 \in Nat, z3 \in Nat, z4 \in Nat, z5 \in Nat :
        /\ z1 = Numbered(c) /\ z2 = PanTo(c) /\ z3 = Frames!AddressSize(c.dst)
        /\ z4 = PanFrom(c) /\ z5 = Frames!AddressSize(c.src)
  BY SizeTyped
<1>2. Len(f) \in Nat
  OBVIOUS
<1>3. PICK n1 \in Nat, n2 \in Nat, n3 \in Nat, n4 \in Nat, n5 \in Nat :
        n1 = 2 + z1 /\ n2 = n1 + z2 /\ n3 = n2 + z3 /\ n4 = n3 + z4 /\ n5 = n4 + z5
  OBVIOUS
<1>4. n5 = HeaderLength(c)
  BY <1>1, <1>3 DEF HeaderLength
<1>5. PICK bad1 \in BOOLEAN, bad2 \in BOOLEAN, bad3 \in BOOLEAN, bad4 \in BOOLEAN,
           bad5 \in BOOLEAN :
        /\ bad1 <=> Frames!Malformed(c, "sequence")
        /\ bad2 <=> Frames!Malformed(c, "destination pan")
        /\ bad3 <=> Frames!Malformed(c, "destination")
        /\ bad4 <=> Frames!Malformed(c, "source pan")
        /\ bad5 <=> Frames!Malformed(c, "source")
  BY Zenon
<1>6. ~bad1 /\ ~bad2 /\ (KnownLayout(c) <=> ~bad3 /\ ~bad4 /\ ~bad5)
  <2>1. /\ "sequence" # "destination" /\ "sequence" # "source pan" /\ "sequence" # "source"
        /\ "destination pan" # "destination" /\ "destination pan" # "source pan"
        /\ "destination pan" # "source" /\ "destination" # "source pan"
        /\ "destination" # "source" /\ "source pan" # "source"
    OBVIOUS
  <2> QED BY <1>5, <2>1, Zenon DEF Frames!Malformed, KnownLayout
<1>7. PICK ok1 \in BOOLEAN, ok2 \in BOOLEAN, ok3 \in BOOLEAN, ok4 \in BOOLEAN :
        /\ ok1 <=> (~bad1 /\ n1 <= Len(f))
        /\ ok2 <=> (ok1 /\ ~bad2 /\ n2 <= Len(f))
        /\ ok3 <=> (ok2 /\ ~bad3 /\ n3 <= Len(f))
        /\ ok4 <=> (ok3 /\ ~bad4 /\ n4 <= Len(f))
  <2>1. PICK ok1 \in BOOLEAN : ok1 <=> (~bad1 /\ n1 <= Len(f))
    OBVIOUS
  <2>2. PICK ok2 \in BOOLEAN : ok2 <=> (ok1 /\ ~bad2 /\ n2 <= Len(f))
    OBVIOUS
  <2>3. PICK ok3 \in BOOLEAN : ok3 <=> (ok2 /\ ~bad3 /\ n3 <= Len(f))
    OBVIOUS
  <2>4. PICK ok4 \in BOOLEAN : ok4 <=> (ok3 /\ ~bad4 /\ n4 <= Len(f))
    OBVIOUS
  <2> QED BY <2>1, <2>2, <2>3, <2>4
<1>8. good <=> (ok4 /\ ~bad5 /\ n5 <= Len(f))
  <2>1. n5 <= Len(f) => n1 <= Len(f) /\ n2 <= Len(f) /\ n3 <= Len(f) /\ n4 <= Len(f)
    BY <1>2, <1>3
  <2> QED BY <1>4, <1>6, <1>7, <2>1
<1> DEFINE s1 == Frames!ReadPart(f, begun, <<"sequence", z1>>)
           s2 == Frames!ReadPart(f, s1, <<"destination pan", z2>>)
           s3 == Frames!ReadPart(f, s2, <<"destination", z3>>)
           s4 == Frames!ReadPart(f, s3, <<"source pan", z4>>)
           s5 == Frames!ReadPart(f, s4, <<"source", z5>>)
<1>9. Frames!ReadHeader(f, begun) = s5
  <2>1. Frames!ToRead(c) = << <<"sequence", z1>>, <<"destination pan", z2>>,
                              <<"destination", z3>>, <<"source pan", z4>>, <<"source", z5>> >>
    BY <1>1, Zenon DEF Frames!ToRead, Numbered, PanTo, PanFrom
  <2>2. PICK p1, p2, p3, p4, p5 :
          /\ p1 = <<"sequence", z1>> /\ p2 = <<"destination pan", z2>>
          /\ p3 = <<"destination", z3>> /\ p4 = <<"source pan", z4>> /\ p5 = <<"source", z5>>
    OBVIOUS
  <2>3. PICK t : t = Frames!ToRead(f[1])
    OBVIOUS
  <2>4. t = <<p1, p2, p3, p4, p5>>
    BY <2>1, <2>2, <2>3, Zenon
  <2>5. t[1] = p1 /\ t[2] = p2 /\ t[3] = p3 /\ t[4] = p4 /\ t[5] = p5
    BY <2>4, FiveParts, Zenon
  <2> QED BY <2>2, <2>3, <2>5, Zenon DEF Frames!ReadHeader
<1> HIDE DEF s1, s2, s3, s4, s5
<1>10. HasRead(f, begun, 2, TRUE)
  <2>1. PICK r, e, o : e = << >> /\ r = "reading" /\ o = 2
    OBVIOUS
  <2>2. begun = [end |-> r, offset |-> o, said |-> e]
    BY <2>1, Zenon
  <2>3. /\ DOMAIN begun = {"end", "offset", "said"} /\ begun.end = r /\ begun.offset = o
        /\ begun.said = e
    BY <2>2
  <2>4. SubSeq(f, 3, 2) = << >> /\ 2 \in 2..2 /\ 2 <= Len(f)
    OBVIOUS
  <2> QED BY <2>1, <2>3, <2>4, Zenon DEF HasRead
<1>11. HasRead(f, s1, n1, ok1)
  <2>1. HasRead(f, s1, 2 + z1, ok1)
    <3>1. ok1 <=> (TRUE /\ ~Frames!Malformed(f[1], "sequence") /\ 2 + z1 <= Len(f))
      BY <1>3, <1>5, <1>7, Zenon
    <3>2. 2 \in Nat /\ TRUE \in BOOLEAN
      OBVIOUS
    <3> QED BY <1>10, <3>1, <3>2, PartIsRead, Zenon DEF s1
  <2> QED BY <1>3, <2>1, Zenon
<1>12. HasRead(f, s2, n2, ok2)
  <2>1. ok2 <=> (ok1 /\ ~Frames!Malformed(f[1], "destination pan") /\ n1 + z2 <= Len(f))
    BY <1>3, <1>5, <1>7, Zenon
  <2> QED BY <1>3, <1>11, <2>1, PartIsRead, Zenon DEF s2
<1>13. HasRead(f, s3, n3, ok3)
  <2>1. ok3 <=> (ok2 /\ ~Frames!Malformed(f[1], "destination") /\ n2 + z3 <= Len(f))
    BY <1>3, <1>5, <1>7, Zenon
  <2> QED BY <1>3, <1>12, <2>1, PartIsRead, Zenon DEF s3
<1>14. HasRead(f, s4, n4, ok4)
  <2>1. ok4 <=> (ok3 /\ ~Frames!Malformed(f[1], "source pan") /\ n3 + z4 <= Len(f))
    BY <1>3, <1>5, <1>7, Zenon
  <2> QED BY <1>3, <1>13, <2>1, PartIsRead, Zenon DEF s4
<1>15. HasRead(f, s5, n5, good)
  <2>1. PICK ok5 \in BOOLEAN : ok5 = good
    OBVIOUS
  <2>2. ok5 <=> (ok4 /\ ~Frames!Malformed(f[1], "source") /\ n4 + z5 <= Len(f))
    BY <1>3, <1>5, <1>8, <2>1, Zenon
  <2>3. HasRead(f, s5, n5, ok5)
    BY <1>3, <1>14, <2>2, PartIsRead, Zenon DEF s5
  <2> QED BY <2>1, <2>3, Zenon
<1> QED BY <1>4, <1>9, <1>15, Zenon

Words == {"fcf", "sequence", "pan", "to", "own pan", "from", "beacon", "counter"}
FrameBytes == Words \X Nat

LEMMA FunctionIsSeq ==
  ASSUME NEW S, NEW n \in Nat, NEW b \in [1..n -> S]
  PROVE  b \in Seq(S) /\ Len(b) = n
OBVIOUS

LEMMA BytesTyped ==
  ASSUME NEW w \in Words, NEW n \in Nat
  PROVE  /\ Frames!Bytes(w, n) \in Seq(FrameBytes) /\ Len(Frames!Bytes(w, n)) = n
         /\ \A i \in 1..n : Frames!Bytes(w, n)[i] = <<w, i>>
<1>1. \A i \in 1..n : <<w, i>> \in FrameBytes
  <2>1. 1..n \subseteq Nat
    OBVIOUS
  <2> QED BY <2>1, Zenon DEF FrameBytes
<1>2. PICK b : b = Frames!Bytes(w, n)
  OBVIOUS
<1>3. b = [i \in 1..n |-> <<w, i>>]
  BY <1>2, Zenon DEF Frames!Bytes
<1>4. DOMAIN b = 1..n /\ \A i \in 1..n : b[i] = <<w, i>>
  BY <1>3, Zenon
<1>5. b \in [1..n -> FrameBytes]
  BY <1>1, <1>3, Zenon
<1>6. b \in Seq(FrameBytes) /\ Len(b) = n
  BY <1>5, FunctionIsSeq, Zenon
<1> QED BY <1>2, <1>4, <1>6, Zenon

LEMMA TwoJoined ==
  ASSUME NEW U, NEW a \in Seq(U), NEW b \in Seq(U), Len(a) >= 1
  PROVE  /\ a \o b \in Seq(U) /\ Len(a \o b) = Len(a) + Len(b) /\ (a \o b)[1] = a[1]
         /\ Len(a \o b) >= 1
<1>1. Len(a) \in Nat /\ Len(b) \in Nat
  OBVIOUS
<1>2. a \o b \in Seq(U) /\ Len(a \o b) = Len(a) + Len(b) /\ (a \o b)[1] = a[1]
  OBVIOUS
<1> QED BY <1>1, <1>2

(* The frame control comes first, and the layout is as long as it says.    *)
LEMMA LayoutIs ==
  ASSUME NEW c
  PROVE  /\ Frames!Layout(c) \in Seq({c} \cup FrameBytes) /\ Frames!Layout(c)[1] = c
         /\ Len(Frames!Layout(c)) = HeaderLength(c)
<1> DEFINE U == {c} \cup FrameBytes
<1>1. FrameBytes \subseteq U
  OBVIOUS
<1>2. /\ "fcf" \in Words /\ "sequence" \in Words /\ "pan" \in Words /\ "to" \in Words
      /\ "own pan" \in Words /\ "from" \in Words
  BY Zenon DEF Words
<1>3. ASSUME NEW w \in Words, NEW n \in Nat
      PROVE  Frames!Bytes(w, n) \in Seq(U) /\ Len(Frames!Bytes(w, n)) = n
  <2>1. Frames!Bytes(w, n) \in Seq(FrameBytes) /\ Len(Frames!Bytes(w, n)) = n
    BY BytesTyped, Zenon
  <2> QED BY <1>1, <2>1, SeqMonotonic, Zenon
<1>4. c \in U
  OBVIOUS
<1> HIDE DEF U
<1>5. << >> \in Seq(U) /\ Len(<< >>) = 0
  OBVIOUS
<1>6. 1 \in Nat /\ 2 \in Nat
  OBVIOUS
<1>7. PICK h : h = <<c, <<"fcf", 1>> >>
  OBVIOUS
<1>8. h \in Seq(U) /\ h[1] = c /\ Len(h) = 2 /\ Len(h) >= 1
  <2>1. PICK u : u = <<"fcf", 1>>
    OBVIOUS
  <2>2. u \in U
    BY <1>1, <1>2, <1>6, <2>1 DEF FrameBytes
  <2>3. h = <<c, u>>
    BY <1>7, <2>1, Zenon
  <2> QED BY <1>4, <2>2, <2>3
<1>9. PICK number : number = IF c.suppressed THEN << >> ELSE Frames!Bytes("sequence", 1)
  OBVIOUS
<1>10. number \in Seq(U) /\ Len(number) = Numbered(c)
  BY <1>2, <1>3, <1>5, <1>6, <1>9, Zenon DEF Numbered
<1>11. PICK pan : pan = IF c.dst # "none" THEN Frames!Bytes("pan", 2) ELSE << >>
  OBVIOUS
<1>12. pan \in Seq(U) /\ Len(pan) = PanTo(c)
  BY <1>2, <1>3, <1>5, <1>6, <1>11, Zenon DEF PanTo
<1>13. PICK to : to = Frames!Bytes("to", Frames!AddressSize(c.dst))
  OBVIOUS
<1>14. to \in Seq(U) /\ Len(to) = Frames!AddressSize(c.dst)
  BY <1>2, <1>3, <1>13, SizeTyped, Zenon
<1>15. PICK own : own = IF c.src # "none" /\ ~c.compressed THEN Frames!Bytes("own pan", 2)
                                                           ELSE << >>
  OBVIOUS
<1>16. own \in Seq(U) /\ Len(own) = PanFrom(c)
  BY <1>2, <1>3, <1>5, <1>6, <1>15, Zenon DEF PanFrom
<1>17. PICK from : from = Frames!Bytes("from", Frames!AddressSize(c.src))
  OBVIOUS
<1>18. from \in Seq(U) /\ Len(from) = Frames!AddressSize(c.src)
  BY <1>2, <1>3, <1>17, SizeTyped, Zenon
<1>19. PICK a1, a2, a3, a4, all :
          /\ a1 = h \o number /\ a2 = a1 \o pan /\ a3 = a2 \o to /\ a4 = a3 \o own
          /\ all = a4 \o from
  OBVIOUS
<1>20. /\ all \in Seq(U) /\ all[1] = h[1]
       /\ Len(all) = Len(h) + Len(number) + Len(pan) + Len(to) + Len(own) + Len(from)
  <2>1. a1 \in Seq(U) /\ Len(a1) = Len(h) + Len(number) /\ a1[1] = h[1] /\ Len(a1) >= 1
    BY <1>8, <1>10, <1>19, TwoJoined, Zenon
  <2>2. a2 \in Seq(U) /\ Len(a2) = Len(a1) + Len(pan) /\ a2[1] = a1[1] /\ Len(a2) >= 1
    BY <1>12, <1>19, <2>1, TwoJoined, Zenon
  <2>3. a3 \in Seq(U) /\ Len(a3) = Len(a2) + Len(to) /\ a3[1] = a2[1] /\ Len(a3) >= 1
    BY <1>14, <1>19, <2>2, TwoJoined, Zenon
  <2>4. a4 \in Seq(U) /\ Len(a4) = Len(a3) + Len(own) /\ a4[1] = a3[1] /\ Len(a4) >= 1
    BY <1>16, <1>19, <2>3, TwoJoined, Zenon
  <2>5. all \in Seq(U) /\ Len(all) = Len(a4) + Len(from) /\ all[1] = a4[1]
    BY <1>18, <1>19, <2>4, TwoJoined, Zenon
  <2> QED BY <2>1, <2>2, <2>3, <2>4, <2>5, Zenon
<1>21. Frames!Layout(c) = all
  BY <1>7, <1>9, <1>11, <1>13, <1>15, <1>17, <1>19, Zenon DEF Frames!Layout
<1>22. Len(all) = HeaderLength(c)
  BY <1>8, <1>10, <1>12, <1>14, <1>16, <1>18, <1>20, Zenon DEF HeaderLength
<1> QED BY <1>8, <1>20, <1>21, <1>22, Zenon DEF U

(* A frame that is cut, or goes on, begins as its header does.             *)
CutFrom(U, u, n, f) ==
    /\ f \in Seq(U) /\ Len(f) = n
    /\ n >= 1 /\ Len(u) >= 1 => f[1] = u[1]
    /\ \A m \in 2..n : m <= Len(u) => SubSeq(f, 3, m) = SubSeq(u, 3, m)

LEMMA CutAgrees ==
  ASSUME NEW U, NEW u \in Seq(U), NEW v \in Seq(U), NEW n \in 0..Len(u) + Len(v),
         NEW f, f = SubSeq(u \o v, 1, n)
  PROVE  CutFrom(U, u, n, f)
<1>1. PICK w : w = u \o v
  OBVIOUS
<1>2. f = SubSeq(w, 1, n)
  BY <1>1, Zenon
<1>3. Len(u) \in Nat /\ Len(v) \in Nat
  OBVIOUS
<1>4. /\ w \in Seq(U) /\ Len(w) = Len(u) + Len(v) /\ \A i \in 1..Len(u) : w[i] = u[i]
  BY <1>1, <1>3
<1>5. n \in Nat /\ n <= Len(w)
  BY <1>3, <1>4
<1>6. f \in Seq(U) /\ Len(f) = n /\ \A i \in 1..n : f[i] = w[i]
  BY <1>2, <1>4, <1>5
<1>7. n >= 1 /\ Len(u) >= 1 => f[1] = u[1]
  BY <1>3, <1>4, <1>5, <1>6
<1>8. ASSUME NEW m \in 2..n, m <= Len(u)
      PROVE  SubSeq(f, 3, m) = SubSeq(u, 3, m)
  <2>1. PICK a, b : a = SubSeq(f, 3, m) /\ b = SubSeq(u, 3, m)
    OBVIOUS
  <2>2. m \in Nat /\ m >= 2 /\ m <= n
    BY <1>5
  <2>3. a \in Seq(U) /\ Len(a) = m - 2 /\ \A i \in 1..m - 2 : a[i] = f[i + 2]
    BY <1>6, <2>1, <2>2
  <2>4. b \in Seq(U) /\ Len(b) = m - 2 /\ \A i \in 1..m - 2 : b[i] = u[i + 2]
    BY <1>3, <1>8, <2>1, <2>2
  <2>5. \A i \in 1..m - 2 : f[i + 2] = u[i + 2]
    BY <1>3, <1>4, <1>6, <1>8, <2>2
  <2>6. a = b
    BY <2>2, <2>3, <2>4, <2>5, SeqEqual
  <2> QED BY <2>1, <2>6, Zenon
<1> QED BY <1>6, <1>7, <1>8, Zenon DEF CutFrom

(* What is printed of a frame that is long enough and of a known version.  *)
LEMMA FrameIsPrinted ==
  ASSUME NEW S, NEW f \in Seq(S), Len(f) >= 2, NEW c, c = f[1],
         c.kind \in {"data", "opaque", "command"}, ~c.newer, NEW p, p = Frames!PrintFrame(f)
  PROVE  /\ p.said = SubSeq(f, 3, p.offset)
         /\ p.offset \in 2..HeaderLength(c) /\ p.offset <= Len(f)
         /\ p.end = "malformed" <=> ~(KnownLayout(c) /\ HeaderLength(c) <= Len(f))
         /\ p.end = "payload" => c.kind = "data" /\ p.offset = HeaderLength(c)
         /\ c.kind = "data" /\ KnownLayout(c) /\ HeaderLength(c) <= Len(f) => p.end = "payload"
<1> DEFINE begun == [end |-> "reading", offset |-> 2, said |-> << >>]
           s == Frames!ReadHeader(f, begun)
<1>1. PICK good \in BOOLEAN : good <=> (KnownLayout(c) /\ HeaderLength(c) <= Len(f))
  OBVIOUS
<1>2. HasRead(f, s, HeaderLength(c), good)
  BY <1>1, HeaderIsSaid, Zenon
<1>3. p = IF s.end = "malformed" THEN s
          ELSE [s EXCEPT !.end = CASE f[1].kind = "data" -> "payload"
                                   [] f[1].kind = "opaque" -> "not supported"
                                   [] f[1].kind = "command" -> "header"]
  <2>1. ~(Len(f) < 2)
    OBVIOUS
  <2> QED BY <2>1, Zenon DEF Frames!PrintFrame
<1> HIDE DEF s
<1>4. /\ DOMAIN s = {"end", "offset", "said"} /\ s.offset \in 2..HeaderLength(c)
      /\ s.offset <= Len(f) /\ s.said = SubSeq(f, 3, s.offset)
      /\ good => s.end = "reading" /\ s.offset = HeaderLength(c)
      /\ ~good => s.end = "malformed"
  BY <1>2, Zenon DEF HasRead
<1>5. "reading" # "malformed" /\ "payload" # "malformed" /\ "not supported" # "malformed"
      /\ "header" # "malformed" /\ "not supported" # "payload" /\ "header" # "payload"
  OBVIOUS
<1>6. CASE ~good
  <2>1. p = s
    BY <1>3, <1>4, <1>6, Zenon
  <2> QED BY <1>1, <1>4, <1>5, <1>6, <2>1, Zenon
<1>7. CASE good
  <2>1. PICK e : e = CASE c.kind = "data" -> "payload" [] c.kind = "opaque" -> "not supported"
                       [] c.kind = "command" -> "header"
    OBVIOUS
  <2>2. p = [s EXCEPT !.end = e]
    BY <1>3, <1>4, <1>5, <1>7, <2>1, Zenon
  <2>3. p.end = e /\ p.offset = s.offset /\ p.said = s.said
    BY <1>4, <2>2
  <2>4. e # "malformed" /\ (e = "payload" <=> c.kind = "data")
    <3>1. "data" # "opaque" /\ "data" # "command" /\ "opaque" # "command"
      OBVIOUS
    <3>2. CASE c.kind = "data"
      BY <1>5, <2>1, <3>1, <3>2, Zenon
    <3>3. CASE c.kind = "opaque"
      BY <1>5, <2>1, <3>1, <3>3, Zenon
    <3>4. CASE c.kind = "command"
      BY <1>5, <2>1, <3>1, <3>4, Zenon
    <3> QED BY <3>2, <3>3, <3>4, Zenon
  <2> QED BY <1>1, <1>4, <1>5, <1>7, <2>3, <2>4, Zenon
<1> QED BY <1>6, <1>7

(* A frame of any neighbour, wherever it was cut.                          *)
LEMMA HeaderTold ==
  ASSUME Frames!InitNeighbour
  PROVE  Frames!HeaderIsRead
<1>1. PICK c \in Frames!Control : \E n \in 0..Len(Frames!Layout(c)) + 2 :
         small = [control |-> c,
                  frame |-> SubSeq(Frames!Layout(c) \o Frames!Bytes("beacon", 2), 1, n)]
  BY Zenon DEF Frames!InitNeighbour
<1>2. PICK u : u = Frames!Layout(c)
  OBVIOUS
<1> DEFINE U == {c} \cup FrameBytes
<1>3. u \in Seq(U) /\ u[1] = c /\ Len(u) = HeaderLength(c)
  BY <1>2, LayoutIs, Zenon
<1>4. PICK v : v = Frames!Bytes("beacon", 2)
  OBVIOUS
<1>5. v \in Seq(U) /\ Len(v) = 2
  <2>1. FrameBytes \subseteq U
    OBVIOUS
  <2>2. "beacon" \in Words /\ 2 \in Nat
    BY DEF Words
  <2>3. v \in Seq(FrameBytes) /\ Len(v) = 2
    BY <1>4, <2>2, BytesTyped, Zenon
  <2> QED BY <2>1, <2>3, SeqMonotonic, Zenon
<1> HIDE DEF U
<1>6. PICK n \in 0..Len(u) + 2 : small = [control |-> c, frame |-> SubSeq(u \o v, 1, n)]
  BY <1>1, <1>2, <1>4, Zenon
<1>7. PICK f : f = SubSeq(u \o v, 1, n)
  OBVIOUS
<1>8. small.control = c /\ small.frame = f
  BY <1>6, <1>7
<1>9. HeaderLength(c) >= 2 /\ HeaderLength(c) \in Nat
  BY SizeTyped DEF HeaderLength
<1>10. /\ f \in Seq(U) /\ Len(f) = n
       /\ n >= 1 => f[1] = c
       /\ \A m \in 2..n : m <= Len(u) => SubSeq(f, 3, m) = SubSeq(u, 3, m)
  <2>1. n \in 0..Len(u) + Len(v)
    BY <1>5, <1>6, Zenon
  <2>2. Len(u) >= 1
    BY <1>3, <1>9
  <2>4. u \in Seq(U) /\ v \in Seq(U)
    BY <1>3, <1>5, Zenon
  <2>3. CutFrom(U, u, n, f)
    BY <1>7, <2>1, <2>4, CutAgrees, Zenon
  <2> QED BY <1>3, <2>2, <2>3, Zenon DEF CutFrom
<1>11. n \in Nat
  BY <1>3, <1>6, <1>9
<1>12. PICK p : p = Frames!PrintFrame(f)
  OBVIOUS
<1>13. SubSeq(u, 3, 2) = << >>
  BY <1>3
<1>14. KnownLayout(c) <=> /\ "reserved" \notin {c.dst, c.src}
                          /\ ~(c.compressed /\ c.dst = "none" /\ c.src # "none")
  BY Zenon DEF KnownLayout
<1>15. /\ p.said = SubSeq(u, 3, p.offset)
       /\ p.end = "malformed" <=> Len(f) < 2 \/ (~c.newer /\ ~(Len(f) >= Len(u) /\ KnownLayout(c)))
       /\ p.end = "payload" => p.offset = Len(u)
  <2>1. ASSUME NEW e, p = [end |-> e, offset |-> 2, said |-> << >>]
        PROVE  p.end = e /\ p.said = SubSeq(u, 3, p.offset)
    <3>1. PICK k : k = << >>
      OBVIOUS
    <3>2. p.end = e /\ p.offset = 2 /\ p.said = k
      BY <2>1, <3>1
    <3> QED BY <1>13, <3>1, <3>2, Zenon
  <2>2. "malformed" # "payload" /\ "not supported" # "payload" /\ "not supported" # "malformed"
    OBVIOUS
  <2>3. CASE Len(f) < 2
    <3>1. p = [end |-> "malformed", offset |-> 2, said |-> << >>]
      BY <1>12, <2>3, Zenon DEF Frames!PrintFrame
    <3> QED BY <2>1, <2>2, <2>3, <3>1, Zenon
  <2>4. CASE ~(Len(f) < 2) /\ c.newer
    <3>1. f[1] = c
      BY <1>10, <1>11, <2>4
    <3>2. p = [end |-> "not supported", offset |-> 2, said |-> << >>]
      BY <1>12, <2>4, <3>1, Zenon DEF Frames!PrintFrame
    <3> QED BY <2>1, <2>2, <2>4, <3>2, Zenon
  <2>5. CASE ~(Len(f) < 2) /\ ~c.newer
    <3>1. f[1] = c /\ Len(f) >= 2
      BY <1>10, <1>11, <2>5
    <3>2. c.kind \in {"data", "opaque", "command"}
      BY DEF Frames!Control
    <3>3. /\ p.said = SubSeq(f, 3, p.offset)
          /\ p.offset \in 2..HeaderLength(c) /\ p.offset <= Len(f)
          /\ p.end = "malformed" <=> ~(KnownLayout(c) /\ HeaderLength(c) <= Len(f))
          /\ p.end = "payload" => p.offset = HeaderLength(c)
      BY <1>10, <1>12, <2>5, <3>1, <3>2, FrameIsPrinted, Zenon
    <3>4. p.offset \in 2..n /\ p.offset <= Len(u)
      BY <1>3, <1>9, <1>10, <1>11, <3>3
    <3>5. SubSeq(f, 3, p.offset) = SubSeq(u, 3, p.offset)
      BY <1>10, <3>4, Zenon
    <3>6. HeaderLength(c) <= Len(f) <=> Len(f) >= Len(u)
      BY <1>3, <1>9, <1>10, <1>11
    <3> QED BY <1>3, <2>5, <3>3, <3>5, <3>6, Zenon
  <2> QED BY <2>3, <2>4, <2>5
<1>16. p.end = "payload" => Frames!Payload(f) = SubSeq(f, Len(u) + 1, Len(f))
  BY <1>12, <1>15, Zenon DEF Frames!Payload
<1> QED BY <1>2, <1>8, <1>12, <1>14, <1>15, <1>16, Zenon DEF Frames!HeaderIsRead

-----------------------------------------------------------------------------
(***************************************************************************)
(* The sender's frame: eleven bytes, of which two change.                  *)
(***************************************************************************)
FrameFields == {"at", "frame", "sequence", "counter", "no", "again", "air", "got", "last"}
FrameItems == {Frames!FCF} \cup FrameBytes

Tag(n) == <<"sequence", n>>
Tally(n) == <<"counter", n>>
FrameOf(a, b) == [Frames!Initialized EXCEPT ![3] = Tag(a), ![11] = Tally(b)]

Joins(U, a, n, b, m, g) ==
    /\ g \in Seq(U) /\ Len(g) = n + m
    /\ \A i \in 1..n : g[i] = a[i]
    /\ \A i \in n + 1..n + m : g[i] = b[i - n]

LEMMA JoinsIs ==
  ASSUME NEW U, NEW a \in Seq(U), NEW b \in Seq(U), NEW n \in Nat, NEW m \in Nat,
         Len(a) = n, Len(b) = m, NEW g, g = a \o b
  PROVE  Joins(U, a, n, b, m, g)
<1>1. g \in Seq(U) /\ Len(g) = n + m
  BY ConcatProperties, Zenon
<1>2. \A i \in 1..n + m : g[i] = IF i <= n THEN a[i] ELSE b[i - n]
  BY ConcatProperties
<1>3. \A i \in 1..n : i \in 1..n + m /\ i <= n
  OBVIOUS
<1>4. \A i \in n + 1..n + m : i \in 1..n + m /\ ~(i <= n)
  OBVIOUS
<1> QED BY <1>1, <1>2, <1>3, <1>4, Zenon DEF Joins

Placed(U, f, a, p, q, r, b, d) ==
    /\ f \in Seq(U) /\ Len(f) = 11
    /\ f[1] = a[1] /\ f[2] = a[2] /\ f[3] = a[3] /\ f[4] = p[1] /\ f[5] = p[2]
    /\ f[6] = q[1] /\ f[7] = q[2] /\ f[8] = r[1] /\ f[9] = r[2] /\ f[10] = b[1]
    /\ f[11] = d[1]

LEMMA PiecesJoined ==
  ASSUME NEW U, NEW a, NEW p, NEW q, NEW r, NEW b, NEW d, NEW f1, NEW f2, NEW f3, NEW f4,
         NEW f, Joins(U, a, 3, p, 2, f1), Joins(U, f1, 5, q, 2, f2), Joins(U, f2, 7, r, 2, f3),
         Joins(U, f3, 9, b, 1, f4), Joins(U, f4, 10, d, 1, f)
  PROVE  Placed(U, f, a, p, q, r, b, d)
<1>1. f1[1] = a[1] /\ f1[2] = a[2] /\ f1[3] = a[3] /\ f1[4] = p[1] /\ f1[5] = p[2]
  BY DEF Joins
<1>2. (\A i \in 1..5 : f2[i] = f1[i]) /\ f2[6] = q[1] /\ f2[7] = q[2]
  BY DEF Joins
<1>3. (\A i \in 1..7 : f3[i] = f2[i]) /\ f3[8] = r[1] /\ f3[9] = r[2]
  BY DEF Joins
<1>4. (\A i \in 1..9 : f4[i] = f3[i]) /\ f4[10] = b[1]
  BY DEF Joins
<1>5. (\A i \in 1..10 : f[i] = f4[i]) /\ f[11] = d[1] /\ Len(f) = 11 /\ f \in Seq(U)
  BY DEF Joins
<1>6. \A i \in 1..5 : f[i] = f1[i]
  BY <1>2, <1>3, <1>4, <1>5
<1>7. f[6] = f2[6] /\ f[7] = f2[7]
  BY <1>3, <1>4, <1>5
<1>8. f[8] = f3[8] /\ f[9] = f3[9] /\ f[10] = f4[10]
  BY <1>4, <1>5
<1>9. f[1] = f1[1] /\ f[2] = f1[2] /\ f[3] = f1[3] /\ f[4] = f1[4] /\ f[5] = f1[5]
  BY <1>6
<1> QED BY <1>1, <1>2, <1>3, <1>4, <1>5, <1>7, <1>8, <1>9, Zenon DEF Placed

LEMMA PiecesOfFrame ==
  ASSUME NEW U, NEW a \in Seq(U), Len(a) = 3, NEW p \in Seq(U), Len(p) = 2,
         NEW q \in Seq(U), Len(q) = 2, NEW r \in Seq(U), Len(r) = 2,
         NEW b \in Seq(U), Len(b) = 1, NEW d \in Seq(U), Len(d) = 1,
         NEW f, f = a \o p \o q \o r \o b \o d
  PROVE  Placed(U, f, a, p, q, r, b, d)
<1>1. PICK f1, f2, f3, f4 : f1 = a \o p /\ f2 = f1 \o q /\ f3 = f2 \o r /\ f4 = f3 \o b
  OBVIOUS
<1>2. Joins(U, a, 3, p, 2, f1)
  BY <1>1, JoinsIs
<1>3. f1 \in Seq(U) /\ Len(f1) = 5
  BY <1>2 DEF Joins
<1>4. Joins(U, f1, 5, q, 2, f2)
  BY <1>1, <1>3, JoinsIs
<1>5. f2 \in Seq(U) /\ Len(f2) = 7
  BY <1>4 DEF Joins
<1>6. Joins(U, f2, 7, r, 2, f3)
  BY <1>1, <1>5, JoinsIs
<1>7. f3 \in Seq(U) /\ Len(f3) = 9
  BY <1>6 DEF Joins
<1>8. Joins(U, f3, 9, b, 1, f4)
  BY <1>1, <1>7, JoinsIs
<1>9. f4 \in Seq(U) /\ Len(f4) = 10
  BY <1>8 DEF Joins
<1>10. Joins(U, f4, 10, d, 1, f)
  BY <1>1, <1>9, JoinsIs
<1> QED BY <1>2, <1>4, <1>6, <1>8, <1>10, PiecesJoined, Zenon

ThirdOn(U, f, m, s) ==
    s \in Seq(U) /\ Len(s) = m - 2 /\ \A i \in 1..m - 2 : s[i] = f[i + 2]

LEMMA FromThird ==
  ASSUME NEW U, NEW f \in Seq(U), NEW m \in Nat, 2 <= m, m <= Len(f),
         NEW s, s = SubSeq(f, 3, m)
  PROVE  ThirdOn(U, f, m, s)
BY DEF ThirdOn

HeadedBy(U, f, e, p, q, r) == SubSeq(f, 3, 9) = <<e>> \o p \o q \o r

LEMMA PiecesOfHeader ==
  ASSUME NEW U, NEW e \in U, NEW p \in Seq(U), Len(p) = 2,
         NEW q \in Seq(U), Len(q) = 2, NEW r \in Seq(U), Len(r) = 2,
         NEW f \in Seq(U), Len(f) = 11, f[3] = e, f[4] = p[1], f[5] = p[2],
         f[6] = q[1], f[7] = q[2], f[8] = r[1], f[9] = r[2]
  PROVE  HeadedBy(U, f, e, p, q, r)
<1>1. PICK o, g1, g2, g : o = <<e>> /\ g1 = o \o p /\ g2 = g1 \o q /\ g = g2 \o r
  OBVIOUS
<1>2. o \in Seq(U) /\ Len(o) = 1 /\ o[1] = e
  BY <1>1
<1>3. Joins(U, o, 1, p, 2, g1)
  BY <1>1, <1>2, JoinsIs
<1>4. g1 \in Seq(U) /\ Len(g1) = 3 /\ g1[1] = e /\ g1[2] = p[1] /\ g1[3] = p[2]
  BY <1>2, <1>3 DEF Joins
<1>5. Joins(U, g1, 3, q, 2, g2)
  BY <1>1, <1>4, JoinsIs
<1>6. /\ g2 \in Seq(U) /\ Len(g2) = 5 /\ (\A i \in 1..3 : g2[i] = g1[i])
      /\ g2[4] = q[1] /\ g2[5] = q[2]
  BY <1>5 DEF Joins
<1>7. Joins(U, g2, 5, r, 2, g)
  BY <1>1, <1>6, JoinsIs
<1>8. /\ g \in Seq(U) /\ Len(g) = 7 /\ (\A i \in 1..5 : g[i] = g2[i])
      /\ g[6] = r[1] /\ g[7] = r[2]
  BY <1>7 DEF Joins
<1>9. PICK s : s = SubSeq(f, 3, 9)
  OBVIOUS
<1>10. s \in Seq(U) /\ Len(s) = 7 /\ \A i \in 1..7 : s[i] = f[i + 2]
  <2>1. PICK m \in Nat : m = 9
    OBVIOUS
  <2>2. 2 <= m /\ m <= Len(f) /\ m - 2 = 7
    BY <2>1
  <2>3. s = SubSeq(f, 3, m)
    BY <1>9, <2>1, Zenon
  <2>4. ThirdOn(U, f, m, s)
    BY <2>2, <2>3, FromThird
  <2> QED BY <2>2, <2>4, Zenon DEF ThirdOn
<1>11. /\ s[1] = f[3] /\ s[2] = f[4] /\ s[3] = f[5] /\ s[4] = f[6] /\ s[5] = f[7]
       /\ s[6] = f[8] /\ s[7] = f[9]
  BY <1>10
<1>12. /\ g[1] = g1[1] /\ g[2] = g1[2] /\ g[3] = g1[3] /\ g[4] = q[1] /\ g[5] = q[2]
  BY <1>6, <1>8
<1>13. /\ s[1] = g[1] /\ s[2] = g[2] /\ s[3] = g[3] /\ s[4] = g[4] /\ s[5] = g[5]
       /\ s[6] = g[6] /\ s[7] = g[7]
  BY <1>4, <1>8, <1>11, <1>12, Zenon
<1>14. \A i \in 1..7 : s[i] = g[i]
  BY <1>13
<1>15. s = g
  <2>1. s \in Seq(U) /\ g \in Seq(U) /\ Len(s) = Len(g) /\ Len(s) = 7
    BY <1>8, <1>10, Zenon
  <2>2. \A i \in 1..Len(s) : s[i] = g[i]
    BY <1>14, <2>1, Zenon
  <2> QED BY <2>1, <2>2, SeqEqual, Zenon
<1> QED BY <1>1, <1>9, <1>15, Zenon DEF HeadedBy

LEMMA ControlOfSender ==
  /\ Frames!FCF.kind = "data" /\ ~Frames!FCF.newer /\ KnownLayout(Frames!FCF)
  /\ HeaderLength(Frames!FCF) = 9
<1>1. PICK data, short, c : data = "data" /\ short = "short" /\ c = Frames!FCF
  OBVIOUS
<1>2. c = [kind |-> data, newer |-> FALSE, compressed |-> TRUE, suppressed |-> FALSE,
           dst |-> short, src |-> short]
  BY <1>1, Zenon DEF Frames!FCF
<1>3. /\ c.kind = data /\ c.newer = FALSE /\ c.compressed = TRUE /\ c.suppressed = FALSE
      /\ c.dst = short /\ c.src = short
  BY <1>2
<1>4. "short" # "none" /\ "short" # "reserved" /\ "short" # "extended"
  OBVIOUS
<1>5. Frames!AddressSize(short) = 2
  BY <1>1, <1>4, Zenon DEF Frames!AddressSize
<1>6. Numbered(c) = 1 /\ PanTo(c) = 2 /\ PanFrom(c) = 0
  BY <1>1, <1>3, <1>4, Zenon DEF Numbered, PanTo, PanFrom
<1>7. HeaderLength(c) = 2 + 1 + 2 + 2 + 0 + 2
  BY <1>3, <1>5, <1>6, Zenon DEF HeaderLength
<1>8. KnownLayout(c)
  BY <1>1, <1>3, <1>4, Zenon DEF KnownLayout
<1>9. HeaderLength(c) = 9
  BY <1>7
<1> QED BY <1>1, <1>3, <1>8, <1>9, Zenon

LEMMA WordsOfFrame ==
  /\ "fcf" \in Words /\ "sequence" \in Words /\ "pan" \in Words /\ "to" \in Words
  /\ "from" \in Words /\ "beacon" \in Words /\ "counter" \in Words
BY Zenon DEF Words

LEMMA ItemsOfFrame ==
  ASSUME NEW n \in Nat
  PROVE  /\ Tag(n) \in FrameItems /\ Tally(n) \in FrameItems
         /\ Tag(n)[1] = "sequence" /\ Tally(n)[1] = "counter"
         /\ \A s : [Tag(n) EXCEPT ![2] = s] = Tag(s) /\ [Tally(n) EXCEPT ![2] = s] = Tally(s)
<1>1. PICK w, v : w = "sequence" /\ v = "counter"
  OBVIOUS
<1>2. w \in Words /\ v \in Words
  BY <1>1, WordsOfFrame, Zenon
<1>3. <<w, n>> \in FrameBytes /\ <<v, n>> \in FrameBytes
  BY <1>2 DEF FrameBytes
<1>4. \A s : [<<w, n>> EXCEPT ![2] = s] = <<w, s>> /\ [<<v, n>> EXCEPT ![2] = s] = <<v, s>>
  OBVIOUS
<1>5. <<w, n>>[1] = w /\ <<v, n>>[1] = v
  BY PairParts, Zenon
<1> QED BY <1>1, <1>3, <1>4, <1>5, Zenon DEF Tag, Tally, FrameItems

LEMMA ThirdOf == ASSUME NEW U, NEW a \in U, NEW b \in U, NEW c \in U, NEW t, t = <<a, b, c>>
                 PROVE  t \in Seq(U) /\ Len(t) = 3 /\ t[1] = a /\ t[2] = b /\ t[3] = c
OBVIOUS

LEMMA InitializedIs ==
  \E h, last :
     /\ Placed(FrameItems, Frames!Initialized, h, Frames!Bytes("pan", 2), Frames!Bytes("to", 2),
               Frames!Bytes("from", 2), Frames!Bytes("beacon", 1), last)
     /\ h[1] = Frames!FCF /\ h[3] = Tag(0) /\ last[1] = Tally(0)
<1>1. FrameBytes \subseteq FrameItems /\ Frames!FCF \in FrameItems
  BY DEF FrameItems
<1>2. 0 \in Nat /\ 1 \in Nat /\ 2 \in Nat
  OBVIOUS
<1>3. ASSUME NEW w \in Words, NEW n \in Nat
      PROVE  Frames!Bytes(w, n) \in Seq(FrameItems) /\ Len(Frames!Bytes(w, n)) = n
  <2>1. Frames!Bytes(w, n) \in Seq(FrameBytes) /\ Len(Frames!Bytes(w, n)) = n
    BY BytesTyped, Zenon
  <2> QED BY <1>1, <2>1, SeqMonotonic, Zenon
<1>4. PICK p, q, r, b : /\ p = Frames!Bytes("pan", 2) /\ q = Frames!Bytes("to", 2)
                        /\ r = Frames!Bytes("from", 2) /\ b = Frames!Bytes("beacon", 1)
  OBVIOUS
<1>5. /\ p \in Seq(FrameItems) /\ Len(p) = 2 /\ q \in Seq(FrameItems) /\ Len(q) = 2
      /\ r \in Seq(FrameItems) /\ Len(r) = 2 /\ b \in Seq(FrameItems) /\ Len(b) = 1
  BY <1>2, <1>3, <1>4, WordsOfFrame, Zenon
<1>6. PICK fcf, again, tag, tally : /\ fcf = Frames!FCF /\ again = <<"fcf", 1>> /\ tag = Tag(0)
                                    /\ tally = Tally(0)
  OBVIOUS
<1>7. /\ fcf \in FrameItems /\ again \in FrameItems /\ tag \in FrameItems
      /\ tally \in FrameItems
  <2>1. PICK w : w = "fcf"
    OBVIOUS
  <2>2. w \in Words /\ again = <<w, 1>>
    BY <1>6, <2>1, WordsOfFrame, Zenon
  <2>3. again \in FrameBytes
    BY <2>2 DEF FrameBytes
  <2> QED BY <1>1, <1>2, <1>6, <2>3, ItemsOfFrame, Zenon
<1>8. PICK h : h = <<fcf, again, tag>>
  OBVIOUS
<1>9. h \in Seq(FrameItems) /\ Len(h) = 3 /\ h[1] = fcf /\ h[3] = tag
  BY <1>7, <1>8, ThirdOf, Zenon
<1>10. PICK last : last = <<tally>>
  OBVIOUS
<1>11. last \in Seq(FrameItems) /\ Len(last) = 1 /\ last[1] = tally
  BY <1>7, <1>10
<1>12. PICK f : f = h \o p \o q \o r \o b \o last
  OBVIOUS
<1>13. Placed(FrameItems, f, h, p, q, r, b, last)
  BY <1>5, <1>9, <1>11, <1>12, PiecesOfFrame, Zenon
<1>14. f = Frames!Initialized
  BY <1>4, <1>6, <1>8, <1>10, <1>12, Zenon DEF Frames!Initialized, Tag, Tally
<1> QED BY <1>4, <1>6, <1>9, <1>11, <1>13, <1>14, Zenon

LEMMA ExceptTwo ==
  ASSUME NEW U, NEW i \in Seq(U), Len(i) = 11, NEW x \in U, NEW y \in U,
         NEW f, f = [i EXCEPT ![3] = x, ![11] = y]
  PROVE  /\ f \in Seq(U) /\ Len(f) = 11 /\ f[3] = x /\ f[11] = y
         /\ \A k \in 1..11 : k # 3 /\ k # 11 => f[k] = i[k]
<1>1. DOMAIN i = 1..11 /\ \A k \in 1..11 : i[k] \in U
  <2>1. i \in [1..Len(i) -> U]
    BY LenProperties
  <2> QED BY <2>1
<1>2. DOMAIN f = 1..11 /\ f[3] = x /\ f[11] = y
  BY <1>1
<1>3. \A k \in 1..11 : k # 3 /\ k # 11 => f[k] = i[k]
  BY <1>1
<1>4. f \in [1..11 -> U]
  BY <1>1
<1>5. PICK n \in Nat : n = 11
  OBVIOUS
<1>6. f \in Seq(U) /\ Len(f) = 11
  <2>1. f \in [1..n -> U]
    BY <1>4, <1>5, Zenon
  <2>2. f \in Seq(U) /\ Len(f) = n
    BY <2>1, FunctionIsSeq
  <2> QED BY <1>5, <2>2, Zenon
<1> QED BY <1>2, <1>3, <1>6, Zenon

LEMMA PairOf == ASSUME NEW U, NEW t \in Seq(U), Len(t) = 2, NEW x, NEW y, t[1] = x, t[2] = y
                PROVE  t = <<x, y>>
OBVIOUS

LEMMA LastTwo ==
  ASSUME NEW U, NEW n \in Nat, NEW f \in Seq(U), Len(f) = n + 2, NEW t,
         t = SubSeq(f, n + 1, Len(f))
  PROVE  Len(t) = 2 /\ t = <<f[n + 1], f[n + 2]>>
<1>1. PICK far : far = n + 2 /\ far \in Int /\ far - (n + 1) + 1 = 2 /\ n + 1 <= far
  OBVIOUS
<1>2. \A i \in n + 1..far : f[i] \in U
  <2>1. \A i \in n + 1..far : i \in 1..Len(f)
    BY <1>1
  <2> QED BY <2>1, ElementOfSeq
<1>3. t = SubSeq(f, n + 1, far)
  BY <1>1, Zenon
<1>4. n + 1 \in Int
  OBVIOUS
<1>5. t \in Seq(U) /\ Len(t) = 2 /\ \A i \in 1..2 : t[i] = f[(n + 1) + i - 1]
  BY <1>1, <1>2, <1>3, <1>4, SubSeqProperties
<1>6. 1 \in 1..2 /\ 2 \in 1..2 /\ (n + 1) + 1 - 1 = n + 1 /\ (n + 1) + 2 - 1 = n + 2
  OBVIOUS
<1>7. t[1] = f[n + 1] /\ t[2] = f[n + 2]
  BY <1>5, <1>6, Zenon
<1>8. PICK x, y : x = f[n + 1] /\ y = f[n + 2]
  OBVIOUS
<1>9. t = <<x, y>>
  <2>1. t \in Seq(U) /\ Len(t) = 2 /\ t[1] = x /\ t[2] = y
    BY <1>5, <1>7, <1>8, Zenon
  <2> QED BY <2>1, PairOf, Zenon
<1> QED BY <1>5, <1>8, <1>9, Zenon

LEMMA ExceptAgain ==
  ASSUME NEW i, DOMAIN i = 1..11, NEW x, NEW y, NEW u, NEW v,
         NEW f, f = [i EXCEPT ![3] = x, ![11] = y]
  PROVE  [f EXCEPT ![3] = u, ![11] = v] = [i EXCEPT ![3] = u, ![11] = v]
OBVIOUS

LEMMA ExceptParts ==
  ASSUME NEW f, DOMAIN f = 1..11, NEW s, NEW c
  PROVE  [f EXCEPT ![3][2] = s, ![11][2] = c]
            = [f EXCEPT ![3] = [f[3] EXCEPT ![2] = s], ![11] = [f[11] EXCEPT ![2] = c]]
OBVIOUS

(* What the sender's frame is of, and that it fills in another.            *)
FrameIs(f, a, b) ==
    /\ f \in Seq(FrameItems) /\ Len(f) = 11 /\ f[1] = Frames!FCF
    /\ f[3] = Tag(a) /\ f[11] = Tally(b) /\ f[10] = Frames!Bytes("beacon", 1)[1]
    /\ f[4] = Frames!Bytes("pan", 2)[1] /\ f[5] = Frames!Bytes("pan", 2)[2]
    /\ f[6] = Frames!Bytes("to", 2)[1] /\ f[7] = Frames!Bytes("to", 2)[2]
    /\ f[8] = Frames!Bytes("from", 2)[1] /\ f[9] = Frames!Bytes("from", 2)[2]

LEMMA FrameOfIs ==
  ASSUME NEW a \in Nat, NEW b \in Nat
  PROVE  FrameIs(FrameOf(a, b), a, b)
<1>1. PICK i : i = Frames!Initialized
  OBVIOUS
<1>2. PICK h, last, p, q, r, c :
        /\ Placed(FrameItems, i, h, p, q, r, c, last)
        /\ h[1] = Frames!FCF /\ p = Frames!Bytes("pan", 2) /\ q = Frames!Bytes("to", 2)
        /\ r = Frames!Bytes("from", 2) /\ c = Frames!Bytes("beacon", 1)
  BY <1>1, InitializedIs, Zenon
<1>3. /\ i \in Seq(FrameItems) /\ Len(i) = 11
      /\ i[1] = h[1] /\ i[4] = p[1] /\ i[5] = p[2]
      /\ i[6] = q[1] /\ i[7] = q[2] /\ i[8] = r[1] /\ i[9] = r[2] /\ i[10] = c[1]
  BY <1>2, Zenon DEF Placed
<1>4. PICK x, y : x = Tag(a) /\ y = Tally(b)
  OBVIOUS
<1>5. x \in FrameItems /\ y \in FrameItems
  BY <1>4, ItemsOfFrame, Zenon
<1>6. PICK f : f = [i EXCEPT ![3] = x, ![11] = y]
  OBVIOUS
<1>7. f = FrameOf(a, b)
  BY <1>1, <1>4, <1>6, Zenon DEF FrameOf
<1>8. /\ f \in Seq(FrameItems) /\ Len(f) = 11 /\ f[3] = x /\ f[11] = y
      /\ \A k \in 1..11 : k # 3 /\ k # 11 => f[k] = i[k]
  <2>1. PICK U : U = FrameItems
    OBVIOUS
  <2>2. i \in Seq(U) /\ Len(i) = 11 /\ x \in U /\ y \in U
    BY <1>3, <1>5, <2>1, Zenon
  <2>3. f \in Seq(U) /\ Len(f) = 11 /\ f[3] = x /\ f[11] = y
        /\ \A k \in 1..11 : k # 3 /\ k # 11 => f[k] = i[k]
    BY <1>6, <2>2, ExceptTwo
  <2> QED BY <2>1, <2>3, Zenon
<1>9. /\ f[1] = i[1] /\ f[4] = i[4] /\ f[5] = i[5] /\ f[6] = i[6] /\ f[7] = i[7]
      /\ f[8] = i[8] /\ f[9] = i[9] /\ f[10] = i[10]
  BY <1>8
<1> QED BY <1>2, <1>3, <1>4, <1>7, <1>8, <1>9, Zenon DEF FrameIs

LEMMA FrameFilled ==
  ASSUME NEW a \in Nat, NEW b \in Nat, NEW s, NEW c
  PROVE  [FrameOf(a, b) EXCEPT ![3][2] = s, ![11][2] = c] = FrameOf(s, c)
<1>1. PICK f, i, x, y, u, v : /\ f = FrameOf(a, b) /\ i = Frames!Initialized
                              /\ x = Tag(a) /\ y = Tally(b) /\ u = Tag(s) /\ v = Tally(c)
  OBVIOUS
<1>2. f \in Seq(FrameItems) /\ Len(f) = 11 /\ f[3] = x /\ f[11] = y
  BY <1>1, FrameOfIs, Zenon DEF FrameIs
<1>3. [x EXCEPT ![2] = s] = u /\ [y EXCEPT ![2] = c] = v
  BY <1>1, ItemsOfFrame, Zenon
<1>4. DOMAIN f = 1..11
  BY <1>2
<1>5. [f EXCEPT ![3][2] = s, ![11][2] = c] = [f EXCEPT ![3] = u, ![11] = v]
  BY <1>2, <1>3, <1>4, ExceptParts, Zenon
<1>6. DOMAIN i = 1..11
  <2>1. i \in Seq(FrameItems) /\ Len(i) = 11
    BY <1>1, InitializedIs, Zenon DEF Placed
  <2> QED BY <2>1
<1>7. f = [i EXCEPT ![3] = x, ![11] = y]
  BY <1>1, Zenon DEF FrameOf
<1>8. [f EXCEPT ![3] = u, ![11] = v] = [i EXCEPT ![3] = u, ![11] = v]
  BY <1>6, <1>7, ExceptAgain, Zenon
<1> QED BY <1>1, <1>5, <1>8, Zenon DEF FrameOf

LEMMA FirstFrame == Frames!Initialized = FrameOf(0, 0)
<1>1. PICK i, x, y : i = Frames!Initialized /\ x = Tag(0) /\ y = Tally(0)
  OBVIOUS
<1>2. i \in Seq(FrameItems) /\ Len(i) = 11 /\ i[3] = x /\ i[11] = y
  BY <1>1, InitializedIs, Zenon DEF Placed
<1>3. i = [i EXCEPT ![3] = x, ![11] = y]
  <2>1. DOMAIN i = 1..11
    BY <1>2
  <2> QED BY <1>2, <2>1
<1> QED BY <1>1, <1>3, Zenon DEF FrameOf

(* The receiver reads it.                                                  *)
LEMMA FrameSaid ==
  ASSUME NEW a \in Nat, NEW b \in Nat, NEW f, f = FrameOf(a, b)
  PROVE  /\ Frames!PrintFrame(f).said
              = << <<"sequence", a>> >> \o Frames!Bytes("pan", 2) \o Frames!Bytes("to", 2)
                \o Frames!Bytes("from", 2)
         /\ Frames!Payload(f) = << <<"beacon", 1>>, <<"counter", b>> >>
<1>1. FrameIs(f, a, b)
  BY FrameOfIs, Zenon
<1>2. PICK p, q, r, c : /\ p = Frames!Bytes("pan", 2) /\ q = Frames!Bytes("to", 2)
                        /\ r = Frames!Bytes("from", 2) /\ c = Frames!Bytes("beacon", 1)
  OBVIOUS
<1>3. PICK e, y : e = Tag(a) /\ y = Tally(b)
  OBVIOUS
<1>4. PICK items, control : items = FrameItems /\ control = Frames!FCF
  OBVIOUS
<1>5. /\ f \in Seq(items) /\ Len(f) = 11 /\ f[1] = control /\ f[3] = e /\ f[11] = y
      /\ f[10] = c[1] /\ f[4] = p[1] /\ f[5] = p[2] /\ f[6] = q[1] /\ f[7] = q[2]
      /\ f[8] = r[1] /\ f[9] = r[2]
  BY <1>1, <1>2, <1>3, <1>4, Zenon DEF FrameIs
<1>6. PICK s : s = Frames!PrintFrame(f)
  OBVIOUS
<1>7. HeaderLength(control) = 9 /\ control.kind = "data" /\ ~control.newer /\ KnownLayout(control)
  BY <1>4, ControlOfSender, Zenon
<1>8. HeaderLength(control) <= Len(f) /\ Len(f) >= 2
  BY <1>5, <1>7
<1>9. s.end = "payload" /\ s.offset = 9 /\ s.said = SubSeq(f, 3, 9)
  <2>1. control.kind \in {"data", "opaque", "command"}
    BY <1>7, Zenon
  <2>2. /\ s.said = SubSeq(f, 3, s.offset)
        /\ s.end = "payload" => s.offset = HeaderLength(control)
        /\ s.end = "payload"
    BY <1>5, <1>6, <1>7, <1>8, <2>1, FrameIsPrinted, ZenonT(40)
  <2> QED BY <1>7, <2>2, Zenon
<1>10. SubSeq(f, 3, 9) = <<e>> \o p \o q \o r
  <2>1. FrameBytes \subseteq items
    BY <1>4 DEF FrameItems
  <2>2. 2 \in Nat
    OBVIOUS
  <2>3. ASSUME NEW w \in Words
        PROVE  Frames!Bytes(w, 2) \in Seq(items) /\ Len(Frames!Bytes(w, 2)) = 2
    <3>1. Frames!Bytes(w, 2) \in Seq(FrameBytes) /\ Len(Frames!Bytes(w, 2)) = 2
      BY <2>2, BytesTyped, Zenon
    <3> QED BY <2>1, <3>1, SeqMonotonic, Zenon
  <2>4. /\ p \in Seq(items) /\ Len(p) = 2 /\ q \in Seq(items) /\ Len(q) = 2
        /\ r \in Seq(items) /\ Len(r) = 2
    BY <1>2, <2>3, WordsOfFrame, Zenon
  <2>5. e \in items
    BY <1>3, <1>4, ItemsOfFrame, Zenon
  <2>6. HeadedBy(items, f, e, p, q, r)
    BY <1>5, <2>4, <2>5, PiecesOfHeader, Zenon
  <2> QED BY <2>6, Zenon DEF HeadedBy
<1>11. Frames!Payload(f) = <<c[1], y>>
  <2>1. PICK n \in Nat : n = 9
    OBVIOUS
  <2>2. PICK t : t = SubSeq(f, n + 1, Len(f))
    OBVIOUS
  <2>3. Frames!Payload(f) = t
    BY <1>6, <1>9, <2>1, <2>2, Zenon DEF Frames!Payload
  <2>4. n + 2 = 11 /\ n + 1 = 10
    BY <2>1
  <2>5. t = <<f[n + 1], f[n + 2]>>
    BY <1>5, <2>2, <2>4, LastTwo
  <2> QED BY <1>5, <2>3, <2>4, <2>5, Zenon
<1>12. c[1] = <<"beacon", 1>>
  <2>1. 1 \in Nat /\ 1 \in 1..1
    OBVIOUS
  <2> QED BY <1>2, <2>1, BytesTyped, WordsOfFrame, Zenon
<1> QED BY <1>2, <1>3, <1>6, <1>9, <1>10, <1>11, <1>12, Zenon DEF Tag, Tally

(***************************************************************************)
(* The order of what was heard (l), is held (g) and is on the air (a):     *)
(* each frame may follow those before it, and the sender, who is at no,    *)
(* each of them.                                                           *)
(***************************************************************************)
Follows(n, no, again) == n < no \/ (n = no /\ again)

Ordered(l, g, a, no, again) ==
    /\ \A n \in l : Follows(n, no, again)
    /\ \A i \in 1..Len(g) : Follows(g[i].no, no, again)
    /\ \A i \in 1..Len(a) : Follows(a[i].no, no, again)
    /\ \A n \in l, i \in 1..Len(g) : Follows(n, g[i].no, g[i].again)
    /\ \A n \in l, i \in 1..Len(a) : Follows(n, a[i].no, a[i].again)
    /\ \A i \in 1..Len(g), j \in 1..Len(a) : Follows(g[i].no, a[j].no, a[j].again)
    /\ \A i, j \in 1..Len(a) : i < j => Follows(a[i].no, a[j].no, a[j].again)

(* A number that is counted on, or kept for another attempt, follows what  *)
(* it followed.                                                            *)
LEMMA FollowsOn ==
  ASSUME NEW n \in Nat, NEW no \in Nat, NEW again \in BOOLEAN, Follows(n, no, again),
         NEW no2 \in Nat, NEW again2 \in BOOLEAN, no2 = no + 1 \/ (no2 = no /\ again2)
  PROVE  Follows(n, no2, again2)
BY DEF Follows

LEMMA OrderGoesOn ==
  ASSUME NEW S, \A e \in S : e.no \in Nat, NEW l \in SUBSET Nat, NEW g \in Seq(S),
         NEW a \in Seq(S), NEW no \in Nat, NEW again \in BOOLEAN, Ordered(l, g, a, no, again),
         NEW no2 \in Nat, NEW again2 \in BOOLEAN, no2 = no + 1 \/ (no2 = no /\ again2)
  PROVE  Ordered(l, g, a, no2, again2)
<1>1. ASSUME NEW s \in Seq(S), NEW i \in 1..Len(s) PROVE s[i].no \in Nat
  <2>1. s[i] \in S
    BY <1>1, ElementOfSeq, Zenon
  <2> QED BY <2>1, Zenon
<1>2. ASSUME NEW n \in l PROVE Follows(n, no2, again2)
  <2>1. n \in Nat /\ Follows(n, no, again)
    BY <1>2, Zenon DEF Ordered
  <2> QED BY <2>1, FollowsOn
<1>3. ASSUME NEW i \in 1..Len(g) PROVE Follows(g[i].no, no2, again2)
  <2>1. PICK n : n = g[i].no
    OBVIOUS
  <2>2. n \in Nat /\ Follows(n, no, again)
    BY <1>1, <1>3, <2>1, Zenon DEF Ordered
  <2>3. Follows(n, no2, again2)
    BY <2>2, FollowsOn
  <2> QED BY <2>1, <2>3, Zenon
<1>4. ASSUME NEW i \in 1..Len(a) PROVE Follows(a[i].no, no2, again2)
  <2>1. PICK n : n = a[i].no
    OBVIOUS
  <2>2. n \in Nat /\ Follows(n, no, again)
    BY <1>1, <1>4, <2>1, Zenon DEF Ordered
  <2>3. Follows(n, no2, again2)
    BY <2>2, FollowsOn
  <2> QED BY <2>1, <2>3, Zenon
<1> QED BY <1>2, <1>3, <1>4, Zenon DEF Ordered

(* What is sent now comes last.                                            *)
LEMMA OrderGrows ==
  ASSUME NEW S, NEW l, NEW g, NEW a \in Seq(S), NEW no, NEW again, NEW no2, NEW again2,
         Ordered(l, g, a, no, again), Ordered(l, g, a, no2, again2), Follows(no, no2, again2),
         NEW e \in S, e.no = no, e.again = again, NEW b, b = Append(a, e)
  PROVE  Ordered(l, g, b, no2, again2)
<1>1. PICK n \in Nat : n = Len(a)
  OBVIOUS
<1>2. Len(b) = n + 1 /\ b[n + 1] = e /\ \A i \in 1..n : b[i] = a[i]
  <2>1. /\ Len(b) = n + 1
        /\ \A i \in 1..Len(b) : b[i] = IF i = n + 1 THEN e ELSE a[i]
    BY <1>1, AppendProperties
  <2>2. n + 1 \in 1..Len(b)
    BY <2>1
  <2>3. \A i \in 1..n : i \in 1..Len(b) /\ i # n + 1
    BY <2>1
  <2> QED BY <2>1, <2>2, <2>3, Zenon
<1>3. \A i \in 1..Len(b) : i \in 1..n \/ i = n + 1
  BY <1>2
<1>4. ASSUME NEW i \in 1..Len(b) PROVE Follows(b[i].no, no2, again2)
  BY <1>1, <1>2, <1>3, Zenon DEF Ordered
<1>5. ASSUME NEW m \in l, NEW i \in 1..Len(b) PROVE Follows(m, b[i].no, b[i].again)
  BY <1>1, <1>2, <1>3, Zenon DEF Ordered
<1>6. ASSUME NEW i \in 1..Len(g), NEW j \in 1..Len(b) PROVE Follows(g[i].no, b[j].no, b[j].again)
  BY <1>1, <1>2, <1>3, Zenon DEF Ordered
<1>7. ASSUME NEW i \in 1..Len(b), NEW j \in 1..Len(b), i < j
      PROVE  Follows(b[i].no, b[j].no, b[j].again)
  <2>1. i \in 1..n
    BY <1>2, <1>7
  <2>2. CASE j \in 1..n
    BY <1>1, <1>2, <1>7, <2>1, <2>2, Zenon DEF Ordered
  <2>3. CASE j = n + 1
    BY <1>1, <1>2, <2>1, <2>3, Zenon DEF Ordered
  <2> QED BY <1>3, <2>2, <2>3, Zenon
<1> QED BY <1>4, <1>5, <1>6, <1>7, Zenon DEF Ordered

(* The first on the air is lost, or held; what was held before is heard.   *)
Passed(S, k, h, b, no, again) ==
    Ordered(k, h, b, no, again) /\ b \in Seq(S) /\ h \in Seq(S) /\ Len(h) <= 1

LEMMA OrderPasses ==
  ASSUME NEW S, NEW l, NEW g \in Seq(S), Len(g) <= 1, NEW a \in Seq(S), a # << >>,
         NEW no, NEW again, Ordered(l, g, a, no, again),
         NEW k, k = (IF g = << >> THEN l ELSE {g[1].no}),
         NEW b, b = Tail(a), NEW h, h = << >> \/ h = <<Head(a)>>
  PROVE  Passed(S, k, h, b, no, again)
<1>1. PICK n, e : n \in Nat /\ n = Len(a) /\ e = a[1]
  OBVIOUS
<1>2. n >= 1 /\ e \in S /\ 1 \in 1..n
  BY <1>1
<1>3. /\ b \in Seq(S) /\ Len(b) = n - 1
      /\ \A i \in 1..Len(b) : i + 1 \in 1..n /\ b[i] = a[i + 1]
  <2>1. b \in Seq(S) /\ Len(b) = n - 1 /\ \A i \in 1..Len(b) : b[i] = a[i + 1]
    BY <1>1, HeadTailProperties
  <2> QED BY <1>1, <1>2, <2>1
<1>4. h \in Seq(S) /\ Len(h) <= 1 /\ \A i \in 1..Len(h) : h[i] = e
  <2>1. Head(a) = e
    BY <1>1, HeadTailProperties
  <2>2. CASE h = << >>
    BY <2>2
  <2>3. CASE h = <<e>>
    BY <1>2, <2>3
  <2> QED BY <2>1, <2>2, <2>3, Zenon
<1>5. \A m \in k : /\ Follows(m, no, again)
                    /\ \A i \in 1..n : Follows(m, a[i].no, a[i].again)
  <2>1. CASE g = << >>
    <3>1. k = l
      BY <2>1, Zenon
    <3> QED BY <1>1, <3>1, Zenon DEF Ordered
  <2>2. CASE g # << >>
    <3>1. 1 \in 1..Len(g)
      BY <2>2
    <3>2. \A m \in k : m = g[1].no
      BY <2>2, Zenon
    <3> QED BY <1>1, <3>1, <3>2, Zenon DEF Ordered
  <2> QED BY <2>1, <2>2
<1>6. \A i \in 1..Len(b) : 1 < i + 1
  BY <1>1, <1>3
<1>7. \A i, j \in 1..Len(b) : i < j => i + 1 < j + 1
  BY <1>1, <1>3
<1>8. \A m \in k : Follows(m, no, again)
  BY <1>5, Zenon
<1>9. ASSUME NEW i \in 1..Len(h) PROVE Follows(h[i].no, no, again)
  BY <1>1, <1>2, <1>4, Zenon DEF Ordered
<1>10. ASSUME NEW i \in 1..Len(b) PROVE Follows(b[i].no, no, again)
  BY <1>1, <1>3, Zenon DEF Ordered
<1>11. ASSUME NEW m \in k, NEW i \in 1..Len(h) PROVE Follows(m, h[i].no, h[i].again)
  BY <1>1, <1>2, <1>4, <1>5, Zenon
<1>12. ASSUME NEW m \in k, NEW i \in 1..Len(b) PROVE Follows(m, b[i].no, b[i].again)
  BY <1>3, <1>5, Zenon
<1>13. ASSUME NEW i \in 1..Len(h), NEW j \in 1..Len(b)
       PROVE  Follows(h[i].no, b[j].no, b[j].again)
  BY <1>1, <1>2, <1>3, <1>4, <1>6, Zenon DEF Ordered
<1>14. ASSUME NEW i \in 1..Len(b), NEW j \in 1..Len(b), i < j
       PROVE  Follows(b[i].no, b[j].no, b[j].again)
  BY <1>1, <1>3, <1>7, <1>14, Zenon DEF Ordered
<1>15. Ordered(k, h, b, no, again)
  BY <1>8, <1>9, <1>10, <1>11, <1>12, <1>13, <1>14, Zenon DEF Ordered
<1> QED BY <1>3, <1>4, <1>15, Zenon DEF Passed

(***************************************************************************)
(* The sender, the air and the receiver.                                   *)
(***************************************************************************)
Filled == {FrameOf(a, b) : a \in Nat, b \in Nat}
FrameFor == [n \in Nat |-> FrameOf(n % Byte, n % Half)]
Sent == {[bytes |-> FrameFor[n], no |-> n, again |-> r] : n \in Nat, r \in BOOLEAN}

LEMMA FramesStay == Filled' = Filled /\ FrameFor' = FrameFor /\ Sent' = Sent
BY DEF Filled, FrameFor, Sent, FrameOf, Tag, Tally, Frames!Initialized, Frames!FCF, Frames!Bytes

FramesTyped ==
    /\ DOMAIN small = FrameFields
    /\ small.no \in Nat /\ small.again \in BOOLEAN
    /\ small.sequence = small.no % Byte /\ small.counter = small.no % Half
    /\ small.air \in Seq(Sent) /\ small.got \in Seq(Sent) /\ Len(small.got) <= 1
    /\ small.last \in SUBSET Nat
FramesPlace ==
    /\ small.at \in {"configure", "sleep", "transmit", "over"}
    /\ small.at = "sleep" => small.frame \in Filled
    /\ small.at = "transmit" => small.frame = FrameFor[small.no]
FramesInv ==
    /\ FramesTyped /\ FramesPlace
    /\ Ordered(small.last, small.got, small.air, small.no, small.again)

LEMMA Widths == Byte \in Nat \ {0} /\ Half \in Nat \ {0}
BY ProgramsAssumption DEF Frames!FramesAssumption

LEMMA NumbersFit ==
  ASSUME NEW n \in Nat
  PROVE  /\ n % Byte \in Nat /\ n % Half \in Nat
         /\ ((n % Byte) + 1) % Byte = (n + 1) % Byte
         /\ ((n % Half) + 1) % Half = (n + 1) % Half
<1>1. ASSUME NEW t \in Nat \ {0}
      PROVE  n % t \in Nat /\ ((n % t) + 1) % t = (n + 1) % t
  <2>a. n \in Int
    OBVIOUS
  <2>1. PICK q \in Int, r \in 0..(t - 1) : r = n % t /\ n = (t * q) + r
    BY <2>a, Remainder, Zenon
  <2>2. CASE r + 1 = t
    <3>1. n + 1 = (t * (q + 1)) + 0
      BY <2>1, <2>2
    <3>2. (n + 1) % t = 0 /\ (r + 1) % t = 0
      <4>1. 0 \in 0..(t - 1) /\ q + 1 \in Int /\ 1 \in Int
        OBVIOUS
      <4>2. ((t * (q + 1)) + 0) % t = 0
        BY <4>1, RemainderIs, Zenon
      <4>3. ((t * 1) + 0) % t = 0
        BY <4>1, RemainderIs, Zenon
      <4>4. (t * 1) + 0 = r + 1
        BY <2>2
      <4> QED BY <3>1, <4>2, <4>3, <4>4, Zenon
    <3> QED BY <2>1, <3>2
  <2>3. CASE r + 1 # t
    <3>1. r + 1 \in 0..(t - 1)
      BY <2>3
    <3>2. (n + 1) % t = r + 1
      <4>1. n + 1 = (t * q) + (r + 1)
        BY <2>1
      <4> QED BY <3>1, <4>1, RemainderIs, Zenon
    <3>3. (r + 1) % t = r + 1
      <4>1. 0 \in Int
        OBVIOUS
      <4>2. ((t * 0) + (r + 1)) % t = r + 1
        BY <3>1, <4>1, RemainderIs, Zenon
      <4>3. (t * 0) + (r + 1) = r + 1
        OBVIOUS
      <4> QED BY <4>2, <4>3, Zenon
    <3> QED BY <2>1, <3>2, <3>3
  <2> QED BY <2>2, <2>3
<1> QED BY <1>1, Widths

LEMMA FramesSets ==
  ASSUME DOMAIN small = FrameFields
  PROVE  /\ \A at, frame : small' = [small EXCEPT !.at = at, !.frame = frame] =>
              /\ DOMAIN small' = FrameFields /\ small'.at = at /\ small'.frame = frame
              /\ small'.no = small.no /\ small'.again = small.again
              /\ small'.sequence = small.sequence /\ small'.counter = small.counter
              /\ small'.air = small.air /\ small'.got = small.got /\ small'.last = small.last
BY DEF FrameFields

LEMMA FramesInit == Frames!Init => FramesInv
<1> SUFFICES ASSUME Frames!Init PROVE FramesInv
  OBVIOUS
<1>1. PICK at, e, none : at = "configure" /\ e = << >> /\ none = {}
  OBVIOUS
<1>2. small = [at |-> at, frame |-> e, sequence |-> 0, counter |-> 0, no |-> 0,
               again |-> FALSE, air |-> e, got |-> e, last |-> none]
  BY <1>1, Zenon DEF Frames!Init
<1>3. /\ DOMAIN small = FrameFields /\ small.at = at /\ small.no = 0 /\ small.again = FALSE
      /\ small.sequence = 0 /\ small.counter = 0 /\ small.air = e /\ small.got = e
      /\ small.last = none
  BY <1>2 DEF FrameFields
<1>4. e \in Seq(Sent) /\ Len(e) = 0 /\ Len(e) <= 1 /\ \A i : i \notin 1..Len(e)
  BY <1>1
<1>5. 0 % Byte = 0 /\ 0 % Half = 0
  BY Widths
<1>6. 0 \in Nat /\ none \in SUBSET Nat /\ \A i : i \notin none
  BY <1>1
<1>7. FramesTyped
  BY <1>3, <1>4, <1>5, <1>6, Zenon DEF FramesTyped
<1>8. FramesPlace
  <2>1. "configure" # "sleep" /\ "configure" # "transmit"
    OBVIOUS
  <2> QED BY <1>1, <1>3, <2>1, Zenon DEF FramesPlace
<1>9. Ordered(none, e, e, 0, FALSE)
  BY <1>4, <1>6, Zenon DEF Ordered
<1> QED BY <1>3, <1>7, <1>8, <1>9, Zenon DEF FramesInv

LEMMA FramesConfigured ==
  ASSUME FramesInv, Frames!Configure \/ Frames!Populate
  PROVE  FramesInv'
<1>0. FramesTyped /\ FramesPlace
  BY DEF FramesInv
<1>1. PICK at, frame :
        /\ small' = [small EXCEPT !.at = at, !.frame = frame]
        /\ at \in {"configure", "sleep", "transmit", "over"}
        /\ at = "sleep" => frame \in Filled
        /\ at = "transmit" => frame = FrameFor[small.no]
  <2>1. "sleep" # "transmit" /\ "over" # "sleep" /\ "over" # "transmit"
    OBVIOUS
  <2>2. CASE Frames!Configure
    <3>1. PICK ok \in BOOLEAN :
            small' = [small EXCEPT !.at = IF ok THEN "sleep" ELSE "over",
                                   !.frame = IF ok THEN Frames!Initialized ELSE @]
      BY <2>2, Zenon DEF Frames!Configure
    <3>2. PICK at, frame : /\ at = (IF ok THEN "sleep" ELSE "over")
                           /\ frame = (IF ok THEN Frames!Initialized ELSE small.frame)
      OBVIOUS
    <3>3. small' = [small EXCEPT !.at = at, !.frame = frame]
      BY <3>1, <3>2, Zenon
    <3>4. at = "sleep" => frame = FrameOf(0, 0)
      BY <2>1, <3>2, FirstFrame, Zenon
    <3>5. 0 \in Nat
      OBVIOUS
    <3>7. at = "sleep" => frame \in Filled
      BY <3>4, <3>5 DEF Filled
    <3>6. at \in {"sleep", "over"}
      BY <3>2, Zenon
    <3> QED BY <2>1, <3>3, <3>6, <3>7, Zenon
  <2>3. CASE Frames!Populate
    <3>1. small.at = "sleep"
      BY <2>3, Zenon DEF Frames!Populate, Frames!At
    <3>2. PICK a \in Nat, b \in Nat : small.frame = FrameOf(a, b)
      BY <1>0, <3>1 DEF FramesPlace, Filled
    <3>3. PICK ok \in BOOLEAN :
            small' = [small EXCEPT !.at = IF ok THEN "transmit" ELSE "over",
                                   !.frame = IF ok THEN [@ EXCEPT ![3][2] = small.sequence,
                                                                  ![11][2] = small.counter]
                                                   ELSE @]
      BY <2>3, Zenon DEF Frames!Populate
    <3>4. PICK f : f = [small.frame EXCEPT ![3][2] = small.sequence, ![11][2] = small.counter]
      OBVIOUS
    <3>5. f = FrameFor[small.no]
      <4>1. PICK g, s, c : g = FrameOf(a, b) /\ s = small.no % Byte /\ c = small.no % Half
        OBVIOUS
      <4>2. f = [g EXCEPT ![3][2] = s, ![11][2] = c]
        BY <1>0, <3>2, <3>4, <4>1, Zenon DEF FramesTyped
      <4>3. [g EXCEPT ![3][2] = s, ![11][2] = c] = FrameOf(s, c)
        <5>1. [FrameOf(a, b) EXCEPT ![3][2] = s, ![11][2] = c] = FrameOf(s, c)
          BY FrameFilled
        <5> QED BY <4>1, <5>1, Zenon
      <4> QED BY <1>0, <4>1, <4>2, <4>3, Zenon DEF FramesTyped, FrameFor
    <3>6. PICK at, frame : /\ at = (IF ok THEN "transmit" ELSE "over")
                           /\ frame = (IF ok THEN f ELSE small.frame)
      OBVIOUS
    <3>7. small' = [small EXCEPT !.at = at, !.frame = frame]
      BY <3>3, <3>4, <3>6, Zenon
    <3>8. at \in {"transmit", "over"}
      BY <3>6, Zenon
    <3>9. at = "transmit" => frame = f
      BY <2>1, <3>6, Zenon
    <3> QED BY <2>1, <3>5, <3>7, <3>8, <3>9, Zenon
  <2> QED BY <2>2, <2>3
<1>2. /\ DOMAIN small' = FrameFields /\ small'.at = at /\ small'.frame = frame
      /\ small'.no = small.no /\ small'.again = small.again
      /\ small'.sequence = small.sequence /\ small'.counter = small.counter
      /\ small'.air = small.air /\ small'.got = small.got /\ small'.last = small.last
  BY <1>0, <1>1, FramesSets, Zenon DEF FramesTyped
<1>3. FramesTyped'
  BY <1>0, <1>2, FramesStay, Zenon DEF FramesTyped
<1>4. FramesPlace'
  BY <1>1, <1>2, FramesStay, Zenon DEF FramesPlace
<1>5. Ordered(small'.last, small'.got, small'.air, small'.no, small'.again)
  BY <1>2, Zenon DEF FramesInv
<1> QED BY <1>3, <1>4, <1>5, Zenon DEF FramesInv, Ordered, Follows

LEMMA FrameSent ==
  ASSUME FramesInv, Frames!Transmit
  PROVE  FramesInv'
<1>0. FramesTyped /\ FramesPlace /\ Ordered(small.last, small.got, small.air, small.no, small.again)
  BY DEF FramesInv
<1>1. small.at = "transmit"
  BY Zenon DEF Frames!Transmit, Frames!At
<1>2. PICK gone \in BOOLEAN, ok \in BOOLEAN :
        /\ ok => gone
        /\ small' = [small EXCEPT
              !.at = "sleep",
              !.air = IF gone THEN Append(@, [bytes |-> small.frame, no |-> small.no,
                                              again |-> small.again]) ELSE @,
              !.again = ~ok,
              !.no = IF ok THEN @ + 1 ELSE @,
              !.sequence = IF ok THEN (@ + 1) % Byte ELSE @,
              !.counter = IF ok THEN (@ + 1) % Half ELSE @]
  BY Zenon DEF Frames!Transmit
<1>3. PICK n, g, l, a, r : /\ n = small.no /\ g = small.got /\ l = small.last /\ a = small.air
                           /\ r = small.again
  OBVIOUS
<1>4. PICK e : e = [bytes |-> FrameFor[n], no |-> n, again |-> r]
  OBVIOUS
<1>5. /\ n \in Nat /\ r \in BOOLEAN /\ a \in Seq(Sent) /\ g \in Seq(Sent) /\ Len(g) <= 1
      /\ l \in SUBSET Nat /\ DOMAIN small = FrameFields
      /\ small.sequence = n % Byte /\ small.counter = n % Half
      /\ small.frame = FrameFor[n] /\ Ordered(l, g, a, n, r)
  BY <1>0, <1>1, <1>3, Zenon DEF FramesTyped, FramesPlace
<1>6. e \in Sent /\ e.no = n /\ e.again = r
  <2>1. e.no = n /\ e.again = r
    BY <1>4
  <2>2. e \in Sent
    BY <1>4, <1>5 DEF Sent
  <2> QED BY <2>1, <2>2
<1>7. PICK at, b, again2, n2, s, c :
        /\ at = "sleep" /\ b = (IF gone THEN Append(a, e) ELSE a) /\ again2 = ~ok
        /\ n2 = (IF ok THEN n + 1 ELSE n)
        /\ s = (IF ok THEN ((n % Byte) + 1) % Byte ELSE n % Byte)
        /\ c = (IF ok THEN ((n % Half) + 1) % Half ELSE n % Half)
  OBVIOUS
<1>8. small' = [small EXCEPT !.at = at, !.air = b, !.again = again2, !.no = n2,
                             !.sequence = s, !.counter = c]
  BY <1>2, <1>3, <1>4, <1>5, <1>7, Zenon
<1>9. /\ DOMAIN small' = FrameFields /\ small'.at = at /\ small'.frame = FrameFor[n]
      /\ small'.no = n2 /\ small'.again = again2
      /\ small'.sequence = s /\ small'.counter = c
      /\ small'.air = b /\ small'.got = g /\ small'.last = l
  <2>1. DOMAIN small = FrameFields
    BY <1>5, Zenon
  <2>2. /\ DOMAIN small' = FrameFields /\ small'.at = at /\ small'.frame = small.frame
        /\ small'.no = n2 /\ small'.again = again2
        /\ small'.sequence = s /\ small'.counter = c
        /\ small'.air = b /\ small'.got = small.got /\ small'.last = small.last
    BY <1>8, <2>1 DEF FrameFields
  <2> QED BY <1>3, <1>5, <2>2, Zenon
<1>10. /\ n2 \in Nat /\ again2 \in BOOLEAN /\ (n2 = n + 1 \/ (n2 = n /\ again2))
       /\ s = n2 % Byte /\ c = n2 % Half
  <2>1. n + 1 \in Nat
    BY <1>5
  <2>2. /\ ((n % Byte) + 1) % Byte = (n + 1) % Byte
        /\ ((n % Half) + 1) % Half = (n + 1) % Half
    BY <1>5, NumbersFit, Zenon
  <2>3. again2 \in BOOLEAN
    BY <1>7
  <2>4. CASE ok
    BY <1>5, <1>7, <2>1, <2>2, <2>3, <2>4, Zenon
  <2>5. CASE ~ok
    BY <1>5, <1>7, <2>3, <2>5, Zenon
  <2> QED BY <2>4, <2>5
<1>11. \A x \in Sent : x.no \in Nat
  BY DEF Sent
<1>12. Ordered(l, g, a, n2, again2)
  BY <1>5, <1>10, <1>11, OrderGoesOn, Zenon
<1>13. Follows(n, n2, again2)
  BY <1>5, <1>10 DEF Follows
<1>14. b \in Seq(Sent) /\ Ordered(l, g, b, n2, again2)
  <2>1. CASE gone
    <3>1. b = Append(a, e)
      BY <1>7, <2>1, Zenon
    <3>2. b \in Seq(Sent)
      BY <1>5, <1>6, <3>1, AppendProperties, Zenon
    <3>3. Ordered(l, g, b, n2, again2)
      BY <1>5, <1>6, <1>12, <1>13, <3>1, OrderGrows, Zenon
    <3> QED BY <3>2, <3>3
  <2>2. CASE ~gone
    <3>1. b = a
      BY <1>7, <2>2, Zenon
    <3> QED BY <1>5, <1>12, <3>1, Zenon
  <2> QED BY <2>1, <2>2
<1>15. FramesTyped'
  BY <1>5, <1>9, <1>10, <1>14, FramesStay, Zenon DEF FramesTyped
<1>16. FramesPlace'
  <2>1. "sleep" # "transmit"
    OBVIOUS
  <2>2. FrameFor[n] \in Filled
    <3>1. n % Byte \in Nat /\ n % Half \in Nat
      BY <1>5, NumbersFit, Zenon
    <3>2. FrameFor[n] = FrameOf(n % Byte, n % Half)
      BY <1>5, Zenon DEF FrameFor
    <3> QED BY <3>1, <3>2 DEF Filled
  <2> QED BY <1>7, <1>9, <2>1, <2>2, FramesStay, Zenon DEF FramesPlace
<1>17. Ordered(small'.last, small'.got, small'.air, small'.no, small'.again)
  BY <1>9, <1>14, Zenon
<1> QED BY <1>15, <1>16, <1>17, Zenon DEF FramesInv, Ordered, Follows

LEMMA FramePasses ==
  ASSUME FramesInv, Frames!Lose \/ Frames!Receive
  PROVE  FramesInv'
<1>0. FramesTyped /\ FramesPlace /\ Ordered(small.last, small.got, small.air, small.no, small.again)
  BY DEF FramesInv
<1>1. PICK g, l, a : g = small.got /\ l = small.last /\ a = small.air
  OBVIOUS
<1>2. /\ small.no \in Nat /\ a \in Seq(Sent) /\ g \in Seq(Sent) /\ Len(g) <= 1 /\ a # << >>
      /\ l \in SUBSET Nat /\ DOMAIN small = FrameFields
      /\ Ordered(l, g, a, small.no, small.again)
  BY <1>0, <1>1, Zenon DEF FramesTyped, Frames!Lose, Frames!Receive
<1>3. PICK k : k = IF g = << >> THEN l ELSE {g[1].no}
  OBVIOUS
<1>4. PICK b, h : /\ b = Tail(a) /\ (h = << >> \/ h = <<Head(a)>>)
                  /\ small' = [small EXCEPT !.air = b, !.got = h, !.last = k]
  <2>1. k = Frames!Heard
    BY <1>1, <1>3, Zenon DEF Frames!Heard
  <2>2. CASE Frames!Lose
    BY <1>1, <2>1, <2>2, Zenon DEF Frames!Lose
  <2>3. CASE Frames!Receive
    BY <1>1, <2>1, <2>3, Zenon DEF Frames!Receive
  <2> QED BY <2>2, <2>3
<1>5. /\ DOMAIN small' = FrameFields /\ small'.at = small.at
      /\ small'.frame = small.frame
      /\ small'.no = small.no /\ small'.again = small.again
      /\ small'.sequence = small.sequence /\ small'.counter = small.counter
      /\ small'.air = b /\ small'.got = h /\ small'.last = k
  <2>1. DOMAIN small = FrameFields
    BY <1>2, Zenon
  <2> QED BY <1>4, <2>1 DEF FrameFields
<1>6. Ordered(k, h, b, small.no, small.again) /\ b \in Seq(Sent) /\ h \in Seq(Sent) /\ Len(h) <= 1
  <2>1. PICK no, again : no = small.no /\ again = small.again
    OBVIOUS
  <2>2. Passed(Sent, k, h, b, no, again)
    BY <1>2, <1>3, <1>4, <2>1, OrderPasses, Zenon
  <2> QED BY <2>1, <2>2, Zenon DEF Passed
<1>7. k \in SUBSET Nat
  <2>1. CASE g = << >>
    BY <1>2, <1>3, <2>1, Zenon
  <2>2. CASE g # << >>
    <3>1. PICK x \in Sent : x = g[1]
      BY <1>2, <2>2
    <3>2. x.no \in Nat
      BY DEF Sent
    <3>3. k = {x.no}
      BY <1>3, <2>2, <3>1, Zenon
    <3> QED BY <3>2, <3>3
  <2> QED BY <2>1, <2>2
<1>8. FramesTyped'
  BY <1>0, <1>5, <1>6, <1>7, FramesStay, Zenon DEF FramesTyped
<1>9. FramesPlace'
  BY <1>0, <1>5, FramesStay, Zenon DEF FramesPlace
<1>10. Ordered(small'.last, small'.got, small'.air, small'.no, small'.again)
  BY <1>5, <1>6, Zenon
<1> QED BY <1>8, <1>9, <1>10, Zenon DEF FramesInv, Ordered, Follows

LEMMA FramesStep ==
  ASSUME FramesInv, Frames!Next
  PROVE  FramesInv'
BY FramesConfigured, FrameSent, FramePasses, Zenon DEF Frames!Next

(* What is held is a frame that was sent, and is read as one.              *)
LEMMA FramesTold ==
  ASSUME FramesInv
  PROVE  Frames!FramesAreRead
<1>0. FramesTyped /\ Ordered(small.last, small.got, small.air, small.no, small.again)
  BY DEF FramesInv
<1>1. SUFFICES ASSUME small.got # << >>
               PROVE  LET e == small.got[1]  p == Frames!PrintFrame(e.bytes) IN
                      /\ p.said = << <<"sequence", e.no % Byte>> >> \o Frames!Bytes("pan", 2)
                                  \o Frames!Bytes("to", 2) \o Frames!Bytes("from", 2)
                      /\ Frames!Payload(e.bytes) = << <<"beacon", 1>>, <<"counter", e.no % Half>> >>
                      /\ \A n \in small.last : n < e.no \/ (n = e.no /\ e.again)
  BY Zenon DEF Frames!FramesAreRead
<1>2. PICK e : e = small.got[1]
  OBVIOUS
<1>3. e \in Sent /\ 1 \in 1..Len(small.got)
  BY <1>0, <1>1, <1>2 DEF FramesTyped
<1>4. PICK n \in Nat, r \in BOOLEAN : e = [bytes |-> FrameFor[n], no |-> n, again |-> r]
  BY <1>3 DEF Sent
<1>5. e.no = n /\ e.bytes = FrameFor[n]
  BY <1>4
<1>6. PICK a \in Nat, b \in Nat : a = n % Byte /\ b = n % Half
  BY NumbersFit
<1>7. e.bytes = FrameOf(a, b)
  BY <1>5, <1>6, Zenon DEF FrameFor
<1>8. \A m \in small.last : Follows(m, e.no, e.again)
  BY <1>0, <1>2, <1>3, Zenon DEF Ordered
<1>9. PICK f : f = e.bytes
  OBVIOUS
<1>10. /\ Frames!PrintFrame(f).said
              = << <<"sequence", a>> >> \o Frames!Bytes("pan", 2) \o Frames!Bytes("to", 2)
                \o Frames!Bytes("from", 2)
       /\ Frames!Payload(f) = << <<"beacon", 1>>, <<"counter", b>> >>
  BY <1>7, <1>9, FrameSaid, Zenon
<1> QED BY <1>2, <1>5, <1>6, <1>8, <1>9, <1>10, Zenon DEF Follows

-----------------------------------------------------------------------------
(* The frames of every neighbour, cut anywhere.                            *)
CutFrames(c) == {[control |-> c,
                  frame |-> SubSeq(Frames!Layout(c) \o Frames!Bytes("beacon", 2), 1, n)] :
                     n \in 0..Len(Frames!Layout(c)) + 2}
Neighbours == UNION {CutFrames(c) : c \in Frames!Control}

LEMMA NeighboursStay == Neighbours' = Neighbours
BY DEF Neighbours, CutFrames, Frames!Control, Frames!Mode, Frames!Layout, Frames!Bytes,
   Frames!AddressSize

LEMMA NeighboursAre == Frames!InitNeighbour <=> small \in Neighbours
<1>1. ASSUME Frames!InitNeighbour PROVE small \in Neighbours
  <2>1. PICK c \in Frames!Control : \E n \in 0..Len(Frames!Layout(c)) + 2 :
           small = [control |-> c,
                    frame |-> SubSeq(Frames!Layout(c) \o Frames!Bytes("beacon", 2), 1, n)]
    BY <1>1, Zenon DEF Frames!InitNeighbour
  <2>2. small \in CutFrames(c)
    BY <2>1, Zenon DEF CutFrames
  <2> QED BY <2>2, Zenon DEF Neighbours
<1>2. ASSUME small \in Neighbours PROVE Frames!InitNeighbour
  <2>1. PICK c \in Frames!Control : small \in CutFrames(c)
    BY <1>2, Zenon DEF Neighbours
  <2>2. \E n \in 0..Len(Frames!Layout(c)) + 2 :
           small = [control |-> c,
                    frame |-> SubSeq(Frames!Layout(c) \o Frames!Bytes("beacon", 2), 1, n)]
    BY <2>1, Zenon DEF CutFrames
  <2> QED BY <2>2, Zenon DEF Frames!InitNeighbour
<1> QED BY <1>1, <1>2

(***************************************************************************)
(* Whatever the child writes and whenever it ends, the runner prints it    *)
(* all, in its order, of the image just converted; whatever the air loses  *)
(* and however often a frame is sent again, what the receiver reads is     *)
(* what was sent; and wherever a neighbour's frame is cut, what it prints  *)
(* of the header is the header.                                            *)
(***************************************************************************)
EchoInv ==
    /\ RunnerInv
    /\ part = "frames" => FramesInv
    /\ part = "header" => small \in Neighbours

LEMMA EchoInit == Init => EchoInv
<1>1. Init => Runner!Init
  BY DEF Init
<1>2. Init /\ part = "frames" => Frames!Init
  BY DEF Init
<1>3. Init /\ part = "header" => Frames!InitNeighbour
  BY DEF Init
<1> QED BY <1>1, <1>2, <1>3, RunnerInit, FramesInit, NeighboursAre, Zenon DEF EchoInv

LEMMA RunnerLeft ==
  ASSUME RunnerInv, UNCHANGED runner
  PROVE  RunnerInv'
<1>1. runner' = runner
  OBVIOUS
<1>2. RunnerFields' /\ RunnerPlace'
  BY <1>1, Zenon DEF RunnerInv, RunnerFields, RunnerPlace, Watched
<1> QED BY <1>1, <1>2, RunnerGoes, Zenon

LEMMA FramesLeft ==
  ASSUME UNCHANGED small
  PROVE  /\ FramesInv => FramesInv'
         /\ small \in Neighbours => small' \in Neighbours'
<1>1. small' = small
  OBVIOUS
<1>2. ASSUME FramesInv PROVE FramesInv'
  <2>1. FramesTyped' /\ FramesPlace'
    BY <1>1, <1>2, FramesStay, Zenon DEF FramesInv, FramesTyped, FramesPlace
  <2>2. Ordered(small'.last, small'.got, small'.air, small'.no, small'.again)
    BY <1>1, <1>2, Zenon DEF FramesInv
  <2> QED BY <2>1, <2>2, Zenon DEF FramesInv, Ordered, Follows
<1>3. small \in Neighbours => small' \in Neighbours'
  BY <1>1, NeighboursStay, Zenon
<1> QED BY <1>2, <1>3

LEMMA EchoStep ==
  ASSUME EchoInv, [Next]_vars
  PROVE  EchoInv'
<1>1. CASE UNCHANGED <<part, small, runner>>
  <2>1. part' = part /\ UNCHANGED small /\ UNCHANGED runner
    BY <1>1
  <2> QED BY <2>1, RunnerLeft, FramesLeft, Zenon DEF EchoInv
<1>2. CASE SmallNext
  <2>1. part' = part /\ UNCHANGED runner
    BY <1>2, Zenon DEF SmallNext
  <2>2. RunnerInv'
    BY <2>1, RunnerLeft, Zenon DEF EchoInv
  <2>3. part = "frames" => FramesInv'
    <3>1. /\ "frames" # "exit" /\ "frames" # "beeper" /\ "frames" # "jitter"
          /\ "frames" # "header"
      OBVIOUS
    <3> QED BY <1>2, <3>1, FramesStep, Zenon DEF EchoInv, SmallNext
  <2>4. part # "header"
    <3>1. /\ "header" # "exit" /\ "header" # "beeper" /\ "header" # "jitter"
          /\ "header" # "frames"
      OBVIOUS
    <3> QED BY <1>2, <3>1, Zenon DEF SmallNext
  <2> QED BY <2>1, <2>2, <2>3, <2>4, Zenon DEF EchoInv
<1>3. CASE RunnerNext
  <2>1. part' = part /\ UNCHANGED small /\ RunnerInv'
    BY <1>3, RunnerStep, Zenon DEF RunnerNext, EchoInv
  <2> QED BY <2>1, FramesLeft, Zenon DEF EchoInv
<1> QED BY <1>1, <1>2, <1>3 DEF Next, vars, DoomNext, DashNext, WifiNext, ThrottleNext,
                               ProbeNext

THEOREM EchoesStayWhole == Spec => []EchoIsWhole
<1>1. Init => EchoInv
  BY EchoInit
<1>2. EchoInv /\ [Next]_vars => EchoInv'
  BY EchoStep
<1>3. EchoInv => EchoIsWhole
  BY RunnerTold, FramesTold, HeaderTold, NeighboursAre, Zenon DEF EchoInv, EchoIsWhole
<1> QED BY <1>1, <1>2, <1>3, PTL DEF Spec
=============================================================================
