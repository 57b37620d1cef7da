------------------------------- MODULE Beeper -------------------------------
(***************************************************************************)
(* kit_tune.rs plays four notes, one at a time, and counts those that end; *)
(* kit_hush.rs takes the buzzer through one short note to switch it off.   *)
(* The capsule is the kernel's, by what the two programs say of it: one    *)
(* process is active, each may have one more note waiting, a note's alarm  *)
(* ends that and queues an upcall, and a stop is refused to all but its    *)
(* owner.  Another process may use the buzzer at any time.  This is the    *)
(* capsule's book-keeping and not the sound: the pin's slice was heard to  *)
(* go on driving after an alarm and after both stops had answered as they  *)
(* should, and no system call tells (kit_hush.rs:59-71, 83-106,            *)
(* kit_tune.rs:80-91).                                                     *)
(***************************************************************************)
EXTENDS Naturals, Sequences

CONSTANTS Notes,      (* the notes of the tune                              *)
          Patience    (* polls until a note counts as missing               *)

BeeperAssumption == Notes \in Nat \ {0} /\ Patience \in Nat

VARIABLE app

At(l) == app.at = l
Set(f) == app' = [x \in DOMAIN app |-> IF x \in DOMAIN f THEN f[x] ELSE app[x]]
With(f, g) == [x \in DOMAIN f \cup DOMAIN g |-> IF x \in DOMAIN f THEN f[x] ELSE g[x]]
Tune == app.program = "tune"

(* active_app: nobody, another process, or the note of this number.        *)
Nobody == 0
Other == Notes + 1
Mine == 1..Notes

Init ==
    \E p \in {"tune", "hush"}, who \in {Nobody, Other, 1} :
       /\ who = 1 => p = "hush"
       /\ app = [program |-> p, at |-> "begin", active |-> who, waiting |-> Nobody,
                 upcalls |-> << >>, ended |-> {}, done |-> << >>, note |-> 1, waited |-> 0,
                 played |-> 0, faults |-> 0, first |-> "none", stop |-> "none", said |-> "none"]

-----------------------------------------------------------------------------
(* The capsule.                                                            *)
Freed(s) == IF s.waiting = Nobody THEN [s EXCEPT !.active = Nobody]
            ELSE [s EXCEPT !.active = s.waiting, !.waiting = Nobody]

OtherPlays == ~At("over") /\ app.active = Nobody /\ Set([active |-> Other])
OtherEnds == ~At("over") /\ app.active = Other /\ app' = Freed(app)

(* The alarm of this process's note, or a driver that gave up on it: the   *)
(* capsule takes the note to be over, whatever the pin does then.  There   *)
(* is no upcall for one that began before the program listened.            *)
Listens == At("wait") \/ At("judge") \/ (At("note") /\ app.note > 1)
buzzer_done ==
    /\ ~At("over") /\ app.active \in Mine
    /\ \E status \in {0, 1} :
          app' = Freed(IF Listens
                       THEN [app EXCEPT !.ended = @ \cup {app.active},
                                        !.upcalls = Append(@, [status |-> status, note |-> app.active])]
                       ELSE app)

(* A stop: with nobody active it does nothing, another process's note it   *)
(* leaves alone, and one that is answered well is not taken to have        *)
(* stopped anything: that guarantee is retracted (kit_hush.rs:61-71).      *)
Stopped == CASE app.active = Nobody -> "OFF" [] app.active = Other -> "RESERVE" [] OTHER -> "ok"
AfterStop == {app} \cup (IF Stopped = "ok" THEN {Freed(app)} ELSE {})

-----------------------------------------------------------------------------
(* The press that starts the tune, if it comes; the hush's plain request.  *)
wait_for_press ==
    Tune /\ At("begin") /\ \E pressed \in BOOLEAN : Set([at |-> IF pressed THEN "note" ELSE "over"])

FirstStop ==
    /\ ~Tune /\ At("begin")
    /\ \E s \in AfterStop :
          app' = [s EXCEPT !.first = Stopped,
                     !.at = IF Stopped \in {"ok", "RESERVE"} THEN "over" ELSE "note"]

(* The scope ends with its listener, what is queued for it included.       *)
Leave(at, f) == Set(With([at |-> at, upcalls |-> << >>], f))

Refused == IF Tune THEN Leave("stop", [faults |-> app.faults + 1]) ELSE Leave("final stop", << >>)

register_listener ==
    /\ At("note") /\ app.note = 1 /\ app.done = << >>
    /\ Leave(IF Tune THEN "stop" ELSE "final stop", [said |-> "could not run"])

tone ==
    /\ At("note")
    /\ \/ Refused
       \/ /\ app.active = Nobody
          /\ Set([at |-> "wait", done |-> << >>, waited |-> 0, active |-> app.note])
       \/ /\ app.active # Nobody /\ app.waiting = Nobody
          /\ Set([at |-> "wait", done |-> << >>, waited |-> 0, waiting |-> app.note])

(* A poll: ready, out of patience, or another sleep, in which every upcall *)
(* queued by then is delivered; a sleep that fails ends the wait.          *)
wait_until ==
    /\ At("wait")
    /\ IF app.done # << >> \/ app.waited = Patience THEN Set([at |-> "judge"])
       ELSE \/ Set([waited |-> app.waited + 1, upcalls |-> << >>,
                    done |-> IF app.upcalls = << >> THEN app.done
                             ELSE <<app.upcalls[Len(app.upcalls)]>>])
            \/ Set([at |-> "judge"])

(* JudgeOn is wrong on purpose: it goes on after a note that is missing.   *)
Goes == IF app.note = Notes THEN "stop" ELSE "note"
JudgeOn ==
    /\ Tune /\ At("judge")
    /\ LET good == app.done # << >> /\ app.done[1].status = 0 IN
       Set([played |-> app.played + (IF good THEN 1 ELSE 0), at |-> Goes,
            faults |-> app.faults + (IF good THEN 0 ELSE 1),
            note |-> IF Goes = "note" THEN app.note + 1 ELSE app.note])
Judge ==
    /\ Tune /\ At("judge")
    /\ IF app.done = << >> THEN Leave("stop", [faults |-> app.faults + 1])
       ELSE LET good == app.done[1].status = 0 IN
            Set([played |-> app.played + (IF good THEN 1 ELSE 0), at |-> Goes,
                 faults |-> app.faults + (IF good THEN 0 ELSE 1),
                 note |-> IF Goes = "note" THEN app.note + 1 ELSE app.note])

HushJudge == ~Tune /\ At("judge") /\ Leave("stop", << >>)

(* The stop at the end, whatever came before, and what is said of it.      *)
Says ==
    IF Tune
    THEN IF app.said # "none" THEN app.said
         ELSE IF app.faults = 0 /\ app.played = Notes THEN "good" ELSE "counts"
    ELSE IF At("final stop") THEN "no cycle"
    ELSE CASE app.done # << >> /\ Stopped = "OFF" -> "complete"
           [] app.done = << >> /\ Stopped = "ok" -> "never fired"
           [] OTHER -> "cycle ran"

LastStop ==
    /\ At("stop") \/ At("final stop")
    /\ \E s \in AfterStop : app' = [s EXCEPT !.at = "over", !.stop = Stopped, !.said = Says]

Next ==
    \/ OtherPlays \/ OtherEnds \/ buzzer_done \/ wait_for_press \/ FirstStop \/ register_listener
    \/ tone \/ wait_until \/ Judge \/ HushJudge \/ LastStop

-----------------------------------------------------------------------------
(* A note is judged by its own end, never by another's; a tune that is     *)
(* called good has been through every note's alarm; "cycle complete" is    *)
(* said of a note whose alarm fired, "never fired" of one whose did not;   *)
(* and no program ends, on any path, with a note of its own that the       *)
(* capsule still plays and that it has not asked the capsule to stop       *)
(* (kit_tune.rs:90).  All of it is of active_app: of whether the buzzer is *)
(* quiet nothing is said, and nothing can be (kit_hush.rs:83-106).         *)
VerdictIsTrue ==
    /\ At("judge") /\ app.done # << >> => app.done[1].note = app.note
    /\ app.said = "good" => app.ended = Mine /\ app.stop # "ok"
    /\ app.said = "complete" => 1 \in app.ended
    /\ app.said = "never fired" => 1 \notin app.ended
    /\ At("over") /\ app.active \in Mine => "ok" \in {app.first, app.stop}
=============================================================================
