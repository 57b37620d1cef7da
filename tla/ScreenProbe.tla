---------------------------- MODULE ScreenProbe ----------------------------
(***************************************************************************)
(* screen_first_draw.rs and screen_busy_probe.rs: attempts of two screen   *)
(* commands, a frame and a write, each with an alarm as the deadline of    *)
(* its upcall.  An upcall says nothing of the command it answers, so a     *)
(* step that gives up leaves an answer behind that a later step may take   *)
(* for its own.  The screen driver is the kernel's: it takes one command   *)
(* of a process at a time and may answer late or never.                    *)
(***************************************************************************)
EXTENDS Integers, Sequences

CONSTANTS MaxAttempts, (* MAX_ATTEMPTS; a clock may end the run before      *)
          MaxOther     (* upcalls of other drivers in one step              *)

VARIABLE app

(* `serving' is the command the driver has: this step's own, or an older   *)
(* one; the queue holds answers of either, the alarm's and others.         *)
Init ==
    \E p \in {"first_draw", "busy_probe"} :
       app = [program |-> p, at |-> "attempt", op |-> "first", attempt |-> 0,
              frame |-> "none", write |-> "none", own |-> TRUE, others |-> 0,
              poisoned |-> FALSE, marked |-> FALSE, left |-> FALSE, first |-> FALSE,
              subscribed |-> FALSE, armed |-> FALSE, serving |-> "none", queue |-> << >>]

FirstDraw == app.program = "first_draw"
At(l) == app.at = l
Set(f) == app' = [x \in DOMAIN app |-> IF x \in DOMAIN f THEN f[x] ELSE app[x]]

(* The fields of f, and those of g that f does not name.                   *)
With(f, g) == [x \in DOMAIN f \cup DOMAIN g |-> IF x \in DOMAIN f THEN f[x] ELSE g[x]]

-----------------------------------------------------------------------------
(* A step begins by subscribing to both slots.  It ends with an outcome;   *)
(* the end of its scope unsubscribes, which drops what is queued, and an   *)
(* answer that is still to come is no longer its own.                      *)
Begin(op) == [at |-> "subscribe", op |-> op, others |-> 0]

End(outcome, own) ==
    With(CASE app.op = "frame" -> [frame |-> outcome]
           [] app.op = "write" -> [write |-> outcome, own |-> own]
           [] OTHER -> [at |-> "after"],
         [at |-> "after", subscribed |-> FALSE, armed |-> FALSE, queue |-> << >>])

Subscribe ==
    /\ At("subscribe")
    /\ \/ Set([at |-> "command", subscribed |-> TRUE, queue |-> << >>])
       \/ Set(End("setup", TRUE))

(* A command that is refused owes no upcall and is not waited for.  One    *)
(* that is accepted arms the deadline; when that fails, the step gives up  *)
(* and the answer is still owed.                                           *)
(* ArmNot is wrong on purpose: accepted, and no deadline.                  *)
ArmNot == [armed |-> FALSE]

Arm == [armed |-> TRUE]

Command ==
    /\ At("command")
    /\ \/ Set(End("refused", TRUE))
       \/ app.serving = "none" /\ Set(With([at |-> "wait", serving |-> "own"], Arm))
       \/ app.serving = "none" /\ Set(With([serving |-> "old", left |-> TRUE], End("setup", TRUE)))

(* One yield delivers one upcall; the screen's answer is looked at before  *)
(* the deadline.  A timeout leaves the command with the driver.            *)
Late == IF app.serving = "own" THEN "old" ELSE app.serving

Wait ==
    /\ At("wait")
    /\ app.queue # << >>
    /\ LET u == Head(app.queue) IN
       CASE u.whose = "other" -> Set([queue |-> Tail(app.queue)])
         [] u.whose = "alarm" -> Set(With([serving |-> Late], End("timeout", TRUE)))
         [] OTHER -> Set(With([serving |-> Late], End(u.status, u.whose = "own")))

-----------------------------------------------------------------------------
(* What the programs do after each step.  An attempt is tallied by its     *)
(* write, printed with the mark as it stood before the attempt, and only   *)
(* then poisons the ones after it.  The first success paints the screen in *)
(* two steps of which only the outcome is printed.                         *)
(* PoisonsByWrite is wrong on purpose: it looks at the write only.         *)
PoisonsByWrite(frame, write) == FirstDraw /\ write = "timeout"

Poisons(frame, write) == FirstDraw /\ (frame = "timeout" \/ write = "timeout")

Tally ==
    LET painting == FirstDraw /\ app.write = "ok" /\ ~app.first IN
    With([marked |-> app.poisoned,
          poisoned |-> app.poisoned \/ Poisons(app.frame, app.write),
          first |-> app.first \/ painting],
         IF painting THEN Begin("full") ELSE [at |-> "attempt"])

After ==
    /\ At("after")
    /\ CASE app.op = "frame" -> Set(Begin("write"))
         [] app.op = "write" -> Set([at |-> "tally"])
         [] app.op = "full" -> Set(With([left |-> app.left \/ app.serving = "old"], Begin("fill")))
         [] OTHER -> Set([at |-> "attempt", left |-> app.left \/ app.serving = "old"])

TallyLine == At("tally") /\ Set(Tally)

(* The busy probe makes one frame first, outside the attempts.             *)
Attempt ==
    /\ At("attempt")
    /\ IF ~FirstDraw /\ app.op = "first" /\ app.write = "none" /\ ~app.first
       THEN Set(With([first |-> TRUE], Begin("first")))
       ELSE /\ app.attempt < MaxAttempts
            /\ Set(With([attempt |-> app.attempt + 1, frame |-> "none", write |-> "none",
                         own |-> TRUE], Begin("frame")))

Stop ==
    /\ At("attempt")
    /\ Set([at |-> "end"])

Program == Subscribe \/ Command \/ Wait \/ After \/ TallyLine \/ Attempt \/ Stop

-----------------------------------------------------------------------------
(* The kernel: the driver answers, late or never, the alarm fires, and     *)
(* other upcalls come.                                                     *)
Of(whose, status) == [whose |-> whose, status |-> status]
Queued(u) == [queue |-> IF app.subscribed THEN Append(app.queue, u) ELSE app.queue]

Answer ==
    /\ app.serving # "none"
    /\ \E s \in {"ok", "failed"} :
          Set(With([serving |-> "none"], Queued(Of(app.serving, s))))

Fire ==
    /\ app.armed
    /\ Set(With([armed |-> FALSE], Queued(Of("alarm", "fired"))))

Other ==
    /\ app.subscribed /\ app.others < MaxOther
    /\ Set(With([others |-> app.others + 1], Queued(Of("other", "done"))))

Next == Program \/ Answer \/ Fire \/ Other

Spec == Init /\ [][Next]_app /\ WF_app(Program) /\ WF_app(Fire)

-----------------------------------------------------------------------------
(* A line that is printed without the mark reports its own write, unless   *)
(* the frame of that very attempt timed out, or an earlier step left its   *)
(* command behind in a way the program does not count as a timeout.        *)
UnmarkedIsOwn ==
    FirstDraw /\ At("tally") /\ ~app.poisoned /\ app.frame # "timeout" /\ ~app.left
       => app.own

(* What screen_first_draw.rs prints at its end: the lines that ran with an *)
(* outstanding call are the marked ones.                                   *)
OutstandingIsMarked ==
    FirstDraw /\ At("tally") /\ ~app.poisoned => app.own

(* The run ends though the driver never answers.                           *)
Over == At("end")
ProbeEnds == <>Over
=============================================================================
