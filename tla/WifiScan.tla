------------------------------ MODULE WifiScan ------------------------------
(***************************************************************************)
(* The three wifi examples: wifi_scan.rs scans twice with buffers of two   *)
(* lengths, wifi_scan_exit.rs leaves in the middle of a scan, and          *)
(* wifi_stop_scan.rs calls stop_scan in four states of the radio and       *)
(* compares the answers.  The radio and its capsule are outside the        *)
(* repository; they are what the programs' documentation reads out of the  *)
(* kernel.  One upcall is both a result and, with length 0, the end of a   *)
(* scan, and nothing in it says which scan.                                *)
(***************************************************************************)
EXTENDS Integers, Sequences, FiniteSets

CONSTANTS Timeout,  (* polls until wait_until gives up                      *)
          MaxQueue, (* upcalls a process can have queued                    *)
          MaxSeen   (* results counted; the count saturates                 *)

WifiAssumption == {Timeout, MaxQueue, MaxSeen} \subseteq Nat \ {0}

VARIABLE app

Program == {"wifi_scan", "wifi_scan_exit", "wifi_stop_scan"}

(* What is subscribed, the queue, and the sink the listener fills.         *)
Sink == [seen |-> 0, done |-> FALSE, after_done |-> FALSE]

Init ==
    \E p \in Program :
       app = [program |-> p, at |-> "init", waited |-> 0, pass |-> 1, status |-> "none",
              sink |-> Sink, stopped |-> FALSE, phase |-> << >>, verdict |-> "none",
              open |-> FALSE, queue |-> << >>,
              tasks |-> "none", pending |-> FALSE, scan |-> 0, ended |-> 0,
              late |-> FALSE, running |-> FALSE]

At(l) == app.at = l
Set(f) == app' = [x \in DOMAIN app |-> IF x \in DOMAIN f THEN f[x] ELSE app[x]]
Scans == app.program # "wifi_stop_scan"

-----------------------------------------------------------------------------
(* wait_until: where each wait goes on, and the condition it polls.        *)
Waits == {"wait_init", "wait_scan", "wait_A", "wait_C", "wait_D", "wait_end"}

Ready ==
    CASE At("wait_init") -> app.status # "none"
      [] At("wait_scan") -> app.sink.done \/ (app.program = "wifi_scan_exit" /\ app.sink.seen >= 2)
      [] At("wait_C") -> app.sink.done \/ app.sink.seen > 0
      [] At("wait_D") -> app.sink.done
      [] OTHER -> app.stopped

After ==
    [wait_init |-> "init_done", wait_scan |-> "close", wait_A |-> "command",
     wait_C |-> "C", wait_D |-> "D", wait_end |-> "close"]

Go(l) == [at |-> l, waited |-> 0]

(* Wrong on purpose: waits for as long as it takes.                        *)
WaitUntilReady ==
    /\ app.at \in Waits
    /\ IF Ready THEN Set(Go(After[app.at])) ELSE Set([waited |-> 0])

WaitUntil ==
    /\ app.at \in Waits
    /\ \/ (Ready \/ app.waited = Timeout) /\ Set(Go(After[app.at]))
       \/ ~Ready /\ app.waited < Timeout /\ Set([waited |-> app.waited + 1])
       \/ ~Ready /\ app.waited < Timeout /\ Set(Go(After[app.at]))     (* no sleep *)

(* The sleep yields, and delivers what is queued.  The sink of wifi_scan   *)
(* counts nothing after the end of a scan, those of the others go on.      *)
Heard(n) ==
    IF app.program = "wifi_scan" /\ app.sink.done THEN [app.sink EXCEPT !.after_done = TRUE]
    ELSE IF n = 0 THEN [app.sink EXCEPT !.done = TRUE]
    ELSE [app.sink EXCEPT !.seen = IF @ < MaxSeen THEN @ + 1 ELSE @]

Deliver ==
    /\ app.at \in Waits /\ app.queue # << >>
    /\ LET u == Head(app.queue)
       IN  app' = [app EXCEPT !.queue = Tail(@),
                              !.status = IF u[1] = "init" THEN u[2] ELSE @,
                              !.stopped = @ \/ u[1] = "stop",
                              !.sink = IF u[1] = "scan" THEN Heard(u[2]) ELSE @,
                              !.late = @ \/ (u[1] = "scan" /\ u[3] # app.scan)]

-----------------------------------------------------------------------------
(* init: a scope of its own, whose end unsubscribes.                       *)
StartInit ==
    /\ At("init")
    /\ \/ Set(Go("wait_init"))
       \/ Set([at |-> "over", verdict |-> "no init"])

RadioInit ==
    /\ At("wait_init") /\ app.status = "none" /\ app.queue = << >>
    /\ \E s \in {"ok", "failed"} : Set([queue |-> << <<"init", s>> >>])

InitDone ==
    /\ At("init_done")
    /\ Set([queue |-> << >>,
            at |-> IF app.status = "ok" THEN "open" ELSE "over",
            verdict |-> IF app.status = "ok" THEN "none" ELSE "no init"])

(* Wrong on purpose: one sink for both passes.                             *)
OpenKeepsSink ==
    /\ At("open")
    /\ Set([open |-> TRUE, at |-> IF Scans THEN "command" ELSE "A"])

(* The scope of a pass: the buffer allowed, the upcalls subscribed.        *)
Open ==
    /\ At("open")
    /\ \/ Set([open |-> TRUE, sink |-> Sink, at |-> IF Scans THEN "command" ELSE "A"])
       \/ Set([at |-> "over", verdict |-> "could not start"])

(* Busy is what init_tasks answers for as long as anything is outstanding. *)
Busy == app.tasks # "none" \/ app.pending

StartScan ==
    /\ At("command")
    /\ IF Busy THEN Set([at |-> "close", verdict |-> "could not start"])
       ELSE Set([at |-> IF Scans THEN "wait_scan" ELSE "B",
                 waited |-> 0, tasks |-> "scan", scan |-> app.scan + 1])

-----------------------------------------------------------------------------
(* wifi_stop_scan: one call of command 8, remembered with its answer.      *)
StopScan(name, next) ==
    /\ At(name)
    /\ Set([phase |-> Append(app.phase, <<name, Busy>>), tasks |-> IF Busy THEN app.tasks ELSE "stop",
            stopped |-> IF name \in {"A", "D"} THEN FALSE ELSE app.stopped,
            running |-> IF name = "C" THEN app.pending ELSE app.running,
            at |-> next, waited |-> 0])

PhaseA == StopScan("A", IF Busy THEN "command" ELSE "wait_A")
PhaseB == StopScan("B", "wait_C")

(* Wrong on purpose: stop_scan is called without a result to go by.        *)
PhaseCAtOnce == StopScan("C", "wait_D")

PhaseC ==
    \/ app.sink.seen > 0 /\ StopScan("C", "wait_D")
    \/ At("C") /\ app.sink.seen = 0 /\ Set(Go("wait_D"))

PhaseD ==
    \/ app.sink.done /\ StopScan("D", "wait_end")
    \/ At("D") /\ ~app.sink.done /\ Set(Go("close"))

Expected == <<FALSE, TRUE, TRUE, FALSE>>
Report ==
    IF Len(app.phase) # 4 THEN "inconclusive"
    ELSE IF \A i \in 1..4 : app.phase[i][2] = Expected[i] THEN "confirmed"
    ELSE "not confirmed"

-----------------------------------------------------------------------------
Verdict ==
    IF app.verdict # "none" THEN app.verdict
    ELSE CASE app.program = "wifi_stop_scan" -> Report
           [] app.program = "wifi_scan" ->
                IF app.sink.done THEN "complete" ELSE "no terminator"
           [] app.program = "wifi_scan_exit" ->
                IF app.sink.done \/ app.sink.seen = 0 THEN "inconclusive" ELSE "leaving"

(* The scope ends, which unsubscribes, unallows and drops what is queued;  *)
(* then the outcome is told.  A scan without its end is stopped, for what  *)
(* it is worth.                                                            *)
Close ==
    /\ At("close")
    /\ Set([open |-> FALSE, queue |-> << >>, at |-> "told", verdict |-> Verdict,
            tasks |-> IF Verdict = "no terminator" /\ ~Busy THEN "stop" ELSE app.tasks])

(* wifi_scan goes on to its second pass, whatever the first one came to.   *)
NextPass ==
    /\ At("told")
    /\ IF app.program = "wifi_scan" /\ app.pass = 1
       THEN Set([at |-> "open", pass |-> 2, verdict |-> "none", late |-> FALSE])
       ELSE Set([at |-> "over"])

-----------------------------------------------------------------------------
Schedule(u) ==
    IF app.open /\ Len(app.queue) < MaxQueue THEN Append(app.queue, u) ELSE app.queue

(* The ioctls drain: a stop is done, a scan begins.                        *)
Drain ==
    /\ app.tasks # "none"
    /\ Set([tasks |-> "none", pending |-> app.tasks = "scan",
            queue |-> IF app.tasks = "stop" /\ ~Scans
                      THEN Schedule(<<"stop", 0>>) ELSE app.queue])

ScannedNetwork ==
    /\ app.pending /\ app.open /\ Len(app.queue) < MaxQueue
    /\ Set([queue |-> Schedule(<<"scan", 1, app.scan>>)])

ScanDone ==
    /\ app.pending
    /\ Set([pending |-> FALSE, ended |-> app.scan,
            queue |-> Schedule(<<"scan", 0, app.scan>>)])

Main == WaitUntil \/ StartInit \/ InitDone \/ Open \/ StartScan \/ PhaseA \/ PhaseB
        \/ PhaseC \/ PhaseD \/ Close \/ NextPass
Radio == RadioInit \/ Drain \/ ScannedNetwork \/ ScanDone
Next == Main \/ Deliver \/ Radio

Fairness == WF_app(Main)
Spec == Init /\ [][Next]_app /\ Fairness

-----------------------------------------------------------------------------
(* CONFIRMED rests on a stop_scan that was refused while a scan was        *)
(* running, and not merely starting (wifi_stop_scan.rs:73).                *)
ConfirmedIsTrue == app.verdict = "confirmed" => app.running

(* A scan is told to be complete when it is: an end that was left over     *)
(* from the pass before is the one exception (wifi_scan.rs:222).           *)
CompleteIsOwn == app.verdict = "complete" => app.ended = app.scan \/ app.late

(* A driver that never calls back prints a verdict instead of hanging      *)
(* (wifi_scan.rs:199).                                                     *)
Over == At("over")
WifiEnds == <>Over
=============================================================================
