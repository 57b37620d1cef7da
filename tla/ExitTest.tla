------------------------------ MODULE ExitTest ------------------------------
(***************************************************************************)
(* exit_test: a test case runs itself a second time in a process of its    *)
(* own, B, to find out with which Exit call its closure ends.  The two     *)
(* processes share an environment variable, which names the place of the   *)
(* call, and the standard output of B, of which the first line that begins *)
(* with EXIT_STRING counts.  B runs every test case its arguments select,  *)
(* each in a thread: the one named, and whatever A's own arguments select. *)
(***************************************************************************)
EXTENDS Integers, Sequences

VARIABLE app

(* A case makes calls of exit_test, one after the other; each is a place   *)
(* in the source with a closure that ends in an Exit call or does not.     *)
Case == {"asked", "other"}
Places == [asked |-> <<"p1", "p2">>, other |-> <<"q1">>]
Place == {"p1", "p2", "q1"}
ExitCall == {"terminate", "restart"}
Ending == ExitCall \cup {"returns", "panics"}

Init ==
    \E closure \in [Place -> Ending], named \in Case, also \in SUBSET Case :
       app = [closure |-> closure, runs |-> {named} \cup also,
              call |-> 1, at |-> "A spawns", signal |-> "none",
              thread |-> [c \in Case |-> "none"], running |-> FALSE,
              half |-> FALSE, out |-> << >>, result |-> "none"]

At(l) == app.at = l
Set(f) == app' = [x \in DOMAIN app |-> IF x \in DOMAIN f THEN f[x] ELSE app[x]]
With(f, g) == [x \in DOMAIN f \cup DOMAIN g |-> IF x \in DOMAIN f THEN f[x] ELSE g[x]]

(* A line is a message only when it begins with EXIT_STRING: an unfinished *)
(* line before it spoils it.  Lines of several threads never mix.          *)
PrintLine(line) == [out |-> Append(app.out, IF app.half THEN "noise" ELSE line), half |-> FALSE]
Thread(c, s) == [thread |-> [app.thread EXCEPT ![c] = s]]

-----------------------------------------------------------------------------
(* Process A, in the case "asked".                                         *)
Spawn ==
    /\ At("A spawns")
    /\ Set([at |-> "A waits", signal |-> Places.asked[app.call], running |-> TRUE,
            out |-> << >>, half |-> FALSE,
            thread |-> [c \in Case |-> IF c \in app.runs THEN "begin" ELSE "none"]])

(* What A makes of the output, once B has ended: a message other than an   *)
(* Exit call, or none, fails the test case.                                *)
Message(line) == line \in ExitCall \cup {"WrongCase", "DidNotExit"}

(* The line that counts, the first that is a message.                      *)
Counts(i) ==
    /\ i \in 1..Len(app.out) /\ Message(app.out[i])
    /\ \A j \in 1..(i - 1) : ~Message(app.out[j])

Collect ==
    /\ At("A waits") /\ ~app.running
    /\ \/ \E i \in 1..Len(app.out) :
             /\ Counts(i) /\ app.out[i] \in ExitCall
             /\ Set([at |-> "A returned", result |-> app.out[i]])
       \/ /\ ~\E i \in 1..Len(app.out) : Counts(i) /\ app.out[i] \in ExitCall
          /\ Set([at |-> "A panicked"])

(* The case goes on to its next call, in A.                                *)
Continue ==
    /\ At("A returned")
    /\ app.call < Len(Places.asked)
    /\ Set([at |-> "A spawns", call |-> app.call + 1, result |-> "none"])

-----------------------------------------------------------------------------
(* Process B: a case reaches its first exit_test, which runs the closure   *)
(* when it is the place that A named, and tells A otherwise.               *)
(* NamedAny is wrong on purpose: it does not compare the places.           *)
NamedAny(place) == TRUE
Named(place) == place = app.signal

RunTest(c) ==
    /\ app.thread[c] = "begin"
    /\ LET place == Head(Places[c]) IN
       IF Named(place) THEN Set(Thread(c, app.closure[place]))
       ELSE Set(With(PrintLine("WrongCase"), Thread(c, "exit")))

(* The exit system call prints, signals and ends the process, three steps  *)
(* that another thread may come between; a closure that comes back has not *)
(* exited.                                                                 *)
Exit(c) ==
    /\ app.thread[c] \in ExitCall
    /\ Set(With(PrintLine(app.thread[c]), Thread(c, "exit")))

ComeBack(c) ==
    /\ app.thread[c] \in {"returns", "panics"}
    /\ Set(With(PrintLine("DidNotExit"), Thread(c, "exit")))

EndProcess(c) ==
    /\ app.thread[c] = "exit"
    /\ Set([running |-> FALSE, thread |-> [d \in Case |-> "none"]])

(* A closure, or the test harness, prints without ending the line.         *)
HalfLine ==
    /\ app.running /\ ~app.half
    /\ Set([half |-> TRUE])

Next == \/ Spawn \/ Collect \/ Continue \/ HalfLine
        \/ \E c \in Case : app.running /\ (RunTest(c) \/ Exit(c) \/ ComeBack(c) \/ EndProcess(c))

Spec == Init /\ [][Next]_app

-----------------------------------------------------------------------------
(* Whatever else B runs and prints, in whatever order, an Exit call that   *)
(* exit_test returns is the one the closure at that very place makes.      *)
ReportIsTrue ==
    At("A returned") => app.result = app.closure[Places.asked[app.call]]
=============================================================================
