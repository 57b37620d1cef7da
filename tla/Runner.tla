------------------------------- MODULE Runner -------------------------------
(***************************************************************************)
(* The runner: it converts an ELF file, deploys it, and forwards what the  *)
(* child process it spawned prints, with a thread of its own for our       *)
(* standard input and one for the child's standard error.  The child, the  *)
(* tools and the person at the terminal are outside.  Text is a sequence   *)
(* of "x" and of newlines "n"; typing "c" is Ctrl+C.                       *)
(***************************************************************************)
EXTENDS Integers, Sequences, TLC

CONSTANTS MaxOut,   (* bytes the child writes, to both outputs together     *)
          MaxTyped, (* bytes typed                                          *)
          Pipe      (* bytes the child's standard input holds               *)

VARIABLE app

Init ==
    \E d \in {"none", "qemu", "tockloader"}, old \in BOOLEAN :
       app = [at |-> "start", deploy |-> d, tbf |-> IF old THEN "old" ELSE "absent",
              raw |-> FALSE, child |-> "none", status |-> TRUE,
              out |-> << >>, wrote |-> << >>, printed |-> << >>, open |-> TRUE,
              err |-> << >>, wrote_err |-> << >>, printed_err |-> << >>,
              stdin |-> "none", stderr |-> "none", typed |-> << >>, buffer |-> << >>,
              pressed |-> 0,
              pipe |-> 0, ctrl_c |-> FALSE, interrupted |-> FALSE]

At(l) == app.at = l
Set(f) == app' = [x \in DOMAIN app |-> IF x \in DOMAIN f THEN f[x] ELSE app[x]]

(* A panic of the main thread drops the RawTerminal and ends the process.  *)
Panic == Set([at |-> "panicked", raw |-> FALSE])
Or(f) == Set(f) \/ Panic
Over == app.at \in {"end", "panicked"}

-----------------------------------------------------------------------------
(* convert_elf.  The architecture, the stack section and the removal of an *)
(* old TBF file may fail; so may elf2tab, or it may write nothing.         *)
(* RemoveNot is wrong on purpose: it leaves what is there.                 *)
RemoveNot(tbf) == tbf
Remove(tbf) == "absent"

RemoveTbf == At("start") /\ Or([at |-> "elf2tab", tbf |-> Remove(app.tbf)])

Elf2tab ==
    /\ At("elf2tab")
    /\ \E wrote \in BOOLEAN :
          Or([at |-> "verify", tbf |-> IF wrote THEN "new" ELSE app.tbf])

Verify ==
    /\ At("verify")
    /\ IF app.tbf = "absent" THEN Panic
       ELSE Or([at |-> IF app.deploy = "none" THEN "end" ELSE "deploy"])

(* QEMU has its three streams piped, tockloader listen only its output.    *)
(* tockloader first uninstalls, whatever that answers, and installs.       *)
Deploy ==
    /\ At("deploy")
    /\ Or([at |-> IF app.deploy = "qemu" THEN "stdin" ELSE "read", child |-> "running"])

ForwardStdin ==
    /\ At("stdin")
    /\ \/ Set([at |-> "stderr", stdin |-> "run", raw |-> TRUE])
       \/ Set([at |-> "panicked", stdin |-> "run"])

ForwardStderr == At("stderr") /\ Set([at |-> "read", stderr |-> "run"])

-----------------------------------------------------------------------------
(* The main thread: whatever the pipe holds is translated and echoed; the  *)
(* end of the stream is taken for the child's exit, which it then awaits.  *)
Crlf(s) ==
    LET to_print[i \in 0..Len(s)] ==
          IF i = 0 THEN << >>
          ELSE to_print[i - 1] \o (IF s[i] = "n" THEN <<"r", "n">> ELSE <<s[i]>>)
    IN to_print[Len(s)]

Translated(s) == IF app.raw THEN Crlf(s) ELSE s

(* EchoRaw is wrong on purpose: it forgets the carriage returns of stdout. *)
EchoRaw(s) == s
Echo(s) == Translated(s)

Read ==
    /\ At("read")
    /\ IF app.out # << >>
       THEN Or([printed |-> app.printed \o Echo(app.out), out |-> << >>])
       ELSE ~app.open /\ Set([at |-> "wait"])

Wait ==
    /\ At("wait")
    /\ app.child = "exited"
    /\ Set([at |-> "restore", child |-> "reaped"])

Restore ==
    /\ At("restore")
    /\ Set([at |-> IF app.status THEN "end" ELSE "panicked", raw |-> FALSE])

-----------------------------------------------------------------------------
(* The thread that forwards our standard input.  It reads what there is    *)
(* only when it has written all it read before; it looks for Ctrl+C in     *)
(* what it has read, or else writes as much as the pipe takes, and blocks  *)
(* there as long as the pipe is full.                                      *)
(* HasFirst is wrong on purpose: it looks at the first byte.               *)
HasFirst(buffer) == Head(buffer) = "c"
HasCtrlC(buffer) == \E i \in DOMAIN buffer : buffer[i] = "c"

FillBuf ==
    /\ app.stdin = "run" /\ ~Over
    /\ app.buffer = << >> /\ app.typed # << >>
    /\ Set([buffer |-> app.typed, typed |-> << >>])

Write ==
    /\ app.stdin = "run" /\ ~Over
    /\ app.buffer # << >>
    /\ IF HasCtrlC(app.buffer) THEN Set([stdin |-> "kill"])
       ELSE IF app.child # "running" THEN Set([stdin |-> "gone"])
       ELSE /\ app.pipe < Pipe
            /\ LET n == IF Len(app.buffer) < Pipe - app.pipe THEN Len(app.buffer)
                                                             ELSE Pipe - app.pipe IN
               Set([pipe |-> app.pipe + n,
                    buffer |-> SubSeq(app.buffer, n + 1, Len(app.buffer))])

Forward == FillBuf \/ Write

Interrupt ==
    /\ app.stdin = "kill" /\ ~Over
    /\ Set([stdin |-> "gone", interrupted |-> app.interrupted \/ app.child = "running"])

(* The thread that forwards the child's standard error.                    *)
ForwardErr ==
    /\ app.stderr = "run" /\ ~Over
    /\ IF app.err # << >>
       THEN Set([printed_err |-> app.printed_err \o Translated(app.err), err |-> << >>])
       ELSE app.child # "running" /\ Set([stderr |-> "gone"])

-----------------------------------------------------------------------------
(* Outside: the child writes, reads, closes its output or exits; somebody  *)
(* types or the terminal ends, which is taken for Ctrl+C.                  *)
Running == app.child = "running"

ChildWrites ==
    /\ Running /\ Len(app.wrote) + Len(app.wrote_err) < MaxOut
    /\ \E b \in {"x", "n"} :
          \/ app.open
             /\ Set([out |-> Append(app.out, b), wrote |-> Append(app.wrote, b)])
          \/ app.stderr # "none"
             /\ Set([err |-> Append(app.err, b), wrote_err |-> Append(app.wrote_err, b)])

ChildReads == Running /\ app.pipe > 0 /\ Set([pipe |-> app.pipe - 1])
ChildCloses == Running /\ app.open /\ Set([open |-> FALSE])
ChildExits == Running /\ \E s \in BOOLEAN : Set([child |-> "exited", open |-> FALSE, status |-> s])
ChildObeys == Running /\ app.interrupted /\ Set([child |-> "exited", open |-> FALSE])

Type ==
    /\ app.stdin = "run" /\ ~Over
    /\ app.pressed < MaxTyped /\ ~app.ctrl_c
    /\ \E b \in {"x", "c"} :
          Set([typed |-> Append(app.typed, b), pressed |-> app.pressed + 1, ctrl_c |-> b = "c"])

Main == \/ RemoveTbf \/ Elf2tab \/ Verify \/ Deploy \/ ForwardStdin \/ ForwardStderr
        \/ Read \/ Wait \/ Restore
Next == \/ Main \/ Forward \/ Interrupt \/ ForwardErr
        \/ ChildWrites \/ ChildReads \/ ChildCloses \/ ChildExits \/ ChildObeys \/ Type

Fairness == /\ WF_app(Main) /\ WF_app(Forward) /\ WF_app(Interrupt)
            /\ WF_app(ChildReads) /\ WF_app(ChildObeys)
Spec == Init /\ [][Next]_app /\ Fairness

-----------------------------------------------------------------------------
(* What reaches the terminal is what the child wrote, in order, once, each *)
(* line ending translated while the terminal is raw; and a run that ends   *)
(* well has shown all of the child's standard output.                      *)
EchoIsWhole ==
    LET expected == IF app.deploy = "qemu" THEN Crlf(app.wrote) ELSE app.wrote IN
    /\ Len(app.printed) <= Len(expected)
    /\ app.printed = SubSeq(expected, 1, Len(app.printed))
    /\ At("end") /\ app.child # "none" => app.printed = expected

(* QEMU never runs a TBF file from an earlier conversion.                  *)
ImageIsFresh == app.child # "none" => app.tbf = "new"

(* Ctrl+C ends the runner, wherever in the input it was typed and whatever *)
(* the child does, if the child reads its input and obeys the signal.      *)
CtrlCEnds == app.ctrl_c ~> Over
=============================================================================
