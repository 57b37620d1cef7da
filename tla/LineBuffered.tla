---------------------------- MODULE LineBuffered ----------------------------
(***************************************************************************)
(* ufmt's LineBuffered adapter: text is held back until a newline or until *)
(* it no longer fits, and the writer below may fail.  Text is a sequence   *)
(* of "x" and of newlines "n"; for the property each byte carries the      *)
(* number it was written under.                                            *)
(***************************************************************************)
EXTENDS Integers, Sequences, FiniteSetsExt

CONSTANTS Capacity, (* bytes the buffer holds                              *)
          MaxText,  (* bytes of one write                                  *)
          MaxBytes  (* bytes written in all                                *)

LinesAssumption == {Capacity, MaxText, MaxBytes} \subseteq Nat

VARIABLE app

Init == app = [buffer |-> << >>, rest |-> << >>, line |-> << >>, at |-> "idle",
               out |-> << >>, next |-> 1, failed |-> FALSE]

At(l) == app.at = l
Set(f) == app' = [x \in DOMAIN app |-> IF x \in DOMAIN f THEN f[x] ELSE app[x]]
Numbered(s) == [i \in DOMAIN s |-> [kind |-> s[i], number |-> app.next + i - 1]]

(* write_str: the caller's text.                                           *)
WriteStr ==
    /\ At("idle")
    /\ \E n \in 1..MaxText : \E s \in [1..n -> {"x", "n"}] :
          /\ app.next + n - 1 <= MaxBytes
          /\ Set([at |-> "split", rest |-> Numbered(s), next |-> app.next + n])

(* Where the next line ends; without a newline, where the text does.       *)
Newline(s) == LET ends == {i \in 1..Len(s) : s[i].kind = "n"} IN
              IF ends = {} THEN Len(s) ELSE Min(ends)

Split ==
    /\ At("split")
    /\ LET n == Newline(app.rest) IN
       Set([at |-> "push", line |-> SubSeq(app.rest, 1, n),
            rest |-> SubSeq(app.rest, n + 1, Len(app.rest))])

(* flush empties the buffer whatever the writer answered; an error ends    *)
(* the whole write.  FlushKeeps is wrong on purpose: it empties the buffer *)
(* only when the writer took it.                                           *)
Fails == Set([at |-> "idle", failed |-> TRUE, buffer |-> << >>, rest |-> << >>])
FlushKeeps(then) ==
    \/ Set([at |-> then, out |-> app.out \o app.buffer, buffer |-> << >>])
    \/ Set([at |-> "idle", failed |-> TRUE, rest |-> << >>])
Flush(then) ==
    \/ Set([at |-> then, out |-> app.out \o app.buffer, buffer |-> << >>])
    \/ Fails

(* push_str: what does not fit empties the buffer first, and what never    *)
(* fits goes straight to the writer.                                       *)
Fits == Len(app.buffer) + Len(app.line) <= Capacity

(* Wrong on purpose: the long text overtakes the buffered one.             *)
MakeRoomNot == At("push") /\ ~Fits /\ Set([at |-> "put"])
MakeRoom == At("push") /\ ~Fits /\ Flush("put")

Put ==
    /\ At("put") \/ (At("push") /\ Fits)
    /\ IF Len(app.line) > Capacity
       THEN \/ Set([at |-> "pushed", out |-> app.out \o app.line])
            \/ Set([at |-> "idle", failed |-> TRUE, rest |-> << >>])
       ELSE Set([at |-> "pushed", buffer |-> app.buffer \o app.line])

(* After each line the buffer is flushed; the last part stays in it.       *)
Ended == app.line # << >> /\ app.line[Len(app.line)].kind = "n"

Pushed ==
    /\ At("pushed")
    /\ IF Ended THEN Flush("split") ELSE Set([at |-> "idle"])

Next == WriteStr \/ Split \/ MakeRoom \/ Put \/ Pushed

Spec == Init /\ [][Next]_app

-----------------------------------------------------------------------------
(* What reaches the writer is what was written, in order and at most once; *)
(* while no write has failed nothing is missing but what the buffer holds, *)
(* no more than its capacity and without a whole line; and what a failed   *)
(* write abandoned never appears later.                                    *)
TextInOrder ==
    LET all == app.out \o app.buffer IN
    /\ \A i \in 1 .. Len(all) - 1 : all[i].number < all[i+1].number
    /\ Len(app.buffer) <= Capacity
    /\ At("idle") => \A i \in DOMAIN app.buffer : app.buffer[i].kind # "n"
    /\ At("idle") /\ ~app.failed => Len(all) = app.next - 1
=============================================================================
