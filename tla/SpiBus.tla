------------------------------- MODULE SpiBus -------------------------------
(***************************************************************************)
(* Transfers of the SPI controller's API over its fake bus.  The device's  *)
(* response is consumed from the front by whatever transfer reads, and     *)
(* what goes out is recorded.  A transfer is one step: SyncCall has what   *)
(* can come between the system calls of a blocking one.                    *)
(***************************************************************************)
EXTENDS Integers, Sequences

CONSTANTS Datum,        (* what a byte can be, 0 and 255 among them          *)
          MaxLen        (* bound on buffers and on what is kept of both ways *)

SpiAssumption == MaxLen \in Nat \ {0} /\ {0, 255} \subseteq Datum

VARIABLE app

Buffers == UNION {[1..n -> Datum] : n \in 0..MaxLen}
Lent == {[i \in 1..n |-> 255] : n \in 0..MaxLen}
Least(m, n) == IF m < n THEN m ELSE n

Init == app = [response |-> << >>, promised |-> << >>, written |-> << >>,
               heard |-> << >>, last |-> << >>]

(* The test prepares the device, and looks at what was written.            *)
set_response ==
    \E r \in Buffers : app' = [app EXCEPT !.response = r, !.promised = r, !.heard = << >>,
                                          !.last = << >>]
take_written == app' = [app EXCEPT !.written = << >>, !.last = << >>]

(* The driver's transfer: what comes in fills as much of the read buffer   *)
(* as is asked for, zeros once the response is used up.                    *)
Filled(r, len) ==
    [i \in 1..Len(r) |-> IF i > len THEN r[i]
                         ELSE IF i <= Len(app.response) THEN app.response[i] ELSE 0]
(* ConsumedNot is wrong on purpose.                                        *)
ConsumedNot(n) == app.response
Consumed(n) == SubSeq(app.response, Least(n, Len(app.response)) + 1, Len(app.response))

transfer(sent, r, len) ==
    LET n == Least(len, Len(r)) IN
    /\ Len(app.written \o sent) <= MaxLen /\ Len(app.heard) + n <= MaxLen + 1
    /\ app' = [app EXCEPT !.response = Consumed(n), !.written = @ \o sent,
                          !.heard = @ \o SubSeq(Filled(r, n), 1, n),
                          !.last = <<[before |-> r, after |-> Filled(r, n), n |-> n]>>]

Clocked(len) == [i \in 1..len |-> 255]

(* The four calls, each refused when a buffer is shorter than the length.  *)
(* In place lends the read buffer only, so the fake finds none to write.   *)
write_read_sync ==
    \E w \in Buffers, r \in Lent : \E len \in 0..Least(Len(w), Len(r)) :
       transfer(SubSeq(w, 1, len), r, len)
write_sync == \E w \in Buffers : \E len \in 0..Len(w) : transfer(SubSeq(w, 1, len), << >>, len)
read_sync == \E r \in Lent : \E len \in 0..Len(r) : transfer(Clocked(len), r, len)
inplace_write_read_sync == \E r \in Lent : \E len \in 0..Len(r) : transfer(<< >>, r, len)

Next == set_response \/ take_written \/ write_read_sync \/ write_sync \/ read_sync
        \/ inplace_write_read_sync

-----------------------------------------------------------------------------
(* What a process has read, over all its transfers, is the response from   *)
(* its beginning, each byte once, then zeros, however the transfers cut it *)
(* up and whatever was only written in between; and of a buffer nothing is *)
(* touched past the length asked for.                                      *)
BytesInOrder ==
    /\ \A i \in 1..Len(app.heard) :
          app.heard[i] = IF i <= Len(app.promised) THEN app.promised[i] ELSE 0
    /\ app.last # << >> =>
          LET t == app.last[1] IN SubSeq(t.after, t.n + 1, Len(t.after))
                                = SubSeq(t.before, t.n + 1, Len(t.before))
=============================================================================
