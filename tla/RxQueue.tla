------------------------------ MODULE RxQueue ------------------------------
(***************************************************************************)
(* What the receive ring of apis/net/ieee802154 promises: a queue of at    *)
(* most Cap frames that favours the newest, read in order of arrival.      *)
(***************************************************************************)
EXTENDS Integers, Sequences, SequencesExt

CONSTANT Cap

VARIABLES pending,  (* frames received and not yet returned, oldest first   *)
          frame     (* the frame receive_frame returned last, 0 if none     *)

Init == pending = << >> /\ frame = 0

Newest(q) == SubSeq(q, Len(q) - (IF Len(q) < Cap THEN Len(q) ELSE Cap) + 1, Len(q))

(* A frame newer than all before it comes in; it may push the oldest out.  *)
Arrive ==
    /\ Len(pending') > 0
    /\ \A f \in ToSet(pending) \cup {frame} : Last(pending') > f
    /\ pending' = Newest(Append(pending, Last(pending')))
    /\ UNCHANGED frame

Return ==
    /\ pending # << >>
    /\ frame' = Head(pending)
    /\ pending' = Tail(pending)

Next == Arrive \/ Return

Spec == Init /\ [][Next]_<<pending, frame>>
=============================================================================
