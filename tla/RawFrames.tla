----------------------------- MODULE RawFrames -----------------------------
(***************************************************************************)
(* The two raw 802.15.4 examples.  ieee802154_tx_raw.rs puts a frame       *)
(* together by fixed offsets once a second and retries the same number     *)
(* when it failed; ieee802154_rx_raw.rs takes apart whatever its radio     *)
(* received, from this sender or another.  The air loses frames.  A byte   *)
(* is the name of its field and its place in it; a number travels as one.  *)
(***************************************************************************)
EXTENDS Naturals, Sequences

CONSTANTS Byte, Half,     (* 2^8 and 2^16, of the two numbers of a frame     *)
          MaxSent         (* bound on the frames the sender sends            *)

FramesAssumption == {Byte, Half, MaxSent} \subseteq Nat \ {0} /\ Byte < Half

VARIABLE app

Bytes(field, n) == [i \in 1..n |-> <<field, i>>]
At(l) == app.at = l

-----------------------------------------------------------------------------
(* The receiver.  print_frame reads the two bytes of frame control, then   *)
(* each part of the header that they announce; a part that is cut short,   *)
(* or of an address mode it does not know, ends it.                        *)
Mode == {"none", "reserved", "short", "extended"}
Control == [kind : {"data", "opaque", "command"}, newer : BOOLEAN, compressed : BOOLEAN,
            suppressed : BOOLEAN, dst : Mode, src : Mode]

AddressSize(mode) == CASE mode = "short" -> 2 [] mode = "extended" -> 8 [] OTHER -> 0

(* ToReadPlain is wrong on purpose: it looks for the PAN of the source     *)
(* although the destination's stands for it.                               *)
ToReadPlain(c) ==
    << <<"sequence", IF c.suppressed THEN 0 ELSE 1>>, <<"destination pan", 0>>,
       <<"destination", AddressSize(c.dst)>>, <<"source pan", 2>>,
       <<"source", AddressSize(c.src)>> >>
ToRead(c) ==
    << <<"sequence", IF c.suppressed THEN 0 ELSE 1>>,
       <<"destination pan", IF c.dst = "none" THEN 0 ELSE 2>>,
       <<"destination", AddressSize(c.dst)>>,
       <<"source pan", IF c.src = "none" \/ c.compressed THEN 0 ELSE 2>>,
       <<"source", AddressSize(c.src)>> >>

Malformed(c, part) ==
    \/ part = "destination" /\ c.dst = "reserved"
    \/ part = "source pan" /\ c.src # "none" /\ c.compressed /\ c.dst = "none"
    \/ part = "source" /\ c.src = "reserved"

ReadPart(f, s, p) ==
    IF s.end # "reading" THEN s
    ELSE IF Malformed(f[1], p[1]) \/ s.offset + p[2] > Len(f) THEN [s EXCEPT !.end = "malformed"]
    ELSE [s EXCEPT !.offset = @ + p[2],
                   !.said = @ \o SubSeq(f, s.offset + 1, s.offset + p[2])]

(* The parts of the header are read one after the other.                   *)
ReadHeader(f, begun) ==
    LET part == ToRead(f[1])
        numbered == ReadPart(f, begun, part[1])
        there == ReadPart(f, ReadPart(f, numbered, part[2]), part[3])
    IN  ReadPart(f, ReadPart(f, there, part[4]), part[5])

PrintFrame(f) ==
    LET said(e) == [end |-> e, offset |-> 2, said |-> << >>] IN
    IF Len(f) < 2 THEN said("malformed")
    ELSE IF f[1].newer THEN said("not supported")
    ELSE LET s == ReadHeader(f, said("reading")) IN
         IF s.end = "malformed" THEN s
         ELSE [s EXCEPT !.end = CASE f[1].kind = "data" -> "payload"
                                  [] f[1].kind = "opaque" -> "not supported"
                                  [] f[1].kind = "command" -> "header"]

Payload(f) == IF PrintFrame(f).end = "payload"
              THEN SubSeq(f, PrintFrame(f).offset + 1, Len(f)) ELSE << >>

-----------------------------------------------------------------------------
(* The sender.                                                             *)
FCF == [kind |-> "data", newer |-> FALSE, compressed |-> TRUE, suppressed |-> FALSE,
        dst |-> "short", src |-> "short"]

Initialized ==
    <<FCF, <<"fcf", 1>>, <<"sequence", 0>> >> \o Bytes("pan", 2) \o Bytes("to", 2) \o Bytes("from", 2)
    \o Bytes("beacon", 1) \o << <<"counter", 0>> >>

Init == app = [at |-> "configure", frame |-> << >>, sequence |-> 0, counter |-> 0, no |-> 0,
               again |-> FALSE, air |-> << >>, got |-> << >>, last |-> {}]

(* A configuration that fails is unwrapped.                                *)
Configure ==
    /\ At("configure")
    /\ \E ok \in BOOLEAN :
          app' = [app EXCEPT !.at = IF ok THEN "sleep" ELSE "over",
                             !.frame = IF ok THEN Initialized ELSE @]

Populate ==
    /\ At("sleep") /\ app.no < MaxSent
    /\ \E ok \in BOOLEAN :
          app' = [app EXCEPT !.at = IF ok THEN "transmit" ELSE "over",
                             !.frame = IF ok THEN [@ EXCEPT ![3][2] = app.sequence,
                                                            ![11][2] = app.counter] ELSE @]

(* The frame may have gone although the call reports an error.             *)
Transmit ==
    /\ At("transmit") /\ Len(app.air) < 2
    /\ \E gone, ok \in BOOLEAN :
          /\ ok => gone
          /\ app' = [app EXCEPT
                !.at = "sleep",
                !.air = IF gone THEN Append(@, [bytes |-> app.frame, no |-> app.no,
                                                again |-> app.again]) ELSE @,
                !.again = ~ok,
                !.no = IF ok THEN @ + 1 ELSE @,
                !.sequence = IF ok THEN (@ + 1) % Byte ELSE @,
                !.counter = IF ok THEN (@ + 1) % Half ELSE @]

-----------------------------------------------------------------------------
Heard == IF app.got = << >> THEN app.last ELSE {app.got[1].no}

Lose ==
    /\ app.air # << >>
    /\ app' = [app EXCEPT !.air = Tail(@), !.got = << >>, !.last = Heard]

Receive ==
    /\ app.air # << >>
    /\ app' = [app EXCEPT !.air = Tail(@), !.got = <<Head(app.air)>>, !.last = Heard]

Next == Configure \/ Populate \/ Transmit \/ Lose \/ Receive

-----------------------------------------------------------------------------
(* A frame of any neighbour, by the standard's layout, cut anywhere.       *)
Layout(c) ==
    <<c, <<"fcf", 1>> >>
    \o (IF c.suppressed THEN << >> ELSE Bytes("sequence", 1))
    \o (IF c.dst # "none" THEN Bytes("pan", 2) ELSE << >>)
    \o Bytes("to", AddressSize(c.dst))
    \o (IF c.src # "none" /\ ~c.compressed THEN Bytes("own pan", 2) ELSE << >>)
    \o Bytes("from", AddressSize(c.src))

InitNeighbour ==
    \E c \in Control : \E n \in 0..Len(Layout(c)) + 2 :
       app = [control |-> c, frame |-> SubSeq(Layout(c) \o Bytes("beacon", 2), 1, n)]

(* What is printed of a header is the header, whole parts of it in their   *)
(* order, and the payload is what follows it, wherever the frame was cut;  *)
(* a header that is cut, or has no such layout, is never taken for one.    *)
HeaderIsRead ==
    LET c == app.control  f == app.frame  p == PrintFrame(f)
        whole == Len(f) >= Len(Layout(c))
        known == /\ "reserved" \notin {c.dst, c.src}
                 /\ ~(c.compressed /\ c.dst = "none" /\ c.src # "none")
    IN /\ p.said = SubSeq(Layout(c), 3, p.offset)
       /\ p.end = "malformed" <=> Len(f) < 2 \/ (~c.newer /\ ~(whole /\ known))
       /\ p.end = "payload" => Payload(f) = SubSeq(f, Len(Layout(c)) + 1, Len(f))

(* A frame that is received says what was sent: its two numbers belong     *)
(* together although each wraps at a width of its own, and frames are      *)
(* heard in the order of their numbers, one of them twice only if the      *)
(* sender was told that it had failed (ieee802154_tx_raw.rs:162).          *)
FramesAreRead ==
    app.got # << >> =>
       LET g == app.got[1]  p == PrintFrame(g.bytes) IN
       /\ p.said = << <<"sequence", g.no % Byte>> >> \o Bytes("pan", 2) \o Bytes("to", 2) \o Bytes("from", 2)
       /\ Payload(g.bytes) = << <<"beacon", 1>>, <<"counter", g.no % Half>> >>
       /\ \A n \in app.last : n < g.no \/ (n = g.no /\ g.again)
=============================================================================
