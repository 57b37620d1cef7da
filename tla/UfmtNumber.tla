----------------------------- MODULE UfmtNumber -----------------------------
(***************************************************************************)
(* How ufmt prints an integer or a pointer: digits, prefix, sign and       *)
(* padding are put into a buffer of fixed size from its end, each at an    *)
(* index the code tells the compiler cannot be outside.  A number is the   *)
(* sequence of its digits, the width and the rest what a format string     *)
(* may ask for.                                                            *)
(***************************************************************************)
EXTENDS Integers, Sequences

VARIABLE app

(* The digits a value can have in base 10 and 16, and the buffer of its    *)
(* impl; a signed type prints hex as the unsigned one of its width.        *)
Kind(dec, hex, size, buffer, signed) ==
    [dec |-> dec, hex |-> hex, size |-> size, buffer |-> buffer, signed |-> signed]

Types == [u8 |-> Kind(3, 2, 18, 18, FALSE), u16 |-> Kind(5, 4, 18, 18, FALSE),
          u32 |-> Kind(10, 8, 20, 20, FALSE), u64 |-> Kind(20, 16, 30, 30, FALSE),
          u64_32 |-> Kind(20, 16, 28, 28, FALSE), u128 |-> Kind(39, 32, 49, 49, FALSE),
          i8 |-> Kind(3, 2, 18, 18, TRUE), i16 |-> Kind(5, 4, 18, 18, TRUE),
          i32 |-> Kind(10, 8, 21, 20, TRUE), i64 |-> Kind(19, 16, 30, 30, TRUE),
          i64_32 |-> Kind(19, 16, 30, 28, TRUE), i128 |-> Kind(39, 32, 50, 49, TRUE),
          ptr_16 |-> Kind(0, 4, 6, 6, FALSE), ptr_32 |-> Kind(0, 8, 10, 10, FALSE),
          ptr_64 |-> Kind(0, 16, 18, 18, FALSE)]

Pointers == {"ptr_16", "ptr_32", "ptr_64"}
MaxWidth == 18
NoWidth == -1

(* Any digits will do: here each says where it stands.                     *)
Digits(n) == [k \in 1..n |-> k % 10]

Init ==
    \E t \in DOMAIN Types, hex, pretty, negative \in BOOLEAN,
       width \in NoWidth..MaxWidth, pad \in {" ", "0"} :
       /\ negative => Types[t].signed /\ ~hex
       /\ t \in Pointers => hex /\ pretty /\ width = NoWidth
       /\ width = NoWidth => pad = " "
       /\ \E n \in 1 .. (IF hex THEN Types[t].hex ELSE Types[t].dec) :
             app = [type |-> t, hex |-> hex, pretty |-> pretty, negative |-> negative,
                    width |-> width, pad |-> pad, digits |-> Digits(n)]

-----------------------------------------------------------------------------
(* The buffer: what has been put, and the index of its first byte.  Going  *)
(* below 0 is what the code assumes to be unreachable.                     *)
Put(b, text) == [at |-> b.at - Len(text), text |-> text \o b.text]
Filler(n, pad) == [k \in 1..n |-> pad]

(* FillOneMore is wrong on purpose: >= for >.                              *)
FillOneMore(b, len, w, pad) ==
    LET n == b.at - (len - w) + 1 IN
    IF n > 0 THEN Put(b, Filler(n, pad)) ELSE b

(* The padding loop runs while i > len - w.                                *)
Fill(b, len, w, pad) ==
    LET n == b.at - (len - w) IN
    IF n > 0 THEN Put(b, Filler(n, pad)) ELSE b

(* The prefix is put before blanks are filled in and after zeros are; in   *)
(* the latter case it is taken from the width, a u8 that may be smaller.   *)
PadWith(prefix, len) ==
    LET b == Put([at |-> len, text |-> << >>], app.digits) IN
    CASE app.width = NoWidth -> Put(b, prefix)
      [] app.width # NoWidth /\ app.pad = " " -> Fill(Put(b, prefix), len, app.width, " ")
      [] OTHER -> IF app.width < Len(prefix) THEN [at |-> 0, text |-> <<"panic">>]
                  ELSE Put(Fill(b, len, app.width - Len(prefix), "0"), prefix)

uxx_pad(len) == PadWith(<< >>, len)
uxx_hex_pad(len) == PadWith(IF app.pretty THEN <<"0", "x">> ELSE << >>, len)
ixx_pad(len) == PadWith(IF app.negative THEN <<"-">> ELSE << >>, len)

(* hex, of a pointer, knows no width.                                      *)
ptr_hex(len) == Put([at |-> len, text |-> << >>], <<"0", "x">> \o app.digits)

fmt == LET t == Types[app.type] IN
       CASE app.type \in Pointers -> ptr_hex(t.size)
         [] app.hex /\ app.type \notin Pointers -> uxx_hex_pad(t.buffer)
         [] ~app.hex /\ t.signed -> ixx_pad(t.size)
         [] OTHER -> uxx_pad(t.size)

-----------------------------------------------------------------------------
(* What is asked for: prefix and digits, filled up to the width on the     *)
(* left with blanks, or with zeros between the two.                        *)
Expected ==
    LET prefix == IF app.hex THEN (IF app.pretty THEN <<"0", "x">> ELSE << >>)
                  ELSE IF app.negative THEN <<"-">> ELSE << >>
        missing == app.width - Len(prefix) - Len(app.digits)
        filler == IF missing > 0 THEN Filler(missing, app.pad) ELSE << >> IN
    IF app.pad = " " THEN filler \o prefix \o app.digits ELSE prefix \o filler \o app.digits

(* Every number is printed as asked, and no index of the unchecked writes  *)
(* is outside the buffer, up to the largest width the macros let through:  *)
(* but a width smaller than the prefix panics where overflow is checked.   *)
NumberIsPadded ==
    /\ fmt.at >= 0
    /\ \/ fmt.text = Expected
       \/ fmt.text = <<"panic">> /\ app.pad = "0" /\ app.width < 2
=============================================================================
