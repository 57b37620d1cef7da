------------------------------ MODULE UfmtParse ------------------------------
(***************************************************************************)
(* The format strings of uwrite!: parse and unescape of ufmt's macros.  A  *)
(* format string is a sequence of tokens: braces, a stretch "a" of other   *)
(* text, the specifier "D" of :? and :#?, and "W" of a width, pad or hex   *)
(* that is a well-formed one, "B" of one that asks for too much.           *)
(***************************************************************************)
EXTENDS Integers, Sequences, FiniteSetsExt

CONSTANT MaxTokens (* tokens of a format string                            *)

TokensAssumption == MaxTokens \in Nat

VARIABLE app

Token == {"{", "}", "a", "D", "W", "B"}

Init == app \in UNION {[1..n -> Token] : n \in 0..MaxTokens}

-----------------------------------------------------------------------------
(* A parse is an error or a sequence of pieces; text is a piece.           *)
Str(s) == [kind |-> "str", text |-> s]
Spec1(k) == [kind |-> k, text |-> << >>]
Error == <<Spec1("error")>>
BadText == <<"error">>
Drop(s, n) == SubSeq(s, n + 1, Len(s))
Begins(s, p) == Len(s) >= Len(p) /\ SubSeq(s, 1, Len(p)) = p
IndexOf(s, t) == LET all == {i \in 1..Len(s) : s[i] = t} IN
                 IF all = {} THEN 0 ELSE Min(all)

(* }} becomes }; a single one is an error.                                 *)
unescape[s \in Seq(Token)] ==
    LET i == IndexOf(s, "}") IN
    IF i = 0 THEN s
    ELSE IF ~Begins(Drop(s, i), <<"}">>) THEN BadText
    ELSE LET rest == unescape[Drop(s, i + 1)] IN
         IF rest = BadText THEN BadText ELSE SubSeq(s, 1, i) \o rest

(* What may follow a brace that opens a piece, and how long it is.         *)
Opened(tail) == CASE Begins(tail, <<"}">>) -> 1
                  [] Begins(tail, <<"D", "}">>) \/ Begins(tail, <<"W", "}">>) -> 2
                  [] OTHER -> 0

(* Text is gathered in buf only once an escaped brace has been met.        *)
Text(buf, s) == LET u == unescape[s] IN IF u = BadText THEN BadText ELSE buf \o u

(* PieceIfAny is wrong on purpose: a piece for text that is empty.          *)
PieceIfAny(text) == <<Str(text)>>
Piece(text) == IF text = << >> THEN << >> ELSE <<Str(text)>>

Then(piece, rest) == IF rest = Error THEN Error ELSE piece \o rest

(* What is read of s, with the text in buf before it.                      *)
Parse[p \in Seq(Token) \X Seq(Token)] ==
    LET buf == p[1]
        s == p[2]
        i == IndexOf(s, "{")
        text == Text(buf, IF i = 0 THEN s ELSE SubSeq(s, 1, i - 1))
        tail == Drop(s, i)
        n == Opened(tail) IN
    IF text = BadText THEN Error
    ELSE IF i = 0 THEN Piece(text)
    ELSE IF n > 0 THEN Then(Piece(text) \o <<Spec1(tail[1])>>, Parse[<< << >>, Drop(tail, n) >>])
    ELSE IF Begins(tail, <<"{">>) THEN Parse[<<text \o <<"{">>, Drop(tail, 1)>>]
    ELSE Error

-----------------------------------------------------------------------------
(* The same, read once from left to right.                                 *)
Scan[p \in Seq(Token) \X Seq(Token)] ==
    LET text == p[1]
        s == p[2]
        before == IF text = << >> THEN << >> ELSE <<Str(text)>>
        n == Opened(Drop(s, 1)) IN
    IF s = << >> THEN before
    ELSE IF Begins(s, <<"{", "{">>) \/ Begins(s, <<"}", "}">>)
    THEN Scan[<<text \o <<s[1]>>, Drop(s, 2)>>]
    ELSE IF s[1] = "}" THEN Error
    ELSE IF s[1] # "{" THEN Scan[<<text \o <<s[1]>>, Drop(s, 1)>>]
    ELSE IF n = 0 THEN Error
    ELSE Then(before \o <<Spec1(s[2])>>, Scan[<< << >>, Drop(s, 1 + n)>>])

(* What a format string means does not depend on how the macro cuts it:    *)
(* braces, escapes and specifiers are those a reading from left to right   *)
(* finds, the same strings are refused, and no text is lost or empty.      *)
FormatIsRead == Parse[<< << >>, app>>] = Scan[<< << >>, app>>]
=============================================================================
