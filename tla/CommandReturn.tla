---------------------------- MODULE CommandReturn ----------------------------
(***************************************************************************)
(* What a command answers: a variant and three words, built by a driver    *)
(* with one of ten constructors, carried in four registers, and read by    *)
(* the process as a Result of the types it expects.                        *)
(***************************************************************************)
EXTENDS Integers

CONSTANT MaxWord (* u32::MAX                                               *)

AnswerAssumption == MaxWord \in Nat

VARIABLE app

U32 == 0..MaxWord
Base == MaxWord + 1

(* ErrorCode: every code from 1 to 1024 is a member of the enumeration, so *)
(* that the transmute of r1 is defined.  BadRVal is never the kernel's.    *)
Codes == 1..MaxWord
BadRVal == 0

(* ReturnVariant.                                                          *)
FAILURE == 0
FAILURE_U32 == 1
FAILURE_2_U32 == 2
FAILURE_U64 == 3
SUCCESS == 128
SUCCESS_U32 == 129
SUCCESS_2_U32 == 130
SUCCESS_U64 == 131
SUCCESS_3_U32 == 132
SUCCESS_U32_U64 == 133
Failures == FAILURE .. FAILURE_U64
Successes == SUCCESS .. SUCCESS_U32_U64

(* The data of a variant: words, or one of two widths.                     *)
Long == 0 .. Base * Base - 1
low(v) == v % Base
high(v) == v \div Base

Raw(v, r1, r2, r3) == [variant |-> v, r1 |-> r1, r2 |-> r2, r3 |-> r3]
Answer(v, code, data) == [variant |-> v, code |-> code, data |-> data]

(* The constructors of the unittest crate: the answers a driver can mean.  *)
Meant ==
    {Answer(FAILURE, e, << >>) : e \in Codes}
    \cup {Answer(FAILURE_U32, e, <<a>>) : e \in Codes, a \in U32}
    \cup {Answer(FAILURE_2_U32, e, <<a, b>>) : e \in Codes, a, b \in U32}
    \cup {Answer(FAILURE_U64, e, <<a>>) : e \in Codes, a \in Long}
    \cup {Answer(SUCCESS, 0, << >>)}
    \cup {Answer(SUCCESS_U32, 0, <<a>>) : a \in U32}
    \cup {Answer(SUCCESS_2_U32, 0, <<a, b>>) : a, b \in U32}
    \cup {Answer(SUCCESS_U64, 0, <<a>>) : a \in Long}
    \cup {Answer(SUCCESS_3_U32, 0, <<a, b, c>>) : a, b, c \in U32}
    \cup {Answer(SUCCESS_U32_U64, 0, <<a, b>>) : a \in U32, b \in Long}

Init == app \in Meant

Built(m) ==
    LET d == m.data IN
    CASE m.variant \in {FAILURE} -> Raw(m.variant, m.code, 0, 0)
      [] m.variant = FAILURE_U32 -> Raw(m.variant, m.code, d[1], 0)
      [] m.variant = FAILURE_2_U32 -> Raw(m.variant, m.code, d[1], d[2])
      [] m.variant = FAILURE_U64 -> Raw(m.variant, m.code, low(d[1]), high(d[1]))
      [] m.variant = SUCCESS -> Raw(m.variant, 0, 0, 0)
      [] m.variant = SUCCESS_U32 -> Raw(m.variant, d[1], 0, 0)
      [] m.variant = SUCCESS_2_U32 -> Raw(m.variant, d[1], d[2], 0)
      [] m.variant = SUCCESS_U64 -> Raw(m.variant, low(d[1]), high(d[1]), 0)
      [] m.variant = SUCCESS_3_U32 -> Raw(m.variant, d[1], d[2], d[3])
      [] m.variant = SUCCESS_U32_U64 -> Raw(m.variant, d[1], low(d[2]), high(d[2]))

-----------------------------------------------------------------------------
(* The traits SuccessData and FailureData: the data of a type, of the raw  *)
(* words.                                                                  *)
u64(lo, hi) == lo + hi * Base

SuccessData(v, r1, r2, r3) ==
    CASE v = SUCCESS -> << >>
      [] v = SUCCESS_U32 -> <<r1>>
      [] v = SUCCESS_2_U32 -> <<r1, r2>>
      [] v = SUCCESS_U64 -> <<u64(r1, r2)>>
      [] v = SUCCESS_3_U32 -> <<r1, r2, r3>>
      [] v = SUCCESS_U32_U64 -> <<r1, u64(r2, r3)>>

FailureData(v, r2, r3) ==
    CASE v = FAILURE -> << >>
      [] v = FAILURE_U32 -> <<r2>>
      [] v = FAILURE_2_U32 -> <<r2, r3>>
      [] v = FAILURE_U64 -> <<u64(r2, r3)>>

(* to_result::<T, E>, T and E being named by their variants: what is       *)
(* neither is BadRVal, and its data is 0.                                  *)
Ok(data) == [is |-> "Ok", code |-> 0, data |-> data]
Err(code, data) == [is |-> "Err", code |-> code, data |-> data]

(* Wrong on purpose: keeps the data of a variant that is not E's.          *)
to_result_stale(c, T, E) ==
    IF c.variant = T THEN Ok(SuccessData(T, c.r1, c.r2, c.r3))
    ELSE IF c.variant = E THEN Err(c.r1, FailureData(E, c.r2, c.r3))
    ELSE Err(BadRVal, FailureData(E, c.r2, c.r3))

to_result(c, T, E) ==
    IF c.variant = T THEN Ok(SuccessData(T, c.r1, c.r2, c.r3))
    ELSE IF c.variant = E THEN Err(c.r1, FailureData(E, c.r2, c.r3))
    ELSE Err(BadRVal, FailureData(E, 0, 0))

(* The getters of one variant each: no value for any other.                *)
get(c, v) ==
    IF c.variant # v THEN "None"
    ELSE IF v \in Failures THEN Err(c.r1, FailureData(v, c.r2, c.r3))
    ELSE Ok(SuccessData(v, c.r1, c.r2, c.r3))

-----------------------------------------------------------------------------
(* Whatever types the process expects, it reads what the driver meant or   *)
(* BadRVal without data: never success for a failure, never another        *)
(* variant's words, and no code that is not an ErrorCode.                  *)
AnswerIsRead ==
    LET c == Built(app)
        meant == IF app.variant \in Failures THEN Err(app.code, app.data) ELSE Ok(app.data) IN
    /\ \A v \in Failures \cup Successes :
          get(c, v) = IF v = app.variant THEN meant ELSE "None"
    /\ \A T \in Successes, E \in Failures :
          LET r == to_result(c, T, E) IN
          IF app.variant \in {T, E} THEN r = meant
          ELSE r.code = BadRVal /\ \A i \in DOMAIN r.data : r.data[i] = 0
    /\ app.variant \in Failures => c.r1 \in Codes
=============================================================================
