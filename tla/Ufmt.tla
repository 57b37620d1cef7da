-------------------------------- MODULE Ufmt --------------------------------
(***************************************************************************)
(* The Formatter of ufmt (ufmt/src/lib.rs) and the builders that print     *)
(* lists, maps, sets, structs and tuples with it (helpers.rs).  Formatting *)
(* is a walk down and up a value: scopes that change the settings and put  *)
(* them back, builders that indent, numbers that pad themselves, and       *)
(* writes, any of which may fail and be propagated by ?.  Text is its      *)
(* length.                                                                 *)
(***************************************************************************)
EXTENDS Integers, Sequences, FiniteSets

CONSTANTS Width,    (* widths a format string asks for                      *)
          Length,   (* lengths of the texts written                         *)
          MaxDepth, (* bound on the scopes and builders open at once        *)
          MaxOut,   (* bound on the bytes written                           *)
          MaxLeak   (* bound on the indentation left behind                 *)

UfmtAssumption ==
    /\ Width \subseteq 0..18 /\ Length \subseteq Nat
    /\ MaxDepth \in Nat /\ MaxOut \in Nat /\ MaxLeak \in Nat

VARIABLES fmt,    (* the Formatter's fields but its writer                  *)
          open,   (* what is open, outermost first                          *)
          out,    (* bytes the writer has taken                             *)
          leaked  (* maps and sets finished with pretty on                  *)

ufmtVars == <<fmt, open, out, leaked>>

Fresh == [indentation |-> 0, pretty |-> FALSE, hex |-> FALSE,
          width |-> -1, pad |-> " ", bytes_written |-> 0]

(* Formatter::new.                                                         *)
Init == fmt = Fresh /\ open = << >> /\ out = 0 /\ leaked = 0

Builder == {"list", "map", "set", "struct", "tuple"}
Scope == {"pretty", "hex", "fixed_width"}

Settings == [pretty |-> fmt.pretty, hex |-> fmt.hex, width |-> fmt.width, pad |-> fmt.pad]
top == open[Len(open)]
Pop == SubSeq(open, 1, Len(open) - 1)
Writing(n) == [fmt EXCEPT !.bytes_written = @ + n]
Puts(n) == out' = out + n /\ out' <= MaxOut

(* Text can be written where a value or a piece of a format string may be: *)
(* anywhere but between two entries of a builder.                          *)
Ready == open # << >> => IF top.kind \in Scope THEN TRUE ELSE top.inside

-----------------------------------------------------------------------------
(* Formatter::write_str.                                                   *)
WriteStr(n) ==
    /\ Ready
    /\ Puts(n) /\ fmt' = Writing(n)
    /\ UNCHANGED <<open, leaked>>

(* A number is padded to the width in force by its own impl.               *)
WriteNumber(n) ==
    /\ Ready
    /\ LET text == IF fmt.width > n THEN fmt.width ELSE n
       IN  Puts(text) /\ fmt' = Writing(text)
    /\ UNCHANGED <<open, leaked>>

(* A write fails: the ? operators abandon whatever is open, and leave the *)
(* fields as they are.  Or the text is complete.  Either way the next      *)
(* uwrite! makes a Formatter of its own.                                   *)
NextWrite ==
    /\ fmt # Fresh
    /\ fmt' = Fresh /\ open' = << >> /\ out' = 0 /\ leaked' = 0

-----------------------------------------------------------------------------
(* pretty, hex and fixed_width set the fields, run the closure and put     *)
(* them back; fixed_width fills up with blanks first.                      *)
Enter(kind, settings) ==
    /\ Ready /\ Len(open) < MaxDepth
    /\ open' = Append(open, [kind |-> kind, old |-> Settings, start |-> out])
    /\ fmt' = settings
    /\ UNCHANGED <<out, leaked>>

EnterPretty == Enter("pretty", [fmt EXCEPT !.pretty = TRUE])

EnterHex(p) == Enter("hex", [fmt EXCEPT !.pretty = p, !.hex = TRUE])

(* Wrong on purpose: the bytes are counted on from the enclosing text.     *)
EnterWidthCountsOn(p, h, w, pad) ==
    Enter("fixed_width", [fmt EXCEPT !.pretty = p, !.hex = h, !.width = w, !.pad = pad])

EnterWidth(p, h, w, pad) ==
    Enter("fixed_width",
          [fmt EXCEPT !.pretty = p, !.hex = h, !.width = w, !.pad = pad, !.bytes_written = 0])

(* Wrong on purpose: the width stays in force.                             *)
LeaveKeepsWidth ==
    /\ open # << >> /\ top.kind \in Scope
    /\ open' = Pop
    /\ fmt' = [fmt EXCEPT !.hex = top.old.hex, !.pretty = top.old.pretty]
    /\ UNCHANGED <<out, leaked>>

Leave ==
    /\ open # << >> /\ top.kind \in Scope
    /\ open' = Pop
    /\ LET blanks == IF /\ top.kind = "fixed_width" /\ fmt.pad = " "
                        /\ fmt.width > fmt.bytes_written
                     THEN fmt.width - fmt.bytes_written ELSE 0
           now == Writing(blanks)
       IN  /\ Puts(blanks)
           /\ fmt' = CASE top.kind = "pretty" -> [now EXCEPT !.pretty = top.old.pretty]
                       [] top.kind = "hex" ->
                            [now EXCEPT !.pretty = top.old.pretty, !.hex = top.old.hex]
                       [] top.kind = "fixed_width" ->
                            [now EXCEPT !.pretty = top.old.pretty, !.hex = top.old.hex,
                                        !.width = top.old.width, !.pad = top.old.pad]
    /\ UNCHANGED leaked

-----------------------------------------------------------------------------
Indent(f) == 4 * f.indentation

(* debug_list, debug_map, debug_set, debug_struct and debug_tuple: a       *)
(* bracket or the name, n bytes.                                           *)
OpenBuilder(kind, n) ==
    /\ Ready /\ Len(open) < MaxDepth
    /\ kind \in {"list", "map", "set"} => n = 1
    /\ Puts(n)
    /\ fmt' = [Writing(n) EXCEPT !.indentation = IF fmt.pretty THEN @ + 1 ELSE @]
    /\ open' = Append(open, [kind |-> kind, pretty |-> fmt.pretty, inside |-> FALSE,
                             first |-> TRUE, fields |-> 0, unnamed |-> n = 0])
    /\ UNCHANGED leaked

(* entry and field, up to the value: what opens the fields, the separator, *)
(* the indentation.                                                        *)
BeginEntry ==
    /\ open # << >> /\ top.kind \in Builder /\ ~top.inside
    /\ LET opener == IF ~top.first THEN IF fmt.pretty THEN 0 ELSE 2
                     ELSE CASE top.kind = "struct" -> 3
                            [] top.kind = "tuple" -> IF fmt.pretty THEN 2 ELSE 1
                            [] OTHER -> IF fmt.pretty THEN 1 ELSE 0
           n == opener + (IF fmt.pretty THEN Indent(fmt) ELSE 0)
       IN  Puts(n) /\ fmt' = Writing(n)
    /\ open' = [open EXCEPT ![Len(open)].inside = TRUE, ![Len(open)].first = FALSE,
                            ![Len(open)].fields = IF @ < 2 THEN @ + 1 ELSE @]
    /\ UNCHANGED leaked

(* ... and after the value.                                                *)
EndEntry ==
    /\ open # << >> /\ top.kind \in Builder /\ top.inside
    /\ LET n == IF fmt.pretty THEN 2 ELSE 0
       IN  Puts(n) /\ fmt' = Writing(n)
    /\ open' = [open EXCEPT ![Len(open)].inside = FALSE]
    /\ UNCHANGED leaked

(* Wrong on purpose: a tuple with no fields leaves before it steps back.   *)
FinishFieldsForgets ==
    /\ open # << >> /\ top.kind \in {"struct", "tuple"} /\ ~top.inside
    /\ open' = Pop
    /\ fmt' = [fmt EXCEPT !.indentation = IF fmt.pretty /\ ~top.first THEN @ - 1 ELSE @]
    /\ UNCHANGED <<out, leaked>>

(* finish of a struct or a tuple: without fields nothing but the name.     *)
FinishFields ==
    /\ open # << >> /\ top.kind \in {"struct", "tuple"} /\ ~top.inside
    /\ LET back == [fmt EXCEPT !.indentation = IF fmt.pretty THEN @ - 1 ELSE @]
           n == IF top.first THEN 0
                ELSE IF fmt.pretty THEN Indent(back) + 1
                ELSE IF top.kind = "struct" THEN 2
                ELSE IF top.unnamed /\ top.fields = 1 THEN 2 ELSE 1
       IN  Puts(n) /\ fmt' = [back EXCEPT !.bytes_written = @ + n]
    /\ open' = Pop
    /\ UNCHANGED leaked

FinishList ==
    /\ open # << >> /\ top.kind = "list" /\ ~top.inside
    /\ LET back == [fmt EXCEPT !.indentation = IF fmt.pretty THEN @ - 1 ELSE @]
           n == (IF fmt.pretty THEN Indent(back) ELSE 0) + 1
       IN  Puts(n) /\ fmt' = [back EXCEPT !.bytes_written = @ + n]
    /\ open' = Pop
    /\ UNCHANGED leaked

(* finish of a map or a set: the brace alone.                              *)
FinishSet ==
    /\ open # << >> /\ top.kind \in {"map", "set"} /\ ~top.inside
    /\ Puts(1) /\ fmt' = Writing(1)
    /\ open' = Pop
    /\ leaked' = IF fmt.pretty THEN leaked + 1 ELSE leaked
    /\ leaked' <= MaxLeak

Next ==
    \/ \E n \in Length : WriteStr(n) \/ WriteNumber(n)
    \/ NextWrite
    \/ EnterPretty
    \/ \E p \in BOOLEAN : EnterHex(p)
    \/ \E p, h \in BOOLEAN, w \in Width, pad \in {" ", "0"} : EnterWidth(p, h, w, pad)
    \/ Leave
    \/ \E kind \in Builder, n \in Length : OpenBuilder(kind, n)
    \/ BeginEntry \/ EndEntry \/ FinishFields \/ FinishList \/ FinishSet

Spec == Init /\ [][Next]_ufmtVars

-----------------------------------------------------------------------------
Stepped == {i \in 1..Len(open) : open[i].kind \in Builder /\ open[i].pretty}

(* Until a write fails, a value leaves the Formatter as it found it: the   *)
(* settings are those of what is open, and the indentation is one level    *)
(* for each builder open, and one for every map and set ever printed with  *)
(* {:#?}, which DebugMap::finish and DebugSet::finish do not take back     *)
(* (helpers.rs:209, :270).                                                 *)
FormatterBalanced ==
    /\ fmt.indentation = Cardinality(Stepped) + leaked
    /\ open = << >> => fmt = [Fresh EXCEPT !.indentation = leaked,
                                          !.bytes_written = fmt.bytes_written]

(* Whatever is printed with a width and blanks takes at least that many    *)
(* bytes, also when its own impl prints with widths (lib.rs:358).          *)
WidthReached ==
    \A i \in {Len(open)} \ {0} :
       open[i].kind = "fixed_width" /\ Len(open') = i - 1 /\ fmt' # Fresh /\ fmt.pad = " "
          => out' - open[i].start >= fmt.width
=============================================================================
