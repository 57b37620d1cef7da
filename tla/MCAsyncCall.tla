---------------------------- MODULE MCAsyncCall ----------------------------
(***************************************************************************)
(* Instances of AsyncCall for TLC.  Two futures contend for each slot: f1  *)
(* and f2 are BufferedCalls (console reads), f3 and f5 Calls on an event   *)
(* slot (GPIO edges), f4 and f6 Calls on a one-shot slot (sleeps).         *)
(***************************************************************************)
EXTENDS AsyncCall, TLC

CONSTANTS f1, f2, f3, f4, f5, f6, reads, edges, alarms

AllSlotOf == [f \in Target |-> CASE f \in {f1, f2} -> reads
                                 [] f \in {f3, f5} -> edges
                                 [] f \in {f4, f6} -> alarms]

(* Contenders are alike.                                                   *)
Alike == UNION {Permutations(P \cap Target) :
                   P \in {{f1, f2}, {f3, f5}, {f4, f6}}}

(* A slot with no future, of which none was ever parked.                   *)
Untouched(s) ==
    \A f \in Target : SlotOf[f] = s =>
        life[f] = "free" /\ args[f] = Null /\ wake[f] = "none"

(* One future at a time in each slot, in programs that read or sleep and   *)
(* wait for edges: two slots at a time keep the instance small.            *)
TwoSlots == Untouched(reads) \/ Untouched(alarms)

ApartSpec == Init /\ [][Next /\ Exclusive' /\ TwoSlots']_vars
=============================================================================
