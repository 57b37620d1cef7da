----------------------------- MODULE MCSyncCall -----------------------------
(***************************************************************************)
(* Instances of SyncCall for TLC, made of the functions of DriverApis.     *)
(***************************************************************************)
EXTENDS SyncCall, DriverApis

MCTarget == 1..MaxDepth

(* Every upcall slot and every buffer number of the functions in apis.     *)
SlotsOf(apis) ==
    {a.slot : a \in apis} \cup
    UNION {{a.lends[i] : i \in 1..Len(a.lends)} : a \in apis}

(* Every blocking function, under interrupts whose listeners call them too. *)
EveryApi == BlockingApis \cup InterruptApis
EverySlot == SlotsOf(EveryApi)

(* They are of the kind the theorems are about.                            *)
ASSUME EveryApiAssumption == Disciplined(EveryApi, {"buttons", "gpio"})

(* What examples/buttons.rs does, a listener that prints, and functions    *)
(* with no buffer and with one the driver fills.                           *)
ButtonApis == {ConsoleWrite, ConsoleRead, SleepFor, Buttons}
ButtonSlot == SlotsOf(ButtonApis)

(* Functions of one driver with different buffers, under a listener that   *)
(* calls them.                                                             *)
StoreApis == {KvGet, KvInsert, KvDelete, Buttons}
StoreSlot == SlotsOf(StoreApis)

ProximityApis == {ReadProximity, Buttons}
ProximitySlot == SlotsOf(ProximityApis)
=============================================================================
