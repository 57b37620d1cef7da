----------------------------- MODULE DriverApis -----------------------------
(***************************************************************************)
(* The blocking functions and the listeners of apis/, as SyncCall's        *)
(* records.  The table says which of them share an upcall slot and which   *)
(* share a buffer number, which is what decides whether one may be called  *)
(* while another is in progress.                                           *)
(*                                                                         *)
(* A slot is named for its driver, and for its subscribe number where the  *)
(* driver has several.  A buffer that the driver fills has the name of the *)
(* upcall slot; buffers the driver reads, and the second buffer of a       *)
(* driver that fills two, have names of their own.                         *)
(***************************************************************************)

Blocking(slot, lends) ==
    [slot |-> slot, lends |-> lends, listener |-> FALSE, loops |-> TRUE]

YieldsOnce(slot, lends) ==
    [slot |-> slot, lends |-> lends, listener |-> FALSE, loops |-> FALSE]

Listening(slot) ==
    [slot |-> slot, lends |-> << >>, listener |-> TRUE, loops |-> TRUE]

(* interface                                                               *)
ConsoleWrite == Blocking("console.write", <<"console.ro">>)
ConsoleRead  == Blocking("console.read", <<"console.read">>)
ToneSync     == Blocking("buzzer", << >>)
Buttons      == Listening("buttons")

(* display: every screen operation answers through one slot                *)
ScreenSet    == Blocking("screen", << >>)
ScreenWrite  == Blocking("screen", <<"screen.ro">>)

(* storage                                                                 *)
KvGet        == Blocking("kv", <<"kv.key", "kv">>)
KvInsert     == Blocking("kv", <<"kv.key", "kv.value">>)
KvDelete     == Blocking("kv", <<"kv.key">>)

(* net                                                                     *)
TransmitFrame == Blocking("radio.transmit", <<"radio.ro">>)

(* peripherals                                                             *)
SleepFor     == Blocking("alarm", << >>)
StepperRun   == Blocking("stepper", << >>)
GetBytesSync == Blocking("rng", <<"rng">>)
SampleSync   == Blocking("adc", << >>)
GpioListener == Listening("gpio")

SpiWriteRead == Blocking("spi", <<"spi", "spi.ro">>)
SpiWrite     == Blocking("spi", <<"spi.ro">>)
SpiRead      == Blocking("spi", <<"spi">>)

I2cMaster    == Blocking("i2c", <<"i2c">>)

(* I2CMasterSlave: "Everything in this module subscribes to `0`"           *)
I2cWrite     == Blocking("i2cms", <<"i2cms.tx">>)
I2cRead      == Blocking("i2cms", <<"i2cms">>)
I2cWriteRead == Blocking("i2cms", <<"i2cms", "i2cms.tx">>)
I2cSlaveRecv == Blocking("i2cms", <<"i2cms.slave.rx">>)
I2cSlaveSend == Blocking("i2cms", <<"i2cms.slave.tx">>)

(* sensors                                                                 *)
ReadTemperature == Blocking("temperature", << >>)
ReadIntensity   == Blocking("ambient", << >>)
ReadPressure    == Blocking("sound", << >>)
ReadNineDof     == Blocking("ninedof", << >>)
ReadAirQuality  == Blocking("air", << >>)
ReadProximity   == YieldsOnce("proximity", << >>)
WaitProximity   == Blocking("proximity", << >>)

(* What SyncCall's properties are checked for: all the blocking functions  *)
(* but the one that yields once, and the listeners of interrupts.          *)
BlockingApis ==
    {ConsoleWrite, ConsoleRead, ToneSync, ScreenSet, ScreenWrite, KvGet,
     KvInsert, KvDelete, TransmitFrame, SleepFor, StepperRun, GetBytesSync,
     SampleSync, SpiWriteRead, SpiWrite, SpiRead, I2cMaster, I2cWrite,
     I2cRead, I2cWriteRead, I2cSlaveRecv, I2cSlaveSend, ReadTemperature,
     ReadIntensity, ReadPressure, ReadNineDof, ReadAirQuality,
     WaitProximity}

InterruptApis == {Buttons, GpioListener}
=============================================================================
