------------------------------- MODULE PciBoot -------------------------------
(***************************************************************************)
(* From kernel_main to the rings (src/src/kernel.c): the serial port is set *)
(* up, the PCI bus is scanned for an Ethernet function, whose first BAR     *)
(* becomes the base of the NIC's registers, and everything is told on the   *)
(* serial console, character by character, while the port sends at its own  *)
(* pace.  A string constant, a reminder of the words, stands for one        *)
(* character; numbers are printed digit by digit.                           *)
(***************************************************************************)
EXTENDS Integers, Sequences

CONSTANTS
    BUSES, DEVS, FNS,   \* 256, 32 and 8 in the code
    Machines            \* sets of PCI functions; see Function

ASSUME ScanAssumption == /\ BUSES \in 1 .. 256 /\ DEVS \in 1 .. 32 /\ FNS \in 1 .. 8

(* What pci_cfg_read can find: one function at a place, whose registers     *)
(* have the widths of the configuration space.                              *)
Place == (0 .. BUSES - 1) \X (0 .. DEVS - 1) \X (0 .. FNS - 1)

ASSUME MachineAssumption ==
    \A m \in Machines : \A f \in m :
        /\ f \in [at : Place, vendor : Nat, device : Nat,
                  class : Nat, subclass : Nat, bar : Nat]
        /\ f.vendor < 65536 /\ f.device < 65536 /\ f.class < 256 /\ f.subclass < 256
        /\ f.bar \div 65536 < 65536
        /\ \A g \in m : f.at = g.at => f = g

VARIABLES
    machine,        \* the functions on the bus
    bus, dev, fn,   \* the scan
    nic_mmio_base,
    pc, ret,        \* where the kernel is; where it goes on after printing
    text,           \* what serial_write has left to write
    thr,            \* the port: the character in its holding register, if any
    console,        \* the port: what it has sent
    said            \* history: what the kernel has given serial_write

scanVars == <<bus, dev, fn>>
vars == <<machine, scanVars, nic_mmio_base, pc, ret, text, thr, console, said>>

STUB == 5242880     \* 0x00500000

-----------------------------------------------------------------------------
(* The configuration space, as the host bridge answers.                     *)

Function(b, d, f, vendor, device, class, subclass, bar) ==
    [at |-> <<b, d, f>>, vendor |-> vendor, device |-> device,
     class |-> class, subclass |-> subclass, bar |-> bar]

(* The function and register an address names, without its enable bit.      *)
Register(f, off) == CASE off = 0  -> f.vendor + f.device * 65536
                      [] off = 8  -> f.class * 16777216 + f.subclass * 65536
                      [] off = 16 -> f.bar

Answer(at, off) ==
    LET fs == {f \in machine : f.at = at}
    IN  IF fs = {} THEN -1      \* all ones
        ELSE Register(CHOOSE f \in fs : TRUE, off)

ConfigData(a) ==
    Answer(<<a \div 65536, (a \div 2048) % 32, (a \div 256) % 8>>, a % 256)

PciCfgRead(b, d, f, off) == ConfigData(b * 65536 + d * 2048 + f * 256 + off)

-----------------------------------------------------------------------------
(* The serial console                                                       *)

Digits == <<"0", "1", "2", "3", "4", "5", "6", "7",
            "8", "9", "A", "B", "C", "D", "E", "F">>

Sixteens == <<1, 16, 256, 4096, 65536, 1048576, 16777216, 268435456>>

(* (v >> (i * 4)) & 0xF                                                     *)
Digit(v, i) == Digits[1 + ((v \div Sixteens[i + 1]) % 16)]

(* Mutant: the lowest digit comes first.                                    *)
HexReversed(v) == [i \in 1 .. 8 |-> Digit(v, i - 1)]

(* print_hex32                                                              *)
Hex(v) == [i \in 1 .. 8 |-> Digit(v, 8 - i)]

(* A call of serial_write, or several in a row.                             *)
Say(s, next) ==
    /\ text' = s /\ said' = said \o s
    /\ pc' = "print" /\ ret' = next
    /\ UNCHANGED <<thr, console>>

Silent == UNCHANGED <<ret, text, thr, console, said>>

(* Mutant: the character is written without waiting.                        *)
PollNothing ==
    /\ pc = "print" /\ text # <<>>
    /\ pc' = "putc"
    /\ UNCHANGED <<machine, scanVars, nic_mmio_base>> /\ Silent

(* Spin until bit 5 of the line status says that the register is empty.     *)
Poll ==
    /\ pc = "print" /\ text # <<>>
    /\ thr = <<>>
    /\ pc' = "putc"
    /\ UNCHANGED <<machine, scanVars, nic_mmio_base>> /\ Silent

Putc ==
    /\ pc = "putc"
    /\ thr' = <<Head(text)>> /\ text' = Tail(text)
    /\ pc' = "print"
    /\ UNCHANGED <<machine, scanVars, nic_mmio_base, ret, console, said>>

Printed ==
    /\ pc = "print" /\ text = <<>>
    /\ pc' = ret
    /\ UNCHANGED <<machine, scanVars, nic_mmio_base>> /\ Silent

(* The port sends the character it holds.                                   *)
Uart ==
    /\ thr # <<>>
    /\ console' = console \o thr /\ thr' = <<>>
    /\ UNCHANGED <<machine, scanVars, nic_mmio_base, pc, ret, text, said>>

-----------------------------------------------------------------------------
(* pci_enumerate                                                            *)

(* Mutant: bus is a byte.                                                   *)
NextBusByte == (bus + 1) % BUSES

NextBus == bus + 1

(* Mutant: the devices of the next bus are counted on from those of this.   *)
NextDevOn == dev + 1

NextDev == (dev + 1) % DEVS

NextFn ==
    /\ fn' = (fn + 1) % FNS
    /\ dev' = IF fn + 1 < FNS THEN dev ELSE NextDev
    /\ bus' = IF fn + 1 < FNS \/ dev + 1 < DEVS THEN bus ELSE NextBus
    /\ pc' = "probe"
    /\ UNCHANGED nic_mmio_base /\ Silent

Probe ==
    /\ pc = "probe" /\ bus < BUSES
    /\ IF PciCfgRead(bus, dev, fn, 0) % 65536 = 65535
         THEN NextFn
         ELSE pc' = "class" /\ UNCHANGED <<scanVars, nic_mmio_base>> /\ Silent
    /\ UNCHANGED machine

(* Mutant: any network controller will do.                                  *)
IsNetwork(ci) == (ci \div 16777216) % 256 = 2

IsEthernet(ci) == (ci \div 16777216) % 256 = 2 /\ (ci \div 65536) % 256 = 0

Class ==
    /\ pc = "class"
    /\ IF IsEthernet(PciCfgRead(bus, dev, fn, 8))
         THEN LET vd == PciCfgRead(bus, dev, fn, 0) IN
              /\ Say(<<"NIC_vendor=0x">> \o Hex(vd % 65536)
                       \o <<"_device=0x">> \o Hex((vd \div 65536) % 65536)
                       \o <<"\r\n">>, "bar")
              /\ UNCHANGED <<scanVars, nic_mmio_base>>
         ELSE NextFn
    /\ UNCHANGED machine

(* A BAR in I/O space is no use: the scan ends and the base stays 0.        *)
Bar ==
    /\ pc = "bar"
    /\ LET bar0 == PciCfgRead(bus, dev, fn, 16) IN
       IF bar0 % 2 = 1
         THEN /\ Say(<<"BAR0_unsupported\r\n">>, "cycles")
              /\ UNCHANGED nic_mmio_base
         ELSE /\ nic_mmio_base' = bar0 - (bar0 % 16)
              /\ Say(<<"MMIO=0x">> \o Hex(nic_mmio_base') \o <<"\r\n">>, "cycles")
    /\ UNCHANGED <<machine, scanVars>>

NoNic ==
    /\ pc = "probe" /\ bus = BUSES
    /\ nic_mmio_base' = STUB
    /\ Say(<<"No_NIC_MMIO=0x", "00500000", "\r\n">>, "cycles")
    /\ UNCHANGED <<machine, scanVars>>

-----------------------------------------------------------------------------
(* kernel_main                                                              *)

(* serial_init leaves the port empty and polled.                            *)
Start ==
    /\ pc = "start"
    /\ Say(<<"kernel_main\r\n">>, "probe")
    /\ UNCHANGED <<machine, scanVars, nic_mmio_base>>

(* The cycle count is whatever it is; 0 here.                               *)
Cycles ==
    /\ pc = "cycles"
    /\ Say(<<"PCI_cycles=">> \o Hex(0) \o <<"\r\n">>, "rings")
    /\ UNCHANGED <<machine, scanVars, nic_mmio_base>>

(* init_rx_ring and what follows: HftOs.                                    *)
Rings == pc = "rings" /\ thr = <<>> /\ UNCHANGED vars

Kernel == \/ Start \/ Probe \/ Class \/ Bar \/ NoNic \/ Cycles
          \/ Poll \/ Putc \/ Printed

Init ==
    /\ machine \in Machines
    /\ bus = 0 /\ dev = 0 /\ fn = 0
    /\ nic_mmio_base = 0               \* .bss
    /\ pc = "start" /\ ret = "start"
    /\ text = <<>> /\ thr = <<>> /\ console = <<>> /\ said = <<>>

Next == Kernel \/ Uart \/ Rings

(* The kernel runs, and the port sends what it holds.                       *)
Spec == Init /\ [][Next]_vars /\ WF_vars(Kernel) /\ WF_vars(Uart)

-----------------------------------------------------------------------------
TypeOK ==
    /\ bus \in 0 .. BUSES /\ dev \in 0 .. DEVS - 1 /\ fn \in 0 .. FNS - 1
    /\ nic_mmio_base \in Nat
    /\ pc \in {"start", "probe", "class", "bar", "cycles", "rings", "print", "putc"}
    /\ Len(thr) <= 1

EthernetFunctions ==
    {f \in machine : f.class = 2 /\ f.subclass = 0 /\ f.vendor # 65535}

Before(f, g) == \/ f.at[1] < g.at[1]
                \/ f.at[1] = g.at[1] /\ f.at[2] < g.at[2]
                \/ f.at[1] = g.at[1] /\ f.at[2] = g.at[2] /\ f.at[3] < g.at[3]

(* The scan finds the first Ethernet function of the machine, wherever it   *)
(* is, and the rings are set up over its registers; over low memory if it   *)
(* has none in memory, and over the stub when there is no such function.    *)
FirstEthernetDecides ==
    pc = "rings" =>
        \/ EthernetFunctions = {} /\ nic_mmio_base = STUB
        \/ \E f \in EthernetFunctions :
              /\ \A g \in EthernetFunctions \ {f} : Before(f, g)
              /\ IF f.bar % 2 = 1 THEN nic_mmio_base = 0
                 ELSE nic_mmio_base % 16 = 0 /\ f.bar - nic_mmio_base \in 0 .. 15

(* Nothing the kernel says is lost, doubled or out of order on the console, *)
(* however slowly the port sends.                                           *)
ConsoleWhole == console \o thr \o text = said

(* The base the console shows is the base in use.                           *)
ConsoleTellsBase ==
    \A i \in 1 .. Len(said) : said[i] = "MMIO=0x" =>
        LET digit(c) == (CHOOSE d \in 1 .. 16 : Digits[d] = c) - 1
            v[k \in 0 .. 8] == IF k = 0 THEN 0
                               ELSE 16 * v[k - 1] + digit(said[i + k])
        IN  v[8] = nic_mmio_base

(* The kernel gets to its rings, and the console falls silent.              *)
BootEnds == <>(pc = "rings" /\ thr = <<>>)
=============================================================================
