--------------------------- MODULE PciBoot_proofs ---------------------------
(***************************************************************************)
(* Proofs about PciBoot for every bus, every machine on it and every pace   *)
(* of the serial port.                                                      *)
(***************************************************************************)
EXTENDS PciBoot, SequenceTheorems, TLAPS

(* Where the kernel goes on when it has printed what it says.               *)
Stage == IF pc \in {"print", "putc"} THEN ret ELSE pc

Stages == {"start", "probe", "class", "bar", "cycles", "rings"}

(* The place <<b, d, n>> of the bus comes after that of f.                  *)
Past(f, b, d, n) == \/ f.at[1] < b
                    \/ f.at[1] = b /\ f.at[2] < d
                    \/ f.at[1] = b /\ f.at[2] = d /\ f.at[3] < n

Here(f) == f.at = <<bus, dev, fn>>

(* What FirstEthernetDecides says of the rings.                             *)
Decided ==
    \/ EthernetFunctions = {} /\ nic_mmio_base = STUB
    \/ \E f \in EthernetFunctions :
          /\ \A g \in EthernetFunctions \ {f} : Before(f, g)
          /\ IF f.bar % 2 = 1 THEN nic_mmio_base = 0
             ELSE nic_mmio_base % 16 = 0 /\ f.bar - nic_mmio_base \in 0 .. 15

(* The scan has passed no Ethernet function, stops at the first, and the    *)
(* base is decided when it is over.                                         *)
ScanInv ==
    /\ machine \in Machines
    /\ bus \in 0 .. BUSES /\ dev \in 0 .. DEVS - 1 /\ fn \in 0 .. FNS - 1
    /\ bus = BUSES => dev = 0 /\ fn = 0
    /\ nic_mmio_base \in Nat
    /\ Stage \in Stages
    /\ Stage = "start" => bus = 0 /\ dev = 0 /\ fn = 0
    /\ Stage \in {"start", "probe", "class", "bar"} =>
          /\ nic_mmio_base = 0
          /\ \A g \in EthernetFunctions : ~Past(g, bus, dev, fn)
    /\ Stage \in {"class", "bar"} =>
          \E f \in machine : Here(f) /\ f.vendor # 65535
    /\ Stage = "bar" => \E f \in EthernetFunctions : Here(f)
    /\ Stage \in {"cycles", "rings"} => Decided

(* The characters of the console.                                           *)
Words == {"kernel_main\r\n", "NIC_vendor=0x", "_device=0x", "\r\n", "MMIO=0x",
          "BAR0_unsupported\r\n", "No_NIC_MMIO=0x", "00500000", "PCI_cycles="}
Chars == Words \cup UNION {{Digit(v, i) : i \in 0 .. 7} : v \in Int}

(* The kernel writes only what it has said, into an empty register.         *)
TextInv ==
    /\ text \in Seq(Chars) /\ thr \in Seq(Chars) /\ Len(thr) <= 1
    /\ console \in Seq(Chars) /\ said \in Seq(Chars)
    /\ pc = "putc" => thr = <<>> /\ text # <<>>
    /\ pc \notin {"print", "putc"} => text = <<>>
    /\ ConsoleWhole

BootInv == ScanInv /\ TextInv

(***************************************************************************)
(* The configuration space.                                                 *)
(***************************************************************************)
LEMMA Bounds ==
    /\ BUSES \in Nat \ {0} /\ BUSES <= 256 /\ DEVS \in Nat \ {0} /\ DEVS <= 32
    /\ FNS \in Nat \ {0} /\ FNS <= 8
  BY ScanAssumption, SMT

LEMMA FunctionTypes ==
    ASSUME machine \in Machines, NEW f \in machine
    PROVE  /\ f.at \in Place
           /\ f.vendor \in Nat /\ f.vendor < 65536 /\ f.device \in Nat
           /\ f.class \in Nat /\ f.class < 256 /\ f.subclass \in Nat /\ f.subclass < 256
           /\ f.bar \in Nat
           /\ \A g \in machine : f.at = g.at => f = g
<1>1. f \in [at : Place, vendor : Nat, device : Nat,
             class : Nat, subclass : Nat, bar : Nat]
  BY MachineAssumption
<1>2. /\ f.vendor < 65536 /\ f.class < 256 /\ f.subclass < 256
      /\ \A g \in machine : f.at = g.at => f = g
  BY MachineAssumption
<1>. QED
  BY <1>1, <1>2

LEMMA PlaceTypes ==
    ASSUME machine \in Machines, NEW f \in machine
    PROVE  /\ f.at[1] \in Nat /\ f.at[1] < BUSES
           /\ f.at[2] \in Nat /\ f.at[2] < DEVS
           /\ f.at[3] \in Nat /\ f.at[3] < FNS
           /\ f.at = <<f.at[1], f.at[2], f.at[3]>>
<1>1. f.at \in Place
  BY FunctionTypes
<1>. QED
  BY <1>1, Bounds DEF Place

(* The address of a register names its place, and no other.                 *)
LEMMA Address ==
    ASSUME NEW b \in Nat, NEW d \in Nat, NEW n \in Nat, NEW off \in Nat,
           d < 32, n < 8, off < 256
    PROVE  PciCfgRead(b, d, n, off) = Answer(<<b, d, n>>, off)
<1>. DEFINE a == b * 65536 + d * 2048 + n * 256 + off
<1>1. a = b * 65536 + d * 2048 + n * 256 + off
  OBVIOUS
<1>. HIDE DEF a
<1>2. a \div 65536 = b
  BY <1>1, SMT
<1>3. a \div 2048 = b * 32 + d
  BY <1>1, SMT
<1>4. a \div 256 = (b * 32 + d) * 8 + n
  BY <1>1, SMT
<1>5. a % 256 = off
  BY <1>1, SMT
<1>6. (b * 32 + d) % 32 = d /\ ((b * 32 + d) * 8 + n) % 8 = n
  BY SMT
<1>7. (a \div 2048) % 32 = d /\ (a \div 256) % 8 = n
  BY <1>3, <1>4, <1>6
<1>8. ConfigData(a) = Answer(<<b, d, n>>, off)
  BY <1>2, <1>5, <1>7, SMT DEF ConfigData
<1>9. PciCfgRead(b, d, n, off) = ConfigData(a)
  BY SMT DEF PciCfgRead, a
<1>. QED
  BY <1>8, <1>9, SMT

(* What pci_cfg_read (kernel.c) returns of an empty place, and of a         *)
(* function.                                                                *)
LEMMA Read ==
    ASSUME machine \in Machines, NEW b \in 0 .. BUSES - 1, NEW d \in 0 .. DEVS - 1,
           NEW n \in 0 .. FNS - 1, NEW off \in {0, 8, 16}
    PROVE  /\ (\A f \in machine : f.at # <<b, d, n>>) => PciCfgRead(b, d, n, off) = -1
           /\ \A f \in machine : f.at = <<b, d, n>> =>
                 PciCfgRead(b, d, n, off) = Register(f, off)
<1>1. b \in Nat /\ d \in Nat /\ d < 32 /\ n \in Nat /\ n < 8 /\ off \in Nat /\ off < 256
  BY Bounds, SMT
<1>2. PciCfgRead(b, d, n, off) = Answer(<<b, d, n>>, off)
  BY <1>1, Address, SMT
<1>3. (\A f \in machine : f.at # <<b, d, n>>) => Answer(<<b, d, n>>, off) = -1
  BY SMT DEF Answer
<1>4. ASSUME NEW f \in machine, f.at = <<b, d, n>>
      PROVE  Answer(<<b, d, n>>, off) = Register(f, off)
  <2>. DEFINE fs == {g \in machine : g.at = <<b, d, n>>}
  <2>1. \A g \in machine : f.at = g.at => f = g
    BY FunctionTypes, SMT
  <2>2. fs = {f}
    BY <1>4, <2>1, SMT
  <2>3. Answer(<<b, d, n>>, off) =
           IF fs = {} THEN -1 ELSE Register(CHOOSE g \in fs : TRUE, off)
    BY Zenon DEF Answer
  <2>. HIDE DEF fs
  <2>. QED
    BY <2>2, <2>3, SMT
<1>. QED
  BY <1>2, <1>3, <1>4, SMT

(* At the place of the scan.                                                *)
LEMMA ReadHere ==
    ASSUME machine \in Machines, bus \in 0 .. BUSES - 1, dev \in 0 .. DEVS - 1,
           fn \in 0 .. FNS - 1
    PROVE  /\ (\A f \in machine : ~Here(f)) => PciCfgRead(bus, dev, fn, 0) = -1
           /\ \A f \in machine : Here(f) =>
                 /\ PciCfgRead(bus, dev, fn, 0) = Register(f, 0)
                 /\ PciCfgRead(bus, dev, fn, 8) = Register(f, 8)
                 /\ PciCfgRead(bus, dev, fn, 16) = Register(f, 16)
<1>1. ASSUME NEW off \in {0, 8, 16}
      PROVE  /\ (\A f \in machine : ~Here(f)) => PciCfgRead(bus, dev, fn, off) = -1
             /\ \A f \in machine : Here(f) =>
                   PciCfgRead(bus, dev, fn, off) = Register(f, off)
  BY Read, Zenon DEF Here
<1>. QED
  BY <1>1, SMT

(* The identification and class registers tell an Ethernet function.        *)
LEMMA Identity ==
    ASSUME machine \in Machines, NEW f \in machine
    PROVE  /\ Register(f, 0) % 65536 = f.vendor
           /\ Register(f, 0) \in Nat
           /\ IsEthernet(Register(f, 8)) <=> f.class = 2 /\ f.subclass = 0
           /\ Register(f, 16) = f.bar
<1>1. /\ f.vendor \in Nat /\ f.vendor < 65536 /\ f.device \in Nat
      /\ f.class \in Nat /\ f.class < 256 /\ f.subclass \in Nat /\ f.subclass < 256
  BY FunctionTypes
<1>2. Register(f, 0) = f.vendor + f.device * 65536
  BY SMT DEF Register
<1>3. Register(f, 8) = f.class * 16777216 + f.subclass * 65536
  BY SMT DEF Register
<1>4. Register(f, 16) = f.bar
  BY SMT DEF Register
<1>5. \A v, w \in Nat : v < 65536 => (v + w * 65536) % 65536 = v
  BY SMT
<1>8. Register(f, 0) % 65536 = f.vendor /\ Register(f, 0) \in Nat
  BY <1>1, <1>2, <1>5, SMT
<1>9. IsEthernet(Register(f, 8)) <=> f.class = 2 /\ f.subclass = 0
  <2>. DEFINE c == f.class
              d == f.subclass
              r == Register(f, 8)
  <2>1. c \in Nat /\ c < 256 /\ d \in Nat /\ d < 256
    BY <1>1
  <2>2. r = c * 16777216 + d * 65536
    BY <1>3, SMT
  <2>. HIDE DEF c, d, r
  <2>3. (r \div 16777216) % 256 = c
    BY <2>1, <2>2, SMT
  <2>4. (r \div 65536) % 256 = d
    BY <2>1, <2>2, SMT
  <2>. QED
    BY <2>3, <2>4, SMT DEF IsEthernet, c, d, r
<1>. QED
  BY <1>4, <1>8, <1>9

(***************************************************************************)
(* The scan.                                                                *)
(***************************************************************************)
LEMMA ModNext == ASSUME NEW N \in Nat \ {0}, NEW i \in 0 .. N - 1
                 PROVE  (i + 1) % N = IF i + 1 < N THEN i + 1 ELSE 0
<1>1. CASE i + 1 < N
  BY <1>1, SMT
<1>2. CASE i + 1 = N
  <2>1. N % N = 0
    BY SMT
  <2>. QED
    BY <1>2, <2>1, SMT
<1>. QED
  BY <1>1, <1>2, SMT

(* The scan goes from a place to the next, and over none.                   *)
LEMMA Moves ==
    ASSUME NextFn, dev \in 0 .. DEVS - 1, fn \in 0 .. FNS - 1
    PROVE  /\ fn' = IF fn + 1 < FNS THEN fn + 1 ELSE 0
           /\ dev' = IF fn + 1 < FNS THEN dev ELSE IF dev + 1 < DEVS THEN dev + 1 ELSE 0
           /\ bus' = IF fn + 1 < FNS \/ dev + 1 < DEVS THEN bus ELSE bus + 1
<1>1. (fn + 1) % FNS = IF fn + 1 < FNS THEN fn + 1 ELSE 0
  BY Bounds, ModNext
<1>2. (dev + 1) % DEVS = IF dev + 1 < DEVS THEN dev + 1 ELSE 0
  BY Bounds, ModNext
<1>3. /\ fn' = (fn + 1) % FNS
      /\ dev' = IF fn + 1 < FNS THEN dev ELSE (dev + 1) % DEVS
      /\ bus' = IF fn + 1 < FNS \/ dev + 1 < DEVS THEN bus ELSE bus + 1
  BY DEF NextFn, NextDev, NextBus
<1>. QED
  BY <1>1, <1>2, <1>3

LEMMA Order ==
    ASSUME machine \in Machines, NEW g \in machine,
           bus \in 0 .. BUSES - 1, dev \in 0 .. DEVS - 1, fn \in 0 .. FNS - 1,
           NextFn, ~Here(g), ~Past(g, bus, dev, fn)
    PROVE  ~Past(g, bus', dev', fn')
<1>1. /\ g.at[1] \in Nat /\ g.at[2] \in Nat /\ g.at[3] \in Nat
      /\ g.at[2] < DEVS /\ g.at[3] < FNS
      /\ ~(g.at[1] = bus /\ g.at[2] = dev /\ g.at[3] = fn)
  BY PlaceTypes, SMT DEF Here
<1>. QED
  BY <1>1, Moves, Bounds, SMT DEF Past

LEMMA ScanOn ==
    ASSUME ScanInv, Stage \in {"probe", "class"}, bus < BUSES, NextFn,
           machine' = machine, \A g \in EthernetFunctions : ~Here(g)
    PROVE  ScanInv'
<1>1. /\ machine \in Machines /\ bus \in 0 .. BUSES - 1 /\ dev \in 0 .. DEVS - 1
      /\ fn \in 0 .. FNS - 1 /\ nic_mmio_base = 0
      /\ \A g \in EthernetFunctions : ~Past(g, bus, dev, fn)
  BY Bounds, SMT DEF ScanInv
<1>2. EthernetFunctions' = EthernetFunctions /\ EthernetFunctions \subseteq machine
  BY SMT DEF EthernetFunctions
<1>4. /\ bus' \in 0 .. BUSES /\ dev' \in 0 .. DEVS - 1 /\ fn' \in 0 .. FNS - 1
      /\ bus' = BUSES => dev' = 0 /\ fn' = 0
  BY <1>1, Moves, Bounds, SMT
<1>5. Stage' = "probe" /\ nic_mmio_base' = 0
  BY <1>1, SMT DEF NextFn, Stage
<1>6. \A g \in EthernetFunctions : ~Past(g, bus', dev', fn')
  BY <1>1, <1>2, Order, SMT
<1>. QED
  BY <1>1, <1>2, <1>4, <1>5, <1>6, SMT DEF ScanInv, Stages, Past

(* A step that stays where the scan is and moves only the printing.         *)
LEMMA ScanStays ==
    ASSUME ScanInv, Stage' = Stage, UNCHANGED <<machine, scanVars, nic_mmio_base>>
    PROVE  ScanInv'
  BY SMT DEF ScanInv, Stages, Past, Here, Decided, EthernetFunctions, scanVars, Before

LEMMA ProbeStep == ScanInv /\ Probe => ScanInv'
<1> SUFFICES ASSUME ScanInv, Probe PROVE ScanInv'
  OBVIOUS
<1>. DEFINE v == PciCfgRead(bus, dev, fn, 0)
<1>1. /\ machine \in Machines /\ bus \in 0 .. BUSES - 1 /\ dev \in 0 .. DEVS - 1
      /\ fn \in 0 .. FNS - 1 /\ Stage = "probe" /\ bus < BUSES
  BY Bounds, SMT DEF ScanInv, Probe, Stage
<1>2. /\ (\A f \in machine : ~Here(f)) => v = -1
      /\ \A f \in machine : Here(f) => v = Register(f, 0)
  BY <1>1, ReadHere, SMT
<1>3. \A f \in machine : Here(f) => v % 65536 = f.vendor
  BY <1>1, <1>2, Identity, SMT
<1>. HIDE DEF v
<1>4. CASE v % 65536 = 65535
  <2>1. \A g \in EthernetFunctions : ~Here(g)
    BY <1>3, <1>4, SMT DEF EthernetFunctions
  <2>2. NextFn /\ machine' = machine
    BY <1>4, SMT DEF Probe, v
  <2>. QED
    BY <1>1, <2>1, <2>2, ScanOn, SMT
<1>5. CASE v % 65536 # 65535
  <2>1. PICK f \in machine : Here(f)
    <3>1. v \in Int /\ v + 1 = 0 => v % 65536 = 65535
      BY SMT
    <3>2. v = -1 => v \in Int /\ v + 1 = 0
      BY SMT
    <3>. QED
      BY <1>2, <1>5, <3>1, <3>2
  <2>2. f.vendor # 65535
    BY <1>3, <1>5, <2>1, SMT
  <2>3. /\ UNCHANGED <<machine, bus, dev, fn, nic_mmio_base>> /\ pc' = "class"
    BY <1>5, SMT DEF Probe, v, scanVars
  <2>4. Stage' = "class"
    BY <2>3, SMT DEF Stage
  <2>5. EthernetFunctions' = EthernetFunctions
    BY <2>3, SMT DEF EthernetFunctions
  <2>. QED
    BY <1>1, <2>1, <2>2, <2>3, <2>4, <2>5, SMT DEF ScanInv, Stages, Past, Here
<1>. QED
  BY <1>4, <1>5, SMT

LEMMA ClassStep == ScanInv /\ Class => ScanInv'
<1> SUFFICES ASSUME ScanInv, Class PROVE ScanInv'
  OBVIOUS
<1>1. Stage = "class" /\ machine' = machine
  BY SMT DEF Class, Stage
<1>2. PICK f \in machine : Here(f) /\ f.vendor # 65535
  BY <1>1, SMT DEF ScanInv
<1>3. /\ machine \in Machines /\ bus \in 0 .. BUSES - 1 /\ dev \in 0 .. DEVS - 1
      /\ fn \in 0 .. FNS - 1 /\ bus < BUSES
  BY <1>2, PlaceTypes, Bounds, SMT DEF ScanInv, Here
<1>4. IsEthernet(PciCfgRead(bus, dev, fn, 8)) <=> f.class = 2 /\ f.subclass = 0
  <2>1. PciCfgRead(bus, dev, fn, 8) = Register(f, 8)
    BY <1>2, <1>3, ReadHere, SMT
  <2>. QED
    BY <1>3, <2>1, Identity
<1>5. CASE IsEthernet(PciCfgRead(bus, dev, fn, 8))
  <2>1. f \in EthernetFunctions
    BY <1>2, <1>4, <1>5, SMT DEF EthernetFunctions
  <2>2. /\ UNCHANGED <<machine, bus, dev, fn, nic_mmio_base>>
        /\ pc' = "print" /\ ret' = "bar"
    BY <1>5, SMT DEF Class, Say, scanVars
  <2>3. Stage' = "bar"
    BY <2>2, SMT DEF Stage
  <2>4. EthernetFunctions' = EthernetFunctions
    BY <2>2, SMT DEF EthernetFunctions
  <2>. QED
    BY <1>1, <1>2, <1>3, <2>1, <2>2, <2>3, <2>4, SMT DEF ScanInv, Stages, Past, Here
<1>6. CASE ~IsEthernet(PciCfgRead(bus, dev, fn, 8))
  <2>1. \A g \in EthernetFunctions : ~Here(g)
    <3>1. \A g \in machine : Here(g) => g = f
      BY <1>2, <1>3, FunctionTypes, SMT DEF Here
    <3>. QED
      BY <1>4, <1>6, <3>1, SMT DEF EthernetFunctions
  <2>2. NextFn
    BY <1>6, SMT DEF Class
  <2>. QED
    BY <1>1, <1>3, <2>1, <2>2, ScanOn
<1>. QED
  BY <1>5, <1>6

(* The place the scan stops at is that of the first Ethernet function.      *)
LEMMA First ==
    ASSUME ScanInv, Stage = "bar", NEW f \in EthernetFunctions, Here(f),
           NEW g \in EthernetFunctions, g # f
    PROVE  Before(f, g)
<1>1. /\ machine \in Machines /\ f \in machine /\ g \in machine
      /\ ~Past(g, bus, dev, fn)
  BY SMT DEF ScanInv, EthernetFunctions
<1>2. g.at # f.at
  BY <1>1, FunctionTypes, SMT
<1>3. f.at[1] = bus /\ f.at[2] = dev /\ f.at[3] = fn
  BY SMT DEF Here
<1>4. /\ f.at = <<f.at[1], f.at[2], f.at[3]>> /\ g.at = <<g.at[1], g.at[2], g.at[3]>>
      /\ f.at[1] \in Nat /\ f.at[2] \in Nat /\ f.at[3] \in Nat
      /\ g.at[1] \in Nat /\ g.at[2] \in Nat /\ g.at[3] \in Nat
  BY <1>1, PlaceTypes
<1>5. ~(f.at[1] = g.at[1] /\ f.at[2] = g.at[2] /\ f.at[3] = g.at[3])
  BY <1>2, <1>4
<1>. QED
  BY <1>1, <1>3, <1>4, <1>5, SMT DEF Past, Before

LEMMA BarStep == ScanInv /\ Bar => ScanInv'
<1> SUFFICES ASSUME ScanInv, Bar PROVE ScanInv'
  OBVIOUS
<1>1. Stage = "bar"
  BY SMT DEF Bar, Stage
<1>2. PICK f \in EthernetFunctions : Here(f)
  BY <1>1, SMT DEF ScanInv
<1>3. machine \in Machines /\ f \in machine
  BY SMT DEF ScanInv, EthernetFunctions
<1>4. /\ bus \in 0 .. BUSES - 1 /\ dev \in 0 .. DEVS - 1 /\ fn \in 0 .. FNS - 1
      /\ f.bar \in Nat /\ nic_mmio_base = 0
  BY <1>1, <1>2, <1>3, PlaceTypes, FunctionTypes, Bounds, SMT DEF ScanInv, Here
<1>5. PciCfgRead(bus, dev, fn, 16) = f.bar
  <2>1. PciCfgRead(bus, dev, fn, 16) = Register(f, 16)
    BY <1>2, <1>3, <1>4, ReadHere, SMT
  <2>. QED
    BY <1>3, <2>1, Identity
<1>6. /\ UNCHANGED <<machine, bus, dev, fn>> /\ pc' = "print" /\ ret' = "cycles"
      /\ nic_mmio_base' = IF f.bar % 2 = 1 THEN 0 ELSE f.bar - (f.bar % 16)
  BY <1>4, <1>5, SMT DEF Bar, Say, scanVars
<1>7. Stage' = "cycles"
  BY <1>6, SMT DEF Stage
<1>8. \A v \in Nat : /\ v - (v % 16) \in Nat /\ (v - (v % 16)) % 16 = 0
                     /\ v - (v - (v % 16)) \in 0 .. 15
  BY SMT
<1>9. /\ nic_mmio_base' \in Nat
      /\ IF f.bar % 2 = 1 THEN nic_mmio_base' = 0
         ELSE nic_mmio_base' % 16 = 0 /\ f.bar - nic_mmio_base' \in 0 .. 15
  BY <1>4, <1>6, <1>8, SMT
<1>10. \A g \in EthernetFunctions \ {f} : Before(f, g)
  BY <1>1, <1>2, First, SMT
<1>11. EthernetFunctions' = EthernetFunctions
  BY <1>6, SMT DEF EthernetFunctions
<1>12. Decided'
  <2>1. \E h \in EthernetFunctions :
           /\ \A g \in EthernetFunctions \ {h} : Before(h, g)
           /\ IF h.bar % 2 = 1 THEN nic_mmio_base' = 0
              ELSE nic_mmio_base' % 16 = 0 /\ h.bar - nic_mmio_base' \in 0 .. 15
    BY <1>9, <1>10, Zenon
  <2>. QED
    BY <1>11, <2>1, Zenon DEF Decided, Before
<1>. QED
  BY <1>3, <1>4, <1>6, <1>7, <1>9, <1>12, Bounds, SMT DEF ScanInv, Stages

LEMMA NoNicStep == ScanInv /\ NoNic => ScanInv'
<1> SUFFICES ASSUME ScanInv, NoNic PROVE ScanInv'
  OBVIOUS
<1>1. Stage = "probe" /\ bus = BUSES
  BY SMT DEF NoNic, Stage
<1>2. /\ UNCHANGED <<machine, bus, dev, fn>> /\ pc' = "print" /\ ret' = "cycles"
      /\ nic_mmio_base' = STUB
  BY SMT DEF NoNic, Say, scanVars
<1>3. Stage' = "cycles"
  BY <1>2, SMT DEF Stage
<1>4. EthernetFunctions = {}
  <2> SUFFICES ASSUME NEW g \in EthernetFunctions PROVE FALSE
    OBVIOUS
  <2>1. machine \in Machines /\ g \in machine /\ ~Past(g, bus, dev, fn)
    BY <1>1, SMT DEF ScanInv, EthernetFunctions
  <2>. QED
    BY <1>1, <2>1, PlaceTypes, SMT DEF Past
<1>5. EthernetFunctions' = {}
  BY <1>2, <1>4, SMT DEF EthernetFunctions
<1>6. STUB \in Nat
  BY SMT DEF STUB
<1>7. Decided'
  BY <1>2, <1>5, Zenon DEF Decided
<1>. QED
  BY <1>1, <1>2, <1>3, <1>6, <1>7, SMT DEF ScanInv, Stages

(***************************************************************************)
(* The console.                                                             *)
(***************************************************************************)
LEMMA FunctionText == ASSUME NEW S, NEW n \in Nat, NEW f \in [1 .. n -> S]
                      PROVE  f \in Seq(S)
  BY SMT

LEMMA HexText == ASSUME NEW v \in Int
                 PROVE  Hex(v) \in Seq(Chars)
<1>1. ASSUME NEW i \in 1 .. 8
      PROVE  Digit(v, 8 - i) \in Chars
  <2>1. 8 - i \in 0 .. 7
    BY SMT
  <2>2. \A j \in 0 .. 7 : Digit(v, j) \in Chars
    BY SMT DEF Chars
  <2>. QED
    BY <2>1, <2>2
<1>2. Hex(v) \in [1 .. 8 -> Chars]
  BY <1>1, Zenon DEF Hex
<1>. QED
  BY <1>2, FunctionText

LEMMA WordText == ASSUME NEW c \in Words
                  PROVE  <<c>> \in Seq(Chars)
<1>1. c \in Chars
  BY Zenon DEF Chars
<1>. QED
  BY <1>1, SMT

(* What is printed is said at the same time.                                *)
LEMMA SayText ==
    ASSUME TextInv, pc \notin {"print", "putc"},
           NEW s \in Seq(Chars), NEW next, Say(s, next)
    PROVE  TextInv'
<1>1. /\ text = <<>> /\ (console \o thr) \o text = said
      /\ console \in Seq(Chars) /\ thr \in Seq(Chars) /\ said \in Seq(Chars)
      /\ Len(thr) <= 1
  BY DEF TextInv, ConsoleWhole
<1>2. /\ text' = s /\ said' = said \o s /\ pc' = "print" /\ thr' = thr
      /\ console' = console
  BY DEF Say
<1>3. console \o thr \in Seq(Chars)
  BY <1>1, ConcatProperties
<1>4. console \o thr = said
  BY <1>1, <1>3, ConcatEmptySeq
<1>5. said \o s \in Seq(Chars)
  BY <1>1, ConcatProperties
<1>6. ConsoleWhole'
  BY <1>2, <1>4 DEF ConsoleWhole
<1>. QED
  BY <1>1, <1>2, <1>5, <1>6 DEF TextInv

LEMMA SilentText ==
    ASSUME TextInv, UNCHANGED <<text, thr, console, said>>, pc' # "putc",
           pc' \notin {"print", "putc"} => text = <<>>
    PROVE  TextInv'
  BY DEF TextInv, ConsoleWhole

LEMMA PutcText ==
    ASSUME TextInv, Putc
    PROVE  TextInv'
<1>1. /\ text \in Seq(Chars) /\ text # <<>> /\ thr = <<>>
      /\ console \in Seq(Chars) /\ said \in Seq(Chars)
      /\ (console \o thr) \o text = said
  BY DEF TextInv, ConsoleWhole, Putc
<1>2. /\ thr' = <<Head(text)>> /\ text' = Tail(text) /\ pc' = "print"
      /\ console' = console /\ said' = said
  BY DEF Putc
<1>3. /\ Head(text) \in Chars /\ Tail(text) \in Seq(Chars)
  BY <1>1, HeadTailProperties
<1>4. <<Head(text)>> \in Seq(Chars) /\ Len(<<Head(text)>>) = 1
  BY <1>3
<1>5. text = <<Head(text)>> \o Tail(text)
  BY <1>1, SMT
<1>6. (console \o <<Head(text)>>) \o Tail(text) = console \o (<<Head(text)>> \o Tail(text))
  BY <1>1, <1>3, <1>4, ConcatAssociative
<1>7. console \o thr = console
  BY <1>1, ConcatEmptySeq
<1>8. (console \o <<Head(text)>>) \o Tail(text) = said
  BY <1>1, <1>5, <1>6, <1>7
<1>9. ConsoleWhole'
  BY <1>2, <1>8 DEF ConsoleWhole
<1>. QED
  BY <1>1, <1>2, <1>3, <1>4, <1>9 DEF TextInv

LEMMA UartText ==
    ASSUME TextInv, Uart
    PROVE  TextInv'
<1>1. /\ text \in Seq(Chars) /\ thr # <<>> /\ thr \in Seq(Chars)
      /\ console \in Seq(Chars) /\ said \in Seq(Chars)
      /\ (console \o thr) \o text = said /\ pc # "putc"
      /\ pc \notin {"print", "putc"} => text = <<>>
  BY DEF TextInv, ConsoleWhole, Uart
<1>2. /\ console' = console \o thr /\ thr' = <<>> /\ pc' = pc /\ text' = text
      /\ said' = said
  BY DEF Uart
<1>3. console \o thr \in Seq(Chars)
  BY <1>1, ConcatProperties
<1>4. (console \o thr) \o <<>> = console \o thr
  BY <1>3, ConcatEmptySeq
<1>5. ConsoleWhole'
  BY <1>1, <1>2, <1>4 DEF ConsoleWhole
<1>6. <<>> \in Seq(Chars) /\ Len(<<>>) = 0
  BY EmptySeq
<1>. QED
  BY <1>1, <1>2, <1>3, <1>5, <1>6 DEF TextInv

LEMMA ClassText ==
    ASSUME ScanInv, TextInv, Class
    PROVE  TextInv'
<1>. DEFINE vd == PciCfgRead(bus, dev, fn, 0)
<1>1. pc = "class" /\ Stage = "class"
  BY SMT DEF Class, Stage
<1>2. vd \in Int
  <2>1. PICK f \in machine : Here(f)
    BY <1>1, SMT DEF ScanInv
  <2>2. /\ machine \in Machines /\ bus \in 0 .. BUSES - 1 /\ dev \in 0 .. DEVS - 1
        /\ fn \in 0 .. FNS - 1
    BY <2>1, PlaceTypes, Bounds, SMT DEF ScanInv, Here
  <2>3. vd = Register(f, 0)
    BY <2>1, <2>2, ReadHere, SMT
  <2>. QED
    BY <2>2, <2>3, Identity, SMT
<1>. HIDE DEF vd
<1>. DEFINE s == <<"NIC_vendor=0x">> \o Hex(vd % 65536)
                   \o <<"_device=0x">> \o Hex((vd \div 65536) % 65536) \o <<"\r\n">>
<1>3. s \in Seq(Chars)
  <2>. DEFINE v == vd % 65536
              d == (vd \div 65536) % 65536
  <2>1. v \in Int /\ d \in Int
    BY <1>2, SMT
  <2>. HIDE DEF v, d
  <2>2. Hex(v) \in Seq(Chars) /\ Hex(d) \in Seq(Chars)
    BY <2>1, HexText
  <2>3. /\ <<"NIC_vendor=0x">> \in Seq(Chars) /\ <<"_device=0x">> \in Seq(Chars)
        /\ <<"\r\n">> \in Seq(Chars)
    BY WordText, SMT DEF Words
  <2>4. <<"NIC_vendor=0x">> \o Hex(v) \o <<"_device=0x">> \o Hex(d) \o <<"\r\n">>
          \in Seq(Chars)
    BY <2>2, <2>3, ConcatProperties
  <2>. QED
    BY <2>4, SMT DEF v, d
<1>. HIDE DEF s
<1>4. NextFn \/ Say(s, "bar")
  BY SMT DEF Class, vd, s
<1>5. CASE NextFn
  BY <1>1, <1>5, SilentText, SMT DEF NextFn, Silent, TextInv
<1>6. CASE Say(s, "bar")
  BY <1>1, <1>3, <1>6, SayText, SMT
<1>. QED
  BY <1>4, <1>5, <1>6

LEMMA BarText ==
    ASSUME ScanInv, ScanInv', TextInv, Bar
    PROVE  TextInv'
<1>. DEFINE s == <<"MMIO=0x">> \o Hex(nic_mmio_base') \o <<"\r\n">>
            w == <<"BAR0_unsupported\r\n">>
<1>1. nic_mmio_base' \in Int
  BY SMT DEF ScanInv
<1>2. s \in Seq(Chars) /\ w \in Seq(Chars)
  <2>1. Hex(nic_mmio_base') \in Seq(Chars)
    BY <1>1, HexText
  <2>2. /\ <<"MMIO=0x">> \in Seq(Chars) /\ <<"\r\n">> \in Seq(Chars)
        /\ <<"BAR0_unsupported\r\n">> \in Seq(Chars)
    BY WordText, SMT DEF Words
  <2>. QED
    BY <2>1, <2>2, ConcatProperties
<1>3. pc = "bar" /\ (Say(s, "cycles") \/ Say(w, "cycles"))
  BY SMT DEF Bar
<1>. HIDE DEF s, w
<1>. QED
  BY <1>2, <1>3, SayText, SMT

(***************************************************************************)
(* The boot.                                                                *)
(***************************************************************************)
LEMMA InitBoot == Init => BootInv
<1> SUFFICES ASSUME Init PROVE BootInv
  OBVIOUS
<1>1. /\ machine \in Machines /\ bus = 0 /\ dev = 0 /\ fn = 0 /\ nic_mmio_base = 0
      /\ pc = "start" /\ text = <<>> /\ thr = <<>> /\ console = <<>> /\ said = <<>>
  BY DEF Init
<1>2. Stage = "start"
  BY <1>1, SMT DEF Stage
<1>3. \A g \in EthernetFunctions : ~Past(g, bus, dev, fn)
  <2> SUFFICES ASSUME NEW g \in EthernetFunctions PROVE ~Past(g, bus, dev, fn)
    OBVIOUS
  <2>1. g \in machine
    BY DEF EthernetFunctions
  <2>. QED
    BY <1>1, <2>1, PlaceTypes, SMT DEF Past
<1>4. ScanInv
  BY <1>1, <1>2, <1>3, Bounds, SMT DEF ScanInv, Stages
<1>5. TextInv
  <2>1. /\ <<>> \in Seq(Chars) /\ Len(<<>>) = 0
    BY EmptySeq
  <2>2. (<<>> \o <<>>) \o <<>> = <<>>
    BY <2>1, ConcatEmptySeq
  <2>. QED
    BY <1>1, <2>1, <2>2 DEF TextInv, ConsoleWhole
<1>. QED
  BY <1>4, <1>5 DEF BootInv

LEMMA StartStep == ScanInv /\ Start => ScanInv'
<1> SUFFICES ASSUME ScanInv, Start PROVE ScanInv'
  OBVIOUS
<1>1. /\ Stage = "start" /\ pc' = "print" /\ ret' = "probe"
      /\ UNCHANGED <<machine, bus, dev, fn, nic_mmio_base>>
  BY SMT DEF Start, Stage, Say, scanVars
<1>2. Stage' = "probe"
  BY <1>1, SMT DEF Stage
<1>3. EthernetFunctions' = EthernetFunctions
  BY <1>1, SMT DEF EthernetFunctions
<1>. QED
  BY <1>1, <1>2, <1>3, SMT DEF ScanInv, Stages, Past

LEMMA CyclesStep == ScanInv /\ Cycles => ScanInv'
<1> SUFFICES ASSUME ScanInv, Cycles PROVE ScanInv'
  OBVIOUS
<1>1. /\ Stage = "cycles" /\ pc' = "print" /\ ret' = "rings"
      /\ UNCHANGED <<machine, bus, dev, fn, nic_mmio_base>>
  BY SMT DEF Cycles, Stage, Say, scanVars
<1>2. Stage' = "rings"
  BY <1>1, SMT DEF Stage
<1>3. Decided'
  <2>1. Decided
    BY <1>1, SMT DEF ScanInv
  <2>2. EthernetFunctions' = EthernetFunctions
    BY <1>1, SMT DEF EthernetFunctions
  <2>. QED
    BY <1>1, <2>1, <2>2, SMT DEF Decided, Before
<1>. QED
  BY <1>1, <1>2, <1>3, SMT DEF ScanInv, Stages

LEMMA NextScan == BootInv /\ [Next]_vars => ScanInv'
<1> SUFFICES ASSUME BootInv, [Next]_vars PROVE ScanInv'
  OBVIOUS
<1>1. ScanInv
  BY DEF BootInv
<1>2. CASE Start
  BY <1>1, <1>2, StartStep
<1>3. CASE Probe
  BY <1>1, <1>3, ProbeStep
<1>4. CASE Class
  BY <1>1, <1>4, ClassStep
<1>5. CASE Bar
  BY <1>1, <1>5, BarStep
<1>6. CASE NoNic
  BY <1>1, <1>6, NoNicStep
<1>7. CASE Cycles
  BY <1>1, <1>7, CyclesStep
<1>8. CASE Poll \/ Putc
  <2>1. Stage' = Stage /\ UNCHANGED <<machine, scanVars, nic_mmio_base>>
    BY <1>8, SMT DEF Poll, Putc, Silent, Stage
  <2>. QED
    BY <1>1, <2>1, ScanStays
<1>9. CASE Printed
  <2>1. Stage = ret /\ ret' = ret /\ pc' = ret
        /\ UNCHANGED <<machine, scanVars, nic_mmio_base>>
    BY <1>9, SMT DEF Printed, Silent, Stage
  <2>2. ret \in Stages
    BY <1>1, <2>1 DEF ScanInv
  <2>3. Stage' = Stage
    BY <2>1, <2>2, SMT DEF Stage
  <2>. QED
    BY <1>1, <2>1, <2>3, ScanStays
<1>10. CASE Uart \/ Rings \/ UNCHANGED vars
  <2>1. Stage' = Stage /\ UNCHANGED <<machine, scanVars, nic_mmio_base>>
    BY <1>10, SMT DEF Uart, Rings, vars, Stage
  <2>. QED
    BY <1>1, <2>1, ScanStays
<1>. QED
  BY <1>2, <1>3, <1>4, <1>5, <1>6, <1>7, <1>8, <1>9, <1>10 DEF Next, Kernel

LEMMA NextText == BootInv /\ ScanInv' /\ [Next]_vars => TextInv'
<1> SUFFICES ASSUME BootInv, ScanInv', [Next]_vars PROVE TextInv'
  OBVIOUS
<1>1. ScanInv /\ TextInv
  BY DEF BootInv
<1>2. CASE Start
  <2>. DEFINE s == <<"kernel_main\r\n">>
  <2>1. s \in Seq(Chars)
    BY WordText, SMT DEF Words
  <2>2. pc = "start" /\ Say(s, "probe")
    BY <1>2, SMT DEF Start
  <2>. HIDE DEF s
  <2>. QED
    BY <1>1, <2>1, <2>2, SayText, SMT
<1>3. CASE Probe
  <2>1. pc = "probe" /\ pc' \in {"probe", "class"} /\ UNCHANGED <<text, thr, console, said>>
    BY <1>3, SMT DEF Probe, NextFn, Silent
  <2>. QED
    BY <1>1, <2>1, SilentText, SMT DEF TextInv
<1>4. CASE Class
  BY <1>1, <1>4, ClassText
<1>5. CASE Bar
  BY <1>1, <1>5, BarText
<1>6. CASE NoNic
  <2>. DEFINE s == <<"No_NIC_MMIO=0x", "00500000", "\r\n">>
  <2>1. s \in Seq(Chars)
    <3>1. /\ "No_NIC_MMIO=0x" \in Chars /\ "00500000" \in Chars /\ "\r\n" \in Chars
      BY SMT DEF Chars, Words
    <3>. QED
      BY <3>1, SMT
  <2>2. pc = "probe" /\ Say(s, "cycles")
    BY <1>6, SMT DEF NoNic
  <2>. HIDE DEF s
  <2>. QED
    BY <1>1, <2>1, <2>2, SayText, SMT
<1>7. CASE Cycles
  <2>. DEFINE s == <<"PCI_cycles=">> \o Hex(0) \o <<"\r\n">>
  <2>1. s \in Seq(Chars)
    <3>1. /\ <<"PCI_cycles=">> \in Seq(Chars) /\ <<"\r\n">> \in Seq(Chars)
      BY WordText, SMT DEF Words
    <3>2. Hex(0) \in Seq(Chars)
      BY HexText
    <3>. QED
      BY <3>1, <3>2, ConcatProperties
  <2>2. pc = "cycles" /\ Say(s, "rings")
    BY <1>7, SMT DEF Cycles
  <2>. HIDE DEF s
  <2>. QED
    BY <1>1, <2>1, <2>2, SayText, SMT
<1>8. CASE Poll
  <2>1. /\ thr = <<>> /\ text # <<>> /\ pc' = "putc" /\ UNCHANGED <<text, thr, console, said>>
    BY <1>8, SMT DEF Poll, Silent
  <2>. QED
    BY <1>1, <2>1 DEF TextInv, ConsoleWhole
<1>9. CASE Putc
  BY <1>1, <1>9, PutcText
<1>10. CASE Printed
  <2>1. /\ text = <<>> /\ UNCHANGED <<text, thr, console, said>> /\ pc' = ret
        /\ Stage = ret
    BY <1>10, SMT DEF Printed, Silent, Stage
  <2>2. ret \in Stages
    BY <1>1, <2>1 DEF ScanInv
  <2>. QED
    BY <1>1, <2>1, <2>2, SilentText, SMT DEF Stages
<1>11. CASE Uart
  BY <1>1, <1>11, UartText
<1>12. CASE Rings \/ UNCHANGED vars
  BY <1>1, <1>12 DEF Rings, vars, TextInv, ConsoleWhole
<1>. QED
  BY <1>2, <1>3, <1>4, <1>5, <1>6, <1>7, <1>8, <1>9, <1>10, <1>11, <1>12
  DEF Next, Kernel

(* The whole boot, for every machine: the scan, the base and the console.   *)
THEOREM Booted == Spec => []BootInv
<1>1. Init => BootInv
  BY InitBoot
<1>2. BootInv /\ [Next]_vars => BootInv'
  BY NextScan, NextText DEF BootInv
<1>. QED
  BY <1>1, <1>2, PTL DEF Spec

(* The type invariant.                                                      *)
THEOREM TypesHold == Spec => []TypeOK
<1>1. BootInv => TypeOK
  <2> SUFFICES ASSUME BootInv PROVE TypeOK
    OBVIOUS
  <2>1. /\ bus \in 0 .. BUSES /\ dev \in 0 .. DEVS - 1 /\ fn \in 0 .. FNS - 1
        /\ nic_mmio_base \in Nat /\ Stage \in Stages /\ Len(thr) <= 1
    BY DEF BootInv, ScanInv, TextInv
  <2>2. pc \in {"print", "putc"} \/ pc = Stage
    BY SMT DEF Stage
  <2>. QED
    BY <2>1, <2>2, SMT DEF TypeOK, Stages
<1>. QED
  BY <1>1, Booted, PTL

(* pci_enumerate (kernel.c) finds the first Ethernet function of any        *)
(* machine, and the rings are set up over its registers, over low memory if *)
(* it has none in memory, or over the stub if there is no such function.    *)
THEOREM FirstIsFound == Spec => []FirstEthernetDecides
<1>1. BootInv => FirstEthernetDecides
  <2> SUFFICES ASSUME BootInv, pc = "rings" PROVE Decided
    BY Zenon DEF FirstEthernetDecides, Decided
  <2>1. Stage = "rings"
    BY SMT DEF Stage
  <2>. QED
    BY <2>1, SMT DEF BootInv, ScanInv
<1>. QED
  BY <1>1, Booted, PTL

(* Whatever serial_write (kernel.c) is given reaches the console, whole and *)
(* in order, at any pace of the port.                                       *)
THEOREM ConsoleTold == Spec => []ConsoleWhole
<1>1. BootInv => ConsoleWhole
  BY DEF BootInv, TextInv
<1>. QED
  BY <1>1, Booted, PTL
(***************************************************************************)
(* What the console tells of the base.                                      *)
(***************************************************************************)
Plain == Chars \ {"MMIO=0x"}

(* The eight digits of v follow place i.                                    *)
Shows(s, i, v) == /\ i + 8 <= Len(s)
                  /\ \A j \in 1 .. 8 : s[i + j] = Digit(v, 8 - j)

Fits32(v) == v \div 65536 < 65536

(* Where the base is announced, its digits follow; by then it is decided.   *)
TellInv ==
    \A i \in 1 .. Len(said) : said[i] = "MMIO=0x" =>
        /\ Stage \in {"cycles", "rings"}
        /\ Shows(said, i, nic_mmio_base) /\ Fits32(nic_mmio_base)

LEMMA DigitIs == ASSUME NEW v \in Nat, NEW j \in 0 .. 7
                 PROVE  /\ Digit(v, j) = Digits[1 + ((v \div Sixteens[j + 1]) % 16)]
                        /\ (v \div Sixteens[j + 1]) % 16 \in 0 .. 15
                        /\ Digit(v, j) \in Plain
<1>. DEFINE d == (v \div Sixteens[j + 1]) % 16
<1>1. Sixteens[j + 1] \in Nat \ {0}
  BY SMT DEF Sixteens
<1>2. d \in 0 .. 15
  BY <1>1, SMT
<1>3. Digit(v, j) = Digits[1 + d]
  BY DEF Digit
<1>4. Digits[1 + d] # "MMIO=0x"
  <2>. HIDE DEF d
  <2>. QED
    BY <1>2, SMT DEF Digits
<1>5. Digit(v, j) \in Chars
  BY SMT DEF Chars
<1>. QED
  BY <1>2, <1>3, <1>4, <1>5 DEF Plain

LEMMA HexPlain == ASSUME NEW v \in Nat
                  PROVE  /\ Hex(v) \in Seq(Plain) /\ Len(Hex(v)) = 8
                         /\ \A j \in 1 .. 8 : Hex(v)[j] = Digit(v, 8 - j)
<1>1. ASSUME NEW i \in 1 .. 8
      PROVE  Digit(v, 8 - i) \in Plain
  <2>1. 8 - i \in 0 .. 7
    BY SMT
  <2>. QED
    BY <2>1, DigitIs
<1>2. Hex(v) = [i \in 1 .. 8 |-> Digit(v, 8 - i)]
  BY DEF Hex
<1>3. Hex(v) \in [1 .. 8 -> Plain]
  BY <1>1, <1>2, Zenon
<1>4. Hex(v) \in Seq(Plain)
  BY <1>3, FunctionText
<1>5. Len(Hex(v)) = 8
  BY <1>3, <1>4, SMT
<1>. QED
  BY <1>2, <1>4, <1>5, Zenon

LEMMA WordPlain == ASSUME NEW c \in Words, c # "MMIO=0x"
                   PROVE  <<c>> \in Seq(Plain)
<1>1. c \in Plain
  BY Zenon DEF Chars, Plain
<1>. QED
  BY <1>1, SMT

LEMMA Quiet == ASSUME NEW s \in Seq(Plain), NEW j \in 1 .. Len(s)
               PROVE  s[j] # "MMIO=0x"
  BY ElementOfSeq DEF Plain

LEMMA PlainChars == ASSUME NEW s \in Seq(Plain) PROVE s \in Seq(Chars)
<1>1. Plain \subseteq Chars
  BY DEF Plain
<1>. QED
  BY <1>1, SMT

(* What says nothing of the base leaves what was said of it.                *)
LEMMA SayPlain ==
    ASSUME TellInv, said \in Seq(Chars), NEW s \in Seq(Plain), said' = said \o s,
           Stage \in {"cycles", "rings"} =>
               Stage' \in {"cycles", "rings"} /\ nic_mmio_base' = nic_mmio_base
    PROVE  TellInv'
<1> SUFFICES ASSUME NEW i \in 1 .. Len(said'), said'[i] = "MMIO=0x"
             PROVE  /\ Stage' \in {"cycles", "rings"}
                    /\ Shows(said', i, nic_mmio_base') /\ Fits32(nic_mmio_base')
  BY Zenon DEF TellInv
<1>1. /\ s \in Seq(Chars) /\ Len(said') = Len(said) + Len(s)
      /\ Len(said) \in Nat /\ Len(s) \in Nat
      /\ \A j \in 1 .. Len(said') :
            said'[j] = IF j <= Len(said) THEN said[j] ELSE s[j - Len(said)]
  <2>1. s \in Seq(Chars)
    BY PlainChars
  <2>. QED
    BY <2>1, ConcatProperties, LenProperties
<1>2. i <= Len(said)
  <2>1. CASE i > Len(said)
    <3>1. i - Len(said) \in 1 .. Len(s)
      BY <1>1, <2>1
    <3>. QED
      BY <1>1, <2>1, <3>1, Quiet
  <2>. QED
    BY <1>1, <2>1
<1>3. i \in 1 .. Len(said) /\ said[i] = "MMIO=0x"
  BY <1>1, <1>2
<1>4. /\ Stage \in {"cycles", "rings"}
      /\ Shows(said, i, nic_mmio_base) /\ Fits32(nic_mmio_base)
  BY <1>3, Zenon DEF TellInv
<1>5. Shows(said', i, nic_mmio_base)
  <2>1. i + 8 <= Len(said) /\ \A j \in 1 .. 8 : said[i + j] = Digit(nic_mmio_base, 8 - j)
    BY <1>4 DEF Shows
  <2>2. \A j \in 1 .. 8 : said'[i + j] = said[i + j]
    BY <1>1, <1>3, <2>1, SMT
  <2>3. i + 8 <= Len(said')
    BY <1>1, <1>3, <2>1, SMT
  <2>. QED
    BY <2>1, <2>2, <2>3 DEF Shows
<1>. QED
  BY <1>4, <1>5

LEMMA TellStays ==
    ASSUME TellInv, UNCHANGED <<said, nic_mmio_base>>, Stage' = Stage
    PROVE  TellInv'
  BY Zenon DEF TellInv

LEMMA NotYet == ASSUME TellInv, Stage \notin {"cycles", "rings"}
                PROVE  \A i \in 1 .. Len(said) : said[i] # "MMIO=0x"
  BY DEF TellInv

LEMMA Joined ==
    ASSUME NEW s \in Seq(Chars), NEW t \in Seq(Chars)
    PROVE  /\ s \o t \in Seq(Chars) /\ Len(s) \in Nat /\ Len(t) \in Nat
           /\ Len(s \o t) = Len(s) + Len(t)
           /\ \A j \in 1 .. Len(s) : (s \o t)[j] = s[j]
           /\ \A j \in 1 .. Len(t) : (s \o t)[Len(s) + j] = t[j]
<1>1. Len(s) \in Nat /\ Len(t) \in Nat
  BY LenProperties
<1>. QED
  BY <1>1, ConcatProperties

LEMMA Framed ==
    ASSUME NEW h \in Seq(Chars), Len(h) = 8,
           <<"MMIO=0x">> \in Seq(Chars), <<"\r\n">> \in Seq(Chars)
    PROVE  LET s == <<"MMIO=0x">> \o h \o <<"\r\n">>
           IN  /\ s \in Seq(Chars) /\ Len(s) = 10
               /\ \A j \in 1 .. 8 : s[1 + j] = h[j]
               /\ s[10] = "\r\n"
<1>. DEFINE a == <<"MMIO=0x">>
            z == <<"\r\n">>
            t == a \o h
<1>1. Len(a) = 1 /\ Len(z) = 1 /\ z[1] = "\r\n"
  OBVIOUS
<1>. HIDE DEF a, z
<1>2. a \in Seq(Chars) /\ z \in Seq(Chars)
  BY DEF a, z
<1>3. /\ t \in Seq(Chars) /\ Len(t) = 9
      /\ \A j \in 1 .. 8 : t[1 + j] = h[j]
  <2>1. /\ a \o h \in Seq(Chars) /\ Len(a \o h) = Len(a) + Len(h)
        /\ \A j \in 1 .. Len(h) : (a \o h)[Len(a) + j] = h[j]
    BY <1>2, Joined, Zenon
  <2>. QED
    BY <1>1, <2>1
<1>. HIDE DEF t
<1>4. /\ t \o z \in Seq(Chars) /\ Len(t \o z) = 10
      /\ \A j \in 1 .. 9 : (t \o z)[j] = t[j]
      /\ (t \o z)[10] = z[1]
  <2>1. /\ t \o z \in Seq(Chars) /\ Len(t \o z) = Len(t) + Len(z)
        /\ \A j \in 1 .. Len(t) : (t \o z)[j] = t[j]
        /\ \A j \in 1 .. Len(z) : (t \o z)[Len(t) + j] = z[j]
    BY <1>2, <1>3, Joined, Zenon
  <2>2. 1 \in 1 .. Len(z) /\ Len(t) + 1 = 10 /\ Len(t) + Len(z) = 10
    BY <1>1, <1>3
  <2>. QED
    BY <1>3, <2>1, <2>2
<1>5. ASSUME NEW j \in 1 .. 8 PROVE (t \o z)[1 + j] = h[j]
  <2>1. 1 + j \in 1 .. 9
    BY SMT
  <2>2. (t \o z)[1 + j] = t[1 + j]
    BY <1>4, <2>1, Zenon
  <2>. QED
    BY <1>3, <2>2, Zenon
<1>. QED
  BY <1>1, <1>4, <1>5 DEF t, a, z

LEMMA Wide == ASSUME NEW v \in Nat, v \div 65536 < 65536
              PROVE  Fits32(v)
  BY SMT DEF Fits32

LEMMA BarTell ==
    ASSUME ScanInv, ScanInv', TextInv, TellInv, Bar
    PROVE  TellInv'
<1>1. /\ pc = "bar" /\ Stage = "bar" /\ pc' = "print" /\ ret' = "cycles"
      /\ machine \in Machines
  BY SMT DEF Bar, Stage, Say, ScanInv
<1>2. Stage' = "cycles"
  BY <1>1, SMT DEF Stage
<1>3. CASE Say(<<"BAR0_unsupported\r\n">>, "cycles")
  <2>. DEFINE s == <<"BAR0_unsupported\r\n">>
  <2>1. s \in Seq(Plain)
    BY WordPlain, SMT DEF Words
  <2>2. said' = said \o s /\ said \in Seq(Chars)
    BY <1>3 DEF Say, TextInv
  <2>. HIDE DEF s
  <2>. QED
    BY <1>1, <2>1, <2>2, SayPlain
<1>4. CASE /\ nic_mmio_base' = PciCfgRead(bus, dev, fn, 16) - (PciCfgRead(bus, dev, fn, 16) % 16)
           /\ Say(<<"MMIO=0x">> \o Hex(nic_mmio_base') \o <<"\r\n">>, "cycles")
  <2>. DEFINE h == Hex(nic_mmio_base')
              s == <<"MMIO=0x">> \o h \o <<"\r\n">>
  <2>1. Fits32(nic_mmio_base') /\ nic_mmio_base' \in Nat
    <3>1. PICK f \in machine : Here(f)
      BY <1>1, SMT DEF ScanInv, EthernetFunctions
    <3>2. bus \in 0 .. BUSES - 1 /\ dev \in 0 .. DEVS - 1 /\ fn \in 0 .. FNS - 1
      BY <1>1, <3>1, PlaceTypes, Bounds, SMT DEF ScanInv, Here
    <3>3. PciCfgRead(bus, dev, fn, 16) = f.bar
      BY <1>1, <3>1, <3>2, ReadHere, Identity
    <3>4. f.bar \in Nat /\ f.bar \div 65536 < 65536
      BY <1>1, <3>1, MachineAssumption, FunctionTypes, SMT
    <3>. DEFINE b == f.bar - (f.bar % 16)
    <3>5. b \in Nat /\ b \div 65536 < 65536
      BY <3>4, SMT
    <3>6. nic_mmio_base' = b
      BY <1>4, <3>3
    <3>. HIDE DEF b
    <3>7. Fits32(b)
      BY <3>5, Wide
    <3>. QED
      BY <3>5, <3>6, <3>7
  <2>2. /\ h \in Seq(Plain) /\ Len(h) = 8
        /\ \A j \in 1 .. 8 : h[j] = Digit(nic_mmio_base', 8 - j)
    BY <2>1, HexPlain
  <2>3. said' = said \o s /\ said \in Seq(Chars)
    BY <1>4 DEF Say, TextInv
  <2>. HIDE DEF h
  <2>4. /\ h \in Seq(Chars) /\ <<"MMIO=0x">> \in Seq(Chars) /\ <<"\r\n">> \in Seq(Chars)
    BY <2>2, PlainChars, WordText, SMT DEF Words
  <2>5. /\ s \in Seq(Chars) /\ Len(s) = 10
        /\ \A j \in 1 .. 8 : s[1 + j] = h[j]
        /\ s[10] = "\r\n"
    BY <2>2, <2>4, Framed
  <2>. HIDE DEF s
  <2>6. /\ Len(said) \in Nat /\ Len(said') = Len(said) + 10
        /\ \A j \in 1 .. Len(said) : said'[j] = said[j]
        /\ \A j \in 1 .. 10 : said'[Len(said) + j] = s[j]
    <3>1. /\ Len(said) \in Nat /\ Len(said \o s) = Len(said) + Len(s)
          /\ \A j \in 1 .. Len(said) : (said \o s)[j] = said[j]
          /\ \A j \in 1 .. Len(s) : (said \o s)[Len(said) + j] = s[j]
      BY <2>3, <2>5, Joined, Zenon
    <3>. QED
      BY <2>3, <2>5, <3>1, Zenon
  <2>7. \A j \in 2 .. 10 : s[j] # "MMIO=0x"
    <3>1. \A j \in 1 .. 8 : h[j] # "MMIO=0x"
      BY <2>2, Quiet
    <3>. QED
      BY <2>5, <3>1, SMT
  <2> SUFFICES ASSUME NEW i \in 1 .. Len(said'), said'[i] = "MMIO=0x"
               PROVE  Shows(said', i, nic_mmio_base')
    BY <1>2, <2>1, Zenon DEF TellInv
  <2>8. i = Len(said) + 1
    <3>1. CASE i <= Len(said)
      <4>1. i \in 1 .. Len(said)
        BY <2>6, <3>1
      <4>2. said[i] = "MMIO=0x"
        BY <2>6, <4>1, Zenon
      <4>. QED
        BY <1>1, <4>1, <4>2, NotYet, Zenon
    <3>2. CASE i > Len(said) + 1
      <4>1. i \in Int /\ i > Len(said) + 1 /\ i <= Len(said) + 10
        BY <2>6, <3>2
      <4>2. PICK j \in 2 .. 10 : i = Len(said) + j
        <5>1. Len(said) \in Nat
          BY <2>6
        <5>2. i - Len(said) \in 2 .. 10 /\ i = Len(said) + (i - Len(said))
          BY <4>1, <5>1
        <5>. QED
          BY <5>2
      <4>3. said'[i] = s[j]
        <5>1. j \in 1 .. 10
          OBVIOUS
        <5>. QED
          BY <2>6, <4>2, <5>1
      <4>. QED
        BY <2>7, <4>2, <4>3
    <3>. QED
      BY <2>6, <3>1, <3>2
  <2>9. i + 8 <= Len(said')
    BY <2>6, <2>8, SMT
  <2>10. ASSUME NEW j \in 1 .. 8 PROVE said'[i + j] = Digit(nic_mmio_base', 8 - j)
    <3>1. 1 + j \in 1 .. 10 /\ i + j = Len(said) + (1 + j)
      BY <2>6, <2>8, SMT
    <3>2. said'[i + j] = s[1 + j]
      BY <2>6, <3>1
    <3>. QED
      BY <2>2, <2>5, <3>2
  <2>. QED
    BY <2>9, <2>10 DEF Shows
<1>. QED
  BY <1>3, <1>4, SMT DEF Bar

LEMMA ClassTell ==
    ASSUME ScanInv, ScanInv', TextInv, TellInv, Class
    PROVE  TellInv'
<1>. DEFINE vd == PciCfgRead(bus, dev, fn, 0)
            v == vd % 65536
            d == (vd \div 65536) % 65536
            s == <<"NIC_vendor=0x">> \o Hex(v) \o <<"_device=0x">> \o Hex(d) \o <<"\r\n">>
<1>1. pc = "class" /\ Stage = "class" /\ machine \in Machines
  BY SMT DEF Class, Stage, ScanInv
<1>2. vd \in Nat
  <2>1. PICK f \in machine : Here(f)
    BY <1>1, SMT DEF ScanInv
  <2>2. bus \in 0 .. BUSES - 1 /\ dev \in 0 .. DEVS - 1 /\ fn \in 0 .. FNS - 1
    BY <1>1, <2>1, PlaceTypes, Bounds, SMT DEF ScanInv, Here
  <2>. QED
    BY <1>1, <2>1, <2>2, ReadHere, Identity
<1>3. NextFn \/ Say(s, "bar")
  BY SMT DEF Class
<1>. HIDE DEF vd
<1>4. v \in Nat /\ d \in Nat
  BY <1>2, SMT
<1>. HIDE DEF v, d
<1>5. s \in Seq(Plain)
  <2>1. Hex(v) \in Seq(Plain) /\ Hex(d) \in Seq(Plain)
    BY <1>4, HexPlain
  <2>2. /\ <<"NIC_vendor=0x">> \in Seq(Plain) /\ <<"_device=0x">> \in Seq(Plain)
        /\ <<"\r\n">> \in Seq(Plain)
    BY WordPlain, SMT DEF Words
  <2>. QED
    BY <2>1, <2>2, ConcatProperties
<1>. HIDE DEF s
<1>6. CASE NextFn
  <2>1. said' = said /\ nic_mmio_base' = nic_mmio_base
    BY <1>6 DEF NextFn, Silent
  <2>. QED
    BY <1>1, <2>1, NotYet, Zenon DEF TellInv
<1>7. CASE Say(s, "bar")
  <2>1. said' = said \o s /\ said \in Seq(Chars)
    BY <1>7 DEF Say, TextInv
  <2>. QED
    BY <1>1, <1>5, <2>1, SayPlain
<1>. QED
  BY <1>3, <1>6, <1>7

LEMMA NextTell == BootInv /\ BootInv' /\ TellInv /\ [Next]_vars => TellInv'
<1> SUFFICES ASSUME BootInv, BootInv', TellInv, [Next]_vars PROVE TellInv'
  OBVIOUS
<1>1. ScanInv /\ ScanInv' /\ TextInv /\ said \in Seq(Chars)
  BY DEF BootInv, TextInv
<1>2. CASE Start
  <2>. DEFINE s == <<"kernel_main\r\n">>
  <2>1. s \in Seq(Plain)
    BY WordPlain, SMT DEF Words
  <2>2. said' = said \o s /\ Stage = "start"
    BY <1>2, SMT DEF Start, Say, Stage
  <2>. HIDE DEF s
  <2>. QED
    BY <1>1, <2>1, <2>2, SayPlain, SMT
<1>3. CASE Probe
  <2>1. Stage = "probe" /\ said' = said
    BY <1>3, SMT DEF Probe, NextFn, Silent, Stage
  <2>. QED
    BY <2>1, NotYet, Zenon DEF TellInv
<1>4. CASE Class
  BY <1>1, <1>4, ClassTell
<1>5. CASE Bar
  BY <1>1, <1>5, BarTell
<1>6. CASE NoNic
  <2>. DEFINE s == <<"No_NIC_MMIO=0x", "00500000", "\r\n">>
  <2>1. s \in Seq(Plain)
    <3>1. /\ "No_NIC_MMIO=0x" \in Plain /\ "00500000" \in Plain /\ "\r\n" \in Plain
      BY SMT DEF Chars, Words, Plain
    <3>. QED
      BY <3>1, SMT
  <2>2. said' = said \o s /\ Stage = "probe"
    BY <1>6, SMT DEF NoNic, Say, Stage
  <2>. HIDE DEF s
  <2>. QED
    BY <1>1, <2>1, <2>2, SayPlain, SMT
<1>7. CASE Cycles
  <2>. DEFINE s == <<"PCI_cycles=">> \o Hex(0) \o <<"\r\n">>
  <2>1. s \in Seq(Plain)
    <3>1. /\ <<"PCI_cycles=">> \in Seq(Plain) /\ <<"\r\n">> \in Seq(Plain)
      BY WordPlain, SMT DEF Words
    <3>2. Hex(0) \in Seq(Plain)
      BY HexPlain
    <3>. QED
      BY <3>1, <3>2, ConcatProperties
  <2>2. said' = said \o s /\ Stage' = "rings" /\ nic_mmio_base' = nic_mmio_base
    BY <1>7, SMT DEF Cycles, Say, Stage
  <2>. HIDE DEF s
  <2>. QED
    BY <1>1, <2>1, <2>2, SayPlain, SMT
<1>8. CASE Poll \/ Putc \/ Uart \/ Rings \/ UNCHANGED vars
  <2>1. Stage' = Stage /\ UNCHANGED <<said, nic_mmio_base>>
    BY <1>8, SMT DEF Poll, Putc, Uart, Rings, vars, Silent, Stage
  <2>. QED
    BY <2>1, TellStays
<1>9. CASE Printed
  <2>1. /\ Stage = ret /\ ret' = ret /\ pc' = ret /\ UNCHANGED <<said, nic_mmio_base>>
    BY <1>9, SMT DEF Printed, Silent, Stage
  <2>2. Stage' = Stage
    BY <1>1, <2>1, SMT DEF Stage, ScanInv, Stages
  <2>. QED
    BY <2>1, <2>2, TellStays
<1>. QED
  BY <1>2, <1>3, <1>4, <1>5, <1>6, <1>7, <1>8, <1>9 DEF Next, Kernel

LEMMA Nibbles ==
    ASSUME NEW v \in Nat, v \div 65536 < 65536
    PROVE  /\ (v \div 268435456) % 16 = v \div 268435456
           /\ v \div 16777216 = 16 * (v \div 268435456) + ((v \div 16777216) % 16)
           /\ v \div 1048576 = 16 * (v \div 16777216) + ((v \div 1048576) % 16)
           /\ v \div 65536 = 16 * (v \div 1048576) + ((v \div 65536) % 16)
           /\ v \div 4096 = 16 * (v \div 65536) + ((v \div 4096) % 16)
           /\ v \div 256 = 16 * (v \div 4096) + ((v \div 256) % 16)
           /\ v \div 16 = 16 * (v \div 256) + ((v \div 16) % 16)
           /\ v = 16 * (v \div 16) + (v % 16)
<1>1. (v \div 268435456) % 16 = v \div 268435456
  <2>1. v \div 268435456 \in 0 .. 15
    BY SMT
  <2>. QED
    BY <2>1, SMT
<1>2. v \div 16777216 = 16 * (v \div 268435456) + ((v \div 16777216) % 16)
  BY SMT
<1>3. v \div 1048576 = 16 * (v \div 16777216) + ((v \div 1048576) % 16)
  BY SMT
<1>4. v \div 65536 = 16 * (v \div 1048576) + ((v \div 65536) % 16)
  BY SMT
<1>5. v \div 4096 = 16 * (v \div 65536) + ((v \div 4096) % 16)
  BY SMT
<1>6. v \div 256 = 16 * (v \div 4096) + ((v \div 256) % 16)
  BY SMT
<1>7. v \div 16 = 16 * (v \div 256) + ((v \div 16) % 16)
  BY SMT
<1>8. v = 16 * (v \div 16) + (v % 16)
  BY SMT
<1>. QED
  BY <1>1, <1>2, <1>3, <1>4, <1>5, <1>6, <1>7, <1>8, SMT

(* Eight digits to the base of sixteen are the number they were made from.  *)
LEMMA DigitsBack ==
    ASSUME NEW v \in Nat, Fits32(v), NEW d,
           \A k \in 1 .. 8 : d[k] = (v \div Sixteens[9 - k]) % 16,
           NEW f,
           \A k \in 0 .. 8 : f[k] = IF k = 0 THEN 0 ELSE 16 * f[k - 1] + d[k]
    PROVE  f[8] = v
<1>1. /\ d[1] = (v \div 268435456) % 16 /\ d[2] = (v \div 16777216) % 16
      /\ d[3] = (v \div 1048576) % 16 /\ d[4] = (v \div 65536) % 16
      /\ d[5] = (v \div 4096) % 16 /\ d[6] = (v \div 256) % 16
      /\ d[7] = (v \div 16) % 16 /\ d[8] = v % 16
  BY SMT DEF Sixteens
<1>2. /\ f[0] = 0 /\ f[1] = 16 * f[0] + d[1] /\ f[2] = 16 * f[1] + d[2]
      /\ f[3] = 16 * f[2] + d[3] /\ f[4] = 16 * f[3] + d[4] /\ f[5] = 16 * f[4] + d[5]
      /\ f[6] = 16 * f[5] + d[6] /\ f[7] = 16 * f[6] + d[7] /\ f[8] = 16 * f[7] + d[8]
  BY SMT
<1>3. v \div 65536 < 65536
  BY SMT DEF Fits32
<1>4. /\ d[1] = v \div 268435456
      /\ v \div 16777216 = 16 * (v \div 268435456) + d[2]
      /\ v \div 1048576 = 16 * (v \div 16777216) + d[3]
      /\ v \div 65536 = 16 * (v \div 1048576) + d[4]
      /\ v \div 4096 = 16 * (v \div 65536) + d[5]
      /\ v \div 256 = 16 * (v \div 4096) + d[6]
      /\ v \div 16 = 16 * (v \div 256) + d[7]
      /\ v = 16 * (v \div 16) + d[8]
  BY <1>1, <1>3, Nibbles, SMT
<1>5. v \div 268435456 \in Int
  BY SMT
<1>. QED
  BY <1>2, <1>4, <1>5, SMT
LEMMA DigitBack == ASSUME NEW n \in 1 .. 16, NEW c, c = Digits[n]
                   PROVE  (CHOOSE d \in 1 .. 16 : Digits[d] = c) = n
<1>1. \A d, e \in 1 .. 16 : Digits[d] = Digits[e] => d = e
  BY SMT DEF Digits
<1>. HIDE DEF Digits
<1>. QED
  BY <1>1, Zenon

LEMMA DigitsForth ==
    ASSUME NEW v \in Nat, Fits32(v), NEW d,
           \A k \in 1 .. 8 : d[k] = (v \div Sixteens[9 - k]) % 16
    PROVE  \E f : f = [k \in 0 .. 8 |-> IF k = 0 THEN 0 ELSE 16 * f[k - 1] + d[k]]
<1>. DEFINE f == [k \in 0 .. 8 |-> IF k = 0 THEN 0 ELSE v \div Sixteens[9 - k]]
<1>1. /\ f[0] = 0 /\ f[1] = v \div 268435456 /\ f[2] = v \div 16777216
      /\ f[3] = v \div 1048576 /\ f[4] = v \div 65536 /\ f[5] = v \div 4096
      /\ f[6] = v \div 256 /\ f[7] = v \div 16 /\ f[8] = v
  BY SMT DEF Sixteens
<1>2. /\ d[1] = (v \div 268435456) % 16 /\ d[2] = (v \div 16777216) % 16
      /\ d[3] = (v \div 1048576) % 16 /\ d[4] = (v \div 65536) % 16
      /\ d[5] = (v \div 4096) % 16 /\ d[6] = (v \div 256) % 16
      /\ d[7] = (v \div 16) % 16 /\ d[8] = v % 16
  BY SMT DEF Sixteens
<1>3. v \div 65536 < 65536
  BY SMT DEF Fits32
<1>4. /\ (v \div 268435456) % 16 = v \div 268435456
      /\ v \div 16777216 = 16 * (v \div 268435456) + ((v \div 16777216) % 16)
      /\ v \div 1048576 = 16 * (v \div 16777216) + ((v \div 1048576) % 16)
      /\ v \div 65536 = 16 * (v \div 1048576) + ((v \div 65536) % 16)
      /\ v \div 4096 = 16 * (v \div 65536) + ((v \div 4096) % 16)
      /\ v \div 256 = 16 * (v \div 4096) + ((v \div 256) % 16)
      /\ v \div 16 = 16 * (v \div 256) + ((v \div 16) % 16)
      /\ v = 16 * (v \div 16) + (v % 16)
  BY <1>3, Nibbles, SMT
<1>5. v \div 268435456 \in Int
  BY SMT
<1>6. DOMAIN f = 0 .. 8 /\ f = [k \in 0 .. 8 |-> f[k]]
  OBVIOUS
<1>. HIDE DEF f
<1>7. /\ f[1] = 16 * f[0] + d[1] /\ f[2] = 16 * f[1] + d[2] /\ f[3] = 16 * f[2] + d[3]
      /\ f[4] = 16 * f[3] + d[4] /\ f[5] = 16 * f[4] + d[5] /\ f[6] = 16 * f[5] + d[6]
      /\ f[7] = 16 * f[6] + d[7] /\ f[8] = 16 * f[7] + d[8]
  BY <1>1, <1>2, <1>4, <1>5, SMT
<1>8. ASSUME NEW k \in 0 .. 8
      PROVE  f[k] = IF k = 0 THEN 0 ELSE 16 * f[k - 1] + d[k]
  <2>1. k \in {0, 1, 2, 3, 4, 5, 6, 7, 8}
    BY SMT
  <2>. QED
    BY <1>1, <1>7, <2>1, SMT
<1>9. f = [k \in 0 .. 8 |-> IF k = 0 THEN 0 ELSE 16 * f[k - 1] + d[k]]
  BY <1>6, <1>8, Zenon
<1>. QED
  BY <1>9

LEMMA Told == ASSUME TellInv, nic_mmio_base \in Nat PROVE ConsoleTellsBase
<1>. DEFINE digit(c) == (CHOOSE d \in 1 .. 16 : Digits[d] = c) - 1
<1> SUFFICES ASSUME NEW i \in 1 .. Len(said), said[i] = "MMIO=0x"
             PROVE  LET v[k \in 0 .. 8] == IF k = 0 THEN 0
                                           ELSE 16 * v[k - 1] + digit(said[i + k])
                    IN  v[8] = nic_mmio_base
  BY Zenon DEF ConsoleTellsBase
<1>1. Shows(said, i, nic_mmio_base) /\ Fits32(nic_mmio_base)
  BY Zenon DEF TellInv
<1>. DEFINE g == [k \in 1 .. 8 |-> digit(said[i + k])]
<1>2. ASSUME NEW k \in 1 .. 8
      PROVE  g[k] = (nic_mmio_base \div Sixteens[9 - k]) % 16
  <2>. DEFINE m == (nic_mmio_base \div Sixteens[9 - k]) % 16
  <2>1. 8 - k \in 0 .. 7 /\ (8 - k) + 1 = 9 - k
    OBVIOUS
  <2>2. Digit(nic_mmio_base, 8 - k) = Digits[1 + m] /\ m \in 0 .. 15
    BY <2>1, DigitIs
  <2>. HIDE DEF m
  <2>3. said[i + k] = Digits[1 + m]
    BY <1>1, <2>2 DEF Shows
  <2>4. 1 + m \in 1 .. 16 /\ (1 + m) - 1 = m
    BY <2>2
  <2>5. (CHOOSE e \in 1 .. 16 : Digits[e] = said[i + k]) = 1 + m
    BY <2>3, <2>4, DigitBack, Zenon
  <2>6. digit(said[i + k]) = (1 + m) - 1
    BY <2>5, Zenon
  <2>7. g[k] = digit(said[i + k])
    BY Zenon
  <2>. QED
    BY <2>4, <2>6, <2>7, Zenon DEF m
<1>3. \A k \in 1 .. 8 : g[k] = digit(said[i + k])
  BY Zenon
<1>. HIDE DEF digit, g
<1>. DEFINE Said(f) == [k \in 0 .. 8 |-> IF k = 0 THEN 0 ELSE 16 * f[k - 1] + digit(said[i + k])]
            Sum(f)  == [k \in 0 .. 8 |-> IF k = 0 THEN 0 ELSE 16 * f[k - 1] + g[k]]
<1>4. ASSUME NEW f PROVE Said(f) = Sum(f)
  <2>1. ASSUME NEW k \in 0 .. 8, k # 0 PROVE g[k] = digit(said[i + k])
    <3>1. k \in 1 .. 8
      BY <2>1, SMT
    <3>. QED
      BY <1>3, <3>1, Zenon
  <2>. QED
    BY <2>1, Zenon
<1>5. \E f : f = Sum(f)
  BY <1>1, <1>2, <1>3, DigitsForth
<1>. DEFINE v == CHOOSE f : f = Said(f)
<1>6. v = Said(v)
  <2>. HIDE DEF Said, Sum, v
  <2>1. \E f : f = Said(f)
    BY <1>4, <1>5, Zenon
  <2>. QED
    BY <2>1, Zenon DEF v
<1>7. v = Sum(v)
  <2>. HIDE DEF Said, Sum, v
  <2>. QED
    BY <1>4, <1>6, Zenon
<1>8. v[8] = nic_mmio_base
  <2>. HIDE DEF v
  <2>1. \A k \in 0 .. 8 : v[k] = IF k = 0 THEN 0 ELSE 16 * v[k - 1] + g[k]
    BY <1>7, SMT
  <2>2. \A k \in 1 .. 8 : g[k] = (nic_mmio_base \div Sixteens[9 - k]) % 16
    BY <1>2, Zenon
  <2>. QED
    BY <1>1, <2>1, <2>2, DigitsBack
<1>. QED
  BY <1>8, Zenon DEF digit

(* The eight digits print_hex32 (kernel.c) shows behind "NIC MMIO=0x" are   *)
(* the base in use, on every machine: the base does not change after, and   *)
(* nothing comes between.                                                   *)
THEOREM BaseIsTold == Spec => []ConsoleTellsBase
<1>1. Init => TellInv
  <2> SUFFICES ASSUME Init PROVE TellInv
    OBVIOUS
  <2>1. said = <<>> /\ Len(said) = 0
    BY DEF Init
  <2>2. \A i \in 1 .. Len(said) : FALSE
    BY <2>1, SMT
  <2>. QED
    BY <2>2, Zenon DEF TellInv
<1>2. BootInv /\ BootInv' /\ TellInv /\ [Next]_vars => TellInv'
  BY NextTell
<1>3. BootInv /\ TellInv => ConsoleTellsBase
  BY Told DEF BootInv, ScanInv
<1>4. Spec => []BootInv
  BY Booted
<1>. QED
  BY <1>1, <1>2, <1>3, <1>4, PTL DEF Spec
=============================================================================
