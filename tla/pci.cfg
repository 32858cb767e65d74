SPECIFICATION Spec
CONSTANTS
    BUSES = 2
    DEVS = 2
    FNS = 2
    Machines <- SmallMachines
INVARIANTS TypeOK FirstEthernetDecides ConsoleWhole ConsoleTellsBase
PROPERTY BootEnds
