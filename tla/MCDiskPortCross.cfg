\* Short requests across the end of a sector (diskPort.cpp:128, kernel.cpp:204).
CONSTANTS
    SectorSize = 3
    Sectors = 3
    Values = {1, 2}
    Requests <- InDisk
    NoRequest = NoRequest
SPECIFICATION Spec
PROPERTY ImplementsByteDevice
