\* Requests whose first and last sector are both read back.
CONSTANTS
    SectorSize = 3
    Sectors = 3
    Values = {1, 2}
    Requests <- MCRequests
    NoRequest = NoRequest
SPECIFICATION Spec
PROPERTIES
    ImplementsByteDevice
    ReadsTheRange
