----------------------------- MODULE DiskPort -----------------------------
(***************************************************************************)
(* Bytes on a disk of sectors: read and write of                           *)
(* kernel/drivers/diskPort.cpp.  The device may refuse a command before it *)
(* starts and fail in the middle of one (access returns false); it moves   *)
(* whole sectors, one after the other.                                     *)
(*                                                                         *)
(* The temporary buffer is taken to be there: the allocator is Heap.       *)
(***************************************************************************)
EXTENDS Integers

CONSTANTS
    SectorSize,  \* 512
    Sectors,     \* the length of the disk
    Values,      \* the bytes callers write
    Requests,    \* the <<address, size>> callers ask for
    NoRequest

ASSUME DiskAssumption ==
    /\ SectorSize \in Nat \ {0}
    /\ Sectors \in Nat \ {0}
    /\ Values # {} /\ 0 \notin Values
    /\ \A r \in Requests : r[1] \in Nat /\ r[2] \in Nat /\ r[1] + r[2] <= Sectors * SectorSize

ASSUME NoRequestAssumption == NoRequest \notin [addr : Nat, size : Nat, value : Values]

VARIABLES
    disk,    \* the content, by byte address
    req,     \* the write in progress, or NoRequest
    step,    \* where write is: "idle", "first", "last", "issue", "device"
    buffer,  \* temp_buffer
    moved,   \* sectors of the buffer the device has written
    result,  \* what write returned
    got      \* what the last read returned, until the next write

vars == <<disk, req, step, buffer, moved, result, got>>

Addresses == 0..(Sectors * SectorSize - 1)

Init ==
    /\ disk = [a \in Addresses |-> CHOOSE v \in Values : TRUE]
    /\ req = NoRequest
    /\ step = "idle"
    /\ buffer = << >>
    /\ moved = 0
    /\ result = TRUE
    /\ got = << >>

---------------------------------------------------------------------------
StartSector(a) == a \div SectorSize

\* The sectors a request touches.
SectorCount(a, n) ==
    LET bySize == n \div SectorSize + (IF n % SectorSize # 0 THEN 1 ELSE 0)
    IN  bySize + (IF (a % SectorSize) + n > SectorSize * bySize THEN 1 ELSE 0)

\* The buffer with sector s of the disk read into its k-th sector.
ReadInto(buf, k, s) ==
    [i \in DOMAIN buf |-> IF i \div SectorSize = k
                            THEN disk[s * SectorSize + (i % SectorSize)] ELSE buf[i]]

OffsetMissing(a) == 0
OffsetInSector(a) == a % SectorSize

\* read: the sectors of the request, and the asked bytes out of them.
Read(a, n) ==
    LET sectors == [i \in 0..(SectorCount(a, n) * SectorSize - 1) |->
                        disk[StartSector(a) * SectorSize + i]]
    IN  /\ step = "idle"
        /\ got' = [addr |-> a, bytes |-> [i \in 0..(n - 1) |-> sectors[OffsetInSector(a) + i]]]
        /\ UNCHANGED <<disk, req, step, buffer, moved, result>>

\* write: a buffer of zeros for the sectors; no sector, no write.
Write(a, n, v) ==
    /\ step = "idle"
    /\ SectorCount(a, n) # 0
    /\ req' = [addr |-> a, size |-> n, value |-> v]
    /\ buffer' = [i \in 0..(SectorCount(a, n) * SectorSize - 1) |-> 0]
    /\ moved' = 0
    /\ step' = "first"
    /\ got' = << >>
    /\ UNCHANGED <<disk, result>>

ReadFirst ==
    /\ step = "first"
    /\ buffer' = ReadInto(buffer, 0, StartSector(req.addr))
    /\ step' = "last"
    /\ UNCHANGED <<disk, req, moved, result, got>>

NeverPartial(n) == FALSE

\* The last sector is read back when the size leaves a part of it.
LastIsPartial(n) == n % SectorSize # 0 /\ n > SectorSize

ReadLast ==
    LET last == SectorCount(req.addr, req.size) - 1
    IN  /\ step = "last"
        /\ buffer' = IF LastIsPartial(req.size)
                       THEN ReadInto(buffer, last, StartSector(req.addr) + last)
                       ELSE buffer
        /\ step' = "issue"
        /\ UNCHANGED <<disk, req, moved, result, got>>

\* memcpy of the caller's bytes; the command is issued.
Issue ==
    LET from == OffsetInSector(req.addr)
    IN  /\ step = "issue"
        /\ buffer' = [i \in DOMAIN buffer |->
                        IF i \in from..(from + req.size - 1) THEN req.value ELSE buffer[i]]
        /\ step' = "device"
        /\ UNCHANGED <<disk, req, moved, result, got>>

\* The device writes the next sector.
DeviceWrites ==
    LET base == (StartSector(req.addr) + moved) * SectorSize
    IN  /\ step = "device"
        /\ moved < SectorCount(req.addr, req.size)
        /\ disk' = [a \in Addresses |->
                      IF a \in base..(base + SectorSize - 1)
                        THEN buffer[moved * SectorSize + (a - base)] ELSE disk[a]]
        /\ moved' = moved + 1
        /\ UNCHANGED <<req, step, buffer, result, got>>

WriteReturns(ok) ==
    /\ result' = ok
    /\ req' = NoRequest
    /\ step' = "idle"
    /\ buffer' = << >>
    /\ moved' = 0
    /\ UNCHANGED <<disk, got>>

Done == moved = SectorCount(req.addr, req.size)

Finish == step = "device" /\ Done /\ WriteReturns(TRUE)

\* access fails: the device stays busy or reports an error.
AccessFails ==
    /\ step \in {"first", "last", "device"}
    /\ step = "last" => LastIsPartial(req.size)
    /\ WriteReturns(FALSE)

Next ==
    \/ \E r \in Requests : Read(r[1], r[2]) \/ (\E v \in Values : Write(r[1], r[2], v))
    \/ ReadFirst \/ ReadLast \/ Issue \/ DeviceWrites \/ Finish \/ AccessFails

Spec == Init /\ [][Next]_vars

---------------------------------------------------------------------------
\* The request lies in one sector, ends with one, or is of the sizes for which
\* write reads the last one back.
EndIsKept(r) ==
    \/ (r[1] % SectorSize) + r[2] <= SectorSize
    \/ (r[1] + r[2]) % SectorSize = 0
    \/ r[2] > SectorSize /\ r[2] % SectorSize # 0

(***************************************************************************)
(* Sectors, read-modify-write and failing commands implement a device of   *)
(* bytes: nobody's neighbouring bytes change, whatever fails.              *)
(***************************************************************************)
Device == INSTANCE ByteDevice WITH bytes <- disk, pending <- req
ImplementsByteDevice == Device!Spec

(***************************************************************************)
(* A read hands out the bytes of its range, whatever sectors it spans.     *)
(***************************************************************************)
ReadsTheRange ==
    [][got' # got /\ got' # << >> =>
         \A i \in DOMAIN got'.bytes : got'.bytes[i] = disk[got'.addr + i]]_vars
============================================================================
