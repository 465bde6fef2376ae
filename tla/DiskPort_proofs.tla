--------------------------- MODULE DiskPort_proofs ---------------------------
(***************************************************************************)
(* For any sector size, any disk and any requests whose last sector is     *)
(* written whole or read back first: sectors, read-modify-write and        *)
(* failing commands implement a device of bytes.                           *)
(***************************************************************************)
EXTENDS DiskPort, TLAPS

EndsAreKept == \A r \in Requests : EndIsKept(r)

Byte == Values \union {0}

\* The buffer's byte i is the disk's byte Offset(i).
Offset(i) == StartSector(req.addr) * SectorSize + i
Count == SectorCount(req.addr, req.size)
Buffered == 0..(Count * SectorSize - 1)
From == OffsetInSector(req.addr)
Asked == From..(From + req.size - 1)

TypeOK ==
    /\ disk \in [Addresses -> Byte]
    /\ step \in {"idle", "first", "last", "issue", "device"}
    /\ step = "idle" => req = NoRequest
    /\ step # "idle" =>
        /\ req \in [addr : Nat, size : Nat, value : Values]
        /\ \E r \in Requests : r[1] = req.addr /\ r[2] = req.size
        /\ Count # 0
        /\ buffer \in [Buffered -> Byte]
        /\ moved \in 0..Count
    /\ step \in {"first", "last", "issue"} => moved = 0
    /\ result \in BOOLEAN

\* What the buffer holds beside the bytes asked for.
Surroundings ==
    /\ step = "last" => \A i \in Buffered : i < SectorSize => buffer[i] = disk[Offset(i)]
    /\ step \in {"issue", "device"} =>
        \A i \in Buffered \ Asked : buffer[i] = disk[Offset(i)]

\* The device has the caller's bytes, and what it has moved is on the disk.
Issued ==
    step = "device" =>
        /\ \A i \in Asked : buffer[i] = req.value
        /\ \A i \in 0..(moved * SectorSize - 1) : disk[Offset(i)] = buffer[i]

IInv == TypeOK /\ Surroundings /\ Issued

----------------------------------------------------------------------------
\* Sectors.

LEMMA DivMod ==
    ASSUME NEW a \in Nat, NEW d \in Nat \ {0}
    PROVE  /\ a \div d \in Nat /\ a % d \in 0..(d - 1)
           /\ a = (a \div d) * d + (a % d)
  OBVIOUS

LEMMA Multiple ==
    ASSUME NEW a \in Nat, NEW d \in Nat \ {0}, a % d = 0
    PROVE  \E q \in Nat : a = q * d
<1>1. a \div d \in Nat /\ a = (a \div d) * d + 0
  BY DivMod
<1> QED  BY <1>1

LEMMA Grow ==
    ASSUME NEW a \in Int, NEW b \in Int, NEW d \in Nat, a <= b
    PROVE  a * d <= b * d
<1>1. (b - a) * d >= 0  OBVIOUS
<1> QED  BY <1>1

LEMMA Shrink ==
    ASSUME NEW a \in Int, NEW b \in Int, NEW d \in Nat, a * d < b * d
    PROVE  a < b
  BY Grow

LEMMA SectorsOfSize ==
    ASSUME NEW n \in Nat, NEW d \in Nat \ {0},
           NEW m, m = n \div d + (IF n % d # 0 THEN 1 ELSE 0)
    PROVE  m \in Nat /\ n <= m * d /\ (m # 0 => (m - 1) * d < n)
<1>1. PICK q \in Nat, e \in 0..(d - 1) : q = n \div d /\ e = n % d /\ n = q * d + e
  BY DivMod
<1>2. (q - 1) * d = q * d - d /\ (q + 1) * d = q * d + d
  OBVIOUS
<1>3. CASE e = 0
  <2>1. m = q  BY <1>1, <1>3
  <2> QED  BY <1>1, <1>2, <1>3, <2>1
<1>4. CASE e # 0
  <2>1. m = q + 1 /\ m - 1 = q  BY <1>1, <1>4
  <2> QED  BY <1>1, <1>2, <1>4, <2>1
<1> QED  BY <1>3, <1>4

LEMMA FirstSector ==
    ASSUME NEW d \in Nat \ {0}, NEW i \in Nat, i < d
    PROVE  i \div d = 0
<1>1. PICK q \in Nat, e \in 0..(d - 1) : q = i \div d /\ i = q * d + e
  BY DivMod
<1>2. q * d < 1 * d  BY <1>1
<1>3. q < 1  BY <1>1, <1>2, Shrink
<1> QED  BY <1>1, <1>3

\* The sectors of a request are as few as can be and lie on the disk.
LEMMA SectorsCover ==
    ASSUME NEW r \in Requests, NEW s, NEW c, NEW f,
           s = StartSector(r[1]), c = SectorCount(r[1], r[2]), f = OffsetInSector(r[1])
    PROVE  /\ s \in Nat /\ c \in Nat /\ f \in 0..(SectorSize - 1)
           /\ r[1] = s * SectorSize + f
           /\ f + r[2] <= c * SectorSize
           /\ c # 0 => (c - 1) * SectorSize < f + r[2]
           /\ c # 0 => (s + c) * SectorSize <= Sectors * SectorSize
<1> DEFINE S == SectorSize
           n == r[2]
           m == n \div S + (IF n % S # 0 THEN 1 ELSE 0)
<1>1. S \in Nat \ {0} /\ r[1] \in Nat /\ n \in Nat /\ r[1] + n <= Sectors * S /\ Sectors \in Nat
  BY DiskAssumption
<1>2. /\ s \in Nat /\ f \in 0..(S - 1) /\ r[1] = s * S + f
  BY <1>1, DivMod DEF StartSector, OffsetInSector
<1>3. m \in Nat /\ n <= m * S /\ (m # 0 => (m - 1) * S < n)
  BY <1>1, SectorsOfSize
<1> HIDE DEF m
<1>4. c = m + (IF f + n > S * m THEN 1 ELSE 0)
  BY DEF SectorCount, m, OffsetInSector
<1>5. /\ c \in Nat /\ f + n <= c * S /\ (c # 0 => (c - 1) * S < f + n)
  <2>1. S * m = m * S /\ m * S \in Nat  BY <1>1, <1>3
  <2>2. CASE f + n > m * S
    <3>1. c = m + 1 /\ (m + 1) * S = m * S + S  BY <1>1, <1>3, <1>4, <2>1, <2>2
    <3> QED  BY <1>1, <1>2, <1>3, <2>1, <2>2, <3>1
  <2>3. CASE f + n <= m * S
    <3>1. c = m  BY <1>1, <1>2, <1>3, <1>4, <2>1, <2>3
    <3> QED  BY <1>1, <1>2, <1>3, <2>1, <2>3, <3>1
  <2> QED  BY <1>1, <1>2, <2>1, <2>2, <2>3
<1>6. ASSUME c # 0  PROVE (s + c) * S <= Sectors * S
  <2>1. (s + (c - 1)) * S = s * S + (c - 1) * S  BY <1>1, <1>2, <1>5
  <2>2. (s + (c - 1)) * S < Sectors * S  BY <1>1, <1>2, <1>5, <1>6, <2>1
  <2>3. s + (c - 1) < Sectors  BY <1>1, <1>2, <1>5, <2>2, Shrink
  <2> QED  BY <1>1, <1>2, <1>5, <2>3, Grow
<1> QED  BY <1>2, <1>5, <1>6

\* What is neither asked for nor in the first sector is in a last one read back.
LEMMA EndRead ==
    ASSUME NEW r \in Requests, EndIsKept(r), ~LastIsPartial(r[2]),
           NEW c, c = SectorCount(r[1], r[2]), NEW f, f = OffsetInSector(r[1]),
           NEW i \in (f + r[2])..(c * SectorSize - 1)
    PROVE  i < SectorSize
<1> DEFINE S == SectorSize
           n == r[2]
           s == StartSector(r[1])
<1>1. S \in Nat \ {0} /\ r[1] \in Nat /\ n \in Nat
  BY DiskAssumption
<1>2. /\ s \in Nat /\ c \in Nat /\ f \in 0..(S - 1) /\ r[1] = s * S + f
      /\ f + n <= c * S /\ (c # 0 => (c - 1) * S < f + n)
  BY SectorsCover
<1> HIDE DEF s
<1>3. i \in Int /\ i < c * S /\ i >= f + n /\ c # 0
  BY <1>1, <1>2
<1>4. CASE f + n <= S
  <2>1. (c - 1) * S < 1 * S  BY <1>1, <1>2, <1>3, <1>4
  <2>2. c - 1 < 1  BY <1>1, <1>2, <2>1, Shrink
  <2>3. c = 1  BY <1>2, <1>3, <2>2
  <2>4. c * S = S  BY <1>1, <2>3
  <2> QED  BY <1>1, <1>3, <2>4
<1>5. CASE (r[1] + n) % S = 0
  <2>1. PICK q \in Nat : r[1] + n = q * S
    <3>1. r[1] + n \in Nat  BY <1>1
    <3> QED  BY <1>1, <1>5, <3>1, Multiple
  <2>2. (q - s) * S = f + n  BY <1>1, <1>2, <2>1
  <2>3. (c - 1) * S < (q - s) * S  BY <1>2, <1>3, <2>2
  <2>4. c - 1 < q - s  BY <1>1, <1>2, <2>1, <2>3, Shrink
  <2>5. c * S <= (q - s) * S  BY <1>1, <1>2, <2>1, <2>4, Grow
  <2> QED  BY <1>1, <1>2, <1>3, <2>2, <2>5
<1> QED  BY <1>4, <1>5 DEF EndIsKept, LastIsPartial, OffsetInSector

\* What lies behind the request is in the last sector.
LEMMA InLastSector ==
    ASSUME NEW r \in Requests,
           NEW c, c = SectorCount(r[1], r[2]), NEW f, f = OffsetInSector(r[1]),
           NEW i \in (f + r[2])..(c * SectorSize - 1)
    PROVE  i \div SectorSize = c - 1
<1> DEFINE S == SectorSize
<1>1. S \in Nat \ {0} /\ r[1] \in Nat /\ r[2] \in Nat
  BY DiskAssumption
<1>2. /\ c \in Nat /\ f \in 0..(S - 1)
      /\ f + r[2] <= c * S /\ (c # 0 => (c - 1) * S < f + r[2])
  BY SectorsCover
<1>3. i \in Nat /\ i < c * S /\ c # 0 /\ (c - 1) * S < i
  BY <1>1, <1>2
<1>4. PICK q \in Nat, e \in 0..(S - 1) : q = i \div S /\ i = q * S + e
  BY <1>1, <1>3, DivMod
<1>5. q * S < c * S  BY <1>1, <1>2, <1>3, <1>4
<1>6. q < c  BY <1>1, <1>2, <1>4, <1>5, Shrink
<1>7. (c - 1) * S < (q + 1) * S
  <2>1. (q + 1) * S = q * S + S  BY <1>1, <1>4
  <2> QED  BY <1>1, <1>2, <1>3, <1>4, <2>1
<1>8. c - 1 < q + 1  BY <1>1, <1>2, <1>4, <1>7, Shrink
<1> QED  BY <1>2, <1>4, <1>6, <1>8

----------------------------------------------------------------------------
\* The invariant.

LEMMA InitHolds == Init => IInv
<1> SUFFICES ASSUME Init  PROVE IInv
  OBVIOUS
<1>1. (CHOOSE v \in Values : TRUE) \in Byte
  BY DiskAssumption DEF Byte
<1>2. disk \in [Addresses -> Byte]
  BY <1>1 DEF Init
<1>3. TypeOK
  BY <1>2 DEF Init, TypeOK
<1> QED  BY <1>3 DEF Init, IInv, Surroundings, Issued

\* The arithmetic of the write in progress.
LEMMA Geometry ==
    ASSUME TypeOK, step # "idle"
    PROVE  /\ SectorSize \in Nat \ {0} /\ Count \in Nat \ {0} /\ From \in 0..(SectorSize - 1)
           /\ req.addr \in Nat /\ req.size \in Nat
           /\ StartSector(req.addr) \in Nat
           /\ req.addr = StartSector(req.addr) * SectorSize + From
           /\ From + req.size <= Count * SectorSize
           /\ (StartSector(req.addr) + Count) * SectorSize <= Sectors * SectorSize
           /\ Asked \subseteq Buffered
           /\ \A i \in Buffered : Offset(i) \in Addresses
<1>1. DiskAssumption /\ Count # 0
  BY DiskAssumption DEF TypeOK
<1>. PICK r \in Requests : r[1] = req.addr /\ r[2] = req.size
  BY DEF TypeOK
<1> DEFINE s == StartSector(req.addr)
<1>2. /\ SectorSize \in Nat \ {0} /\ Sectors \in Nat /\ Count \in Nat \ {0}
      /\ From \in 0..(SectorSize - 1) /\ req.addr \in Nat /\ req.size \in Nat /\ s \in Nat
      /\ req.addr = s * SectorSize + From
      /\ From + req.size <= Count * SectorSize
      /\ (s + Count) * SectorSize <= Sectors * SectorSize
  BY <1>1, SectorsCover DEF DiskAssumption, Count, From, TypeOK
<1> HIDE DEF s
<1>3. Count * SectorSize \in Nat /\ s * SectorSize \in Nat
      /\ (s + Count) * SectorSize = s * SectorSize + Count * SectorSize
  BY <1>2
<1>4. Asked \subseteq Buffered
  BY <1>2, <1>3 DEF Asked, Buffered
<1>5. \A i \in Buffered : s * SectorSize + i \in Addresses
  BY <1>2, <1>3 DEF Buffered, Addresses
<1> QED  BY <1>2, <1>4, <1>5 DEF s, Offset

\* A read of one sector into the buffer.
LEMMA ReadIntoIs ==
    ASSUME TypeOK, step # "idle", NEW k \in 0..(Count - 1)
    PROVE  LET buf == ReadInto(buffer, k, StartSector(req.addr) + k)
           IN  /\ buf \in [Buffered -> Byte]
               /\ \A i \in Buffered :
                    buf[i] = IF i \div SectorSize = k THEN disk[Offset(i)] ELSE buffer[i]
<1> DEFINE s == StartSector(req.addr)
           buf == ReadInto(buffer, k, s + k)
<1>1. /\ SectorSize \in Nat \ {0} /\ s \in Nat /\ Count \in Nat
      /\ \A i \in Buffered : Offset(i) \in Addresses
      /\ DOMAIN buffer = Buffered
      /\ Buffered \subseteq Nat
  <2>1. /\ SectorSize \in Nat \ {0} /\ s \in Nat /\ Count \in Nat
        /\ \A i \in Buffered : Offset(i) \in Addresses
    <3> HIDE DEF buf
    <3> QED  BY Geometry
  <2>2. DOMAIN buffer = Buffered
    BY DEF TypeOK
  <2>3. Buffered \subseteq Nat
    <3>1. Count * SectorSize \in Nat  BY <2>1
    <3> QED  BY <3>1 DEF Buffered
  <2> QED  BY <2>1, <2>2, <2>3
<1>2. ASSUME NEW i \in Buffered, i \div SectorSize = k
      PROVE  (s + k) * SectorSize + (i % SectorSize) = Offset(i)
  <2>1. i = (i \div SectorSize) * SectorSize + (i % SectorSize) /\ i % SectorSize \in Int
    BY <1>1, DivMod
  <2>2. (s + k) * SectorSize = s * SectorSize + k * SectorSize
    BY <1>1
  <2>3. i = k * SectorSize + (i % SectorSize)
    BY <1>2, <2>1
  <2> QED  BY <1>1, <2>1, <2>2, <2>3 DEF Offset
<1>3. ASSUME NEW i \in Buffered
      PROVE  buf[i] = IF i \div SectorSize = k THEN disk[Offset(i)] ELSE buffer[i]
  BY <1>1, <1>2 DEF ReadInto
<1>4. ASSUME NEW i \in Buffered  PROVE buf[i] \in Byte
  BY <1>1, <1>3 DEF TypeOK
<1>5. DOMAIN buf = Buffered
  BY <1>1 DEF ReadInto
<1>6. buf = [i \in Buffered |-> buf[i]]
  BY <1>1 DEF ReadInto
<1>7. buf \in [Buffered -> Byte]
  BY <1>4, <1>6
<1> QED  BY <1>3, <1>7

\* One step per action; only DeviceWrites changes the disk.
LEMMA WriteKeeps ==
    ASSUME IInv, NEW r \in Requests, NEW v \in Values, Write(r[1], r[2], v)
    PROVE  IInv'
<1> DEFINE c == SectorCount(r[1], r[2])
<1>1. c \in Nat \ {0} /\ r[1] \in Nat /\ r[2] \in Nat
  BY SectorsCover, DiskAssumption DEF Write
<1>2. req' = [addr |-> r[1], size |-> r[2], value |-> v] /\ step' = "first" /\ moved' = 0
  BY DEF Write
<1>3. Count' = c
  BY <1>2 DEF Count
<1>4. buffer' \in [Buffered' -> Byte]
  BY <1>1, <1>3 DEF Write, Buffered, Byte
<1>5. TypeOK'
  BY <1>1, <1>2, <1>3, <1>4 DEF IInv, TypeOK, Write, Addresses
<1> QED  BY <1>2, <1>5 DEF IInv, Surroundings, Issued

LEMMA ReadFirstKeeps ==
    ASSUME IInv, ReadFirst
    PROVE  IInv'
<1>1. TypeOK /\ step = "first" /\ step' = "last"
      /\ UNCHANGED <<disk, req, moved, result>>
  BY DEF IInv, ReadFirst
<1>2. Count' = Count /\ Buffered' = Buffered /\ \A i : Offset(i)' = Offset(i)
  BY <1>1 DEF Count, Buffered, Offset
<1>3. 0 \in 0..(Count - 1) /\ StartSector(req.addr) + 0 = StartSector(req.addr)
      /\ SectorSize \in Nat \ {0} /\ Buffered \subseteq Nat
  BY <1>1, Geometry DEF Buffered
<1>4. /\ buffer' \in [Buffered -> Byte]
      /\ \A i \in Buffered :
           buffer'[i] = IF i \div SectorSize = 0 THEN disk[Offset(i)] ELSE buffer[i]
  BY <1>1, <1>3, ReadIntoIs DEF ReadFirst
<1>5. TypeOK'
  BY <1>1, <1>2, <1>4 DEF TypeOK, Addresses
<1>6. \A i \in Buffered : i < SectorSize => i \div SectorSize = 0
  BY <1>3, FirstSector
<1>7. Surroundings'
  BY <1>1, <1>2, <1>4, <1>6 DEF Surroundings
<1> QED  BY <1>1, <1>5, <1>7 DEF IInv, Issued

LEMMA ReadLastKeeps ==
    ASSUME IInv, EndsAreKept, ReadLast
    PROVE  IInv'
<1>1. TypeOK /\ step = "last" /\ step' = "issue"
      /\ UNCHANGED <<disk, req, moved, result>>
  BY DEF IInv, ReadLast
<1>2. Count' = Count /\ Buffered' = Buffered /\ Asked' = Asked
      /\ \A i : Offset(i)' = Offset(i)
  BY <1>1 DEF Count, Buffered, Offset, Asked, From
<1>3. /\ Count \in Nat \ {0} /\ Count - 1 \in 0..(Count - 1)
      /\ From \in Nat /\ From < SectorSize /\ req.size \in Nat /\ SectorSize \in Nat \ {0}
      /\ Buffered \subseteq Nat
  BY <1>1, Geometry DEF Buffered
<1>4. \A i \in Buffered : i < SectorSize => buffer[i] = disk[Offset(i)]
  BY <1>1 DEF IInv, Surroundings
<1>5. PICK r \in Requests : r[1] = req.addr /\ r[2] = req.size
  BY <1>1 DEF TypeOK
<1>6. CASE LastIsPartial(req.size)
  <2>1. buffer' = ReadInto(buffer, Count - 1, StartSector(req.addr) + (Count - 1))
    BY <1>6 DEF ReadLast, Count
  <2>2. /\ buffer' \in [Buffered -> Byte]
        /\ \A i \in Buffered :
            buffer'[i] = IF i \div SectorSize = Count - 1 THEN disk[Offset(i)] ELSE buffer[i]
    BY <1>1, <1>3, <2>1, ReadIntoIs
  <2>3. TypeOK'
    BY <1>1, <1>2, <2>2 DEF TypeOK, Addresses
  <2>4. ASSUME NEW i \in Buffered \ Asked  PROVE buffer'[i] = disk[Offset(i)]
    <3>1. CASE i < SectorSize
      BY <1>4, <2>2, <3>1
    <3>2. CASE i >= From + req.size
      <4>1. i \div SectorSize = Count - 1  BY <1>1, <1>3, <1>5, <3>2, InLastSector DEF Buffered, Count, From
      <4> QED  BY <2>2, <4>1
    <3>3. i < SectorSize \/ i >= From + req.size  BY <1>3 DEF Asked
    <3> QED  BY <3>1, <3>2, <3>3
  <2> QED  BY <1>1, <1>2, <2>3, <2>4 DEF IInv, Surroundings, Issued
<1>7. CASE ~LastIsPartial(req.size)
  <2>1. buffer' = buffer
    BY <1>7 DEF ReadLast
  <2>2. TypeOK'
    BY <1>1, <1>2, <2>1 DEF TypeOK, Addresses
  <2>3. ASSUME NEW i \in Buffered \ Asked  PROVE i < SectorSize
    <3>1. CASE i >= From + req.size
      BY <1>3, <1>5, <1>7, <3>1, EndRead DEF EndsAreKept, Buffered, Count, From
    <3> QED  BY <1>3, <3>1 DEF Asked
  <2> QED  BY <1>1, <1>2, <1>4, <2>1, <2>2, <2>3 DEF IInv, Surroundings, Issued
<1> QED  BY <1>6, <1>7

LEMMA IssueKeeps ==
    ASSUME IInv, Issue
    PROVE  IInv'
<1>1. TypeOK /\ step = "issue" /\ step' = "device" /\ moved = 0
      /\ UNCHANGED <<disk, req, moved, result>>
  BY DEF IInv, TypeOK, Issue
<1>2. Count' = Count /\ Buffered' = Buffered /\ Asked' = Asked
      /\ \A i : Offset(i)' = Offset(i)
  BY <1>1 DEF Count, Buffered, Offset, Asked, From
<1>3. buffer' = [i \in Buffered |-> IF i \in Asked THEN req.value ELSE buffer[i]]
  BY <1>1 DEF Issue, TypeOK, Asked, From
<1>4. Asked \subseteq Buffered /\ SectorSize \in Nat
  BY <1>1, Geometry
<1>5. buffer' \in [Buffered -> Byte]
  BY <1>1, <1>3 DEF TypeOK, Byte
<1>6. TypeOK'
  BY <1>1, <1>2, <1>5 DEF TypeOK, Addresses
<1>7. Surroundings'
  BY <1>1, <1>2, <1>3 DEF IInv, Surroundings
<1>8. Issued'
  BY <1>1, <1>2, <1>3, <1>4 DEF Issued
<1> QED  BY <1>6, <1>7, <1>8 DEF IInv

\* A sector more on the disk: it reads as the buffer, the others as before.
LEMMA DeviceWritesKeeps ==
    ASSUME IInv, DeviceWrites
    PROVE  /\ IInv'
           /\ \A a \in Addresses :
                disk'[a] = disk[a] \/ (a \in Device!Extent(req) /\ disk'[a] = req.value)
<1> DEFINE S == SectorSize
           s == StartSector(req.addr)
           base == (s + moved) * S
<1>1. TypeOK /\ step = "device" /\ moved < Count
      /\ moved' = moved + 1 /\ UNCHANGED <<req, step, buffer, result>>
      /\ disk' = [a \in Addresses |-> IF a \in base..(base + S - 1)
                                        THEN buffer[moved * S + (a - base)] ELSE disk[a]]
  BY DEF IInv, DeviceWrites, Count
<1>2. Count' = Count /\ Buffered' = Buffered /\ Asked' = Asked
      /\ \A i : Offset(i)' = Offset(i)
  BY <1>1 DEF Count, Buffered, Offset, Asked, From
<1>3. /\ S \in Nat \ {0} /\ s \in Nat /\ Count \in Nat /\ moved \in Nat
      /\ From \in Nat /\ req.addr \in Nat /\ req.size \in Nat
      /\ req.addr = s * S + From
      /\ \A i \in Buffered : Offset(i) \in Addresses
  BY <1>1, Geometry DEF TypeOK
<1>4. base = s * S + moved * S /\ moved * S \in Nat /\ s * S \in Nat
      /\ (moved + 1) * S = moved * S + S /\ (moved + 1) * S <= Count * S
  <2>1. (moved + 1) * S <= Count * S  BY <1>1, <1>3, Grow
  <2> QED  BY <1>3, <2>1
<1> HIDE DEF s, base
<1>5. Count * S \in Nat /\ Buffered \subseteq Nat
  BY <1>3 DEF Buffered
<1>6. ASSUME NEW a \in Addresses
      PROVE  \/ disk'[a] = disk[a] /\ a \notin base..(base + S - 1)
             \/ \E i \in Buffered : /\ i >= moved * S /\ i < (moved + 1) * S /\ a = s * S + i
                                    /\ disk'[a] = buffer[i]
  <2>1. CASE a \in base..(base + S - 1)
    <3>1. moved * S + (a - base) \in Buffered /\ a = s * S + (moved * S + (a - base))
          /\ moved * S + (a - base) >= moved * S /\ moved * S + (a - base) < (moved + 1) * S
      BY <1>3, <1>4, <1>5, <2>1 DEF Buffered
    <3>2. disk'[a] = buffer[moved * S + (a - base)]
      BY <1>1, <2>1
    <3> QED  BY <3>1, <3>2
  <2>2. CASE a \notin base..(base + S - 1)
    BY <1>1, <2>2
  <2> QED  BY <2>1, <2>2
<1>7. disk' \in [Addresses -> Byte]
  <2>1. \A a \in Addresses : disk'[a] \in Byte
    BY <1>1, <1>6 DEF TypeOK
  <2> QED  BY <1>1, <2>1
<1>8. TypeOK'
  BY <1>1, <1>2, <1>3, <1>7 DEF TypeOK, Addresses
<1>9. ASSUME NEW i \in Buffered
      PROVE  disk'[Offset(i)] = disk[Offset(i)]
             \/ (i >= moved * S /\ i < (moved + 1) * S /\ disk'[Offset(i)] = buffer[i])
  BY <1>3, <1>4, <1>5, <1>6 DEF Offset, s
<1>10. ASSUME NEW i \in Buffered \ Asked  PROVE buffer[i] = disk'[Offset(i)]
  BY <1>1, <1>9 DEF IInv, Surroundings
<1>11. ASSUME NEW i \in 0..((moved + 1) * S - 1)  PROVE disk'[Offset(i)] = buffer[i]
  <2>1. i \in Buffered  BY <1>3, <1>4, <1>5 DEF Buffered
  <2>2. CASE i < moved * S
    BY <1>1, <1>4, <1>9, <2>1, <2>2 DEF IInv, Issued
  <2>3. CASE i >= moved * S
    <3>1. Offset(i) \in base..(base + S - 1)  BY <1>3, <1>4, <2>3 DEF Offset, s
    <3>2. Offset(i) \in Addresses  BY <1>3, <2>1
    <3>3. moved * S + (Offset(i) - base) = i  BY <1>3, <1>4 DEF Offset, s
    <3> QED  BY <1>1, <3>1, <3>2, <3>3
  <2> QED  BY <1>3, <1>4, <2>2, <2>3
<1>12. Surroundings' /\ Issued'
  <2>1. Surroundings'
    BY <1>1, <1>2, <1>10 DEF Surroundings
  <2>2. Issued'
    BY <1>1, <1>2, <1>11 DEF IInv, Issued
  <2> QED  BY <2>1, <2>2
<1>13. ASSUME NEW a \in Addresses
       PROVE  disk'[a] = disk[a] \/ (a \in Device!Extent(req) /\ disk'[a] = req.value)
  <2>1. ASSUME NEW i \in Buffered, a = s * S + i, disk'[a] = buffer[i]
        PROVE  disk'[a] = disk[a] \/ (a \in Device!Extent(req) /\ disk'[a] = req.value)
    <3>1. CASE i \in Asked
      BY <1>1, <1>3, <1>4, <2>1, <3>1 DEF IInv, Issued, Asked, Device!Extent
    <3>2. CASE i \notin Asked
      BY <1>1, <2>1, <3>2 DEF IInv, Surroundings, Offset, s
    <3> QED  BY <3>1, <3>2
  <2> QED  BY <1>6, <2>1
<1> QED  BY <1>8, <1>12, <1>13 DEF IInv

LEMMA ReturnKeeps ==
    ASSUME IInv, NEW ok \in BOOLEAN, WriteReturns(ok)
    PROVE  IInv'
  BY DEF IInv, TypeOK, Surroundings, Issued, WriteReturns, Addresses

LEMMA StepKeeps ==
    ASSUME IInv, EndsAreKept, [Next]_vars
    PROVE  IInv'
<1>1. CASE \E r \in Requests : Read(r[1], r[2])
  BY <1>1 DEF IInv, TypeOK, Surroundings, Issued, Read, Buffered, Count, Offset, Asked, From, Addresses
<1>2. CASE \E r \in Requests : \E v \in Values : Write(r[1], r[2], v)
  BY <1>2, WriteKeeps
<1>3. CASE ReadFirst
  BY <1>3, ReadFirstKeeps
<1>4. CASE ReadLast
  BY <1>4, ReadLastKeeps
<1>5. CASE Issue
  BY <1>5, IssueKeeps
<1>6. CASE DeviceWrites
  BY <1>6, DeviceWritesKeeps
<1>7. CASE Finish \/ AccessFails
  BY <1>7, ReturnKeeps DEF Finish, AccessFails
<1>8. CASE UNCHANGED vars
  BY <1>8 DEF vars, IInv, TypeOK, Surroundings, Issued, Buffered, Count, Offset, Asked, From, Addresses
<1> QED  BY <1>1, <1>2, <1>3, <1>4, <1>5, <1>6, <1>7, <1>8 DEF Next

\* At every step of a write the buffer's bytes outside the request are those of
\* the disk, and what the device has moved reads as the buffer.
THEOREM Invariance == ASSUME EndsAreKept PROVE Spec => []IInv
<1>1. Init => IInv  BY InitHolds
<1>2. IInv /\ [Next]_vars => IInv'  BY StepKeeps
<1> QED  BY <1>1, <1>2, PTL DEF Spec

----------------------------------------------------------------------------
\* The refinement: a write begins, sectors reach the medium, it returns.

LEMMA InitRefines == Init => Device!Init
  BY DEF Init, Device!Init

\* A write that returns TRUE has changed all the bytes it was asked to change.
LEMMA FinishRefines ==
    ASSUME IInv, Finish
    PROVE  Device!Return
<1>1. TypeOK /\ step = "device" /\ moved = Count /\ req # NoRequest
  BY NoRequestAssumption DEF IInv, Finish, Done, Count, TypeOK
<1>2. ASSUME NEW a \in Device!Extent(req)  PROVE disk[a] = req.value
  <2> DEFINE s == StartSector(req.addr)
             i == a - s * SectorSize
  <2>1. /\ SectorSize \in Nat /\ s \in Nat /\ Count \in Nat /\ From \in Nat
        /\ req.addr \in Nat /\ req.size \in Nat /\ req.addr = s * SectorSize + From
        /\ From + req.size <= Count * SectorSize
    BY <1>1, Geometry
  <2>2. s * SectorSize \in Nat /\ moved * SectorSize \in Nat
        /\ moved * SectorSize = Count * SectorSize
    BY <1>1, <2>1
  <2> HIDE DEF s
  <2>3. i \in Asked /\ i \in 0..(moved * SectorSize - 1) /\ a = s * SectorSize + i
    BY <2>1, <2>2 DEF Asked, Device!Extent
  <2> HIDE DEF i
  <2> QED  BY <1>1, <2>3 DEF IInv, Issued, Offset, s
<1> QED  BY <1>1, <1>2 DEF Finish, WriteReturns, Device!Return

LEMMA StepRefines ==
    ASSUME IInv, EndsAreKept, [Next]_vars
    PROVE  [Device!Next]_(<<disk, req, result>>)
<1>1. CASE \E r \in Requests : Read(r[1], r[2])
  BY <1>1 DEF Read
<1>2. CASE \E r \in Requests : \E v \in Values : Write(r[1], r[2], v)
  <2>1. PICK r \in Requests, v \in Values : Write(r[1], r[2], v)  BY <1>2
  <2>2. req = NoRequest /\ UNCHANGED <<disk, result>>
    BY <2>1 DEF Write, IInv, TypeOK
  <2>3. req' \in [addr : Nat, size : Nat, value : Values]
    BY <2>1, DiskAssumption DEF Write
  <2> QED  BY <2>2, <2>3, NoRequestAssumption DEF Device!Next, Device!Begin
<1>3. CASE ReadFirst \/ ReadLast \/ Issue
  BY <1>3 DEF ReadFirst, ReadLast, Issue
<1>4. CASE DeviceWrites
  <2>1. req # NoRequest /\ DOMAIN disk = Addresses /\ DOMAIN disk' = Addresses
    BY <1>4, NoRequestAssumption DEF IInv, TypeOK, DeviceWrites
  <2>2. Device!Progress
    BY <1>4, <2>1, DeviceWritesKeeps DEF Device!Progress, DeviceWrites
  <2> QED  BY <2>2 DEF Device!Next
<1>5. CASE Finish
  BY <1>5, FinishRefines DEF Device!Next
<1>6. CASE AccessFails
  <2>1. req # NoRequest /\ result' = FALSE /\ req' = NoRequest /\ disk' = disk
    BY <1>6, NoRequestAssumption DEF IInv, TypeOK, AccessFails, WriteReturns
  <2> QED  BY <2>1 DEF Device!Next, Device!Return
<1>7. CASE UNCHANGED vars
  BY <1>7 DEF vars
<1> QED  BY <1>1, <1>2, <1>3, <1>4, <1>5, <1>6, <1>7 DEF Next

\* Whatever fails in write and access, no byte beside those asked for changes,
\* and TRUE means that all of those have, if every request ends in a sector
\* that is read back or written whole.
THEOREM Refinement == ASSUME EndsAreKept PROVE Spec => ImplementsByteDevice
<1>1. Init => Device!Init  BY InitRefines
<1>2. IInv /\ [Next]_vars => [Device!Next]_(<<disk, req, result>>)  BY StepRefines
<1> QED  BY <1>1, <1>2, Invariance, PTL DEF Spec, ImplementsByteDevice, Device!Spec

----------------------------------------------------------------------------
\* read hands out the bytes of its range.
THEOREM ReadsAreTrue == Spec => ReadsTheRange
<1> DEFINE ReadIsTrue == got' # got /\ got' # << >> =>
                     \A i \in DOMAIN got'.bytes : got'.bytes[i] = disk[got'.addr + i]
<1>1. ASSUME NEW r \in Requests, Read(r[1], r[2])  PROVE ReadIsTrue
  <2> DEFINE a == r[1]
             n == r[2]
             s == StartSector(a)
             c == SectorCount(a, n)
             f == OffsetInSector(a)
             sectors == [i \in 0..(c * SectorSize - 1) |-> disk[s * SectorSize + i]]
  <2>1. /\ s \in Nat /\ c \in Nat /\ f \in Nat /\ a = s * SectorSize + f
        /\ f + n <= c * SectorSize /\ SectorSize \in Nat /\ a \in Nat /\ n \in Nat
    BY SectorsCover, DiskAssumption
  <2>2. c * SectorSize \in Nat /\ s * SectorSize \in Nat
    BY <2>1
  <2>3. got' = [addr |-> a, bytes |-> [i \in 0..(n - 1) |-> sectors[f + i]]]
    BY <1>1 DEF Read
  <2> HIDE DEF s, c, f
  <2>4. ASSUME NEW i \in 0..(n - 1)  PROVE sectors[f + i] = disk[a + i]
    <3>1. f + i \in 0..(c * SectorSize - 1) /\ s * SectorSize + (f + i) = a + i
      BY <2>1, <2>2
    <3> QED  BY <3>1
  <2> QED  BY <2>3, <2>4
<1>2. ASSUME Next  PROVE ReadIsTrue
  BY <1>1, <1>2 DEF Next, Write, ReadFirst, ReadLast, Issue, DeviceWrites, Finish, AccessFails, WriteReturns
<1>3. [Next]_vars => [ReadIsTrue]_vars
  BY <1>2
<1> HIDE DEF ReadIsTrue
<1>4. [][ReadIsTrue]_vars <=> ReadsTheRange
  BY PTL DEF ReadIsTrue, ReadsTheRange
<1> QED  BY <1>3, <1>4, PTL DEF Spec
==============================================================================
