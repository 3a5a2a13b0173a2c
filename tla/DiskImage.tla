----------------------------- MODULE DiskImage -----------------------------
(***************************************************************************)
(* Imgtool's MakeStandard (Tools/Imgtool/Source/Routines/MakeStandard.c):  *)
(* a disk image with a protective MBR, a GPT and its mirror, and the two   *)
(* partitions that the loader expects.  Every library call may fail.       *)
(*                                                                         *)
(* Sizes are in small units in place of bytes.  A checksum is the tuple of *)
(* what it was computed over; the entry array is the sequence of its       *)
(* partitions, the entries behind them being zero.                         *)
(***************************************************************************)
EXTENDS Integers, Sequences, FiniteSets

CONSTANTS
  DiskSizes, BlockSizes,   \* the arguments
  SECTOR,                  \* 512
  MIB,                     \* a mebibyte, in the units of a block size
  TABLE_SIZE,              \* of the entry array
  MINIMUM_DISK_SIZE_MIB, EFI_SYSTEM_PART_SIZE_MIB

ImageAssumption ==
  /\ DiskSizes \subseteq Nat /\ BlockSizes \subseteq Nat
  /\ {SECTOR, MIB, TABLE_SIZE, MINIMUM_DISK_SIZE_MIB, EFI_SYSTEM_PART_SIZE_MIB} \subseteq Nat \ {0}

VARIABLES
  iDiskSize, iBlockSize,
  todo,      \* the next thing to do
  pDisk,     \* the file is open
  pPartitionEntryArray,  \* allocated
  disk,      \* what the file holds
  result

imageVars == <<iDiskSize, iBlockSize, todo, pDisk, pPartitionEntryArray, disk, result>>

Zero == <<>>
Empty == [blocks |-> 0, mbr |-> Zero, signature |-> FALSE, header |-> Zero, alternate |-> Zero,
          table |-> Zero, mirror |-> Zero]

ImageInit ==
  /\ iDiskSize \in DiskSizes /\ iBlockSize \in BlockSizes
  /\ todo = "check" /\ pDisk = FALSE /\ pPartitionEntryArray = FALSE
  /\ disk = Empty /\ result = "none"

arguments == <<iDiskSize, iBlockSize>>
----------------------------------------------------------------------------
(* The layout *)

CeilDiv(n, d) == (n + d - 1) \div d
blockCount == CeilDiv(iDiskSize * MIB, iBlockSize)
tableBlocks == CeilDiv(TABLE_SIZE, iBlockSize)

LastUsable == blockCount - 1 - 1 - tableBlocks

PartEFI == LET start == MIB \div iBlockSize
           IN  [kind |-> "EFI", start |-> start,
                end |-> start + ((EFI_SYSTEM_PART_SIZE_MIB * MIB) \div iBlockSize) - 1]

(* Wrong variant: the OS partition begins on the last block of the other. *)
PartOSOverlaps == [kind |-> "OS", start |-> PartEFI.end, end |-> LastUsable]

PartOS == [kind |-> "OS", start |-> PartEFI.end + 1, end |-> LastUsable]

EntryArray == <<PartEFI, PartOS>>

Crc(h) == <<h.SelfLBA, h.AlternateLBA, h.First, h.Last, h.Table, h.TableCrc>>

Header == LET h == [SelfLBA |-> 1, AlternateLBA |-> blockCount - 1,
                    First |-> 2 + tableBlocks, Last |-> LastUsable, Table |-> 2,
                    TableCrc |-> EntryArray, Crc |-> Zero]
          IN  [h EXCEPT !.Crc = Crc(h)]

(* Wrong variant: the checksum is the primary header's. *)
AlternateCopied == [Header EXCEPT !.SelfLBA = Header.AlternateLBA, !.AlternateLBA = Header.SelfLBA,
                                  !.Table = LastUsable + 1]

Alternate == LET h == [Header EXCEPT !.SelfLBA = Header.AlternateLBA, !.AlternateLBA = Header.SelfLBA,
                                     !.Table = LastUsable + 1]
             IN  [h EXCEPT !.Crc = Crc(h)]
----------------------------------------------------------------------------
(* The steps *)

(* MakeStd_AbortSafely, which also ends a successful run. *)
Finish(r) ==
  /\ pDisk' = FALSE /\ pPartitionEntryArray' = FALSE
  /\ result' = r /\ todo' = "end"

Abort == Finish("FAIL") /\ UNCHANGED disk

(* A block size of 0 passes the check, and is divided by. *)
Check ==
  /\ todo = "check"
  /\ \/ /\ iDiskSize < MINIMUM_DISK_SIZE_MIB \/ (iBlockSize > 0 /\ iBlockSize % SECTOR # 0)
        /\ result' = "FAIL" /\ todo' = "end"
     \/ /\ iDiskSize >= MINIMUM_DISK_SIZE_MIB /\ iBlockSize = 0
        /\ result' = "SIGFPE" /\ todo' = "end"
     \/ /\ iDiskSize >= MINIMUM_DISK_SIZE_MIB /\ iBlockSize > 0 /\ iBlockSize % SECTOR = 0
        /\ todo' = "open" /\ UNCHANGED result
  /\ UNCHANGED <<arguments, pDisk, pPartitionEntryArray, disk>>

(* "wb" empties the file, and ftruncate fills it with zeros. *)
Open ==
  /\ todo = "open"
  /\ \/ pDisk' = TRUE /\ todo' = "truncate" /\ disk' = Empty /\ UNCHANGED <<pPartitionEntryArray, result>>
     \/ result' = "FAIL" /\ todo' = "end" /\ UNCHANGED <<pDisk, pPartitionEntryArray, disk>>
  /\ UNCHANGED arguments

Truncate ==
  /\ todo = "truncate"
  /\ \/ /\ disk' = [disk EXCEPT !.blocks = blockCount] /\ todo' = "mbr"
        /\ UNCHANGED <<pDisk, pPartitionEntryArray, result>>
     \/ Abort
  /\ UNCHANGED arguments

(* A seek and a write: done, or given up. *)
WriteAt(field, value, next) ==
  /\ \/ /\ disk' = [disk EXCEPT ![field] = value] /\ todo' = next
        /\ UNCHANGED <<pDisk, pPartitionEntryArray, result>>
     \/ Abort
  /\ UNCHANGED arguments

WriteMbr == todo = "mbr" /\ WriteAt("mbr", [StartLBA |-> 1, Size |-> blockCount - 1], "signature")
WriteSignature == todo = "signature" /\ WriteAt("signature", TRUE, "allocate")

AllocateEntryArray ==
  /\ todo = "allocate"
  /\ \/ pPartitionEntryArray' = TRUE /\ todo' = "header" /\ UNCHANGED <<pDisk, disk, result>>
     \/ Abort
  /\ UNCHANGED arguments

WriteHeader == todo = "header" /\ WriteAt("header", Header, "alternate")
WriteAlternate == todo = "alternate" /\ WriteAt("alternate", Alternate, "table")
WriteTable == todo = "table" /\ WriteAt("table", EntryArray, "mirror")

(* The one write whose failure is only printed; a part may be written. *)
WriteTableFails ==
  /\ todo = "table" /\ todo' = "mirror"
  /\ \E n \in 0 .. 1 : disk' = [disk EXCEPT !.table = SubSeq(EntryArray, 1, n)]
  /\ UNCHANGED <<arguments, pDisk, pPartitionEntryArray, result>>

WriteMirror ==
  /\ todo = "mirror"
  /\ \/ disk' = [disk EXCEPT !.mirror = EntryArray] /\ Finish("OK")
     \/ Abort
  /\ UNCHANGED arguments

ImageNext ==
  \/ Check \/ Open \/ Truncate \/ WriteMbr \/ WriteSignature \/ AllocateEntryArray
  \/ WriteHeader \/ WriteAlternate \/ WriteTable \/ WriteTableFails \/ WriteMirror

ImageSpec == ImageInit /\ [][ImageNext]_imageVars /\ WF_imageVars(ImageNext)
----------------------------------------------------------------------------
(* Properties *)

(* The first mebibyte has room for the header and the entry array. *)
BlocksAreSmall == (2 + tableBlocks) * iBlockSize <= MIB

HeaderIsValid(h, table) == h.Crc = Crc(h) /\ h.TableCrc = table

(* What each part of the image occupies, first and last block. *)
Extents == {<<0, 0>>, <<1, 1>>, <<2, 1 + tableBlocks>>, <<PartEFI.start, PartEFI.end>>,
            <<PartOS.start, PartOS.end>>, <<disk.alternate.Table, disk.alternate.Table + tableBlocks - 1>>,
            <<disk.alternate.SelfLBA, disk.alternate.SelfLBA>>}

(* A finished image (MakeStandard.c) has two headers that are valid, name  *)
(* each other and describe the tables that are there; nothing overlaps;    *)
(* and the OS partition is the second, as YchBoot expects.  Excepted: a    *)
(* failed write of the primary entry array, and blocks so large that the   *)
(* EFI partition begins inside the table.                                  *)
ImageIsConsistent ==
  result = "OK" =>
    /\ HeaderIsValid(disk.header, disk.mirror) /\ HeaderIsValid(disk.alternate, disk.mirror)
    /\ disk.header.AlternateLBA = disk.alternate.SelfLBA
    /\ disk.alternate.AlternateLBA = disk.header.SelfLBA
    /\ disk.signature /\ disk.mbr.Size = disk.blocks - 1
    /\ disk.table \in {disk.mirror, Zero, <<PartEFI>>}
    /\ disk.mirror[2].kind = "OS" /\ Len(disk.mirror) = 2
    /\ BlocksAreSmall =>
         /\ \A e \in Extents : e[1] <= e[2] /\ e[2] < disk.blocks
         /\ \A e, f \in Extents : e # f => e[2] < f[1] \/ f[2] < e[1]

(* Whatever fails, the file is closed and the array freed. *)
NothingIsLeftOpen == todo = "end" => ~pDisk /\ ~pPartitionEntryArray

ImageEnds == <>(todo = "end")
============================================================================
