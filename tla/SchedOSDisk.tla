---------------------------- MODULE SchedOSDisk ----------------------------
(***************************************************************************)
(* mkbootdisk.c: it writes the boot sector and the files named by its      *)
(* arguments, each padded to whole sectors, to the disk image.  write()    *)
(* may take a part of what it is given, be interrupted, or fail.           *)
(* The operators with _defect in their name are as in SchedOSKern.         *)
(***************************************************************************)
EXTENDS Integers, Sequences

CONSTANTS
  SECTORSIZE,   \* 512 in the code
  BUFSIZE,      \* size of buf[], 4096
  SECTORS,      \* the image has at least so many, 1024
  Cells,        \* what a byte of a file can be
  BOOTBLOCKS,   \* possible contents of the first file
  ArgLists      \* possible further arguments, see args

SIGNATURE == <<85, 170>>   \* 0x55, 0xAA

Arguments == [skip : {TRUE}, sector : Nat] \cup [skip : {FALSE}, file : Seq(Cells)]

ASSUME DiskAssumption ==
  /\ SECTORSIZE \in Nat /\ SECTORSIZE > 2
  /\ BUFSIZE \in Nat \ {0} /\ SECTORS \in Nat
  /\ {0, 85, 170} \subseteq Cells
  /\ BOOTBLOCKS \subseteq Seq(Cells) /\ ArgLists \subseteq Seq(Arguments)

VARIABLES
  bootblock, \* the contents of the first file
  args,      \* the others: [skip |-> TRUE, sector |-> n] for "@n", else
             \* [skip |-> FALSE, file |-> contents]
  i,         \* the argument that the loop is at
  disk,      \* the bytes written so far
  buf,       \* what the diskwrite() in progress has still to write
  rest,      \* what fread() has not read of the current file
  pos,       \* how much it has
  nsectors,
  tool       \* "start", "args", "read", "done", or "failed": usage() exits

diskvars == <<bootblock, args, i, disk, buf, rest, pos, nsectors, tool>>
input == <<bootblock, args>>

Zeros(n) == [k \in 1 .. n |-> 0]
First(s, n) == SubSeq(s, 1, IF n < Len(s) THEN n ELSE Len(s))
From(s, n) == SubSeq(s, n + 1, Len(s))

(* The caller of diskwrite() is at `place', and no diskwrite() is going on. *)
At(place) == tool = place /\ buf = <<>>

usage == tool' = "failed" /\ UNCHANGED <<input, i, disk, buf, rest, pos, nsectors>>

write_defect(w) == disk' = disk \o First(buf, w) /\ buf' = <<>>   \* a short write is taken for a full one

write(w) == disk' = disk \o First(buf, w) /\ buf' = From(buf, w)

(* One iteration of diskwrite(); an interrupted one changes nothing.       *)
diskwrite ==
  /\ buf # <<>> /\ tool # "failed"
  /\ \/ (\E w \in 1 .. Len(buf) : write(w)) /\ UNCHANGED <<input, i, rest, pos, nsectors, tool>>
     \/ usage

TooLarge == Len(bootblock) > SECTORSIZE - 2

BootSector ==
  /\ At("start") /\ ~TooLarge
  /\ buf' = bootblock \o Zeros(SECTORSIZE - 2 - Len(bootblock)) \o SIGNATURE
  /\ nsectors' = 1
  /\ tool' = "args"
  /\ UNCHANGED <<input, i, disk, rest, pos>>

(* The first file cannot be opened, or is not a boot block.                *)
NoBootSector == At("start") /\ usage

WriteZeroSector ==
  /\ buf' = Zeros(SECTORSIZE) /\ nsectors' = nsectors + 1
  /\ UNCHANGED <<input, i, disk, rest, pos, tool>>

More(skip) == At("args") /\ i <= Len(args) /\ args[i].skip = skip

(* "@n": fill up to sector n. *)
Skip ==
  /\ More(TRUE)
  /\ \/ nsectors > args[i].sector /\ usage
     \/ nsectors < args[i].sector /\ WriteZeroSector
     \/ nsectors = args[i].sector /\ i' = i + 1
          /\ UNCHANGED <<input, disk, buf, rest, pos, nsectors, tool>>

fopencheck ==
  /\ More(FALSE)
  /\ \/ /\ rest' = args[i].file /\ pos' = 0
        /\ tool' = "read"
        /\ UNCHANGED <<input, i, disk, buf, nsectors>>
     \/ usage

fread ==
  /\ At("read") /\ rest # <<>>
  /\ buf' = First(rest, BUFSIZE)
  /\ rest' = From(rest, BUFSIZE)
  /\ pos' = pos + Len(First(rest, BUFSIZE))
  /\ UNCHANGED <<input, i, disk, nsectors, tool>>

Padding_defect == SECTORSIZE - (pos % SECTORSIZE)   \* a sector of padding where none is needed

Padding == IF pos % SECTORSIZE # 0 THEN SECTORSIZE - (pos % SECTORSIZE) ELSE 0

(* The end of a file. *)
Pad ==
  /\ At("read") /\ rest = <<>>
  /\ buf' = Zeros(Padding)
  /\ pos' = pos + Padding
  /\ nsectors' = nsectors + (pos + Padding) \div SECTORSIZE
  /\ i' = i + 1
  /\ tool' = "args"
  /\ UNCHANGED <<input, disk, rest>>

FillDisk ==
  /\ At("args") /\ i > Len(args)
  /\ \/ nsectors < SECTORS /\ WriteZeroSector
     \/ nsectors >= SECTORS /\ tool' = "done"
          /\ UNCHANGED <<input, i, disk, buf, rest, pos, nsectors>>

DiskInit ==
  /\ bootblock \in BOOTBLOCKS /\ args \in ArgLists
  /\ disk = <<>> /\ buf = <<>> /\ rest = <<>>
  /\ i = 1 /\ pos = 0 /\ nsectors = 0
  /\ tool = "start"

DiskNext ==
  diskwrite \/ BootSector \/ NoBootSector \/ Skip \/ fopencheck \/ fread \/ Pad \/ FillDisk
-----------------------------------------------------------------------------
Missing(n, s) == IF Len(s) < n THEN n - Len(s) ELSE 0

Sectors(s) == s \o Zeros((-Len(s)) % SECTORSIZE)

(* The image that a boot block and further arguments ask for. *)
ImageOf(block, others) ==
  LET upTo[k \in 0 .. Len(others)] ==
        IF k = 0 THEN block \o Zeros(Missing(SECTORSIZE - 2, block)) \o SIGNATURE
        ELSE IF others[k].skip
        THEN upTo[k - 1] \o Zeros(Missing(others[k].sector * SECTORSIZE, upTo[k - 1]))
        ELSE upTo[k - 1] \o Sectors(others[k].file)
  IN  upTo[Len(others)] \o Zeros(Missing(SECTORS * SECTORSIZE, upTo[Len(others)]))

Image == ImageOf(bootblock, args)

(* However write() splits the data, what is on the disk, with what is      *)
(* about to be written, is a beginning of the image asked for, and at exit *)
(* it is all of it: the loop of diskwrite() (mkbootdisk.c:54-67) and the   *)
(* padding neither lose, repeat nor displace a byte.                       *)
DiskImage ==
  /\ ~TooLarge => disk \o buf = First(Image, Len(disk \o buf))
  /\ tool = "done" => disk = Image

(* Where main() compares nsectors with a limit, it is the number of        *)
(* sectors on the disk, although it is kept apart from curoff.             *)
SectorCount == At("args") => Len(disk) = nsectors * SECTORSIZE
=============================================================================
