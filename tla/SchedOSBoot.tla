---------------------------- MODULE SchedOSBoot ----------------------------
(***************************************************************************)
(* How programs come into memory.  The boot loader, schedos-boot.c, reads  *)
(* the kernel, sector by sector, from the disk that mkbootdisk.c made;     *)
(* then program_loader() of schedos-loader.c copies every application out  *)
(* of its image inside the kernel's data.                                  *)
(*                                                                         *)
(* A cell of memory or of a file is a byte, except that an ELF header with *)
(* its program headers is one cell, a member of DOMAIN Headers: all its    *)
(* members begin with ELF_MAGIC.  Sector numbers stay below 2^28, of which *)
(* the outb()s of readsect() lose nothing.                                 *)
(* The operators with _defect in their name are as in SchedOSKern.         *)
(***************************************************************************)
EXTENDS SchedOSDisk

CONSTANTS
  PAGESIZE,    \* 4096
  MEMORY,      \* the size of the memory that is modelled
  ELFHDR,      \* where bootmain() keeps the first page of the kernel
  Headers,     \* Headers[h] is the table of program headers of the ELF header h
  RamImages,   \* where the linker put the images of the applications, ramimages[]
  Garbage      \* what memory, and a drive that is not ready, contain

Segments == [load : BOOLEAN, va : Nat, offset : Nat, filesz : Nat, memsz : Nat]

ASSUME BootAssumption ==
  /\ PAGESIZE \in Nat \ {0} /\ PAGESIZE % SECTORSIZE = 0
  /\ MEMORY \in Nat
  /\ ELFHDR \in Nat /\ ELFHDR % SECTORSIZE = 0 /\ ELFHDR + PAGESIZE <= MEMORY
  /\ SECTORSIZE + PAGESIZE <= SECTORS * SECTORSIZE
  /\ \A h \in DOMAIN Headers : Headers[h] \in Seq(Segments)
  /\ RamImages \in Seq(Nat)

RoundDown_defect(a, size) == a

RoundDown(a, size) == a - (a % size)

-----------------------------------------------------------------------------
(***************************************************************************)
(* What the linker guarantees of the kernel that is on the disk D, and of  *)
(* the programs in it: where the loaders put one thing, they find or put   *)
(* no other.  The GNUmakefile places the kernel at 0x100000 (line 59) and  *)
(* the four programs at 0x200000, 0x300000, 0x400000 and 0x500000 (lines   *)
(* 67, 74, 81, 88), away from each other and from ELFHDR, 0x10000; ld      *)
(* keeps the offsets of segments congruent to their addresses.             *)
(***************************************************************************)
Extent(p) == p.va .. p.va + p.memsz - 1

Bss(p) == p.va + p.filesz .. p.va + p.memsz - 1

Kernel(D) == Headers[D[SECTORSIZE + 1]]

(* readseg() writes to address x when it loads p: whole sectors. *)
Reaches(p, x) ==
  /\ RoundDown(p.va, SECTORSIZE) <= x
  /\ x < p.va + p.memsz \/ RoundDown(x, SECTORSIZE) < p.va + p.filesz

(* The segment p stands on the disk D, congruent to its place in memory.   *)
OnDisk(D, p) ==
  /\ p.filesz <= p.memsz /\ p.va + p.memsz <= MEMORY
  /\ p.va % SECTORSIZE = p.offset % SECTORSIZE
  /\ SECTORSIZE + p.offset + p.filesz <= Len(D)

(* Where two segments of the kernel meet in a sector, it holds no bss, and *)
(* the same cells for both.                                                *)
KernelLinked(D) ==
  \A n \in 1 .. Len(Kernel(D)) :
    LET p == Kernel(D)[n]
    IN  /\ OnDisk(D, p)
        /\ ~ Reaches(p, ELFHDR)
        /\ \A m \in 1 .. n - 1 :
             LET q == Kernel(D)[m]
             IN  \A x \in Extent(q) :
                   Reaches(p, x) => /\ x \notin Bss(q) \cup Bss(p)
                                    /\ p.va - p.offset = q.va - q.offset

InKernel(K, x) == \E n \in 1 .. Len(K) : x \in Extent(K[n])

(* The cell of the segment p that belongs at address x. *)
Content(D, p, x) ==
  IF x < p.va + p.filesz THEN D[SECTORSIZE + p.offset + (x - p.va) + 1] ELSE 0

ElfHeader(D, q) ==   \* of the image of program q
  LET K == Kernel(D)
      n == CHOOSE n \in 1 .. Len(K) : RamImages[q] \in Extent(K[n])
  IN  Content(D, K[n], RamImages[q])

Elf(D, q) == q \in 1 .. Len(RamImages) /\ ElfHeader(D, q) \in DOMAIN Headers

(* The segments that program_loader() loads for program q. *)
Loads(D, q) == {n \in 1 .. Len(Headers[ElfHeader(D, q)]) : Headers[ElfHeader(D, q)][n].load}

Copied(p) == RoundDown(p.va, PAGESIZE) .. p.va + p.memsz - 1

ProgramsLinked(D) ==
  \A q \in 1 .. Len(RamImages) :
    /\ InKernel(Kernel(D), RamImages[q])
    /\ Elf(D, q) => \A n \in Loads(D, q) :
         LET p == Headers[ElfHeader(D, q)][n]
         IN  /\ p.filesz <= p.memsz /\ p.va + p.memsz <= MEMORY
             /\ \A k \in 0 .. p.filesz - 1 : InKernel(Kernel(D), RamImages[q] + p.offset + k)
             /\ \A x \in Copied(p) : x # ELFHDR /\ ~ InKernel(Kernel(D), x)
             /\ \A r \in 1 .. Len(RamImages) : Elf(D, r) => \A m \in Loads(D, r) :
                  <<q, n>> # <<r, m>> =>
                    Copied(p) \cap Extent(Headers[ElfHeader(D, r)][m]) = {}

(* The disks that the first program of the boot loader may find. *)
Disks == {ImageOf(b, a) : b \in {f \in BOOTBLOCKS : Len(f) <= SECTORSIZE - 2}, a \in ArgLists}

ASSUME LinkerAssumption ==
  \A D \in Disks : D[SECTORSIZE + 1] \in DOMAIN Headers =>
                    KernelLinked(D) /\ ProgramsLinked(D)

(* The linker put every segment of a program at the beginning of a page.   *)
Aligned ==
  \A D \in Disks : D[SECTORSIZE + 1] \in DOMAIN Headers =>
    \A q \in 1 .. Len(RamImages) : Elf(D, q) =>
      \A n \in Loads(D, q) : Headers[ElfHeader(D, q)][n].va % PAGESIZE = 0

-----------------------------------------------------------------------------
VARIABLES
  mem,
  drive,     \* [busy, sector, data]: the IDE controller
  seg,       \* the locals of readseg(); asked: readsect() has sent its command
  ph,        \* the program header that bootmain() or program_loader() is at
  program,   \* the program_id that start() has passed to program_loader()
  boot       \* "bios", "header", "segments", "read", "kernel", "load", "run",
             \* "spin" (bootstart.S), "panic"

memvars == <<mem, drive, seg, ph, program, boot>>

Addresses == 0 .. MEMORY - 1

Sector(n) == [k \in 0 .. SECTORSIZE - 1 |-> disk[n * SECTORSIZE + k + 1]]

Cleared_defect(m, from, to) == m   \* the bss is not cleared

Cleared(m, from, to) == [a \in Addresses |-> IF from <= a /\ a < to THEN 0 ELSE m[a]]

ReadSeg(va, filesz, memsz, sect) ==
  seg' = [va |-> RoundDown(va, SECTORSIZE), end_va |-> va + filesz, memsz |-> va + memsz,
          sect |-> sect, asked |-> FALSE]

bootmain ==
  /\ boot = "bios"
  /\ ReadSeg(ELFHDR, PAGESIZE, PAGESIZE, 1)
  /\ boot' = "header"
  /\ UNCHANGED <<mem, drive, ph, program>>

waitdisk_defect == TRUE

waitdisk == ~drive.busy

Reading == boot \in {"header", "read"} /\ seg.va < seg.end_va

(* readsect() up to its second waitdisk(). *)
ReadCommand ==
  /\ Reading /\ ~seg.asked
  /\ waitdisk
  /\ drive' = [drive EXCEPT !.busy = TRUE, !.sector = seg.sect]
  /\ seg' = [seg EXCEPT !.asked = TRUE]
  /\ UNCHANGED <<mem, ph, program, boot>>

(* The drive has found the sector. *)
Drive ==
  /\ drive.busy
  /\ drive' = [drive EXCEPT !.busy = FALSE, !.data = Sector(drive.sector)]
  /\ UNCHANGED <<mem, seg, ph, program, boot>>

(* insl(), and the end of the iteration of readseg().  The data of a       *)
(* sector leave the drive when they are read.                              *)
ReadData ==
  /\ Reading /\ seg.asked
  /\ waitdisk
  /\ mem' = [a \in Addresses |-> IF a - seg.va \in DOMAIN drive.data THEN drive.data[a - seg.va]
                                 ELSE mem[a]]
  /\ drive' = [drive EXCEPT !.data = [k \in DOMAIN drive.data |-> Garbage]]
  /\ seg' = [seg EXCEPT !.va = seg.va + SECTORSIZE, !.sect = seg.sect + 1, !.asked = FALSE]
  /\ UNCHANGED <<ph, program, boot>>

ReadDone == boot \in {"header", "read"} /\ seg.va >= seg.end_va

KernelHeaders == Headers[mem[ELFHDR]]

(* The end of the first readseg(), and the test of the magic number.       *)
ReadHeader ==
  /\ ReadDone /\ boot = "header"
  /\ mem' = Cleared(mem, seg.end_va, seg.memsz)
  /\ boot' = IF mem'[ELFHDR] \in DOMAIN Headers THEN "segments" ELSE "spin"
  /\ ph' = 1
  /\ UNCHANGED <<drive, seg, program>>

(* bootmain() loads every segment, whatever its type.                      *)
LoadSegment ==
  /\ boot = "segments" /\ ph <= Len(KernelHeaders)
  /\ LET p == KernelHeaders[ph]
     IN  ReadSeg(p.va, p.filesz, p.memsz, 1 + p.offset \div SECTORSIZE)
  /\ boot' = "read"
  /\ UNCHANGED <<mem, drive, ph, program>>

ClearBss ==
  /\ ReadDone /\ boot = "read"
  /\ mem' = Cleared(mem, seg.end_va, seg.memsz)
  /\ ph' = ph + 1
  /\ boot' = "segments"
  /\ UNCHANGED <<drive, seg, program>>

EnterKernel ==
  /\ boot = "segments" /\ ph > Len(KernelHeaders)
  /\ boot' = "kernel" /\ program' = 1
  /\ UNCHANGED <<mem, drive, seg, ph>>

(* program_loader() up to its loop, called by start() for each program.    *)
program_loader ==
  /\ boot = "kernel" /\ program <= Len(RamImages)
  /\ boot' = IF mem[RamImages[program]] \in DOMAIN Headers THEN "load" ELSE "panic"
  /\ ph' = 1
  /\ UNCHANGED <<mem, drive, seg, program>>

(* memcpy() and the clearing of the bss.                                   *)
copyseg(dst, src, filesz, memsz) ==
  LET va == RoundDown(dst, PAGESIZE)
      end_va == dst + filesz
      copied == [a \in Addresses |->
                   IF va <= a /\ a < end_va THEN mem[src + (a - va)] ELSE mem[a]]
  IN  mem' = Cleared(copied, end_va, dst + memsz)

ProgramHeaders == Headers[mem[RamImages[program]]]

(* One iteration of the loop of program_loader().                          *)
CopySegment ==
  /\ boot = "load" /\ ph <= Len(ProgramHeaders)
  /\ LET p == ProgramHeaders[ph]
     IN  IF p.load THEN copyseg(p.va, RamImages[program] + p.offset, p.filesz, p.memsz)
                   ELSE UNCHANGED mem
  /\ ph' = ph + 1
  /\ UNCHANGED <<drive, seg, program, boot>>

(* program_loader() returns to start().                                    *)
ProgramLoaded ==
  /\ boot = "load" /\ ph > Len(ProgramHeaders)
  /\ program' = program + 1
  /\ boot' = "kernel"
  /\ UNCHANGED <<mem, drive, seg, ph>>

Run ==
  /\ boot = "kernel" /\ program > Len(RamImages)
  /\ boot' = "run"
  /\ UNCHANGED <<mem, drive, seg, ph, program>>

BootInit ==
  /\ mem = [a \in Addresses |-> Garbage]
  /\ drive = [busy |-> FALSE, sector |-> 0, data |-> [k \in 0 .. SECTORSIZE - 1 |-> Garbage]]
  /\ seg = [va |-> 0, end_va |-> 0, memsz |-> 0, sect |-> 0, asked |-> FALSE]
  /\ ph = 1 /\ program = 1
  /\ boot = "bios"

BootNext ==
  \/ bootmain \/ ReadCommand \/ Drive \/ ReadData \/ ReadHeader \/ LoadSegment \/ ClearBss
  \/ EnterKernel \/ program_loader \/ CopySegment \/ ProgramLoaded \/ Run

Init == DiskInit /\ BootInit

(* The machine is started with a finished image. *)
Next ==
  \/ DiskNext /\ UNCHANGED memvars
  \/ tool = "done" /\ BootNext /\ UNCHANGED diskvars

vars == <<diskvars, memvars>>

Spec == Init /\ [][Next]_vars
-----------------------------------------------------------------------------
TypeOK ==
  /\ i \in 1 .. Len(args) + 1
  /\ {nsectors, pos} \subseteq Nat
  /\ tool \in {"start", "args", "read", "done", "failed"}
  /\ DOMAIN mem = Addresses
  /\ DOMAIN drive.data = 0 .. SECTORSIZE - 1 /\ drive.busy \in BOOLEAN
  /\ drive.busy => drive.sector < nsectors
  /\ {seg.va, seg.sect, seg.end_va, seg.memsz} \subseteq Nat /\ seg.va % SECTORSIZE = 0
  /\ ph \in Nat \ {0} /\ program \in 1 .. Len(RamImages) + 1
  /\ boot \in {"bios", "header", "segments", "read", "kernel", "load", "run", "spin", "panic"}

InPlace(p, file(_)) ==
  \A k \in 0 .. p.memsz - 1 : mem[p.va + k] = IF k < p.filesz THEN file(p.offset + k) ELSE 0

(* While the kernel runs, each of its segments stands at its address as in *)
(* the file that the disk holds from sector 1 on, its bss cleared: also    *)
(* when two segments share a sector (schedos-boot.c:82-98), whatever time  *)
(* the drive takes, and after program_loader() has filled other memory.    *)
KernelLoaded ==
  LET InFile(offset) == disk[SECTORSIZE + offset + 1]
  IN  boot \in {"kernel", "load", "run"} =>
        \A n \in 1 .. Len(KernelHeaders) : InPlace(KernelHeaders[n], InFile)

(* Each program for which program_loader() has returned is in place, and   *)
(* stays there while the others are loaded (schedos-loader.c:59-63).       *)
ProgramsLoaded ==
  boot \in {"kernel", "load", "run"} =>
    \A q \in 1 .. program - 1 :
      LET header == Headers[mem[RamImages[q]]]
          InImage(offset) == mem[RamImages[q] + offset]
      IN  \A n \in 1 .. Len(header) : header[n].load => InPlace(header[n], InImage)

(* "Copy 'filesz' bytes starting at address 'data' into virtual address    *)
(* 'dst', then clear the memory from 'va+filesz' up to 'va+memsz'"         *)
(* (schedos-loader.c:69-70), and nothing else.                             *)
CopysegAsDocumented ==
  [][ boot = "load" /\ mem' # mem =>
        LET p == ProgramHeaders[ph]
        IN  \A a \in Addresses :
              mem'[a] = IF a \notin p.va .. p.va + p.memsz - 1 THEN mem[a]
                        ELSE IF a < p.va + p.filesz
                        THEN mem[RamImages[program] + p.offset + (a - p.va)]
                        ELSE 0 ]_vars
=============================================================================
