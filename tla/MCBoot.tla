------------------------------- MODULE MCBoot -------------------------------
(* Small disks for SchedOSBoot: sectors of 4 cells, pages of 2 sectors.     *)
EXTENDS SchedOSBoot, TLC

CONSTANTS KernelElf, Elf1, Elf2   \* ELF headers
CONSTANT Unaligned                \* a program with a segment in the middle of a page

Segment(load, va, offset, filesz, memsz) ==
  [load |-> load, va |-> va, offset |-> offset, filesz |-> filesz, memsz |-> memsz]

Stack == Segment(FALSE, 0, 0, 0, 0)   \* GNU_STACK, which ld adds

(* The text and the data of the kernel share a sector; its data contain the *)
(* images of both programs; the first program has a bss.                    *)
MCHeaders ==
  (KernelElf :> << Segment(TRUE, 8, 4, 6, 6), Segment(TRUE, 14, 10, 6, 9), Stack >>)
  @@ (Elf1 :> << Segment(TRUE, IF Unaligned THEN 26 ELSE 24, 1, 2, 4), Stack >>)
  @@ (Elf2 :> << Segment(TRUE, 32, 1, 2, 2) >>)

MCRamImages == << 14, 17 >>

KernelFile(elf2) == << KernelElf, 0, 0, 0, 1, 2, 3, 4, 5, 6, Elf1, 7, 8, elf2, 9, 10 >>

File(f) == [skip |-> FALSE, file |-> f]
SkipTo(n) == [skip |-> TRUE, sector |-> n]

(* A kernel; one with a broken program; a file that is not ELF; "@n", to a  *)
(* later sector or one passed before; a file that ends in mid-sector.       *)
MCArgLists ==
  { << File(KernelFile(Elf2)) >>, << File(KernelFile(0)) >>, << File(<< 1, 2, 3 >>) >>,
    << File(KernelFile(Elf2)), File(<< 1 >>) >>,
    << SkipTo(2), File(<< 11 >>) >>, << SkipTo(1), File(<< 11, 12, 13 >>), SkipTo(1) >>,
    << File(<< >>), SkipTo(0) >> }

MCCells == 0 .. 14 \cup {85, 170, KernelElf, Elf1, Elf2}

MCBootBlocks == { << 12 >>, << 12, 13 >>, << 12, 13, 14 >> }

ASSUME Aligned <=> ~Unaligned
=============================================================================
