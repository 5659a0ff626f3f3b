SPECIFICATION Spec
CONSTANTS
  SECTORSIZE = 4
  BUFSIZE = 8
  SECTORS = 4
  PAGESIZE = 8
  MEMORY = 40
  ELFHDR = 0
  Garbage = Garbage
  KernelElf = KernelElf
  Elf1 = Elf1
  Elf2 = Elf2
  Cells <- MCCells
  BOOTBLOCKS <- MCBootBlocks
  ArgLists <- MCArgLists
  Headers <- MCHeaders
  RamImages <- MCRamImages
  Unaligned = TRUE
CHECK_DEADLOCK FALSE
PROPERTIES
  CopysegAsDocumented
