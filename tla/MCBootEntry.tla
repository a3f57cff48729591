------------------------------ MODULE MCBootEntry ------------------------------
(***************************************************************************)
(* The VMM as its Makefile links it, from 2 MB on, and across two pages;   *)
(* loaders that leave EFER and CR4 in any state, the multiboot information *)
(* below the VMM, above it, in the last mapped page and behind it.         *)
(***************************************************************************)
EXTENDS BootEntry

MCPageOf == [s \in Symbols |-> IF s \in {"boot_stack", "start_vmm"} THEN 2 ELSE 1]
MCLoaders ==
  [eax : {"MULTIBOOT_BOOTLOADER_MAGIC", "other"}, ebx : {0, 3, 511, 512},
   cr4 : SUBSET {"PSE", "PAE", "PGE"}, efer : SUBSET {"SCE", "NX"}]
===============================================================================
