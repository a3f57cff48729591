---------------------------- MODULE MCProcessorPath ----------------------------
(***************************************************************************)
(* Every loader of MCBootEntry, every processor and pool of MCSvmLaunch    *)
(* with two loaders, every VMCB of MCVmcb; what is not varied is as usual. *)
(***************************************************************************)
EXTENDS ProcessorPath, MCBootEntry, MCSvmLaunch, MCVmcb

Grub == [eax |-> "MULTIBOOT_BOOTLOADER_MAGIC", ebx |-> 0, cr4 |-> {}, efer |-> {}]
GrubNx == [Grub EXCEPT !.ebx = 512, !.cr4 = {"PSE", "PGE"}, !.efer = {"NX"}]

MCStarts ==
  MCLoaders \X {Opteron} \X {{20, 24}} \X {CreatedVmcb} \cup
  {Grub, GrubNx} \X MCProcessors \X MCPools \X {CreatedVmcb} \cup
  {Grub} \X {Opteron} \X {{20, 24}} \X MCVmcbs
===============================================================================
