------------------------------- MODULE MCImages -------------------------------
(***************************************************************************)
(* The guest images of the runs of VmCreate and BootPath.  The unit is the *)
(* 4-Kbyte frame, and eight frames are 2 Mbytes.                           *)
(***************************************************************************)
EXTENDS Naturals

Load(flags, offset, paddr, filesz, memsz) ==
  [p_type |-> "PT_LOAD", p_flags |-> flags, p_offset |-> offset, p_paddr |-> paddr,
   p_filesz |-> filesz, p_memsz |-> memsz]

Code == {"PF_R", "PF_X"}
Data == {"PF_R", "PF_W"}

(* The sample guest sos: one segment at 2 Mbytes, three frames and a bss. *)
Sos == [e_entry |-> 8, size |-> 3, e_phdrs |-> << Load(Code \cup Data, 0, 8, 3, 4) >>]

(* Several segments, one below 2 Mbytes, one that is not loaded, a bss alone. *)
Several ==
  [e_entry |-> 9, size |-> 5,
   e_phdrs |-> << Load(Data, 3, 14, 1, 2), [Load(Code, 0, 0, 1, 1) EXCEPT !.p_type = "PT_NOTE"],
                  Load(Code, 0, 8, 3, 3), Load({"PF_R"}, 0, 3, 1, 1), Load(Data, 4, 2, 1, 1),
                  Load(Data, 0, 4, 0, 2) >>]
===============================================================================
