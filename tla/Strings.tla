-------------------------------- MODULE Strings --------------------------------
(***************************************************************************)
(* kernel/string.c, instruction by instruction: the moves, the copies and  *)
(* the comparisons that the other modules take by their effect.  One call  *)
(* of a function over a memory of signed bytes.                            *)
(***************************************************************************)
EXTENDS Integers

CONSTANTS
  MemSize,   \* addresses are 0 .. MemSize - 1
  Memories   \* what the memory may hold before the call

Addresses == 0 .. MemSize - 1
Byte == -128 .. 127

ASSUME StringsAssumption ==
  /\ MemSize \in Nat
  /\ Memories \subseteq [Addresses -> Byte]

VARIABLES
  mem,   \* the memory
  pc,    \* where the function is; "ready" before the call, "return" after it
  arg,   \* the arguments
  p, s,  \* the pointers to the destination and the source
  left,  \* what is left to count
  res,   \* __res of the comparisons
  old    \* the memory before the call

vars == <<mem, pc, arg, p, s, left, res, old>>

Init ==
  /\ mem \in Memories /\ old = mem
  /\ pc = "ready"
  /\ arg = [op |-> "none", dest |-> 0, src |-> 0, count |-> 0]
  /\ p = 0 /\ s = 0 /\ left = 0 /\ res = 0

Start(op, dest, src, count, label, d, n) ==
  /\ pc = "ready"
  /\ arg' = [op |-> op, dest |-> dest, src |-> src, count |-> count]
  /\ pc' = label /\ p' = dest + d /\ s' = src + d /\ left' = n
  /\ UNCHANGED <<mem, res, old>>

------------------------------------------------------------------------------
\* Faulty form: the regions that overlap the other way.
Forward_always(dest, src) == TRUE
Forward(dest, src) == dest < src

memmove ==
  \E dest, src \in Addresses, count \in 0 .. MemSize :
    /\ dest + count <= MemSize /\ src + count <= MemSize
    /\ IF Forward(dest, src)
       THEN Start("memmove", dest, src, count, "movsl", 0, count \div 4)
       ELSE Start("memmove", dest, src, count, "backward", count, count)

(* One string instruction: width bytes are read, then written. *)
Moved(width) ==
  mem' = [a \in Addresses |-> IF a \in p .. p + width - 1 THEN mem[a - p + s] ELSE mem[a]]

Movs(width) == Moved(width) /\ p' = p + width /\ s' = s + width

(* rep ; movsl *)
Movsl ==
  /\ pc = "movsl"
  /\ IF left > 0 THEN Movs(4) /\ left' = left - 1 /\ pc' = pc
     ELSE pc' = "movsw" /\ UNCHANGED <<mem, p, s, left>>
  /\ UNCHANGED <<arg, res, old>>

(* testb $2; movsw *)
Movsw ==
  /\ pc = "movsw" /\ pc' = "movsb"
  /\ IF (arg.count \div 2) % 2 = 1 THEN Movs(2) ELSE UNCHANGED <<mem, p, s>>
  /\ UNCHANGED <<arg, left, res, old>>

(* testb $1; movsb *)
Movsb ==
  /\ pc = "movsb" /\ pc' = "return"
  /\ IF arg.count % 2 = 1 THEN Movs(1) ELSE UNCHANGED <<mem, p, s>>
  /\ UNCHANGED <<arg, left, res, old>>

(* *--p = *--s *)
MoveBackward ==
  /\ pc = "backward"
  /\ IF left > 0
     THEN /\ mem' = [mem EXCEPT ![p - 1] = mem[s - 1]]
          /\ p' = p - 1 /\ s' = s - 1 /\ left' = left - 1 /\ pc' = pc
     ELSE pc' = "return" /\ UNCHANGED <<mem, p, s, left>>
  /\ UNCHANGED <<arg, res, old>>

------------------------------------------------------------------------------
SignedChar(v) == ((v + 128) % 256) - 128

(* src of the call is the value c, an int that is truncated. *)
memset ==
  \E dest \in Addresses, c \in {0, 127, 255}, count \in 0 .. MemSize :
    dest + count <= MemSize /\ Start("memset", dest, c, count, "memset", 0, count)

MemsetByte ==
  /\ pc = "memset"
  /\ IF left > 0 THEN /\ mem' = [mem EXCEPT ![p] = SignedChar(arg.src)]
                      /\ p' = p + 1 /\ left' = left - 1 /\ pc' = pc
     ELSE pc' = "return" /\ UNCHANGED <<mem, p, left>>
  /\ UNCHANGED <<arg, s, res, old>>

(* The first NUL behind an address, if the memory has one; where strings start. *)
HasEnd(m, a) == \E e \in a .. MemSize - 1 : m[e] = 0
StringsIn(m) == {a \in Addresses : HasEnd(m, a)}
IsEnd(m, a, e) == m[e] = 0 /\ \A b \in a .. e - 1 : m[b] # 0

(* The callers copy strings that end, to room that is elsewhere. *)
strcpy ==
  \E dest, src, e \in Addresses :
    /\ e >= src /\ IsEnd(mem, src, e)
    /\ dest > e \/ dest + e - src < src
    /\ dest + e - src < MemSize
    /\ Start("strcpy", dest, src, 0, "strcpy", 0, 0)

\* Faulty form: leaves the end of the string out.
CopiedByte_noend == IF mem[s] = 0 THEN mem ELSE [mem EXCEPT ![p] = mem[s]]
CopiedByte == [mem EXCEPT ![p] = mem[s]]

StrcpyByte ==
  /\ pc = "strcpy"
  /\ mem' = CopiedByte
  /\ p' = p + 1 /\ s' = s + 1
  /\ pc' = IF mem[s] = 0 THEN "return" ELSE pc
  /\ UNCHANGED <<arg, left, res, old>>

(* strcmp has no count: it is the one no string of the memory reaches. *)
strcmp ==
  \E cs, ct \in StringsIn(mem) :
    Start("strcmp", cs, ct, MemSize + 1, "strcmp", 0, MemSize + 1)

strncmp ==
  \E cs, ct \in StringsIn(mem), count \in 0 .. MemSize :
    Start("strncmp", cs, ct, count, "strcmp", 0, count)

\* Faulty form: looks for the end of the strings only.
Differ_never(d) == FALSE
Differ(d) == d # 0

(* __res = *cs - *ct, in a signed char. *)
CompareByte ==
  /\ pc = "strcmp"
  /\ IF left = 0 THEN pc' = "return" /\ UNCHANGED <<p, s, left, res>>
     ELSE /\ res' = SignedChar(mem[p] - mem[s])
          /\ s' = s + 1
          /\ IF Differ(res') THEN pc' = "return" /\ UNCHANGED <<p, left>>
             ELSE /\ p' = p + 1
                  /\ IF mem[p] = 0 THEN pc' = "return" /\ UNCHANGED left
                     ELSE pc' = pc /\ left' = left - 1
  /\ UNCHANGED <<mem, arg, old>>

Call == memmove \/ memset \/ strcpy \/ strcmp \/ strncmp
Step == Movsl \/ Movsw \/ Movsb \/ MoveBackward \/ MemsetByte \/ StrcpyByte \/ CompareByte
Next == Call \/ Step

Spec == Init /\ [][Next]_vars

------------------------------------------------------------------------------
(* Every variable has its type; the pointers stay within the memory. *)
TypeOK ==
  /\ mem \in [Addresses -> Byte] /\ old \in [Addresses -> Byte]
  /\ pc \in {"ready", "movsl", "movsw", "movsb", "backward", "memset", "strcpy", "strcmp", "return"}
  /\ arg \in [op : {"none", "memmove", "memset", "strcpy", "strcmp", "strncmp"},
              dest : Nat, src : Nat, count : Nat]
  /\ p \in 0 .. MemSize /\ s \in Nat
  /\ left \in Nat
  /\ res \in Byte

(***************************************************************************)
(* memmove moves what the source held before the call, wherever the two    *)
(* regions overlap and whatever the length leaves behind the double words, *)
(* and changes nothing else (string.c:41-73).                              *)
(***************************************************************************)
MovedFrom(m) ==
  [a \in Addresses |-> IF a \in arg.dest .. arg.dest + arg.count - 1
                       THEN m[a - arg.dest + arg.src] ELSE m[a]]
MemmoveIsSimultaneous == pc = "return" /\ arg.op = "memmove" => mem = MovedFrom(old)

(***************************************************************************)
(* A comparison is 0 exactly when the strings agree up to their ends or    *)
(* the count, although the difference of two bytes does not fit the signed *)
(* char it is kept in (string.c:3-13, 25-36).                              *)
(***************************************************************************)
AgreeFor(m, a, b, n) ==
  \A k \in 0 .. n - 1 :
    (a + k < MemSize /\ b + k < MemSize /\ \A l \in 0 .. k - 1 : m[a + l] # 0)
      => m[a + k] = m[b + k]

ZeroMeansEqual ==
  pc = "return" /\ arg.op \in {"strcmp", "strncmp"} =>
    (res = 0 <=> AgreeFor(old, arg.dest, arg.src, arg.count))

(***************************************************************************)
(* memset and strcpy write all they should and not one byte more           *)
(* (string.c:15-23, 75-83).                                                *)
(***************************************************************************)
FillsAndCopiesExactly ==
  pc = "return" =>
    /\ arg.op = "memset" =>
         \E c \in Byte :
           /\ (arg.src - c) % 256 = 0
           /\ mem = [a \in Addresses |-> IF a \in arg.dest .. arg.dest + arg.count - 1
                                         THEN c ELSE old[a]]
    /\ arg.op = "strcpy" =>
         \E e \in arg.src .. MemSize - 1 :
           /\ IsEnd(old, arg.src, e)
           /\ mem = [a \in Addresses |-> IF a \in arg.dest .. arg.dest + e - arg.src
                                         THEN old[a - arg.dest + arg.src] ELSE old[a]]
===============================================================================
