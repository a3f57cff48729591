----------------------------- MODULE StringsProofs -----------------------------
(***************************************************************************)
(* The functions of kernel/string.c do what their callers take them to do, *)
(* for every memory, region and length.                                    *)
(***************************************************************************)
EXTENDS Strings, TLAPS

(* The part of the call that is done, or still to do, at every label. *)
Fits == arg.dest + arg.count <= MemSize /\ arg.src + arg.count <= MemSize

Copied(from, upto) ==
  mem = [a \in Addresses |-> IF a \in arg.dest + from .. arg.dest + upto - 1
                             THEN old[a - arg.dest + arg.src] ELSE old[a]]

ForwardInv ==
  pc \in {"movsl", "movsw", "movsb"} =>
    /\ arg.op = "memmove" /\ Fits /\ arg.dest < arg.src
    /\ p >= arg.dest /\ s - arg.src = p - arg.dest
    /\ Copied(0, p - arg.dest)
    /\ pc = "movsl" => left <= arg.count \div 4 /\ p - arg.dest = 4 * (arg.count \div 4 - left)
    /\ pc = "movsw" => p - arg.dest = 4 * (arg.count \div 4)
    /\ pc = "movsb" => p - arg.dest = 2 * (arg.count \div 2)

BackwardInv ==
  pc = "backward" =>
    /\ arg.op = "memmove" /\ Fits /\ arg.src <= arg.dest
    /\ left <= arg.count /\ p = arg.dest + left /\ s = arg.src + left
    /\ Copied(left, arg.count)

ReadyInv == pc = "ready" => mem = old

ReturnInv == pc = "return" /\ arg.op = "memmove" => Copied(0, arg.count)

MoveInv == TypeOK /\ ReadyInv /\ ForwardInv /\ BackwardInv /\ ReturnInv

FillInv ==
  pc = "memset" =>
    /\ arg.op = "memset" /\ arg.dest + arg.count <= MemSize /\ left <= arg.count
    /\ p = arg.dest + (arg.count - left)
    /\ mem = [a \in Addresses |-> IF a \in arg.dest .. p - 1 THEN SignedChar(arg.src) ELSE old[a]]

CopyInv ==
  pc = "strcpy" =>
    /\ arg.op = "strcpy" /\ arg.src <= s /\ p - arg.dest = s - arg.src
    /\ \E e \in Addresses :
         /\ s <= e /\ IsEnd(old, arg.src, e)
         /\ arg.dest > e \/ arg.dest + e - arg.src < arg.src
         /\ arg.dest + e - arg.src < MemSize
    /\ mem = [a \in Addresses |-> IF a \in arg.dest .. p - 1 THEN old[a - arg.dest + arg.src]
                                  ELSE old[a]]

CompareInv ==
  pc = "strcmp" =>
    /\ arg.op \in {"strcmp", "strncmp"} /\ mem = old /\ res = 0
    /\ left <= arg.count
    /\ p = arg.dest + (arg.count - left) /\ s = arg.src + (arg.count - left)
    /\ HasEnd(mem, p) /\ HasEnd(mem, s)
    /\ \A k \in 0 .. arg.count - left - 1 :
         mem[arg.dest + k] = mem[arg.src + k] /\ mem[arg.dest + k] # 0

Results == ZeroMeansEqual /\ FillsAndCopiesExactly

IInv ==
  MoveInv /\ FillInv /\ CopyInv /\ CompareInv /\ Results /\ (pc = "ready" => res = 0)

(* The double words, the word and the byte are the whole length. *)
LEMMA Remainders ==
  ASSUME NEW n \in Nat
  PROVE  /\ n \div 4 \in Nat /\ n \div 2 \in Nat
         /\ n % 2 \in {0, 1}
         /\ (n \div 2) % 2 \in {0, 1}
         /\ (n \div 2) % 2 = 1 => 2 * (n \div 2) = 4 * (n \div 4) + 2
         /\ (n \div 2) % 2 = 0 => 2 * (n \div 2) = 4 * (n \div 4)
         /\ n % 2 = 1 => n = 2 * (n \div 2) + 1
         /\ n % 2 = 0 => n = 2 * (n \div 2)
         /\ 2 * (n \div 2) <= n /\ 4 * (n \div 4) <= n
  OBVIOUS

LEMMA MoveInit == Init => MoveInv
  BY StringsAssumption
  DEF Init, MoveInv, TypeOK, ReadyInv, ForwardInv, BackwardInv, ReturnInv, Byte

(* A call changes nothing yet. *)
LEMMA MoveCall == MoveInv /\ Call => MoveInv'
<1> USE StringsAssumption
<1> SUFFICES ASSUME MoveInv, Call PROVE MoveInv'
  OBVIOUS
<1> USE DEF MoveInv, ReadyInv
<1>1. CASE memmove
  <2>1. PICK dest, src \in Addresses, count \in 0 .. MemSize :
          /\ dest + count <= MemSize /\ src + count <= MemSize
          /\ IF Forward(dest, src)
             THEN Start("memmove", dest, src, count, "movsl", 0, count \div 4)
             ELSE Start("memmove", dest, src, count, "backward", count, count)
    BY <1>1 DEF memmove
  <2>2. count \in Nat /\ dest \in Nat /\ src \in Nat /\ count \div 4 \in Nat
    BY Remainders DEF Addresses
  <2>3. mem' = old' /\ mem' = mem /\ old' = old /\ res' = res /\ mem \in [Addresses -> Byte]
    BY <2>1 DEF Start, TypeOK
  <2>4. CASE Forward(dest, src)
    <3>1. /\ arg' = [op |-> "memmove", dest |-> dest, src |-> src, count |-> count]
          /\ pc' = "movsl" /\ p' = dest /\ s' = src /\ left' = count \div 4
      BY <2>1, <2>2, <2>4 DEF Start
    <3>2. Copied(0, p - arg.dest)'
      BY <2>2, <2>3, <3>1 DEF Copied
    <3> QED
      BY <2>1, <2>2, <2>3, <2>4, <3>1, <3>2
      DEF TypeOK, ForwardInv, BackwardInv, ReturnInv, Fits, Forward, Addresses
  <2>5. CASE ~ Forward(dest, src)
    <3>1. /\ arg' = [op |-> "memmove", dest |-> dest, src |-> src, count |-> count]
          /\ pc' = "backward" /\ p' = dest + count /\ s' = src + count /\ left' = count
      BY <2>1, <2>2, <2>5 DEF Start
    <3>2. Copied(left, arg.count)'
      BY <2>2, <2>3, <3>1 DEF Copied
    <3> QED
      BY <2>1, <2>2, <2>3, <2>5, <3>1, <3>2
      DEF TypeOK, ForwardInv, BackwardInv, ReturnInv, Fits, Forward, Addresses
  <2> QED
    BY <2>4, <2>5
<1>2. CASE memset \/ strcpy \/ strcmp \/ strncmp
  <2>1. PICK op \in {"memset", "strcpy", "strcmp", "strncmp"}, dest \in Addresses,
             src \in Nat, count \in Nat, label \in {"memset", "strcpy", "strcmp"}, n \in Nat :
          Start(op, dest, src, count, label, 0, n)
    BY <1>2 DEF memset, strcpy, strcmp, strncmp, StringsIn, Addresses
  <2>2. /\ arg' = [op |-> op, dest |-> dest, src |-> src, count |-> count]
        /\ pc' = label /\ p' = dest /\ s' = src /\ left' = n
        /\ mem' = mem /\ old' = old /\ res' = res
    BY <2>1 DEF Start, Addresses
  <2> QED
    BY <2>1, <2>2 DEF TypeOK, ForwardInv, BackwardInv, ReturnInv, Addresses
<1> QED
  BY <1>1, <1>2 DEF Call

(* A string instruction reads bytes that no earlier one has written. *)
LEMMA MoveForward ==
  ASSUME TypeOK, Fits, arg.dest < arg.src, p >= arg.dest, s - arg.src = p - arg.dest,
         Copied(0, p - arg.dest),
         NEW width \in Nat, p - arg.dest + width <= arg.count,
         Movs(width), UNCHANGED <<arg, old>>
  PROVE  /\ Copied(0, p - arg.dest)'
         /\ p' = p + width /\ s' = s + width /\ p' \in 0 .. MemSize /\ s' \in Nat
         /\ s' - arg'.src = p' - arg'.dest
         /\ mem' \in [Addresses -> Byte]
<1> USE StringsAssumption
<1>1. /\ arg.dest \in Nat /\ arg.src \in Nat /\ arg.count \in Nat /\ p \in Nat /\ s \in Nat
      /\ p' = p + width /\ s' = s + width
  BY DEF TypeOK, Movs
<1>2. \A a \in p .. p + width - 1 : a - p + s \in Addresses /\ a - p + s >= p
  BY SMTT(30), <1>1 DEF Fits, Addresses
<1>3. \A a \in p .. p + width - 1 : mem[a - p + s] = old[a - arg.dest + arg.src]
  <2>1. arg.dest + 0 = arg.dest /\ arg.dest + (p - arg.dest) - 1 = p - 1
    BY <1>1
  <2>2. mem = [a \in Addresses |-> IF a \in arg.dest .. p - 1
                                   THEN old[a - arg.dest + arg.src] ELSE old[a]]
    BY <2>1, Zenon DEF Copied
  <2>3. \A b \in Addresses : b >= p => mem[b] = old[b]
    BY <1>1, <2>2 DEF Addresses
  <2>4. \A a \in p .. p + width - 1 : a - p + s = a - arg.dest + arg.src
    BY <1>1
  <2> QED
    BY <1>2, <2>3, <2>4
<1>4. mem' = [a \in Addresses |-> IF a \in p .. p + width - 1 THEN mem[a - p + s] ELSE mem[a]]
  BY DEF Movs, Moved
<1>5. mem' \in [Addresses -> Byte]
  BY <1>2, <1>4 DEF TypeOK
<1>6. Copied(0, p - arg.dest)'
  <2>1. /\ arg'.dest + 0 = arg.dest /\ arg'.dest + (p' - arg'.dest) - 1 = p + width - 1
        /\ arg.dest + 0 = arg.dest /\ arg.dest + (p - arg.dest) - 1 = p - 1
    BY <1>1
  <2>2. \A a \in Addresses : mem[a] = IF a \in arg.dest .. p - 1
                                     THEN old[a - arg.dest + arg.src] ELSE old[a]
    BY <2>1, Zenon DEF Copied
  <2>3. \A a \in Addresses :
          (IF a \in p .. p + width - 1 THEN mem[a - p + s] ELSE mem[a])
          = IF a \in arg.dest .. p + width - 1 THEN old[a - arg.dest + arg.src] ELSE old[a]
    BY SMTT(30), <1>1, <1>3, <2>2 DEF Addresses
  <2>4. mem' = [a \in Addresses |-> IF a \in arg.dest .. p + width - 1
                                    THEN old[a - arg.dest + arg.src] ELSE old[a]]
    BY <1>4, <2>3, Zenon
  <2>5. arg' = arg /\ old' = old
    OBVIOUS
  <2> QED
    BY <2>1, <2>4, <2>5, Zenon DEF Copied
<1> QED
  BY <1>1, <1>5, <1>6 DEF Fits

------------------------------------------------------------------------------
LEMMA SignedChars ==
  ASSUME NEW v \in Int
  PROVE  /\ SignedChar(v) \in Byte
         /\ (v - SignedChar(v)) % 256 = 0
         /\ v \in -255 .. 255 => (SignedChar(v) = 0 <=> v = 0)
  BY DEF SignedChar, Byte

LEMMA Differences ==
  ASSUME NEW a \in Byte, NEW b \in Byte
  PROVE  SignedChar(a - b) \in Byte /\ (SignedChar(a - b) = 0 <=> a = b)
<1>1. a - b \in Int /\ a - b \in -255 .. 255 /\ (a - b = 0 <=> a = b)
  BY DEF Byte
<1> QED
  BY <1>1, SignedChars

LEMMA MovslPreserves == IInv /\ Movsl => IInv'
<1> USE StringsAssumption
<1> SUFFICES ASSUME IInv, Movsl PROVE IInv'
  OBVIOUS
<1>1. /\ TypeOK /\ arg.op = "memmove" /\ Fits /\ arg.dest < arg.src /\ p >= arg.dest
      /\ s - arg.src = p - arg.dest /\ Copied(0, p - arg.dest)
      /\ left <= arg.count \div 4 /\ p - arg.dest = 4 * (arg.count \div 4 - left)
      /\ arg.dest \in Nat /\ arg.src \in Nat /\ arg.count \in Nat /\ left \in Nat
      /\ p \in Nat /\ s \in Nat
  BY DEF IInv, MoveInv, ForwardInv, Movsl, TypeOK
<1>2. /\ arg.count \div 4 \in Nat /\ 4 * (arg.count \div 4) <= arg.count
  BY <1>1, Remainders
<1>3. arg' = arg /\ old' = old /\ res' = res
  BY DEF Movsl
<1>4. CASE left > 0
  <2>1. Movs(4) /\ left' = left - 1 /\ pc' = "movsl"
    BY <1>4 DEF Movsl
  <2>2. p - arg.dest + 4 <= arg.count
    BY <1>1, <1>2, <1>4
  <2>3. /\ Copied(0, p - arg.dest)'
        /\ p' = p + 4 /\ s' = s + 4 /\ p' \in 0 .. MemSize /\ s' \in Nat
        /\ s' - arg'.src = p' - arg'.dest
        /\ mem' \in [Addresses -> Byte]
    BY <1>1, <1>3, <2>1, <2>2, MoveForward
  <2>4. ForwardInv'
    BY <1>1, <1>2, <1>3, <1>4, <2>1, <2>3 DEF ForwardInv, Fits
  <2> QED
    BY <1>1, <1>3, <1>4, <2>1, <2>3, <2>4
    DEF IInv, MoveInv, TypeOK, ReadyInv, BackwardInv, ReturnInv, FillInv, CopyInv, CompareInv,
        Results, ZeroMeansEqual, FillsAndCopiesExactly
<1>5. CASE ~ (left > 0)
  <2>1. pc' = "movsw" /\ UNCHANGED <<mem, p, s, left>> /\ left = 0
    BY <1>1, <1>5 DEF Movsl
  <2>2. ForwardInv'
    BY <1>1, <1>2, <1>3, <2>1 DEF ForwardInv, Fits, Copied
  <2> QED
    BY <1>1, <1>3, <2>1, <2>2
    DEF IInv, MoveInv, TypeOK, ReadyInv, BackwardInv, ReturnInv, FillInv, CopyInv, CompareInv,
        Results, ZeroMeansEqual, FillsAndCopiesExactly
<1> QED
  BY <1>4, <1>5

LEMMA MovswPreserves == IInv /\ Movsw => IInv'
<1> USE StringsAssumption
<1> SUFFICES ASSUME IInv, Movsw PROVE IInv'
  OBVIOUS
<1> DEFINE half == arg.count \div 2
           quarter == arg.count \div 4
           word == half % 2
<1>1. /\ TypeOK /\ arg.op = "memmove" /\ Fits /\ arg.dest < arg.src /\ p >= arg.dest
      /\ s - arg.src = p - arg.dest /\ Copied(0, p - arg.dest)
      /\ p - arg.dest = 4 * quarter
      /\ arg.dest \in Nat /\ arg.src \in Nat /\ arg.count \in Nat
      /\ p \in Nat /\ s \in Nat
  BY DEF IInv, MoveInv, ForwardInv, Movsw, TypeOK
<1>2. /\ half \in Nat /\ quarter \in Nat /\ word \in {0, 1} /\ 2 * half <= arg.count
      /\ word = 1 => 2 * half = 4 * quarter + 2
      /\ word = 0 => 2 * half = 4 * quarter
  BY <1>1, Remainders
<1>3. arg' = arg /\ old' = old /\ res' = res /\ left' = left /\ pc' = "movsb"
  BY DEF Movsw
<1>10. word = 1 => Movs(2)
  BY DEF Movsw
<1>11. word = 0 => UNCHANGED <<mem, p, s>>
  BY DEF Movsw
<1> HIDE DEF half, quarter, word
<1>4. /\ Copied(0, p - arg.dest)'
      /\ p' >= arg.dest /\ p' \in 0 .. MemSize /\ s' \in Nat
      /\ s' - arg'.src = p' - arg'.dest
      /\ p' - arg.dest = 2 * half
      /\ mem' \in [Addresses -> Byte]
  <2>1. CASE word = 1
    <3>1. Movs(2)
      BY <1>10, <2>1
    <3>2. p - arg.dest + 2 <= arg.count
      BY <1>1, <1>2, <2>1
    <3>3. /\ Copied(0, p - arg.dest)'
          /\ p' = p + 2 /\ s' = s + 2 /\ p' \in 0 .. MemSize /\ s' \in Nat
          /\ s' - arg'.src = p' - arg'.dest
          /\ mem' \in [Addresses -> Byte]
      BY <1>1, <1>3, <3>1, <3>2, MoveForward
    <3> QED
      BY <1>1, <1>2, <2>1, <3>3
  <2>2. CASE word = 0
    <3>1. UNCHANGED <<mem, p, s>>
      BY <1>11, <2>2
    <3>2. Copied(0, p - arg.dest)'
      BY <1>1, <1>3, <3>1, Zenon DEF Copied
    <3> QED
      BY <1>1, <1>2, <1>3, <2>2, <3>1, <3>2 DEF TypeOK
  <2> QED
    BY <1>2, <2>1, <2>2
<1>5. p' - arg'.dest = 2 * (arg'.count \div 2)
  BY <1>3, <1>4, Zenon DEF half
<1> QED
  BY <1>1, <1>3, <1>4, <1>5
  DEF IInv, MoveInv, TypeOK, ReadyInv, ForwardInv, Fits, BackwardInv, ReturnInv, FillInv, CopyInv,
      CompareInv, Results, ZeroMeansEqual, FillsAndCopiesExactly

LEMMA MovsbPreserves == IInv /\ Movsb => IInv'
<1> USE StringsAssumption
<1> SUFFICES ASSUME IInv, Movsb PROVE IInv'
  OBVIOUS
<1> DEFINE half == arg.count \div 2
           byte == arg.count % 2
<1>1. /\ TypeOK /\ arg.op = "memmove" /\ Fits /\ arg.dest < arg.src /\ p >= arg.dest
      /\ s - arg.src = p - arg.dest /\ Copied(0, p - arg.dest)
      /\ p - arg.dest = 2 * half
      /\ arg.dest \in Nat /\ arg.src \in Nat /\ arg.count \in Nat
      /\ p \in Nat /\ s \in Nat
  BY DEF IInv, MoveInv, ForwardInv, Movsb, TypeOK
<1>2. /\ half \in Nat /\ byte \in {0, 1}
      /\ byte = 1 => arg.count = 2 * half + 1
      /\ byte = 0 => arg.count = 2 * half
  BY <1>1, Remainders
<1>3. arg' = arg /\ old' = old /\ res' = res /\ left' = left /\ pc' = "return"
  BY DEF Movsb
<1>10. byte = 1 => Movs(1)
  BY DEF Movsb
<1>11. byte = 0 => UNCHANGED <<mem, p, s>>
  BY DEF Movsb
<1> HIDE DEF half, byte
<1>4. /\ Copied(0, p - arg.dest)'
      /\ p' \in 0 .. MemSize /\ s' \in Nat
      /\ p' - arg'.dest = arg'.count
      /\ mem' \in [Addresses -> Byte]
  <2>1. CASE byte = 1
    <3>1. Movs(1)
      BY <1>10, <2>1
    <3>2. p - arg.dest + 1 <= arg.count
      BY <1>1, <1>2, <2>1
    <3>3. /\ Copied(0, p - arg.dest)'
          /\ p' = p + 1 /\ s' = s + 1 /\ p' \in 0 .. MemSize /\ s' \in Nat
          /\ mem' \in [Addresses -> Byte]
      BY <1>1, <1>3, <3>1, <3>2, MoveForward
    <3>4. p' - arg.dest = arg.count
      BY <1>1, <1>2, <2>1, <3>3
    <3> QED
      BY <1>3, <3>3, <3>4
  <2>2. CASE byte = 0
    <3>1. UNCHANGED <<mem, p, s>>
      BY <1>11, <2>2
    <3>2. Copied(0, p - arg.dest)'
      BY <1>1, <1>3, <3>1, Zenon DEF Copied
    <3>3. p - arg.dest = arg.count
      BY <1>1, <1>2, <2>2
    <3> QED
      BY <1>1, <1>3, <3>1, <3>2, <3>3 DEF TypeOK
  <2> QED
    BY <1>2, <2>1, <2>2
<1>5. Copied(0, arg.count)'
  BY <1>4, Zenon
<1> QED
  BY <1>1, <1>3, <1>4, <1>5
  DEF IInv, MoveInv, TypeOK, ReadyInv, ForwardInv, BackwardInv, ReturnInv, FillInv, CopyInv,
      CompareInv, Results, ZeroMeansEqual, FillsAndCopiesExactly

(* Downwards, what is read lies below all that was written. *)
LEMMA MoveBackwardPreserves == IInv /\ MoveBackward => IInv'
<1> USE StringsAssumption
<1> SUFFICES ASSUME IInv, MoveBackward PROVE IInv'
  OBVIOUS
<1>1. /\ TypeOK /\ arg.op = "memmove" /\ Fits /\ arg.src <= arg.dest
      /\ left <= arg.count /\ p = arg.dest + left /\ s = arg.src + left
      /\ Copied(left, arg.count)
      /\ arg.dest \in Nat /\ arg.src \in Nat /\ arg.count \in Nat /\ left \in Nat
  BY DEF IInv, MoveInv, BackwardInv, MoveBackward, TypeOK
<1>2. arg' = arg /\ old' = old /\ res' = res
  BY DEF MoveBackward
<1>3. CASE left > 0
  <2>1. /\ mem' = [mem EXCEPT ![p - 1] = mem[s - 1]]
        /\ p' = p - 1 /\ s' = s - 1 /\ left' = left - 1 /\ pc' = "backward"
    BY <1>3 DEF MoveBackward
  <2>9. /\ p \in Nat /\ s \in Nat /\ MemSize \in Nat
        /\ arg.dest + arg.count <= MemSize /\ arg.src + arg.count <= MemSize
    BY <1>1 DEF Fits
  <2>10. p - 1 = arg.dest + (left - 1) /\ s - 1 = p - 1 - arg.dest + arg.src
    BY <1>1, <2>9
  <2>11. p - 1 \in Addresses
    BY <1>1, <1>3, <2>9 DEF Addresses
  <2>12. s - 1 \in Addresses
    BY SMTT(30), <1>1, <1>3, <2>9 DEF Addresses
  <2>2. /\ p - 1 \in Addresses /\ s - 1 \in Addresses /\ p - 1 < arg.dest + left
        /\ p - 1 = arg.dest + (left - 1) /\ s - 1 = p - 1 - arg.dest + arg.src
        /\ s - 1 < arg.dest + left
    BY <1>1, <2>9, <2>10, <2>11, <2>12
  <2>6. \A a \in Addresses :
          mem[a] = IF a \in arg.dest + left .. arg.dest + arg.count - 1
                   THEN old[a - arg.dest + arg.src] ELSE old[a]
    BY <1>1, Zenon DEF Copied
  <2>13. \A a \in Addresses : a < arg.dest + left => mem[a] = old[a]
    BY <1>1, <2>6 DEF Addresses
  <2>7. mem[s - 1] = old[s - 1]
    BY <2>2, <2>13
  <2>3. mem' \in [Addresses -> Byte]
    BY <2>1, <2>2 DEF IInv, MoveInv, TypeOK
  <2>8. mem'[p - 1] = old[p - 1 - arg.dest + arg.src]
        /\ \A a \in Addresses : a # p - 1 => mem'[a] = mem[a]
    BY <2>1, <2>2, <2>7 DEF IInv, MoveInv, TypeOK
  <2>4. \A a \in Addresses :
          mem'[a] = IF a \in arg.dest + (left - 1) .. arg.dest + arg.count - 1
                    THEN old[a - arg.dest + arg.src] ELSE old[a]
    <3> SUFFICES ASSUME NEW a \in Addresses
                 PROVE  mem'[a] = IF a \in arg.dest + (left - 1) .. arg.dest + arg.count - 1
                                  THEN old[a - arg.dest + arg.src] ELSE old[a]
      OBVIOUS
    <3>1. a \in Int
      BY <2>9 DEF Addresses
    <3>2. CASE a = p - 1
      BY <1>1, <1>3, <2>2, <2>8, <3>2
    <3>3. CASE a # p - 1
      <4>1. mem'[a] = mem[a]
        BY <2>8, <3>3
      <4>2. a \in arg.dest + (left - 1) .. arg.dest + arg.count - 1
              <=> a \in arg.dest + left .. arg.dest + arg.count - 1
        BY <1>1, <1>3, <2>2, <3>1, <3>3
      <4> QED
        BY <2>6, <4>1, <4>2
    <3> QED
      BY <3>2, <3>3
  <2>5. Copied(left, arg.count)'
    BY <1>2, <2>1, <2>3, <2>4 DEF Copied
  <2> QED
    BY <1>1, <1>2, <1>3, <2>1, <2>2, <2>3, <2>5
    DEF IInv, MoveInv, TypeOK, ReadyInv, ForwardInv, BackwardInv, Fits, ReturnInv, FillInv, CopyInv,
        CompareInv, Results, ZeroMeansEqual, FillsAndCopiesExactly
<1>4. CASE ~ (left > 0)
  <2>1. pc' = "return" /\ UNCHANGED <<mem, p, s, left>> /\ left = 0
    BY <1>1, <1>4 DEF MoveBackward
  <2>2. Copied(0, arg.count)'
    BY <1>1, <1>2, <2>1 DEF Copied
  <2> QED
    BY <1>1, <1>2, <2>1, <2>2
    DEF IInv, MoveInv, TypeOK, ReadyInv, ForwardInv, BackwardInv, ReturnInv, FillInv, CopyInv,
        CompareInv, Results, ZeroMeansEqual, FillsAndCopiesExactly
<1> QED
  BY <1>3, <1>4

------------------------------------------------------------------------------
LEMMA InvInit == Init => IInv
  BY MoveInit, StringsAssumption
  DEF Init, IInv, FillInv, CopyInv, CompareInv, Results, ZeroMeansEqual, FillsAndCopiesExactly

LEMMA InvCall == IInv /\ Call => IInv'
<1> USE StringsAssumption
<1> SUFFICES ASSUME IInv, Call PROVE IInv'
  OBVIOUS
<1>1. MoveInv'
  BY MoveCall DEF IInv
<1>2. /\ mem' = mem /\ old' = old /\ res' = res /\ mem = old /\ res = 0
      /\ mem \in [Addresses -> Byte]
      /\ pc' \in {"movsl", "backward", "memset", "strcpy", "strcmp"}
  BY DEF Call, memmove, memset, strcpy, strcmp, strncmp, Start, IInv, MoveInv, ReadyInv, TypeOK
<1>3. FillInv'
  <2> SUFFICES ASSUME pc' = "memset" PROVE FillInv'
    BY DEF FillInv
  <2>1. memset
    BY DEF Call, memmove, strcpy, strcmp, strncmp, Start
  <2>2. PICK dest \in Addresses, c \in {0, 127, 255}, count \in 0 .. MemSize :
          dest + count <= MemSize /\ Start("memset", dest, c, count, "memset", 0, count)
    BY <2>1 DEF memset
  <2>3. /\ arg' = [op |-> "memset", dest |-> dest, src |-> c, count |-> count]
        /\ p' = dest /\ left' = count /\ dest \in Nat /\ count \in Nat
    BY <2>2 DEF Start, Addresses
  <2>4. mem' = [a \in Addresses |-> IF a \in dest .. dest - 1 THEN SignedChar(c) ELSE old[a]]
    BY <1>2, <2>3
  <2> QED
    BY <1>2, <2>2, <2>3, <2>4 DEF FillInv
<1>4. CopyInv'
  <2> SUFFICES ASSUME pc' = "strcpy" PROVE CopyInv'
    BY DEF CopyInv
  <2>1. strcpy
    BY DEF Call, memmove, memset, strcmp, strncmp, Start
  <2>2. PICK dest \in Addresses, src \in Addresses, e \in Addresses :
          /\ e >= src /\ IsEnd(mem, src, e)
          /\ dest > e \/ dest + e - src < src
          /\ dest + e - src < MemSize
          /\ Start("strcpy", dest, src, 0, "strcpy", 0, 0)
    BY <2>1 DEF strcpy
  <2>3. /\ arg' = [op |-> "strcpy", dest |-> dest, src |-> src, count |-> 0]
        /\ p' = dest /\ s' = src /\ dest \in Nat /\ src \in Nat
    BY <2>2 DEF Start, Addresses
  <2>4. mem' = [a \in Addresses |-> IF a \in dest .. dest - 1 THEN old[a - dest + src] ELSE old[a]]
    BY <1>2, <2>3
  <2> QED
    BY <1>2, <2>2, <2>3, <2>4 DEF CopyInv
<1>5. CompareInv'
  <2> SUFFICES ASSUME pc' = "strcmp" PROVE CompareInv'
    BY DEF CompareInv
  <2>1. strcmp \/ strncmp
    BY DEF Call, memmove, memset, strcpy, Start
  <2>2. PICK op \in {"strcmp", "strncmp"}, cs \in Addresses, ct \in Addresses, count \in Nat :
          HasEnd(mem, cs) /\ HasEnd(mem, ct) /\ Start(op, cs, ct, count, "strcmp", 0, count)
    BY <2>1 DEF strcmp, strncmp, StringsIn
  <2>3. /\ arg' = [op |-> op, dest |-> cs, src |-> ct, count |-> count]
        /\ p' = cs /\ s' = ct /\ left' = count /\ cs \in Nat /\ ct \in Nat
    BY <2>2 DEF Start, Addresses
  <2> QED
    BY <1>2, <2>2, <2>3 DEF CompareInv, HasEnd
<1> QED
  BY <1>1, <1>2, <1>3, <1>4, <1>5 DEF IInv, Results, ZeroMeansEqual, FillsAndCopiesExactly

LEMMA MemsetPreserves == IInv /\ MemsetByte => IInv'
<1> USE StringsAssumption
<1> SUFFICES ASSUME IInv, MemsetByte PROVE IInv'
  OBVIOUS
<1>1. /\ arg.op = "memset" /\ arg.dest + arg.count <= MemSize /\ left <= arg.count
      /\ p = arg.dest + (arg.count - left)
      /\ mem = [a \in Addresses |-> IF a \in arg.dest .. p - 1 THEN SignedChar(arg.src) ELSE old[a]]
      /\ arg.dest \in Nat /\ arg.src \in Nat /\ arg.count \in Nat /\ left \in Nat
      /\ mem \in [Addresses -> Byte] /\ p \in Nat
  BY DEF IInv, MoveInv, FillInv, MemsetByte, TypeOK
<1>2. arg' = arg /\ old' = old /\ res' = res /\ s' = s
  BY DEF MemsetByte
<1>3. CASE left > 0
  <2>1. /\ mem' = [mem EXCEPT ![p] = SignedChar(arg.src)]
        /\ p' = p + 1 /\ left' = left - 1 /\ pc' = "memset"
    BY <1>3 DEF MemsetByte
  <2>2. p \in Addresses /\ p >= arg.dest /\ SignedChar(arg.src) \in Byte
    BY SMTT(30), <1>1, <1>3, SignedChars DEF Addresses
  <2>3. mem' \in [Addresses -> Byte]
    BY <1>1, <2>1, <2>2
  <2>6. \A a \in Addresses :
          mem'[a] = IF a \in arg.dest .. p THEN SignedChar(arg.src) ELSE old[a]
    <3>1. mem'[p] = SignedChar(arg.src) /\ \A a \in Addresses : a # p => mem'[a] = mem[a]
      BY <1>1, <2>1, <2>2
    <3>2. \A a \in Addresses :
            mem[a] = IF a \in arg.dest .. p - 1 THEN SignedChar(arg.src) ELSE old[a]
      BY <1>1, Zenon
    <3>3. TAKE a \in Addresses
    <3>4. CASE a = p
      BY <1>1, <2>2, <3>1, <3>4
    <3>5. CASE a # p
      <4>1. a \in arg.dest .. p <=> a \in arg.dest .. p - 1
        BY <1>1, <3>5 DEF Addresses
      <4> QED
        BY <3>1, <3>2, <3>5, <4>1, Zenon
    <3> QED
      BY <3>4, <3>5
  <2>4. mem' = [a \in Addresses |-> IF a \in arg'.dest .. p' - 1 THEN SignedChar(arg'.src)
                                    ELSE old'[a]]
    <3>1. p' - 1 = p
      BY <1>1, <2>1
    <3>2. mem' = [a \in Addresses |-> IF a \in arg.dest .. p THEN SignedChar(arg.src) ELSE old[a]]
      BY <2>3, <2>6
    <3> QED
      BY <1>2, <3>1, <3>2, Zenon
  <2>7. p' = arg.dest + (arg.count - left') /\ left' <= arg.count
    BY <1>1, <1>3, <2>1
  <2>5. FillInv'
    BY <1>1, <1>2, <2>4, <2>7, Zenon DEF FillInv
  <2> QED
    BY <1>1, <1>2, <1>3, <2>1, <2>2, <2>3, <2>5
    DEF IInv, MoveInv, TypeOK, ReadyInv, ForwardInv, BackwardInv, ReturnInv, CopyInv,
        CompareInv, Results, ZeroMeansEqual, FillsAndCopiesExactly
<1>4. CASE ~ (left > 0)
  <2>1. pc' = "return" /\ UNCHANGED <<mem, p, left>> /\ p - 1 = arg.dest + arg.count - 1
    BY <1>1, <1>4 DEF MemsetByte
  <2>2. SignedChar(arg.src) \in Byte /\ (arg.src - SignedChar(arg.src)) % 256 = 0
    BY <1>1, SignedChars
  <2>3. FillsAndCopiesExactly'
    <3>1. mem' = [a \in Addresses |-> IF a \in arg'.dest .. arg'.dest + arg'.count - 1
                                      THEN SignedChar(arg.src) ELSE old'[a]]
      BY <1>1, <1>2, <2>1, Zenon
    <3> QED
      BY <1>1, <1>2, <2>2, <3>1 DEF FillsAndCopiesExactly
  <2> QED
    BY <1>1, <1>2, <2>1, <2>3
    DEF IInv, MoveInv, TypeOK, ReadyInv, ForwardInv, BackwardInv, ReturnInv, FillInv, CopyInv,
        CompareInv, Results, ZeroMeansEqual
<1> QED
  BY <1>3, <1>4

LEMMA StrcpyPreserves == IInv /\ StrcpyByte => IInv'
<1> USE StringsAssumption
<1> SUFFICES ASSUME IInv, StrcpyByte PROVE IInv'
  OBVIOUS
<1>1. /\ arg.op = "strcpy" /\ arg.src <= s /\ p - arg.dest = s - arg.src
      /\ mem = [a \in Addresses |-> IF a \in arg.dest .. p - 1 THEN old[a - arg.dest + arg.src]
                                    ELSE old[a]]
      /\ arg.dest \in Nat /\ arg.src \in Nat /\ p \in Nat /\ s \in Nat
      /\ mem \in [Addresses -> Byte] /\ old \in [Addresses -> Byte]
  BY DEF IInv, MoveInv, CopyInv, StrcpyByte, TypeOK
<1>2. PICK e \in Addresses :
        /\ s <= e /\ IsEnd(old, arg.src, e)
        /\ arg.dest > e \/ arg.dest + e - arg.src < arg.src
        /\ arg.dest + e - arg.src < MemSize
  BY DEF IInv, CopyInv, StrcpyByte
<1>3. /\ arg' = arg /\ old' = old /\ res' = res /\ left' = left
      /\ mem' = [mem EXCEPT ![p] = mem[s]] /\ p' = p + 1 /\ s' = s + 1
      /\ pc' = IF mem[s] = 0 THEN "return" ELSE "strcpy"
  BY DEF StrcpyByte, CopiedByte
<1>4. e \in Nat /\ e < MemSize /\ p \in Addresses /\ s \in Addresses /\ p >= arg.dest
  BY SMTT(30), <1>1, <1>2 DEF Addresses
<1>5. mem[s] = old[s] /\ s = p - arg.dest + arg.src
  BY <1>1, <1>2, <1>4 DEF Addresses
<1>6. mem' \in [Addresses -> Byte]
  BY <1>1, <1>3, <1>4
<1>7. mem' = [a \in Addresses |-> IF a \in arg.dest .. p' - 1 THEN old[a - arg.dest + arg.src]
                                  ELSE old[a]]
  <2>1. mem'[p] = old[p - arg.dest + arg.src] /\ \A a \in Addresses : a # p => mem'[a] = mem[a]
    BY <1>1, <1>3, <1>4, <1>5
  <2>2. \A a \in Addresses :
          mem[a] = IF a \in arg.dest .. p - 1 THEN old[a - arg.dest + arg.src] ELSE old[a]
    BY <1>1, Zenon
  <2>3. \A a \in Addresses :
          mem'[a] = IF a \in arg.dest .. p THEN old[a - arg.dest + arg.src] ELSE old[a]
    BY <1>1, <1>4, <2>1, <2>2 DEF Addresses
  <2>4. p' - 1 = p
    BY <1>1, <1>3
  <2> QED
    BY <1>6, <2>3, <2>4
<1>8. s = e \/ old[s] # 0
  BY <1>1, <1>2, <1>4 DEF IsEnd
<1>9. CASE mem[s] = 0
  <2>1. s = e /\ pc' = "return"
    BY <1>3, <1>5, <1>8, <1>9
  <2>2. e \in arg.src .. MemSize - 1 /\ p' - 1 = arg.dest + e - arg.src
    BY <1>1, <1>3, <1>4, <2>1
  <2>3. FillsAndCopiesExactly'
    <3>1. mem' = [a \in Addresses |-> IF a \in arg'.dest .. arg'.dest + e - arg'.src
                                      THEN old'[a - arg'.dest + arg'.src] ELSE old'[a]]
      BY <1>3, <1>7, <2>2, Zenon
    <3>2. IsEnd(old', arg'.src, e)
      BY <1>2, <1>3, Zenon
    <3> QED
      BY <1>1, <1>3, <2>2, <3>1, <3>2 DEF FillsAndCopiesExactly
  <2>5. TypeOK'
    <3>1. p' \in 0 .. MemSize /\ s' \in Nat
      BY <1>1, <1>3, <1>4 DEF Addresses
    <3> QED
      BY <1>1, <1>3, <1>6, <2>1, <3>1 DEF IInv, MoveInv, TypeOK
  <2>4. MoveInv'
    BY <1>1, <1>3, <2>1, <2>5 DEF MoveInv, ReadyInv, ForwardInv, BackwardInv, ReturnInv
  <2> QED
    BY <1>1, <1>3, <2>1, <2>3, <2>4 DEF IInv, FillInv, CopyInv, CompareInv, Results, ZeroMeansEqual
<1>10. CASE mem[s] # 0
  <2>1. pc' = "strcpy" /\ s + 1 <= e
    <3>1. s # e
      BY <1>2, <1>5, <1>10 DEF IsEnd
    <3> QED
      BY <1>1, <1>2, <1>3, <1>4, <1>10, <3>1
  <2>2. CopyInv'
    <3>1. \E f \in Addresses :
           /\ s' <= f /\ IsEnd(old', arg'.src, f)
           /\ arg'.dest > f \/ arg'.dest + f - arg'.src < arg'.src
           /\ arg'.dest + f - arg'.src < MemSize
      BY <1>2, <1>3, <2>1
    <3> QED
      BY <1>1, <1>3, <1>7, <3>1 DEF CopyInv
  <2>3. TypeOK'
    <3>1. p' \in 0 .. MemSize /\ s' \in Nat
      BY <1>1, <1>3, <1>4 DEF Addresses
    <3> QED
      BY <1>1, <1>3, <1>6, <2>1, <3>1 DEF IInv, MoveInv, TypeOK
  <2>4. MoveInv'
    BY <2>1, <2>3 DEF MoveInv, ReadyInv, ForwardInv, BackwardInv, ReturnInv
  <2> QED
    BY <2>1, <2>2, <2>4
    DEF IInv, FillInv, CompareInv, Results, ZeroMeansEqual, FillsAndCopiesExactly
<1> QED
  BY <1>9, <1>10

LEMMA ComparePreserves == IInv /\ CompareByte => IInv'
<1> USE StringsAssumption
<1> SUFFICES ASSUME IInv, CompareByte PROVE IInv'
  OBVIOUS
<1> DEFINE k == arg.count - left
<1>1. /\ arg.op \in {"strcmp", "strncmp"} /\ mem = old /\ res = 0
      /\ left <= arg.count /\ p = arg.dest + k /\ s = arg.src + k
      /\ HasEnd(mem, p) /\ HasEnd(mem, s)
      /\ \A i \in 0 .. k - 1 : mem[arg.dest + i] = mem[arg.src + i] /\ mem[arg.dest + i] # 0
      /\ arg.dest \in Nat /\ arg.src \in Nat /\ arg.count \in Nat /\ left \in Nat
      /\ mem \in [Addresses -> Byte] /\ p \in Nat /\ s \in Nat
  BY DEF IInv, MoveInv, CompareInv, CompareByte, TypeOK
<1>2. k \in Nat /\ p \in Addresses /\ s \in Addresses /\ mem[p] \in Byte /\ mem[s] \in Byte
  BY <1>1 DEF HasEnd, Addresses
<1>3. arg' = arg /\ old' = old /\ mem' = mem
  BY DEF CompareByte
<1>4. ASSUME pc' = "return", res' \in Byte, p' \in 0 .. MemSize, s' \in Nat, left' \in Nat,
             res' = 0 <=> AgreeFor(old, arg.dest, arg.src, arg.count)
      PROVE  IInv'
  <2>1. MoveInv'
    BY <1>1, <1>3, <1>4
    DEF IInv, MoveInv, TypeOK, ReadyInv, ForwardInv, BackwardInv, ReturnInv
  <2> QED
    BY <1>1, <1>3, <1>4, <2>1
    DEF IInv, FillInv, CopyInv, CompareInv, Results, ZeroMeansEqual, FillsAndCopiesExactly
<1>5. CASE left = 0
  <2>1. AgreeFor(old, arg.dest, arg.src, arg.count)
    BY <1>1, <1>5 DEF AgreeFor
  <2> QED
    BY <1>1, <1>2, <1>4, <1>5, <2>1 DEF CompareByte, Addresses, Byte
<1>6. CASE left # 0
  <2>1. /\ res' = SignedChar(mem[p] - mem[s]) /\ s' = s + 1
        /\ IF Differ(res') THEN pc' = "return" /\ UNCHANGED <<p, left>>
           ELSE /\ p' = p + 1
                /\ IF mem[p] = 0 THEN pc' = "return" /\ UNCHANGED left
                   ELSE pc' = "strcmp" /\ left' = left - 1
    BY <1>6 DEF CompareByte
  <2>3. res' \in Byte /\ (res' = 0 <=> mem[p] = mem[s])
    BY <1>2, <2>1, Differences, Zenon
  <2>4. s' \in Nat /\ p + 1 \in 0 .. MemSize /\ p \in 0 .. MemSize
    <3>1. p < MemSize
      BY <1>2 DEF Addresses
    <3> QED
      BY <1>1, <2>1, <3>1
  <2>5. CASE Differ(res')
    <3>1. mem[p] # mem[s]
      BY <2>3, <2>5 DEF Differ
    <3>2. k \in 0 .. arg.count - 1 /\ arg.dest + k < MemSize /\ arg.src + k < MemSize
      BY <1>1, <1>2, <1>6 DEF Addresses
    <3>3. \A l \in 0 .. k - 1 : old[arg.dest + l] # 0
      BY <1>1
    <3>4. ~ AgreeFor(old, arg.dest, arg.src, arg.count)
      BY <1>1, <3>1, <3>2, <3>3 DEF AgreeFor
    <3> QED
      BY <1>1, <1>4, <2>1, <2>3, <2>4, <2>5, <3>1, <3>4
  <2>6. CASE ~ Differ(res') /\ mem[p] = 0
    <3>1. mem[p] = mem[s] /\ res' = 0
      BY <2>3, <2>6 DEF Differ
    <3>2. ASSUME NEW n \in 0 .. arg.count - 1,
                 \A l \in 0 .. n - 1 : old[arg.dest + l] # 0
          PROVE  old[arg.dest + n] = old[arg.src + n]
      <4>1. n <= k
        BY <1>1, <1>2, <2>6, <3>2
      <4> QED
        BY <1>1, <1>2, <3>1, <4>1
    <3>3. AgreeFor(old, arg.dest, arg.src, arg.count)
      BY <3>2 DEF AgreeFor
    <3> QED
      BY <1>1, <1>4, <2>1, <2>3, <2>4, <2>6, <3>1, <3>3
  <2>7. CASE ~ Differ(res') /\ mem[p] # 0
    <3>1. mem[p] = mem[s] /\ res' = 0 /\ pc' = "strcmp" /\ p' = p + 1 /\ left' = left - 1
      BY <2>1, <2>3, <2>7 DEF Differ
    <3>2. /\ left' \in Nat /\ left' <= arg.count
          /\ p' = arg.dest + (arg.count - left') /\ s' = arg.src + (arg.count - left')
      BY <1>1, <1>6, <2>1, <3>1
    <3>3. HasEnd(mem, p + 1) /\ HasEnd(mem, s + 1)
      BY SMTT(30), <1>1, <1>2, <2>7, <3>1 DEF HasEnd, Addresses
    <3>4. ASSUME NEW i \in 0 .. arg.count - left' - 1
          PROVE  mem[arg.dest + i] = mem[arg.src + i] /\ mem[arg.dest + i] # 0
      <4>1. i = k \/ i \in 0 .. k - 1
        BY <1>1, <1>2, <3>1
      <4> QED
        BY <1>1, <2>7, <3>1, <4>1
    <3>5. CompareInv'
      BY <1>1, <1>3, <2>1, <3>1, <3>2, <3>3, <3>4 DEF CompareInv
    <3>6. MoveInv'
      BY <1>1, <1>3, <2>3, <2>4, <3>1, <3>2
      DEF IInv, MoveInv, TypeOK, ReadyInv, ForwardInv, BackwardInv, ReturnInv
    <3> QED
      BY <3>1, <3>5, <3>6
      DEF IInv, FillInv, CopyInv, Results, ZeroMeansEqual, FillsAndCopiesExactly
  <2> QED
    BY <2>5, <2>6, <2>7
<1> QED
  BY <1>5, <1>6

LEMMA InvStutter == IInv /\ UNCHANGED vars => IInv'
  BY DEF vars, IInv, MoveInv, TypeOK, ReadyInv, ForwardInv, BackwardInv, ReturnInv, Fits, Copied,
     FillInv, CopyInv, CompareInv, Results, ZeroMeansEqual, FillsAndCopiesExactly

LEMMA StringsInvariant == Spec => []IInv
<1>1. IInv /\ [Next]_vars => IInv'
  BY InvCall, MovslPreserves, MovswPreserves, MovsbPreserves, MoveBackwardPreserves,
     MemsetPreserves, StrcpyPreserves, ComparePreserves, InvStutter DEF Next, Step
<1> QED
  BY <1>1, InvInit, PTL DEF Spec

(* The pointers of every call stay within its regions (string.c:3-83). *)
THEOREM StringsTypeOK == Spec => []TypeOK
<1>1. IInv => TypeOK
  BY DEF IInv, MoveInv
<1> QED
  BY <1>1, StringsInvariant, PTL

(* memmove moves the old contents for every overlap and every length, although
   it moves forwards by double words and backwards by bytes (string.c:41-73). *)
THEOREM MemmoveCorrect == Spec => []MemmoveIsSimultaneous
<1>1. IInv => MemmoveIsSimultaneous
  <2> SUFFICES ASSUME IInv, pc = "return", arg.op = "memmove" PROVE mem = MovedFrom(old)
    BY DEF MemmoveIsSimultaneous
  <2>1. Copied(0, arg.count) /\ arg.dest \in Nat
    BY DEF IInv, MoveInv, ReturnInv, TypeOK
  <2>2. arg.dest + 0 = arg.dest
    BY <2>1
  <2> QED
    BY <2>1, <2>2, Zenon DEF Copied, MovedFrom
<1> QED
  BY <1>1, StringsInvariant, PTL

(* A comparison is 0 exactly for equal strings, in spite of the signed char
   its difference passes through (string.c:3-13, 25-36). *)
THEOREM CompareCorrect == Spec => []ZeroMeansEqual
<1>1. IInv => ZeroMeansEqual
  BY DEF IInv, Results
<1> QED
  BY <1>1, StringsInvariant, PTL

(* memset and strcpy write their region and nothing else (string.c:15-23, 75-83). *)
THEOREM FillAndCopyCorrect == Spec => []FillsAndCopiesExactly
<1>1. IInv => FillsAndCopiesExactly
  BY DEF IInv, Results
<1> QED
  BY <1>1, StringsInvariant, PTL
===============================================================================
