-------------------------- MODULE FrameTableProofs --------------------------
(***************************************************************************)
(* For every amount of RAM, every size of the two tables and every         *)
(* sequence of calls: the list of empty frames is sound, no frame is used  *)
(* twice, and the frame table implements PageAllocator.                    *)
(***************************************************************************)
EXTENDS FrameTable, FiniteSetTheorems, TLAPS

(* What the boot sequence guarantees: ram.c owns the frames until          *)
(* init_pagetable takes them over, and frame_nums changes with it.         *)
BootInv ==
    /\ frame_table = NULL =>
         /\ firstpaddr \in FirstFree .. RamFrames
         /\ lastpaddr = RamFrames
         /\ frame_nums = 0
         /\ status = "ok"
    /\ frame_table # NULL => frame_nums = RamFrames
    /\ Managed => /\ frame_table >= FirstFree
                  /\ frame_table + FtPages + PtPages < RamFrames

(* The inductive invariant. *)
IInv == TypeOK /\ BootInv /\ FreeListSound /\ NoDoubleUse

USE ConstantsAssumption

LEMMA InitIInv == Init => IInv
<1> SUFFICES ASSUME Init PROVE IInv
  OBVIOUS
<1>1. TypeOK
  BY DEF Init, TypeOK, Frame, NULL
<1>2. BootInv
  BY DEF Init, BootInv, NULL, Managed
<1>3. FreeListSound
  BY DEF Init, FreeListSound, Managed, NULL
<1>4. NoDoubleUse
  BY DEF Init, NoDoubleUse, Managed, NULL
<1> QED
  BY <1>1, <1>2, <1>3, <1>4 DEF IInv

LEMMA InitPagetableStep == IInv /\ init_pagetable => IInv'
<1> SUFFICES ASSUME IInv, init_pagetable PROVE IInv'
  OBVIOUS
<1> USE DEF IInv
<1>0. /\ frame_table = NULL /\ firstpaddr \in FirstFree .. RamFrames
      /\ lastpaddr = RamFrames /\ frame_table' # NULL
  BY DEF init_pagetable, BootInv, NULL
<1> PICK first \in Nat : first = firstpaddr + FtPages + PtPages
  BY <1>0
<1>1. /\ first > firstpaddr
      /\ current_empty_frame_index' = first
      /\ frame_nums' = RamFrames
      /\ frame_table' = firstpaddr
      /\ UNCHANGED <<blocks, ret>>
      /\ Managed' => first < RamFrames
      /\ first < RamFrames =>
           /\ is_used' = [i \in Frame |-> IF i < first THEN 1 ELSE 0]
           /\ next_empty_frame_index' =
                [i \in Frame |-> IF i < first THEN next_empty_frame_index[i] ELSE i + 1]
      /\ first >= RamFrames => UNCHANGED <<is_used, next_empty_frame_index>>
  BY <1>0 DEF init_pagetable, Managed
<1>2. TypeOK'
  <2>1. is_used' \in [Frame -> {0, 1}]
    BY <1>1 DEF TypeOK
  <2>2. next_empty_frame_index' \in [Frame -> 0 .. RamFrames]
    <3>1. CASE first < RamFrames
      <4> SUFFICES ASSUME NEW i \in Frame
                   PROVE  (IF i < first THEN next_empty_frame_index[i] ELSE i + 1)
                            \in 0 .. RamFrames
        BY <1>1, <3>1
      <4> QED
        BY DEF TypeOK, Frame
    <3>2. CASE first >= RamFrames
      BY <1>1, <3>2 DEF TypeOK
    <3> QED
      BY <3>1, <3>2
  <2>3. /\ firstpaddr' = 0 /\ lastpaddr' = 0
        /\ status' \in {"ok", "panic"}
    BY DEF init_pagetable
  <2> QED
    BY <1>0, <1>1, <2>1, <2>2, <2>3 DEF TypeOK
<1>3. BootInv'
  BY <1>0, <1>1 DEF BootInv, Managed
<1>4. FreeListSound'
  <2> SUFFICES ASSUME Managed'
               PROVE  FreeListSound'
    BY DEF FreeListSound
  <2> DEFINE n == RamFrames - first
             s == [j \in 1 .. n |-> first + j - 1]
  <2>1. first < RamFrames /\ n \in 1 .. RamFrames
    BY <1>1
  <2>2. EmptyFrames' = first .. RamFrames - 1
    BY <2>1, <1>1 DEF EmptyFrames, Frame
  <2>3. s \in [1 .. n -> EmptyFrames']
    BY <2>1, <2>2
  <2>4. \A i \in EmptyFrames' : \E j \in 1 .. n : s[j] = i
    <3> TAKE i \in EmptyFrames'
    <3>1. i - first + 1 \in 1 .. n
      BY <2>2
    <3>2. s[i - first + 1] = i
      BY <2>2, <3>1
    <3> QED
      BY <3>1, <3>2
  <2>5. \A j \in 1 .. n : next_empty_frame_index'[s[j]] =
                            (IF j = n THEN RamFrames ELSE s[j + 1])
    <3> TAKE j \in 1 .. n
    <3>1. s[j] = first + j - 1 /\ s[j] \in Frame /\ s[j] >= first
      BY <2>1 DEF Frame
    <3>2. next_empty_frame_index'[s[j]] = s[j] + 1
      BY <1>1, <2>1, <3>1
    <3>3. CASE j = n
      BY <2>1, <3>1, <3>2, <3>3
    <3>4. CASE j # n
      <4>1. s[j + 1] = first + j
        BY <2>1, <3>4
      <4> QED
        BY <2>1, <3>1, <3>2, <3>4, <4>1
    <3> QED
      BY <3>3, <3>4
  <2>6. current_empty_frame_index' = s[1] /\ \A j, k \in 1 .. n : s[j] = s[k] => j = k
    BY <1>1, <2>1
  <2> HIDE DEF n, s
  <2>7. IsFreeList(s, n)'
    BY <2>1, <2>3, <2>4, <2>5, <2>6 DEF IsFreeList
  <2> QED
    BY <1>1, <2>1, <2>3, <2>7 DEF FreeListSound
<1>5. NoDoubleUse'
  <2>1. \A b \in blocks : \A i \in FramesOf(b) :
          i \in FirstFree .. RamFrames - 1 /\ i < firstpaddr
    BY <1>0 DEF NoDoubleUse
  <2>2. TableFrames' = firstpaddr .. first - 1
    BY <1>0, <1>1 DEF TableFrames
  <2>3. Managed' => EmptyFrames' = first .. RamFrames - 1
    BY <1>1 DEF EmptyFrames, Frame
  <2>4. Managed' => \A b \in blocks : \A i \in FramesOf(b) :
                      is_used'[i] = 1 /\ i \notin TableFrames'
    BY <2>1, <2>2, <1>0, <1>1 DEF Frame
  <2>5. Managed' => \A i \in EmptyFrames' : i >= FirstFree /\ i \notin TableFrames'
    BY <2>2, <2>3, <1>0, <1>1
  <2> QED
    BY <2>1, <2>4, <2>5, <1>0, <1>1 DEF NoDoubleUse, FramesOf
<1> QED
  BY <1>2, <1>3, <1>4, <1>5

LEMMA StealStep ==
  ASSUME IInv, NEW npages \in 1 .. MaxPages, ram_stealmem(npages)
  PROVE  IInv'
<1> USE DEF IInv
<1>0. /\ frame_table = NULL /\ firstpaddr \in FirstFree .. RamFrames
      /\ lastpaddr = RamFrames /\ frame_nums = 0 /\ UNCHANGED <<lastpaddr, ftvars>>
  BY DEF ram_stealmem, BootInv
<1>1. CASE firstpaddr + npages > lastpaddr
  <2>1. UNCHANGED <<firstpaddr, blocks>> /\ ret' = [npages |-> npages, first |-> NULL]
    BY <1>1 DEF ram_stealmem
  <2> QED
    BY <1>0, <2>1 DEF TypeOK, BootInv, FreeListSound, NoDoubleUse, Managed, ftvars, NULL
<1>2. CASE firstpaddr + npages <= lastpaddr
  <2>1. /\ firstpaddr' = firstpaddr + npages
        /\ blocks' = blocks \union {<<firstpaddr, npages>>}
        /\ ret' = [npages |-> npages, first |-> firstpaddr]
    BY <1>0, <1>2 DEF ram_stealmem
  <2>2. TypeOK'
    <3>1. blocks' \subseteq Frame \X (1 .. MaxPages)
      BY <1>0, <1>2, <2>1 DEF TypeOK, Frame
    <3>2. ret' \in [npages : 0 .. MaxPages, first : 0 .. RamFrames]
      BY <1>0, <2>1
    <3>3. firstpaddr' \in 0 .. RamFrames
      BY <1>0, <1>2, <2>1
    <3> QED
      BY <1>0, <3>1, <3>2, <3>3 DEF TypeOK, ftvars
  <2>3. BootInv' /\ FreeListSound'
    BY <1>0, <1>2, <2>1 DEF BootInv, FreeListSound, Managed, ftvars
  <2>4. FramesOf(<<firstpaddr, npages>>) = firstpaddr .. firstpaddr' - 1
    BY <1>0, <2>1 DEF FramesOf
  <2>5. \A b \in blocks : \A i \in FramesOf(b) : i \in FirstFree .. firstpaddr - 1
    BY <1>0 DEF NoDoubleUse
  <2>6. \A b \in blocks' : \A i \in FramesOf(b) :
          i \in FirstFree .. RamFrames - 1 /\ i < firstpaddr'
    BY <1>0, <1>2, <2>1, <2>4, <2>5
  <2>7. \A b, c \in blocks' : b # c => \A i \in FramesOf(b) : i \notin FramesOf(c)
    BY <1>0, <2>1, <2>4, <2>5 DEF NoDoubleUse
  <2>8. NoDoubleUse'
    BY <1>0, <2>6, <2>7 DEF NoDoubleUse, Managed, ftvars, FramesOf
  <2> QED
    BY <2>2, <2>3, <2>8
<1> QED
  BY <1>0, <1>1, <1>2

(* A caller's block contains its first frame, the one free_kpages frees,   *)
(* and the frame table, once it exists, marks it used.                     *)
LEMMA BlockHead ==
  ASSUME TypeOK, NoDoubleUse, NEW b \in blocks
  PROVE  /\ b[1] \in Frame /\ b[2] \in 1 .. MaxPages /\ b[1] \in FramesOf(b)
         /\ b[1] \in FirstFree .. RamFrames - 1
         /\ Managed => is_used[b[1]] = 1 /\ b[1] \notin TableFrames
<1>1. b[1] \in Frame /\ b[2] \in 1 .. MaxPages /\ b[1] \in FramesOf(b)
  BY DEF TypeOK, FramesOf, Frame
<1> QED
  BY <1>1 DEF NoDoubleUse

(* alloc_kpages serves the head of the list exactly when there is one. *)
LEMMA ListHead ==
  ASSUME IInv, Managed
  PROVE  IF current_empty_frame_index >= frame_nums
           THEN EmptyFrames = {}
           ELSE current_empty_frame_index \in EmptyFrames
<1> PICK n \in 0 .. RamFrames : \E s \in [1 .. n -> EmptyFrames] : IsFreeList(s, n)
  BY DEF IInv, FreeListSound
<1> PICK s \in [1 .. n -> EmptyFrames] : IsFreeList(s, n)
  OBVIOUS
<1>1. frame_nums = RamFrames
  BY DEF IInv, FreeListSound
<1>2. CASE n = 0
  BY <1>1, <1>2 DEF IsFreeList
<1>3. CASE n # 0
  BY <1>1, <1>3 DEF IsFreeList, EmptyFrames, Frame
<1> QED
  BY <1>2, <1>3

(* The list is sound after a step that changes none of its parts. *)
LEMMA SameFreeList ==
  ASSUME FreeListSound, Managed,
         UNCHANGED <<is_used, next_empty_frame_index, current_empty_frame_index,
                     frame_nums>>
  PROVE  FreeListSound'
<1> PICK n \in 0 .. RamFrames : \E s \in [1 .. n -> EmptyFrames] : IsFreeList(s, n)
  BY DEF FreeListSound
<1> PICK s \in [1 .. n -> EmptyFrames] : IsFreeList(s, n)
  OBVIOUS
<1>1. EmptyFrames' = EmptyFrames
  BY DEF EmptyFrames
<1>2. IsFreeList(s, n)'
  BY <1>1 DEF IsFreeList
<1> QED
  BY <1>1, <1>2 DEF FreeListSound

LEMMA AllocStep ==
  ASSUME IInv, NEW npages \in 1 .. MaxPages, alloc_kpages(npages)
  PROVE  IInv'
<1> USE DEF IInv
<1>0. /\ Managed /\ Managed' /\ frame_table # NULL /\ frame_nums = RamFrames
      /\ UNCHANGED <<ramvars, frame_table, frame_nums, next_empty_frame_index, status>>
      /\ TableFrames' = TableFrames
  BY DEF alloc_kpages, Managed, BootInv, TableFrames
<1>1. CASE npages # 1 \/ current_empty_frame_index >= frame_nums
  <2>1. /\ UNCHANGED <<is_used, current_empty_frame_index, blocks>>
        /\ ret' = [npages |-> npages, first |-> NULL]
    BY <1>1 DEF alloc_kpages
  <2>2. TypeOK' /\ BootInv'
    BY <1>0, <2>1 DEF TypeOK, BootInv, ramvars, NULL, Managed
  <2>3. FreeListSound'
    BY <1>0, <2>1, SameFreeList
  <2>4. NoDoubleUse'
    BY <1>0, <2>1 DEF NoDoubleUse, EmptyFrames, FramesOf
  <2> QED
    BY <2>2, <2>3, <2>4
<1>2. CASE npages = 1 /\ current_empty_frame_index < frame_nums
  <2> PICK n \in 0 .. RamFrames : \E s \in [1 .. n -> EmptyFrames] : IsFreeList(s, n)
    BY <1>0 DEF FreeListSound
  <2> PICK s \in [1 .. n -> EmptyFrames] : IsFreeList(s, n)
    OBVIOUS
  <2> PICK h \in Frame : h = current_empty_frame_index
    BY <1>0, <1>2 DEF TypeOK, Frame
  <2>1. /\ is_used' = [is_used EXCEPT ![h] = 1]
        /\ current_empty_frame_index' = next_empty_frame_index[h]
        /\ blocks' = blocks \union {<<h, 1>>}
        /\ ret' = [npages |-> npages, first |-> h]
    BY <1>0, <1>2 DEF alloc_kpages, TypeOK
  <2>2. n \in 1 .. RamFrames /\ h = s[1] /\ h \in EmptyFrames
    BY <1>0, <1>2 DEF IsFreeList, Frame
  <2>3. EmptyFrames' = EmptyFrames \ {h}
    BY <2>1, <2>2 DEF EmptyFrames, TypeOK
  <2>4. TypeOK'
    BY <1>0, <1>2, <2>1, <2>2 DEF TypeOK, ramvars, Frame
  <2>5. BootInv'
    BY <1>0 DEF BootInv, ramvars, Managed
  <2>6. FreeListSound'
    <3> DEFINE m == n - 1
               t == [j \in 1 .. m |-> s[j + 1]]
    <3>1. m \in 0 .. RamFrames
      BY <2>2
    <3>2. \A j \in 1 .. m : t[j] = s[j + 1] /\ j + 1 \in 1 .. n /\ j + 1 # 1
      BY <2>2
    <3>3. t \in [1 .. m -> EmptyFrames']
      <4>1. ASSUME NEW j \in 1 .. m PROVE s[j + 1] \in EmptyFrames'
        <5>1. j + 1 \in 1 .. n /\ 1 \in 1 .. n /\ j + 1 # 1
          BY <3>2, <2>2
        <5>2. s[j + 1] # s[1]
          BY <5>1 DEF IsFreeList
        <5> QED
          BY <5>1, <5>2, <2>2, <2>3
      <4> QED
        BY <4>1
    <3>4. \A i \in EmptyFrames' : \E j \in 1 .. m : t[j] = i
      <4> TAKE i \in EmptyFrames'
      <4> PICK j \in 1 .. n : s[j] = i
        BY <2>3 DEF IsFreeList
      <4>1. j - 1 \in 1 .. m /\ t[j - 1] = i
        BY <2>2, <2>3
      <4> QED
        BY <4>1
    <3>5. \A j, k \in 1 .. m : t[j] = t[k] => j = k
      <4> TAKE j, k \in 1 .. m
      <4> HAVE t[j] = t[k]
      <4>1. s[j + 1] = s[k + 1] /\ j + 1 \in 1 .. n /\ k + 1 \in 1 .. n
        BY <3>2
      <4>2. j + 1 = k + 1
        BY <4>1 DEF IsFreeList
      <4> QED
        BY <4>2
    <3>6. current_empty_frame_index' = (IF m = 0 THEN RamFrames ELSE t[1])
      <4>1. current_empty_frame_index' = (IF n = 1 THEN RamFrames ELSE s[2])
        <5>1. 1 \in 1 .. n /\ 1 + 1 = 2
          BY <2>2
        <5>2. next_empty_frame_index[s[1]] = (IF 1 = n THEN RamFrames ELSE s[1 + 1])
          BY <5>1 DEF IsFreeList
        <5> QED
          BY <2>1, <2>2, <5>1, <5>2
      <4>2. m # 0 => t[1] = s[2]
        BY <2>2
      <4> QED
        BY <2>2, <4>1, <4>2
    <3>7. \A j \in 1 .. m : next_empty_frame_index'[t[j]] =
                              (IF j = m THEN RamFrames ELSE t[j + 1])
      <4> TAKE j \in 1 .. m
      <4>1. next_empty_frame_index'[t[j]] = (IF j + 1 = n THEN RamFrames ELSE s[j + 2])
        <5>1. t[j] = s[j + 1] /\ j + 1 \in 1 .. n /\ j + 1 + 1 = j + 2
          BY <3>2
        <5>2. next_empty_frame_index[s[j + 1]] =
                (IF j + 1 = n THEN RamFrames ELSE s[j + 1 + 1])
          BY <5>1 DEF IsFreeList
        <5> QED
          BY <1>0, <5>1, <5>2
      <4>2. j # m => t[j + 1] = s[j + 2]
        BY <2>2
      <4> QED
        BY <2>2, <4>1, <4>2
    <3> HIDE DEF m, t
    <3>8. IsFreeList(t, m)'
      BY <3>1, <3>3, <3>4, <3>5, <3>6, <3>7 DEF IsFreeList
    <3> QED
      BY <1>0, <3>1, <3>3, <3>8 DEF FreeListSound
  <2>7. NoDoubleUse'
    <3>1. FramesOf(<<h, 1>>) = {h} /\ h >= FirstFree /\ h \notin TableFrames
      BY <1>0, <2>2 DEF FramesOf, NoDoubleUse, Frame
    <3>2. \A b \in blocks : \A i \in FramesOf(b) :
            i # h /\ is_used[i] = 1 /\ i \in FirstFree .. RamFrames - 1 /\ i \notin TableFrames
      BY <1>0, <2>2 DEF NoDoubleUse, EmptyFrames
    <3>3. \A b, c \in blocks' : b # c => \A i \in FramesOf(b) : i \notin FramesOf(c)
      <4> TAKE b, c \in blocks'
      <4>1. CASE b \in blocks /\ c \in blocks
        BY <4>1 DEF NoDoubleUse
      <4>2. CASE b = <<h, 1>> /\ c \in blocks
        BY <4>2, <3>1, <3>2
      <4>3. CASE b \in blocks /\ c = <<h, 1>>
        BY <4>3, <3>1, <3>2
      <4> QED
        BY <2>1, <4>1, <4>2, <4>3
    <3>4. \A b \in blocks' : \A i \in FramesOf(b) :
            i \in FirstFree .. RamFrames - 1 /\ is_used'[i] = 1 /\ i \notin TableFrames
      <4> TAKE b \in blocks'
      <4>1. CASE b \in blocks
        BY <4>1, <2>1, <3>2 DEF TypeOK, Frame
      <4>2. CASE b = <<h, 1>>
        BY <4>2, <2>1, <3>1 DEF TypeOK, Frame
      <4> QED
        BY <2>1, <4>1, <4>2
    <3>5. \A i \in EmptyFrames' : i >= FirstFree /\ i \notin TableFrames
      BY <1>0, <2>3 DEF NoDoubleUse
    <3> QED
      BY <1>0, <3>3, <3>4, <3>5 DEF NoDoubleUse, FramesOf
  <2> QED
    BY <2>4, <2>5, <2>6, <2>7
<1> QED
  BY <1>0, <1>1, <1>2 DEF TypeOK

LEMMA FreeStep ==
  ASSUME IInv, NEW b \in blocks, free_kpages(b)
  PROVE  IInv'
<1> USE DEF IInv
<1>0. /\ blocks' = blocks \ {b}
      /\ UNCHANGED <<ramvars, frame_table, frame_nums, status, ret>>
      /\ TableFrames' = TableFrames
      /\ Managed' = Managed
      /\ b[1] \in Frame /\ status = "ok"
  BY BlockHead DEF free_kpages, TableFrames, Managed
<1>1. BootInv'
  BY <1>0 DEF BootInv, ramvars
<1>2. CASE frame_table = NULL
  <2>1. UNCHANGED <<is_used, next_empty_frame_index, current_empty_frame_index>>
    BY <1>2, <1>0 DEF free_kpages, BootInv, Frame
  <2> QED
    BY <1>0, <1>1, <1>2, <2>1
    DEF TypeOK, FreeListSound, NoDoubleUse, Managed, ramvars, FramesOf
<1>3. CASE frame_table # NULL
  <2>0. Managed /\ frame_nums = RamFrames
    BY <1>0, <1>3 DEF Managed, BootInv
  <2> PICK i \in Frame : i = b[1]
    BY <1>0
  <2>1. /\ is_used[i] = 1 /\ i \notin TableFrames /\ i \in FramesOf(b)
        /\ i \in FirstFree .. RamFrames - 1
    BY <2>0, BlockHead
  <2>2. /\ is_used' = [is_used EXCEPT ![i] = 0]
        /\ next_empty_frame_index' =
             [next_empty_frame_index EXCEPT ![i] = current_empty_frame_index]
        /\ current_empty_frame_index' = i
    BY <2>0, <2>1 DEF free_kpages, Frame
  <2> PICK n \in 0 .. RamFrames : \E s \in [1 .. n -> EmptyFrames] : IsFreeList(s, n)
    BY <2>0 DEF FreeListSound
  <2> PICK s \in [1 .. n -> EmptyFrames] : IsFreeList(s, n)
    OBVIOUS
  <2>3. EmptyFrames' = EmptyFrames \union {i} /\ i \notin EmptyFrames
    <3>1. \A k \in Frame : is_used'[k] = IF k = i THEN 0 ELSE is_used[k]
      BY <2>2 DEF TypeOK
    <3>2. i \notin EmptyFrames
      BY <2>1 DEF EmptyFrames
    <3>3. \A k \in Frame : is_used'[k] = 0 <=> k = i \/ is_used[k] = 0
      BY <3>1
    <3>4. \A k : k \in EmptyFrames' <=> k = i \/ k \in EmptyFrames
      BY <3>3 DEF EmptyFrames
    <3> QED
      BY <3>2, <3>4
  <2>4. current_empty_frame_index \in 0 .. RamFrames
    BY DEF IsFreeList, EmptyFrames, Frame
  <2>5. TypeOK'
    BY <1>0, <2>2, <2>4 DEF TypeOK, ramvars, Frame
  <2>6. FreeListSound'
    <3> DEFINE m == n + 1
               t == [j \in 1 .. m |-> IF j = 1 THEN i ELSE s[j - 1]]
    <3>1. \A j \in 1 .. m : j # 1 => t[j] = s[j - 1] /\ j - 1 \in 1 .. n
      OBVIOUS
    <3>2. t[1] = i
      OBVIOUS
    <3>3. t \in [1 .. m -> EmptyFrames']
      BY <2>3
    <3>4. \A k \in EmptyFrames' : \E j \in 1 .. m : t[j] = k
      <4> TAKE k \in EmptyFrames'
      <4>1. CASE k = i
        BY <4>1, <3>2
      <4>2. CASE k \in EmptyFrames
        <5> PICK j \in 1 .. n : s[j] = k
          BY <4>2 DEF IsFreeList
        <5>1. j + 1 \in 1 .. m /\ t[j + 1] = k
          OBVIOUS
        <5> QED
          BY <5>1
      <4> QED
        BY <2>3, <4>1, <4>2
    <3>5. \A j, k \in 1 .. m : t[j] = t[k] => j = k
      <4> TAKE j, k \in 1 .. m
      <4> HAVE t[j] = t[k]
      <4>1. \A l \in 1 .. n : s[l] # i
        BY <2>3
      <4>2. CASE j = 1 \/ k = 1
        BY <4>1, <4>2, <3>1, <3>2
      <4>3. CASE j # 1 /\ k # 1
        <5>1. j - 1 = k - 1
          BY <4>3, <3>1 DEF IsFreeList
        <5> QED
          BY <5>1
      <4> QED
        BY <4>2, <4>3
    <3>6. \A j \in 1 .. m : next_empty_frame_index'[t[j]] =
                              (IF j = m THEN RamFrames ELSE t[j + 1])
      <4> TAKE j \in 1 .. m
      <4>1. CASE j = 1
        <5>1. next_empty_frame_index'[i] = (IF n = 0 THEN RamFrames ELSE s[1])
          BY <2>2 DEF IsFreeList, TypeOK
        <5>2. n # 0 => t[2] = s[1]
          OBVIOUS
        <5> QED
          BY <4>1, <3>2, <5>1, <5>2
      <4>2. CASE j # 1
        <5>1. t[j] = s[j - 1] /\ j - 1 \in 1 .. n /\ s[j - 1] # i /\ s[j - 1] \in Frame
          BY <4>2, <3>1, <2>3 DEF EmptyFrames
        <5>2. next_empty_frame_index'[t[j]] =
                (IF j - 1 = n THEN RamFrames ELSE s[j - 1 + 1])
          BY <5>1, <2>2 DEF IsFreeList, TypeOK
        <5>3. j # m => t[j + 1] = s[j] /\ j - 1 + 1 = j
          BY <4>2
        <5> QED
          BY <5>1, <5>2, <5>3
      <4> QED
        BY <4>1, <4>2
    <3>7. m \in 0 .. RamFrames
      <4>1. t \in Injection(1 .. m, Frame)
        BY <3>3, <3>5 DEF Injection, IsInjective, EmptyFrames
      <4>2. IsFiniteSet(Frame) /\ Cardinality(Frame) <= RamFrames
        <5>1. 0 \in Int /\ RamFrames - 1 \in Int /\ ~(0 > RamFrames - 1)
          OBVIOUS
        <5>2. /\ IsFiniteSet(0 .. RamFrames - 1)
              /\ Cardinality(0 .. RamFrames - 1) = RamFrames - 1 - 0 + 1
          BY <5>1, FS_Interval
        <5> QED
          BY <5>2 DEF Frame
      <4>3. Cardinality(1 .. m) = m
        BY FS_Interval
      <4> HIDE DEF m, t
      <4>4. Cardinality(1 .. m) <= Cardinality(Frame)
        BY <4>1, <4>2, FS_Injection
      <4>5. m \in Nat /\ Cardinality(Frame) \in Nat
        BY <4>2, FS_CardinalityType DEF m
      <4> QED
        BY <4>2, <4>3, <4>4, <4>5
    <3> HIDE DEF m, t
    <3>8. m # 0
      BY DEF m
    <3>9. IsFreeList(t, m)'
      BY <2>2, <3>2, <3>3, <3>4, <3>5, <3>6, <3>7, <3>8 DEF IsFreeList
    <3> QED
      BY <1>0, <2>0, <3>3, <3>7, <3>9 DEF FreeListSound
  <2>7. NoDoubleUse'
    <3>1. \A c \in blocks' : c \in blocks /\ c # b
      BY <1>0
    <3>2. \A c \in blocks' : \A k \in FramesOf(c) :
            /\ k # i /\ is_used'[k] = 1
            /\ k \in FirstFree .. RamFrames - 1 /\ k \notin TableFrames
      <4> TAKE c \in blocks'
      <4> TAKE k \in FramesOf(c)
      <4>1. k # i
        BY <2>1, <3>1 DEF NoDoubleUse
      <4>2. is_used[k] = 1 /\ k \in FirstFree .. RamFrames - 1 /\ k \notin TableFrames
        BY <2>0, <3>1 DEF NoDoubleUse
      <4> QED
        BY <2>2, <4>1, <4>2 DEF TypeOK, Frame
    <3>3. \A k \in EmptyFrames' : k >= FirstFree /\ k \notin TableFrames
      BY <2>0, <2>1, <2>3 DEF NoDoubleUse
    <3> QED
      BY <1>0, <1>3, <3>1, <3>2, <3>3 DEF NoDoubleUse, FramesOf
  <2> QED
    BY <1>1, <2>5, <2>6, <2>7
<1> QED
  BY <1>2, <1>3

(* IInv holds in every state of every run of the allocator: it is true     *)
(* when ram_bootstrap returns and init_pagetable, ram_stealmem,            *)
(* alloc_kpages and free_kpages all preserve it.                           *)
THEOREM Invariance == Spec => []IInv
<1>1. Init => IInv
  BY InitIInv
<1>2. IInv /\ [Next]_vars => IInv'
  <2> SUFFICES ASSUME IInv, [Next]_vars
               PROVE  IInv'
    OBVIOUS
  <2>1. CASE Next
    BY <2>1, InitPagetableStep, StealStep, AllocStep, FreeStep DEF Next
  <2>2. CASE UNCHANGED vars
    <3>1. UNCHANGED <<firstpaddr, lastpaddr, frame_table, frame_nums, is_used,
                      next_empty_frame_index, current_empty_frame_index, status,
                      blocks, ret>>
      BY <2>2 DEF vars, ramvars, ftvars
    <3>2. TypeOK' /\ BootInv'
      BY <3>1 DEF IInv, TypeOK, BootInv, Managed
    <3>3. FreeListSound'
      <4>1. CASE Managed
        BY <3>1, <4>1, SameFreeList DEF IInv
      <4>2. CASE ~Managed
        BY <3>1, <4>2 DEF FreeListSound, Managed
      <4> QED
        BY <4>1, <4>2
    <3>4. NoDoubleUse'
      BY <3>1 DEF IInv, NoDoubleUse, Managed, EmptyFrames, TableFrames, FramesOf
    <3> QED
      BY <3>2, <3>3, <3>4 DEF IInv
  <2> QED
    BY <2>1, <2>2
<1> QED
  BY <1>1, <1>2, PTL DEF Spec

(* Every variable of the allocator keeps its type whatever the calls. *)
THEOREM TypeCorrect == Spec => []TypeOK
<1>1. IInv => TypeOK
  BY DEF IInv
<1> QED
  BY <1>1, Invariance, PTL

(* The chain of empty frames that alloc_kpages pops and free_kpages pushes *)
(* visits every unused frame once and ends, for every size of RAM.         *)
THEOREM FreeListCorrect == Spec => []FreeListSound
<1>1. IInv => FreeListSound
  BY DEF IInv
<1> QED
  BY <1>1, Invariance, PTL

(* alloc_kpages never hands out a frame that a caller holds, that is on    *)
(* the list, or that holds the kernel, the frame table or the page table.  *)
THEOREM NoDoubleUseCorrect == Spec => []NoDoubleUse
<1>1. IInv => NoDoubleUse
  BY DEF IInv
<1> QED
  BY <1>1, Invariance, PTL
-----------------------------------------------------------------------------
(* The refinement of PageAllocator. *)

LEMMA HeldFramesDef ==
  \A i : i \in HeldFrames <=> \E b \in blocks : i \in FramesOf(b)
BY DEF HeldFrames

LEMMA AbstractInit == Init => Abstract!AInit
<1> SUFFICES ASSUME Init PROVE Abstract!AInit
  OBVIOUS
<1>1. Pool \subseteq Frame
  BY DEF Init, Pool, Frame, NULL
<1>2. HeldFrames = {}
  BY DEF Init, HeldFrames
<1>3. Answer = [npages |-> 0, frames |-> {}]
  BY DEF Init, Answer, NULL
<1>4. (frame_table # NULL) = FALSE
  BY DEF Init
<1> QED
  BY <1>1, <1>2, <1>3, <1>4 DEF Abstract!AInit

LEMMA ManageRefines ==
  ASSUME IInv, init_pagetable
  PROVE  \E S \in SUBSET Frame : Abstract!AManage(S)
<1>0. /\ frame_table = NULL /\ firstpaddr \in FirstFree .. RamFrames
      /\ lastpaddr = RamFrames /\ frame_table' = firstpaddr /\ frame_table' # NULL
      /\ UNCHANGED <<blocks, ret>>
  BY DEF init_pagetable, IInv, BootInv, NULL
<1> DEFINE S == Pool \ Pool'
<1>1. Pool = firstpaddr .. RamFrames - 1 /\ Pool \subseteq Frame
  BY <1>0 DEF Pool, Frame
<1>2. Pool' \subseteq Pool
  <2>1. CASE firstpaddr + FtPages + PtPages >= RamFrames
    BY <1>0, <2>1 DEF init_pagetable, Pool
  <2>2. CASE firstpaddr + FtPages + PtPages < RamFrames
    BY <1>0, <1>1, <2>2 DEF init_pagetable, Pool, EmptyFrames, Frame
  <2> QED
    BY <1>0, <2>1, <2>2
<1>3. HeldFrames' = HeldFrames /\ Answer' = Answer
  BY <1>0 DEF HeldFrames, Answer, FramesOf
<1>4. Pool' = Pool \ S
  BY <1>2
<1>5. Abstract!AManage(S)
  BY <1>0, <1>3, <1>4 DEF Abstract!AManage
<1> QED
  BY <1>1, <1>5

LEMMA StealRefines ==
  ASSUME IInv, NEW npages \in 1 .. MaxPages, ram_stealmem(npages)
  PROVE  \/ \E S \in SUBSET Frame : Abstract!AAlloc(npages, S)
         \/ Abstract!AFail(npages)
<1>0. /\ frame_table = NULL /\ firstpaddr \in FirstFree .. RamFrames
      /\ lastpaddr = RamFrames /\ UNCHANGED <<lastpaddr, ftvars>>
  BY DEF ram_stealmem, IInv, BootInv
<1>1. /\ Pool = firstpaddr .. RamFrames - 1
      /\ Pool' = firstpaddr' .. RamFrames - 1
      /\ (frame_table # NULL)' = (frame_table # NULL)
  BY <1>0 DEF Pool, ftvars
<1>2. CASE firstpaddr + npages > lastpaddr
  <2>1. UNCHANGED <<firstpaddr, blocks>> /\ ret' = [npages |-> npages, first |-> NULL]
    BY <1>2 DEF ram_stealmem
  <2>2. Answer' = [npages |-> npages, frames |-> {}]
    BY <2>1 DEF Answer
  <2>3. HeldFrames' = HeldFrames
    BY <2>1 DEF HeldFrames, FramesOf
  <2>4. npages = 1 => Pool = {}
    BY <1>0, <1>1, <1>2
  <2> QED
    BY <1>1, <2>1, <2>2, <2>3, <2>4 DEF Abstract!AFail
<1>3. CASE firstpaddr + npages <= lastpaddr
  <2> DEFINE S == FramesOf(<<firstpaddr, npages>>)
  <2>1. /\ firstpaddr' = firstpaddr + npages
        /\ blocks' = blocks \union {<<firstpaddr, npages>>}
        /\ ret' = [npages |-> npages, first |-> firstpaddr]
    BY <1>0, <1>3 DEF ram_stealmem
  <2>2. S = firstpaddr .. firstpaddr + npages - 1
    BY DEF FramesOf
  <2>3. Answer' = [npages |-> npages, frames |-> S]
    BY <1>0, <2>1 DEF Answer, NULL, FramesOf
  <2>4. HeldFrames' = HeldFrames \union S
    BY <2>1 DEF HeldFrames, FramesOf
  <2>5. S # {} /\ S \subseteq Pool /\ S \subseteq Frame /\ Pool' = Pool \ S
    <3> HIDE DEF S
    <3>1. firstpaddr \in S
      BY <1>0, <2>2
    <3>2. S \subseteq Pool /\ S \subseteq Frame
      BY <1>0, <1>1, <1>3, <2>2 DEF Frame
    <3>3. Pool' = Pool \ S
      BY <1>0, <1>1, <1>3, <2>1, <2>2
    <3> QED
      BY <3>1, <3>2, <3>3
  <2>6. npages = 1 => S = {firstpaddr} /\ firstpaddr \in S
    BY <1>0, <2>2
  <2> HIDE DEF S
  <2> QED
    BY <1>1, <2>3, <2>4, <2>5, <2>6 DEF Abstract!AAlloc
<1> QED
  BY <1>0, <1>2, <1>3

LEMMA AllocRefines ==
  ASSUME IInv, NEW npages \in 1 .. MaxPages, alloc_kpages(npages)
  PROVE  \/ \E S \in SUBSET Frame : Abstract!AAlloc(npages, S)
         \/ Abstract!AFail(npages)
<1>0. /\ Managed /\ frame_table # NULL /\ frame_nums = RamFrames
      /\ UNCHANGED <<frame_table, frame_nums, status>>
      /\ Pool = EmptyFrames /\ Pool' = EmptyFrames'
      /\ (frame_table # NULL)' = (frame_table # NULL)
  BY DEF alloc_kpages, Managed, IInv, BootInv, Pool
<1>1. CASE npages # 1 \/ current_empty_frame_index >= frame_nums
  <2>1. /\ UNCHANGED <<is_used, blocks>>
        /\ ret' = [npages |-> npages, first |-> NULL]
    BY <1>1 DEF alloc_kpages
  <2>2. Answer' = [npages |-> npages, frames |-> {}]
    BY <2>1 DEF Answer
  <2>3. HeldFrames' = HeldFrames /\ EmptyFrames' = EmptyFrames
    BY <2>1 DEF HeldFrames, FramesOf, EmptyFrames
  <2>4. npages = 1 => Pool = {}
    BY <1>0, <1>1, ListHead
  <2> QED
    BY <1>0, <2>2, <2>3, <2>4 DEF Abstract!AFail
<1>2. CASE npages = 1 /\ ~(current_empty_frame_index >= frame_nums)
  <2> PICK h \in EmptyFrames : h = current_empty_frame_index
    BY <1>0, <1>2, ListHead
  <2>0. h \in Frame /\ h >= FirstFree /\ h # NULL
    BY <1>0 DEF EmptyFrames, IInv, NoDoubleUse, NULL, Frame
  <2>1. /\ is_used' = [is_used EXCEPT ![h] = 1]
        /\ blocks' = blocks \union {<<h, 1>>}
        /\ ret' = [npages |-> 1, first |-> h]
    BY <1>2 DEF alloc_kpages
  <2>2. FramesOf(<<h, 1>>) = {h}
    BY <2>0 DEF FramesOf, Frame
  <2>3. Answer' = [npages |-> 1, frames |-> {h}]
    BY <2>0, <2>1, <2>2 DEF Answer, FramesOf
  <2>4. HeldFrames' = HeldFrames \union {h}
    BY <2>1, <2>2 DEF HeldFrames, FramesOf
  <2>5. EmptyFrames' = EmptyFrames \ {h}
    BY <2>0, <2>1 DEF EmptyFrames, IInv, TypeOK
  <2>6. {h} \in SUBSET Frame /\ {h} \subseteq Pool
    BY <1>0, <2>0
  <2>7. Abstract!AAlloc(1, {h})
    BY <1>0, <2>3, <2>4, <2>5, <2>6 DEF Abstract!AAlloc
  <2> QED
    BY <1>2, <2>6, <2>7
<1> QED
  BY <1>1, <1>2

LEMMA FreeRefines ==
  ASSUME IInv, NEW b \in blocks, free_kpages(b)
  PROVE  \E S \in SUBSET Frame : Abstract!AFree(S)
<1> DEFINE S == FramesOf(b)
<1>0. /\ blocks' = blocks \ {b}
      /\ UNCHANGED <<ramvars, frame_table, frame_nums, status, ret>>
      /\ b[1] \in Frame /\ b[1] \in S /\ status = "ok"
      /\ (frame_table # NULL)' = (frame_table # NULL)
  BY BlockHead DEF free_kpages, IInv
<1>1. S \subseteq Frame /\ S \subseteq HeldFrames
  BY HeldFramesDef DEF IInv, NoDoubleUse, Frame
<1>2. HeldFrames' = HeldFrames \ S
  <2>1. \A c \in blocks : c # b => \A i \in FramesOf(c) : i \notin S
    BY DEF IInv, NoDoubleUse
  <2>2. HeldFrames' = UNION {FramesOf(c) : c \in blocks'}
    BY DEF HeldFrames, FramesOf
  <2> HIDE DEF S
  <2> QED
    BY <1>0, <2>1, <2>2 DEF HeldFrames, S
<1>3. Answer' = Answer
  BY <1>0 DEF Answer, FramesOf
<1>4. CASE frame_table = NULL
  <2>1. UNCHANGED is_used
    BY <1>0, <1>4 DEF free_kpages, IInv, BootInv, Frame
  <2>2. Pool' = Pool \union {} /\ {} \in SUBSET S
    BY <1>0, <1>4 DEF Pool, ramvars
  <2>3. Abstract!AFree(S)
    BY <1>0, <1>1, <1>2, <1>3, <1>4, <2>2 DEF Abstract!AFree
  <2> QED
    BY <1>1, <2>3
<1>5. CASE frame_table # NULL
  <2>1. Managed /\ frame_nums = RamFrames /\ is_used[b[1]] = 1
    BY <1>0, <1>5, BlockHead DEF Managed, IInv, BootInv
  <2>2. is_used' = [is_used EXCEPT ![b[1]] = 0]
    BY <1>0, <2>1 DEF free_kpages, Frame
  <2>3. EmptyFrames' = EmptyFrames \union {b[1]}
    BY <1>0, <2>2 DEF EmptyFrames, IInv, TypeOK
  <2>4. Pool' = Pool \union {b[1]}
    BY <1>0, <1>5, <2>1, <2>3 DEF Pool, Managed
  <2>5. {b[1]} \in SUBSET S /\ ((\E i \in S : S = {i}) => {b[1]} = S)
    BY <1>0
  <2> HIDE DEF S
  <2>6. Abstract!AFree(S)
    BY <1>0, <1>1, <1>2, <1>3, <2>4, <2>5 DEF Abstract!AFree
  <2> QED
    BY <1>1, <2>6
<1> QED
  BY <1>4, <1>5

(* alloc_kpages and free_kpages implement the page pool of PageAllocator:  *)
(* for every amount of RAM a one-page request fails only when no frame is  *)
(* empty, and a page given back can be handed out again.                   *)
THEOREM Refinement == Spec => RefinesPageAllocator
<1>1. Init => Abstract!AInit
  BY AbstractInit
<1>2. IInv /\ [Next]_vars => [Abstract!ANext]_(Abstract!avars)
  <2> SUFFICES ASSUME IInv, [Next]_vars
               PROVE  [Abstract!ANext]_(Abstract!avars)
    OBVIOUS
  <2>1. CASE Next
    <3>1. CASE init_pagetable
      BY <2>1, <3>1, ManageRefines DEF Next, Abstract!ANext
    <3>2. ASSUME NEW n \in 1 .. MaxPages, ram_stealmem(n)
          PROVE  Abstract!ANext
      BY <3>2, StealRefines DEF Abstract!ANext
    <3>3. ASSUME NEW n \in 1 .. MaxPages, alloc_kpages(n)
          PROVE  Abstract!ANext
      BY <2>1, <3>3, AllocRefines DEF Next, Abstract!ANext
    <3>4. ASSUME NEW b \in blocks, free_kpages(b)
          PROVE  Abstract!ANext
      BY <2>1, <3>4, FreeRefines DEF Next, Abstract!ANext
    <3> QED
      BY <2>1, <3>1, <3>2, <3>3, <3>4 DEF Next
  <2>2. CASE UNCHANGED vars
    BY <2>2 DEF vars, ramvars, ftvars, Abstract!avars, Pool, HeldFrames, Answer,
                EmptyFrames, FramesOf
  <2> QED
    BY <2>1, <2>2
<1> QED
  BY <1>1, <1>2, Invariance, PTL DEF Spec, RefinesPageAllocator, Abstract!ASpec
=============================================================================
