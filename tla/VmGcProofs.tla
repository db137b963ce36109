----------------------------- MODULE VmGcProofs -----------------------------
(***************************************************************************)
(* Proofs that the free list, the heap and the types of VmGc stay sound in *)
(* every execution, for every value of the constants.                      *)
(*                                                                         *)
(* TypeOK, FreeListExact and HeapTiling are inductive together once the    *)
(* order of the heap frames is added: that the blocks tile the heap says   *)
(* where each block begins from the end of the one before, and only by     *)
(* induction over the list that two blocks far apart are disjoint.         *)
(* FramesOrdered keeps that consequence as part of the invariant.          *)
(*                                                                         *)
(* Then what the collector may not lose: the element counter keeps its     *)
(* distance from the elements really held, and whatever a program can      *)
(* still reach denotes a tensor that nobody else was given.                *)
(***************************************************************************)
EXTENDS VmGc, Induction, SequenceTheorems

FramesOrdered(ptr, frames) ==
  /\ \A i \in 1 .. Len(frames) : End(frames[i]) <= ptr
  /\ \A i, j \in 1 .. Len(frames) : i < j => End(frames[i]) <= frames[j][1]

MemoryOK ==
  /\ reg \in [Regs -> Value]
  /\ cell \in [Cells -> Value]
  /\ options \in Seq(Value)
  /\ snapshots \in Seq([Regs -> Value])

PoolsOK(ts, free, total) ==
  /\ ts \in Seq(Slot)
  /\ free \in Seq(Nat)
  /\ total \in 0 .. WordModulus - 1
  /\ ListsEmptySlots(free, ts)

HeapOK(ptr, frames, own) ==
  /\ ptr \in Nat
  /\ frames \in Seq(Nat \X Nat)
  /\ own \in [Regs -> HeapBlock \cup {NoBlock}]
  /\ TilesHeap(ptr, frames)
  /\ FramesOrdered(ptr, frames)
  /\ FreshListed(own, frames)

IInv ==
  /\ MemoryOK
  /\ PoolsOK(tensors, freeList, elements)
  /\ HeapOK(heapPtr, heapFrames, owner)
  /\ gcTick \in 0 .. GcInterval - 1

-----------------------------------------------------------------------------
(* Facts about the helpers *)

(* A function on 1..n is a sequence of length n. *)
LEMMA FunctionIsSeq ==
  ASSUME NEW S, NEW n \in Nat, NEW f \in [1 .. n -> S]
  PROVE  f \in Seq(S) /\ Len(f) = n
OBVIOUS

(* Front drops the last element. *)
LEMMA FrontFacts ==
  ASSUME NEW S, NEW s \in Seq(S), s # <<>>
  PROVE  /\ Front(s) \in Seq(S)
         /\ Len(Front(s)) = Len(s) - 1
         /\ \A i \in 1 .. Len(s) - 1 : Front(s)[i] = s[i]
         /\ Last(s) = s[Len(s)]
         /\ Len(s) \in Nat \ {0}
<1>1. Len(s) \in Nat \ {0}
  BY EmptySeq
<1>2. \A i \in 1 .. Len(s) - 1 : s[i] \in S
  BY <1>1, ElementOfSeq
<1>3. \A i \in 1 .. Len(s) - 1 : SubSeq(s, 1, Len(s) - 1)[i] = s[1 + i - 1]
  BY <1>1, <1>2, SubSeqProperties
<1>4. SubSeq(s, 1, Len(s) - 1) \in Seq(S)
  BY <1>1, <1>2, SubSeqProperties
<1>5. Len(SubSeq(s, 1, Len(s) - 1)) = Len(s) - 1
  <2> DEFINE n == Len(s) - 1
  <2>1. n \in Nat /\ \A i \in 1 .. n : s[i] \in S
    BY <1>1, <1>2
  <2> HIDE DEF n
  <2>2. Len(SubSeq(s, 1, n)) = IF 1 <= n THEN n - 1 + 1 ELSE 0
    BY <2>1, SubSeqProperties
  <2>3. Len(SubSeq(s, 1, n)) = n
    BY <2>1, <2>2
  <2> QED
    BY <2>3 DEF n
<1> QED
  BY <1>1, <1>3, <1>4, <1>5 DEF Front, Last

(* Dividing and multiplying back gives a multiple of the block. *)
LEMMA AlignBlockFacts ==
  ASSUME NEW n \in Nat
  PROVE  AlignBlock(n) \in Nat /\ AlignBlock(n) % Block = 0
<1> DEFINE k == (n + Block - 1) \div Block
<1>1. Block \in Nat \ {0} /\ k \in Nat
  BY SegmentAssumption
<1>2. \A q \in Nat, b \in Nat \ {0} : q * b \in Nat
  OBVIOUS
<1>3. \A q \in Nat, b \in Nat \ {0} : (q * b) % b = 0
  OBVIOUS
<1> QED
  BY <1>1, <1>2, <1>3 DEF AlignBlock

(* An ascending enumeration is an injective sequence of all the elements.  *)
Enumerates(q, S) ==
  /\ q \in Seq(S)
  /\ \A i, j \in 1 .. Len(q) : q[i] = q[j] => i = j
  /\ \A x \in S : \E i \in 1 .. Len(q) : q[i] = x

LEMMA AscendingFacts ==
  ASSUME NEW S, IsFiniteSet(S), S \subseteq Nat, NEW q \in Ascending(S)
  PROVE  Enumerates(q, S)
<1>1. Cardinality(S) \in Nat
  BY FS_CardinalityType
<1>2. q \in [1 .. Cardinality(S) -> S]
  BY DEF Ascending
<1>3. q \in Seq(S) /\ Len(q) = Cardinality(S)
  BY <1>1, <1>2, FunctionIsSeq
<1>4. ASSUME NEW i \in 1 .. Len(q), NEW j \in 1 .. Len(q), q[i] = q[j]
      PROVE  i = j
  <2>1. q[i] \in Nat /\ q[j] \in Nat
    BY <1>2, <1>3
  <2>2. ~(i < j) /\ ~(j < i)
    BY <1>3, <1>4, <2>1 DEF Ascending
  <2> QED
    BY <1>1, <1>3, <2>2
<1> QED
  BY <1>3, <1>4 DEF Ascending, Enumerates

-----------------------------------------------------------------------------
(* The end of a step *)

(* Sweeping appends the slots it empties to a list that had none of them.  *)
LEMMA SweepKeepsPools ==
  ASSUME NEW ts, NEW free, NEW total, PoolsOK(ts, free, total),
         MarkAndSweep(ts, free, total)
  PROVE  PoolsOK(tensors, freeList, elements)'
<1> DEFINE dead == {h \in DOMAIN ts : ts[h] # NoTensor /\ h \notin MarkedHandles'}
<1> HIDE DEF dead
<1>1. /\ ts \in Seq(Slot) /\ free \in Seq(Nat)
      /\ Len(ts) \in Nat /\ Len(free) \in Nat /\ DOMAIN ts = 1 .. Len(ts)
  BY LenProperties DEF PoolsOK
<1>2. dead \in SUBSET (1 .. Len(ts))
  BY <1>1 DEF dead
<1>3. PICK swept \in Ascending(dead) : freeList' = free \o swept
  BY DEF MarkAndSweep, dead
<1>4. tensors' = [h \in DOMAIN ts |-> IF h \in dead THEN NoTensor ELSE ts[h]]
  BY DEF MarkAndSweep, dead
<1>5. elements' \in 0 .. WordModulus - 1
  BY DEF MarkAndSweep, ElementsLeft
<1>6. \A h \in dead : h \in 1 .. Len(ts) /\ ts[h] # NoTensor
  BY <1>1 DEF dead
<1>7. \A h \in 1 .. Len(ts) : tensors'[h] = IF h \in dead THEN NoTensor ELSE ts[h]
  BY <1>1, <1>4
<1>8. tensors' \in Seq(Slot) /\ Len(tensors') = Len(ts)
  <2>1. tensors' \in [1 .. Len(ts) -> Slot]
    <3>1. \A h \in 1 .. Len(ts) : ts[h] \in Slot
      BY <1>1, ElementOfSeq
    <3>2. NoTensor \in Slot
      BY DEF Slot
    <3> QED
      BY <1>1, <1>4, <3>1, <3>2
  <2> QED
    BY <1>1, <2>1, FunctionIsSeq
<1>9. /\ swept \in Seq(dead)
      /\ \A i, j \in 1 .. Len(swept) : swept[i] = swept[j] => i = j
      /\ \A x \in dead : \E i \in 1 .. Len(swept) : swept[i] = x
  <2>1. IsFiniteSet(1 .. Len(ts))
    BY <1>1, FS_Interval
  <2>2. IsFiniteSet(dead)
    BY <1>2, <2>1, FS_Subset
  <2>3. dead \subseteq Nat
    BY <1>1, <1>2
  <2>4. Enumerates(swept, dead)
    BY <1>3, <2>2, <2>3, AscendingFacts
  <2> QED
    BY <2>4 DEF Enumerates
<1>10. /\ Len(swept) \in Nat
       /\ \A i \in 1 .. Len(swept) : swept[i] \in dead
  BY <1>9, ElementOfSeq, LenProperties
<1>11. swept \in Seq(Nat)
  <2>1. dead \subseteq Nat
    BY <1>1, <1>2
  <2> QED
    BY <1>9, <2>1, SeqMonotonic
<1>12. /\ freeList' \in Seq(Nat)
       /\ Len(freeList') = Len(free) + Len(swept)
       /\ \A i \in 1 .. Len(free) + Len(swept) :
            freeList'[i] = IF i <= Len(free) THEN free[i] ELSE swept[i - Len(free)]
  BY <1>1, <1>3, <1>11, ConcatProperties
<1>13. ListsEmptySlots(freeList, tensors)'
  <2> DEFINE f == freeList'
             t == tensors'
  <2>1. ASSUME NEW i \in 1 .. Len(f)
        PROVE  f[i] \in 1 .. Len(t) /\ t[f[i]] = NoTensor
    <3>1. CASE i <= Len(free)
      <4>1. f[i] = free[i] /\ i \in 1 .. Len(free)
        BY <1>1, <1>10, <1>12, <3>1
      <4>2. free[i] \in 1 .. Len(ts) /\ ts[free[i]] = NoTensor
        BY <4>1 DEF PoolsOK, ListsEmptySlots
      <4> QED
        BY <1>7, <1>8, <4>1, <4>2
    <3>2. CASE ~(i <= Len(free))
      <4>1. f[i] = swept[i - Len(free)] /\ i - Len(free) \in 1 .. Len(swept)
        BY <1>1, <1>10, <1>12, <3>2
      <4>2. swept[i - Len(free)] \in dead
        BY <1>10, <4>1
      <4> QED
        BY <1>6, <1>7, <1>8, <4>1, <4>2
    <3> QED
      BY <3>1, <3>2
  <2>2. ASSUME NEW i \in 1 .. Len(f), NEW j \in 1 .. Len(f), f[i] = f[j]
        PROVE  i = j
    <3> DEFINE a == i - Len(free)
               b == j - Len(free)
    <3>1. \A k \in 1 .. Len(f) :
            \/ k \in 1 .. Len(free) /\ f[k] = free[k] /\ ts[f[k]] = NoTensor
            \/ /\ k - Len(free) \in 1 .. Len(swept)
               /\ f[k] = swept[k - Len(free)]
               /\ ts[f[k]] # NoTensor
      <4> TAKE k \in 1 .. Len(f)
      <4>1. CASE k <= Len(free)
        <5>1. f[k] = free[k] /\ k \in 1 .. Len(free)
          BY <1>1, <1>10, <1>12, <4>1
        <5> QED
          BY <5>1 DEF PoolsOK, ListsEmptySlots
      <4>2. CASE ~(k <= Len(free))
        <5>1. f[k] = swept[k - Len(free)] /\ k - Len(free) \in 1 .. Len(swept)
          BY <1>1, <1>10, <1>12, <4>2
        <5> QED
          BY <1>6, <1>10, <5>1
      <4> QED
        BY <4>1, <4>2
    <3>2. CASE ts[f[i]] = NoTensor
      <4>1. /\ i \in 1 .. Len(free) /\ f[i] = free[i]
            /\ j \in 1 .. Len(free) /\ f[j] = free[j]
        BY <2>2, <3>1, <3>2
      <4> QED
        BY <2>2, <4>1 DEF PoolsOK, ListsEmptySlots
    <3>3. CASE ts[f[i]] # NoTensor
      <4>1. /\ a \in 1 .. Len(swept) /\ f[i] = swept[a]
            /\ b \in 1 .. Len(swept) /\ f[j] = swept[b]
        BY <2>2, <3>1, <3>3
      <4>2. a = b
        BY <1>9, <2>2, <4>1
      <4>3. i \in Int /\ j \in Int /\ Len(free) \in Int
        BY <1>1
      <4> HIDE DEF f
      <4> QED
        BY <4>2, <4>3
    <3> QED
      BY <3>2, <3>3
  <2>3. ASSUME NEW h \in 1 .. Len(t), t[h] = NoTensor
        PROVE  \E i \in 1 .. Len(f) : f[i] = h
    <3>1. CASE h \in dead
      <4>1. PICK k \in 1 .. Len(swept) : swept[k] = h
        BY <1>9, <3>1
      <4>2. /\ Len(free) + k \in 1 .. Len(f)
            /\ ~(Len(free) + k <= Len(free))
            /\ Len(free) + k - Len(free) = k
        BY <1>1, <1>10, <1>12
      <4>3. f[Len(free) + k] = swept[Len(free) + k - Len(free)]
        BY <1>12, <4>2
      <4> QED
        BY <4>1, <4>2, <4>3
    <3>2. CASE h \notin dead
      <4>1. h \in 1 .. Len(ts) /\ ts[h] = NoTensor
        BY <1>7, <1>8, <2>3, <3>2
      <4>2. PICK k \in 1 .. Len(free) : free[k] = h
        BY <4>1 DEF PoolsOK, ListsEmptySlots
      <4>3. k \in 1 .. Len(free) + Len(swept) /\ k <= Len(free)
        BY <1>1, <1>10
      <4>4. k \in 1 .. Len(f) /\ f[k] = free[k]
        BY <1>12, <4>3
      <4> QED
        BY <4>2, <4>4
    <3> QED
      BY <3>1, <3>2
  <2> QED
    BY <2>1, <2>2, <2>3 DEF ListsEmptySlots
<1> QED
  BY <1>5, <1>8, <1>12, <1>13 DEF PoolsOK

(* An emptied heap is sound, and no block of it is fresh any more. *)
LEMMA CompactKeepsHeap ==
  ASSUME NEW own, own \in [Regs -> HeapBlock \cup {NoBlock}], CompactHeap(own)
  PROVE  HeapOK(heapPtr, heapFrames, owner)'
<1>1. heapPtr' = HeapStart /\ heapFrames' = <<>> /\ Len(heapFrames') = 0
  BY DEF CompactHeap
<1>2. heapPtr' \in Nat /\ heapPtr' <= HeapLimit /\ heapFrames' \in Seq(Nat \X Nat)
  BY <1>1, SegmentAssumption
<1>3. ASSUME NEW r \in Regs
      PROVE  owner'[r] \in HeapBlock \cup {NoBlock} /\ ~IsFresh(owner'[r])
  BY <1>3 DEF CompactHeap, HeapBlock, IsFresh
<1>4. owner' \in [Regs -> HeapBlock \cup {NoBlock}]
  BY <1>3 DEF CompactHeap
<1>5. TilesHeap(heapPtr, heapFrames)'
  BY <1>1, <1>2 DEF TilesHeap
<1>6. FramesOrdered(heapPtr, heapFrames)'
  BY <1>1 DEF FramesOrdered
<1>7. FreshListed(owner, heapFrames)'
  BY <1>3 DEF FreshListed
<1> QED
  BY <1>2, <1>4, <1>5, <1>6, <1>7 DEF HeapOK

(* Whatever sound pools and heap an instruction leaves, the end of the     *)
(* step leaves them sound too, collection or not.                          *)
LEMMA FinishStepSound ==
  ASSUME NEW ts, NEW free, NEW total, NEW ptr, NEW frames, NEW own,
         PoolsOK(ts, free, total), HeapOK(ptr, frames, own),
         gcTick \in 0 .. GcInterval - 1,
         FinishStep(ts, free, total, ptr, frames, own)
  PROVE  /\ PoolsOK(tensors, freeList, elements)'
         /\ HeapOK(heapPtr, heapFrames, owner)'
         /\ gcTick' \in 0 .. GcInterval - 1
<1>1. CASE IntervalFull
  <2>1. /\ gcTick' = 0
        /\ MarkAndSweep(ts, free, total)
        /\ CompactHeap(own)
    BY <1>1 DEF FinishStep
  <2>2. own \in [Regs -> HeapBlock \cup {NoBlock}]
    BY DEF HeapOK
  <2>3. PoolsOK(tensors, freeList, elements)'
    BY <2>1, SweepKeepsPools
  <2>4. HeapOK(heapPtr, heapFrames, owner)'
    BY <2>1, <2>2, CompactKeepsHeap
  <2> QED
    BY <2>1, <2>3, <2>4, IntervalAssumption
<1>2. CASE ~IntervalFull
  <2>1. /\ gcTick' = gcTick + 1
        /\ tensors' = ts /\ freeList' = free /\ elements' = total
        /\ heapPtr' = ptr /\ heapFrames' = frames /\ owner' = own
    BY <1>2 DEF FinishStep
  <2>2. gcTick' \in 0 .. GcInterval - 1
    BY <1>2, <2>1, IntervalAssumption DEF IntervalFull
  <2>3. PoolsOK(tensors', freeList', elements')
    BY <2>1
  <2>4. HeapOK(heapPtr', heapFrames', owner')
    BY <2>1
  <2> QED
    BY <2>2, <2>3, <2>4 DEF PoolsOK, HeapOK, ListsEmptySlots, TilesHeap,
                            FramesOrdered, FreshListed
<1> QED
  BY <1>1, <1>2

-----------------------------------------------------------------------------
(* What the instructions do to the pools and the heap *)

(* A slot taken from the free list leaves it exact. *)
LEMMA TakeSlotSound ==
  ASSUME PoolsOK(tensors, freeList, elements),
         NEW slot \in Slot, slot # NoTensor, NEW n \in Nat
  PROVE  PoolsOK(TensorsWith(slot), FreeListTaken, (elements + n) % WordModulus)
<1>1. /\ tensors \in Seq(Slot) /\ freeList \in Seq(Nat)
      /\ elements \in Nat
      /\ Len(tensors) \in Nat /\ Len(freeList) \in Nat
  BY LenProperties, PoolAssumption DEF PoolsOK
<1>2. (elements + n) % WordModulus \in 0 .. WordModulus - 1
  BY <1>1, PoolAssumption
<1>3. ListsEmptySlots(freeList, tensors)
  BY DEF PoolsOK
<1>4. CASE freeList # <<>>
  <2> DEFINE k == Len(freeList)
             ts == [tensors EXCEPT ![freeList[k]] = slot]
             free == Front(freeList)
  <2>1. /\ free \in Seq(Nat) /\ Len(free) = k - 1 /\ k \in Nat \ {0}
        /\ \A i \in 1 .. k - 1 : free[i] = freeList[i]
        /\ Last(freeList) = freeList[k]
    BY <1>1, <1>4, FrontFacts
  <2>2. TensorsWith(slot) = ts /\ FreeListTaken = free
    BY <1>4, <2>1 DEF TensorsWith, SlotTaken, FreeListTaken
  <2>3. freeList[k] \in 1 .. Len(tensors)
    BY <1>3, <2>1 DEF ListsEmptySlots
  <2>4. /\ ts \in Seq(Slot) /\ Len(ts) = Len(tensors)
        /\ \A h \in 1 .. Len(tensors) :
             ts[h] = IF h = freeList[k] THEN slot ELSE tensors[h]
    BY <1>1, <2>3, ExceptSeq
  <2> HIDE DEF ts, free
  <2>5. ASSUME NEW i \in 1 .. Len(free)
        PROVE  free[i] \in 1 .. Len(ts) /\ ts[free[i]] = NoTensor
    <3>1. i \in 1 .. k /\ i # k /\ k \in 1 .. k /\ free[i] = freeList[i]
      BY <2>1
    <3>2. freeList[i] # freeList[k]
      BY <1>3, <3>1 DEF ListsEmptySlots
    <3>3. freeList[i] \in 1 .. Len(tensors) /\ tensors[freeList[i]] = NoTensor
      BY <1>3, <3>1 DEF ListsEmptySlots
    <3> QED
      BY <2>4, <3>1, <3>2, <3>3
  <2>6. ASSUME NEW i \in 1 .. Len(free), NEW j \in 1 .. Len(free), free[i] = free[j]
        PROVE  i = j
    <3>1. i \in 1 .. k /\ j \in 1 .. k /\ freeList[i] = freeList[j]
      BY <2>1, <2>6
    <3> QED
      BY <1>3, <3>1 DEF ListsEmptySlots
  <2>7. ASSUME NEW h \in 1 .. Len(ts), ts[h] = NoTensor
        PROVE  \E i \in 1 .. Len(free) : free[i] = h
    <3>1. h \in 1 .. Len(tensors) /\ h # freeList[k] /\ tensors[h] = NoTensor
      BY <2>4, <2>7
    <3>2. PICK i \in 1 .. k : freeList[i] = h
      BY <1>3, <3>1 DEF ListsEmptySlots
    <3>3. i \in 1 .. Len(free) /\ free[i] = freeList[i]
      BY <2>1, <3>1, <3>2
    <3> QED
      BY <3>2, <3>3
  <2>8. ListsEmptySlots(free, ts)
    BY <2>5, <2>6, <2>7 DEF ListsEmptySlots
  <2> QED
    BY <1>2, <2>1, <2>2, <2>4, <2>8 DEF PoolsOK
<1>5. CASE freeList = <<>>
  <2> DEFINE ts == Append(tensors, slot)
  <2>1. TensorsWith(slot) = ts /\ FreeListTaken = freeList /\ Len(freeList) = 0
    BY <1>5 DEF TensorsWith, FreeListTaken
  <2>2. /\ ts \in Seq(Slot) /\ Len(ts) = Len(tensors) + 1
        /\ \A h \in 1 .. Len(tensors) : ts[h] = tensors[h]
        /\ ts[Len(tensors) + 1] = slot
    BY <1>1, AppendProperties
  <2> HIDE DEF ts
  <2>3. ASSUME NEW h \in 1 .. Len(ts)
        PROVE  ts[h] # NoTensor
    <3>1. CASE h \in 1 .. Len(tensors)
      BY <1>3, <2>1, <2>2, <3>1 DEF ListsEmptySlots
    <3>2. CASE h = Len(tensors) + 1
      BY <2>2, <3>2
    <3> QED
      BY <1>1, <2>2, <3>1, <3>2
  <2>4. ListsEmptySlots(freeList, ts)
    BY <2>1, <2>3 DEF ListsEmptySlots
  <2> QED
    BY <1>1, <1>2, <2>1, <2>2, <2>4 DEF PoolsOK
<1> QED
  BY <1>4, <1>5

(* Overwriting a register can only drop a block from the history. *)
LEMMA RegisterWriteSound ==
  ASSUME HeapOK(heapPtr, heapFrames, owner), NEW r \in Regs
  PROVE  /\ HeapOK(heapPtr, heapFrames, Disown(r))
         /\ \A src \in Regs :
              HeapOK(heapPtr, heapFrames, [owner EXCEPT ![r] = owner[src]])
<1>1. HeapOK(heapPtr, heapFrames, Disown(r))
  BY DEF HeapOK, Disown, FreshListed, IsFresh
<1>2. ASSUME NEW src \in Regs
      PROVE  HeapOK(heapPtr, heapFrames, [owner EXCEPT ![r] = owner[src]])
  BY DEF HeapOK, FreshListed
<1> QED
  BY <1>1, <1>2

(* A block taken at the end of the heap extends the tiling. *)
LEMMA AllocBlockSound ==
  ASSUME HeapOK(heapPtr, heapFrames, owner), NEW r \in Regs,
         NEW size \in Nat, size % Block = 0, heapPtr + size <= HeapLimit
  PROVE  HeapOK(heapPtr + size, Append(heapFrames, <<heapPtr, size>>),
                [owner EXCEPT ![r] = [addr |-> heapPtr, size |-> size, fresh |-> TRUE]])
<1> DEFINE k == Len(heapFrames)
           ptr == heapPtr + size
           frames == Append(heapFrames, <<heapPtr, size>>)
           block == [addr |-> heapPtr, size |-> size, fresh |-> TRUE]
           own == [owner EXCEPT ![r] = block]
<1>1. /\ heapPtr \in Nat /\ heapFrames \in Seq(Nat \X Nat) /\ k \in Nat
      /\ owner \in [Regs -> HeapBlock \cup {NoBlock}]
      /\ TilesHeap(heapPtr, heapFrames) /\ FramesOrdered(heapPtr, heapFrames)
      /\ FreshListed(owner, heapFrames)
  BY LenProperties DEF HeapOK
<1>2. <<heapPtr, size>> \in Nat \X Nat
  BY <1>1
<1>3. /\ frames \in Seq(Nat \X Nat) /\ frames # <<>> /\ Len(frames) = k + 1
      /\ \A i \in 1 .. k : frames[i] = heapFrames[i]
      /\ frames[k + 1] = <<heapPtr, size>>
  BY <1>1, <1>2, AppendProperties
<1>4. own \in [Regs -> HeapBlock \cup {NoBlock}] /\ own[r] = block
  BY <1>1 DEF HeapBlock
<1>5. ptr \in Nat
  BY <1>1
<1>6. \A i \in 1 .. k + 1 : i \in 1 .. k \/ i = k + 1
  BY <1>1
<1>7. End(<<heapPtr, size>>) = ptr
  BY DEF End
<1> HIDE DEF frames
<1>8. TilesHeap(ptr, frames)
  <2>1. ASSUME NEW i \in 1 .. Len(frames)
        PROVE  /\ frames[i][1] = IF i = 1 THEN HeapStart ELSE End(frames[i - 1])
               /\ frames[i][2] % Block = 0
    <3>1. CASE i \in 1 .. k
      <4>1. i # 1 => i - 1 \in 1 .. k
        BY <1>1, <3>1
      <4> QED
        BY <1>1, <1>3, <3>1, <4>1 DEF TilesHeap
    <3>2. CASE i = k + 1
      <4>1. frames[i][1] = heapPtr /\ frames[i][2] = size /\ i - 1 = k
        BY <1>1, <1>3, <3>2
      <4>2. k # 0 => heapFrames # <<>> /\ k \in 1 .. k
        BY <1>1
      <4>3. k = 0 => heapFrames = <<>>
        BY <1>1, EmptySeq
      <4>4. heapPtr = IF k = 0 THEN HeapStart ELSE End(heapFrames[k])
        BY <1>1, <4>2, <4>3 DEF TilesHeap
      <4>5. i = 1 <=> k = 0
        BY <1>1, <3>2
      <4>6. k # 0 => heapFrames[k] = frames[i - 1]
        BY <1>3, <4>1, <4>2
      <4> QED
        BY <4>1, <4>4, <4>5, <4>6
    <3> QED
      BY <1>3, <1>6, <3>1, <3>2
  <2> QED
    BY <1>3, <1>7, <2>1 DEF TilesHeap
<1>9. FramesOrdered(ptr, frames)
  <2>1. ASSUME NEW i \in 1 .. Len(frames)
        PROVE  End(frames[i]) <= ptr
    <3>1. CASE i \in 1 .. k
      <4>1. End(frames[i]) <= heapPtr
        BY <1>1, <1>3, <3>1 DEF FramesOrdered
      <4>2. End(frames[i]) \in Nat
        BY <1>3, ElementOfSeq DEF End
      <4> QED
        BY <1>1, <4>1, <4>2
    <3>2. CASE i = k + 1
      <4>1. frames[i][1] + frames[i][2] = ptr
        BY <1>3, <3>2
      <4> QED
        BY <1>5, <4>1 DEF End
    <3> QED
      BY <1>3, <1>6, <3>1, <3>2
  <2>2. ASSUME NEW i \in 1 .. Len(frames), NEW j \in 1 .. Len(frames), i < j
        PROVE  End(frames[i]) <= frames[j][1]
    <3>1. i \in 1 .. k
      BY <1>1, <1>3, <2>2
    <3>2. CASE j \in 1 .. k
      BY <1>1, <1>3, <2>2, <3>1, <3>2 DEF FramesOrdered
    <3>3. CASE j = k + 1
      BY <1>1, <1>3, <3>1, <3>3 DEF FramesOrdered
    <3> QED
      BY <1>3, <1>6, <3>2, <3>3
  <2> QED
    BY <2>1, <2>2 DEF FramesOrdered
<1>10. FreshListed(own, frames)
  <2>1. ASSUME NEW q \in Regs, IsFresh(own[q])
        PROVE  \E i \in 1 .. Len(frames) : frames[i] = <<own[q].addr, own[q].size>>
    <3>1. CASE q = r
      <4>1. own[q].addr = heapPtr /\ own[q].size = size
        BY <1>4, <3>1
      <4>2. k + 1 \in 1 .. Len(frames)
        BY <1>1, <1>3
      <4> QED
        BY <1>3, <4>1, <4>2
    <3>2. CASE q # r
      <4>1. own[q] = owner[q]
        BY <1>1, <3>2
      <4>2. PICK i \in 1 .. Len(heapFrames) :
              heapFrames[i] = <<owner[q].addr, owner[q].size>>
        BY <1>1, <2>1, <4>1 DEF FreshListed, IsFresh
      <4>3. i \in 1 .. Len(frames)
        BY <1>1, <1>3
      <4>4. frames[i] = heapFrames[i]
        BY <1>3
      <4> QED
        BY <4>1, <4>2, <4>3, <4>4
    <3> QED
      BY <3>1, <3>2
  <2> QED
    BY <2>1 DEF FreshListed
<1> QED
  BY <1>3, <1>4, <1>5, <1>8, <1>9, <1>10 DEF HeapOK, frames

(* Giving back the newest block shortens the tiling. *)
LEMMA FreeBlockSound ==
  ASSUME HeapOK(heapPtr, heapFrames, owner), NEW ptr, NEW size, CanFree(ptr, size)
  PROVE  HeapOK(ptr, Front(heapFrames),
                [q \in Regs |->
                   IF owner[q] = [addr |-> ptr, size |-> size, fresh |-> TRUE]
                   THEN NoBlock ELSE owner[q]])
<1> DEFINE k == Len(heapFrames)
           frames == Front(heapFrames)
           own == [q \in Regs |->
                     IF owner[q] = [addr |-> ptr, size |-> size, fresh |-> TRUE]
                     THEN NoBlock ELSE owner[q]]
<1>1. /\ heapPtr \in Nat /\ heapFrames \in Seq(Nat \X Nat)
      /\ owner \in [Regs -> HeapBlock \cup {NoBlock}]
      /\ TilesHeap(heapPtr, heapFrames) /\ FramesOrdered(heapPtr, heapFrames)
      /\ FreshListed(owner, heapFrames)
  BY DEF HeapOK
<1>2. /\ frames \in Seq(Nat \X Nat) /\ Len(frames) = k - 1
      /\ \A i \in 1 .. k - 1 : frames[i] = heapFrames[i]
      /\ heapFrames[k] = <<ptr, size>>
      /\ k \in Nat \ {0}
  BY <1>1, FrontFacts DEF CanFree
<1>3. own \in [Regs -> HeapBlock \cup {NoBlock}]
  BY <1>1
<1>4. k \in 1 .. k /\ <<ptr, size>> \in Nat \X Nat
  BY <1>1, <1>2, ElementOfSeq
<1>5. ptr \in Nat /\ size \in Nat
  BY <1>4
<1> HIDE DEF frames
<1>6. /\ \A i \in 1 .. k - 1 : i \in 1 .. k /\ frames[i] = heapFrames[i]
      /\ 1 .. Len(frames) = 1 .. k - 1
      /\ heapFrames[k][1] = ptr /\ heapFrames[k][2] = size
  BY <1>2
<1>7. TilesHeap(ptr, frames)
  <2>1. ptr <= HeapLimit
    <3>1. ptr + size <= heapPtr
      BY <1>1, <1>4, <1>6 DEF FramesOrdered, End
    <3>2. heapPtr <= HeapLimit
      BY <1>1 DEF TilesHeap
    <3> QED
      BY <1>1, <1>5, <3>1, <3>2, SegmentAssumption
  <2>2. ptr = IF frames = <<>> THEN HeapStart ELSE End(frames[Len(frames)])
    <3>1. ptr = IF k = 1 THEN HeapStart ELSE End(heapFrames[k - 1])
      BY <1>1, <1>4, <1>6 DEF TilesHeap
    <3>2. CASE k = 1
      <4>1. frames = <<>>
        BY <1>2, <3>2, EmptySeq
      <4> QED
        BY <3>1, <3>2, <4>1
    <3>3. CASE k # 1
      <4>1. k - 1 \in 1 .. k - 1 /\ frames # <<>>
        BY <1>2, <3>3, EmptySeq
      <4>2. frames[k - 1] = heapFrames[k - 1]
        BY <1>2, <4>1
      <4> QED
        BY <1>2, <3>1, <3>3, <4>1, <4>2
    <3> QED
      BY <3>2, <3>3
  <2>3. ASSUME NEW i \in 1 .. Len(frames)
        PROVE  /\ frames[i][1] = IF i = 1 THEN HeapStart ELSE End(frames[i - 1])
               /\ frames[i][2] % Block = 0
    <3>1. i \in 1 .. k /\ frames[i] = heapFrames[i]
      BY <1>6
    <3>2. i # 1 => frames[i - 1] = heapFrames[i - 1]
      <4>1. i \in 1 .. k - 1 /\ k \in Nat
        BY <1>2
      <4>2. i # 1 => i - 1 \in 1 .. k - 1
        BY ONLY <4>1
      <4> QED
        BY <1>6, <4>2
    <3> QED
      BY <1>1, <3>1, <3>2 DEF TilesHeap
  <2> QED
    BY <2>1, <2>2, <2>3 DEF TilesHeap
<1>8. FramesOrdered(ptr, frames)
  <2>1. ASSUME NEW i \in 1 .. Len(frames)
        PROVE  End(frames[i]) <= ptr
    <3>1. i \in 1 .. k /\ i < k /\ frames[i] = heapFrames[i]
      BY <1>2, <1>6
    <3> QED
      BY <1>1, <1>4, <1>6, <3>1 DEF FramesOrdered
  <2>2. ASSUME NEW i \in 1 .. Len(frames), NEW j \in 1 .. Len(frames), i < j
        PROVE  End(frames[i]) <= frames[j][1]
    <3>1. i \in 1 .. k /\ frames[i] = heapFrames[i]
      BY <1>6
    <3>2. j \in 1 .. k /\ frames[j] = heapFrames[j]
      BY <1>6
    <3> QED
      BY <1>1, <2>2, <3>1, <3>2 DEF FramesOrdered
  <2> QED
    BY <2>1, <2>2 DEF FramesOrdered
<1>9. FreshListed(own, frames)
  <2>1. ASSUME NEW q \in Regs, IsFresh(own[q])
        PROVE  \E i \in 1 .. Len(frames) : frames[i] = <<own[q].addr, own[q].size>>
    <3>1. /\ own[q] = owner[q] /\ IsFresh(owner[q])
          /\ owner[q] # [addr |-> ptr, size |-> size, fresh |-> TRUE]
      BY <2>1 DEF IsFresh
    <3>2. PICK i \in 1 .. k : heapFrames[i] = <<owner[q].addr, owner[q].size>>
      BY <1>1, <3>1 DEF FreshListed
    <3>3. i # k
      <4>1. owner[q] \in HeapBlock /\ owner[q].fresh = TRUE
        BY <1>1, <3>1 DEF IsFresh, HeapBlock
      <4>2. SUFFICES ASSUME i = k PROVE FALSE
        OBVIOUS
      <4>3. owner[q].addr = ptr /\ owner[q].size = size
        BY <1>6, <3>2, <4>2
      <4> QED
        BY <3>1, <4>1, <4>3 DEF HeapBlock
    <3>4. i \in 1 .. Len(frames) /\ frames[i] = heapFrames[i]
      BY <1>2, <1>6, <3>3
    <3> QED
      BY <3>1, <3>2, <3>4
  <2> QED
    BY <2>1 DEF FreshListed
<1> QED
  BY <1>2, <1>3, <1>5, <1>7, <1>8, <1>9 DEF HeapOK, frames

(* In a sound heap no two fresh blocks share a byte. *)
LEMMA SoundHeapDisjoint ==
  ASSUME HeapOK(heapPtr, heapFrames, owner)
  PROVE  FreshBlocksDisjoint
<1>1. /\ FreshListed(owner, heapFrames) /\ FramesOrdered(heapPtr, heapFrames)
      /\ owner \in [Regs -> HeapBlock \cup {NoBlock}]
      /\ heapFrames \in Seq(Nat \X Nat) /\ Len(heapFrames) \in Nat
  BY LenProperties DEF HeapOK
<1>2. ASSUME NEW r \in Regs, NEW q \in Regs,
             IsFresh(owner[r]), IsFresh(owner[q]), owner[r] # owner[q]
      PROVE  ~Overlap(owner[r], owner[q])
  <2>1. PICK i \in 1 .. Len(heapFrames) :
          heapFrames[i] = <<owner[r].addr, owner[r].size>>
    BY <1>1, <1>2 DEF FreshListed
  <2>2. PICK j \in 1 .. Len(heapFrames) :
          heapFrames[j] = <<owner[q].addr, owner[q].size>>
    BY <1>1, <1>2 DEF FreshListed
  <2>3. /\ owner[r] \in HeapBlock /\ owner[r].fresh = TRUE
        /\ owner[q] \in HeapBlock /\ owner[q].fresh = TRUE
    BY <1>1, <1>2 DEF IsFresh, HeapBlock
  <2>4. i # j
    <3>1. SUFFICES ASSUME i = j PROVE FALSE
      OBVIOUS
    <3>2. owner[r].addr = owner[q].addr /\ owner[r].size = owner[q].size
      BY <2>1, <2>2, <3>1
    <3> QED
      BY <1>2, <2>3, <3>2 DEF HeapBlock
  <2>5. /\ End(heapFrames[i]) = owner[r].addr + owner[r].size
        /\ heapFrames[i][1] = owner[r].addr
        /\ End(heapFrames[j]) = owner[q].addr + owner[q].size
        /\ heapFrames[j][1] = owner[q].addr
    BY <2>1, <2>2 DEF End
  <2>6. \/ End(heapFrames[i]) <= heapFrames[j][1]
        \/ End(heapFrames[j]) <= heapFrames[i][1]
    <3>1. i < j \/ j < i
      BY <2>4
    <3>2. \A a, b \in 1 .. Len(heapFrames) : a < b => End(heapFrames[a]) <= heapFrames[b][1]
      BY <1>1 DEF FramesOrdered
    <3> QED
      BY <3>1, <3>2
  <2> QED
    BY <2>3, <2>5, <2>6 DEF Overlap, HeapBlock
<1> QED
  BY <1>1, <1>2 DEF FreshBlocksDisjoint

-----------------------------------------------------------------------------
(* The inductive invariant *)

LEMMA InitIInv == Init => IInv
<1> SUFFICES ASSUME Init PROVE IInv
  OBVIOUS
<1> USE DEF Init
<1>1. MemoryOK
  <2>1. IntValue(0) \in Value
    BY DEF IntValue, Value
  <2> QED
    BY <2>1, EmptySeq DEF MemoryOK
<1>2. PoolsOK(tensors, freeList, elements)
  <2>1. /\ Len(Pool) \in Nat /\ DOMAIN Pool = 1 .. Len(Pool)
        /\ \A h \in 1 .. Len(Pool) : Pool[h] \in Nat
    BY PoolAssumption, LenProperties, ElementOfSeq
  <2>2. tensors \in [1 .. Len(Pool) -> Slot]
    BY <2>1 DEF Slot
  <2>3. tensors \in Seq(Slot) /\ Len(tensors) = Len(Pool)
    BY <2>1, <2>2, FunctionIsSeq
  <2>4. \A h \in 1 .. Len(tensors) : tensors[h] # NoTensor
    <3>1. \A h \in 1 .. Len(Pool) : tensors[h] \in [size : Nat, literal : BOOLEAN]
      BY <2>1
    <3> QED
      BY <2>3, <3>1, PoolAssumption
  <2>5. freeList \in Seq(Nat) /\ Len(freeList) = 0
    BY EmptySeq
  <2>6. ListsEmptySlots(freeList, tensors)
    BY <2>4, <2>5 DEF ListsEmptySlots
  <2> QED
    BY <2>3, <2>5, <2>6, PoolAssumption DEF PoolsOK
<1>3. HeapOK(heapPtr, heapFrames, owner)
  <2>1. heapFrames \in Seq(Nat \X Nat) /\ Len(heapFrames) = 0 /\ heapFrames = <<>>
    BY EmptySeq
  <2>2. FreshListed(owner, heapFrames)
    BY DEF FreshListed, IsFresh
  <2>3. TilesHeap(heapPtr, heapFrames)
    BY <2>1, SegmentAssumption DEF TilesHeap
  <2>4. FramesOrdered(heapPtr, heapFrames)
    BY <2>1 DEF FramesOrdered
  <2> QED
    BY <2>1, <2>2, <2>3, <2>4, SegmentAssumption DEF HeapOK
<1>4. gcTick \in 0 .. GcInterval - 1
  BY IntervalAssumption
<1> QED
  BY <1>1, <1>2, <1>3, <1>4 DEF IInv

(* A step that leaves pools and heap alone but for the history. *)
LEMMA FinishPlainSound ==
  ASSUME IInv, NEW own, HeapOK(heapPtr, heapFrames, own), FinishPlain(own), MemoryOK'
  PROVE  IInv'
<1>1. PoolsOK(tensors, freeList, elements) /\ gcTick \in 0 .. GcInterval - 1
  BY DEF IInv
<1>2. FinishStep(tensors, freeList, elements, heapPtr, heapFrames, own)
  BY DEF FinishPlain
<1> QED
  BY <1>1, <1>2, FinishStepSound DEF IInv

LEMMA NextIInv == IInv /\ [Next]_vars => IInv'
<1> SUFFICES ASSUME IInv, [Next]_vars PROVE IInv'
  OBVIOUS
<1>1. /\ reg \in [Regs -> Value] /\ cell \in [Cells -> Value]
      /\ options \in Seq(Value) /\ snapshots \in Seq([Regs -> Value])
      /\ PoolsOK(tensors, freeList, elements)
      /\ HeapOK(heapPtr, heapFrames, owner)
      /\ gcTick \in 0 .. GcInterval - 1
      /\ heapPtr \in Nat
  BY DEF IInv, MemoryOK, HeapOK
<1>2. /\ Len(options) \in Nat /\ Len(snapshots) \in Nat
      /\ DOMAIN options = 1 .. Len(options)
      /\ \A k \in DOMAIN options : options[k] \in Value
  BY <1>1, LenProperties, ElementOfSeq
<1>3. /\ \A n \in Nat : IntValue(n) \in Value
      /\ \A n \in Nat : TensorHandle(n) \in Value
      /\ \A n \in Nat : OptionHandle(n) \in Value
      /\ \A x \in Value : x.v \in Nat
  BY DEF IntValue, TensorHandle, OptionHandle, Value
<1>4. ASSUME NEW r \in Regs, NEW x \in Value,
             reg' = [reg EXCEPT ![r] = x], UNCHANGED <<cell, options, snapshots>>
      PROVE  MemoryOK'
  BY <1>1, <1>4 DEF MemoryOK
<1>5. ASSUME Trapped PROVE IInv'
  <2>1. MemoryOK'
    BY <1>1, <1>5 DEF Trapped, MemoryOK
  <2> QED
    BY <1>1, <1>5, <2>1, FinishPlainSound DEF Trapped
<1>6. ASSUME NEW r \in Regs, FinishPlain(Disown(r)), MemoryOK' PROVE IInv'
  BY <1>1, <1>6, RegisterWriteSound, FinishPlainSound
<1>7. ASSUME NEW r \in Regs, NEW n \in Ints, SetInt(r, n) PROVE IInv'
  <2>1. IntValue(n) \in Value
    BY <1>3, IntervalAssumption
  <2>2. MemoryOK'
    BY <1>4, <1>7, <2>1 DEF SetInt
  <2> QED
    BY <1>6, <1>7, <2>2 DEF SetInt
<1>8. ASSUME NEW r \in Regs, MetaReflect(r) PROVE IInv'
  <2>1. CASE Len(snapshots) < MaxReflections
    <3>1. /\ snapshots' = Append(snapshots, reg)
          /\ reg' = [reg EXCEPT ![r] = IntValue(Len(snapshots) + 1)]
          /\ UNCHANGED <<cell, options>>
          /\ FinishPlain(Disown(r))
      BY <1>8, <2>1 DEF MetaReflect
    <3>2. snapshots' \in Seq([Regs -> Value])
      BY <1>1, <3>1, AppendProperties
    <3>3. IntValue(Len(snapshots) + 1) \in Value
      BY <1>2, <1>3
    <3>4. MemoryOK'
      BY <1>1, <3>1, <3>2, <3>3 DEF MemoryOK
    <3> QED
      BY <1>6, <3>1, <3>4
  <2>2. CASE ~(Len(snapshots) < MaxReflections)
    BY <1>5, <1>8, <2>2 DEF MetaReflect
  <2> QED
    BY <2>1, <2>2
<1>9. ASSUME NEW r \in Regs, NEW h \in DOMAIN Pool, LoadTensorLiteral(r, h) PROVE IInv'
  <2>1. h \in Nat
    BY PoolAssumption, LenProperties
  <2>2. MemoryOK'
    BY <1>3, <1>4, <1>9, <2>1 DEF LoadTensorLiteral
  <2> QED
    BY <1>6, <1>9, <2>2 DEF LoadTensorLiteral
<1>10. ASSUME NEW r \in Regs, NEW c \in Cells, Load(r, c) PROVE IInv'
  <2>1. MemoryOK'
    BY <1>1, <1>4, <1>10 DEF Load
  <2> QED
    BY <1>6, <1>10, <2>1 DEF Load
<1>11. ASSUME NEW r \in Regs, NEW c \in Cells, Store(c, r) PROVE IInv'
  <2>1. MemoryOK'
    BY <1>1, <1>11 DEF Store, MemoryOK
  <2> QED
    BY <1>1, <1>11, <2>1, FinishPlainSound DEF Store
<1>12. ASSUME NEW r \in Regs, NEW n \in Nat, AllocTensor(r, n) PROVE IInv'
  <2>1. CASE TooManyTensors \/ TooManyElements(n)
    BY <1>5, <1>12, <2>1 DEF AllocTensor
  <2>2. CASE ~(TooManyTensors \/ TooManyElements(n))
    <3> DEFINE slot == [size |-> n, literal |-> FALSE]
    <3>1. /\ reg' = [reg EXCEPT ![r] = TensorHandle(SlotTaken)]
          /\ UNCHANGED <<cell, options, snapshots>>
          /\ FinishStep(TensorsWith(slot), FreeListTaken,
                        (elements + n) % WordModulus, heapPtr, heapFrames, Disown(r))
      BY <1>12, <2>2 DEF AllocTensor
    <3>2. slot \in Slot /\ slot # NoTensor
      <4>1. slot \in [size : Nat, literal : BOOLEAN]
        OBVIOUS
      <4> QED
        BY <4>1, PoolAssumption DEF Slot
    <3>3. PoolsOK(TensorsWith(slot), FreeListTaken, (elements + n) % WordModulus)
      BY <1>1, <3>2, TakeSlotSound
    <3>4. HeapOK(heapPtr, heapFrames, Disown(r))
      BY <1>1, RegisterWriteSound
    <3>5. SlotTaken \in Nat
      <4>1. tensors \in Seq(Slot) /\ freeList \in Seq(Nat)
        BY <1>1 DEF PoolsOK
      <4>2. freeList # <<>> => Last(freeList) \in Nat
        <5> SUFFICES ASSUME freeList # <<>> PROVE Last(freeList) \in Nat
          OBVIOUS
        <5>1. Last(freeList) = freeList[Len(freeList)] /\ Len(freeList) \in Nat \ {0}
          BY <4>1, FrontFacts
        <5>2. Len(freeList) \in 1 .. Len(freeList)
          BY <5>1
        <5> QED
          BY <4>1, <5>1, <5>2, ElementOfSeq
      <4>3. Len(tensors) + 1 \in Nat
        BY <4>1, LenProperties
      <4> QED
        BY <4>2, <4>3 DEF SlotTaken
    <3>6. MemoryOK'
      BY <1>3, <1>4, <3>1, <3>5
    <3> QED
      BY <1>1, <3>1, <3>3, <3>4, <3>6, FinishStepSound DEF IInv
  <2> QED
    BY <2>1, <2>2
<1>13. ASSUME NEW r \in Regs, NEW n \in Sizes, TNew(r, n) PROVE IInv'
  BY <1>12, <1>13, PoolAssumption DEF TNew
<1>14. ASSUME NEW r \in Regs, NEW src \in Regs, TensorOp(r, src) PROVE IInv'
  <2>1. CASE reg[src].tag = "Tensor" /\ reg[src].v \in Occupied
    <3>1. tensors[reg[src].v] \in Slot /\ tensors[reg[src].v] # NoTensor
      BY <1>1, <2>1, ElementOfSeq, LenProperties DEF Occupied, PoolsOK
    <3>2. tensors[reg[src].v].size \in Nat
      BY <3>1 DEF Slot
    <3> QED
      BY <1>12, <1>14, <2>1, <3>2 DEF TensorOp
  <2>2. CASE ~(reg[src].tag = "Tensor" /\ reg[src].v \in Occupied)
    BY <1>5, <1>14, <2>2 DEF TensorOp
  <2> QED
    BY <2>1, <2>2
<1>15. ASSUME NEW r \in Regs, NEW n \in HeapSizes, HeapAlloc(r, n) PROVE IInv'
  <2> DEFINE size == AlignBlock(n)
  <2>1. size \in Nat /\ size % Block = 0
    BY AlignBlockFacts, SegmentAssumption
  <2> HIDE DEF size
  <2>2. CASE heapPtr + size <= HeapLimit /\ reg[r].v = 0
    <3>1. /\ reg' = [reg EXCEPT ![r] = IntValue(heapPtr)]
          /\ UNCHANGED <<cell, options, snapshots>>
          /\ FinishStep(tensors, freeList, elements, heapPtr + size,
                        Append(heapFrames, <<heapPtr, size>>),
                        [owner EXCEPT ![r] =
                           [addr |-> heapPtr, size |-> size, fresh |-> TRUE]])
      BY <1>15, <2>2 DEF HeapAlloc, size
    <3>2. MemoryOK'
      BY <1>1, <1>3, <1>4, <3>1
    <3>3. HeapOK(heapPtr + size, Append(heapFrames, <<heapPtr, size>>),
                 [owner EXCEPT ![r] =
                    [addr |-> heapPtr, size |-> size, fresh |-> TRUE]])
      BY <1>1, <2>1, <2>2, AllocBlockSound
    <3> QED
      BY <1>1, <3>1, <3>2, <3>3, FinishStepSound DEF IInv
  <2>3. CASE ~(heapPtr + size <= HeapLimit /\ reg[r].v = 0)
    BY <1>5, <1>15, <2>3 DEF HeapAlloc, size
  <2> QED
    BY <2>2, <2>3
<1>16. ASSUME NEW r \in Regs, NEW n \in HeapSizes, HeapFree(r, n) PROVE IInv'
  <2> DEFINE ptr == reg[r].v
             size == AlignBlock(n)
             own == [q \in Regs |->
                       IF owner[q] = [addr |-> ptr, size |-> size, fresh |-> TRUE]
                       THEN NoBlock ELSE owner[q]]
  <2>1. CASE CanFree(ptr, size)
    <3>1. /\ UNCHANGED <<reg, cell, options, snapshots>>
          /\ FinishStep(tensors, freeList, elements, ptr, Front(heapFrames), own)
      BY <1>16, <2>1 DEF HeapFree
    <3>2. MemoryOK'
      BY <1>1, <3>1 DEF MemoryOK
    <3>3. HeapOK(ptr, Front(heapFrames), own)
      BY <1>1, <2>1, FreeBlockSound
    <3> QED
      BY <1>1, <3>1, <3>2, <3>3, FinishStepSound DEF IInv
  <2>2. CASE ~CanFree(ptr, size)
    BY <1>5, <1>16, <2>2 DEF HeapFree
  <2> QED
    BY <2>1, <2>2
<1>17. ASSUME NEW r \in Regs, NEW src \in Regs, Mov(r, src) PROVE IInv'
  <2>1. MemoryOK'
    BY <1>1, <1>4, <1>17 DEF Mov
  <2>2. HeapOK(heapPtr, heapFrames, [owner EXCEPT ![r] = owner[src]])
    BY <1>1, RegisterWriteSound
  <2> QED
    BY <1>17, <2>1, <2>2, FinishPlainSound DEF Mov
<1>18. ASSUME NEW r \in Regs, NEW src \in Regs, MakeOptionSome(r, src) PROVE IInv'
  <2>1. FinishPlain(Disown(r)) /\ UNCHANGED <<cell, snapshots>>
    BY <1>18 DEF MakeOptionSome
  <2>2. CASE \E k \in DOMAIN options :
               /\ options[k] = reg[src]
               /\ reg' = [reg EXCEPT ![r] = OptionHandle(k)]
               /\ UNCHANGED options
    <3>1. PICK k \in DOMAIN options :
            /\ reg' = [reg EXCEPT ![r] = OptionHandle(k)]
            /\ UNCHANGED options
      BY <2>2
    <3>2. OptionHandle(k) \in Value
      BY <1>2, <1>3
    <3>3. MemoryOK'
      BY <1>1, <2>1, <3>1, <3>2 DEF MemoryOK
    <3> QED
      BY <1>6, <2>1, <3>3
  <2>3. CASE /\ options' = Append(options, reg[src])
             /\ reg' = [reg EXCEPT ![r] = OptionHandle(Len(options) + 1)]
    <3>1. options' \in Seq(Value)
      BY <1>1, <2>3, AppendProperties
    <3>2. OptionHandle(Len(options) + 1) \in Value
      BY <1>2, <1>3
    <3>3. MemoryOK'
      BY <1>1, <2>1, <2>3, <3>1, <3>2 DEF MemoryOK
    <3> QED
      BY <1>6, <2>1, <3>3
  <2> QED
    BY <1>18, <2>2, <2>3 DEF MakeOptionSome
<1>19. ASSUME NEW r \in Regs, NEW src \in Regs, OptionUnwrap(r, src) PROVE IInv'
  <2>1. CASE reg[src].tag = "Option" /\ reg[src].v \in DOMAIN options
    <3>1. MemoryOK'
      BY <1>2, <1>4, <1>19, <2>1 DEF OptionUnwrap
    <3> QED
      BY <1>6, <1>19, <2>1, <3>1 DEF OptionUnwrap
  <2>2. CASE ~(reg[src].tag = "Option" /\ reg[src].v \in DOMAIN options)
    BY <1>5, <1>19, <2>2 DEF OptionUnwrap
  <2> QED
    BY <2>1, <2>2
<1>20. ASSUME UNCHANGED vars PROVE IInv'
  BY <1>1, <1>20 DEF vars, IInv, MemoryOK, PoolsOK, HeapOK, ListsEmptySlots,
                     TilesHeap, FramesOrdered, FreshListed
<1> QED
  BY <1>5, <1>7, <1>8, <1>9, <1>10, <1>11, <1>13, <1>14, <1>15, <1>16, <1>17,
     <1>18, <1>19, <1>20 DEF Next

-----------------------------------------------------------------------------
(* The theorems *)

(* The inductive invariant holds in every reachable state. *)
THEOREM StorageInvariant == Spec => []IInv
BY InitIInv, NextIInv, PTL DEF Spec

(* Whatever a program does, the registers, the tables, the pools and the   *)
(* heap keep their shape; in particular the element counter stays in its   *)
(* machine word and the interval counter below the interval.               *)
THEOREM TypeCorrect == Spec => []TypeOK
<1>1. IInv => TypeOK
  BY DEF IInv, MemoryOK, PoolsOK, HeapOK, TypeOK
<1> QED
  BY <1>1, StorageInvariant, PTL

(* The free list is exact: store_tensor_slot never hands out a slot in use *)
(* nor loses one, whatever the order of allocations and collections.       *)
THEOREM FreeListSafe == Spec => []FreeListExact
<1>1. IInv => FreeListExact
  BY DEF IInv, PoolsOK, FreeListExact
<1> QED
  BY <1>1, StorageInvariant, PTL

(* The live blocks tile the heap segment, aligned and inside its limit.    *)
THEOREM HeapTiled == Spec => []HeapTiling
<1>1. IInv => HeapTiling
  BY DEF IInv, HeapOK, HeapTiling
<1> QED
  BY <1>1, StorageInvariant, PTL

(* Two blocks handed out since the last collection never overlap.          *)
THEOREM FreshBlocksSafe == Spec => []FreshBlocksDisjoint
<1>1. IInv => FreshBlocksDisjoint
  BY SoundHeapDisjoint DEF IInv
<1> QED
  BY <1>1, StorageInvariant, PTL

-----------------------------------------------------------------------------
(* Sums *)

Amounts(n) == [1 .. n -> Nat]

(* A sum is the end of its partial sums.                                   *)
LEMMA PartialSums ==
  ASSUME NEW n \in Nat, NEW a \in Amounts(n)
  PROVE  \E sum : /\ Total(a) = sum[n]
                  /\ sum[0] = 0
                  /\ \A i \in 1 .. n : sum[i] = sum[i - 1] + a[i]
                  /\ \A i \in 0 .. n : sum[i] \in Nat
<1> DEFINE step == [q \in (1 .. n) \X Nat |-> q[2] + a[q[1]]]
           Body(g) == [i \in 0 .. n |-> IF i = 0 THEN 0 ELSE g[i - 1] + a[i]]
           sum == CHOOSE g : g = Body(g)
<1>1. \A i \in 1 .. n : a[i] \in Nat
  BY DEF Amounts
<1>2. StepsIn(step, n, Nat)
  BY <1>1 DEF StepsIn
<1> HIDE DEF step, Body, sum
<1>3. PICK g : IsRun(g, 0, step, n, Nat)
  BY <1>2, Iterates
<1>4. ASSUME NEW i \in 1 .. n
      PROVE  g[i] = g[i - 1] + a[i]
  <2>1. g[i - 1] \in Nat
    BY <1>3 DEF IsRun
  <2> QED
    BY <1>3, <2>1 DEF step, IsRun
<1>5. g = Body(g)
  BY <1>3, <1>4 DEF Body, IsRun
<1>6. sum = Body(sum)
  BY <1>5 DEF sum
<1>7. Len(a) = n
  BY FunctionIsSeq DEF Amounts
<1>8. Total(a) = sum[n]
  BY <1>7 DEF Total, Body, sum
<1>9. sum[0] = 0 /\ \A i \in 1 .. n : sum[i] = sum[i - 1] + a[i]
  BY <1>6 DEF Body
<1> DEFINE T == {i \in 0 .. n : sum[i] \in Nat}
<1>10. 0 \in T
  BY <1>9
<1>11. ASSUME NEW i \in 0 .. n - 1, i \in T
       PROVE  i + 1 \in T
  <2>1. i + 1 \in 1 .. n /\ i + 1 \in 0 .. n /\ (i + 1) - 1 = i
    OBVIOUS
  <2>2. sum[i + 1] = sum[i] + a[i + 1]
    BY <1>9, <2>1
  <2> QED
    BY <1>1, <1>11, <2>1, <2>2
<1> HIDE DEF T
<1>12. 0 .. n \subseteq T
  BY <1>10, <1>11, UpTo
<1>13. \A i \in 0 .. n : sum[i] \in Nat
  BY <1>12 DEF T
<1> QED
  BY <1>8, <1>9, <1>13

LEMMA TotalNat ==
  ASSUME NEW n \in Nat, NEW a \in Amounts(n)
  PROVE  Total(a) \in Nat
BY PartialSums

(* Sums add up place by place.                                             *)
LEMMA TotalAdds ==
  ASSUME NEW n \in Nat, NEW a \in Amounts(n), NEW b \in Amounts(n), NEW c \in Amounts(n),
         \A i \in 1 .. n : c[i] = a[i] + b[i]
  PROVE  Total(c) = Total(a) + Total(b)
<1> DEFINE Sums(x, sum) == /\ Total(x) = sum[n]
                           /\ sum[0] = 0
                           /\ \A i \in 1 .. n : sum[i] = sum[i - 1] + x[i]
                           /\ \A i \in 0 .. n : sum[i] \in Nat
<1>1. PICK f : Sums(a, f)
  BY PartialSums
<1>2. PICK g : Sums(b, g)
  BY PartialSums
<1>3. PICK h : Sums(c, h)
  BY PartialSums
<1> DEFINE T == {i \in 0 .. n : h[i] = f[i] + g[i]}
<1>4. 0 \in T
  BY <1>1, <1>2, <1>3
<1>5. ASSUME NEW i \in 0 .. n - 1, i \in T
      PROVE  i + 1 \in T
  <2>1. i + 1 \in 1 .. n /\ i + 1 \in 0 .. n /\ (i + 1) - 1 = i
    OBVIOUS
  <2>2. /\ f[i + 1] = f[i] + a[i + 1] /\ g[i + 1] = g[i] + b[i + 1]
        /\ h[i + 1] = h[i] + c[i + 1] /\ c[i + 1] = a[i + 1] + b[i + 1]
        /\ f[i] \in Nat /\ g[i] \in Nat /\ a[i + 1] \in Nat /\ b[i + 1] \in Nat
    <3>1. f[i + 1] = f[i] + a[i + 1] /\ f[i] \in Nat
      BY <1>1, <2>1
    <3>2. g[i + 1] = g[i] + b[i + 1] /\ g[i] \in Nat
      BY <1>2, <2>1
    <3>3. h[i + 1] = h[i] + c[i + 1]
      BY <1>3, <2>1
    <3>4. a[i + 1] \in Nat /\ b[i + 1] \in Nat
      BY <2>1 DEF Amounts
    <3> QED
      BY <2>1, <3>1, <3>2, <3>3, <3>4
  <2>3. h[i] = f[i] + g[i]
    BY <1>5
  <2>4. h[i + 1] = f[i + 1] + g[i + 1]
    BY <2>2, <2>3
  <2> QED
    BY <2>1, <2>4
<1> HIDE DEF T
<1>6. 0 .. n \subseteq T
  BY <1>4, <1>5, UpTo
<1> QED
  BY <1>1, <1>2, <1>3, <1>6 DEF T

LEMMA TotalSame ==
  ASSUME NEW n \in Nat, NEW a \in Amounts(n), \A i \in 1 .. n : a[i] = 0
  PROVE  Total(a) = 0
<1>1. Total(a) = Total(a) + Total(a) /\ Total(a) \in Nat
  BY TotalAdds, TotalNat DEF Amounts
<1>2. PICK x \in Nat : x = Total(a)
  BY <1>1
<1>3. x = x + x
  BY <1>1, <1>2
<1>4. x = 0
  BY ONLY <1>3, x \in Nat
<1> QED
  BY <1>2, <1>4

(* One amount more at the end, or at a place that was empty.               *)
LEMMA TotalOneMore ==
  ASSUME NEW n \in Nat, NEW m \in Nat, n <= m, NEW a \in Amounts(n), NEW b \in Amounts(m),
         NEW k \in 1 .. m, NEW x \in Nat, b[k] = x, m = n \/ (m = n + 1 /\ k = m),
         \A i \in 1 .. n : IF i = k THEN a[i] = 0 ELSE b[i] = a[i]
  PROVE  Total(b) = Total(a) + x
<1> DEFINE Sums(y, len, sum) == /\ Total(y) = sum[len]
                                /\ sum[0] = 0
                                /\ \A i \in 1 .. len : sum[i] = sum[i - 1] + y[i]
                                /\ \A i \in 0 .. len : sum[i] \in Nat
<1>1. PICK f : Sums(a, n, f)
  BY PartialSums
<1>2. PICK g : Sums(b, m, g)
  BY PartialSums
<1> DEFINE T == {i \in 0 .. n : g[i] = IF i >= k THEN f[i] + x ELSE f[i]}
<1>3. 0 \in T
  BY <1>1, <1>2
<1>4. ASSUME NEW i \in 0 .. n - 1, i \in T
      PROVE  i + 1 \in T
  <2>1. i + 1 \in 1 .. n /\ i + 1 \in 0 .. n /\ (i + 1) - 1 = i /\ i + 1 \in 1 .. m /\ i \in 0 .. n
    OBVIOUS
  <2>2. /\ f[i + 1] = f[i] + a[i + 1] /\ g[i + 1] = g[i] + b[i + 1]
        /\ f[i] \in Nat /\ a[i + 1] \in Nat /\ b[i + 1] \in Nat
        /\ IF i + 1 = k THEN a[i + 1] = 0 /\ b[i + 1] = x ELSE b[i + 1] = a[i + 1]
    BY <1>1, <1>2, <2>1 DEF Amounts
  <2>3. g[i] = IF i >= k THEN f[i] + x ELSE f[i]
    BY <1>4
  <2>4. g[i + 1] = IF i + 1 >= k THEN f[i + 1] + x ELSE f[i + 1]
    BY <2>2, <2>3
  <2> QED
    BY <2>1, <2>4
<1> HIDE DEF T
<1>5. 0 .. n \subseteq T
  BY <1>3, <1>4, UpTo
<1>6. g[n] = IF n >= k THEN f[n] + x ELSE f[n]
  BY <1>5 DEF T
<1>7. CASE m = n
  BY <1>1, <1>2, <1>6, <1>7
<1>8. CASE m = n + 1 /\ k = m
  <2>1. g[m] = g[m - 1] + b[m] /\ m - 1 = n /\ f[n] \in Nat
    BY <1>1, <1>2, <1>8
  <2> QED
    BY <1>1, <1>2, <1>6, <1>8, <2>1
<1> QED
  BY <1>7, <1>8

-----------------------------------------------------------------------------
(* Arithmetic of the counter *)

LEMMA Quotient ==
  ASSUME NEW w \in Nat \ {0}, NEW a \in Int
  PROVE  /\ a % w \in 0 .. w - 1 /\ a \div w \in Int
         /\ a = (w * (a \div w)) + (a % w)
OBVIOUS

LEMMA QuotientUnique ==
  ASSUME NEW w \in Nat \ {0}, NEW p \in Int, NEW q \in Int,
         NEW r \in 0 .. w - 1, NEW s \in 0 .. w - 1, (w * p) + r = (w * q) + s
  PROVE  r = s
<1>1. w * (p - q) = s - r
  OBVIOUS
<1>2. p - q > 0 => w * (p - q) >= w
  OBVIOUS
<1>3. p - q < 0 => w * (p - q) <= -w
  OBVIOUS
<1>4. p = q
  BY <1>1, <1>2, <1>3
<1> QED
  BY <1>4

LEMMA Remainders ==
  ASSUME NEW w \in Nat \ {0}, NEW a \in Int, NEW b \in Int
  PROVE  a % w = b % w <=> \E k \in Int : a = b + (w * k)
<1> DEFINE p == a \div w
           q == b \div w
           r == a % w
           s == b % w
<1>1. /\ a = (w * p) + r /\ b = (w * q) + s
      /\ p \in Int /\ q \in Int /\ r \in 0 .. w - 1 /\ s \in 0 .. w - 1
  BY Quotient
<1> HIDE DEF p, q, r, s
<1>2. ASSUME r = s
      PROVE  \E k \in Int : a = b + (w * k)
  <2>1. p - q \in Int /\ w * (p - q) = (w * p) - (w * q)
    BY <1>1
  <2>2. (w * p) \in Int /\ (w * q) \in Int
    BY <1>1
  <2>3. a = b + (w * (p - q))
    BY <1>1, <1>2, <2>1, <2>2
  <2> QED
    BY <2>1, <2>3
<1>3. ASSUME NEW k \in Int, a = b + (w * k)
      PROVE  r = s
  <2>1. w * (q + k) = (w * q) + (w * k) /\ q + k \in Int
    BY <1>1
  <2>2. (w * p) \in Int /\ (w * q) \in Int /\ (w * k) \in Int /\ (w * (q + k)) \in Int
    BY <1>1
  <2>3. (w * p) + r = (w * (q + k)) + s
    BY <1>1, <1>3, <2>1, <2>2
  <2> QED
    BY <1>1, <2>1, <2>3, QuotientUnique
<1>4. r = s <=> \E k \in Int : a = b + (w * k)
  BY <1>2, <1>3
<1> QED
  BY <1>4 DEF r, s

-----------------------------------------------------------------------------
(* The element counter *)

OccupiedIn(ts) == {h \in DOMAIN ts : ts[h] # NoTensor}

Held(ts, slots) == [h \in DOMAIN ts |-> IF h \in slots THEN ts[h].size ELSE 0]

(* The counter total and the slots ts differ by the literals of the pool.  *)
Accounted(ts, total) ==
  (total + Total(Pool)) % WordModulus = HeldBy(ts, OccupiedIn(ts)) % WordModulus

LEMMA HeldFacts ==
  ASSUME NEW ts \in Seq(Slot), NEW slots \in SUBSET OccupiedIn(ts)
  PROVE  /\ Len(ts) \in Nat /\ DOMAIN ts = 1 .. Len(ts)
         /\ Held(ts, slots) \in Amounts(Len(ts))
         /\ \A h \in 1 .. Len(ts) : Held(ts, slots)[h] = IF h \in slots THEN ts[h].size ELSE 0
         /\ HeldBy(ts, slots) = Total(Held(ts, slots))
         /\ HeldBy(ts, slots) \in Nat
<1>1. Len(ts) \in Nat /\ DOMAIN ts = 1 .. Len(ts)
  BY LenProperties
<1>2. ASSUME NEW h \in 1 .. Len(ts), h \in slots
      PROVE  ts[h].size \in Nat
  <2>1. ts[h] \in Slot /\ ts[h] # NoTensor
    BY <1>1, <1>2, ElementOfSeq DEF OccupiedIn
  <2> QED
    BY <2>1 DEF Slot
<1>3. \A h \in 1 .. Len(ts) : (IF h \in slots THEN ts[h].size ELSE 0) \in Nat
  BY <1>2
<1>4. Held(ts, slots) \in Amounts(Len(ts))
  BY <1>1, <1>3 DEF Held, Amounts
<1>5. \A h \in 1 .. Len(ts) : Held(ts, slots)[h] = IF h \in slots THEN ts[h].size ELSE 0
  BY <1>1 DEF Held
<1>6. HeldBy(ts, slots) = Total(Held(ts, slots))
  BY DEF HeldBy, Held
<1> QED
  BY <1>1, <1>4, <1>5, <1>6, TotalNat

LEMMA PoolTotal == Pool \in Amounts(Len(Pool)) /\ Len(Pool) \in Nat /\ Total(Pool) \in Nat
<1>1. Pool \in Amounts(Len(Pool)) /\ Len(Pool) \in Nat
  BY PoolAssumption, LenProperties DEF Amounts
<1> QED
  BY <1>1, TotalNat

(* What the sweep subtracts is what the slots it empties held.             *)
LEMMA SweepAccounts ==
  ASSUME NEW ts \in Seq(Slot), NEW total \in 0 .. WordModulus - 1, Accounted(ts, total),
         NEW dead \in SUBSET OccupiedIn(ts), NEW left \in ElementsLeft(total, ts, dead)
  PROVE  Accounted([h \in DOMAIN ts |-> IF h \in dead THEN NoTensor ELSE ts[h]], left)
<1> DEFINE new == [h \in DOMAIN ts |-> IF h \in dead THEN NoTensor ELSE ts[h]]
           n == Len(ts)
           old == OccupiedIn(ts)
           now == OccupiedIn(new)
<1>1. n \in Nat /\ DOMAIN ts = 1 .. n
  BY LenProperties
<1>2. \A h \in 1 .. n : ts[h] \in Slot /\ new[h] \in Slot
  BY <1>1, ElementOfSeq DEF Slot
<1>3. new \in Seq(Slot) /\ Len(new) = n
  BY <1>1, <1>2, FunctionIsSeq
<1>4. \A h \in 1 .. n :
        /\ h \in old <=> ts[h] # NoTensor
        /\ h \in now <=> (h \in old /\ h \notin dead)
        /\ h \notin dead => new[h] = ts[h]
  BY <1>1 DEF OccupiedIn
<1> HIDE DEF new, n, old, now
<1>5. /\ Held(ts, old) \in Amounts(n) /\ Held(ts, dead) \in Amounts(n)
      /\ Held(new, now) \in Amounts(n)
      /\ \A h \in 1 .. n :
           /\ Held(ts, old)[h] = IF h \in old THEN ts[h].size ELSE 0
           /\ Held(ts, dead)[h] = IF h \in dead THEN ts[h].size ELSE 0
           /\ Held(new, now)[h] = IF h \in now THEN new[h].size ELSE 0
  BY <1>3, HeldFacts DEF n, old, now
<1>6. \A h \in 1 .. n : Held(ts, old)[h] = Held(new, now)[h] + Held(ts, dead)[h]
  <2>1. SUFFICES ASSUME NEW h \in 1 .. n
                 PROVE  Held(ts, old)[h] = Held(new, now)[h] + Held(ts, dead)[h]
    OBVIOUS
  <2>2. h \in dead => h \in old
    BY DEF old
  <2>3. Held(ts, old)[h] \in Nat
    BY <1>5 DEF Amounts
  <2> QED
    BY <1>4, <1>5, <2>2, <2>3
<1>7. HeldBy(ts, old) = HeldBy(new, now) + HeldBy(ts, dead)
  <2>1. Total(Held(ts, old)) = Total(Held(new, now)) + Total(Held(ts, dead))
    BY <1>1, <1>5, <1>6, TotalAdds DEF n
  <2> QED
    BY <2>1 DEF HeldBy, Held
<1>8. HeldBy(ts, dead) \in Nat /\ HeldBy(new, now) \in Nat /\ HeldBy(ts, old) \in Nat
  BY <1>3, HeldFacts DEF old, now
<1> DEFINE w == WordModulus
           d == HeldBy(ts, dead)
           live == HeldBy(new, now)
           p == Total(Pool)
<1>9. w \in Nat \ {0} /\ p \in Nat
  BY PoolAssumption, PoolTotal
<1>10. left \in 0 .. w - 1 /\ (left + d) % w = total
  BY DEF ElementsLeft
<1>11. total % w = total
  BY <1>9
<1>12. (total + p) % w = (live + d) % w
  BY <1>7 DEF Accounted, old
<1> HIDE DEF w, d, live, p
<1>13. total \in Int /\ d \in Int /\ live \in Int /\ left \in Int /\ p \in Int
  BY <1>8, <1>9, <1>10 DEF d, live
<1>14. PICK k \in Int : left + d = total + (w * k)
  <2>1. left + d \in Int /\ (left + d) % w = total % w
    BY <1>10, <1>11, <1>13
  <2> QED
    BY <1>9, <1>13, <2>1, Remainders
<1>15. PICK m \in Int : total + p = (live + d) + (w * m)
  <2>1. total + p \in Int /\ live + d \in Int
    BY <1>13
  <2> QED
    BY <1>9, <1>12, <2>1, Remainders
<1>16. left + p = live + (w * (k + m)) /\ k + m \in Int
  <2> DEFINE wk == w * k
             wm == w * m
  <2>1. w * (k + m) = wk + wm /\ wk \in Int /\ wm \in Int
    BY <1>9
  <2> HIDE DEF wk, wm
  <2>2. left + d = total + wk /\ total + p = (live + d) + wm
    BY <1>14, <1>15 DEF wk, wm
  <2>3. left + p = live + (wk + wm)
    BY ONLY <1>13, <2>1, <2>2
  <2>4. k + m \in Int
    BY ONLY k \in Int, m \in Int
  <2> QED
    BY <2>1, <2>3, <2>4
<1>17. (left + p) % w = live % w
  <2>1. left + p \in Int
    BY <1>13
  <2>2. PICK h \in Int : left + p = live + (w * h)
    BY <1>16
  <2> DEFINE x == left + p
  <2>3. x \in Int /\ x = live + (w * h)
    BY <2>1, <2>2
  <2> HIDE DEF x
  <2>4. x % w = live % w
    BY <1>9, <1>13, <2>3, Remainders
  <2> QED
    BY <2>4 DEF x
<1> QED
  BY <1>17 DEF Accounted, now, new, live, p, w

(* The slot taken for a tensor of n elements held none before.             *)
LEMMA TakeAccounts ==
  ASSUME PoolsOK(tensors, freeList, elements), Accounted(tensors, elements), NEW n \in Nat
  PROVE  Accounted(TensorsWith([size |-> n, literal |-> FALSE]), (elements + n) % WordModulus)
<1> DEFINE slot == [size |-> n, literal |-> FALSE]
           new == TensorsWith(slot)
           old == OccupiedIn(tensors)
           now == OccupiedIn(new)
           k == SlotTaken
<1>1. slot \in Slot /\ slot # NoTensor /\ slot.size = n
  <2>1. slot \in [size : Nat, literal : BOOLEAN] /\ slot.size = n
    OBVIOUS
  <2> HIDE DEF slot
  <2> QED
    BY <2>1, PoolAssumption DEF Slot
<1>2. tensors \in Seq(Slot) /\ freeList \in Seq(Nat) /\ Len(tensors) \in Nat
      /\ DOMAIN tensors = 1 .. Len(tensors) /\ elements \in Nat
  BY LenProperties, PoolAssumption DEF PoolsOK
<1>3. new \in Seq(Slot)
  <2> HIDE DEF slot
  <2> QED
    BY <1>1, TakeSlotSound DEF PoolsOK
<1> HIDE DEF slot
<1>4. /\ Len(new) \in Nat /\ Len(tensors) <= Len(new) /\ k \in 1 .. Len(new)
      /\ Len(new) = Len(tensors) \/ (Len(new) = Len(tensors) + 1 /\ k = Len(new))
      /\ new[k] = slot
      /\ \A h \in 1 .. Len(tensors) : IF h = k THEN tensors[h] = NoTensor ELSE new[h] = tensors[h]
  <2>1. CASE freeList # <<>>
    <3>1. Last(freeList) = freeList[Len(freeList)] /\ Len(freeList) \in 1 .. Len(freeList)
      <4>1. Last(freeList) = freeList[Len(freeList)] /\ Len(freeList) \in Nat \ {0}
        BY <1>2, <2>1, FrontFacts
      <4> QED
        BY <4>1
    <3>2. k \in 1 .. Len(tensors) /\ tensors[k] = NoTensor
      BY <2>1, <3>1 DEF SlotTaken, PoolsOK, ListsEmptySlots
    <3>3. new = [tensors EXCEPT ![k] = slot]
      BY <2>1 DEF TensorsWith
    <3> HIDE DEF k
    <3>4. /\ Len(new) = Len(tensors)
          /\ \A h \in 1 .. Len(tensors) : new[h] = IF h = k THEN slot ELSE tensors[h]
      BY <1>1, <1>2, <3>2, <3>3, ExceptSeq
    <3> QED
      BY <1>2, <3>2, <3>4
  <2>2. CASE freeList = <<>>
    <3>1. new = Append(tensors, slot) /\ k = Len(tensors) + 1
      BY <2>2 DEF TensorsWith, SlotTaken
    <3>2. /\ Len(new) = Len(tensors) + 1
          /\ \A h \in 1 .. Len(tensors) : new[h] = tensors[h]
          /\ new[Len(tensors) + 1] = slot
      BY <1>1, <1>2, <3>1, AppendProperties
    <3> QED
      BY <1>2, <3>1, <3>2
  <2> QED
    BY <2>1, <2>2
<1>5. DOMAIN new = 1 .. Len(new)
  BY <1>3, LenProperties
<1> HIDE DEF new, k, old, now
<1>6. /\ Held(tensors, old) \in Amounts(Len(tensors)) /\ Held(new, now) \in Amounts(Len(new))
      /\ \A h \in 1 .. Len(tensors) :
           Held(tensors, old)[h] = IF h \in old THEN tensors[h].size ELSE 0
      /\ \A h \in 1 .. Len(new) : Held(new, now)[h] = IF h \in now THEN new[h].size ELSE 0
      /\ HeldBy(tensors, old) \in Nat /\ HeldBy(new, now) \in Nat
      /\ HeldBy(tensors, old) = Total(Held(tensors, old)) /\ HeldBy(new, now) = Total(Held(new, now))
  BY <1>2, <1>3, HeldFacts DEF old, now
<1>7. Held(new, now)[k] = n
  BY <1>1, <1>4, <1>5, <1>6 DEF now, OccupiedIn
<1>8. \A h \in 1 .. Len(tensors) :
        IF h = k THEN Held(tensors, old)[h] = 0 ELSE Held(new, now)[h] = Held(tensors, old)[h]
  <2>1. SUFFICES ASSUME NEW h \in 1 .. Len(tensors)
                 PROVE  IF h = k THEN Held(tensors, old)[h] = 0
                        ELSE Held(new, now)[h] = Held(tensors, old)[h]
    OBVIOUS
  <2>2. h \in 1 .. Len(new)
    BY <1>2, <1>4
  <2>3. (h \in old <=> tensors[h] # NoTensor) /\ (h \in now <=> new[h] # NoTensor)
    BY <1>2, <1>5, <2>2 DEF old, now, OccupiedIn
  <2> QED
    BY <1>4, <1>6, <2>2, <2>3
<1>9. HeldBy(new, now) = HeldBy(tensors, old) + n
  <2> DEFINE a == Held(tensors, old)
             b == Held(new, now)
  <2>1. /\ Len(tensors) \in Nat /\ Len(new) \in Nat /\ Len(tensors) <= Len(new)
        /\ a \in Amounts(Len(tensors)) /\ b \in Amounts(Len(new))
        /\ k \in 1 .. Len(new) /\ b[k] = n
        /\ Len(new) = Len(tensors) \/ (Len(new) = Len(tensors) + 1 /\ k = Len(new))
        /\ \A h \in 1 .. Len(tensors) : IF h = k THEN a[h] = 0 ELSE b[h] = a[h]
    BY <1>2, <1>4, <1>6, <1>7, <1>8
  <2> HIDE DEF a, b
  <2>2. Total(b) = Total(a) + n
    BY <2>1, TotalOneMore
  <2> QED
    BY <1>6, <2>2 DEF a, b
<1> DEFINE w == WordModulus
           live == HeldBy(tensors, old)
           p == Total(Pool)
<1>10. w \in Nat \ {0} /\ p \in Nat
  BY PoolAssumption, PoolTotal
<1>11. (elements + p) % w = live % w
  BY DEF Accounted, old
<1> HIDE DEF w, live, p
<1>12. live \in Nat
  BY <1>6 DEF live
<1>13. PICK i \in Int : elements + p = live + (w * i)
  <2>1. elements + p \in Int /\ live \in Int
    BY <1>2, <1>10, <1>12
  <2> QED
    BY <1>10, <1>11, <2>1, Remainders
<1> DEFINE total == (elements + n) % w
<1>14. total \in 0 .. w - 1 /\ total % w = total /\ elements + n \in Int
  <2> DEFINE x == elements + n
  <2>1. x \in Int
    BY <1>2
  <2> HIDE DEF x
  <2>2. x % w \in 0 .. w - 1 /\ (x % w) % w = x % w
    BY ONLY <1>10, <2>1
  <2> QED
    BY <2>1, <2>2 DEF x
<1> HIDE DEF total
<1>15. PICK j \in Int : total = (elements + n) + (w * j)
  <2>1. total % w = (elements + n) % w /\ total \in Int
    BY <1>14 DEF total
  <2> QED
    BY <1>10, <1>14, <2>1, Remainders
<1>16. total + p = (live + n) + (w * (i + j)) /\ i + j \in Int
  <2>1. w * (i + j) = (w * i) + (w * j)
    BY <1>10
  <2>2. (w * i) \in Int /\ (w * j) \in Int
    BY <1>10
  <2> DEFINE wi == w * i
             wj == w * j
             both == w * (i + j)
  <2>3. /\ both = wi + wj /\ wi \in Int /\ wj \in Int
        /\ elements + p = live + wi /\ total = (elements + n) + wj
    BY <1>13, <1>15, <2>1, <2>2
  <2>4. elements \in Int /\ p \in Int /\ live \in Int
    BY <1>2, <1>10, <1>12
  <2> HIDE DEF wi, wj, both
  <2>5. total + p = (live + n) + both
    BY ONLY <2>3, <2>4, n \in Nat
  <2>6. i + j \in Int
    BY ONLY i \in Int, j \in Int
  <2> QED
    BY <2>5, <2>6 DEF both
<1>17. (total + p) % w = (live + n) % w
  <2>1. total + p \in Int /\ live + n \in Int
    BY <1>10, <1>12, <1>14
  <2>2. PICK h \in Int : total + p = (live + n) + (w * h)
    BY <1>16
  <2> DEFINE x == total + p
             y == live + n
  <2>3. x \in Int /\ y \in Int /\ x = y + (w * h)
    BY <2>1, <2>2
  <2> HIDE DEF x, y
  <2>4. x % w = y % w
    BY <1>10, <2>3, Remainders
  <2> QED
    BY <2>4 DEF x, y
<1> QED
  BY <1>9, <1>17 DEF Accounted, now, new, slot, live, p, w, total

-----------------------------------------------------------------------------
(* Reachability, as operators on the values held and the option table *)

ClosedIn(S, vals, opts) ==
  /\ \A x \in vals : x.tag = "Option" => x.v \in S
  /\ \A k \in S : opts[k].tag = "Option" => opts[k].v \in S

HeldIn(vals, opts) ==
  {k \in DOMAIN opts : \A S \in SUBSET DOMAIN opts : ClosedIn(S, vals, opts) => k \in S}

TensorsOf(vals) == {x.v : x \in {y \in vals : y.tag = "Tensor"}}

ReachIn(vals, opts) == TensorsOf(vals \cup {opts[k] : k \in HeldIn(vals, opts)})

OptionsIn(vals, opts) == {x.v : x \in {y \in vals : y.tag = "Option"}} \cap DOMAIN opts

MarkedIn(vals, opts) ==
  LET within[n \in 0 .. Len(opts)] ==
        IF n = 0
        THEN OptionsIn(vals, opts)
        ELSE within[n - 1] \cup OptionsIn({opts[k] : k \in within[n - 1]}, opts)
  IN  within[Len(opts)]

(* Every option handle in sight denotes an entry of the table.             *)
Denoting(vals, opts) == ClosedIn(DOMAIN opts, vals, opts)

LEMMA ReachableIs == Reachable = ReachIn(HeldValues, options)
BY DEF Reachable, ReachIn, TensorsOf, HeldIn, ClosedIn, ClosedUnderPayloads

LEMMA HeldClosed ==
  ASSUME NEW vals, NEW opts, Denoting(vals, opts)
  PROVE  HeldIn(vals, opts) \subseteq DOMAIN opts /\ ClosedIn(HeldIn(vals, opts), vals, opts)
<1>1. ASSUME NEW x \in vals, x.tag = "Option"
      PROVE  x.v \in HeldIn(vals, opts)
  BY <1>1 DEF HeldIn, ClosedIn, Denoting
<1>2. ASSUME NEW k \in HeldIn(vals, opts), opts[k].tag = "Option"
      PROVE  opts[k].v \in HeldIn(vals, opts)
  BY <1>2 DEF HeldIn, ClosedIn, Denoting
<1> QED
  BY <1>1, <1>2 DEF HeldIn, ClosedIn

LEMMA HeldLeast ==
  ASSUME NEW vals, NEW opts, NEW S \in SUBSET DOMAIN opts, ClosedIn(S, vals, opts)
  PROVE  HeldIn(vals, opts) \subseteq S
BY DEF HeldIn

(* The collector follows payloads as often as the table has entries, and   *)
(* by then there is nothing left to follow.                                *)
LEMMA MarkedClosed ==
  ASSUME NEW vals, NEW opts \in Seq(Value), Denoting(vals, opts)
  PROVE  MarkedIn(vals, opts) \subseteq DOMAIN opts /\ ClosedIn(MarkedIn(vals, opts), vals, opts)
<1> DEFINE N == Len(opts)
           D == DOMAIN opts
           first == OptionsIn(vals, opts)
           Grow(W) == W \cup OptionsIn({opts[k] : k \in W}, opts)
           step == [q \in (1 .. N) \X SUBSET D |-> Grow(q[2])]
           Body(g) == [n \in 0 .. N |-> IF n = 0 THEN first ELSE Grow(g[n - 1])]
           within == CHOOSE g : g = Body(g)
<1>1. N \in Nat /\ D = 1 .. N
  BY LenProperties
<1>2. first \in SUBSET D /\ \A W \in SUBSET D : Grow(W) \in SUBSET D
  BY DEF OptionsIn
<1>3. MarkedIn(vals, opts) = within[N]
  BY DEF MarkedIn
<1>4. \A W \in SUBSET D : Grow(W) = W => \A k \in W : opts[k].tag = "Option" => opts[k].v \in W
  <2>1. SUFFICES ASSUME NEW W \in SUBSET D, Grow(W) = W, NEW k \in W, opts[k].tag = "Option"
                 PROVE  opts[k].v \in W
    OBVIOUS
  <2>2. opts[k].v \in D
    BY <2>1 DEF Denoting, ClosedIn
  <2>3. opts[k].v \in OptionsIn({opts[j] : j \in W}, opts)
    BY <2>1, <2>2 DEF OptionsIn
  <2> QED
    BY <2>1, <2>3
<1>5. \A x \in vals : x.tag = "Option" => x.v \in first
  BY DEF OptionsIn, Denoting, ClosedIn
<1>6. \A W \in SUBSET D : W \subseteq Grow(W)
  OBVIOUS
<1> HIDE DEF first, Grow
<1>7. StepsIn(step, N, SUBSET D)
  BY <1>2 DEF StepsIn
<1> HIDE DEF step, Body, within, N, D
<1>8. PICK g : IsRun(g, first, step, N, SUBSET D)
  BY <1>1, <1>2, <1>7, Iterates
<1>9. ASSUME NEW n \in 1 .. N
      PROVE  g[n] = Grow(g[n - 1])
  <2>1. g[n - 1] \in SUBSET D
    BY <1>1, <1>8 DEF IsRun
  <2> QED
    BY <1>8, <2>1 DEF step, IsRun
<1>10. g = Body(g)
  BY <1>8, <1>9 DEF Body, IsRun
<1>11. within = Body(within)
  BY <1>10 DEF within
<1>12. within[0] = first /\ \A n \in 1 .. N : within[n] = Grow(within[n - 1])
  BY <1>1, <1>11 DEF Body
<1>13. \A n \in 0 .. N : within[n] \subseteq D
  <2> DEFINE T == {n \in 0 .. N : within[n] \subseteq D}
  <2>1. 0 \in T
    BY <1>1, <1>2, <1>12
  <2>2. ASSUME NEW n \in 0 .. N - 1, n \in T
        PROVE  n + 1 \in T
    <3>1. n + 1 \in 1 .. N /\ n + 1 \in 0 .. N /\ (n + 1) - 1 = n
      BY <1>1
    <3>2. within[n + 1] = Grow(within[n])
      BY <1>12, <3>1
    <3> QED
      BY <1>2, <2>2, <3>1, <3>2
  <2> HIDE DEF T
  <2>3. 0 .. N \subseteq T
    BY <1>1, <2>1, <2>2, UpTo
  <2> QED
    BY <2>3 DEF T
<1>14. \A n \in 1 .. N : within[n - 1] \subseteq within[n]
  <2>1. SUFFICES ASSUME NEW n \in 1 .. N
                 PROVE  within[n - 1] \subseteq within[n]
    OBVIOUS
  <2>2. n - 1 \in 0 .. N
    BY <1>1
  <2> QED
    BY <1>6, <1>12, <1>13, <2>2
<1>15. first \subseteq within[N]
  <2>1. \A n \in 0 .. N : \A m \in 0 .. n : within[m] \subseteq within[n]
    BY <1>1, <1>14, Monotone
  <2>2. N \in 0 .. N /\ 0 \in 0 .. N
    BY <1>1
  <2> QED
    BY <1>12, <2>1, <2>2
<1>16. \A n \in 1 .. N - 1 : within[n] = within[n - 1] => within[n + 1] = within[n]
  <2>1. SUFFICES ASSUME NEW n \in 1 .. N - 1, within[n] = within[n - 1]
                 PROVE  within[n + 1] = within[n]
    OBVIOUS
  <2>2. n \in 1 .. N /\ n + 1 \in 1 .. N /\ (n + 1) - 1 = n
    BY <1>1
  <2>3. within[n + 1] = Grow(within[n]) /\ within[n] = Grow(within[n - 1])
    BY <1>12, <2>2
  <2> QED
    BY <2>1, <2>3
<1>17. IsFiniteSet(D) /\ Cardinality(D) = N
  BY <1>1, FS_Interval
<1>18. within[N] = D \/ (N > 0 /\ within[N] = within[N - 1])
  BY <1>1, <1>13, <1>14, <1>16, <1>17, ChainRests
<1>19. within[N] \subseteq D
  BY <1>1, <1>13
<1>20. \A k \in within[N] : opts[k].tag = "Option" => opts[k].v \in within[N]
  <2>1. CASE within[N] = D
    BY <2>1 DEF Denoting, ClosedIn, D
  <2>2. CASE N > 0 /\ within[N] = within[N - 1]
    <3>1. N \in 1 .. N
      BY <1>1, <2>2
    <3>2. Grow(within[N]) = within[N]
      BY <1>12, <2>2, <3>1
    <3> QED
      BY <1>4, <1>19, <3>2
  <2> QED
    BY <1>18, <2>1, <2>2
<1> QED
  BY <1>3, <1>5, <1>15, <1>19, <1>20 DEF ClosedIn, D

LEMMA ReachMarked ==
  ASSUME NEW vals, NEW opts \in Seq(Value), Denoting(vals, opts)
  PROVE  ReachIn(vals, opts) \subseteq TensorsOf(vals \cup {opts[k] : k \in MarkedIn(vals, opts)})
<1>1. HeldIn(vals, opts) \subseteq MarkedIn(vals, opts)
  BY MarkedClosed, HeldLeast
<1> QED
  BY <1>1 DEF ReachIn, TensorsOf

(* A step that adds one value x to the values held and appends held values *)
(* to the option table brings nothing within reach but what x denotes.     *)
Gains(x, vals, opts, vals2, opts2) ==
  /\ vals2 \subseteq vals \cup {x}
  /\ DOMAIN opts \subseteq DOMAIN opts2
  /\ \A k \in DOMAIN opts : opts2[k] = opts[k]
  /\ \A k \in DOMAIN opts2 : k \in DOMAIN opts \/ opts2[k] \in vals

Harmless(x, vals, opts, opts2) ==
  \/ x.tag \in {"Int", "Tensor"}
  \/ \E k \in HeldIn(vals, opts) : x = opts[k]
  \/ x.tag = "Option" /\ x.v \in DOMAIN opts2 /\ opts2[x.v] \in vals

LEMMA GainsReach ==
  ASSUME NEW vals, NEW opts, NEW vals2, NEW opts2, NEW x, Denoting(vals, opts),
         Gains(x, vals, opts, vals2, opts2), Harmless(x, vals, opts, opts2)
  PROVE  /\ Denoting(vals2, opts2)
         /\ \A h \in ReachIn(vals2, opts2) :
              h \in ReachIn(vals, opts) \/ (x.tag = "Tensor" /\ h = x.v)
<1> DEFINE H == HeldIn(vals, opts)
           H2 == HeldIn(vals2, opts2)
<1>1. H \subseteq DOMAIN opts /\ ClosedIn(H, vals, opts)
  BY HeldClosed
<1>2. \A y \in vals : /\ y.tag = "Option" => y.v \in H
                      /\ y.tag = "Tensor" => y.v \in ReachIn(vals, opts)
  BY <1>1 DEF ClosedIn, ReachIn, TensorsOf
<1>3. \A k \in H : /\ opts[k].tag = "Option" => opts[k].v \in H
                   /\ opts[k].tag = "Tensor" => opts[k].v \in ReachIn(vals, opts)
  BY <1>1 DEF ClosedIn, ReachIn, TensorsOf
<1> HIDE DEF H
<1>4. \A k \in DOMAIN opts2 : opts2[k].tag = "Option" => opts2[k].v \in DOMAIN opts2
  <2>1. SUFFICES ASSUME NEW k \in DOMAIN opts2, opts2[k].tag = "Option"
                 PROVE  opts2[k].v \in DOMAIN opts2
    OBVIOUS
  <2>2. CASE k \in DOMAIN opts
    BY <2>1, <2>2 DEF Gains, Denoting, ClosedIn
  <2>3. CASE opts2[k] \in vals
    BY <1>1, <1>2, <2>1, <2>3 DEF Gains
  <2> QED
    BY <2>2, <2>3 DEF Gains
<1>5. x.tag = "Option" => x.v \in DOMAIN opts2
  <2>1. CASE \E k \in H : x = opts[k]
    BY <1>1, <1>3, <2>1 DEF Gains
  <2> QED
    BY <2>1 DEF Harmless, H
<1>6. Denoting(vals2, opts2)
  BY <1>1, <1>2, <1>4, <1>5 DEF Denoting, ClosedIn, Gains
<1> DEFINE S == H \cup IF x.tag = "Option" THEN {x.v} ELSE {}
<1>7. S \subseteq DOMAIN opts2
  BY <1>1, <1>5 DEF Gains
<1>8. \A k \in S : \/ k \in H /\ opts2[k] = opts[k]
                   \/ opts2[k] \in vals
  <2>1. SUFFICES ASSUME x.tag = "Option", x.v \notin H
                 PROVE  opts2[x.v] \in vals
    BY <1>1 DEF Gains
  <2>2. ~(\E k \in H : x = opts[k])
    BY <1>3, <2>1
  <2> QED
    BY <2>1, <2>2 DEF Harmless, H
<1>9. ClosedIn(S, vals2, opts2)
  <2>1. \A y \in vals2 : y.tag = "Option" => y.v \in S
    BY <1>2 DEF Gains
  <2>2. \A k \in S : opts2[k].tag = "Option" => opts2[k].v \in S
    BY <1>2, <1>3, <1>8
  <2> QED
    BY <2>1, <2>2 DEF ClosedIn
<1>10. H2 \subseteq S
  BY <1>7, <1>9, HeldLeast
<1>11. \A y \in vals2 : y.tag = "Tensor" => y.v \in ReachIn(vals, opts) \/ (x.tag = "Tensor" /\ y.v = x.v)
  BY <1>2 DEF Gains
<1>12. \A k \in S : opts2[k].tag = "Tensor" => opts2[k].v \in ReachIn(vals, opts)
  BY <1>2, <1>3, <1>8
<1> HIDE DEF S
<1>13. ASSUME NEW h \in ReachIn(vals2, opts2)
       PROVE  h \in ReachIn(vals, opts) \/ (x.tag = "Tensor" /\ h = x.v)
  <2>1. PICK y \in vals2 \cup {opts2[k] : k \in H2} : y.tag = "Tensor" /\ h = y.v
    BY <1>13 DEF ReachIn, TensorsOf
  <2>2. CASE y \in vals2
    BY <1>11, <2>1, <2>2
  <2>3. CASE y \in {opts2[k] : k \in H2}
    BY <1>10, <1>12, <2>1, <2>3
  <2> QED
    BY <2>1, <2>2, <2>3
<1> QED
  BY <1>6, <1>13

-----------------------------------------------------------------------------
(* What each instruction brings within reach *)

SnapshotValues(snaps) == UNION {{snaps[i][r] : r \in Regs} : i \in DOMAIN snaps}

HeldOf(regs, cells, snaps) ==
  {regs[r] : r \in Regs} \cup {cells[c] : c \in Cells} \cup SnapshotValues(snaps)

LEMMA HeldValuesIs ==
  /\ HeldValues = HeldOf(reg, cell, snapshots) /\ RootValues = HeldValues
  /\ HeldValues' = HeldOf(reg', cell', snapshots') /\ RootValues' = HeldValues'
BY DEF HeldValues, HeldOf, SnapshotValues, RootValues

(* The step added x to the values held, and harmlessly.                    *)
Brings(x) ==
  /\ Gains(x, HeldValues, options, HeldValues', options')
  /\ Harmless(x, HeldValues, options, options')

(* How the step ended: from which slots and which counter.                 *)
Finishes(ts, free, total) ==
  \E ptr, frames, own : FinishStep(ts, free, total, ptr, frames, own)

PoolsKept == Finishes(tensors, freeList, elements)

SlotGiven(n) ==
  Finishes(TensorsWith([size |-> n, literal |-> FALSE]), FreeListTaken, (elements + n) % WordModulus)

(* A step brings something harmless and keeps the pools, or it gives a     *)
(* slot and brings its handle.                                             *)
StepForm ==
  \/ /\ PoolsKept
     /\ \E x : Brings(x) /\ (x.tag = "Tensor" => x.v \in Reachable \cup DOMAIN Pool)
  \/ \E n \in Nat : SlotGiven(n) /\ Brings(TensorHandle(SlotTaken))

LEMMA PlainKeepsPools ==
  ASSUME NEW own, FinishPlain(own)
  PROVE  PoolsKept
BY DEF FinishPlain, PoolsKept, Finishes

LEMMA SameTable ==
  ASSUME NEW x, options' = options, HeldValues' \subseteq HeldValues \cup {x}
  PROVE  Gains(x, HeldValues, options, HeldValues', options')
BY DEF Gains

(* A register written, everything else as it was.                          *)
LEMMA WriteRegister ==
  ASSUME MemoryOK, NEW r \in Regs, NEW x, reg' = [reg EXCEPT ![r] = x],
         UNCHANGED <<cell, snapshots>>
  PROVE  HeldValues' \subseteq HeldValues \cup {x}
<1>1. \A q \in Regs : reg'[q] = x \/ reg'[q] = reg[q]
  BY DEF MemoryOK
<1>2. HeldOf(reg', cell, snapshots) \subseteq HeldOf(reg, cell, snapshots) \cup {x}
  BY <1>1 DEF HeldOf
<1> QED
  BY <1>2, HeldValuesIs

LEMMA RegisterHeld ==
  ASSUME NEW r \in Regs
  PROVE  reg[r] \in HeldValues
BY DEF HeldValues

(* Nothing new: an integer stands for it.                                  *)
LEMMA BringsNothing ==
  ASSUME options' = options, HeldValues' \subseteq HeldValues \cup {IntValue(0)}
  PROVE  Brings(IntValue(0)) /\ IntValue(0).tag = "Int"
BY SameTable DEF Brings, Harmless, IntValue

LEMMA TrappedForm ==
  ASSUME Trapped
  PROVE  StepForm
<1>1. PoolsKept /\ options' = options
  BY PlainKeepsPools DEF Trapped
<1>2. HeldValues' = HeldValues
  BY HeldValuesIs DEF Trapped
<1>3. Brings(IntValue(0)) /\ IntValue(0).tag = "Int"
  BY <1>1, <1>2, BringsNothing
<1> QED
  BY <1>1, <1>3 DEF StepForm

LEMMA SetIntForm ==
  ASSUME MemoryOK, NEW r \in Regs, NEW n \in Nat, reg' = [reg EXCEPT ![r] = IntValue(n)],
         UNCHANGED <<cell, options, snapshots>>, PoolsKept
  PROVE  StepForm
<1>1. HeldValues' \subseteq HeldValues \cup {IntValue(n)}
  BY WriteRegister
<1>2. Brings(IntValue(n)) /\ IntValue(n).tag = "Int"
  BY <1>1, SameTable DEF Brings, Harmless, IntValue
<1> QED
  BY <1>2 DEF StepForm

LEMMA LiteralForm ==
  ASSUME MemoryOK, NEW r \in Regs, NEW h, LoadTensorLiteral(r, h)
  PROVE  StepForm
<1>1. PoolsKept /\ options' = options /\ h \in DOMAIN Pool
  BY PlainKeepsPools DEF LoadTensorLiteral
<1>2. HeldValues' \subseteq HeldValues \cup {TensorHandle(h)}
  BY WriteRegister DEF LoadTensorLiteral
<1>3. TensorHandle(h).tag = "Tensor" /\ TensorHandle(h).v = h
  BY DEF TensorHandle
<1>4. Brings(TensorHandle(h))
  BY <1>1, <1>2, <1>3, SameTable DEF Brings, Harmless
<1> QED
  BY <1>1, <1>3, <1>4 DEF StepForm

LEMMA MovForm ==
  ASSUME MemoryOK, NEW dst \in Regs, NEW src \in Regs, Mov(dst, src)
  PROVE  StepForm
<1>1. PoolsKept /\ options' = options
  BY PlainKeepsPools DEF Mov
<1>2. HeldValues' \subseteq HeldValues \cup {reg[src]}
  BY WriteRegister DEF Mov
<1>3. Brings(IntValue(0)) /\ IntValue(0).tag = "Int"
  BY <1>1, <1>2, RegisterHeld, BringsNothing
<1> QED
  BY <1>1, <1>3 DEF StepForm

LEMMA LoadForm ==
  ASSUME MemoryOK, NEW r \in Regs, NEW c \in Cells, Load(r, c)
  PROVE  StepForm
<1>1. PoolsKept /\ options' = options
  BY PlainKeepsPools DEF Load
<1>2. HeldValues' \subseteq HeldValues \cup {cell[c]} /\ cell[c] \in HeldValues
  BY WriteRegister DEF Load, HeldValues
<1>3. Brings(IntValue(0)) /\ IntValue(0).tag = "Int"
  BY <1>1, <1>2, BringsNothing
<1> QED
  BY <1>1, <1>3 DEF StepForm

LEMMA StoreForm ==
  ASSUME MemoryOK, NEW c \in Cells, NEW r \in Regs, Store(c, r)
  PROVE  StepForm
<1>1. PoolsKept /\ options' = options
  BY PlainKeepsPools DEF Store
<1>2. \A m \in Cells : cell'[m] = reg[r] \/ cell'[m] = cell[m]
  BY DEF Store, MemoryOK
<1>3. HeldOf(reg, cell', snapshots) \subseteq HeldOf(reg, cell, snapshots)
  BY <1>2 DEF HeldOf
<1>4. HeldValues' \subseteq HeldValues
  BY <1>3, HeldValuesIs DEF Store
<1>5. Brings(IntValue(0)) /\ IntValue(0).tag = "Int"
  BY <1>1, <1>4, BringsNothing
<1> QED
  BY <1>1, <1>5 DEF StepForm

LEMMA MakeOptionSomeForm ==
  ASSUME MemoryOK, NEW dst \in Regs, NEW src \in Regs, MakeOptionSome(dst, src)
  PROVE  StepForm
<1>1. PoolsKept
  BY PlainKeepsPools DEF MakeOptionSome
<1>2. options \in Seq(Value) /\ Len(options) \in Nat /\ DOMAIN options = 1 .. Len(options)
      /\ reg[src] \in Value
  BY LenProperties DEF MemoryOK
<1>3. \A k : OptionHandle(k).tag = "Option" /\ OptionHandle(k).v = k
  BY DEF OptionHandle
<1>4. CASE \E k \in DOMAIN options : /\ options[k] = reg[src]
                                     /\ reg' = [reg EXCEPT ![dst] = OptionHandle(k)]
                                     /\ UNCHANGED options
  <2>1. PICK k \in DOMAIN options : /\ options[k] = reg[src]
                                    /\ reg' = [reg EXCEPT ![dst] = OptionHandle(k)]
                                    /\ options' = options
    BY <1>4
  <2>2. HeldValues' \subseteq HeldValues \cup {OptionHandle(k)}
    BY <2>1, WriteRegister DEF MakeOptionSome
  <2>3. Gains(OptionHandle(k), HeldValues, options, HeldValues', options')
    BY <2>1, <2>2, SameTable
  <2>4. Harmless(OptionHandle(k), HeldValues, options, options')
    BY <1>3, <2>1, RegisterHeld DEF Harmless
  <2> QED
    BY <1>1, <1>3, <2>3, <2>4 DEF StepForm, Brings
<1>5. CASE /\ options' = Append(options, reg[src])
           /\ reg' = [reg EXCEPT ![dst] = OptionHandle(Len(options) + 1)]
  <2> DEFINE k == Len(options) + 1
  <2>1. /\ options' \in Seq(Value) /\ Len(options') = k
        /\ \A j \in 1 .. Len(options) : options'[j] = options[j]
        /\ options'[k] = reg[src]
    BY <1>2, <1>5, AppendProperties
  <2>2. DOMAIN options' = 1 .. k
    BY <2>1, LenProperties
  <2>3. k \in DOMAIN options' /\ \A j \in 1 .. k : j \in 1 .. Len(options) \/ j = k
    BY <1>2, <2>2
  <2>4. HeldValues' \subseteq HeldValues \cup {OptionHandle(k)}
    BY <1>5, WriteRegister DEF MakeOptionSome
  <2> HIDE DEF k
  <2>5. 1 .. Len(options) \subseteq 1 .. k
    BY <1>2 DEF k
  <2>6. Gains(OptionHandle(k), HeldValues, options, HeldValues', options')
    BY <1>2, <2>1, <2>2, <2>3, <2>4, <2>5, RegisterHeld DEF Gains
  <2>7. Harmless(OptionHandle(k), HeldValues, options, options')
    BY <1>3, <2>1, <2>3, RegisterHeld DEF Harmless
  <2> QED
    BY <1>1, <1>3, <2>6, <2>7 DEF StepForm, Brings
<1> QED
  BY <1>4, <1>5 DEF MakeOptionSome

LEMMA OptionUnwrapForm ==
  ASSUME MemoryOK, Denoting(HeldValues, options), NEW dst \in Regs, NEW src \in Regs,
         OptionUnwrap(dst, src)
  PROVE  StepForm
<1>1. CASE ~(reg[src].tag = "Option" /\ reg[src].v \in DOMAIN options)
  BY <1>1, TrappedForm DEF OptionUnwrap
<1>2. CASE reg[src].tag = "Option" /\ reg[src].v \in DOMAIN options
  <2> DEFINE k == reg[src].v
  <2>1. /\ reg' = [reg EXCEPT ![dst] = options[k]]
        /\ UNCHANGED <<cell, options, snapshots>>
        /\ PoolsKept
    BY <1>2, PlainKeepsPools DEF OptionUnwrap
  <2>2. k \in HeldIn(HeldValues, options)
    BY <1>2, RegisterHeld, HeldClosed DEF ClosedIn
  <2>3. HeldValues' \subseteq HeldValues \cup {options[k]}
    BY <2>1, WriteRegister
  <2>4. Brings(options[k])
    BY <2>1, <2>2, <2>3, SameTable DEF Brings, Harmless
  <2>5. options[k].tag = "Tensor" => options[k].v \in Reachable
    BY <2>2, ReachableIs DEF ReachIn, TensorsOf
  <2> QED
    BY <2>1, <2>4, <2>5 DEF StepForm
<1> QED
  BY <1>1, <1>2

LEMMA MetaReflectForm ==
  ASSUME MemoryOK, NEW dst \in Regs, MetaReflect(dst)
  PROVE  StepForm
<1>1. CASE ~(Len(snapshots) < MaxReflections)
  BY <1>1, TrappedForm DEF MetaReflect
<1>2. CASE Len(snapshots) < MaxReflections
  <2> DEFINE m == Len(snapshots) + 1
  <2>1. /\ snapshots' = Append(snapshots, reg) /\ reg' = [reg EXCEPT ![dst] = IntValue(m)]
        /\ UNCHANGED <<cell, options>> /\ PoolsKept
    BY <1>2, PlainKeepsPools DEF MetaReflect
  <2>2. /\ snapshots \in Seq([Regs -> Value]) /\ reg \in [Regs -> Value]
        /\ Len(snapshots) \in Nat /\ DOMAIN snapshots = 1 .. Len(snapshots)
    BY LenProperties DEF MemoryOK
  <2>3. /\ snapshots' \in Seq([Regs -> Value]) /\ Len(snapshots') = m
        /\ \A j \in 1 .. Len(snapshots) : snapshots'[j] = snapshots[j]
        /\ snapshots'[m] = reg
    BY <2>1, <2>2, AppendProperties
  <2>4. DOMAIN snapshots' = 1 .. m
    BY <2>3, LenProperties
  <2>5. \A j \in 1 .. m : j \in 1 .. Len(snapshots) \/ j = m
    BY <2>2
  <2>6. \A q \in Regs : reg'[q] = IntValue(m) \/ reg'[q] = reg[q]
    BY <2>1, <2>2
  <2> HIDE DEF m
  <2>7. SnapshotValues(snapshots') \subseteq SnapshotValues(snapshots) \cup {reg[r] : r \in Regs}
    <3>1. SUFFICES ASSUME NEW v \in SnapshotValues(snapshots')
                   PROVE  v \in SnapshotValues(snapshots) \cup {reg[r] : r \in Regs}
      OBVIOUS
    <3>2. PICK j \in 1 .. m, r \in Regs : v = snapshots'[j][r]
      BY <2>4, <3>1 DEF SnapshotValues
    <3>3. CASE j = m
      <4>1. v = reg[r]
        BY <2>3, <3>2, <3>3
      <4> QED
        BY <4>1
    <3>4. CASE j \in 1 .. Len(snapshots)
      <4>1. v = snapshots[j][r] /\ j \in DOMAIN snapshots
        BY <2>2, <2>3, <3>2, <3>4
      <4> QED
        BY <4>1 DEF SnapshotValues
    <3> QED
      BY <2>5, <3>3, <3>4
  <2>8. HeldOf(reg', cell, snapshots') \subseteq HeldOf(reg, cell, snapshots) \cup {IntValue(m)}
    BY <2>6, <2>7 DEF HeldOf
  <2>9. HeldValues' \subseteq HeldValues \cup {IntValue(m)}
    BY <2>1, <2>8, HeldValuesIs
  <2>10. Brings(IntValue(m)) /\ IntValue(m).tag = "Int"
    BY <2>1, <2>9, SameTable DEF Brings, Harmless, IntValue
  <2> QED
    BY <2>1, <2>10 DEF StepForm
<1> QED
  BY <1>1, <1>2

LEMMA AllocTensorForm ==
  ASSUME MemoryOK, NEW dst \in Regs, NEW n \in Nat, AllocTensor(dst, n)
  PROVE  StepForm
<1>1. CASE TooManyTensors \/ TooManyElements(n)
  BY <1>1, TrappedForm DEF AllocTensor
<1>2. CASE ~(TooManyTensors \/ TooManyElements(n))
  <2>1. /\ reg' = [reg EXCEPT ![dst] = TensorHandle(SlotTaken)]
        /\ UNCHANGED <<cell, options, snapshots>>
        /\ SlotGiven(n)
    BY <1>2 DEF AllocTensor, SlotGiven, Finishes
  <2>2. TensorHandle(SlotTaken).tag = "Tensor"
    BY DEF TensorHandle
  <2>3. HeldValues' \subseteq HeldValues \cup {TensorHandle(SlotTaken)}
    BY <2>1, WriteRegister
  <2>4. Brings(TensorHandle(SlotTaken))
    BY <2>1, <2>2, <2>3, SameTable DEF Brings, Harmless
  <2> QED
    BY <2>1, <2>4 DEF StepForm
<1> QED
  BY <1>1, <1>2

LEMMA TensorOpForm ==
  ASSUME MemoryOK, tensors \in Seq(Slot), NEW dst \in Regs, NEW src \in Regs, TensorOp(dst, src)
  PROVE  StepForm
<1>1. CASE reg[src].tag = "Tensor" /\ reg[src].v \in Occupied
  <2>1. tensors[reg[src].v].size \in Nat
    <3>1. tensors[reg[src].v] \in Slot /\ tensors[reg[src].v] # NoTensor
      BY <1>1, ElementOfSeq, LenProperties DEF Occupied
    <3> QED
      BY <3>1 DEF Slot
  <2> QED
    BY <1>1, <2>1, AllocTensorForm DEF TensorOp
<1>2. CASE ~(reg[src].tag = "Tensor" /\ reg[src].v \in Occupied)
  BY <1>2, TrappedForm DEF TensorOp
<1> QED
  BY <1>1, <1>2

LEMMA HeapForm ==
  ASSUME MemoryOK, HeapOK(heapPtr, heapFrames, owner), NEW r \in Regs, NEW n,
         HeapAlloc(r, n) \/ HeapFree(r, n)
  PROVE  StepForm
<1>1. CASE Trapped
  BY <1>1, TrappedForm
<1>2. CASE HeapAlloc(r, n) /\ ~Trapped
  <2>1. /\ reg' = [reg EXCEPT ![r] = IntValue(heapPtr)]
        /\ UNCHANGED <<cell, options, snapshots>> /\ PoolsKept
    BY <1>2 DEF HeapAlloc, PoolsKept, Finishes
  <2>2. heapPtr \in Nat
    BY DEF HeapOK
  <2> QED
    BY <2>1, <2>2, SetIntForm
<1>3. CASE HeapFree(r, n) /\ ~Trapped
  <2>1. UNCHANGED <<reg, cell, options, snapshots>> /\ PoolsKept
    BY <1>3 DEF HeapFree, PoolsKept, Finishes
  <2>2. HeldValues' = HeldValues
    BY <2>1, HeldValuesIs
  <2>3. Brings(IntValue(0)) /\ IntValue(0).tag = "Int"
    BY <2>1, <2>2, BringsNothing
  <2> QED
    BY <2>1, <2>3 DEF StepForm
<1> QED
  BY <1>1, <1>2, <1>3

(* Every step has the form. *)
LEMMA NextForm ==
  ASSUME IInv, Denoting(HeldValues, options), Next
  PROVE  StepForm
<1>1. MemoryOK /\ tensors \in Seq(Slot) /\ HeapOK(heapPtr, heapFrames, owner)
  BY DEF IInv, PoolsOK
<1>2. CASE Trapped
  BY <1>2, TrappedForm
<1>3. ASSUME NEW r \in Regs, NEW n \in Ints, SetInt(r, n)
      PROVE  StepForm
  <2>1. n \in Nat
    BY IntervalAssumption
  <2>2. PoolsKept
    BY <1>3, PlainKeepsPools DEF SetInt
  <2> QED
    BY <1>1, <1>3, <2>1, <2>2, SetIntForm DEF SetInt
<1>4. ASSUME NEW r \in Regs, NEW n \in Sizes, TNew(r, n)
      PROVE  StepForm
  <2>1. n \in Nat
    BY PoolAssumption
  <2> QED
    BY <1>1, <1>4, <2>1, AllocTensorForm DEF TNew
<1>5. ASSUME NEW r \in Regs
      PROVE  /\ MetaReflect(r) => StepForm
             /\ \A h \in DOMAIN Pool : LoadTensorLiteral(r, h) => StepForm
             /\ \A c \in Cells : Load(r, c) \/ Store(c, r) => StepForm
             /\ \A n \in HeapSizes : HeapAlloc(r, n) \/ HeapFree(r, n) => StepForm
  BY <1>1, MetaReflectForm, LiteralForm, LoadForm, StoreForm, HeapForm
<1>6. ASSUME NEW r \in Regs, NEW src \in Regs
      PROVE  Mov(r, src) \/ MakeOptionSome(r, src) \/ OptionUnwrap(r, src) \/ TensorOp(r, src)
               => StepForm
  BY <1>1, MovForm, MakeOptionSomeForm, OptionUnwrapForm, TensorOpForm
<1> QED
  BY <1>2, <1>3, <1>4, <1>5, <1>6 DEF Next

-----------------------------------------------------------------------------
(* What a step leaves of the slots *)

(* The slots as the instruction leaves them: a slot taken was empty.       *)
LEMMA SlotsTaken ==
  ASSUME PoolsOK(tensors, freeList, elements), NEW n \in Nat
  PROVE  LET new == TensorsWith([size |-> n, literal |-> FALSE])
         IN  /\ new \in Seq(Slot)
             /\ \A h \in Occupied : h \in OccupiedIn(new) /\ new[h] = tensors[h] /\ h # SlotTaken
             /\ SlotTaken \in OccupiedIn(new)
<1> DEFINE slot == [size |-> n, literal |-> FALSE]
           new == TensorsWith(slot)
           k == SlotTaken
<1>1. slot \in Slot /\ slot # NoTensor
  <2>1. slot \in [size : Nat, literal : BOOLEAN]
    OBVIOUS
  <2> HIDE DEF slot
  <2> QED
    BY <2>1, PoolAssumption DEF Slot
<1>2. tensors \in Seq(Slot) /\ freeList \in Seq(Nat) /\ Len(tensors) \in Nat
      /\ DOMAIN tensors = 1 .. Len(tensors)
  BY LenProperties DEF PoolsOK
<1> HIDE DEF slot
<1>3. CASE freeList # <<>>
  <2>1. Last(freeList) = freeList[Len(freeList)] /\ Len(freeList) \in Nat \ {0}
    BY <1>2, <1>3, FrontFacts
  <2>2. Len(freeList) \in 1 .. Len(freeList)
    BY <2>1
  <2>3. k \in 1 .. Len(tensors) /\ tensors[k] = NoTensor
    BY <1>3, <2>1, <2>2 DEF SlotTaken, PoolsOK, ListsEmptySlots
  <2>4. new = [tensors EXCEPT ![k] = slot]
    BY <1>3 DEF TensorsWith
  <2> HIDE DEF k, new
  <2>5. /\ new \in Seq(Slot) /\ Len(new) = Len(tensors)
        /\ \A h \in 1 .. Len(tensors) : new[h] = IF h = k THEN slot ELSE tensors[h]
    BY <1>1, <1>2, <2>3, <2>4, ExceptSeq
  <2>6. DOMAIN new = 1 .. Len(tensors)
    BY <2>5, LenProperties
  <2> QED
    BY <1>1, <1>2, <2>3, <2>5, <2>6 DEF Occupied, OccupiedIn, k, new, slot
<1>4. CASE freeList = <<>>
  <2>1. new = Append(tensors, slot) /\ k = Len(tensors) + 1
    BY <1>4 DEF TensorsWith, SlotTaken
  <2>2. /\ new \in Seq(Slot) /\ Len(new) = Len(tensors) + 1
        /\ \A h \in 1 .. Len(tensors) : new[h] = tensors[h]
        /\ new[Len(tensors) + 1] = slot
    BY <1>1, <1>2, <2>1, AppendProperties
  <2> HIDE DEF new
  <2>3. DOMAIN new = 1 .. Len(tensors) + 1
    BY <2>2, LenProperties
  <2>4. k \in 1 .. Len(tensors) + 1 /\ \A h \in 1 .. Len(tensors) : h # k /\ h \in 1 .. Len(tensors) + 1
    BY <1>2, <2>1
  <2> HIDE DEF k
  <2> QED
    BY <1>1, <1>2, <2>1, <2>2, <2>3, <2>4 DEF Occupied, OccupiedIn, k, new, slot
<1> QED
  BY <1>3, <1>4

LEMMA NextReachable ==
  /\ Reachable' = ReachIn(HeldValues', options')
  /\ MarkedHandles' = TensorsOf(HeldValues' \cup {options'[k] : k \in MarkedIn(HeldValues', options')})
  /\ Occupied = OccupiedIn(tensors) /\ Occupied' = OccupiedIn(tensors')
<1>1. Reachable' = ReachIn(HeldValues', options')
  BY DEF Reachable, ReachIn, TensorsOf, HeldIn, ClosedIn, ClosedUnderPayloads
<1>2. MarkedOptions' = MarkedIn(HeldValues', options')
  BY HeldValuesIs DEF MarkedOptions, MarkedIn, OptionsOf, OptionsIn
<1>3. MarkedHandles' = TensorsOf(RootValues' \cup {options'[k] : k \in MarkedOptions'})
  BY DEF MarkedHandles, TensorsOf
<1> QED
  BY <1>1, <1>2, <1>3, HeldValuesIs DEF Occupied, OccupiedIn

(* The end of a step empties no slot within reach and keeps the account.   *)
LEMMA FinishKeeps ==
  ASSUME NEW ts \in Seq(Slot), NEW free, NEW total \in 0 .. WordModulus - 1,
         Accounted(ts, total), Finishes(ts, free, total),
         Denoting(HeldValues', options'), options' \in Seq(Value)
  PROVE  /\ Accounted(tensors', elements')
         /\ \A h \in OccupiedIn(ts) \cap Reachable' : h \in Occupied' /\ tensors'[h] = ts[h]
<1>1. CASE tensors' = ts /\ elements' = total
  BY <1>1, NextReachable
<1>2. CASE MarkAndSweep(ts, free, total)
  <2> DEFINE dead == {h \in DOMAIN ts : ts[h] # NoTensor /\ h \notin MarkedHandles'}
  <2>1. /\ tensors' = [h \in DOMAIN ts |-> IF h \in dead THEN NoTensor ELSE ts[h]]
        /\ elements' \in ElementsLeft(total, ts, dead)
    BY <1>2 DEF MarkAndSweep
  <2>2. dead \in SUBSET OccupiedIn(ts) /\ \A h \in dead : h \notin MarkedHandles'
    BY DEF OccupiedIn
  <2> HIDE DEF dead
  <2>3. Accounted(tensors', elements')
    BY <2>1, <2>2, SweepAccounts
  <2>4. Reachable' \subseteq MarkedHandles'
    BY NextReachable, ReachMarked
  <2>5. \A h \in OccupiedIn(ts) \cap Reachable' : h \in OccupiedIn(tensors') /\ tensors'[h] = ts[h]
    BY <2>1, <2>2, <2>4 DEF OccupiedIn
  <2> QED
    BY <2>3, <2>5, NextReachable
<1> QED
  BY <1>1, <1>2 DEF Finishes, FinishStep

-----------------------------------------------------------------------------
(* The inductive invariant *)

(* The storage is sound, every option handle denotes an entry of the       *)
(* table, whatever is within reach a tensor, and the counter is off by the *)
(* literals of the pool.                                                   *)
ReachInv ==
  /\ IInv
  /\ Denoting(HeldValues, options)
  /\ NoDangling
  /\ Accounted(tensors, elements)

(* What a step may not do to the tensors within reach.                     *)
Untouched == \A h \in Reachable \cap Reachable' : h \in Occupied => tensors'[h] = tensors[h]

LEMMA InitReachInv == Init => ReachInv
<1> SUFFICES ASSUME Init PROVE ReachInv
  OBVIOUS
<1>1. IInv
  BY InitIInv
<1>2. \A x \in HeldValues : x.tag = "Int"
  BY DEF Init, HeldValues, IntValue
<1>3. DOMAIN options = {}
  BY DEF Init
<1>4. Denoting(HeldValues, options)
  BY <1>2, <1>3 DEF Denoting, ClosedIn
<1>5. Reachable = {}
  BY <1>2, <1>3 DEF Reachable
<1>6. NoDangling
  BY <1>5 DEF NoDangling
<1>7. tensors \in Seq(Slot) /\ DOMAIN tensors = DOMAIN Pool /\ \A h \in DOMAIN Pool : tensors[h].size = Pool[h]
  BY <1>1 DEF Init, IInv, PoolsOK
<1>8. OccupiedIn(tensors) = DOMAIN Pool
  <2>1. \A h \in DOMAIN Pool : tensors[h] \in [size : Nat, literal : BOOLEAN]
    BY PoolAssumption, ElementOfSeq, LenProperties DEF Init
  <2> QED
    BY <1>7, <2>1, PoolAssumption DEF OccupiedIn
<1>9. HeldBy(tensors, OccupiedIn(tensors)) = Total(Pool)
  <2>1. [h \in DOMAIN tensors |-> IF h \in OccupiedIn(tensors) THEN tensors[h].size ELSE 0]
          = [h \in DOMAIN Pool |-> Pool[h]]
    BY <1>7, <1>8
  <2>2. Pool = [h \in DOMAIN Pool |-> Pool[h]]
    BY PoolAssumption
  <2> QED
    BY <2>1, <2>2 DEF HeldBy
<1>10. elements = 0 /\ 0 + Total(Pool) = Total(Pool)
  BY PoolTotal DEF Init
<1> QED
  BY <1>1, <1>4, <1>6, <1>9, <1>10 DEF ReachInv, Accounted

LEMMA StepReachInv ==
  ASSUME ReachInv, Next, IInv'
  PROVE  /\ Denoting(HeldValues', options')
         /\ NoDangling'
         /\ Accounted(tensors', elements')
         /\ Untouched
<1>1. /\ IInv /\ Denoting(HeldValues, options) /\ Accounted(tensors, elements)
      /\ options' \in Seq(Value)
      /\ PoolsOK(tensors, freeList, elements)
      /\ tensors \in Seq(Slot) /\ elements \in 0 .. WordModulus - 1
      /\ \A h \in Reachable : h \in Occupied \/ h \in DOMAIN Pool
  BY DEF ReachInv, IInv, MemoryOK, PoolsOK, NoDangling
<1>2. StepForm
  BY <1>1, NextForm
<1>3. ASSUME NEW x, Brings(x)
      PROVE  /\ Denoting(HeldValues', options')
             /\ \A h \in Reachable' : h \in Reachable \/ (x.tag = "Tensor" /\ h = x.v)
  <2>1. /\ Denoting(HeldValues', options')
        /\ \A h \in ReachIn(HeldValues', options') :
             h \in ReachIn(HeldValues, options) \/ (x.tag = "Tensor" /\ h = x.v)
    BY <1>1, <1>3, GainsReach DEF Brings
  <2> QED
    BY <2>1, NextReachable, ReachableIs
<1>4. ASSUME PoolsKept, NEW x, Brings(x), x.tag = "Tensor" => x.v \in Reachable \cup DOMAIN Pool
      PROVE  /\ Denoting(HeldValues', options') /\ NoDangling'
             /\ Accounted(tensors', elements') /\ Untouched
  <2>1. /\ Denoting(HeldValues', options')
        /\ \A h \in Reachable' : h \in Reachable \cup DOMAIN Pool
    BY <1>3, <1>4
  <2>2. /\ Accounted(tensors', elements')
        /\ \A h \in Occupied \cap Reachable' : h \in Occupied' /\ tensors'[h] = tensors[h]
    BY <1>1, <1>4, <2>1, FinishKeeps, NextReachable DEF PoolsKept
  <2>3. NoDangling'
    BY <1>1, <2>1, <2>2 DEF NoDangling
  <2>4. Untouched
    BY <2>2 DEF Untouched
  <2> QED
    BY <2>1, <2>2, <2>3, <2>4
<1>5. ASSUME NEW n \in Nat, SlotGiven(n), Brings(TensorHandle(SlotTaken))
      PROVE  /\ Denoting(HeldValues', options') /\ NoDangling'
             /\ Accounted(tensors', elements') /\ Untouched
  <2> DEFINE new == TensorsWith([size |-> n, literal |-> FALSE])
             total == (elements + n) % WordModulus
  <2>1. /\ Denoting(HeldValues', options')
        /\ \A h \in Reachable' : h \in Reachable \/ h = SlotTaken
    BY <1>3, <1>5 DEF TensorHandle
  <2>2. /\ new \in Seq(Slot)
        /\ \A h \in Occupied : h \in OccupiedIn(new) /\ new[h] = tensors[h]
        /\ SlotTaken \in OccupiedIn(new)
    BY <1>1, SlotsTaken
  <2>3. Accounted(new, total)
    BY <1>1, TakeAccounts
  <2>4. total \in 0 .. WordModulus - 1
    BY <1>1, PoolAssumption
  <2>5. Finishes(new, FreeListTaken, total)
    BY <1>5 DEF SlotGiven
  <2> HIDE DEF new, total
  <2>6. /\ Accounted(tensors', elements')
        /\ \A h \in OccupiedIn(new) \cap Reachable' : h \in Occupied' /\ tensors'[h] = new[h]
    BY <1>1, <2>1, <2>2, <2>3, <2>4, <2>5, FinishKeeps
  <2>7. NoDangling'
    BY <1>1, <2>1, <2>2, <2>6 DEF NoDangling
  <2>8. Untouched
    BY <2>2, <2>6 DEF Untouched
  <2> QED
    BY <2>1, <2>6, <2>7, <2>8
<1> QED
  BY <1>2, <1>4, <1>5 DEF StepForm

LEMMA StutterReachInv ==
  ASSUME ReachInv, UNCHANGED vars
  PROVE  ReachInv' /\ Untouched
<1>1. IInv'
  BY NextIInv DEF ReachInv
<1>2. /\ options' = options /\ tensors' = tensors /\ elements' = elements
      /\ reg' = reg /\ cell' = cell /\ snapshots' = snapshots
  BY DEF vars
<1>3. HeldValues' = HeldValues
  BY <1>2, HeldValuesIs
<1>4. Reachable' = Reachable /\ Occupied' = Occupied
  BY <1>2, <1>3, NextReachable, ReachableIs
<1>5. Denoting(HeldValues', options') /\ Accounted(tensors', elements')
  BY <1>2, <1>3 DEF ReachInv
<1> QED
  BY <1>1, <1>2, <1>4, <1>5 DEF ReachInv, NoDangling, Untouched

LEMMA NextReachInv == ReachInv /\ [Next]_vars => ReachInv' /\ Untouched
<1> SUFFICES ASSUME ReachInv, [Next]_vars PROVE ReachInv' /\ Untouched
  OBVIOUS
<1>1. CASE UNCHANGED vars
  BY <1>1, StutterReachInv
<1>2. CASE Next
  <2>1. IInv'
    BY <1>2, NextIInv DEF ReachInv
  <2> QED
    BY <1>2, <2>1, StepReachInv DEF ReachInv
<1> QED
  BY <1>1, <1>2

(* The invariant holds in every execution.                                 *)
THEOREM ReachInvariant == Spec => []ReachInv
BY InitReachInv, NextReachInv, PTL DEF Spec

(* Whatever is still within reach denotes a tensor or a pool literal: the  *)
(* collector frees nothing a program can still get at, through registers,  *)
(* memory, snapshots or nested options, for every number and size of them. *)
THEOREM NothingDangles == Spec => []NoDangling
<1>1. ReachInv => NoDangling
  BY DEF ReachInv
<1> QED
  BY <1>1, ReachInvariant, PTL

(* No step changes the tensor in a slot that was and stays within reach.   *)
THEOREM ReachableKept == Spec => ReachableUntouched
<1>1. ReachInv /\ [Next]_vars => [Untouched]_vars
  BY NextReachInv
<1> QED
  BY <1>1, ReachInvariant, PTL DEF Spec, ReachableUntouched, Untouched

(* The element counter is off by exactly the literals of the pool, modulo  *)
(* its width, after any number of allocations and collections.             *)
THEOREM CounterAccounts == Spec => []AccountingOffset
<1>1. ReachInv => AccountingOffset
  BY NextReachable DEF ReachInv, AccountingOffset, Accounted, LiveElements
<1> QED
  BY <1>1, ReachInvariant, PTL
=============================================================================
