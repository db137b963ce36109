-------------------------------- MODULE VmGc --------------------------------
(***************************************************************************)
(* The storage the T81 virtual machine manages for a running program: the  *)
(* tensor slots and their free list, the bump-allocated heap segment, and  *)
(* the collection cycle that the interpreter runs after every kGcInterval  *)
(* dispatched instructions (core/vm/vm.cpp, gc_helpers.cpp,                *)
(* tensor_helpers.cpp, memory_segments.cpp).                               *)
(*                                                                         *)
(* A behaviour is the execution of an arbitrary program: each step is one  *)
(* dispatched instruction, chosen freely, followed by the end of step(),   *)
(* which counts the instruction and collects when the interval is full.    *)
(* Slots are numbered from 1, as the handles of the code are.              *)
(***************************************************************************)
EXTENDS Integers, SequencesExt

CONSTANTS
  Regs,            \* general registers (R1..R74, R81..R242)
  Cells,           \* words of data memory that hold program values
  Ints,            \* integers that programs compute
  Pool,            \* the program's tensor pool: the element count of each literal
  Sizes,           \* element counts that programs ask for
  MaxTensors,      \* the policy's max-tensors
  MaxElements,     \* the policy's max-tensor-elements
  WordModulus,     \* std::size_t arithmetic is modulo this (2^64)
  HeapStart,       \* first address of the heap segment
  HeapLimit,       \* its exclusive limit
  HeapSizes,       \* byte counts that programs ask for
  Block,           \* alignment of heap blocks (81)
  GcInterval,      \* kGcInterval (64)
  MaxReflections,  \* kMaxReflectionsPerEpoch (81)
  MaxOptions,      \* bound of the model: entries of the option table
  NoTensor,        \* an empty slot (std::nullopt)
  NoBlock          \* a register that denotes no heap block

ASSUME SegmentAssumption ==
  /\ HeapStart \in Nat \ {0}
  /\ HeapLimit \in Nat
  /\ HeapStart < HeapLimit
  /\ HeapSizes \subseteq Nat
  /\ Block \in Nat \ {0}

ASSUME PoolAssumption ==
  /\ Pool \in Seq(Nat)
  /\ Sizes \subseteq Nat \ {0}
  /\ MaxTensors \in Nat
  /\ MaxElements \in Nat
  /\ WordModulus \in Nat \ {0}
  /\ NoTensor \notin [size : Nat, literal : BOOLEAN]

ASSUME IntervalAssumption ==
  /\ Ints \subseteq Nat
  /\ GcInterval \in Nat \ {0}
  /\ MaxReflections \in Nat
  /\ MaxOptions \in Nat
  /\ NoBlock \notin [addr : Nat, size : Nat, fresh : BOOLEAN]

VARIABLES
  reg,         \* register file: a tagged value per register
  cell,        \* data memory: a tagged value per word
  options,     \* payloads of the interned option values, never reclaimed
  snapshots,   \* reflection snapshots: copies of the register file
  tensors,     \* tensor slots
  freeList,    \* free_tensor_indices, used from its end
  elements,    \* total_tensor_elements
  heapPtr,     \* next free heap address
  heapFrames,  \* live heap blocks as <<address, size>>, oldest first
  gcTick,      \* instructions_since_gc_
  owner        \* history: the block each register got from HeapAlloc

vars == <<reg, cell, options, snapshots, tensors, freeList, elements,
          heapPtr, heapFrames, gcTick, owner>>

pools == <<tensors, freeList, elements>>
heap == <<heapPtr, heapFrames>>

-----------------------------------------------------------------------------
(* Values *)

Value == [tag : {"Int", "Tensor", "Option"}, v : Nat]
IntValue(n) == [tag |-> "Int", v |-> n]
TensorHandle(h) == [tag |-> "Tensor", v |-> h]
OptionHandle(k) == [tag |-> "Option", v |-> k]

Slot == [size : Nat, literal : BOOLEAN] \cup {NoTensor}
HeapBlock == [addr : Nat, size : Nat, fresh : BOOLEAN]

Occupied == {h \in DOMAIN tensors : tensors[h] # NoTensor}

AlignBlock(n) == ((n + Block - 1) \div Block) * Block

-----------------------------------------------------------------------------
(* The mark phase *)

RootsWithoutMemory ==
  {reg[r] : r \in Regs}
    \cup UNION {{snapshots[i][r] : r \in Regs} : i \in DOMAIN snapshots}

RootValues ==
  {reg[r] : r \in Regs} \cup {cell[c] : c \in Cells}
    \cup UNION {{snapshots[i][r] : r \in Regs} : i \in DOMAIN snapshots}

OptionsOf(values) ==
  {x.v : x \in {y \in values : y.tag = "Option"}} \cap DOMAIN options

MarkedOptionsFlat == OptionsOf(RootValues)

(* Options reached from the roots through at most n payloads. *)
MarkedOptions ==
  LET within[n \in 0 .. Len(options)] ==
        IF n = 0
        THEN OptionsOf(RootValues)
        ELSE within[n - 1] \cup OptionsOf({options[k] : k \in within[n - 1]})
  IN  within[Len(options)]

(* Tensor handles that mark_and_sweep marks. *)
MarkedHandles ==
  {x.v : x \in {y \in RootValues \cup {options[k] : k \in MarkedOptions} :
                  y.tag = "Tensor"}}

-----------------------------------------------------------------------------
(* The end of step(): count the instruction and collect when it is time.   *)
(* ts, free, total, ptr and frames are the pools and the heap as the       *)
(* instruction leaves them, own the history of its blocks.                 *)

Ascending(S) ==
  {q \in [1 .. Cardinality(S) -> S] :
     /\ \A i, j \in 1 .. Cardinality(S) : i < j => q[i] < q[j]
     /\ \A x \in S : \E i \in 1 .. Cardinality(S) : q[i] = x}

Total(amounts) ==
  LET sum[i \in 0 .. Len(amounts)] == IF i = 0 THEN 0 ELSE sum[i - 1] + amounts[i]
  IN  sum[Len(amounts)]

HeldBy(ts, slots) == Total([h \in DOMAIN ts |-> IF h \in slots THEN ts[h].size ELSE 0])

ElementsKept(total, ts, dead) == {total}

(* What the unsigned counter becomes when the dead slots are subtracted.   *)
ElementsLeft(total, ts, dead) ==
  {n \in 0 .. WordModulus - 1 : (n + HeldBy(ts, dead)) % WordModulus = total}

MarkAndSweep(ts, free, total) ==
  LET dead == {h \in DOMAIN ts : ts[h] # NoTensor /\ h \notin MarkedHandles'}
  IN  /\ tensors' = [h \in DOMAIN ts |-> IF h \in dead THEN NoTensor ELSE ts[h]]
      /\ \E swept \in Ascending(dead) : freeList' = free \o swept
      /\ elements' \in ElementsLeft(total, ts, dead)

CompactHeapKeepingFrames(own) ==
  /\ heapPtr' = HeapStart
  /\ heapFrames' = heapFrames
  /\ owner' = own

CompactHeap(own) ==
  /\ heapPtr' = HeapStart
  /\ heapFrames' = <<>>
  /\ owner' = [r \in Regs |->
                 IF own[r] = NoBlock THEN NoBlock ELSE [own[r] EXCEPT !.fresh = FALSE]]

IntervalFullLate == gcTick + 1 > GcInterval
IntervalFull == gcTick + 1 >= GcInterval

FinishStep(ts, free, total, ptr, frames, own) ==
  IF IntervalFull
  THEN /\ gcTick' = 0
       /\ MarkAndSweep(ts, free, total)
       /\ CompactHeap(own)
  ELSE /\ gcTick' = gcTick + 1
       /\ tensors' = ts
       /\ freeList' = free
       /\ elements' = total
       /\ heapPtr' = ptr
       /\ heapFrames' = frames
       /\ owner' = own

(* An instruction that leaves pools and heap alone. *)
FinishPlain(own) == FinishStep(tensors, freeList, elements, heapPtr, heapFrames, own)

(* A trap inside the handler, before it has changed anything.  The step    *)
(* still counts the instruction.                                           *)
Trapped ==
  /\ UNCHANGED <<reg, cell, options, snapshots>>
  /\ FinishPlain(owner)

Disown(r) == [owner EXCEPT ![r] = NoBlock]

-----------------------------------------------------------------------------
(* Instructions that move values *)

(* An instruction whose result is an integer: LoadImm, arithmetic, ...     *)
SetInt(r, n) ==
  /\ reg' = [reg EXCEPT ![r] = IntValue(n)]
  /\ UNCHANGED <<cell, options, snapshots>>
  /\ FinishPlain(Disown(r))

(* LoadImm with a tensor literal: the handle is an operand in the code.    *)
LoadTensorLiteral(r, h) ==
  /\ h \in DOMAIN Pool
  /\ reg' = [reg EXCEPT ![r] = TensorHandle(h)]
  /\ UNCHANGED <<cell, options, snapshots>>
  /\ FinishPlain(Disown(r))

Mov(dst, src) ==
  /\ reg' = [reg EXCEPT ![dst] = reg[src]]
  /\ UNCHANGED <<cell, options, snapshots>>
  /\ FinishPlain([owner EXCEPT ![dst] = owner[src]])

Load(r, c) ==
  /\ reg' = [reg EXCEPT ![r] = cell[c]]
  /\ UNCHANGED <<cell, options, snapshots>>
  /\ FinishPlain(Disown(r))

Store(c, r) ==
  /\ cell' = [cell EXCEPT ![c] = reg[r]]
  /\ UNCHANGED <<reg, options, snapshots>>
  /\ FinishPlain(owner)

(* intern_option reuses the entry with the same payload.                   *)
MakeOptionSome(dst, src) ==
  /\ \/ \E k \in DOMAIN options :
          /\ options[k] = reg[src]
          /\ reg' = [reg EXCEPT ![dst] = OptionHandle(k)]
          /\ UNCHANGED options
     \/ /\ reg[src] \notin ToSet(options)
        /\ Len(options) < MaxOptions
        /\ options' = Append(options, reg[src])
        /\ reg' = [reg EXCEPT ![dst] = OptionHandle(Len(options) + 1)]
  /\ UNCHANGED <<cell, snapshots>>
  /\ FinishPlain(Disown(dst))

OptionUnwrap(dst, src) ==
  IF reg[src].tag = "Option" /\ reg[src].v \in DOMAIN options
  THEN /\ reg' = [reg EXCEPT ![dst] = options[reg[src].v]]
       /\ UNCHANGED <<cell, options, snapshots>>
       /\ FinishPlain(Disown(dst))
  ELSE Trapped

(* The snapshot pins its values; its handle is not a collected object.      *)
MetaReflect(dst) ==
  IF Len(snapshots) < MaxReflections
  THEN /\ snapshots' = Append(snapshots, reg)
       /\ reg' = [reg EXCEPT ![dst] = IntValue(Len(snapshots) + 1)]
       /\ UNCHANGED <<cell, options>>
       /\ FinishPlain(Disown(dst))
  ELSE Trapped

-----------------------------------------------------------------------------
(* Tensor allocation *)

(* evaluate_tensor_alloc_policy; sizes are std::size_t. *)
ActiveTensors == Len(tensors) - Len(freeList)
TooManyTensors == ActiveTensors >= MaxTensors
TooManyElements(n) == (elements + n) % WordModulus > MaxElements

(* store_tensor_slot: the slot freed last, or a new one at the end. *)
SlotTaken == IF freeList # <<>> THEN Last(freeList) ELSE Len(tensors) + 1
FreeListUntaken == freeList
FreeListTaken == IF freeList # <<>> THEN Front(freeList) ELSE freeList

TensorsWith(slot) ==
  IF freeList # <<>> THEN [tensors EXCEPT ![SlotTaken] = slot] ELSE Append(tensors, slot)

(* alloc_tensor: ask the policy, account the elements, take a slot. *)
AllocTensor(dst, n) ==
  IF TooManyTensors \/ TooManyElements(n)
  THEN Trapped
  ELSE /\ reg' = [reg EXCEPT ![dst] = TensorHandle(SlotTaken)]
       /\ UNCHANGED <<cell, options, snapshots>>
       /\ FinishStep(TensorsWith([size |-> n, literal |-> FALSE]), FreeListTaken,
                     (elements + n) % WordModulus, heapPtr, heapFrames, Disown(dst))

TNew(dst, n) == AllocTensor(dst, n)

(* TID, and every opcode that computes a new tensor from an operand: a     *)
(* handle that denotes no tensor is a DecodeFault.                         *)
TensorOp(dst, src) ==
  IF reg[src].tag = "Tensor" /\ reg[src].v \in Occupied
  THEN AllocTensor(dst, tensors[reg[src].v].size)
  ELSE Trapped

-----------------------------------------------------------------------------
(* Heap blocks *)

HeapAlloc(r, n) ==
  LET size == AlignBlock(n)
  IN  IF heapPtr + size <= HeapLimit /\ reg[r].v = 0
      THEN /\ reg' = [reg EXCEPT ![r] = IntValue(heapPtr)]
           /\ UNCHANGED <<cell, options, snapshots>>
           /\ FinishStep(tensors, freeList, elements, heapPtr + size,
                         Append(heapFrames, <<heapPtr, size>>),
                         [owner EXCEPT ![r] =
                            [addr |-> heapPtr, size |-> size, fresh |-> TRUE]])
      ELSE Trapped

CanFreeAnyBlock(ptr, size) ==
  /\ heapFrames # <<>>
  /\ ptr \in HeapStart .. HeapLimit - 1

(* Only the newest block can be freed, by its address and size. *)
CanFree(ptr, size) ==
  /\ heapFrames # <<>>
  /\ ptr \in HeapStart .. HeapLimit - 1
  /\ Last(heapFrames) = <<ptr, size>>

HeapFree(r, n) ==
  LET ptr == reg[r].v
      size == AlignBlock(n)
  IN  IF CanFree(ptr, size)
      THEN /\ UNCHANGED <<reg, cell, options, snapshots>>
           /\ FinishStep(tensors, freeList, elements, ptr, Front(heapFrames),
                         [q \in Regs |->
                            IF owner[q] = [addr |-> ptr, size |-> size, fresh |-> TRUE]
                            THEN NoBlock ELSE owner[q]])
      ELSE Trapped

-----------------------------------------------------------------------------
(* load_program copies the literal pool into the first slots.  The element *)
(* counter starts at 0 all the same.                                       *)
Init ==
  /\ reg = [r \in Regs |-> IntValue(0)]
  /\ cell = [c \in Cells |-> IntValue(0)]
  /\ options = <<>>
  /\ snapshots = <<>>
  /\ tensors = [h \in DOMAIN Pool |-> [size |-> Pool[h], literal |-> TRUE]]
  /\ freeList = <<>>
  /\ elements = 0
  /\ heapPtr = HeapStart
  /\ heapFrames = <<>>
  /\ gcTick = 0
  /\ owner = [r \in Regs |-> NoBlock]

Next ==
  \/ Trapped
  \/ \E r \in Regs :
       \/ \E n \in Ints : SetInt(r, n)
       \/ MetaReflect(r)
       \/ \E h \in DOMAIN Pool : LoadTensorLiteral(r, h)
       \/ \E c \in Cells : Load(r, c) \/ Store(c, r)
       \/ \E n \in Sizes : TNew(r, n)
       \/ \E n \in HeapSizes : HeapAlloc(r, n) \/ HeapFree(r, n)
       \/ \E src \in Regs :
            Mov(r, src) \/ MakeOptionSome(r, src) \/ OptionUnwrap(r, src)
              \/ TensorOp(r, src)

Spec == Init /\ [][Next]_vars

-----------------------------------------------------------------------------
(* Properties *)

(* Elements really held by the occupied slots. *)
LiveElements == HeldBy(tensors, Occupied)

(* The shape of the state. *)
TypeOK ==
  /\ reg \in [Regs -> Value]
  /\ cell \in [Cells -> Value]
  /\ options \in Seq(Value)
  /\ snapshots \in Seq([Regs -> Value])
  /\ tensors \in Seq(Slot)
  /\ freeList \in Seq(Nat)
  /\ elements \in 0 .. WordModulus - 1
  /\ heapPtr \in Nat
  /\ heapFrames \in Seq(Nat \X Nat)
  /\ gcTick \in 0 .. GcInterval - 1
  /\ owner \in [Regs -> HeapBlock \cup {NoBlock}]

ListsEmptySlots(free, ts) ==
  /\ \A i \in 1 .. Len(free) :
       free[i] \in 1 .. Len(ts) /\ ts[free[i]] = NoTensor
  /\ \A i, j \in 1 .. Len(free) : free[i] = free[j] => i = j
  /\ \A h \in 1 .. Len(ts) :
       ts[h] = NoTensor => \E i \in 1 .. Len(free) : free[i] = h

(* The free list holds every empty slot and nothing else, each once.       *)
(* store_tensor_slot takes a slot from it without looking at the slot: a   *)
(* duplicate or an occupied entry would give one slot to two owners, and a *)
(* missing one would be lost to the program for good.                      *)
FreeListExact == ListsEmptySlots(freeList, tensors)

(* What a program or an observer can get at, whatever the collector marks: *)
(* the payloads of an option are within reach when the option is.          *)
HeldValues ==
  {reg[r] : r \in Regs} \cup {cell[c] : c \in Cells}
    \cup UNION {{snapshots[i][r] : r \in Regs} : i \in DOMAIN snapshots}

ClosedUnderPayloads(S) ==
  /\ \A x \in HeldValues : x.tag = "Option" => x.v \in S
  /\ \A k \in S : options[k].tag = "Option" => options[k].v \in S

Reachable ==
  LET held == {k \in DOMAIN options :
                 \A S \in SUBSET DOMAIN options : ClosedUnderPayloads(S) => k \in S}
  IN  {x.v : x \in {y \in HeldValues \cup {options[k] : k \in held} :
                      y.tag = "Tensor"}}

(* Whatever is still within reach denotes a tensor.  An option interned    *)
(* for a tensor that has died stays in the table and is found again when   *)
(* the slot number comes back.  The handles of pool literals are excepted: *)
(* the collector does not count instructions that name them as roots.      *)
NoDangling ==
  \A h \in Reachable : h \in Occupied \/ h \in DOMAIN Pool

(* The collector and the allocator leave alone every tensor that stays     *)
(* within reach: its slot is neither emptied nor given to another tensor.  *)
ReachableUntouched ==
  [][\A h \in Reachable \cap Reachable' :
       h \in Occupied => tensors'[h] = tensors[h]]_vars

(* total_tensor_elements follows the elements held by the slots, short of  *)
(* the pool literals, which load_program stores without accounting them    *)
(* and mark_and_sweep subtracts all the same: the difference is constant   *)
(* modulo the width of the counter.                                        *)
AccountingOffset ==
  (elements + Total(Pool)) % WordModulus = LiveElements % WordModulus

End(frame) == frame[1] + frame[2]

TilesHeap(ptr, frames) ==
  /\ ptr <= HeapLimit
  /\ ptr = IF frames = <<>> THEN HeapStart ELSE End(frames[Len(frames)])
  /\ \A i \in 1 .. Len(frames) :
       /\ frames[i][1] = IF i = 1 THEN HeapStart ELSE End(frames[i - 1])
       /\ frames[i][2] % Block = 0

(* The live blocks tile the heap from its start to heap_ptr, aligned and   *)
(* inside the segment, through every order of allocations, frees and       *)
(* collections.                                                            *)
HeapTiling == TilesHeap(heapPtr, heapFrames)

Overlap(b, c) == b.addr < c.addr + c.size /\ c.addr < b.addr + b.size

IsFresh(b) == b # NoBlock /\ b.fresh

FreshListed(own, frames) ==
  \A r \in Regs : IsFresh(own[r]) =>
    \E i \in 1 .. Len(frames) : frames[i] = <<own[r].addr, own[r].size>>

(* A block handed out since the last collection and not freed is still     *)
(* listed, and shares no byte with another such block: a pointer left over *)
(* from an earlier cycle can free a new block, but never makes two live    *)
(* ones overlap.                                                           *)
FreshBlocksDisjoint ==
  /\ FreshListed(owner, heapFrames)
  /\ \A r, q \in Regs :
       IsFresh(owner[r]) /\ IsFresh(owner[q]) /\ owner[r] # owner[q]
         => ~Overlap(owner[r], owner[q])

=============================================================================
