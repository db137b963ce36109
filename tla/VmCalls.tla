------------------------------ MODULE VmCalls ------------------------------
(***************************************************************************)
(* The call machinery of a T81 virtual machine context: the stack segment  *)
(* with its frames, the call depth, the Tier-3 recursor and the cognitive  *)
(* tier that bounds both depths (core/vm/vm.cpp, memory_segments.cpp,      *)
(* tier_limits.cpp, experimental/tiers/cog/promotion.cpp and               *)
(* tier3/recursive.cpp).                                                   *)
(*                                                                         *)
(* A behaviour is an arbitrary program: each step is one dispatched        *)
(* instruction followed, unless it trapped, by the tier telemetry at the   *)
(* end of step().  What the telemetry measures (branching entropy, tensor  *)
(* shapes and ranks, symbolic graphs, inboxes, infinite forms) comes from  *)
(* other parts of the machine and is an input here, as are the words a     *)
(* program moves through the stack and the verdicts of the Axion engine.   *)
(***************************************************************************)
EXTENDS Integers, SequencesExt

CONSTANTS
  StackStart,   \* lowest address of the stack segment (stack_limit)
  StackBase,    \* its exclusive end (stack_base); the stack grows downwards
  MaxStack,     \* the policy's max-stack; the segment's size when there is none
  Block,        \* alignment of stack frames (81)
  FrameSizes,   \* byte counts that programs ask for
  RecLimit,     \* recursion_limit_for_tier
  StableSteps,  \* simple steps before a demotion (81)
  Loads,        \* what the telemetry may measure at the end of a step
  HeapUses,     \* heap bytes in use, an input of the seed entropy
  Entropies     \* entropies that programs contract to

Tiers == 0 .. 5
Beyond == 6     \* more than the ceiling of Tier5

(* A measurement: the lowest tier whose ceiling admits the branching       *)
(* entropy, the same for the other complexities, the rank that tensors,    *)
(* symbols, messages and infinite forms ask for when a demotion is         *)
(* considered, and whether symbolic graphs are left.  The ceilings of      *)
(* Tier0 and Tier1 are the same, so none asks for Tier1.                   *)
Load ==
  {l \in [entropy : {0} \cup 2 .. Beyond, complexity : {0} \cup 2 .. Beyond,
          floor : 1 .. 5, graphs : BOOLEAN] :
     /\ l.complexity = 2 => l.floor >= 2
     /\ l.complexity >= 3 => l.floor >= 3}

ASSUME SegmentAssumption ==
  /\ StackStart \in Nat
  /\ StackBase \in Nat
  /\ StackStart < StackBase
  /\ MaxStack \in Nat
  /\ Block \in Nat \ {0}
  /\ FrameSizes \subseteq Nat

ASSUME TierAssumption ==
  /\ RecLimit \in [Tiers -> Nat]
  /\ \A s, t \in Tiers : s <= t => RecLimit[s] <= RecLimit[t]
  /\ StableSteps \in Nat \ {0}
  /\ Loads \subseteq Load
  /\ HeapUses \subseteq Nat
  /\ Entropies \subseteq Int

VARIABLES
  sp,        \* stack pointer: address of the newest word
  frames,    \* stack_frames as <<address, size>>, oldest first
  depth,     \* call_depth
  proofs,    \* the recursor's frames as <<initial entropy, final entropy>>
  tier,      \* tier_status.current
  stable     \* stable_simple_steps, saturated at StableSteps

vars == <<sp, frames, depth, proofs, tier, stable>>
stack == <<sp, frames>>

-----------------------------------------------------------------------------
(* Tiers *)

Larger(m, n) == IF m < n THEN n ELSE m

Deepest(d, p) == Larger(d, Len(p))

(* infer_required_tier_for_recursion: one above the tiers it outgrows. *)
TierForRecursion(n) == 1 + Cardinality({t \in 1 .. 4 : n > RecLimit[t]})

(* ensure_min_tier promotes tier by tier and asks the Axion engine each    *)
(* time; a denial leaves the tiers granted so far.                         *)
Promotions(now, required) == now .. Larger(now, required)

(* Call promotes while the limit is below the depth it needs.              *)
CallPromotions(now, n) == {t \in now .. 5 : \A s \in now .. t - 1 : n > RecLimit[s]}

ConvergedUnchecked(candidate, d, p, graphs) == graphs => candidate >= 3

(* Nothing that is left needs more than the candidate tier. *)
Converged(candidate, d, p, graphs) ==
  /\ d <= RecLimit[candidate]
  /\ Len(p) <= RecLimit[candidate]
  /\ graphs => candidate >= 3

(* Count a step simpler than the tier, and demote after StableSteps.       *)
Settle(now, required, d, p, graphs) ==
  IF required >= now
  THEN tier' = now /\ stable' = 0
  ELSE IF stable + 1 >= StableSteps /\ Converged(now - 1, d, p, graphs)
  THEN tier' = now - 1 /\ stable' = 0
  ELSE tier' = now /\ stable' = IF stable < StableSteps THEN stable + 1 ELSE stable

(* The rank kept against a demotion.  A branching entropy above the        *)
(* ceiling of Tier1 replaces what recursion needs, where the other         *)
(* measures can only raise it.                                             *)
RequiredRank(l, d, p) ==
  Larger(l.floor, IF l.entropy >= 2 THEN l.entropy ELSE TierForRecursion(Deepest(d, p)))

(* The end of a step whose instruction did not trap: now, d and p are the  *)
(* tier, depth and recursor it left.  Promote to fit the load, trap when   *)
(* that is denied or not enough, else see whether to demote.               *)
FinishStep(now, d, p) ==
  \E l \in Loads :
    LET demand == Larger(l.entropy, l.complexity)
        goal == IF demand = Beyond THEN 5 ELSE demand
    IN  \E t \in Promotions(now, goal) :
          IF t < goal \/ demand = Beyond
          THEN tier' = t /\ UNCHANGED stable
          ELSE Settle(t, RequiredRank(l, d, p), d, p, l.graphs)

(* An instruction that trapped: no telemetry.  It keeps the promotions     *)
(* made on its way.                                                        *)
TrapAt(t) == tier' = t /\ UNCHANGED stable

Trapped == UNCHANGED vars

-----------------------------------------------------------------------------
(* The stack *)

AlignBlock(n) == ((n + Block - 1) \div Block) * Block

CanPushAnyDepth == sp > StackStart

(* push_stack_word *)
CanPush ==
  /\ sp > StackStart
  /\ StackBase - (sp - 1) <= MaxStack

CanPop == sp < StackBase

Push ==
  /\ CanPush
  /\ sp' = sp - 1
  /\ UNCHANGED <<frames, depth, proofs>>
  /\ FinishStep(tier, depth, proofs)

Pop ==
  /\ CanPop
  /\ sp' = sp + 1
  /\ UNCHANGED <<frames, depth, proofs>>
  /\ FinishStep(tier, depth, proofs)

CanAlloc(size) ==
  /\ size <= sp - StackStart
  /\ StackBase - (sp - size) <= MaxStack

StackAlloc(n) ==
  LET size == AlignBlock(n)
  IN  /\ CanAlloc(size)
      /\ sp' = sp - size
      /\ frames' = Append(frames, <<sp - size, size>>)
      /\ UNCHANGED <<depth, proofs>>
      /\ FinishStep(tier, depth, proofs)

(* Only the newest frame, by its address and size; sp goes to its end      *)
(* wherever it was.                                                        *)
CanFree(ptr, size) ==
  /\ frames # <<>>
  /\ ptr \in StackStart .. StackBase - 1
  /\ Last(frames) = <<ptr, size>>

StackFree(ptr, n) ==
  LET size == AlignBlock(n)
  IN  /\ CanFree(ptr, size)
      /\ frames' = Front(frames)
      /\ sp' = ptr + size
      /\ UNCHANGED <<depth, proofs>>
      /\ FinishStep(tier, depth, proofs)

-----------------------------------------------------------------------------
(* Calls *)

(* The promotions of Call stay when the call itself then fails: depth      *)
(* beyond Tier5, a target outside the code, a full stack.                  *)
Call ==
  \E t \in CallPromotions(tier, depth + 1) :
    \/ UNCHANGED <<stack, depth, proofs>> /\ TrapAt(t)
    \/ /\ depth + 1 <= RecLimit[t]
       /\ CanPush
       /\ sp' = sp - 1
       /\ depth' = depth + 1
       /\ UNCHANGED <<frames, proofs>>
       /\ FinishStep(t, depth + 1, proofs)

(* Ret pops whatever word is there: one that is no code address traps, but *)
(* is gone from the stack.                                                 *)
Ret ==
  /\ CanPop
  /\ sp' = sp + 1
  /\ UNCHANGED <<frames, proofs>>
  /\ \/ UNCHANGED depth /\ TrapAt(tier)
     \/ /\ depth' = IF depth > 0 THEN depth - 1 ELSE 0
        /\ FinishStep(tier, depth', proofs)

-----------------------------------------------------------------------------
(* The Tier-3 recursor *)

(* Stack and heap in use and the call depth. *)
SeedEntropy(heapUse) == (StackBase - sp) + heapUse + depth

CanRecurseHotter(t, seed) == Len(proofs) < RecLimit[t]

(* can_recurse and verify_depth_proof: the child starts no hotter than its *)
(* parent has settled.                                                     *)
CanRecurse(t, seed) ==
  /\ Len(proofs) < RecLimit[t]
  /\ proofs # <<>> => seed <= Last(proofs)[2]

(* The instructions of the recursor promote to Tier3 first. *)
Recurse(heapUse) ==
  \E t \in Promotions(tier, 3) :
    /\ UNCHANGED <<stack, depth>>
    /\ IF t >= 3 /\ CanRecurse(t, SeedEntropy(heapUse))
       THEN /\ proofs' = Append(proofs, <<SeedEntropy(heapUse), SeedEntropy(heapUse)>>)
            /\ FinishStep(t, depth, proofs')
       ELSE UNCHANGED proofs /\ TrapAt(t)

CanContract(x) == proofs # <<>> /\ x <= Last(proofs)[2]

Contract(x) ==
  \E t \in Promotions(tier, 3) :
    /\ UNCHANGED <<stack, depth>>
    /\ IF t >= 3 /\ CanContract(x)
       THEN /\ proofs' = [proofs EXCEPT ![Len(proofs)] = <<Last(proofs)[1], x>>]
            /\ FinishStep(t, depth, proofs')
       ELSE UNCHANGED proofs /\ TrapAt(t)

Terminate ==
  \E t \in Promotions(tier, 3) :
    /\ UNCHANGED <<stack, depth>>
    /\ IF t >= 3
       THEN /\ proofs' = IF proofs = <<>> THEN proofs ELSE Front(proofs)
            /\ FinishStep(t, depth, proofs')
       ELSE UNCHANGED proofs /\ TrapAt(t)

(* Any other instruction.  Some promote to a tier of their own first, and  *)
(* may trap on the way or after it.                                        *)
Plain ==
  /\ UNCHANGED <<stack, depth, proofs>>
  /\ \E t \in Promotions(tier, 5) : TrapAt(t) \/ FinishStep(t, depth, proofs)

-----------------------------------------------------------------------------

Init ==
  /\ sp = StackBase
  /\ frames = <<>>
  /\ depth = 0
  /\ proofs = <<>>
  /\ tier = 0
  /\ stable = 0

Next ==
  \/ Push \/ Pop \/ Call \/ Ret \/ Terminate \/ Plain
  \/ \E n \in FrameSizes :
       \/ StackAlloc(n)
       \/ \E ptr \in StackStart .. StackBase - 1 : StackFree(ptr, n)
  \/ \E h \in HeapUses : Recurse(h)
  \/ \E x \in Entropies : Contract(x)
  \/ Trapped

Spec == Init /\ [][Next]_vars

-----------------------------------------------------------------------------
(* Properties *)

(* The shape of the state; the stack pointer never leaves the segment.     *)
TypeOK ==
  /\ sp \in StackStart .. StackBase
  /\ frames \in Seq(Nat \X Nat)
  /\ depth \in Nat
  /\ proofs \in Seq(Int \X Int)
  /\ tier \in Tiers
  /\ stable \in 0 .. StableSteps

(* Whatever the order of pushes, pops, frames and calls, the stack in use  *)
(* never exceeds the policy's max-stack.  StackFree moves sp to the end of *)
(* the newest frame without asking the policy again, also when the program *)
(* has popped beyond it and sp goes back down.                             *)
PolicyBound == StackBase - sp <= MaxStack

(* Both recursion depths stay within the limit of the current tier: a      *)
(* demotion never strands a program deeper than its tier allows, even when *)
(* branching entropy has replaced the rank that its depth asks for.        *)
DepthWithinTier ==
  /\ depth <= RecLimit[tier]
  /\ Len(proofs) <= RecLimit[tier]

(* Entropy only descends along the chain of Tier-3 frames: no frame has    *)
(* settled hotter than it began, and none began hotter than its parent had *)
(* settled.                                                                *)
EntropyDescends ==
  /\ \A i \in 1 .. Len(proofs) : proofs[i][2] <= proofs[i][1]
  /\ \A i \in 1 .. Len(proofs) - 1 : proofs[i + 1][1] <= proofs[i][2]
=============================================================================
