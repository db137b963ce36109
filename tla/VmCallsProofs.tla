--------------------------- MODULE VmCallsProofs ---------------------------
(***************************************************************************)
(* Proofs of the safety properties of VmCalls for every value of the       *)
(* constants: any segment, policy, alignment, tier limits and load.        *)
(*                                                                         *)
(* The depth and entropy properties need only the types; the bound of the  *)
(* policy needs the frames to remember it: StackFree puts sp where a frame *)
(* ends, so every listed frame must end where the policy allows sp to be.  *)
(***************************************************************************)
EXTENDS VmCalls, FiniteSetTheorems, SequenceTheorems, TLAPS

(* Where a frame ends, sp may be. *)
FramesBounded ==
  \A i \in 1 .. Len(frames) :
    LET end == frames[i][1] + frames[i][2]
    IN  end \in StackStart .. StackBase /\ StackBase - end <= MaxStack

IInv == TypeOK /\ PolicyBound /\ FramesBounded /\ DepthWithinTier /\ EntropyDescends

-----------------------------------------------------------------------------
(* Facts about the helpers *)

(* Front drops the last element. *)
LEMMA FrontFacts ==
  ASSUME NEW S, NEW s \in Seq(S), s # <<>>
  PROVE  /\ Front(s) \in Seq(S)
         /\ Len(Front(s)) = Len(s) - 1
         /\ \A i \in 1 .. Len(s) - 1 : Front(s)[i] = s[i]
         /\ Last(s) = s[Len(s)]
         /\ Last(s) \in S
         /\ Len(s) \in Nat \ {0}
<1>1. Len(s) \in Nat \ {0}
  BY EmptySeq
<1>2. \A i \in 1 .. Len(s) : s[i] \in S
  BY ElementOfSeq
<1>3. PICK n \in Nat : n = Len(s) - 1
  BY <1>1
<1>4. \A i \in 1 .. n : s[i] \in S
  BY <1>1, <1>2, <1>3
<1>5. SubSeq(s, 1, n) \in Seq(S)
  BY <1>4, SubSeqProperties
<1>6. Len(SubSeq(s, 1, n)) = n
  <2>1. Len(SubSeq(s, 1, n)) = IF 1 <= n THEN n - 1 + 1 ELSE 0
    BY <1>4, SubSeqProperties
  <2> QED
    BY <2>1
<1>7. \A i \in 1 .. n : SubSeq(s, 1, n)[i] = s[1 + i - 1]
  BY <1>4, SubSeqProperties
<1> QED
  BY <1>1, <1>2, <1>3, <1>5, <1>6, <1>7 DEF Front, Last

(* Recursion never asks for Tier0. *)
LEMMA TierForRecursionType ==
  ASSUME NEW n
  PROVE  TierForRecursion(n) \in Nat \ {0}
<1> DEFINE outgrown == {t \in 1 .. 4 : n > RecLimit[t]}
<1>1. IsFiniteSet(1 .. 4)
  <2>1. PICK m \in Nat : m = 4
    OBVIOUS
  <2>2. IsFiniteSet(1 .. m)
    BY FS_Interval
  <2> QED
    BY <2>1, <2>2
<1>2. outgrown \subseteq 1 .. 4
  OBVIOUS
<1>3. IsFiniteSet(outgrown)
  BY <1>1, <1>2, FS_Subset
<1>4. Cardinality(outgrown) \in Nat
  BY <1>3, FS_CardinalityType
<1> QED
  BY <1>4 DEF TierForRecursion

(* The end of a step keeps the depths within the tier it settles on.       *)
LEMMA FinishStepSound ==
  ASSUME NEW now \in Tiers, NEW d \in Nat, NEW p \in Seq(Int \X Int),
         d <= RecLimit[now], Len(p) <= RecLimit[now],
         stable \in 0 .. StableSteps,
         FinishStep(now, d, p)
  PROVE  /\ tier' \in Tiers
         /\ stable' \in 0 .. StableSteps
         /\ d <= RecLimit[tier'] /\ Len(p) <= RecLimit[tier']
<1>1. PICK l \in Loads, t \in now .. 5 :
        \/ tier' = t /\ UNCHANGED stable
        \/ Settle(t, RequiredRank(l, d, p), d, p, l.graphs)
  <2>1. PICK l \in Loads :
          LET demand == Larger(l.entropy, l.complexity)
              goal == IF demand = Beyond THEN 5 ELSE demand
          IN  \E t \in Promotions(now, goal) :
                IF t < goal \/ demand = Beyond
                THEN tier' = t /\ UNCHANGED stable
                ELSE Settle(t, RequiredRank(l, d, p), d, p, l.graphs)
    BY DEF FinishStep
  <2>2. l.entropy \in {0} \cup 2 .. 6 /\ l.complexity \in {0} \cup 2 .. 6
    BY TierAssumption DEF Load, Beyond
  <2> DEFINE demand == Larger(l.entropy, l.complexity)
             goal == IF demand = Beyond THEN 5 ELSE demand
  <2>3. PICK t \in Promotions(now, goal) :
          IF t < goal \/ demand = Beyond
          THEN tier' = t /\ UNCHANGED stable
          ELSE Settle(t, RequiredRank(l, d, p), d, p, l.graphs)
    BY <2>1
  <2>4. goal \in 0 .. 5
    BY <2>2 DEF Larger, Beyond
  <2> HIDE DEF demand, goal
  <2>5. t \in now .. 5
    BY <2>4 DEF Promotions, Larger, Tiers
  <2> QED
    BY <2>3, <2>5
<1>2. /\ t \in Tiers
      /\ d <= RecLimit[t] /\ Len(p) <= RecLimit[t]
      /\ Len(p) \in Nat
      /\ StableSteps \in Nat \ {0}
  <2>1. t \in Tiers /\ now <= t /\ Len(p) \in Nat
    BY LenProperties DEF Tiers
  <2>2. RecLimit[now] \in Nat /\ RecLimit[t] \in Nat /\ RecLimit[now] <= RecLimit[t]
    BY <2>1, TierAssumption
  <2> QED
    BY <2>1, <2>2, TierAssumption
<1>3. CASE tier' = t /\ UNCHANGED stable
  BY <1>2, <1>3
<1>4. CASE Settle(t, RequiredRank(l, d, p), d, p, l.graphs)
  <2> DEFINE r == RequiredRank(l, d, p)
  <2>1. r \in Nat \ {0}
    <3>1. l.floor \in 1 .. 5 /\ l.entropy \in {0} \cup 2 .. 6
      BY TierAssumption DEF Load, Beyond
    <3>2. TierForRecursion(Deepest(d, p)) \in Nat \ {0}
      BY TierForRecursionType
    <3> QED
      BY <3>1, <3>2 DEF RequiredRank, Larger
  <2> HIDE DEF r
  <2>2. Settle(t, r, d, p, l.graphs)
    BY <1>4 DEF r
  <2>3. CASE r >= t
    BY <1>2, <2>2, <2>3 DEF Settle
  <2>4. CASE ~(r >= t) /\ stable + 1 >= StableSteps /\ Converged(t - 1, d, p, l.graphs)
    <3>1. tier' = t - 1 /\ stable' = 0
      BY <2>2, <2>4 DEF Settle
    <3>2. t - 1 \in Tiers
      BY <1>2, <2>1, <2>4 DEF Tiers
    <3> QED
      BY <1>2, <2>4, <3>1, <3>2 DEF Converged
  <2>5. CASE ~(r >= t) /\ ~(stable + 1 >= StableSteps /\ Converged(t - 1, d, p, l.graphs))
    <3>1. tier' = t /\ stable' = IF stable < StableSteps THEN stable + 1 ELSE stable
      BY <2>2, <2>5 DEF Settle
    <3> QED
      BY <1>2, <3>1
  <2> QED
    BY <2>3, <2>4, <2>5
<1> QED
  BY <1>1, <1>3, <1>4

-----------------------------------------------------------------------------
(* The inductive invariant *)

LEMMA InitIInv == Init => IInv
<1> SUFFICES ASSUME Init PROVE IInv
  OBVIOUS
<1> USE DEF Init
<1>1. Len(frames) = 0 /\ Len(proofs) = 0
  BY EmptySeq
<1>2. TypeOK
  BY EmptySeq, SegmentAssumption, TierAssumption DEF TypeOK, Tiers
<1>3. PolicyBound
  BY SegmentAssumption DEF PolicyBound
<1>4. FramesBounded
  BY <1>1 DEF FramesBounded
<1>5. DepthWithinTier
  <2>1. RecLimit[0] \in Nat
    BY TierAssumption DEF Tiers
  <2> QED
    BY <1>1, <2>1 DEF DepthWithinTier
<1>6. EntropyDescends
  BY <1>1 DEF EntropyDescends
<1> QED
  BY <1>2, <1>3, <1>4, <1>5, <1>6 DEF IInv

(* What the three parts of a step leave sound makes the next state sound.  *)
StackSound ==
  /\ sp \in StackStart .. StackBase
  /\ frames \in Seq(Nat \X Nat)
  /\ PolicyBound
  /\ FramesBounded

RecursorSound ==
  /\ proofs \in Seq(Int \X Int)
  /\ EntropyDescends

TierSound ==
  /\ depth \in Nat
  /\ tier \in Tiers
  /\ stable \in 0 .. StableSteps
  /\ DepthWithinTier

LEMMA IInvParts == IInv <=> StackSound /\ RecursorSound /\ TierSound
BY DEF IInv, TypeOK, StackSound, RecursorSound, TierSound

(* A trap that keeps some promotions. *)
LEMMA TrapAtSound ==
  ASSUME IInv, NEW t \in Tiers, tier <= t, TrapAt(t), UNCHANGED <<depth, proofs>>
  PROVE  TierSound'
<1>1. /\ tier \in Tiers /\ depth \in Nat /\ Len(proofs) \in Nat
      /\ depth <= RecLimit[tier] /\ Len(proofs) <= RecLimit[tier]
      /\ stable \in 0 .. StableSteps
  BY LenProperties DEF IInv, TypeOK, DepthWithinTier
<1>2. RecLimit[tier] \in Nat /\ RecLimit[t] \in Nat /\ RecLimit[tier] <= RecLimit[t]
  BY <1>1, TierAssumption
<1>3. depth <= RecLimit[t] /\ Len(proofs) <= RecLimit[t]
  BY <1>1, <1>2
<1> QED
  BY <1>1, <1>3 DEF TrapAt, TierSound, DepthWithinTier

(* A step that completes at the promoted tier t with depth d and frames p. *)
LEMMA CompleteSound ==
  ASSUME IInv, NEW t \in Tiers, tier <= t,
         NEW d \in Nat, d <= depth \/ d <= RecLimit[t],
         NEW p \in Seq(Int \X Int), Len(p) <= Len(proofs) \/ Len(p) <= RecLimit[t],
         depth' = d, proofs' = p, FinishStep(t, d, p)
  PROVE  TierSound'
<1>1. /\ tier \in Tiers /\ depth \in Nat /\ Len(proofs) \in Nat /\ Len(p) \in Nat
      /\ depth <= RecLimit[tier] /\ Len(proofs) <= RecLimit[tier]
      /\ stable \in 0 .. StableSteps
  BY LenProperties DEF IInv, TypeOK, DepthWithinTier
<1>2. RecLimit[tier] \in Nat /\ RecLimit[t] \in Nat /\ RecLimit[tier] <= RecLimit[t]
  BY <1>1, TierAssumption
<1>3. d <= RecLimit[t] /\ Len(p) <= RecLimit[t]
  BY <1>1, <1>2
<1>4. /\ tier' \in Tiers /\ stable' \in 0 .. StableSteps
      /\ d <= RecLimit[tier'] /\ Len(p) <= RecLimit[tier']
  BY <1>1, <1>3, FinishStepSound
<1> QED
  BY <1>4 DEF TierSound, DepthWithinTier

LEMMA PushSound ==
  ASSUME IInv, CanPush, sp' = sp - 1, UNCHANGED frames
  PROVE  StackSound'
<1>1. sp \in StackStart .. StackBase /\ frames \in Seq(Nat \X Nat)
  BY DEF IInv, TypeOK
<1>2. sp' \in StackStart .. StackBase /\ StackBase - sp' <= MaxStack
  BY <1>1, SegmentAssumption DEF CanPush
<1> QED
  BY <1>1, <1>2 DEF IInv, StackSound, PolicyBound, FramesBounded

LEMMA PopSound ==
  ASSUME IInv, CanPop, sp' = sp + 1, UNCHANGED frames
  PROVE  StackSound'
<1>1. sp \in StackStart .. StackBase /\ frames \in Seq(Nat \X Nat)
      /\ StackBase - sp <= MaxStack
  BY DEF IInv, TypeOK, PolicyBound
<1>2. sp' \in StackStart .. StackBase /\ StackBase - sp' <= MaxStack
  BY <1>1, SegmentAssumption DEF CanPop
<1> QED
  BY <1>1, <1>2 DEF IInv, StackSound, PolicyBound, FramesBounded

LEMMA AlignBlockType ==
  ASSUME NEW n \in Nat
  PROVE  AlignBlock(n) \in Nat
<1>1. \A q \in Nat, b \in Nat \ {0} : q * b \in Nat
  OBVIOUS
<1>2. (n + Block - 1) \div Block \in Nat
  BY SegmentAssumption
<1> QED
  BY <1>1, <1>2, SegmentAssumption DEF AlignBlock

LEMMA AllocSound ==
  ASSUME IInv, NEW n \in FrameSizes, StackAlloc(n)
  PROVE  StackSound'
<1> DEFINE size == AlignBlock(n)
           k == Len(frames)
<1>1. size \in Nat
  BY AlignBlockType, SegmentAssumption
<1> HIDE DEF size
<1>2. /\ sp \in StackStart .. StackBase /\ frames \in Seq(Nat \X Nat) /\ k \in Nat
      /\ StackBase - sp <= MaxStack /\ FramesBounded
  BY LenProperties DEF IInv, TypeOK, PolicyBound
<1>3. /\ size <= sp - StackStart /\ StackBase - (sp - size) <= MaxStack
      /\ sp' = sp - size /\ frames' = Append(frames, <<sp - size, size>>)
  BY DEF StackAlloc, CanAlloc, size
<1>4. sp' \in StackStart .. StackBase /\ StackBase - sp' <= MaxStack
  BY <1>1, <1>2, <1>3, SegmentAssumption
<1>5. <<sp - size, size>> \in Nat \X Nat
  BY <1>1, <1>2, <1>3, SegmentAssumption
<1>6. /\ frames' \in Seq(Nat \X Nat) /\ Len(frames') = k + 1
      /\ \A i \in 1 .. k : frames'[i] = frames[i]
      /\ frames'[k + 1] = <<sp - size, size>>
  BY <1>2, <1>3, <1>5, AppendProperties
<1>7. FramesBounded'
  <2>1. ASSUME NEW i \in 1 .. Len(frames')
        PROVE  /\ frames'[i][1] + frames'[i][2] \in StackStart .. StackBase
               /\ StackBase - (frames'[i][1] + frames'[i][2]) <= MaxStack
    <3>1. CASE i \in 1 .. k
      BY <1>2, <1>6, <3>1 DEF FramesBounded
    <3>2. CASE i = k + 1
      <4>1. frames'[i][1] = sp - size /\ frames'[i][2] = size
        BY <1>6, <3>2
      <4>2. frames'[i][1] + frames'[i][2] = sp
        BY <1>1, <1>2, <4>1, SegmentAssumption
      <4> QED
        BY <1>2, <4>2
    <3> QED
      BY <1>2, <1>6, <3>1, <3>2
  <2> QED
    BY <2>1 DEF FramesBounded
<1> QED
  BY <1>4, <1>6, <1>7 DEF StackSound, PolicyBound

LEMMA FreeSound ==
  ASSUME IInv, NEW n \in FrameSizes, NEW ptr \in StackStart .. StackBase - 1,
         StackFree(ptr, n)
  PROVE  StackSound'
<1> DEFINE size == AlignBlock(n)
           k == Len(frames)
<1>1. size \in Nat
  BY AlignBlockType, SegmentAssumption
<1> HIDE DEF size
<1>2. frames \in Seq(Nat \X Nat) /\ FramesBounded
  BY DEF IInv, TypeOK
<1>3. /\ frames # <<>> /\ Last(frames) = <<ptr, size>>
      /\ frames' = Front(frames) /\ sp' = ptr + size
  BY DEF StackFree, CanFree, size
<1>4. /\ frames' \in Seq(Nat \X Nat) /\ Len(frames') = k - 1 /\ k \in Nat \ {0}
      /\ \A i \in 1 .. k - 1 : frames'[i] = frames[i]
      /\ frames[k] = <<ptr, size>>
  BY <1>2, <1>3, FrontFacts
<1>5. k \in 1 .. k /\ frames[k][1] + frames[k][2] = ptr + size
  BY <1>4
<1>6. sp' \in StackStart .. StackBase /\ StackBase - sp' <= MaxStack
  BY <1>2, <1>3, <1>5 DEF FramesBounded
<1>7. FramesBounded'
  <2>1. ASSUME NEW i \in 1 .. Len(frames')
        PROVE  i \in 1 .. k /\ frames'[i] = frames[i]
    BY <1>4
  <2> QED
    BY <1>2, <2>1 DEF FramesBounded
<1> QED
  BY <1>4, <1>6, <1>7 DEF StackSound, PolicyBound

(* A child frame that starts no hotter than its parent settled keeps the   *)
(* chain descending.                                                       *)
LEMMA RecurseSound ==
  ASSUME RecursorSound, NEW seed \in Int, NEW t \in Tiers, CanRecurse(t, seed),
         proofs' = Append(proofs, <<seed, seed>>)
  PROVE  RecursorSound' /\ Len(proofs') <= RecLimit[t]
<1> DEFINE k == Len(proofs)
<1>1. /\ proofs \in Seq(Int \X Int) /\ k \in Nat
      /\ EntropyDescends
  BY LenProperties DEF RecursorSound
<1>2. <<seed, seed>> \in Int \X Int
  OBVIOUS
<1>3. /\ proofs' \in Seq(Int \X Int) /\ Len(proofs') = k + 1
      /\ \A i \in 1 .. k : proofs'[i] = proofs[i]
      /\ proofs'[k + 1] = <<seed, seed>>
  BY <1>1, <1>2, AppendProperties
<1>4. ASSUME NEW i \in 1 .. Len(proofs')
      PROVE  proofs'[i][2] <= proofs'[i][1]
  <2>1. CASE i \in 1 .. k
    BY <1>1, <1>3, <2>1 DEF EntropyDescends
  <2>2. CASE i = k + 1
    BY <1>3, <2>2
  <2> QED
    BY <1>1, <1>3, <2>1, <2>2
<1>5. ASSUME NEW i \in 1 .. Len(proofs') - 1
      PROVE  proofs'[i + 1][1] <= proofs'[i][2]
  <2>1. i \in 1 .. k
    BY <1>1, <1>3
  <2>2. CASE i + 1 \in 1 .. k
    <3>1. i \in 1 .. k - 1
      BY <1>1, <2>1, <2>2
    <3> QED
      BY <1>1, <1>3, <2>1, <2>2, <3>1 DEF EntropyDescends
  <2>3. CASE i = k
    <3>1. proofs # <<>>
      BY <1>1, <2>1, EmptySeq
    <3>2. Last(proofs) = proofs[k]
      BY DEF Last
    <3>3. seed <= proofs[k][2]
      BY <3>1, <3>2 DEF CanRecurse
    <3> QED
      BY <1>3, <2>1, <2>3, <3>3
  <2> QED
    BY <1>1, <2>1, <2>2, <2>3
<1>6. Len(proofs') <= RecLimit[t]
  <2>1. RecLimit[t] \in Nat
    BY TierAssumption
  <2> QED
    BY <1>1, <1>3, <2>1 DEF CanRecurse
<1> QED
  BY <1>3, <1>4, <1>5, <1>6 DEF RecursorSound, EntropyDescends

(* Settling lower keeps the chain descending. *)
LEMMA ContractSound ==
  ASSUME RecursorSound, NEW x \in Int, CanContract(x),
         proofs' = [proofs EXCEPT ![Len(proofs)] = <<Last(proofs)[1], x>>]
  PROVE  RecursorSound' /\ Len(proofs') = Len(proofs)
<1> DEFINE k == Len(proofs)
<1>1. /\ proofs \in Seq(Int \X Int) /\ proofs # <<>>
      /\ EntropyDescends
  BY DEF RecursorSound, CanContract
<1>2. /\ k \in Nat \ {0} /\ Last(proofs) = proofs[k] /\ Last(proofs) \in Int \X Int
  BY <1>1, FrontFacts
<1>3. k \in 1 .. k /\ <<Last(proofs)[1], x>> \in Int \X Int
  BY <1>2
<1>4. /\ proofs' \in Seq(Int \X Int) /\ Len(proofs') = k
      /\ \A i \in 1 .. k :
           proofs'[i] = IF i = k THEN <<Last(proofs)[1], x>> ELSE proofs[i]
  BY <1>1, <1>3, ExceptSeq
<1>5. /\ x <= proofs[k][2] /\ proofs[k][2] <= proofs[k][1]
      /\ proofs[k][1] \in Int /\ proofs[k][2] \in Int
      /\ Last(proofs)[1] = proofs[k][1]
  BY <1>1, <1>2, <1>3 DEF CanContract, EntropyDescends
<1>6. ASSUME NEW i \in 1 .. k
      PROVE  proofs'[i][2] <= proofs'[i][1]
  <2>1. CASE i = k
    BY <1>4, <1>5, <2>1
  <2>2. CASE i # k
    BY <1>1, <1>4, <2>2 DEF EntropyDescends
  <2> QED
    BY <2>1, <2>2
<1>7. ASSUME NEW i \in 1 .. k - 1
      PROVE  proofs'[i + 1][1] <= proofs'[i][2]
  <2>1. i \in 1 .. k /\ i + 1 \in 1 .. k /\ i # k
    BY <1>2
  <2>2. proofs'[i + 1][1] = proofs[i + 1][1]
    <3>1. CASE i + 1 = k
      <4>1. proofs'[i + 1] = <<Last(proofs)[1], x>>
        BY <1>4, <2>1, <3>1
      <4>2. proofs'[i + 1][1] = Last(proofs)[1]
        BY <4>1
      <4> QED
        BY <1>5, <3>1, <4>2
    <3>2. CASE i + 1 # k
      BY <1>4, <2>1, <3>2
    <3> QED
      BY <3>1, <3>2
  <2>3. proofs'[i] = proofs[i]
    BY <1>4, <2>1
  <2>4. proofs[i + 1][1] <= proofs[i][2]
    BY <1>1 DEF EntropyDescends
  <2> QED
    BY <2>2, <2>3, <2>4
<1> QED
  BY <1>4, <1>6, <1>7 DEF RecursorSound, EntropyDescends

(* Dropping the last frame leaves a prefix of the chain. *)
LEMMA TerminateSound ==
  ASSUME RecursorSound, proofs # <<>>, proofs' = Front(proofs)
  PROVE  RecursorSound' /\ Len(proofs') <= Len(proofs)
<1> DEFINE k == Len(proofs)
<1>1. proofs \in Seq(Int \X Int) /\ EntropyDescends
  BY DEF RecursorSound
<1>2. /\ proofs' \in Seq(Int \X Int) /\ Len(proofs') = k - 1 /\ k \in Nat \ {0}
      /\ \A i \in 1 .. k - 1 : proofs'[i] = proofs[i]
  BY <1>1, FrontFacts
<1>3. ASSUME NEW i \in 1 .. Len(proofs')
      PROVE  proofs'[i][2] <= proofs'[i][1]
  <2>1. i \in 1 .. k /\ i \in 1 .. k - 1
    BY <1>2
  <2> QED
    BY <1>1, <1>2, <2>1 DEF EntropyDescends
<1>4. ASSUME NEW i \in 1 .. Len(proofs') - 1
      PROVE  proofs'[i + 1][1] <= proofs'[i][2]
  <2>1. i \in 1 .. k - 1 /\ i + 1 \in 1 .. k - 1
    BY <1>2
  <2> QED
    BY <1>1, <1>2, <2>1 DEF EntropyDescends
<1> QED
  BY <1>2, <1>3, <1>4 DEF RecursorSound, EntropyDescends

-----------------------------------------------------------------------------

LEMMA NextIInv == IInv /\ [Next]_vars => IInv'
<1> SUFFICES ASSUME IInv, [Next]_vars PROVE IInv'
  OBVIOUS
<1>1. /\ StackSound /\ RecursorSound /\ TierSound
      /\ depth \in Nat /\ proofs \in Seq(Int \X Int) /\ tier \in Tiers
      /\ sp \in StackStart .. StackBase /\ Len(proofs) \in Nat
      /\ depth <= RecLimit[tier]
  BY IInvParts, LenProperties DEF StackSound, RecursorSound, TierSound, DepthWithinTier
<1>2. ASSUME UNCHANGED stack PROVE StackSound'
  BY <1>1, <1>2 DEF stack, StackSound, PolicyBound, FramesBounded
<1>3. ASSUME UNCHANGED proofs PROVE RecursorSound'
  BY <1>1, <1>3 DEF RecursorSound, EntropyDescends
<1>4. ASSUME StackSound', RecursorSound', TierSound' PROVE IInv'
  BY <1>4 DEF StackSound, RecursorSound, TierSound, IInv, TypeOK
<1>5. \A n \in 0 .. 5 : \A t \in Promotions(tier, n) : t \in Tiers /\ tier <= t
  BY <1>1 DEF Promotions, Larger, Tiers
<1>6. ASSUME UNCHANGED <<depth, proofs>>, FinishStep(tier, depth, proofs)
      PROVE  TierSound' /\ RecursorSound'
  <2>1. tier <= tier /\ depth <= depth /\ Len(proofs) <= Len(proofs)
    BY <1>1 DEF Tiers
  <2>2. TierSound'
    BY <1>1, <1>6, <2>1, CompleteSound
  <2> QED
    BY <1>3, <1>6, <2>2
<1>7. CASE Push
  BY <1>4, <1>6, <1>7, PushSound DEF Push
<1>8. CASE Pop
  BY <1>4, <1>6, <1>8, PopSound DEF Pop
<1>9. ASSUME NEW n \in FrameSizes, StackAlloc(n) PROVE IInv'
  <2>1. UNCHANGED <<depth, proofs>> /\ FinishStep(tier, depth, proofs)
    BY <1>9 DEF StackAlloc
  <2> QED
    BY <1>4, <1>6, <1>9, <2>1, AllocSound
<1>10. ASSUME NEW n \in FrameSizes, NEW ptr \in StackStart .. StackBase - 1,
              StackFree(ptr, n)
       PROVE  IInv'
  <2>1. UNCHANGED <<depth, proofs>> /\ FinishStep(tier, depth, proofs)
    BY <1>10 DEF StackFree
  <2> QED
    BY <1>4, <1>6, <1>10, <2>1, FreeSound
<1>11. CASE Call
  <2>1. PICK t \in CallPromotions(tier, depth + 1) :
          \/ UNCHANGED <<stack, depth, proofs>> /\ TrapAt(t)
          \/ /\ depth + 1 <= RecLimit[t]
             /\ CanPush
             /\ sp' = sp - 1
             /\ depth' = depth + 1
             /\ UNCHANGED <<frames, proofs>>
             /\ FinishStep(t, depth + 1, proofs)
    BY <1>11 DEF Call
  <2>2. t \in Tiers /\ tier <= t
    BY <1>1 DEF CallPromotions, Tiers
  <2>3. CASE UNCHANGED <<stack, depth, proofs>> /\ TrapAt(t)
    BY <1>2, <1>3, <1>4, <2>2, <2>3, TrapAtSound
  <2>4. CASE /\ depth + 1 <= RecLimit[t]
             /\ CanPush
             /\ sp' = sp - 1
             /\ depth' = depth + 1
             /\ UNCHANGED <<frames, proofs>>
             /\ FinishStep(t, depth + 1, proofs)
    <3>1. StackSound'
      BY <2>4, PushSound
    <3>2. depth + 1 \in Nat /\ Len(proofs) <= Len(proofs)
      BY <1>1
    <3>3. TierSound'
      BY <1>1, <2>2, <2>4, <3>2, CompleteSound
    <3> QED
      BY <1>3, <1>4, <2>4, <3>1, <3>3
  <2> QED
    BY <2>1, <2>3, <2>4
<1>12. CASE Ret
  <2>1. StackSound'
    BY <1>12, PopSound DEF Ret
  <2>2. RecursorSound'
    BY <1>3, <1>12 DEF Ret
  <2>3. tier <= tier
    BY <1>1 DEF Tiers
  <2>4. CASE UNCHANGED depth /\ TrapAt(tier)
    <3>1. TierSound'
      BY <1>1, <1>12, <2>3, <2>4, TrapAtSound DEF Ret
    <3> QED
      BY <1>4, <2>1, <2>2, <3>1
  <2>5. CASE /\ depth' = IF depth > 0 THEN depth - 1 ELSE 0
             /\ FinishStep(tier, depth', proofs)
    <3>1. PICK d \in Nat : d = IF depth > 0 THEN depth - 1 ELSE 0
      BY <1>1
    <3>2. /\ depth' = d /\ d <= depth /\ proofs' = proofs
          /\ Len(proofs) <= Len(proofs)
          /\ FinishStep(tier, d, proofs)
      BY <1>1, <1>12, <2>5, <3>1 DEF Ret
    <3>3. TierSound'
      BY <1>1, <2>3, <3>2, CompleteSound
    <3> QED
      BY <1>4, <2>1, <2>2, <3>3
  <2> QED
    BY <1>12, <2>4, <2>5 DEF Ret
<1>13. ASSUME NEW h \in HeapUses, Recurse(h) PROVE IInv'
  <2>1. PICK t \in Promotions(tier, 3) :
          /\ UNCHANGED <<stack, depth>>
          /\ IF t >= 3 /\ CanRecurse(t, SeedEntropy(h))
             THEN /\ proofs' = Append(proofs, <<SeedEntropy(h), SeedEntropy(h)>>)
                  /\ FinishStep(t, depth, proofs')
             ELSE UNCHANGED proofs /\ TrapAt(t)
    BY <1>13 DEF Recurse
  <2>2. t \in Tiers /\ tier <= t
    BY <1>5
  <2>3. CASE UNCHANGED proofs /\ TrapAt(t)
    BY <1>2, <1>3, <1>4, <2>1, <2>2, <2>3, TrapAtSound
  <2>4. CASE /\ CanRecurse(t, SeedEntropy(h))
             /\ proofs' = Append(proofs, <<SeedEntropy(h), SeedEntropy(h)>>)
             /\ FinishStep(t, depth, proofs')
    <3>1. SeedEntropy(h) \in Int
      BY <1>1, SegmentAssumption, TierAssumption DEF SeedEntropy
    <3>2. RecursorSound' /\ Len(proofs') <= RecLimit[t]
      BY <1>1, <2>2, <2>4, <3>1, RecurseSound
    <3>3. PICK p \in Seq(Int \X Int) : p = proofs'
      BY <3>2 DEF RecursorSound
    <3>4. Len(p) <= RecLimit[t] /\ FinishStep(t, depth, p) /\ depth <= depth
      BY <1>1, <2>4, <3>2, <3>3
    <3>5. TierSound'
      BY <1>1, <2>1, <2>2, <3>3, <3>4, CompleteSound
    <3> QED
      BY <1>2, <1>4, <2>1, <3>2, <3>5
  <2> QED
    BY <2>1, <2>3, <2>4
<1>14. ASSUME NEW x \in Entropies, Contract(x) PROVE IInv'
  <2>1. PICK t \in Promotions(tier, 3) :
          /\ UNCHANGED <<stack, depth>>
          /\ IF t >= 3 /\ CanContract(x)
             THEN /\ proofs' = [proofs EXCEPT ![Len(proofs)] = <<Last(proofs)[1], x>>]
                  /\ FinishStep(t, depth, proofs')
             ELSE UNCHANGED proofs /\ TrapAt(t)
    BY <1>14 DEF Contract
  <2>2. t \in Tiers /\ tier <= t
    BY <1>5
  <2>3. CASE UNCHANGED proofs /\ TrapAt(t)
    BY <1>2, <1>3, <1>4, <2>1, <2>2, <2>3, TrapAtSound
  <2>4. CASE /\ CanContract(x)
             /\ proofs' = [proofs EXCEPT ![Len(proofs)] = <<Last(proofs)[1], x>>]
             /\ FinishStep(t, depth, proofs')
    <3>1. x \in Int
      BY TierAssumption
    <3>2. RecursorSound' /\ Len(proofs') = Len(proofs)
      BY <1>1, <2>4, <3>1, ContractSound
    <3>3. PICK p \in Seq(Int \X Int) : p = proofs'
      BY <3>2 DEF RecursorSound
    <3>4. Len(p) <= Len(proofs) /\ FinishStep(t, depth, p) /\ depth <= depth
      BY <1>1, <2>4, <3>2, <3>3
    <3>5. TierSound'
      BY <1>1, <2>1, <2>2, <3>3, <3>4, CompleteSound
    <3> QED
      BY <1>2, <1>4, <2>1, <3>2, <3>5
  <2> QED
    BY <2>1, <2>3, <2>4
<1>15. CASE Terminate
  <2>1. PICK t \in Promotions(tier, 3) :
          /\ UNCHANGED <<stack, depth>>
          /\ IF t >= 3
             THEN /\ proofs' = IF proofs = <<>> THEN proofs ELSE Front(proofs)
                  /\ FinishStep(t, depth, proofs')
             ELSE UNCHANGED proofs /\ TrapAt(t)
    BY <1>15 DEF Terminate
  <2>2. t \in Tiers /\ tier <= t
    BY <1>5
  <2>3. CASE UNCHANGED proofs /\ TrapAt(t)
    BY <1>2, <1>3, <1>4, <2>1, <2>2, <2>3, TrapAtSound
  <2>4. CASE /\ proofs' = IF proofs = <<>> THEN proofs ELSE Front(proofs)
             /\ FinishStep(t, depth, proofs')
    <3>1. RecursorSound' /\ Len(proofs') <= Len(proofs)
      <4>1. CASE proofs = <<>>
        BY <1>1, <1>3, <2>4, <4>1
      <4>2. CASE proofs # <<>>
        BY <1>1, <2>4, <4>2, TerminateSound
      <4> QED
        BY <4>1, <4>2
    <3>2. PICK p \in Seq(Int \X Int) : p = proofs'
      BY <3>1 DEF RecursorSound
    <3>3. Len(p) <= Len(proofs) /\ FinishStep(t, depth, p) /\ depth <= depth
      BY <1>1, <2>4, <3>1, <3>2
    <3>4. TierSound'
      BY <1>1, <2>1, <2>2, <3>2, <3>3, CompleteSound
    <3> QED
      BY <1>2, <1>4, <2>1, <3>1, <3>4
  <2> QED
    BY <2>1, <2>3, <2>4
<1>16. CASE Plain
  <2>1. PICK t \in Promotions(tier, 5) : TrapAt(t) \/ FinishStep(t, depth, proofs)
    BY <1>16 DEF Plain
  <2>2. t \in Tiers /\ tier <= t /\ UNCHANGED <<stack, depth, proofs>>
    BY <1>5, <1>16 DEF Plain
  <2>3. CASE TrapAt(t)
    BY <1>2, <1>3, <1>4, <2>2, <2>3, TrapAtSound
  <2>4. CASE FinishStep(t, depth, proofs)
    <3>1. depth <= depth /\ Len(proofs) <= Len(proofs)
      BY <1>1
    <3>2. TierSound'
      BY <1>1, <2>2, <2>4, <3>1, CompleteSound
    <3> QED
      BY <1>2, <1>3, <1>4, <2>2, <3>2
  <2> QED
    BY <2>1, <2>3, <2>4
<1>17. CASE UNCHANGED vars
  <2>1. UNCHANGED stack /\ UNCHANGED <<depth, proofs, tier, stable>>
    BY <1>17 DEF vars, stack
  <2>2. TierSound'
    BY <1>1, <2>1 DEF TierSound, DepthWithinTier
  <2> QED
    BY <1>2, <1>3, <1>4, <2>1, <2>2
<1> QED
  BY <1>7, <1>8, <1>9, <1>10, <1>11, <1>12, <1>13, <1>14, <1>15, <1>16, <1>17
     DEF Next, Trapped

-----------------------------------------------------------------------------
(* The theorems *)

(* The inductive invariant holds in every reachable state. *)
THEOREM CallInvariant == Spec => []IInv
BY InitIInv, NextIInv, PTL DEF Spec

(* The state keeps its shape, and sp never leaves the stack segment.       *)
THEOREM CallsTypeCorrect == Spec => []TypeOK
<1>1. IInv => TypeOK
  BY DEF IInv
<1> QED
  BY <1>1, CallInvariant, PTL

(* The stack in use never exceeds max-stack, whatever a program pushes,    *)
(* pops, allocates and frees.                                              *)
THEOREM StackWithinPolicy == Spec => []PolicyBound
<1>1. IInv => PolicyBound
  BY DEF IInv
<1> QED
  BY <1>1, CallInvariant, PTL

(* No promotion or demotion leaves a depth above the limit of the tier.    *)
THEOREM DepthSafe == Spec => []DepthWithinTier
<1>1. IInv => DepthWithinTier
  BY DEF IInv
<1> QED
  BY <1>1, CallInvariant, PTL

(* Entropy descends along every chain of Tier-3 frames. *)
THEOREM EntropySafe == Spec => []EntropyDescends
<1>1. IInv => EntropyDescends
  BY DEF IInv
<1> QED
  BY <1>1, CallInvariant, PTL
=============================================================================
