------------------------------ MODULE Governed ------------------------------
(***************************************************************************)
(* The call machinery of a virtual machine under the Axion policy of its   *)
(* program: load_program reads the policy, step() asks the engine before   *)
(* every instruction and once more when the program runs off its end, and  *)
(* what instructions and denials record is what the policy's requirements  *)
(* are looked up in (core/vm/vm.cpp, policy_trace_bridge.cpp).             *)
(*                                                                         *)
(* A behaviour is an arbitrary interpreted program with the policy text of *)
(* one of Programs.  A program that was denied an instruction may be       *)
(* stepped on, as the debugger does.                                       *)
(***************************************************************************)
EXTENDS VmCalls, AxionPolicy

CONSTANTS
  Programs,        \* the programs of the instance
  PolicyText,      \* the tokens of each one's policy text; Unset for none
  EngineOf,        \* the engine that load_program makes of each text
  Guards,          \* what EnumIsVariant may test: enum, variant and payload
  OtherReasons,    \* what the other instructions may record
  Hashes,          \* what TLoadHash may be asked for
  MaxReflections   \* kMaxReflectionsPerEpoch (81)

VARIABLES
  program,       \* the program loaded
  answered,      \* the searches of the policy that recorded events answer
  refused,       \* those that the records of its own denials answer
  memo,          \* the loop hints the engine has found
  count,         \* instruction_count, counted up to one beyond its limit
  reflections,   \* reflection_count
  halted

journal == <<answered, refused>>
governor == <<program, journal, memo, count, reflections, halted>>
everything == <<vars, governor>>

(* What load_program makes of a policy text: an engine, nothing, or one    *)
(* that denies everything.                                                 *)
EngineFor(text) ==
  IF text = Unset THEN Unset
  ELSE LET p == Parsed(text) IN IF p = Unreadable THEN Unreadable ELSE Engine(p)

(* The engines are made once, when programs are loaded. *)
ASSUME EngineAssumption == \A g \in Programs : EngineOf[PolicyText[g]] = EngineFor(PolicyText[g])

Engines == [g \in Programs |-> EngineOf[PolicyText[g]]]
engine == Engines[program]
HasPolicy == engine \notin {Unset, Unreadable}

(* What max-stack is to the stack, for which no policy is the whole of it. *)
StackLimit(e) ==
  IF e = Unset \/ e.policy.limits["max-stack"] = Unset THEN StackBase - StackStart
  ELSE e.policy.limits["max-stack"]

ASSUME PolicyAssumption ==
  /\ MaxReflections \in Nat
  /\ MaxStack < Word
  /\ \A g \in Programs : PolicyText[g] = Unset \/ PolicyText[g] \in Seq(Tokens)
  /\ \A g \in Programs : Engines[g] # Unreadable => StackLimit(Engines[g]) = MaxStack

-----------------------------------------------------------------------------
(* Asking the engine *)

(* Counting stops beyond the limit: no answer changes after it. *)
Counted ==
  IF HasPolicy /\ engine.policy.limits["max-instructions"] # Unset
       /\ count <= Unsigned(engine.policy.limits["max-instructions"])
  THEN count + 1 ELSE count

Deep == Larger(Len(frames), depth)

Used(executed) ==
  [what \in {"max-instructions", "max-recursion", "max-stack", "max-reflections", "max-meta-writes"} |->
     CASE what = "max-instructions" -> executed
       [] what = "max-recursion" -> Deep
       [] what = "max-stack" -> StackBase - sp
       [] what = "max-reflections" -> reflections
       [] OTHER -> 0]

(* make_syscall_context; WriteMeta, which alone counts meta writes, is     *)
(* refused before it comes to that.                                        *)
Context(op, payload, executed) ==
  [op |-> op, payload |-> payload, tier |-> tier, answered |-> answered \cup refused,
   used |-> Used(executed)]

(* Without a policy every instruction is allowed, and with one that could  *)
(* not be read none.                                                       *)
Answer(op, payload, executed) ==
  IF engine = Unset THEN Allow
  ELSE IF engine = Unreadable THEN Deny({<<"phrase", "Axion policy parse failed">>})
  ELSE Verdict(engine, Context(op, payload, executed), memo)

Remember(op, payload, executed) ==
  memo' = IF HasPolicy THEN Learned(engine, Context(op, payload, executed), memo) ELSE memo

Telling(reason) == IF HasPolicy THEN Answered(engine, reason) ELSE {}

(* Every record is preceded by one of the metadata slot it takes. *)
MetaSlot == {<<"phrase", "meta slot axion event">>, <<"segment", "meta">>}

(* The record of a demotion or of promotions. *)
TierRecords ==
  (IF tier' < tier THEN {{<<"phrase", "Cognitive Tier Demotion">>}} ELSE {})
    \cup (IF tier' > tier THEN {{<<"phrase", "Cognitive Tier Promotion">>}} ELSE {})

(* What let an instruction run was a warning of its depth. *)
Warnings == IF HasPolicy /\ EthicsWarns(Deep) THEN {EthicsWarning} ELSE {}

Records(reasons) ==
  LET all == reasons \cup TierRecords \cup Warnings
  IN  answered' = answered \cup UNION {Telling(r) : r \in IF all = {} THEN {} ELSE all \cup {MetaSlot}}

(* An instruction is counted, and allowed or warned of.                    *)
Asked(op) ==
  /\ ~halted
  /\ Answer(op, Unset, Counted).kind # "Deny"
  /\ count' = Counted
  /\ Remember(op, Unset, Counted)
  /\ UNCHANGED <<program, refused>>

Continues == UNCHANGED <<reflections, halted>>

(* An instruction that leaves the calls alone and does not trap. *)
Completes == UNCHANGED <<stack, depth, proofs>> /\ FinishStep(tier, depth, proofs)

-----------------------------------------------------------------------------
(* What instructions record *)

StackAccess(phrase, addr) == {<<"phrase", phrase>>, <<"segment", "stack">>, <<"addr", addr>>}
StackFault(phrase, addr) == StackAccess(phrase, addr) \cup {<<"phrase", "bounds fault">>}

GuardRecord(g, result) == GuardNames(g) \cup {<<"phrase", "enum guard">>, <<"match", result>>}

-----------------------------------------------------------------------------
(* Instructions *)

RunPush ==
  /\ Asked("Push")
  /\ Continues
  /\ \/ Push /\ Records({StackAccess("memory store", sp - 1)})
     \/ ~CanPush /\ Trapped /\ Records({StackFault("stack push", sp)})

RunPop ==
  /\ Asked("Pop")
  /\ Continues
  /\ \/ Pop /\ Records({StackAccess("memory load", sp)})
     \/ ~CanPop /\ Trapped /\ Records({StackFault("stack pop", sp)})

(* The fault of a frame that fits the segment but not the policy names the *)
(* address it would have had.                                              *)
RunStackAlloc(n) ==
  LET size == AlignBlock(n)
      blamed == IF size > sp - StackStart THEN sp ELSE sp - size
  IN  /\ Asked("StackAlloc")
      /\ Continues
      /\ \/ StackAlloc(n) /\ Records({StackAccess("stack frame allocated", sp - size)})
         \/ ~CanAlloc(size) /\ Trapped /\ Records({StackFault("stack frame allocate", blamed)})

RunStackFree(ptr, n) ==
  LET blamed == IF frames = <<>> THEN sp ELSE ptr
  IN  /\ Asked("StackFree")
      /\ Continues
      /\ \/ StackFree(ptr, n) /\ Records({StackAccess("stack frame freed", ptr)})
         \/ /\ ~CanFree(ptr, AlignBlock(n))
            /\ Trapped
            /\ Records({StackFault("stack frame free", blamed)})

(* A call that fails records a fault of the stack, when that is full, or   *)
(* of the code segment or the tier.                                        *)
RunCall ==
  /\ Asked("Call")
  /\ Continues
  /\ Call
  /\ \/ Records({})
     \/ depth' = depth /\ ~CanPush /\ Records({StackFault("stack call", sp)})

RunRet ==
  /\ Asked("Ret")
  /\ Continues
  /\ \/ Ret /\ Records({})
     \/ Ret /\ depth = 0 /\ Records({{<<"phrase", "contradiction detected">>}})
     \/ ~CanPop /\ Trapped /\ Records({StackFault("stack return", sp)})

RunRecursor ==
  /\ Asked("Recurse")
  /\ Continues
  /\ \/ \E h \in HeapUses : Recurse(h)
     \/ \E x \in Entropies : Contract(x)
     \/ Terminate
  /\ Records({})

RunEnumIsVariant(g, result) ==
  /\ Asked("EnumIsVariant")
  /\ Continues
  /\ Completes
  /\ Records({GuardRecord(g, result)})

(* The second answer is that of dispatch: nothing it depends on has        *)
(* changed.                                                                *)
RunAxRead(addr) ==
  /\ Asked("AxRead")
  /\ Continues
  /\ Completes
  /\ Records({StackAccess("AxRead guard", addr)})

RunTLoadHash(hash) ==
  LET second == Answer("TLoadHash", hash, Counted)
  IN  /\ Asked("TLoadHash")
      /\ Continues
      /\ IF second.kind = "Deny"
         THEN Trapped /\ Records({second.reason})
         ELSE (Completes \/ Trapped) /\ Records({{<<"phrase", "TLOADHASH">>}})

RunMetaReflect ==
  /\ Asked("MetaReflect")
  /\ UNCHANGED halted
  /\ IF reflections < MaxReflections
     THEN Completes /\ reflections' = reflections + 1
     ELSE Trapped /\ UNCHANGED reflections
  /\ Records({})

RunOther ==
  /\ Asked("Other")
  /\ Continues
  /\ Plain \/ Trapped
  /\ \E reasons \in {{}} \cup {{r} : r \in OtherReasons} : Records(reasons)

RunHalt ==
  /\ Asked("Halt")
  /\ halted' = TRUE
  /\ UNCHANGED reflections
  /\ Completes
  /\ Records({})

(* A denied instruction does nothing but record the denial. *)
Denied(op) ==
  LET verdict == Answer(op, Unset, Counted)
  IN  /\ ~halted
      /\ verdict.kind = "Deny"
      /\ count' = Counted
      /\ Remember(op, Unset, Counted)
      /\ refused' = refused \cup Telling(verdict.reason)
      /\ answered' = answered \cup Telling(MetaSlot)
      /\ UNCHANGED <<vars, program, reflections, halted>>

(* Beyond the last instruction the engine is asked as for Halt, but        *)
(* nothing is counted or recorded.                                         *)
RunOff ==
  /\ ~halted
  /\ halted' = (Answer("Halt", Unset, count).kind # "Deny")
  /\ Remember("Halt", Unset, count)
  /\ UNCHANGED <<vars, program, journal, count, reflections>>

-----------------------------------------------------------------------------

Opcodes == {"Halt", "TLoadHash", "Other"}

(* load_program logs the hints of the policy it has read. *)
GovernedInit ==
  /\ Init
  /\ program \in Programs
  /\ answered = IF HasPolicy THEN UNION {Telling({Printed(h)}) : h \in Range(engine.policy.loops)}
                ELSE {}
  /\ refused = {}
  /\ memo = {}
  /\ count = 0
  /\ reflections = 0
  /\ halted = FALSE

GovernedNext ==
  \/ RunPush \/ RunPop \/ RunCall \/ RunRet \/ RunRecursor
  \/ \E n \in FrameSizes :
       \/ RunStackAlloc(n)
       \/ \E ptr \in StackStart .. StackBase : RunStackFree(ptr, n)
  \/ \E g \in Guards, result \in {"pass", "fail"} : RunEnumIsVariant(g, result)
  \/ \E addr \in StackStart .. StackBase - 1 : RunAxRead(addr)
  \/ \E hash \in Hashes : RunTLoadHash(hash)
  \/ RunMetaReflect \/ RunOther \/ RunHalt \/ RunOff
  \/ \E op \in Opcodes : Denied(op)

GovernedSpec == GovernedInit /\ [][GovernedNext]_everything

-----------------------------------------------------------------------------
(* Properties *)

(* The engine is asked before an instruction and not after it, so each     *)
(* limit can be exceeded by what one instruction adds and by no more, in   *)
(* any order of calls, frames and reflections; the stack not even by that, *)
(* because pushes and frames ask for themselves.                           *)
WithinPolicy ==
  HasPolicy =>
    LET within(used, what, over) ==
          engine.policy.limits[what] # Unset => used <= Unsigned(engine.policy.limits[what]) + over
    IN  /\ within(Deep, "max-recursion", 1)
        /\ within(reflections, "max-reflections", 1)
        /\ within(StackBase - sp, "max-stack", 0)

(* A program halts only when every requirement of its policy was met by an *)
(* event it caused, or had been denied to it before: the record of a       *)
(* denial names what it misses, and the next search finds it there.        *)
HaltEarned ==
  halted /\ HasPolicy =>
    \A d \in Range(engine.required) : d.fragments \in answered \cup refused

(* The policies compiled, and stored with their bytecode and read back. *)
CompiledForm == [g \in Programs |-> IF Engines[g] \in {Unset, Unreadable} THEN <<>> ELSE Compiled(Engines[g].policy)]
StoredForm ==
  [g \in Programs |->
    IF Engines[g] \in {Unset, Unreadable} THEN Unset
    ELSE Engine(Deserialized(Serialized([Engines[g].policy EXCEPT !.bytecode = CompiledForm[g]])))]

(* Hints that every form prints alike. *)
PlainHints(p) ==
  \A h \in Range(p.loops) :
    /\ h.line \in 0 .. Word - 1
    /\ h.column \in 0 .. Word - 1
    /\ h.infinite \/ h.bound \in 0 .. Word - 1

(* Wherever the program may be, the bytecode of its policy denies what the *)
(* text denies, and what the tier is too low for.                          *)
BytecodeAgrees ==
  HasPolicy /\ PlainHints(engine.policy) =>
    \A op \in Opcodes :
      LET denies(demands) == Judged(demands, Context(op, Unset, count)).kind = "Deny"
      IN  denies(CompiledForm[program]) <=>
            Unsigned(tier) < Unsigned(engine.policy.tier) \/ denies(Demands(engine))

(* What has been stored with its bytecode and read back denies the same.   *)
StoredAgrees ==
  HasPolicy /\ PlainHints(engine.policy) =>
    LET stored == StoredForm[program]
    IN  /\ stored.policy.bytecode = CompiledForm[program]
        /\ \A op \in Opcodes :
             LET ctx == Context(op, Unset, count)
                 denies(demands) == Judged(demands, ctx).kind = "Deny"
             IN  /\ denies(Demands(stored)) <=> denies(Demands(engine))
                 /\ HashDenied(stored.policy, ctx) <=> HashDenied(engine.policy, ctx)

(* The three forms of a policy, its text, its bytecode and what was stored *)
(* and read back, answer alike in every state of the machine.              *)
FormsAgree == BytecodeAgrees /\ StoredAgrees
=============================================================================
