---------------------------- MODULE Interpreter -----------------------------
(***************************************************************************)
(* The interpreter mode of the T81 virtual machine, which is the reference *)
(* for the compiled traces (spec/t81vm-spec.md, 1): one instruction after  *)
(* the other, each asking the policy first (step() in core/vm/vm.cpp).     *)
(*                                                                         *)
(* What an instruction does to registers and memory is a function on an    *)
(* abstract store; a store that makes the instruction trap maps to Fault.  *)
(* Program counters start at 1.                                            *)
(***************************************************************************)
EXTENDS Integers, Sequences

CONSTANTS
  Stores,     \* contents of registers and memory
  Fault,      \* the effect of an instruction that traps
  Programs    \* programs that are run

(* Straight-line instructions, which the trace recorder knows ("op") or    *)
(* not ("other"), branches and Halt.  The compiled form of an "op" gives   *)
(* up in the stores "gives": all that trap, and those that are left to the *)
(* interpreter (a TMatMul whose operand is promoted first).                *)
Insn ==
  [kind : {"op", "other"}, eff : [Stores -> Stores \cup {Fault}], gives : SUBSET Stores]
    \cup [kind : {"branch"}, taken : SUBSET Stores, to : Nat]
    \cup [kind : {"halt"}]

(* A program with its policy and its input.  The policy knows the pc and   *)
(* the number of instructions so far, for which the store stands here.     *)
IsProgram(p) ==
  /\ p.code \in Seq(Insn)
  /\ \A i \in DOMAIN p.code :
       /\ p.code[i].kind = "branch" => p.code[i].to \in 1 .. Len(p.code) + 1
       /\ p.code[i].kind = "op" =>
            {s \in Stores : p.code[i].eff[s] = Fault} \subseteq p.code[i].gives
  /\ p.denied \subseteq Nat \X Stores     \* where the policy denies the step
  /\ p.input \in Stores

ASSUME ProgramAssumption == Fault \notin Stores /\ \A p \in Programs : IsProgram(p)

VARIABLES
  program,
  pc,
  store,
  status     \* "running", "halted" or "trapped"

(* A machine as a record; where a trapped one stands is not observed.      *)
Machine(at, s, st) == [pc |-> IF st = "trapped" THEN 0 ELSE at, store |-> s, status |-> st]

Dispatch(p, at, s) ==
  LET insn == p.code[at]
  IN  CASE insn.kind = "halt" -> Machine(at + 1, s, "halted")
        [] insn.kind = "branch" ->
             Machine(IF s \in insn.taken THEN insn.to ELSE at + 1, s, "running")
        [] OTHER -> IF insn.eff[s] = Fault THEN Machine(at + 1, s, "trapped")
                    ELSE Machine(at + 1, insn.eff[s], "running")

(* One step of a running machine; running off the end halts. *)
Interpreted(p, at, s) ==
  IF <<at, s>> \in p.denied THEN Machine(at, s, "trapped")
  ELSE IF at > Len(p.code) THEN Machine(at, s, "halted")
  ELSE Dispatch(p, at, s)

Advance(p, m) == IF m.status = "running" THEN Interpreted(p, m.pc, m.store) ELSE m

(* Where a machine is after n steps. *)
After(p, m, n) ==
  LET run[i \in 0 .. n] == IF i = 0 THEN m ELSE Advance(p, run[i - 1])
  IN  run[n]

Now == Machine(pc, store, status)

Load(p) ==
  /\ program' = p
  /\ pc' = 1
  /\ store' = p.input
  /\ status' = "running"

(* One or more instructions, since a compiled trace runs several at once.  *)
Steps ==
  /\ status = "running"
  /\ UNCHANGED program
  /\ \E n \in 1 .. Len(program.code) + 1 :
       Machine(pc', store', status') = After(program, Now, n)
=============================================================================
