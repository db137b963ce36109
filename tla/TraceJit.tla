------------------------------ MODULE TraceJit ------------------------------
(***************************************************************************)
(* The trace recorder and compiler of the T81 virtual machine              *)
(* (runtime/jit/jit_compiler.cpp) and the part of step() in                *)
(* core/vm/vm.cpp that enters compiled traces, counts visits, records and  *)
(* compiles.  A behaviour runs one program after another on one machine:   *)
(* load_program renews the state, but not what the recorder has.           *)
(***************************************************************************)
EXTENDS Interpreter, SequencesExt

CONSTANTS
  Hot,        \* kHotSpotThreshold (50)
  MaxLoads    \* bound of the model: programs loaded in a behaviour

ASSUME BoundAssumption == Hot \in Nat \ {0} /\ MaxLoads \in Nat

VARIABLES
  loads,      \* programs loaded so far
  heat,       \* hot_spots_, saturated at Hot
  traces,     \* compiled_traces_: the instructions of the trace at each pc
  tracing,    \* tracing_: the recorder is on
  startPc,    \* start_pc_: where it was switched on
  buffer,     \* trace_buffer_: what it has recorded
  cut,        \* history: a recording was interrupted, or a program replaced
  strayed     \* history: a trace was run that is not the program's text

machine == <<program, pc, store, status>>
recorder == <<heat, tracing, startPc, buffer>>
vars == <<machine, recorder, loads, traces, cut, strayed>>

(* A trace is faithful at pc at when it is the program's text from there.  *)
Faithful(p, at, trace) ==
  at + Len(trace) <= Len(p.code) + 1 /\ trace = SubSeq(p.code, at, at + Len(trace) - 1)

-----------------------------------------------------------------------------
(* One interpreted step                                                    *)

Visits(at) == IF at \in DOMAIN heat THEN heat[at] ELSE 0

(* The recorder keeps supported instructions, and stops after a branch and *)
(* at an instruction it does not know.                                     *)
Kept(insn) == insn.kind \in {"op", "branch"}
Stops(insn) == insn.kind # "op"

StartsAfter(at) == at + 1
Starts(at) == at

(* Count the visit, switch the recorder on at a hot spot, record the       *)
(* instruction, and compile when that has switched the recorder off.       *)
Record(at, insn, trs) ==
  LET visits == IF Visits(at) = Hot THEN Hot ELSE Visits(at) + 1
      starting == ~tracing /\ visits = Hot
      start == IF starting THEN Starts(at) ELSE startPc
      recorded == (IF starting THEN <<>> ELSE buffer) \o (IF Kept(insn) THEN <<insn>> ELSE <<>>)
      on == tracing \/ starting
      compiled == on /\ Stops(insn) /\ recorded # <<>>
  IN  /\ heat' = IF tracing THEN heat
                 ELSE [i \in DOMAIN heat \cup {at} |-> IF i = at THEN visits ELSE heat[i]]
      /\ startPc' = start
      /\ tracing' = (on /\ ~Stops(insn))
      /\ buffer' = IF tracing' THEN recorded ELSE <<>>
      /\ traces' = IF compiled
                   THEN [i \in DOMAIN trs \cup {start} |-> IF i = start THEN recorded ELSE trs[i]]
                   ELSE trs

Become(m) == pc' = m.pc /\ store' = m.store /\ status' = m.status

Interpret(at, s, trs) ==
  /\ Become(Interpreted(program, at, s))
  /\ IF at <= Len(program.code)
     THEN Record(at, program.code[at], trs)
     ELSE traces' = trs /\ UNCHANGED recorder

InterpretStep ==
  /\ status = "running"
  /\ pc \notin DOMAIN traces
  /\ Interpret(pc, store, traces)
  /\ UNCHANGED <<program, loads, cut, strayed>>

-----------------------------------------------------------------------------
(* Compiled traces                                                         *)

(* The store after i instructions of a trace: its last may be a branch.    *)
Took(insn, s) == IF insn.kind = "op" /\ s # Fault THEN insn.eff[s] ELSE s

StoreAfter(trace, i) ==
  LET run[j \in 0 .. i] == IF j = 0 THEN store ELSE Took(trace[j], run[j - 1])
  IN  run[i]

(* The policy is asked again before every instruction of a trace. *)
DeniedAt(trace, i) == <<pc + i - 1, StoreAfter(trace, i - 1)>> \in program.denied
GivesUpAt(trace, i) == trace[i].kind = "op" /\ StoreAfter(trace, i - 1) \in trace[i].gives

RunsUpTo(trace, i) == \A j \in 1 .. i : ~DeniedAt(trace, j) /\ ~GivesUpAt(trace, j)

(* A branch that is taken sets the pc, and otherwise the trace falls off.  *)
TraceExitStuck(trace) ==
  IF Last(trace).kind = "branch" /\ StoreAfter(trace, Len(trace)) \in Last(trace).taken
  THEN Last(trace).to
  ELSE pc
TraceExit(trace) ==
  IF Last(trace).kind = "branch" /\ StoreAfter(trace, Len(trace)) \in Last(trace).taken
  THEN Last(trace).to
  ELSE pc + Len(trace)

Enter(trace) ==
  /\ cut' = (cut \/ tracing)
  /\ strayed' = (strayed \/ ~Faithful(program, pc, trace))

TraceCompletes ==
  /\ status = "running"
  /\ pc \in DOMAIN traces
  /\ LET trace == traces[pc]
     IN  /\ RunsUpTo(trace, Len(trace))
         /\ Enter(trace)
         /\ Become(Machine(TraceExit(trace), StoreAfter(trace, Len(trace)), "running"))
  /\ UNCHANGED <<program, recorder, loads, traces>>

(* The policy denies the i-th instruction: the ones before it are done.    *)
TraceDenied ==
  /\ status = "running"
  /\ pc \in DOMAIN traces
  /\ LET trace == traces[pc]
     IN  \E i \in DOMAIN trace :
           /\ RunsUpTo(trace, i - 1) /\ DeniedAt(trace, i)
           /\ Enter(trace)
           /\ Become(Machine(pc, StoreAfter(trace, i - 1), "trapped"))
  /\ UNCHANGED <<program, recorder, loads, traces>>

DeoptPcAfter(i) == pc + i
DeoptPc(i) == pc + i - 1

(* The compiled form of the i-th instruction gives up: the trace is        *)
(* dropped and the interpreter takes that instruction in the same step.    *)
TraceDeopts ==
  /\ status = "running"
  /\ pc \in DOMAIN traces
  /\ LET trace == traces[pc]
     IN  \E i \in DOMAIN trace :
           /\ RunsUpTo(trace, i - 1) /\ ~DeniedAt(trace, i) /\ GivesUpAt(trace, i)
           /\ Enter(trace)
           /\ Interpret(DeoptPc(i), StoreAfter(trace, i - 1),
                        [j \in DOMAIN traces \ {pc} |-> traces[j]])
  /\ UNCHANGED <<program, loads>>

-----------------------------------------------------------------------------

LoadProgram(p) ==
  /\ loads < MaxLoads
  /\ status # "running"
  /\ Load(p)
  /\ loads' = loads + 1
  /\ cut' = TRUE
  /\ UNCHANGED <<recorder, traces, strayed>>

Init ==
  /\ \E p \in Programs : program = p /\ pc = 1 /\ store = p.input
  /\ status = "running"
  /\ loads = 1
  /\ heat = <<>>
  /\ traces = <<>>
  /\ tracing = FALSE
  /\ startPc = 1
  /\ buffer = <<>>
  /\ cut = FALSE
  /\ strayed = FALSE

Step == InterpretStep \/ TraceCompletes \/ TraceDenied \/ TraceDeopts

Next == Step \/ \E p \in Programs : LoadProgram(p)

Spec == Init /\ [][Next]_vars /\ WF_vars(Step)

-----------------------------------------------------------------------------
(* Properties                                                              *)

Straight(trace) ==
  \A i \in DOMAIN trace :
    IF i = Len(trace) THEN trace[i].kind \in {"op", "branch"} ELSE trace[i].kind = "op"

(* Compiled traces are straight-line code that ends at the first branch,   *)
(* which execute() relies on when it adds the number of executed           *)
(* instructions to the pc only once.  One that is not the program's text   *)
(* comes about in no other way than by recording across another trace's    *)
(* run or across load_program: the recorder, the compiler and              *)
(* deoptimisation never make one.                                          *)
StraysOnlyWhenCut ==
  /\ \A at \in DOMAIN traces : Straight(traces[at])
  /\ strayed \/ (\E at \in DOMAIN traces : ~Faithful(program, at, traces[at])) => cut

(* As long as the traces it ran were the program's text, every step of the *)
(* machine is one or more steps of the interpreter: leaving a trace at a   *)
(* branch or at its end, a policy denial inside it and deoptimisation all  *)
(* resume with the interpreter's store, at its pc and with its trap.       *)
AgreesWhileFaithful ==
  [][strayed' \/ Steps \/ \E p \in Programs : Load(p)]_machine

(* The mode of execution does not change what a program does: every step   *)
(* is one or more steps of the interpreter (spec/t81vm-spec.md, 1).        *)
AgreesWithInterpreter == [][Steps \/ \E p \in Programs : Load(p)]_machine

(* A program that the interpreter stops is stopped in either mode, as long *)
(* as only its own text is run.                                            *)
Stopping == status = "running" ~> (status # "running" \/ strayed)
=============================================================================
