--------------------------- MODULE TraceJitProofs ---------------------------
(***************************************************************************)
(* Proofs about the trace recorder and the compiled traces (TraceJit): the *)
(* traces are straight-line code, they are the program's text unless a     *)
(* recording was cut, and a machine that runs only its program's text      *)
(* takes the interpreter's steps.                                          *)
(***************************************************************************)
EXTENDS TraceJit, Induction, SequenceTheorems

Status == {"running", "halted", "trapped"}

(* Machines as Machine() makes them. *)
Machines ==
  {m \in [pc : Nat, store : Stores, status : Status] :
     /\ m.status = "running" => m.pc # 0
     /\ m.status = "trapped" => m.pc = 0}

(* What an instruction of some program is, whichever program that was.     *)
Sound(insn) ==
  /\ insn.kind = "branch" => insn.to # 0
  /\ insn.kind = "op" => {s \in Stores : insn.eff[s] = Fault} \subseteq insn.gives

SoundCode(code) == code \in Seq(Insn) /\ \A i \in 1 .. Len(code) : Sound(code[i])

SoundTraces(trs) ==
  /\ DOMAIN trs \subseteq Nat \ {0}
  /\ \A at \in DOMAIN trs : SoundCode(trs[at]) /\ trs[at] # <<>> /\ Straight(trs[at])

FaithfulTraces(trs) == \A at \in DOMAIN trs : Faithful(program, at, trs[at])

MachineOK == program \in Programs /\ pc \in Nat /\ Now \in Machines

RecorderOK ==
  /\ DOMAIN heat \subseteq Nat \ {0}
  /\ \A at \in DOMAIN heat : heat[at] \in 1 .. Hot
  /\ tracing \in BOOLEAN
  /\ startPc \in Nat \ {0}
  /\ SoundCode(buffer)
  /\ \A i \in 1 .. Len(buffer) : buffer[i].kind = "op"

(* The recording under way is the program's text up to pc.                 *)
Following(at) == Faithful(program, startPc, buffer) /\ at = startPc + Len(buffer)

HistoryOK ==
  /\ cut \in BOOLEAN /\ strayed \in BOOLEAN
  /\ ~cut => /\ ~strayed
             /\ FaithfulTraces(traces)
             /\ tracing /\ status = "running" => Following(pc)

JitInvariant == MachineOK /\ RecorderOK /\ SoundTraces(traces) /\ HistoryOK

-----------------------------------------------------------------------------
(* The interpreter *)

LEMMA ProgramFacts ==
  ASSUME NEW p \in Programs
  PROVE  SoundCode(p.code) /\ p.input \in Stores
<1>1. IsProgram(p)
  BY ProgramAssumption
<1>2. p.code \in Seq(Insn) /\ DOMAIN p.code = 1 .. Len(p.code)
  BY <1>1 DEF IsProgram
<1>3. ASSUME NEW i \in 1 .. Len(p.code)
      PROVE  Sound(p.code[i])
  BY <1>1, <1>2 DEF IsProgram, Sound
<1> QED
  BY <1>1, <1>2, <1>3 DEF SoundCode, IsProgram

LEMMA EffectFacts ==
  ASSUME NEW insn \in Insn, NEW s \in Stores
  PROVE  /\ insn.kind \in {"op", "other", "branch", "halt"}
         /\ insn.kind \in {"op", "other"} => insn.eff[s] \in Stores \cup {Fault}
         /\ insn.kind = "branch" => insn.to \in Nat
BY DEF Insn

LEMMA InterpretedFacts ==
  ASSUME NEW p \in Programs, NEW at \in Nat \ {0}, NEW s \in Stores
  PROVE  Interpreted(p, at, s) \in Machines
<1> DEFINE insn == p.code[at]
<1>1. CASE <<at, s>> \in p.denied \/ at > Len(p.code)
  BY <1>1 DEF Interpreted, Machine, Machines, Status
<1>2. CASE <<at, s>> \notin p.denied /\ ~(at > Len(p.code))
  <2>1. insn \in Insn /\ Sound(insn)
    BY <1>2, ProgramFacts, ElementOfSeq DEF SoundCode
  <2>2. Interpreted(p, at, s) = Dispatch(p, at, s)
    BY <1>2 DEF Interpreted
  <2>3. CASE insn.kind = "halt"
    BY <2>2, <2>3 DEF Dispatch, Machine, Machines, Status
  <2>4. CASE insn.kind = "branch"
    <3>1. insn.to \in Nat \ {0}
      BY <2>1, <2>4, EffectFacts DEF Sound
    <3>2. Dispatch(p, at, s) = Machine(IF s \in insn.taken THEN insn.to ELSE at + 1, s, "running")
      BY <2>4 DEF Dispatch
    <3> QED
      BY <2>2, <3>1, <3>2 DEF Machine, Machines, Status
  <2>5. CASE insn.kind \in {"op", "other"}
    <3>1. insn.eff[s] \in Stores \cup {Fault}
      BY <2>1, <2>5, EffectFacts
    <3>2. Dispatch(p, at, s) = IF insn.eff[s] = Fault THEN Machine(at + 1, s, "trapped")
                               ELSE Machine(at + 1, insn.eff[s], "running")
      BY <2>5 DEF Dispatch
    <3> QED
      BY <2>2, <3>1, <3>2 DEF Machine, Machines, Status
  <2> QED
    BY <2>1, <2>3, <2>4, <2>5, EffectFacts
<1> QED
  BY <1>1, <1>2

LEMMA AdvanceFacts ==
  ASSUME NEW p \in Programs, NEW m \in Machines
  PROVE  Advance(p, m) \in Machines
<1>1. CASE m.status = "running"
  <2>1. m.pc \in Nat \ {0} /\ m.store \in Stores
    BY <1>1 DEF Machines
  <2> QED
    BY <1>1, <2>1, InterpretedFacts DEF Advance
<1> QED
  BY <1>1 DEF Advance

(* The machine after n steps is the end of a run of n steps.               *)
LEMMA AfterRuns ==
  ASSUME NEW p \in Programs, NEW m \in Machines, NEW n \in Nat
  PROVE  \E run :
           /\ After(p, m, n) = run[n]
           /\ run[0] = m
           /\ \A i \in 1 .. n : run[i] = Advance(p, run[i - 1])
<1> DEFINE step == [q \in (1 .. n) \X Machines |-> Advance(p, q[2])]
           Body(g) == [i \in 0 .. n |-> IF i = 0 THEN m ELSE Advance(p, g[i - 1])]
           run == CHOOSE g : g = Body(g)
<1>1. StepsIn(step, n, Machines)
  BY AdvanceFacts DEF StepsIn
<1> HIDE DEF step, Body, run
<1>2. PICK g : IsRun(g, m, step, n, Machines)
  BY <1>1, Iterates
<1>3. ASSUME NEW i \in 1 .. n
      PROVE  g[i] = Advance(p, g[i - 1])
  <2>1. g[i - 1] \in Machines
    BY <1>2 DEF IsRun
  <2> QED
    BY <1>2, <2>1 DEF step, IsRun
<1>4. g = Body(g)
  BY <1>2, <1>3 DEF Body, IsRun
<1>5. run = Body(run)
  BY <1>4 DEF run
<1>6. After(p, m, n) = run[n]
  BY DEF After, Body, run
<1>7. run[0] = m /\ \A i \in 1 .. n : run[i] = Advance(p, run[i - 1])
  BY <1>5 DEF Body
<1> QED
  BY <1>6, <1>7

-----------------------------------------------------------------------------
(* The store inside a trace *)

LEMMA TookFacts ==
  ASSUME NEW insn \in Insn, NEW s \in Stores \cup {Fault}
  PROVE  Took(insn, s) \in Stores \cup {Fault}
<1>1. CASE insn.kind = "op" /\ s # Fault
  BY <1>1, EffectFacts DEF Took
<1> QED
  BY <1>1 DEF Took

LEMMA StoreRuns ==
  ASSUME NEW trace, SoundCode(trace), store \in Stores, NEW n \in 0 .. Len(trace)
  PROVE  \E run : /\ StoreAfter(trace, n) = run[n]
                  /\ run[0] = store
                  /\ \A i \in 1 .. n : run[i] = Took(trace[i], run[i - 1])
                  /\ run[n] \in Stores \cup {Fault}
<1> DEFINE S == Stores \cup {Fault}
           step == [q \in (1 .. n) \X S |-> Took(trace[q[1]], q[2])]
           Body(g) == [i \in 0 .. n |-> IF i = 0 THEN store ELSE Took(trace[i], g[i - 1])]
           run == CHOOSE g : g = Body(g)
<1>1. n \in Nat /\ store \in S /\ \A i \in 1 .. n : trace[i] \in Insn
  BY LenProperties, ElementOfSeq DEF SoundCode
<1>2. \A i \in 1 .. n, s \in S : Took(trace[i], s) \in S
  BY <1>1, TookFacts
<1> HIDE DEF S
<1>3. StepsIn(step, n, S)
  BY <1>2 DEF StepsIn
<1> HIDE DEF step, Body, run
<1>4. PICK g : IsRun(g, store, step, n, S)
  BY <1>1, <1>3, Iterates
<1>5. ASSUME NEW i \in 1 .. n
      PROVE  g[i] = Took(trace[i], g[i - 1])
  <2>1. g[i - 1] \in S
    BY <1>1, <1>4 DEF IsRun
  <2> QED
    BY <1>4, <2>1 DEF step, IsRun
<1>6. g = Body(g)
  BY <1>4, <1>5 DEF Body, IsRun
<1>7. run = Body(run)
  BY <1>6 DEF run
<1>8. StoreAfter(trace, n) = run[n]
  BY DEF StoreAfter, Body, run
<1>9. run[0] = store /\ \A i \in 1 .. n : run[i] = Took(trace[i], run[i - 1])
  BY <1>1, <1>7 DEF Body
<1>10. run[n] \in S
  <2> DEFINE T == {i \in 0 .. n : run[i] \in S}
  <2>1. 0 \in T
    BY <1>1, <1>9
  <2>2. ASSUME NEW i \in 0 .. n - 1, i \in T
        PROVE  i + 1 \in T
    <3>1. i + 1 \in 1 .. n /\ i + 1 \in 0 .. n /\ (i + 1) - 1 = i
      BY <1>1
    <3>2. run[i + 1] = Took(trace[i + 1], run[i])
      BY <1>9, <3>1
    <3> QED
      BY <1>2, <2>2, <3>1, <3>2
  <2> HIDE DEF T
  <2>3. 0 .. n \subseteq T
    BY <1>1, <2>1, <2>2, UpTo
  <2> QED
    BY <1>1, <2>3 DEF T
<1> QED
  BY <1>8, <1>9, <1>10 DEF S

(* The store after an instruction is what it makes of the one before it.   *)
LEMMA StoreAfterFacts ==
  ASSUME NEW trace, SoundCode(trace), store \in Stores
  PROVE  /\ StoreAfter(trace, 0) = store
         /\ \A i \in 1 .. Len(trace) :
              StoreAfter(trace, i) = Took(trace[i], StoreAfter(trace, i - 1))
         /\ \A i \in 0 .. Len(trace) : StoreAfter(trace, i) \in Stores \cup {Fault}
<1>1. Len(trace) \in Nat
  BY LenProperties DEF SoundCode
<1>2. StoreAfter(trace, 0) = store
  BY <1>1, StoreRuns
<1>3. ASSUME NEW i \in 1 .. Len(trace)
      PROVE  StoreAfter(trace, i) = Took(trace[i], StoreAfter(trace, i - 1))
  <2>1. i - 1 \in Nat /\ i - 1 \in 0 .. Len(trace) /\ i \in 0 .. Len(trace)
    BY <1>1
  <2>2. PICK f : /\ StoreAfter(trace, i) = f[i]
                 /\ f[0] = store
                 /\ \A j \in 1 .. i : f[j] = Took(trace[j], f[j - 1])
    BY <2>1, StoreRuns
  <2>3. PICK g : /\ StoreAfter(trace, i - 1) = g[i - 1]
                 /\ g[0] = store
                 /\ \A j \in 1 .. i - 1 : g[j] = Took(trace[j], g[j - 1])
    BY <2>1, StoreRuns
  <2> DEFINE T == {j \in 0 .. i - 1 : f[j] = g[j]}
  <2>4. 0 \in T
    BY <2>1, <2>2, <2>3
  <2>5. ASSUME NEW j \in 0 .. (i - 1) - 1, j \in T
        PROVE  j + 1 \in T
    <3>1. j + 1 \in 1 .. i /\ j + 1 \in 1 .. i - 1 /\ j + 1 \in 0 .. i - 1 /\ (j + 1) - 1 = j
      BY <2>1
    <3>2. f[j + 1] = Took(trace[j + 1], f[j]) /\ g[j + 1] = Took(trace[j + 1], g[j])
      BY <2>2, <2>3, <3>1
    <3> QED
      BY <2>5, <3>1, <3>2
  <2> HIDE DEF T
  <2>6. i - 1 \in T
    BY <2>1, <2>4, <2>5, UpTo
  <2>7. f[i - 1] = g[i - 1]
    BY <2>6 DEF T
  <2>8. f[i] = Took(trace[i], f[i - 1])
    BY <2>1, <2>2
  <2> QED
    BY <2>2, <2>3, <2>7, <2>8
<1>4. \A i \in 0 .. Len(trace) : StoreAfter(trace, i) \in Stores \cup {Fault}
  BY StoreRuns
<1> QED
  BY <1>2, <1>3, <1>4

-----------------------------------------------------------------------------
(* A trace that is the program's text takes the interpreter's steps *)

LEMMA FaithfulIs ==
  ASSUME NEW p \in Programs, NEW at \in Nat \ {0}, NEW trace \in Seq(Insn)
  PROVE  Faithful(p, at, trace) <=>
           /\ at + Len(trace) <= Len(p.code) + 1
           /\ \A i \in 1 .. Len(trace) : trace[i] = p.code[at + i - 1]
<1>1. p.code \in Seq(Insn) /\ Len(p.code) \in Nat /\ Len(trace) \in Nat
  BY ProgramFacts, LenProperties DEF SoundCode
<1>2. SUFFICES ASSUME at + Len(trace) <= Len(p.code) + 1
               PROVE  trace = SubSeq(p.code, at, at + Len(trace) - 1)
                        <=> \A i \in 1 .. Len(trace) : trace[i] = p.code[at + i - 1]
  BY DEF Faithful
<1> DEFINE part == SubSeq(p.code, at, at + Len(trace) - 1)
<1>3. /\ part \in Seq(Insn)
      /\ Len(part) = Len(trace)
      /\ \A i \in 1 .. Len(trace) : part[i] = p.code[at + i - 1]
  <2>1. at \in 1 .. Len(p.code) + 1 /\ at + Len(trace) - 1 \in at - 1 .. Len(p.code)
    BY <1>1, <1>2
  <2>2. (at + Len(trace) - 1) - at + 1 = Len(trace)
    BY <1>1
  <2> DEFINE last == at + Len(trace) - 1
  <2>3. /\ last \in Int /\ at \in Int /\ last - at + 1 = Len(trace)
        /\ (IF at <= last THEN last - at + 1 ELSE 0) = Len(trace)
    BY <1>1, <2>2
  <2>4. \A i \in at .. last : p.code[i] \in Insn
    BY <1>1, <2>1
  <2> HIDE DEF last
  <2>5. /\ SubSeq(p.code, at, last) \in Seq(Insn)
        /\ Len(SubSeq(p.code, at, last)) = Len(trace)
        /\ \A i \in 1 .. last - at + 1 : SubSeq(p.code, at, last)[i] = p.code[at + i - 1]
    BY <2>3, <2>4, SubSeqProperties
  <2> QED
    BY <2>3, <2>5 DEF last
<1> HIDE DEF part
<1>4. trace = part <=> \A i \in 1 .. Len(trace) : trace[i] = part[i]
  BY <1>3, SeqEqual
<1> QED
  BY <1>3, <1>4 DEF part

(* An instruction that is not denied and whose compiled form does not give *)
(* up does the same when it is interpreted.                                *)
LEMMA OpStep ==
  ASSUME NEW p \in Programs, NEW at \in 1 .. Len(p.code), NEW s \in Stores,
         <<at, s>> \notin p.denied, p.code[at].kind = "op", s \notin p.code[at].gives
  PROVE  /\ Took(p.code[at], s) \in Stores
         /\ Interpreted(p, at, s) = Machine(at + 1, Took(p.code[at], s), "running")
<1> DEFINE insn == p.code[at]
<1>1. insn \in Insn /\ Sound(insn) /\ Len(p.code) \in Nat
  BY ProgramFacts, ElementOfSeq, LenProperties DEF SoundCode
<1>2. insn.eff[s] \in Stores /\ insn.eff[s] # Fault
  BY <1>1, EffectFacts DEF Sound
<1>3. s # Fault
  BY ProgramAssumption
<1>4. Took(insn, s) = insn.eff[s]
  BY <1>3 DEF Took
<1>5. Interpreted(p, at, s) = Dispatch(p, at, s)
  BY <1>1 DEF Interpreted
<1>6. Dispatch(p, at, s) = Machine(at + 1, insn.eff[s], "running")
  BY <1>2 DEF Dispatch
<1> QED
  BY <1>2, <1>4, <1>5, <1>6

LEMMA NowFacts ==
  ASSUME MachineOK
  PROVE  /\ program \in Programs /\ pc \in Nat /\ store \in Stores /\ status \in Status
         /\ status = "running" => pc \in Nat \ {0} /\ Now = Machine(pc, store, "running")
<1> DEFINE at == IF status = "trapped" THEN 0 ELSE pc
<1>1. Now = [pc |-> at, store |-> store, status |-> status]
  BY DEF Now, Machine
<1>2. program \in Programs /\ pc \in Nat /\ Now \in Machines
  BY DEF MachineOK
<1>3. Now.pc = at /\ Now.store = store /\ Now.status = status
  BY <1>1
<1>4. store \in Stores /\ status \in Status /\ (status = "running" => at # 0)
  BY <1>2, <1>3 DEF Machines
<1> QED
  BY <1>2, <1>4 DEF Now

(* A trace about to be run that is the program's text.                     *)
Entering(trace) ==
  /\ MachineOK /\ status = "running"
  /\ SoundCode(trace) /\ Straight(trace)
  /\ Faithful(program, pc, trace)

LEMMA EnteringFacts ==
  ASSUME NEW trace, Entering(trace)
  PROVE  /\ trace \in Seq(Insn) /\ Len(trace) \in Nat /\ Len(program.code) \in Nat
         /\ pc \in Nat \ {0} /\ store \in Stores
         /\ pc + Len(trace) <= Len(program.code) + 1
         /\ \A i \in 1 .. Len(trace) : /\ trace[i] = program.code[pc + i - 1]
                                       /\ pc + i - 1 \in 1 .. Len(program.code)
         /\ \A i \in 1 .. Len(trace) : trace[i].kind = "op" \/ i = Len(trace)
         /\ Len(trace) > 0 => trace[Len(trace)].kind \in {"op", "branch"}
<1>1. program \in Programs /\ pc \in Nat \ {0} /\ store \in Stores
  BY NowFacts DEF Entering
<1>2. trace \in Seq(Insn) /\ Len(trace) \in Nat /\ DOMAIN trace = 1 .. Len(trace)
  BY LenProperties DEF Entering, SoundCode
<1>3. Len(program.code) \in Nat
  BY <1>1, ProgramFacts, LenProperties DEF SoundCode
<1>4. /\ pc + Len(trace) <= Len(program.code) + 1
      /\ \A i \in 1 .. Len(trace) : trace[i] = program.code[pc + i - 1]
  BY <1>1, <1>2, FaithfulIs DEF Entering
<1>5. \A i \in 1 .. Len(trace) : pc + i - 1 \in 1 .. Len(program.code)
  BY <1>1, <1>2, <1>3, <1>4
<1>6. Straight(trace)
  BY DEF Entering
<1>7. /\ \A i \in 1 .. Len(trace) : trace[i].kind = "op" \/ i = Len(trace)
      /\ Len(trace) > 0 => trace[Len(trace)].kind \in {"op", "branch"}
  <2>1. \A i \in 1 .. Len(trace) : IF i = Len(trace) THEN trace[i].kind \in {"op", "branch"}
                                   ELSE trace[i].kind = "op"
    BY <1>2, <1>6 DEF Straight
  <2>2. Len(trace) > 0 => Len(trace) \in 1 .. Len(trace)
    BY <1>2
  <2> QED
    BY <2>1, <2>2
<1> QED
  BY <1>1, <1>2, <1>3, <1>4, <1>5, <1>7

(* As long as nothing stops the trace, the interpreter is at its next      *)
(* instruction, with its store.                                            *)
LEMMA TraceFollows ==
  ASSUME NEW trace, Entering(trace), NEW i \in 0 .. Len(trace), RunsUpTo(trace, i),
         \A j \in 1 .. i : trace[j].kind = "op",
         NEW n \in Nat, i <= n,
         NEW run, run[0] = Now, \A j \in 1 .. n : run[j] = Advance(program, run[j - 1])
  PROVE  /\ run[i] = Machine(pc + i, StoreAfter(trace, i), "running")
         /\ StoreAfter(trace, i) \in Stores
<1>1. /\ MachineOK /\ status = "running" /\ SoundCode(trace) /\ program \in Programs
      /\ pc \in Nat /\ i \in Nat /\ Now = Machine(pc, store, "running")
  BY NowFacts, EnteringFacts DEF Entering
<1> DEFINE Here(j) == /\ run[j] = Machine(pc + j, StoreAfter(trace, j), "running")
                      /\ StoreAfter(trace, j) \in Stores
           T == {j \in 0 .. i : Here(j)}
<1>2. 0 \in T
  <2>1. store \in Stores /\ StoreAfter(trace, 0) = store /\ pc + 0 = pc
    BY <1>1, EnteringFacts, StoreAfterFacts
  <2> QED
    BY <1>1, <2>1
<1>3. ASSUME NEW j \in 0 .. i - 1, j \in T
      PROVE  j + 1 \in T
  <2> DEFINE s == StoreAfter(trace, j)
             at == pc + j
             insn == program.code[at]
  <2>1. j + 1 \in 1 .. i /\ j + 1 \in 1 .. Len(trace) /\ j + 1 \in 1 .. n /\ (j + 1) - 1 = j
    BY <1>1, EnteringFacts
  <2>2. pc + (j + 1) - 1 = at /\ pc + (j + 1) = at + 1
    BY <1>1, <2>1
  <2>3. trace[j + 1] = insn /\ at \in 1 .. Len(program.code) /\ insn.kind = "op"
    <3>1. /\ trace[j + 1] = program.code[pc + (j + 1) - 1]
          /\ pc + (j + 1) - 1 \in 1 .. Len(program.code)
      BY <2>1, EnteringFacts
    <3>2. trace[j + 1].kind = "op"
      BY <2>1
    <3> QED
      BY <2>2, <3>1, <3>2
  <2>4. Here(j)
    BY <1>3
  <2>5. <<at, s>> \notin program.denied /\ s \notin insn.gives
    BY <2>1, <2>2, <2>3 DEF RunsUpTo, DeniedAt, GivesUpAt
  <2>6. /\ Took(insn, s) \in Stores
        /\ Interpreted(program, at, s) = Machine(at + 1, Took(insn, s), "running")
    BY <1>1, <2>3, <2>4, <2>5, OpStep
  <2>7. StoreAfter(trace, j + 1) = Took(insn, s)
    BY <1>1, <2>1, <2>3, EnteringFacts, StoreAfterFacts
  <2>8. Advance(program, run[j]) = Interpreted(program, at, s)
    BY <2>4 DEF Advance, Machine
  <2>9. run[j + 1] = Advance(program, run[j])
    BY <2>1
  <2> QED
    BY <2>1, <2>2, <2>6, <2>7, <2>8, <2>9
<1> HIDE DEF T, Here
<1>4. 0 .. i \subseteq T
  BY <1>1, <1>2, <1>3, UpTo
<1> QED
  BY <1>1, <1>4 DEF T, Here

-----------------------------------------------------------------------------
(* The traces stay sound *)

LEMMA InsnsSound ==
  ASSUME NEW p \in Programs, NEW at \in 1 .. Len(p.code)
  PROVE  p.code[at] \in Insn /\ Sound(p.code[at])
BY ProgramFacts, ElementOfSeq DEF SoundCode

LEMMA SoundAppend ==
  ASSUME NEW code, SoundCode(code), NEW insn \in Insn, Sound(insn)
  PROVE  /\ SoundCode(code \o <<insn>>)
         /\ Len(code \o <<insn>>) = Len(code) + 1
         /\ \A i \in 1 .. Len(code) : (code \o <<insn>>)[i] = code[i]
         /\ (code \o <<insn>>)[Len(code) + 1] = insn
<1>1. code \in Seq(Insn) /\ Len(code) \in Nat
  BY LenProperties DEF SoundCode
<1>2. /\ code \o <<insn>> \in Seq(Insn)
      /\ Len(code \o <<insn>>) = Len(code) + 1
      /\ \A i \in 1 .. Len(code) + 1 :
           (code \o <<insn>>)[i] = IF i <= Len(code) THEN code[i] ELSE insn
  BY <1>1
<1>3. ASSUME NEW i \in 1 .. Len(code) + 1
      PROVE  Sound((code \o <<insn>>)[i])
  <2>1. (code \o <<insn>>)[i] = IF i <= Len(code) THEN code[i] ELSE insn
    BY <1>2
  <2>2. i <= Len(code) => i \in 1 .. Len(code)
    BY <1>1
  <2> QED
    BY <2>1, <2>2 DEF SoundCode
<1> QED
  BY <1>1, <1>2, <1>3 DEF SoundCode

LEMMA SoundEmpty == SoundCode(<<>>) /\ Len(<<>>) = 0
BY DEF SoundCode

(* What recording one instruction leaves in the recorder.                  *)
Extended(at, insn, trs) ==
  /\ tracing' => /\ buffer' = (IF tracing THEN buffer ELSE <<>>) \o <<insn>>
                 /\ startPc' = (IF tracing THEN startPc ELSE at)
                 /\ insn.kind = "op"
  /\ \A i \in DOMAIN traces' :
       \/ i \in DOMAIN trs /\ traces'[i] = trs[i]
       \/ /\ i = (IF tracing THEN startPc ELSE at)
          /\ \/ traces'[i] = (IF tracing THEN buffer ELSE <<>>)
             \/ traces'[i] = (IF tracing THEN buffer ELSE <<>>) \o <<insn>>

LEMMA RecordKeeps ==
  ASSUME RecorderOK, NEW at \in Nat \ {0}, NEW insn \in Insn, Sound(insn),
         NEW trs, SoundTraces(trs), Record(at, insn, trs)
  PROVE  RecorderOK' /\ SoundTraces(traces') /\ Extended(at, insn, trs)
<1> DEFINE visits == IF Visits(at) = Hot THEN Hot ELSE Visits(at) + 1
           starting == ~tracing /\ visits = Hot
           start == IF starting THEN Starts(at) ELSE startPc
           base == IF starting THEN <<>> ELSE buffer
           recorded == base \o (IF Kept(insn) THEN <<insn>> ELSE <<>>)
           on == tracing \/ starting
           compiled == on /\ Stops(insn) /\ recorded # <<>>
<1>1. /\ heat' = IF tracing THEN heat
                 ELSE [i \in DOMAIN heat \cup {at} |-> IF i = at THEN visits ELSE heat[i]]
      /\ startPc' = start
      /\ tracing' = (on /\ ~Stops(insn))
      /\ buffer' = IF tracing' THEN recorded ELSE <<>>
      /\ traces' = IF compiled
                   THEN [i \in DOMAIN trs \cup {start} |-> IF i = start THEN recorded ELSE trs[i]]
                   ELSE trs
  BY DEF Record
<1>2. visits \in 1 .. Hot
  <2>1. Hot \in Nat \ {0}
    BY BoundAssumption
  <2>2. Visits(at) \in 0 .. Hot
    BY <2>1 DEF Visits, RecorderOK
  <2> QED
    BY <2>1, <2>2
<1>3. SoundCode(base) /\ \A i \in 1 .. Len(base) : base[i].kind = "op"
  BY SoundEmpty DEF RecorderOK
<1>4. start \in Nat \ {0} /\ (on => start = IF tracing THEN startPc ELSE at)
                           /\ (on => base = IF tracing THEN buffer ELSE <<>>)
  BY DEF RecorderOK, Starts
<1>5. on \in BOOLEAN /\ Len(base) \in Nat /\ base \in Seq(Insn)
  BY <1>3, LenProperties DEF RecorderOK, SoundCode
<1>6. recorded = IF Kept(insn) THEN base \o <<insn>> ELSE base
  BY <1>5, ConcatEmptySeq
<1>7. SoundCode(recorded)
  BY <1>3, <1>6, SoundAppend
<1>8. Stops(insn) => Straight(recorded)
  <2>1. SUFFICES ASSUME Stops(insn), NEW i \in DOMAIN recorded
                 PROVE  IF i = Len(recorded) THEN recorded[i].kind \in {"op", "branch"}
                        ELSE recorded[i].kind = "op"
    BY DEF Straight
  <2>2. i \in 1 .. Len(recorded)
    BY <1>7, LenProperties DEF SoundCode
  <2>3. CASE Kept(insn)
    <3>1. /\ recorded = base \o <<insn>> /\ Len(recorded) = Len(base) + 1
          /\ \A j \in 1 .. Len(base) : recorded[j] = base[j]
          /\ recorded[Len(base) + 1] = insn
      BY <1>3, <1>6, <2>3, SoundAppend
    <3>2. insn.kind \in {"op", "branch"}
      BY <2>3 DEF Kept
    <3> HIDE DEF recorded, base
    <3>3. CASE i = Len(base) + 1
      BY <3>1, <3>2, <3>3
    <3>4. CASE i # Len(base) + 1
      <4>1. i \in 1 .. Len(base)
        BY <1>5, <2>2, <3>1, <3>4
      <4> QED
        BY <1>3, <3>1, <3>4, <4>1
    <3> QED
      BY <3>3, <3>4
  <2>4. CASE ~Kept(insn)
    BY <1>3, <1>6, <2>2, <2>4
  <2> QED
    BY <2>3, <2>4
<1>9. ~Stops(insn) => insn.kind = "op" /\ Kept(insn)
  BY DEF Stops, Kept
<1>10. tracing' => /\ buffer' = base \o <<insn>> /\ startPc' = start /\ insn.kind = "op" /\ on
  BY <1>1, <1>6, <1>9
<1>11. SoundCode(buffer') /\ \A i \in 1 .. Len(buffer') : buffer'[i].kind = "op"
  <2>1. CASE tracing'
    <3>1. /\ Len(buffer') = Len(base) + 1
          /\ \A j \in 1 .. Len(base) : buffer'[j] = base[j]
          /\ buffer'[Len(base) + 1] = insn
      BY <1>3, <1>10, <2>1, SoundAppend
    <3>2. ASSUME NEW i \in 1 .. Len(buffer')
          PROVE  buffer'[i].kind = "op"
      <4>1. i \in 1 .. Len(base) \/ i = Len(base) + 1
        BY <1>5, <3>1
      <4> QED
        BY <1>3, <1>10, <2>1, <3>1, <4>1
    <3>3. SoundCode(buffer')
      <4>1. SoundCode(base \o <<insn>>)
        BY <1>3, SoundAppend
      <4> QED
        BY <1>10, <2>1, <4>1
    <3> QED
      BY <3>2, <3>3
  <2>2. CASE ~tracing'
    BY <1>1, <2>2, SoundEmpty
  <2> QED
    BY <2>1, <2>2
<1> HIDE DEF visits, start, base, recorded
<1>12. DOMAIN heat' \subseteq Nat \ {0} /\ \A i \in DOMAIN heat' : heat'[i] \in 1 .. Hot
  <2>1. CASE tracing
    BY <1>1, <2>1 DEF RecorderOK
  <2>2. CASE ~tracing
    BY <1>1, <1>2, <2>2 DEF RecorderOK
  <2> QED
    BY <2>1, <2>2
<1>13. RecorderOK'
  BY <1>1, <1>4, <1>5, <1>11, <1>12 DEF RecorderOK
<1>14. SoundTraces(traces')
  <2>1. CASE compiled
    <3>1. /\ DOMAIN traces' = DOMAIN trs \cup {start}
          /\ \A i \in DOMAIN traces' : traces'[i] = IF i = start THEN recorded ELSE trs[i]
      BY <1>1, <2>1
    <3> QED
      BY <1>4, <1>7, <1>8, <2>1, <3>1 DEF SoundTraces
  <2>2. CASE ~compiled
    BY <1>1, <2>2
  <2> QED
    BY <2>1, <2>2
<1>15. \A i \in DOMAIN traces' :
        \/ i \in DOMAIN trs /\ traces'[i] = trs[i]
        \/ on /\ i = start /\ traces'[i] = recorded
  <2>1. CASE compiled
    <3>1. /\ DOMAIN traces' = DOMAIN trs \cup {start}
          /\ \A i \in DOMAIN traces' : traces'[i] = IF i = start THEN recorded ELSE trs[i]
      BY <1>1, <2>1
    <3> QED
      BY <2>1, <3>1
  <2>2. CASE ~compiled
    BY <1>1, <2>2
  <2> QED
    BY <2>1, <2>2
<1>16. \A i \in DOMAIN traces' :
        \/ i \in DOMAIN trs /\ traces'[i] = trs[i]
        \/ /\ i = (IF tracing THEN startPc ELSE at)
           /\ \/ traces'[i] = (IF tracing THEN buffer ELSE <<>>)
              \/ traces'[i] = (IF tracing THEN buffer ELSE <<>>) \o <<insn>>
  BY <1>4, <1>6, <1>15
<1>17. tracing' => /\ buffer' = (IF tracing THEN buffer ELSE <<>>) \o <<insn>>
                  /\ startPc' = (IF tracing THEN startPc ELSE at)
                  /\ insn.kind = "op"
  BY <1>4, <1>10
<1> QED
  BY <1>13, <1>14, <1>16, <1>17 DEF Extended

LEMMA FaithfulEmpty ==
  ASSUME NEW p \in Programs, NEW at \in 1 .. Len(p.code)
  PROVE  Faithful(p, at, <<>>)
<1>1. Len(p.code) \in Nat /\ <<>> \in Seq(Insn) /\ Len(<<>>) = 0
  BY ProgramFacts, LenProperties DEF SoundCode
<1>2. /\ at \in Nat \ {0} /\ at + Len(<<>>) <= Len(p.code) + 1
      /\ \A i \in 1 .. Len(<<>>) : <<>>[i] = p.code[at + i - 1]
  BY <1>1
<1> QED
  BY <1>1, <1>2, FaithfulIs

LEMMA FaithfulAppend ==
  ASSUME NEW p \in Programs, NEW at \in Nat \ {0}, NEW code, SoundCode(code),
         Faithful(p, at, code), at + Len(code) \in 1 .. Len(p.code)
  PROVE  Faithful(p, at, code \o <<p.code[at + Len(code)]>>)
<1> DEFINE insn == p.code[at + Len(code)]
           longer == code \o <<insn>>
<1>1. insn \in Insn /\ Sound(insn) /\ code \in Seq(Insn) /\ Len(code) \in Nat
      /\ Len(p.code) \in Nat
  BY InsnsSound, ProgramFacts, LenProperties DEF SoundCode
<1>2. /\ SoundCode(longer) /\ Len(longer) = Len(code) + 1
      /\ \A i \in 1 .. Len(code) : longer[i] = code[i]
      /\ longer[Len(code) + 1] = insn
  BY <1>1, SoundAppend
<1>3. \A i \in 1 .. Len(code) : code[i] = p.code[at + i - 1]
  BY <1>1, FaithfulIs
<1> HIDE DEF longer, insn
<1>4. ASSUME NEW i \in 1 .. Len(longer)
      PROVE  longer[i] = p.code[at + i - 1]
  <2>1. CASE i = Len(code) + 1
    <3>1. at + i - 1 = at + Len(code)
      BY <1>1, <2>1
    <3> QED
      BY <1>2, <2>1, <3>1 DEF insn
  <2>2. CASE i # Len(code) + 1
    <3>1. i \in 1 .. Len(code)
      BY <1>1, <1>2, <2>2
    <3> QED
      BY <1>2, <1>3, <3>1
  <2> QED
    BY <2>1, <2>2
<1>5. at + Len(longer) <= Len(p.code) + 1
  BY <1>1, <1>2
<1>6. longer \in Seq(Insn)
  BY <1>2 DEF SoundCode
<1> QED
  BY <1>4, <1>5, <1>6, FaithfulIs DEF longer, insn

(* Recording the instruction at the pc that follows the recording keeps it *)
(* the program's text, and so every trace compiled from it.                *)
LEMMA RecordFaithful ==
  ASSUME MachineOK, RecorderOK, NEW at \in 1 .. Len(program.code), program' = program,
         NEW trs, SoundTraces(trs), FaithfulTraces(trs), tracing => Following(at),
         Record(at, program.code[at], trs)
  PROVE  /\ \A i \in DOMAIN traces' : Faithful(program, i, traces'[i])
         /\ tracing' => /\ Faithful(program, startPc', buffer')
                        /\ at + 1 = startPc' + Len(buffer')
                        /\ program.code[at].kind = "op"
<1> DEFINE insn == program.code[at]
           base == IF tracing THEN buffer ELSE <<>>
           start == IF tracing THEN startPc ELSE at
<1>1. program \in Programs /\ insn \in Insn /\ Sound(insn) /\ at \in Nat \ {0}
  BY InsnsSound, NowFacts, ProgramFacts, LenProperties DEF SoundCode
<1>2. SoundCode(base) /\ start \in Nat \ {0} /\ Len(base) \in Nat
  BY <1>1, SoundEmpty, LenProperties DEF RecorderOK, SoundCode
<1>3. Faithful(program, start, base) /\ at = start + Len(base)
  BY <1>1, FaithfulEmpty DEF Following
<1>4. Faithful(program, start, base \o <<insn>>)
  BY <1>1, <1>2, <1>3, FaithfulAppend
<1>5. /\ tracing' => /\ buffer' = base \o <<insn>> /\ startPc' = start /\ insn.kind = "op"
      /\ \A i \in DOMAIN traces' :
           \/ i \in DOMAIN trs /\ traces'[i] = trs[i]
           \/ i = start /\ (traces'[i] = base \/ traces'[i] = base \o <<insn>>)
  <2>1. Record(at, insn, trs)
    OBVIOUS
  <2> HIDE DEF insn, base, start
  <2>2. Extended(at, insn, trs)
    <3>1. at \in Nat \ {0} /\ insn \in Insn /\ Sound(insn)
      BY <1>1
    <3> QED
      BY <2>1, <3>1, RecordKeeps
  <2>3. base = (IF tracing THEN buffer ELSE <<>>) /\ start = (IF tracing THEN startPc ELSE at)
    BY DEF base, start
  <2> QED
    BY ONLY <2>2, <2>3 DEF Extended
<1>6. Len(base \o <<insn>>) = Len(base) + 1
  BY <1>1, <1>2, SoundAppend
<1> HIDE DEF base, start, insn
<1>7. \A i \in DOMAIN traces' : Faithful(program, i, traces'[i])
  BY <1>3, <1>4, <1>5 DEF FaithfulTraces
<1>8. tracing' => /\ Faithful(program, startPc', buffer')
                 /\ at + 1 = startPc' + Len(buffer')
                 /\ insn.kind = "op"
  <2>1. SUFFICES ASSUME tracing'
                 PROVE  /\ Faithful(program, startPc', buffer')
                        /\ at + 1 = startPc' + Len(buffer')
                        /\ insn.kind = "op"
    OBVIOUS
  <2>2. buffer' = base \o <<insn>> /\ startPc' = start /\ insn.kind = "op"
    BY <1>5, <2>1
  <2>3. at + 1 = start + (Len(base) + 1)
    BY <1>1, <1>2, <1>3
  <2> QED
    BY <1>4, <1>6, <2>2, <2>3
<1> QED
  BY <1>7, <1>8 DEF insn

-----------------------------------------------------------------------------
(* Steps *)

LEMMA BecomeFacts ==
  ASSUME NEW m \in Machines, Become(m), program' \in Programs
  PROVE  MachineOK' /\ Now' = m
<1>1. m \in [pc : Nat, store : Stores, status : Status] /\ (m.status = "trapped" => m.pc = 0)
  BY DEF Machines
<1>2. pc' = m.pc /\ store' = m.store /\ status' = m.status
  BY DEF Become
<1>3. Now' = [pc |-> m.pc, store |-> m.store, status |-> m.status]
  BY <1>1, <1>2 DEF Now, Machine
<1>4. Now' = m
  BY <1>1, <1>3
<1> QED
  BY <1>1, <1>2, <1>4 DEF MachineOK

LEMMA InterpretKeeps ==
  ASSUME MachineOK, RecorderOK, NEW at \in Nat \ {0}, NEW s \in Stores,
         NEW trs, SoundTraces(trs), Interpret(at, s, trs), program' = program
  PROVE  MachineOK' /\ RecorderOK' /\ SoundTraces(traces') /\ Now' = Interpreted(program, at, s)
<1>1. program \in Programs /\ Len(program.code) \in Nat
  BY NowFacts, ProgramFacts, LenProperties DEF SoundCode
<1>2. Become(Interpreted(program, at, s)) /\ Interpreted(program, at, s) \in Machines
  BY <1>1, InterpretedFacts DEF Interpret
<1>3. MachineOK' /\ Now' = Interpreted(program, at, s)
  BY <1>1, <1>2, BecomeFacts
<1>4. CASE at <= Len(program.code)
  <2>1. Record(at, program.code[at], trs) /\ at \in 1 .. Len(program.code)
    BY <1>1, <1>4 DEF Interpret
  <2>2. program.code[at] \in Insn /\ Sound(program.code[at])
    BY <1>1, <2>1, InsnsSound
  <2>3. RecorderOK' /\ SoundTraces(traces')
    BY <2>1, <2>2, RecordKeeps
  <2> QED
    BY <1>3, <2>3
<1>5. CASE ~(at <= Len(program.code))
  <2>1. traces' = trs /\ UNCHANGED recorder
    BY <1>5 DEF Interpret
  <2>2. RecorderOK'
    BY <2>1 DEF RecorderOK, recorder
  <2> QED
    BY <1>3, <2>1, <2>2
<1> QED
  BY <1>4, <1>5

LEMMA InterpretFollows ==
  ASSUME MachineOK, RecorderOK, NEW at \in Nat \ {0}, NEW s \in Stores,
         NEW trs, SoundTraces(trs), Interpret(at, s, trs), program' = program,
         FaithfulTraces(trs), tracing => Following(at)
  PROVE  /\ FaithfulTraces(traces)'
         /\ (tracing /\ status = "running" => Following(pc))'
<1>1. program \in Programs /\ Len(program.code) \in Nat
  BY NowFacts, ProgramFacts, LenProperties DEF SoundCode
<1>2. pc' = Interpreted(program, at, s).pc /\ status' = Interpreted(program, at, s).status
  BY DEF Interpret, Become
<1>3. CASE at <= Len(program.code)
  <2> DEFINE insn == program.code[at]
  <2>1. Record(at, insn, trs) /\ at \in 1 .. Len(program.code)
    BY <1>1, <1>3 DEF Interpret
  <2>2. /\ \A i \in DOMAIN traces' : Faithful(program, i, traces'[i])
        /\ tracing' => /\ Faithful(program, startPc', buffer')
                       /\ at + 1 = startPc' + Len(buffer')
                       /\ insn.kind = "op"
    BY <2>1, RecordFaithful
  <2>3. FaithfulTraces(traces)'
    BY <2>2 DEF FaithfulTraces
  <2>4. tracing' /\ status' = "running" => pc' = at + 1
    <3>1. SUFFICES ASSUME insn.kind = "op", status' = "running"
                   PROVE  pc' = at + 1
      BY <2>2
    <3>2. <<at, s>> \notin program.denied
      BY <1>2, <3>1 DEF Interpreted, Machine
    <3>3. Interpreted(program, at, s) = Dispatch(program, at, s)
      BY <1>1, <1>3, <3>2 DEF Interpreted
    <3>4. Dispatch(program, at, s) = IF insn.eff[s] = Fault THEN Machine(at + 1, s, "trapped")
                                     ELSE Machine(at + 1, insn.eff[s], "running")
      BY <3>1 DEF Dispatch
    <3> HIDE DEF insn
    <3>5. insn.eff[s] # Fault
      <4>1. SUFFICES ASSUME insn.eff[s] = Fault
                     PROVE  FALSE
        OBVIOUS
      <4>2. Interpreted(program, at, s) = Machine(at + 1, s, "trapped")
        BY <3>3, <3>4, <4>1
      <4>3. Machine(at + 1, s, "trapped").status = "trapped"
        BY DEF Machine
      <4> QED
        BY <1>2, <3>1, <4>2, <4>3
    <3>6. pc' = Machine(at + 1, insn.eff[s], "running").pc
      BY <1>2, <3>3, <3>4, <3>5
    <3> QED
      BY <3>6 DEF Machine
  <2>5. (tracing /\ status = "running" => Following(pc))'
    <3>1. SUFFICES ASSUME tracing', status' = "running"
                   PROVE  Faithful(program', startPc', buffer') /\ pc' = startPc' + Len(buffer')
      BY DEF Following
    <3> QED
      BY <2>2, <2>4, <3>1
  <2> QED
    BY <2>3, <2>5
<1>4. CASE ~(at <= Len(program.code))
  <2>1. traces' = trs
    BY <1>4 DEF Interpret
  <2>2. status' # "running"
    BY <1>1, <1>2, <1>4 DEF Interpreted, Machine
  <2>3. FaithfulTraces(traces)'
    BY <2>1 DEF FaithfulTraces
  <2> QED
    BY <2>2, <2>3
<1> QED
  BY <1>3, <1>4

(* While nothing stops a trace no instruction of it traps, even when it is *)
(* another program's.                                                      *)
LEMMA StoreStays ==
  ASSUME NEW trace, SoundCode(trace), store \in Stores, NEW i \in 0 .. Len(trace),
         RunsUpTo(trace, i)
  PROVE  StoreAfter(trace, i) \in Stores
<1>1. i \in Nat /\ Len(trace) \in Nat
  BY LenProperties DEF SoundCode
<1> DEFINE T == {j \in 0 .. i : StoreAfter(trace, j) \in Stores}
<1>2. 0 \in T
  BY <1>1, StoreAfterFacts
<1>3. ASSUME NEW j \in 0 .. i - 1, j \in T
      PROVE  j + 1 \in T
  <2> DEFINE s == StoreAfter(trace, j)
             insn == trace[j + 1]
  <2>1. j + 1 \in 1 .. i /\ j + 1 \in 1 .. Len(trace) /\ (j + 1) - 1 = j /\ j + 1 \in 0 .. i
    BY <1>1
  <2>2. insn \in Insn /\ Sound(insn) /\ s \in Stores
    BY <1>3, <2>1, ElementOfSeq DEF SoundCode
  <2>3. ~GivesUpAt(trace, j + 1)
    BY <2>1 DEF RunsUpTo
  <2>4. insn.kind = "op" => s \notin insn.gives
    BY <2>1, <2>3 DEF GivesUpAt
  <2>5. StoreAfter(trace, j + 1) = Took(insn, s)
    BY <2>1, StoreAfterFacts
  <2>6. Took(insn, s) \in Stores
    BY <2>2, <2>4, EffectFacts DEF Took, Sound
  <2> QED
    BY <2>1, <2>5, <2>6
<1> HIDE DEF T
<1>4. 0 .. i \subseteq T
  BY <1>1, <1>2, <1>3, UpTo
<1> QED
  BY <1>1, <1>4 DEF T

LEMMA ExitFacts ==
  ASSUME MachineOK, status = "running", NEW trace, SoundCode(trace), trace # <<>>
  PROVE  TraceExit(trace) \in Nat \ {0}
<1>1. pc \in Nat \ {0} /\ trace \in Seq(Insn) /\ Len(trace) \in Nat
  BY NowFacts, LenProperties DEF SoundCode
<1>2. Len(trace) \in 1 .. Len(trace)
  BY <1>1, EmptySeq
<1>3. Last(trace) \in Insn /\ Sound(Last(trace))
  BY <1>1, <1>2, ElementOfSeq DEF Last, SoundCode
<1>4. Last(trace).kind = "branch" => Last(trace).to \in Nat \ {0}
  BY <1>3 DEF Insn, Sound
<1> QED
  BY <1>1, <1>2, <1>4 DEF TraceExit

(* What every action keeps of the machine, the recorder and the traces.    *)
ShapeOK == MachineOK /\ RecorderOK /\ SoundTraces(traces)

LEMMA TraceFacts ==
  ASSUME ShapeOK, pc \in DOMAIN traces
  PROVE  /\ SoundCode(traces[pc]) /\ traces[pc] # <<>> /\ Straight(traces[pc])
         /\ DOMAIN traces[pc] = 1 .. Len(traces[pc]) /\ Len(traces[pc]) \in Nat
BY LenProperties DEF ShapeOK, SoundTraces, SoundCode

LEMMA InterpretStepShape ==
  ASSUME ShapeOK, InterpretStep
  PROVE  ShapeOK'
<1>1. pc \in Nat \ {0} /\ store \in Stores
  BY NowFacts DEF ShapeOK, InterpretStep
<1> QED
  BY <1>1, InterpretKeeps DEF ShapeOK, InterpretStep

LEMMA TraceCompletesShape ==
  ASSUME ShapeOK, TraceCompletes
  PROVE  ShapeOK'
<1> DEFINE trace == traces[pc]
           m == Machine(TraceExit(trace), StoreAfter(trace, Len(trace)), "running")
<1>1. SoundCode(trace) /\ trace # <<>> /\ Len(trace) \in 0 .. Len(trace)
  BY TraceFacts DEF TraceCompletes
<1>2. store \in Stores /\ MachineOK /\ status = "running" /\ program' \in Programs
  BY NowFacts DEF ShapeOK, TraceCompletes
<1>3. StoreAfter(trace, Len(trace)) \in Stores
  BY <1>1, <1>2, StoreStays DEF TraceCompletes
<1>4. m \in Machines
  BY <1>1, <1>2, <1>3, ExitFacts DEF Machine, Machines, Status
<1>5. MachineOK'
  BY <1>2, <1>4, BecomeFacts DEF TraceCompletes
<1> QED
  BY <1>5 DEF ShapeOK, RecorderOK, TraceCompletes, recorder

LEMMA TraceDeniedShape ==
  ASSUME ShapeOK, TraceDenied
  PROVE  ShapeOK'
<1> DEFINE trace == traces[pc]
<1>1. PICK i \in DOMAIN trace : /\ RunsUpTo(trace, i - 1)
                                /\ Become(Machine(pc, StoreAfter(trace, i - 1), "trapped"))
  BY DEF TraceDenied
<1>2. SoundCode(trace) /\ i - 1 \in 0 .. Len(trace)
  BY TraceFacts DEF TraceDenied
<1>3. store \in Stores /\ program' \in Programs
  BY NowFacts DEF ShapeOK, TraceDenied
<1>4. StoreAfter(trace, i - 1) \in Stores
  BY <1>1, <1>2, <1>3, StoreStays
<1>5. Machine(pc, StoreAfter(trace, i - 1), "trapped") \in Machines
  BY <1>4 DEF Machine, Machines, Status
<1>6. MachineOK'
  BY <1>1, <1>3, <1>5, BecomeFacts
<1> QED
  BY <1>6 DEF ShapeOK, RecorderOK, TraceDenied, recorder

LEMMA TraceDeoptsShape ==
  ASSUME ShapeOK, TraceDeopts
  PROVE  ShapeOK'
<1> DEFINE trace == traces[pc]
           rest == [j \in DOMAIN traces \ {pc} |-> traces[j]]
<1>1. PICK i \in DOMAIN trace : /\ RunsUpTo(trace, i - 1)
                                /\ Interpret(DeoptPc(i), StoreAfter(trace, i - 1), rest)
  BY DEF TraceDeopts
<1>2. SoundCode(trace) /\ i - 1 \in 0 .. Len(trace) /\ i \in Nat \ {0}
  BY TraceFacts DEF TraceDeopts
<1>3. store \in Stores /\ pc \in Nat \ {0} /\ program' = program
  BY NowFacts DEF ShapeOK, TraceDeopts
<1>4. StoreAfter(trace, i - 1) \in Stores
  BY <1>1, <1>2, <1>3, StoreStays
<1>5. SoundTraces(rest)
  BY DEF ShapeOK, SoundTraces
<1>6. DeoptPc(i) \in Nat \ {0}
  BY <1>2, <1>3 DEF DeoptPc
<1> HIDE DEF rest
<1> QED
  BY <1>1, <1>3, <1>4, <1>5, <1>6, InterpretKeeps DEF ShapeOK

LEMMA LoadShape ==
  ASSUME ShapeOK, NEW p \in Programs, LoadProgram(p)
  PROVE  ShapeOK'
<1>1. p.input \in Stores /\ program' = p /\ pc' = 1 /\ store' = p.input /\ status' = "running"
  BY ProgramFacts DEF LoadProgram, Load
<1>2. Machine(1, p.input, "running") \in Machines
  BY <1>1 DEF Machine, Machines, Status
<1>3. MachineOK'
  BY <1>1, <1>2 DEF MachineOK, Now
<1> QED
  BY <1>3 DEF ShapeOK, RecorderOK, LoadProgram, recorder

LEMMA ShapeStep ==
  ASSUME ShapeOK, [Next]_vars
  PROVE  ShapeOK'
<1>1. CASE Step
  BY <1>1, InterpretStepShape, TraceCompletesShape, TraceDeniedShape, TraceDeoptsShape DEF Step
<1>2. CASE \E p \in Programs : LoadProgram(p)
  BY <1>2, LoadShape
<1>3. CASE UNCHANGED vars
  BY <1>3 DEF vars, machine, recorder, ShapeOK, MachineOK, Now, RecorderOK
<1> QED
  BY <1>1, <1>2, <1>3 DEF Next

-----------------------------------------------------------------------------
(* Traces that stray *)

LEMMA HistoryStep ==
  ASSUME ShapeOK, HistoryOK, [Next]_vars
  PROVE  HistoryOK'
<1> DEFINE Faith == /\ ~strayed
                    /\ FaithfulTraces(traces)
                    /\ tracing /\ status = "running" => Following(pc)
<1>1. ASSUME InterpretStep
      PROVE  HistoryOK'
  <2>1. UNCHANGED <<program, cut, strayed>> /\ status = "running"
        /\ Interpret(pc, store, traces)
    BY <1>1 DEF InterpretStep
  <2>2. pc \in Nat \ {0} /\ store \in Stores
    BY <2>1, NowFacts DEF ShapeOK
  <2>3. ~cut => Faith'
    <3>1. SUFFICES ASSUME ~cut
                   PROVE  Faith'
      OBVIOUS
    <3>2. FaithfulTraces(traces) /\ ~strayed /\ (tracing => Following(pc))
      BY <2>1, <3>1 DEF HistoryOK
    <3> QED
      BY <2>1, <2>2, <3>2, InterpretFollows DEF ShapeOK
  <2> QED
    BY <2>1, <2>3 DEF HistoryOK
<1>2. ASSUME TraceCompletes \/ TraceDenied
      PROVE  HistoryOK'
  <2>1. /\ pc \in DOMAIN traces /\ Enter(traces[pc])
        /\ UNCHANGED <<program, recorder, traces>>
    BY <1>2 DEF TraceCompletes, TraceDenied
  <2>2. cut' = (cut \/ tracing) /\ strayed' = (strayed \/ ~Faithful(program, pc, traces[pc]))
    BY <2>1 DEF Enter
  <2>3. ~cut' => /\ ~strayed'
                 /\ FaithfulTraces(traces)'
                 /\ ~tracing'
    BY <2>1, <2>2 DEF HistoryOK, FaithfulTraces, recorder
  <2> QED
    BY <2>2, <2>3 DEF HistoryOK
<1>3. ASSUME TraceDeopts
      PROVE  HistoryOK'
  <2> DEFINE trace == traces[pc]
             rest == [j \in DOMAIN traces \ {pc} |-> traces[j]]
  <2>1. PICK i \in DOMAIN trace : /\ RunsUpTo(trace, i - 1)
                                  /\ Enter(trace)
                                  /\ Interpret(DeoptPc(i), StoreAfter(trace, i - 1), rest)
    BY <1>3 DEF TraceDeopts
  <2>2. SoundCode(trace) /\ i - 1 \in 0 .. Len(trace) /\ i \in Nat \ {0} /\ pc \in DOMAIN traces
    BY <1>3, TraceFacts DEF TraceDeopts
  <2>3. store \in Stores /\ pc \in Nat \ {0} /\ program' = program
    BY <1>3, NowFacts DEF ShapeOK, TraceDeopts
  <2>4. StoreAfter(trace, i - 1) \in Stores /\ SoundTraces(rest) /\ DeoptPc(i) \in Nat \ {0}
    BY <2>1, <2>2, <2>3, StoreStays DEF ShapeOK, SoundTraces, DeoptPc
  <2>5. cut' = (cut \/ tracing) /\ strayed' = (strayed \/ ~Faithful(program, pc, traces[pc]))
    BY <2>1 DEF Enter
  <2>6. ~cut' => Faith'
    <3>1. SUFFICES ASSUME ~cut'
                   PROVE  Faith'
      OBVIOUS
    <3>2. ~tracing /\ FaithfulTraces(traces) /\ ~strayed
      BY <2>5, <3>1 DEF HistoryOK
    <3>3. FaithfulTraces(rest) /\ ~strayed'
      BY <2>2, <2>5, <3>2 DEF FaithfulTraces
    <3> HIDE DEF rest
    <3> QED
      BY <2>1, <2>3, <2>4, <3>2, <3>3, InterpretFollows DEF ShapeOK
  <2> QED
    BY <2>5, <2>6 DEF HistoryOK
<1>4. ASSUME NEW p \in Programs, LoadProgram(p)
      PROVE  HistoryOK'
  BY <1>4 DEF LoadProgram, HistoryOK
<1>5. CASE UNCHANGED vars
  BY <1>5 DEF vars, machine, recorder, HistoryOK, FaithfulTraces, Following
<1> QED
  BY <1>1, <1>2, <1>3, <1>4, <1>5 DEF Next, Step

LEMMA InitInvariant ==
  ASSUME Init
  PROVE  JitInvariant
<1>1. PICK p \in Programs : program = p /\ pc = 1 /\ store = p.input
  BY DEF Init
<1>2. p.input \in Stores
  BY ProgramFacts
<1>3. MachineOK
  BY <1>1, <1>2 DEF Init, MachineOK, Now, Machine, Machines, Status
<1>4. DOMAIN traces = {} /\ DOMAIN heat = {}
  BY DEF Init
<1>5. RecorderOK
  <2>1. SoundCode(buffer) /\ Len(buffer) = 0 /\ startPc = 1
    BY SoundEmpty DEF Init
  <2>2. tracing \in BOOLEAN
    BY DEF Init
  <2>3. \A i \in 1 .. Len(buffer) : buffer[i].kind = "op"
    BY <2>1
  <2> QED
    BY <1>4, <2>1, <2>2, <2>3 DEF RecorderOK
<1>6. SoundTraces(traces) /\ HistoryOK
  BY <1>4 DEF Init, SoundTraces, HistoryOK, FaithfulTraces
<1> QED
  BY <1>3, <1>5, <1>6 DEF JitInvariant

(* The machine is well formed, traces and recording are sound code, and as *)
(* long as no recording has been cut, all of them are the program's text   *)
(* and the recorder follows the pc.                                        *)
THEOREM JitInvariantAlways == Spec => []JitInvariant
<1>1. JitInvariant /\ [Next]_vars => JitInvariant'
  BY ShapeStep, HistoryStep DEF JitInvariant, ShapeOK
<1> QED
  BY <1>1, InitInvariant, PTL DEF Spec

(* Compiled traces are straight-line code, and one that is not the         *)
(* program's text only comes from a recording that was cut: the recorder,  *)
(* the compiler and deoptimisation never make one.                         *)
THEOREM StraysOnlyWhenCutAlways == Spec => []StraysOnlyWhenCut
<1>1. JitInvariant => StraysOnlyWhenCut
  BY DEF JitInvariant, SoundTraces, HistoryOK, FaithfulTraces, StraysOnlyWhenCut
<1> QED
  BY <1>1, JitInvariantAlways, PTL

-----------------------------------------------------------------------------
(* The mode of execution *)

LEMMA OneStep ==
  ASSUME MachineOK, status = "running", program' = program,
         Now' = Interpreted(program, pc, store)
  PROVE  Steps
<1>1. /\ program \in Programs /\ Now \in Machines /\ 1 \in Nat
      /\ Now = Machine(pc, store, "running")
  BY NowFacts DEF MachineOK
<1>2. PICK run : /\ After(program, Now, 1) = run[1]
                 /\ run[0] = Now
                 /\ \A i \in 1 .. 1 : run[i] = Advance(program, run[i - 1])
  BY <1>1, AfterRuns
<1>3. run[1] = Advance(program, Now)
  BY <1>2
<1>4. Advance(program, Now) = Interpreted(program, pc, store)
  BY <1>1 DEF Advance, Machine
<1>5. Now' = After(program, Now, 1)
  BY <1>2, <1>3, <1>4
<1>6. 1 \in 1 .. Len(program.code) + 1
  BY <1>1, ProgramFacts, LenProperties DEF SoundCode
<1> QED
  BY <1>5, <1>6 DEF Steps, Now

(* Running i instructions of a faithful trace and then interpreting one.   *)
LEMMA TraceThenStep ==
  ASSUME NEW trace, Entering(trace), NEW i \in 1 .. Len(trace), RunsUpTo(trace, i - 1),
         program' = program,
         Now' = Interpreted(program, pc + i - 1, StoreAfter(trace, i - 1))
  PROVE  Steps
<1>1. /\ MachineOK /\ status = "running" /\ program \in Programs /\ Now \in Machines
      /\ i \in Nat /\ i - 1 \in 0 .. Len(trace) /\ Len(trace) \in Nat /\ i - 1 <= i
      /\ i \in 1 .. Len(program.code) + 1
  BY EnteringFacts, NowFacts DEF Entering, MachineOK
<1>2. PICK run : /\ After(program, Now, i) = run[i]
                 /\ run[0] = Now
                 /\ \A j \in 1 .. i : run[j] = Advance(program, run[j - 1])
  BY <1>1, AfterRuns
<1>3. \A j \in 1 .. i - 1 : trace[j].kind = "op"
  BY <1>1, EnteringFacts
<1>4. /\ run[i - 1] = Machine(pc + (i - 1), StoreAfter(trace, i - 1), "running")
  BY <1>1, <1>2, <1>3, TraceFollows
<1>5. run[i] = Advance(program, run[i - 1]) /\ pc + (i - 1) = pc + i - 1
  BY <1>1, <1>2, EnteringFacts
<1>6. run[i] = Interpreted(program, pc + i - 1, StoreAfter(trace, i - 1))
  BY <1>4, <1>5 DEF Advance, Machine
<1> QED
  BY <1>1, <1>2, <1>6 DEF Steps, Now

(* A whole trace ends where the interpreter is after as many instructions. *)
LEMMA WholeTrace ==
  ASSUME NEW trace, Entering(trace), trace # <<>>, RunsUpTo(trace, Len(trace)),
         program' = program,
         Now' = Machine(TraceExit(trace), StoreAfter(trace, Len(trace)), "running")
  PROVE  Steps
<1> DEFINE n == Len(trace)
           s == StoreAfter(trace, n - 1)
           insn == trace[n]
           at == pc + n - 1
<1>1. n \in 1 .. n /\ n \in Nat /\ n - 1 \in 0 .. n
  BY EnteringFacts, EmptySeq
<1>2. RunsUpTo(trace, n - 1) /\ ~DeniedAt(trace, n) /\ ~GivesUpAt(trace, n)
  BY <1>1 DEF RunsUpTo
<1>3. /\ program \in Programs /\ MachineOK /\ SoundCode(trace) /\ store \in Stores
      /\ pc \in Nat \ {0} /\ Len(program.code) \in Nat
  BY EnteringFacts, NowFacts DEF Entering
<1>4. insn = program.code[at] /\ at \in 1 .. Len(program.code) /\ insn.kind \in {"op", "branch"}
  BY <1>1, EnteringFacts
<1>5. s \in Stores
  BY <1>1, <1>2, <1>3, StoreStays
<1>6. <<at, s>> \notin program.denied
  BY <1>2 DEF DeniedAt
<1>7. StoreAfter(trace, n) = Took(insn, s)
  BY <1>1, <1>3, StoreAfterFacts
<1>8. TraceExit(trace) = IF insn.kind = "branch" /\ StoreAfter(trace, n) \in insn.taken
                         THEN insn.to ELSE at + 1
  <2>1. pc + n = at + 1
    BY <1>1, <1>3
  <2> QED
    BY <2>1 DEF TraceExit, Last
<1>9. Interpreted(program, at, s) = Machine(TraceExit(trace), StoreAfter(trace, n), "running")
  <2>1. CASE insn.kind = "op"
    <3>1. s \notin insn.gives
      BY <1>2, <2>1 DEF GivesUpAt
    <3> QED
      BY <1>3, <1>4, <1>5, <1>6, <1>7, <1>8, <2>1, <3>1, OpStep
  <2>2. CASE insn.kind = "branch"
    <3>1. StoreAfter(trace, n) = s
      BY <1>7, <2>2 DEF Took
    <3>2. Interpreted(program, at, s) = Dispatch(program, at, s)
      BY <1>3, <1>4, <1>6 DEF Interpreted
    <3>3. Dispatch(program, at, s)
            = Machine(IF s \in insn.taken THEN insn.to ELSE at + 1, s, "running")
      BY <1>4, <2>2 DEF Dispatch
    <3> QED
      BY <1>8, <2>2, <3>1, <3>2, <3>3
  <2> QED
    BY <1>4, <2>1, <2>2
<1> HIDE DEF at, s, insn
<1>10. Now' = Interpreted(program, at, s)
  BY <1>9
<1> QED
  BY <1>1, <1>2, <1>10, TraceThenStep DEF at, s

LEMMA AgreesStep ==
  ASSUME ShapeOK, [Next]_vars
  PROVE  [strayed' \/ Steps \/ \E p \in Programs : Load(p)]_machine
<1>1. ASSUME InterpretStep
      PROVE  Steps
  <2>1. pc \in Nat \ {0} /\ store \in Stores /\ status = "running" /\ program' = program
        /\ Interpret(pc, store, traces)
    BY <1>1, NowFacts DEF ShapeOK, InterpretStep
  <2>2. Now' = Interpreted(program, pc, store)
    BY <2>1, InterpretKeeps DEF ShapeOK
  <2> QED
    BY <2>1, <2>2, OneStep DEF ShapeOK
<1> DEFINE trace == traces[pc]
<1>2. ASSUME TraceCompletes \/ TraceDenied \/ TraceDeopts, ~strayed'
      PROVE  Entering(trace) /\ trace # <<>> /\ program' = program
  <2>1. Enter(trace) /\ pc \in DOMAIN traces /\ status = "running" /\ program' = program
    BY <1>2 DEF TraceCompletes, TraceDenied, TraceDeopts
  <2>2. Faithful(program, pc, trace)
    BY <1>2, <2>1 DEF Enter
  <2> QED
    BY <2>1, <2>2, TraceFacts DEF Entering, ShapeOK
<1>3. ASSUME TraceCompletes, ~strayed'
      PROVE  Steps
  <2> DEFINE m == Machine(TraceExit(trace), StoreAfter(trace, Len(trace)), "running")
  <2>1. Entering(trace) /\ trace # <<>> /\ program' = program
    BY <1>2, <1>3
  <2>2. RunsUpTo(trace, Len(trace)) /\ Become(m)
    BY <1>3 DEF TraceCompletes
  <2>3. Now' = m
    BY <2>2 DEF Become, Now, Machine
  <2> QED
    BY <2>1, <2>2, <2>3, WholeTrace
<1>4. ASSUME TraceDenied, ~strayed'
      PROVE  Steps
  <2>1. Entering(trace) /\ program' = program
    BY <1>2, <1>4
  <2>2. PICK i \in DOMAIN trace :
          /\ RunsUpTo(trace, i - 1) /\ DeniedAt(trace, i)
          /\ Become(Machine(pc, StoreAfter(trace, i - 1), "trapped"))
    BY <1>4 DEF TraceDenied
  <2>3. i \in 1 .. Len(trace)
    BY <2>1, EnteringFacts
  <2>4. Interpreted(program, pc + i - 1, StoreAfter(trace, i - 1))
          = Machine(pc + i - 1, StoreAfter(trace, i - 1), "trapped")
    BY <2>2 DEF DeniedAt, Interpreted
  <2>5. Now' = Machine(pc + i - 1, StoreAfter(trace, i - 1), "trapped")
    BY <2>2 DEF Become, Now, Machine
  <2> QED
    BY <2>1, <2>2, <2>3, <2>4, <2>5, TraceThenStep
<1>5. ASSUME TraceDeopts, ~strayed'
      PROVE  Steps
  <2> DEFINE rest == [j \in DOMAIN traces \ {pc} |-> traces[j]]
  <2>1. Entering(trace) /\ program' = program
    BY <1>2, <1>5
  <2>2. PICK i \in DOMAIN trace : /\ RunsUpTo(trace, i - 1)
                                  /\ Interpret(DeoptPc(i), StoreAfter(trace, i - 1), rest)
    BY <1>5 DEF TraceDeopts
  <2>3. i \in 1 .. Len(trace) /\ i - 1 \in 0 .. Len(trace) /\ pc \in Nat \ {0}
        /\ SoundCode(trace) /\ store \in Stores
    BY <2>1, EnteringFacts DEF Entering
  <2>4. StoreAfter(trace, i - 1) \in Stores /\ SoundTraces(rest) /\ pc + i - 1 \in Nat \ {0}
    BY <2>2, <2>3, StoreStays DEF ShapeOK, SoundTraces
  <2>5. Interpret(pc + i - 1, StoreAfter(trace, i - 1), rest)
    BY <2>2 DEF DeoptPc
  <2> HIDE DEF rest
  <2>6. Now' = Interpreted(program, pc + i - 1, StoreAfter(trace, i - 1))
    BY <2>1, <2>4, <2>5, InterpretKeeps DEF ShapeOK
  <2> QED
    BY <2>1, <2>2, <2>3, <2>6, TraceThenStep
<1> QED
  BY <1>1, <1>3, <1>4, <1>5 DEF Next, Step, LoadProgram, vars

(* As long as the traces it ran were the program's text, the machine takes *)
(* the interpreter's steps: leaving a trace, a denial inside it and        *)
(* deoptimisation resume with the interpreter's store, pc and trap.        *)
THEOREM AgreesWhileFaithfulAlways == Spec => AgreesWhileFaithful
<1>1. JitInvariant /\ [Next]_vars => [strayed' \/ Steps \/ \E p \in Programs : Load(p)]_machine
  BY AgreesStep DEF JitInvariant, ShapeOK
<1> QED
  BY <1>1, JitInvariantAlways, PTL DEF Spec, AgreesWhileFaithful
=============================================================================
