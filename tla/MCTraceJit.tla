----------------------------- MODULE MCTraceJit -----------------------------
(* Two counters in registers, and the programs that loop over them.        *)
EXTENDS TraceJit

MCStores == (0 .. 3) \X (0 .. 2)

Op(eff(_)) ==
  [kind |-> "op", eff |-> [s \in MCStores |-> eff(s)],
   gives |-> {s \in MCStores : eff(s) = Fault}]
Other(eff(_)) == [kind |-> "other", eff |-> [s \in MCStores |-> eff(s)], gives |-> {}]
Branch(test(_), to) == [kind |-> "branch", taken |-> {s \in MCStores : test(s)}, to |-> to]
Halt == [kind |-> "halt"]

DecI(s) == IF s[1] = 0 THEN Fault ELSE <<s[1] - 1, s[2]>>
DecJ(s) == IF s[2] = 0 THEN Fault ELSE <<s[1], s[2] - 1>>
SetJ(s) == <<s[1], 2>>
Same(s) == s
IPositive(s) == s[1] > 0
JPositive(s) == s[2] > 0
Always(s) == TRUE

(* A compiled form that leaves some stores to the interpreter. *)
Shy(insn) == [insn EXCEPT !.gives = @ \cup {s \in MCStores : s[1] = 1}]

Program(code, denied) == [code |-> code, denied |-> denied, input |-> <<3, 0>>]

Countdown == Program(<<Op(SetJ), Op(DecI), Branch(IPositive, 2), Halt>>, {})
Inspected == Program(<<Shy(Op(DecI)), Op(SetJ), Branch(IPositive, 1), Op(Same)>>, {})
Overrun == Program(<<Op(SetJ), Op(DecI), Branch(Always, 1)>>, {})
Polled == Program(<<Op(SetJ), Other(DecI), Branch(IPositive, 1), Halt>>, {})
Guarded == Program(<<Op(DecI), Op(SetJ), Branch(IPositive, 1), Op(DecI), Halt>>, {<<4, <<0, 2>>>>})
Nested ==
  Program(<<Op(SetJ), Op(DecJ), Branch(JPositive, 2), Op(DecI), Branch(IPositive, 1), Halt>>, {})
Denied == Program(<<Op(DecI), Op(SetJ), Branch(IPositive, 1), Halt>>, {<<2, <<0, 2>>>>})

MCPrograms == {Countdown, Inspected, Overrun, Polled, Guarded, Nested, Denied}
MCNested == {Nested, Countdown}

(* A machine that loops through a foreign trace while it records never     *)
(* stops recording: such behaviours are followed up to this length.        *)
MCBufferBound == Len(buffer) <= 8
=============================================================================
