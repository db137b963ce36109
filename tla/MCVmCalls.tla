----------------------------- MODULE MCVmCalls -----------------------------
(* Small instances of VmCalls, under policies, for TLC. *)
EXTENDS Governed

(* A scaled-down recursion_limit_for_tier. *)
MCRecLimit == [t \in Tiers |-> <<0, 1, 1, 2, 2, 2>>[t + 1]]

MCLoad(e, c, f, g) == [entropy |-> e, complexity |-> c, floor |-> f, graphs |-> g]

(* Idle; entropy that hides the depth; symbols and infinite forms; more    *)
(* than the machine allows.                                                *)
MCLoads ==
  {MCLoad(0, 0, 1, FALSE), MCLoad(2, 0, 1, FALSE), MCLoad(0, 3, 5, TRUE), MCLoad(6, 0, 1, FALSE)}

(* The recursor's chain and the frame list are bounded by the instance.    *)
MCFrameBound == Len(frames) <= 2

-----------------------------------------------------------------------------
(* Policies *)

Open == [kind |-> "LParen"]
Close == [kind |-> "RParen"]
Sym(text) == [kind |-> "Symbol", text |-> text]
Str(text) == [kind |-> "String", text |-> text]
Num(value) == [kind |-> "Integer", value |-> value]

Clauses(key, tokens) == <<Open, Sym(key)>> \o tokens \o <<Close>>
Pair(key, token) == Clauses(key, <<token>>)

(* Audited, but not limited: a loop with a bound and an access.            *)
MCAudited ==
  Clauses("policy",
    Pair("tier", Num(1)) \o Pair("max-stack", Num(2)) \o
    Clauses("loop", Pair("file", Str("f")) \o Pair("line", Num(1)) \o Pair("bound", Num(2))) \o
    Clauses("require-segment-event",
      Pair("segment", Sym("stack")) \o Pair("action", Str("memory store")) \o Pair("addr", Num(4))))

(* Limited in every way, with an endless loop, a hash and the requirements *)
(* left.                                                                   *)
MCLimited ==
  Clauses("policy",
    Pair("tier", Num(2)) \o Pair("max-stack", Num(2)) \o Pair("max-instructions", Num(4)) \o
    Pair("max-recursion", Num(0)) \o Pair("max-reflections", Num(0)) \o
    Pair("max-meta-writes", Num(-1)) \o
    Clauses("allowed-tensor-hashes", <<[kind |-> "LBracket"], Str("h"), [kind |-> "RBracket"]>>) \o
    Clauses("loop", Pair("file", Str("f")) \o Pair("bound", Sym("infinite"))) \o
    Clauses("require-match-guard", Pair("enum", Sym("E")) \o Pair("variant", Sym("V"))) \o
    Clauses("require-axion-event", Pair("reason", Str("stack fault"))) \o
    Clauses("require-alignment", Pair("reason", Str("lane"))))

MCText ==
  "audited" :> MCAudited @@ "limited" :> MCLimited @@ "unreadable" :> <<Open, Sym("policy")>>

MCEngineOf == LET read(text) == EngineFor(text) IN [text \in Range(MCText) |-> read(text)]

MCTextSet == STRING

MCWithin ==
  {<<<<"phrase", "stack fault">>, <<"phrase", w>>>> :
     w \in {"stack push", "stack pop", "stack call", "stack return"}}
MCGuards == {[enum |-> "E", variant |-> "V", payload |-> Unset]}
MCReasons == {{<<"phrase", "alignment">>, <<"phrase", "lane">>}}
=============================================================================
