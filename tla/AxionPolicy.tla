---------------------------- MODULE AxionPolicy ----------------------------
(***************************************************************************)
(* Axion policies: the text that a program carries and how it is read      *)
(* (axion/policy.hpp), the stored form and the bytecode compiled from it   *)
(* (policy_serialization.cpp), and the engine that answers allow, warn or  *)
(* deny for an instruction about to run (policy_engine.cpp, ethics.cpp).   *)
(*                                                                         *)
(* A text is a sequence of tokens.  The engine searches the reasons of the *)
(* machine's log for texts of its own.  Here a reason is the set of the    *)
(* fragments that such a search may find in it, and the log is the set of  *)
(* the searches that it answers.                                           *)
(***************************************************************************)
EXTENDS Integers, SequencesExt

CONSTANTS
  Unset,        \* an optional without a value
  Infinite,     \* the bound of a loop that has none
  Unreadable,   \* the answer of the reader to a text that is no policy
  Texts,        \* the texts that names and strings may have
  Within,       \* <<f, g>>: a reason that holds fragment g holds f too
  Word,         \* unsigned numbers are modulo Word (one for 32 and 64 bits)
  WarnDepth,    \* the depth that Theta-4 warns of beyond (243)
  Ceiling       \* the depth that Theta-7 denies (729)

ASSUME WordAssumption == Word \in Nat \ {0}
ASSUME UnsetAssumption == Unset \notin Int
ASSUME TextAssumption == {"", "pass"} \subseteq Texts

-----------------------------------------------------------------------------
(* Policies *)

Limits ==
  {"max-instructions", "max-recursion", "max-stack", "max-reflections",
   "max-meta-writes", "max-tensors", "max-tensor-elements",
   "max-symbolic-graphs", "max-symbolic-nodes", "max-infinite-forms"}

Blank ==
  [tier |-> 1, limits |-> [k \in Limits |-> Unset], hashes |-> <<>>, loops |-> <<>>,
   guards |-> <<>>, segments |-> <<>>, events |-> <<>>, alignments |-> <<>>,
   bytecode |-> <<>>]

BlankLoop ==
  [id |-> 0, file |-> "", line |-> 0, column |-> 0, annotated |-> FALSE, depth |-> 0,
   infinite |-> FALSE, bound |-> Unset]
BlankGuard == [enum |-> "", variant |-> "", payload |-> Unset, result |-> "pass"]
BlankSegment == [segment |-> "", action |-> "", addr |-> Unset]
BlankReason == [reason |-> ""]

Loops ==
  [id : Int, file : Texts, line : Int, column : Int, annotated : BOOLEAN, depth : Int,
   infinite : BOOLEAN, bound : Int \cup {Unset}]
GuardRequirements ==
  [enum : Texts, variant : Texts, payload : Texts \cup {Unset}, result : Texts]
SegmentRequirements == [segment : Texts, action : Texts, addr : Int \cup {Unset}]
ReasonRequirements == [reason : Texts]

(* The policies that texts make: only compiling adds a bytecode. *)
TextPolicies ==
  [tier : Int, limits : [Limits -> Int \cup {Unset}], hashes : Seq(Texts), loops : Seq(Loops),
   guards : Seq(GuardRequirements), segments : Seq(SegmentRequirements),
   events : Seq(ReasonRequirements), alignments : Seq(ReasonRequirements), bytecode : {<<>>}]

-----------------------------------------------------------------------------
(* Reading a text *)

Tokens ==
  [kind : {"LParen", "RParen", "LBracket", "RBracket", "End"}]
    \cup [kind : {"Symbol", "String"}, text : Texts] \cup [kind : {"Integer"}, value : Int]

(* The list of the policy that a clause of fields goes to, how it begins,  *)
(* and what it cannot do without.                                          *)
ClauseKeys ==
  {"loop", "require-match-guard", "require-segment-event", "require-axion-event", "require-alignment"}

Clause(key) ==
  CASE key = "loop" -> [list |-> "loops", blank |-> BlankLoop, needs |-> {}]
    [] key = "require-match-guard" ->
         [list |-> "guards", blank |-> BlankGuard, needs |-> {"enum", "variant"}]
    [] key = "require-segment-event" ->
         [list |-> "segments", blank |-> BlankSegment, needs |-> {"segment", "action"}]
    [] key = "require-axion-event" -> [list |-> "events", blank |-> BlankReason, needs |-> {"reason"}]
    [] key = "require-alignment" -> [list |-> "alignments", blank |-> BlankReason, needs |-> {"reason"}]

IsName(token) == token.kind \in {"Symbol", "String"}

(* A field of a loop, by its token; a name that no hint has is passed over. *)
LoopField(hint, field, token) ==
  CASE field \in {"id", "line", "column", "depth"} /\ token.kind = "Integer" ->
         [hint EXCEPT ![field] = token.value]
    [] field = "file" /\ IsName(token) -> [hint EXCEPT !.file = token.text]
    [] field = "annotated" /\ IsName(token) -> [hint EXCEPT !.annotated = token.text = "true"]
    [] field = "bound" /\ token.kind = "Symbol" /\ token.text = "infinite" ->
         [hint EXCEPT !.infinite = TRUE]
    [] field = "bound" /\ token.kind = "Integer" -> [hint EXCEPT !.bound = token.value]
    [] field \notin {"id", "line", "column", "depth", "file", "annotated", "bound"} -> hint
    [] OTHER -> Unset

(* A field of a requirement: only those it has, each of its own kind. *)
RequirementField(req, field, token) ==
  CASE field \in DOMAIN req \cap {"addr"} /\ token.kind = "Integer" -> [req EXCEPT !.addr = token.value]
    [] field \in DOMAIN req \ {"addr"} /\ IsName(token) -> [req EXCEPT ![field] = token.text]
    [] OTHER -> Unset

Complete(key, req) == \A f \in Clause(key).needs : req[f] # ""

(* The reader between two tokens: where it is in the grammar, the policy   *)
(* so far, the clause it is in, the fields of it and the field.            *)
Opened == [at |-> "start", policy |-> Blank, key |-> "", req |-> Unset, field |-> ""]
Failed(s) == [s EXCEPT !.at = "error"]
Expect(s, token, kind, next) == IF token.kind = kind THEN [s EXCEPT !.at = next] ELSE Failed(s)

ReadKey(s, token) ==
  LET named(keys) == token.kind = "Symbol" /\ token.text \in keys
  IN  CASE named(Limits \cup {"tier"}) -> [s EXCEPT !.at = "number", !.key = token.text]
        [] named({"allowed-tensor-hashes"}) -> [s EXCEPT !.at = "bracket"]
        [] named(ClauseKeys) ->
             [s EXCEPT !.at = "fields", !.key = token.text, !.req = Clause(token.text).blank]
        [] OTHER -> Failed(s)

ReadNumber(s, token) ==
  CASE token.kind = "Integer" /\ s.key = "tier" ->
         [s EXCEPT !.at = "close", !.policy.tier = token.value]
    [] token.kind = "Integer" /\ s.key # "tier" ->
         [s EXCEPT !.at = "close", !.policy.limits[s.key] = token.value]
    [] OTHER -> Failed(s)

ReadHash(s, token) ==
  CASE token.kind = "RBracket" -> [s EXCEPT !.at = "close"]
    [] token.kind = "String" -> [s EXCEPT !.policy.hashes = Append(@, token.text)]
    [] OTHER -> Failed(s)

(* The end of a clause, or its next field. *)
ReadFields(s, token) ==
  CASE token.kind = "LParen" -> [s EXCEPT !.at = "field"]
    [] token.kind = "RParen" /\ Complete(s.key, s.req) ->
         [s EXCEPT !.at = "body", !.policy[Clause(s.key).list] = Append(@, s.req)]
    [] OTHER -> Failed(s)

ReadValue(s, token) ==
  LET req == IF s.key = "loop" THEN LoopField(s.req, s.field, token)
             ELSE RequirementField(s.req, s.field, token)
  IN  IF token.kind = "End" \/ req = Unset THEN Failed(s)
      ELSE [s EXCEPT !.at = "closing", !.req = req]

Read(s, token) ==
  CASE s.at = "start" -> Expect(s, token, "LParen", "root")
    [] s.at = "root" ->
         IF token.kind = "Symbol" /\ token.text = "policy" THEN [s EXCEPT !.at = "body"] ELSE Failed(s)
    [] s.at = "body" ->
         IF token.kind = "RParen" THEN [s EXCEPT !.at = "done"] ELSE Expect(s, token, "LParen", "key")
    [] s.at = "key" -> ReadKey(s, token)
    [] s.at = "number" -> ReadNumber(s, token)
    [] s.at = "close" -> Expect(s, token, "RParen", "body")
    [] s.at = "bracket" -> Expect(s, token, "LBracket", "hashes")
    [] s.at = "hashes" -> ReadHash(s, token)
    [] s.at = "fields" -> ReadFields(s, token)
    [] s.at = "field" ->
         IF token.kind = "Symbol" THEN [s EXCEPT !.at = "value", !.field = token.text] ELSE Failed(s)
    [] s.at = "value" -> ReadValue(s, token)
    [] s.at = "closing" -> Expect(s, token, "RParen", "fields")
    [] OTHER -> s

(* parse_policy: what stands after the last parenthesis is not read, and   *)
(* there is no policy when the text ends before it.                        *)
Reading(text) ==
  LET After[i \in 0 .. Len(text)] == IF i = 0 THEN Opened ELSE Read(After[i - 1], text[i])
  IN  After[Len(text)]
Parsed(text) == LET end == Reading(text) IN IF end.at = "done" THEN end.policy ELSE Unreadable

-----------------------------------------------------------------------------
(* What a policy demands.                                                  *)
(*                                                                         *)
(* A demand is an instruction of the engine: a tier, a limit on something  *)
(* counted, or an entry of the log, at every step or only before Halt, and *)
(* the fragments of the reason it is denied with.                          *)

Unsigned(n) == n % Word

LeastTier(n) == [kind |-> "tier", least |-> n]

(* An unset limit limits nothing and is not compiled. *)
LimitOn(p, what) == [kind |-> "limit", of |-> what, most |-> p.limits[what]]

Entry(always, fragments, says) ==
  [kind |-> "entry", always |-> always, fragments |-> fragments, says |-> says]

HintText(file, line, column, bound) == <<"hint", file, line, column, bound>>

(* The text of a hint, as load_program logs it and the engine expects it;  *)
(* as the bytecode prints it, with unsigned numbers and 0 for no bound.    *)
Printed(h) == HintText(h.file, h.line, h.column, IF h.infinite THEN Infinite ELSE h.bound)
PrintedUnsigned(h) ==
  HintText(h.file, Unsigned(h.line), Unsigned(h.column),
           IF h.infinite THEN Infinite ELSE IF h.bound = Unset THEN 0 ELSE Unsigned(h.bound))

LoopEntry(text) == Entry(TRUE, {text}, {<<"phrase", "Missing loop hint trace">>, text})

GuardNames(g) ==
  {<<"enum", g.enum>>, <<"variant", g.variant>>}
    \cup (IF g.payload = Unset THEN {} ELSE {<<"payload", g.payload>>})
GuardEntry(g, says) ==
  Entry(FALSE, GuardNames(g) \cup {<<"phrase", "enum guard">>, <<"match", g.result>>}, says)

SegmentNames(r) ==
  {<<"phrase", r.action>>, <<"segment", r.segment>>}
    \cup (IF r.addr = Unset THEN {} ELSE {<<"addr", r.addr>>})
SegmentEntry(r, says) == Entry(FALSE, SegmentNames(r), says)

EventEntry(r) == LET said == {<<"phrase", r.reason>>} IN Entry(FALSE, said, said)
AlignmentEntry(r) ==
  LET said == {<<"phrase", "alignment">>, <<"phrase", r.reason>>} IN Entry(FALSE, said, said)

(* The interpreted form: the demands in the order of evaluate_internal.    *)
(* Nothing asks for the tier.                                              *)
Limited(p) ==
  <<LimitOn(p, "max-instructions"), LimitOn(p, "max-recursion"), LimitOn(p, "max-stack"),
    LimitOn(p, "max-reflections"), LimitOn(p, "max-meta-writes")>>
Hinted(p) == [i \in DOMAIN p.loops |-> LoopEntry(Printed(p.loops[i]))]
Required(p) ==
  [i \in DOMAIN p.guards |-> GuardEntry(p.guards[i], GuardNames(p.guards[i]))]
    \o [i \in DOMAIN p.segments |-> SegmentEntry(p.segments[i], SegmentNames(p.segments[i]))]
    \o [i \in DOMAIN p.events |-> EventEntry(p.events[i])]
    \o [i \in DOMAIN p.alignments |-> AlignmentEntry(p.alignments[i])]

(* The compiled form (compile_to_bytecode): the tier first, then the       *)
(* limits in another order.  Its indices into the symbol table stand for   *)
(* the names they lead to.                                                 *)
CompiledLimitsNoReflections(p) ==
  <<LimitOn(p, "max-instructions"), LimitOn(p, "max-stack"), LimitOn(p, "max-recursion"),
    LimitOn(p, "max-meta-writes")>>
CompiledLimits(p) ==
  <<LimitOn(p, "max-instructions"), LimitOn(p, "max-stack"), LimitOn(p, "max-recursion"),
    LimitOn(p, "max-reflections"), LimitOn(p, "max-meta-writes")>>
CompiledHints(p) == [i \in DOMAIN p.loops |-> LoopEntry(PrintedUnsigned(p.loops[i]))]
CompiledRequired(p) ==
  [i \in DOMAIN p.guards |-> GuardEntry(p.guards[i], {})]
    \o [i \in DOMAIN p.segments |-> SegmentEntry(p.segments[i], {})]
    \o [i \in DOMAIN p.events |-> EventEntry(p.events[i])]
    \o [i \in DOMAIN p.alignments |-> AlignmentEntry(p.alignments[i])]
Compiled(p) ==
  <<LeastTier(p.tier)>> \o CompiledLimits(p) \o CompiledHints(p) \o CompiledRequired(p)

-----------------------------------------------------------------------------
(* The log *)

Occurs(f, reason) == f \in reason \/ \E g \in reason : <<f, g>> \in Within

(* One reason must hold all the fragments of an entry. *)
Answers(reason, fragments) == \A f \in fragments : Occurs(f, reason)

(* The searches of a policy, in either form, that a reason answers. *)
Searches(p) ==
  {d.fragments : d \in Range(Hinted(p) \o CompiledHints(p) \o Required(p))}

-----------------------------------------------------------------------------
(* The engine.                                                             *)
(*                                                                         *)
(* A context holds the opcode op about to run, the payload, the counters   *)
(* used, the current tier, and the searches that the log answers.          *)

FailsTwoBeyond(d, ctx) ==
  \/ d.kind = "tier" /\ Unsigned(ctx.tier) < Unsigned(d.least)
  \/ d.kind = "limit" /\ d.most # Unset /\ ctx.used[d.of] > Unsigned(d.most) + 1
  \/ d.kind = "entry" /\ (d.always \/ ctx.op = "Halt") /\ d.fragments \notin ctx.answered

FailsWithoutEntries(d, ctx) ==
  \/ d.kind = "tier" /\ Unsigned(ctx.tier) < Unsigned(d.least)
  \/ d.kind = "limit" /\ d.most # Unset /\ ctx.used[d.of] > Unsigned(d.most)
  \/ d.kind = "entry" /\ d.always /\ d.fragments \notin ctx.answered

Fails(d, ctx) ==
  \/ d.kind = "tier" /\ Unsigned(ctx.tier) < Unsigned(d.least)
  \/ d.kind = "limit" /\ d.most # Unset /\ ctx.used[d.of] > Unsigned(d.most)
  \/ d.kind = "entry" /\ (d.always \/ ctx.op = "Halt") /\ d.fragments \notin ctx.answered

(* make_policy_engine: the policy with what it demands. *)
Engine(p) ==
  [policy |-> p, limits |-> Limited(p), hints |-> Hinted(p), required |-> Required(p),
   searches |-> Searches(p)]
Demands(e) == e.limits \o e.hints \o e.required
Answered(e, reason) == {fragments \in e.searches : Answers(reason, fragments)}

Allow == [kind |-> "Allow", reason |-> {}]
Deny(reason) == [kind |-> "Deny", reason |-> reason]
Warn(reason) == [kind |-> "Warn", reason |-> reason]

Says(d) == IF d.kind = "entry" THEN d.says ELSE {<<"phrase", d.kind>>}

(* The first demand that fails is the reason of a denial. *)
Judged(code, ctx) ==
  LET failing == {i \in DOMAIN code : Fails(code[i], ctx)}
  IN  IF failing = {} THEN Allow
      ELSE Deny(Says(code[CHOOSE i \in failing : \A j \in failing : i <= j]))

(* Hints once found stay found, whatever log the next context brings. *)
Recalling(ctx, memo) == [ctx EXCEPT !.answered = @ \cup memo]

(* TLoadHash asks twice: before it is dispatched, without a payload, and   *)
(* then with the hash it is to load.                                       *)
HashDenied(p, ctx) ==
  /\ ctx.op = "TLoadHash"
  /\ p.hashes = <<>> \/ (ctx.payload # Unset /\ ctx.payload \notin Range(p.hashes))

(* evaluate_internal *)
Interpreted(e, ctx, memo) ==
  IF HashDenied(e.policy, ctx) THEN Deny({<<"phrase", "TLOADHASH">>})
  ELSE IF e.policy.bytecode # <<>> THEN Judged(e.policy.bytecode, ctx)
  ELSE Judged(Demands(e), Recalling(ctx, memo))

(* check_ethics: of the nine principles three can answer anything but      *)
(* allow, and Theta-9 only where there is no policy.                       *)
EthicsWarns(deep) == deep > WarnDepth
EthicsDenies(deep) == deep >= Ceiling

EthicsWarning == {<<"phrase", "Theta-4">>}

(* evaluate: ethics before policy, and a warning only where that allows.   *)
Verdict(e, ctx, memo) ==
  LET v == Interpreted(e, ctx, memo)
      deep == ctx.used["max-recursion"]
  IN  IF EthicsDenies(deep) THEN Deny({<<"phrase", "recursion ceiling exceeded">>})
      ELSE IF v = Allow /\ EthicsWarns(deep) THEN Warn(EthicsWarning)
      ELSE v

(* The hints that this finds: none when it stops before them, else those   *)
(* up to the first it misses.                                              *)
Learned(e, ctx, memo) ==
  LET known == ctx.answered \cup memo
      found == {i \in DOMAIN e.hints : \A j \in 1 .. i : e.hints[j].fragments \in known}
      stopped == \/ EthicsDenies(ctx.used["max-recursion"])
                 \/ HashDenied(e.policy, ctx) \/ e.policy.bytecode # <<>>
                 \/ \E i \in DOMAIN e.limits : Fails(e.limits[i], ctx)
  IN  memo \cup {e.hints[i].fragments : i \in IF stopped THEN {} ELSE found}

-----------------------------------------------------------------------------
(* The stored form (Policy::serialize and deserialize): a sequence of      *)
(* tagged fields.  Half of the limits have no tag.                         *)

Field(tag, value) == [tag |-> tag, value |-> value]

(* A hint without a bound is stored with 0, and read as bound by 0. *)
StoredHint(h) ==
  [h EXCEPT !.bound = IF h.infinite THEN Unset ELSE IF h.bound = Unset THEN 0 ELSE h.bound]

StoredItem(list, item) == IF list = "loops" THEN StoredHint(item) ELSE item

StoredLimit(p, what) ==
  IF p.limits[what] = Unset THEN <<>> ELSE <<Field(what, p.limits[what])>>
StoredList(p, list) == [i \in DOMAIN p[list] |-> Field(list, StoredItem(list, p[list][i]))]

Serialized(p) ==
  <<Field("tier", p.tier)>>
    \o StoredLimit(p, "max-stack") \o StoredLimit(p, "max-instructions") \o StoredLimit(p, "max-recursion")
    \o StoredLimit(p, "max-reflections") \o StoredLimit(p, "max-meta-writes")
    \o StoredList(p, "hashes") \o StoredList(p, "loops") \o StoredList(p, "guards")
    \o StoredList(p, "segments") \o StoredList(p, "events") \o StoredList(p, "alignments")
    \o StoredList(p, "bytecode")

Restore(p, field) ==
  CASE field.tag = "tier" -> [p EXCEPT !.tier = field.value]
    [] field.tag \in Limits -> [p EXCEPT !.limits[field.tag] = field.value]
    [] OTHER -> [p EXCEPT ![field.tag] = Append(@, field.value)]

Restored(first, fields) ==
  LET After[i \in 0 .. Len(fields)] == IF i = 0 THEN first ELSE Restore(After[i - 1], fields[i])
  IN  After[Len(fields)]
Deserialized(fields) == Restored(Blank, fields)
=============================================================================
