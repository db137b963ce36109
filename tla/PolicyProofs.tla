---------------------------- MODULE PolicyProofs ----------------------------
(***************************************************************************)
(* Proofs about Axion policies, for every text and every program: what the *)
(* reader makes of a text is a policy; its compiled form denies what the   *)
(* policy denies; a governed machine is a machine of VmCalls, so that what *)
(* VmCallsProofs shows holds of it; it stays within its policy, and halts  *)
(* only when nothing is missing that it was not denied for before.         *)
(***************************************************************************)
EXTENDS Governed, VmCallsProofs, Induction

-----------------------------------------------------------------------------
(* The reader *)

(* What is in the making inside a clause. *)
Requirements(key) ==
  CASE key = "loop" -> Loops
    [] key = "require-match-guard" -> GuardRequirements
    [] key = "require-segment-event" -> SegmentRequirements
    [] OTHER -> ReasonRequirements
AnyRequirement == Loops \cup GuardRequirements \cup SegmentRequirements \cup ReasonRequirements

Places ==
  {"start", "root", "body", "done", "key", "number", "close", "bracket", "hashes", "fields", "field",
   "value", "closing", "error"}
Keys == Limits \cup {"tier", ""} \cup ClauseKeys

Readers ==
  {s \in [at : Places, policy : TextPolicies, key : Keys, req : AnyRequirement \cup {Unset}, field : Texts] :
     /\ s.at = "number" => s.key \in Limits \cup {"tier"}
     /\ s.at \in {"fields", "field", "value", "closing"} =>
          s.key \in ClauseKeys /\ s.req \in Requirements(s.key)}

LEMMA BlankClauses ==
  ASSUME NEW key \in ClauseKeys
  PROVE  Clause(key).blank \in Requirements(key)
<1>1. BlankLoop \in Loops
  <2>1. 0 \in Int
    OBVIOUS
  <2>2. "" \in Texts
    BY TextAssumption
  <2>3. FALSE \in BOOLEAN /\ Unset \in Int \cup {Unset}
    BY Zenon
  <2> QED
    BY <2>1, <2>2, <2>3, Zenon DEF BlankLoop, Loops
<1>2. BlankGuard \in GuardRequirements
  BY TextAssumption DEF BlankGuard, GuardRequirements
<1>3. BlankSegment \in SegmentRequirements
  BY TextAssumption DEF BlankSegment, SegmentRequirements
<1>4. BlankReason \in ReasonRequirements
  BY TextAssumption DEF BlankReason, ReasonRequirements
<1>5. CASE key = "loop"
  BY <1>1, <1>5 DEF Requirements, Clause
<1>6. CASE key = "require-match-guard"
  BY <1>2, <1>6 DEF Requirements, Clause
<1>7. CASE key = "require-segment-event"
  BY <1>3, <1>7 DEF Requirements, Clause
<1>8. CASE key = "require-axion-event"
  BY <1>4, <1>8 DEF Requirements, Clause
<1>9. CASE key = "require-alignment"
  BY <1>4, <1>9 DEF Requirements, Clause
<1> QED
  BY <1>5, <1>6, <1>7, <1>8, <1>9 DEF ClauseKeys

LEMMA TokenHas ==
  ASSUME NEW token \in Tokens
  PROVE  /\ token.kind = "Integer" => token.value \in Int
         /\ token.kind \in {"Symbol", "String"} => token.text \in Texts
BY DEF Tokens

LEMMA OpenedReads == Opened \in Readers
<1>1. Blank \in TextPolicies
  BY EmptySeq DEF Blank, TextPolicies
<1> QED
  BY <1>1, TextAssumption DEF Opened, Readers, Places, Keys

LEMMA LoopFieldReads ==
  ASSUME NEW hint \in Loops, NEW field \in Texts, NEW token \in Tokens
  PROVE  LoopField(hint, field, token) \in Loops \cup {Unset}
<1>1. CASE field \in {"id", "line", "column", "depth"} /\ token.kind = "Integer"
  BY <1>1, TokenHas DEF LoopField, Loops
<1>2. CASE field = "file" /\ IsName(token)
  BY <1>2, TokenHas DEF LoopField, Loops, IsName
<1>3. CASE field = "annotated" /\ IsName(token)
  BY <1>3, TokenHas DEF LoopField, Loops, IsName
<1>4. CASE field = "bound" /\ token.kind = "Symbol" /\ token.text = "infinite"
  BY <1>4, TokenHas DEF LoopField, Loops, IsName
<1>5. CASE field = "bound" /\ token.kind = "Integer"
  BY <1>5, TokenHas DEF LoopField, Loops, IsName
<1> QED
  BY <1>1, <1>2, <1>3, <1>4, <1>5 DEF LoopField

LEMMA RequirementFieldReads ==
  ASSUME NEW key \in ClauseKeys, key # "loop", NEW req \in Requirements(key),
         NEW field \in Texts, NEW token \in Tokens
  PROVE  RequirementField(req, field, token) \in Requirements(key) \cup {Unset}
<1>1. CASE key = "require-match-guard"
  BY <1>1, TokenHas DEF RequirementField, Requirements, GuardRequirements, IsName
<1>2. CASE key = "require-segment-event"
  BY <1>2, TokenHas DEF RequirementField, Requirements, SegmentRequirements, IsName
<1>3. CASE key \in {"require-axion-event", "require-alignment"}
  BY <1>3, TokenHas DEF RequirementField, Requirements, ReasonRequirements, IsName
<1> QED
  BY <1>1, <1>2, <1>3 DEF ClauseKeys

(* What is known of a reader outside the clauses.                          *)
LEMMA ReaderHas ==
  ASSUME NEW s \in Readers
  PROVE  /\ s.at \in Places /\ s.policy \in TextPolicies /\ s.key \in Keys
         /\ s.req \in AnyRequirement \cup {Unset} /\ s.field \in Texts
         /\ s = [at |-> s.at, policy |-> s.policy, key |-> s.key, req |-> s.req, field |-> s.field]
BY DEF Readers

LEMMA MovedReads ==
  ASSUME NEW s \in Readers, NEW at \in Places \ {"number", "fields", "field", "value", "closing"}
  PROVE  [s EXCEPT !.at = at] \in Readers
BY ReaderHas DEF Readers

LEMMA FailedReads ==
  ASSUME NEW s \in Readers
  PROVE  Failed(s) \in Readers
BY MovedReads DEF Failed, Places

LEMMA ExpectReads ==
  ASSUME NEW s \in Readers, NEW token, NEW kind,
         NEW next \in Places \ {"number", "fields", "field", "value", "closing"}
  PROVE  Expect(s, token, kind, next) \in Readers
BY MovedReads, FailedReads DEF Expect

LEMMA ReadKeyReads ==
  ASSUME NEW s \in Readers, NEW token \in Tokens
  PROVE  ReadKey(s, token) \in Readers
<1>1. CASE token.kind # "Symbol"
  <2>1. ReadKey(s, token) = Failed(s)
    BY <1>1, Zenon DEF ReadKey
  <2> QED
    BY <2>1, FailedReads
<1>2. CASE token.kind = "Symbol" /\ token.text \in Limits \cup {"tier"}
  <2>1. ReadKey(s, token) = [s EXCEPT !.at = "number", !.key = token.text]
    <3>1. token.text # "allowed-tensor-hashes" /\ token.text \notin ClauseKeys
      BY <1>2 DEF Limits, ClauseKeys
    <3> QED
      BY <1>2, <3>1, Zenon DEF ReadKey
  <2> QED
    BY <1>2, <2>1, ReaderHas DEF Readers, Places, Keys
<1>3. CASE token.kind = "Symbol" /\ token.text = "allowed-tensor-hashes"
  <2>1. ReadKey(s, token) = [s EXCEPT !.at = "bracket"]
    <3>1. token.text \notin Limits \cup {"tier"} /\ token.text \notin ClauseKeys
      BY <1>3 DEF Limits, ClauseKeys
    <3> QED
      BY <1>3, <3>1, Zenon DEF ReadKey
  <2> QED
    BY <2>1, MovedReads DEF Places
<1>4. CASE token.kind = "Symbol" /\ token.text \in ClauseKeys
  <2> DEFINE key == token.text
             blank == Clause(key).blank
  <2>1. ReadKey(s, token) = [s EXCEPT !.at = "fields", !.key = key, !.req = blank]
    <3>1. token.text \notin Limits \cup {"tier"} /\ token.text # "allowed-tensor-hashes"
      BY <1>4 DEF Limits, ClauseKeys
    <3> QED
      BY <1>4, <3>1, Zenon DEF ReadKey
  <2>2. key \in ClauseKeys /\ blank \in Requirements(key)
    BY <1>4, BlankClauses
  <2> HIDE DEF key, blank
  <2>3. blank \in AnyRequirement
    BY <2>2 DEF AnyRequirement, Requirements
  <2>4. /\ s.policy \in TextPolicies /\ s.field \in Texts
        /\ s = [at |-> s.at, policy |-> s.policy, key |-> s.key, req |-> s.req, field |-> s.field]
    BY ReaderHas
  <2>5. ReadKey(s, token) = [at |-> "fields", policy |-> s.policy, key |-> key, req |-> blank, field |-> s.field]
    BY <2>1, <2>4
  <2>6. [at |-> "fields", policy |-> s.policy, key |-> key, req |-> blank, field |-> s.field] \in Readers
    BY <2>2, <2>3, <2>4 DEF Readers, Places, Keys
  <2> QED
    BY <2>5, <2>6
<1>5. CASE token.kind = "Symbol" /\ token.text \notin Limits \cup {"tier", "allowed-tensor-hashes"} \cup ClauseKeys
  <2>1. ReadKey(s, token) = Failed(s)
    BY <1>5, Zenon DEF ReadKey
  <2> QED
    BY <2>1, FailedReads
<1> QED
  BY <1>1, <1>2, <1>3, <1>4, <1>5

LEMMA ReadNumberReads ==
  ASSUME NEW s \in Readers, s.at = "number", NEW token \in Tokens
  PROVE  ReadNumber(s, token) \in Readers
<1>1. CASE token.kind # "Integer"
  <2>1. ReadNumber(s, token) = Failed(s)
    BY <1>1, Zenon DEF ReadNumber
  <2> QED
    BY <2>1, FailedReads
<1>2. CASE token.kind = "Integer"
  <2> DEFINE p == IF s.key = "tier" THEN [s.policy EXCEPT !.tier = token.value]
                  ELSE [s.policy EXCEPT !.limits[s.key] = token.value]
  <2>1. token.value \in Int /\ s.key \in Limits \cup {"tier"} /\ s.policy \in TextPolicies
    BY <1>2, TokenHas, ReaderHas DEF Readers
  <2>2. p \in TextPolicies
    BY <2>1 DEF TextPolicies
  <2>3. ReadNumber(s, token) = [s EXCEPT !.at = "close", !.policy = p]
    BY <1>2, ReaderHas DEF ReadNumber
  <2> HIDE DEF p
  <2> QED
    BY <2>2, <2>3, ReaderHas DEF Readers, Places
<1> QED
  BY <1>1, <1>2

LEMMA ReadHashReads ==
  ASSUME NEW s \in Readers, NEW token \in Tokens
  PROVE  ReadHash(s, token) \in Readers
<1>1. CASE token.kind = "RBracket"
  BY <1>1, MovedReads DEF ReadHash, Places
<1>2. CASE token.kind = "String"
  <2> DEFINE p == [s.policy EXCEPT !.hashes = Append(s.policy.hashes, token.text)]
  <2>1. token.text \in Texts /\ s.policy \in TextPolicies
    BY <1>2, TokenHas, ReaderHas
  <2>2. p \in TextPolicies
    <3>1. Append(s.policy.hashes, token.text) \in Seq(Texts)
      BY <2>1, AppendProperties DEF TextPolicies
    <3> QED
      BY <2>1, <3>1 DEF TextPolicies
  <2>3. ReadHash(s, token) = [s EXCEPT !.policy = p]
    BY <1>2, ReaderHas DEF ReadHash
  <2> HIDE DEF p
  <2> QED
    BY <2>2, <2>3, ReaderHas DEF Readers
<1>3. CASE token.kind \notin {"RBracket", "String"}
  BY <1>3, FailedReads DEF ReadHash
<1> QED
  BY <1>1, <1>2, <1>3

(* A requirement goes to the list of its kind.                             *)
LEMMA ListedReads ==
  ASSUME NEW p \in TextPolicies, NEW key \in ClauseKeys, NEW req \in Requirements(key)
  PROVE  [p EXCEPT ![Clause(key).list] = Append(p[Clause(key).list], req)] \in TextPolicies
<1>1. CASE key = "loop"
  <2>1. Clause(key).list = "loops" /\ req \in Loops
    BY <1>1 DEF Clause, Requirements
  <2>2. Append(p.loops, req) \in Seq(Loops)
    BY <2>1, AppendProperties DEF TextPolicies
  <2> QED
    BY <2>1, <2>2 DEF TextPolicies
<1>2. CASE key = "require-match-guard"
  <2>1. Clause(key).list = "guards" /\ req \in GuardRequirements
    BY <1>2 DEF Clause, Requirements
  <2>2. Append(p.guards, req) \in Seq(GuardRequirements)
    BY <2>1, AppendProperties DEF TextPolicies
  <2> QED
    BY <2>1, <2>2 DEF TextPolicies
<1>3. CASE key = "require-segment-event"
  <2>1. Clause(key).list = "segments" /\ req \in SegmentRequirements
    BY <1>3 DEF Clause, Requirements
  <2>2. Append(p.segments, req) \in Seq(SegmentRequirements)
    BY <2>1, AppendProperties DEF TextPolicies
  <2> QED
    BY <2>1, <2>2 DEF TextPolicies
<1>4. CASE key = "require-axion-event"
  <2>1. Clause(key).list = "events" /\ req \in ReasonRequirements
    BY <1>4 DEF Clause, Requirements
  <2>2. Append(p.events, req) \in Seq(ReasonRequirements)
    BY <2>1, AppendProperties DEF TextPolicies
  <2> QED
    BY <2>1, <2>2 DEF TextPolicies
<1>5. CASE key = "require-alignment"
  <2>1. Clause(key).list = "alignments" /\ req \in ReasonRequirements
    BY <1>5 DEF Clause, Requirements
  <2>2. Append(p.alignments, req) \in Seq(ReasonRequirements)
    BY <2>1, AppendProperties DEF TextPolicies
  <2> QED
    BY <2>1, <2>2 DEF TextPolicies
<1> QED
  BY <1>1, <1>2, <1>3, <1>4, <1>5 DEF ClauseKeys

LEMMA ReadFieldsReads ==
  ASSUME NEW s \in Readers, s.at = "fields", NEW token \in Tokens
  PROVE  ReadFields(s, token) \in Readers
<1>1. s.key \in ClauseKeys /\ s.req \in Requirements(s.key)
  BY DEF Readers
<1>2. CASE token.kind = "LParen"
  <2>1. ReadFields(s, token) = [s EXCEPT !.at = "field"]
    BY <1>2 DEF ReadFields
  <2> QED
    BY <1>1, <2>1, ReaderHas DEF Readers, Places
<1>3. CASE token.kind = "RParen" /\ Complete(s.key, s.req)
  <2> DEFINE list == Clause(s.key).list
             p == [s.policy EXCEPT ![list] = Append(s.policy[list], s.req)]
  <2>1. ReadFields(s, token) = [s EXCEPT !.at = "body", !.policy = p]
    BY <1>3, ReaderHas DEF ReadFields
  <2>2. p \in TextPolicies
    BY <1>1, ReaderHas, ListedReads
  <2> HIDE DEF p
  <2> QED
    BY <2>1, <2>2, ReaderHas DEF Readers, Places
<1>4. CASE token.kind # "LParen" /\ ~(token.kind = "RParen" /\ Complete(s.key, s.req))
  BY <1>4, FailedReads DEF ReadFields
<1> QED
  BY <1>2, <1>3, <1>4

LEMMA ReadValueReads ==
  ASSUME NEW s \in Readers, s.at = "value", NEW token \in Tokens
  PROVE  ReadValue(s, token) \in Readers
<1> DEFINE req == IF s.key = "loop" THEN LoopField(s.req, s.field, token)
                  ELSE RequirementField(s.req, s.field, token)
<1>1. s.key \in ClauseKeys /\ s.req \in Requirements(s.key) /\ s.field \in Texts
  BY DEF Readers
<1>2. req \in Requirements(s.key) \cup {Unset}
  <2>1. CASE s.key = "loop"
    <3>1. s.req \in Loops /\ Requirements(s.key) = Loops
      BY <1>1, <2>1 DEF Requirements
    <3> QED
      BY <1>1, <2>1, <3>1, LoopFieldReads
  <2>2. CASE s.key # "loop"
    BY <1>1, <2>2, RequirementFieldReads
  <2> QED
    BY <2>1, <2>2
<1>3. ReadValue(s, token) = IF token.kind = "End" \/ req = Unset THEN Failed(s)
                            ELSE [s EXCEPT !.at = "closing", !.req = req]
  BY Zenon DEF ReadValue
<1> HIDE DEF req
<1>4. CASE req \in Requirements(s.key)
  <2>1. req \in AnyRequirement
    BY <1>1, <1>4 DEF AnyRequirement, Requirements
  <2>2. [s EXCEPT !.at = "closing", !.req = req] \in Readers
    BY <1>1, <1>4, <2>1, ReaderHas DEF Readers, Places
  <2> QED
    BY <1>3, <2>2, FailedReads
<1> QED
  BY <1>2, <1>3, <1>4, FailedReads

(* A token leaves a reader that makes sense one that does.                 *)
LEMMA ReadReads ==
  ASSUME NEW s \in Readers, NEW token \in Tokens
  PROVE  Read(s, token) \in Readers
<1>1. CASE s.at = "start"
  BY <1>1, ExpectReads DEF Read, Places
<1>2. CASE s.at = "root"
  <2>1. Read(s, token) \in {[s EXCEPT !.at = "body"], Failed(s)}
    BY <1>2 DEF Read
  <2> QED
    BY <2>1, MovedReads, FailedReads DEF Places
<1>3. CASE s.at = "body"
  <2>1. Read(s, token) \in {[s EXCEPT !.at = "done"], Expect(s, token, "LParen", "key")}
    BY <1>3 DEF Read
  <2> QED
    BY <2>1, MovedReads, ExpectReads DEF Places
<1>4. CASE s.at = "key"
  BY <1>4, ReadKeyReads DEF Read
<1>5. CASE s.at = "number"
  BY <1>5, ReadNumberReads DEF Read
<1>6. CASE s.at = "close"
  BY <1>6, ExpectReads DEF Read, Places
<1>7. CASE s.at = "bracket"
  BY <1>7, ExpectReads DEF Read, Places
<1>8. CASE s.at = "hashes"
  BY <1>8, ReadHashReads DEF Read
<1>9. CASE s.at = "fields"
  BY <1>9, ReadFieldsReads DEF Read
<1>10. CASE s.at = "field"
  <2>1. CASE token.kind = "Symbol"
    <3>1. Read(s, token) = [s EXCEPT !.at = "value", !.field = token.text]
      BY <1>10, <2>1 DEF Read
    <3>2. s.key \in ClauseKeys /\ s.req \in Requirements(s.key) /\ token.text \in Texts
      BY <1>10, <2>1, TokenHas DEF Readers
    <3> QED
      BY <3>1, <3>2, ReaderHas DEF Readers, Places
  <2>2. CASE token.kind # "Symbol"
    BY <1>10, <2>2, FailedReads DEF Read
  <2> QED
    BY <2>1, <2>2
<1>11. CASE s.at = "value"
  BY <1>11, ReadValueReads DEF Read
<1>12. CASE s.at = "closing"
  <2>1. Read(s, token) \in {[s EXCEPT !.at = "fields"], Failed(s)}
    BY <1>12 DEF Read, Expect
  <2>2. s.key \in ClauseKeys /\ s.req \in Requirements(s.key)
    BY <1>12 DEF Readers
  <2>3. [s EXCEPT !.at = "fields"] \in Readers
    BY <2>2, ReaderHas DEF Readers, Places
  <2> QED
    BY <2>1, <2>3, FailedReads
<1>13. CASE s.at \in {"done", "error"}
  BY <1>13 DEF Read
<1> QED
  BY <1>1, <1>2, <1>3, <1>4, <1>5, <1>6, <1>7, <1>8, <1>9, <1>10, <1>11, <1>12, <1>13, ReaderHas DEF Places

(* What the reader makes of a text is a policy: every number is an integer *)
(* or left out, every list holds requirements of its kind, and no bytecode *)
(* comes out of a text.                                                    *)
THEOREM TextsReadPolicies ==
  ASSUME NEW text \in Seq(Tokens)
  PROVE  Parsed(text) \in TextPolicies \cup {Unreadable}
<1> DEFINE N == Len(text)
           step == [q \in (1 .. N) \X Readers |-> Read(q[2], text[q[1]])]
           Body(g) == [i \in 0 .. N |-> IF i = 0 THEN Opened ELSE Read(g[i - 1], text[i])]
           After == CHOOSE g : g = Body(g)
<1>1. N \in Nat /\ \A i \in 1 .. N : text[i] \in Tokens
  BY LenProperties
<1>2. StepsIn(step, N, Readers)
  BY <1>1, ReadReads DEF StepsIn
<1>3. Reading(text) = After[N]
  BY Zenon DEF Reading
<1> HIDE DEF N, step, Body, After
<1>4. PICK g : IsRun(g, Opened, step, N, Readers)
  BY <1>1, <1>2, OpenedReads, Iterates
<1>5. g = Body(g)
  <2>1. ASSUME NEW i \in 1 .. N
        PROVE  g[i] = Read(g[i - 1], text[i])
    <3>1. g[i] = step[<<i, g[i - 1]>>] /\ g[i - 1] \in Readers
      BY <1>1, <1>4 DEF IsRun
    <3> QED
      BY <3>1 DEF step
  <2>2. ASSUME NEW i \in 0 .. N
        PROVE  g[i] = IF i = 0 THEN Opened ELSE Read(g[i - 1], text[i])
    <3>1. i = 0 \/ i \in 1 .. N
      BY <1>1
    <3> QED
      BY <1>4, <2>1, <3>1 DEF IsRun
  <2>3. g = [i \in 0 .. N |-> g[i]]
    BY <1>4 DEF IsRun
  <2> QED
    BY <2>2, <2>3 DEF Body
<1>6. After = Body(After)
  BY <1>5 DEF After
<1>7. \A i \in 0 .. N : After[i] = IF i = 0 THEN Opened ELSE Read(After[i - 1], text[i])
  BY <1>6, Zenon DEF Body
<1>8. After[N] \in Readers
  <2> DEFINE Good == {i \in 0 .. N : After[i] \in Readers}
  <2>1. 0 \in Good
    BY <1>1, <1>7, OpenedReads
  <2>2. ASSUME NEW i \in 0 .. N - 1, i \in Good
        PROVE  i + 1 \in Good
    <3>1. i + 1 \in 1 .. N /\ i + 1 \in 0 .. N /\ i + 1 # 0 /\ i + 1 - 1 = i
      BY <1>1
    <3>2. After[i + 1] = Read(After[i], text[i + 1])
      BY <1>7, <3>1
    <3> QED
      BY <1>1, <2>2, <3>1, <3>2, ReadReads
  <2>3. \A i \in 0 .. N - 1 : i \in Good => i + 1 \in Good
    BY <2>2
  <2> HIDE DEF Good
  <2>4. 0 .. N \subseteq Good
    BY ONLY <1>1, <2>1, <2>3, UpTo
  <2> QED
    BY <1>1, <2>4 DEF Good
<1>9. After[N].policy \in TextPolicies
  BY <1>8, ReaderHas
<1> QED
  BY <1>3, <1>9 DEF Parsed

-----------------------------------------------------------------------------
(* What the engine asks for                                                *)

IsList(s) == s \in Seq(Range(s))

LEMMA Joined ==
  ASSUME NEW s, NEW t, IsList(s), IsList(t)
  PROVE  IsList(s \o t) /\ Range(s \o t) = Range(s) \cup Range(t)
<1> DEFINE S == Range(s) \cup Range(t)
<1>1. s \in Seq(S) /\ t \in Seq(S)
  BY SeqMonotonic DEF IsList
<1> HIDE DEF S
<1>2. s \o t \in Seq(S)
  BY <1>1, ConcatProperties
<1> QED
  BY <1>1, <1>2, SeqOfRange, RangeConcatenation DEF IsList

LEMMA OneToN ==
  ASSUME NEW n \in Nat, NEW f, f = [i \in 1 .. n |-> f[i]]
  PROVE  IsList(f)
<1>1. f \in [1 .. n -> Range(f)]
  BY DEF Range
<1> QED
  BY <1>1, SeqDef DEF IsList

LEMMA Singleton ==
  ASSUME NEW d
  PROVE  IsList(<<d>>) /\ Range(<<d>>) = {d}
<1>1. Range(<<d>>) = {d}
  BY DEF Range
<1> QED
  BY <1>1 DEF IsList

LEMMA FiveLimits ==
  ASSUME NEW a, NEW b, NEW c, NEW d, NEW e
  PROVE  IsList(<<a, b, c, d, e>>) /\ Range(<<a, b, c, d, e>>) = {a, b, c, d, e}
<1> DEFINE s == <<a, b, c, d, e>>
<1>1. DOMAIN s = {1, 2, 3, 4, 5} /\ s[1] = a /\ s[2] = b /\ s[3] = c /\ s[4] = d /\ s[5] = e
  OBVIOUS
<1>2. s \in Seq({a, b, c, d, e})
  OBVIOUS
<1> HIDE DEF s
<1>3. Range(s) = {a, b, c, d, e}
  BY <1>1 DEF Range
<1> QED
  BY <1>2, <1>3 DEF IsList, s

(* The verdict is a denial exactly when some demand fails.                 *)
LEMMA JudgedDenies ==
  ASSUME NEW code, NEW ctx
  PROVE  Judged(code, ctx).kind = "Deny" <=> \E d \in Range(code) : Fails(d, ctx)
<1> DEFINE failing == {i \in DOMAIN code : Fails(code[i], ctx)}
<1>1. Judged(code, ctx).kind = "Deny" <=> failing # {}
  BY DEF Judged, Allow, Deny
<1> QED
  BY <1>1 DEF Range

(* The parts of a policy that is made of a text are lists.                 *)
LEMMA PolicyLists ==
  ASSUME NEW p \in TextPolicies
  PROVE  /\ p.loops \in Seq(Loops) /\ p.guards \in Seq(GuardRequirements)
         /\ p.segments \in Seq(SegmentRequirements)
         /\ p.events \in Seq(ReasonRequirements) /\ p.alignments \in Seq(ReasonRequirements)
         /\ \E n \in Nat : DOMAIN p.loops = 1 .. n
         /\ \E n \in Nat : DOMAIN p.guards = 1 .. n
         /\ \E n \in Nat : DOMAIN p.segments = 1 .. n
         /\ \E n \in Nat : DOMAIN p.events = 1 .. n
         /\ \E n \in Nat : DOMAIN p.alignments = 1 .. n
         /\ \A what \in Limits : p.limits[what] \in Int \cup {Unset}
         /\ p.tier \in Int /\ p.bytecode = <<>>
<1>1. /\ p.loops \in Seq(Loops) /\ p.guards \in Seq(GuardRequirements)
      /\ p.segments \in Seq(SegmentRequirements)
      /\ p.events \in Seq(ReasonRequirements) /\ p.alignments \in Seq(ReasonRequirements)
  BY DEF TextPolicies
<1>2. /\ \A what \in Limits : p.limits[what] \in Int \cup {Unset}
      /\ p.tier \in Int /\ p.bytecode = <<>>
  BY DEF TextPolicies
<1> QED
  BY <1>1, <1>2, LenProperties

(* What is required before a halt, in either form.                         *)
Entries(p, guardSays(_), segmentSays(_)) ==
  {GuardEntry(g, guardSays(g)) : g \in Range(p.guards)}
    \cup {SegmentEntry(r, segmentSays(r)) : r \in Range(p.segments)}
    \cup {EventEntry(r) : r \in Range(p.events)}
    \cup {AlignmentEntry(r) : r \in Range(p.alignments)}
Nothing(x) == {}

LEMMA RequiredAre ==
  ASSUME NEW p \in TextPolicies
  PROVE  /\ IsList(Required(p)) /\ Range(Required(p)) = Entries(p, GuardNames, SegmentNames)
         /\ IsList(CompiledRequired(p)) /\ Range(CompiledRequired(p)) = Entries(p, Nothing, Nothing)
<1> DEFINE g1 == [i \in DOMAIN p.guards |-> GuardEntry(p.guards[i], GuardNames(p.guards[i]))]
           g2 == [i \in DOMAIN p.guards |-> GuardEntry(p.guards[i], {})]
           s1 == [i \in DOMAIN p.segments |-> SegmentEntry(p.segments[i], SegmentNames(p.segments[i]))]
           s2 == [i \in DOMAIN p.segments |-> SegmentEntry(p.segments[i], {})]
           e == [i \in DOMAIN p.events |-> EventEntry(p.events[i])]
           a == [i \in DOMAIN p.alignments |-> AlignmentEntry(p.alignments[i])]
<1>1. IsList(g1) /\ IsList(g2) /\ IsList(s1) /\ IsList(s2) /\ IsList(e) /\ IsList(a)
  BY PolicyLists, OneToN
<1>2. /\ Range(g1) = {GuardEntry(g, GuardNames(g)) : g \in Range(p.guards)}
      /\ Range(g2) = {GuardEntry(g, {}) : g \in Range(p.guards)}
      /\ Range(s1) = {SegmentEntry(r, SegmentNames(r)) : r \in Range(p.segments)}
      /\ Range(s2) = {SegmentEntry(r, {}) : r \in Range(p.segments)}
      /\ Range(e) = {EventEntry(r) : r \in Range(p.events)}
      /\ Range(a) = {AlignmentEntry(r) : r \in Range(p.alignments)}
  BY DEF Range
<1>3. Required(p) = g1 \o s1 \o e \o a /\ CompiledRequired(p) = g2 \o s2 \o e \o a
  BY Zenon DEF Required, CompiledRequired
<1> HIDE DEF g1, g2, s1, s2, e, a
<1>4. IsList(g1 \o s1 \o e \o a) /\ Range(g1 \o s1 \o e \o a) = Range(g1) \cup Range(s1) \cup Range(e) \cup Range(a)
  BY <1>1, Joined
<1>5. IsList(g2 \o s2 \o e \o a) /\ Range(g2 \o s2 \o e \o a) = Range(g2) \cup Range(s2) \cup Range(e) \cup Range(a)
  BY <1>1, Joined
<1> QED
  BY <1>2, <1>3, <1>4, <1>5 DEF Entries, Nothing

LEMMA HintsAre ==
  ASSUME NEW p \in TextPolicies
  PROVE  /\ IsList(Hinted(p)) /\ Range(Hinted(p)) = {LoopEntry(Printed(h)) : h \in Range(p.loops)}
         /\ IsList(CompiledHints(p))
         /\ Range(CompiledHints(p)) = {LoopEntry(PrintedUnsigned(h)) : h \in Range(p.loops)}
<1>1. Hinted(p) = [i \in DOMAIN p.loops |-> LoopEntry(Printed(p.loops[i]))]
  BY DEF Hinted
<1>2. CompiledHints(p) = [i \in DOMAIN p.loops |-> LoopEntry(PrintedUnsigned(p.loops[i]))]
  BY DEF CompiledHints
<1>3. IsList(Hinted(p)) /\ IsList(CompiledHints(p))
  BY <1>1, <1>2, PolicyLists, OneToN
<1> QED
  BY <1>1, <1>2, <1>3 DEF Range

LimitsOn(p) ==
  {LimitOn(p, what) : what \in {"max-instructions", "max-recursion", "max-stack", "max-reflections",
                                 "max-meta-writes"}}

LEMMA LimitsAre ==
  ASSUME NEW p
  PROVE  /\ IsList(Limited(p)) /\ Range(Limited(p)) = LimitsOn(p)
         /\ IsList(CompiledLimits(p)) /\ Range(CompiledLimits(p)) = LimitsOn(p)
<1> DEFINE i == LimitOn(p, "max-instructions")
           r == LimitOn(p, "max-recursion")
           s == LimitOn(p, "max-stack")
           f == LimitOn(p, "max-reflections")
           m == LimitOn(p, "max-meta-writes")
<1>1. Limited(p) = <<i, r, s, f, m>> /\ CompiledLimits(p) = <<i, s, r, f, m>>
  BY Zenon DEF Limited, CompiledLimits
<1>2. LimitsOn(p) = {i, r, s, f, m}
  BY DEF LimitsOn
<1> HIDE DEF i, r, s, f, m
<1>3. {i, r, s, f, m} = {i, s, r, f, m}
  OBVIOUS
<1> QED
  BY <1>1, <1>2, <1>3, FiveLimits

LEMMA DemandsAre ==
  ASSUME NEW p \in TextPolicies
  PROVE  /\ Range(Demands(Engine(p))) =
              LimitsOn(p) \cup Range(Hinted(p)) \cup Range(Required(p))
         /\ Range(Compiled(p)) =
              {LeastTier(p.tier)} \cup LimitsOn(p) \cup Range(CompiledHints(p)) \cup Range(CompiledRequired(p))
         /\ IsList(Compiled(p))
<1>1. Demands(Engine(p)) = Limited(p) \o Hinted(p) \o Required(p)
  BY DEF Demands, Engine
<1>2. Compiled(p) = <<LeastTier(p.tier)>> \o CompiledLimits(p) \o CompiledHints(p) \o CompiledRequired(p)
  BY DEF Compiled
<1>3. IsList(<<LeastTier(p.tier)>>) /\ Range(<<LeastTier(p.tier)>>) = {LeastTier(p.tier)}
  BY Singleton
<1>4. Range(Limited(p) \o Hinted(p) \o Required(p)) =
        Range(Limited(p)) \cup Range(Hinted(p)) \cup Range(Required(p))
  BY LimitsAre, HintsAre, RequiredAre, Joined
<1> DEFINE first == <<LeastTier(p.tier)>>
<1> HIDE DEF first
<1>6. IsList(first) => IsList(first \o CompiledLimits(p) \o CompiledHints(p) \o CompiledRequired(p))
  BY LimitsAre, HintsAre, RequiredAre, Joined
<1>5. IsList(first) => Range(first \o CompiledLimits(p) \o CompiledHints(p) \o CompiledRequired(p)) =
        Range(first) \cup Range(CompiledLimits(p)) \cup Range(CompiledHints(p)) \cup Range(CompiledRequired(p))
  BY LimitsAre, HintsAre, RequiredAre, Joined
<1> QED
  BY <1>1, <1>2, <1>3, <1>4, <1>5, <1>6, LimitsAre DEF first

(* An entry fails by its fragments, whatever it says.                      *)
LEMMA EntriesFail ==
  ASSUME NEW p, NEW ctx
  PROVE  (\E d \in Entries(p, GuardNames, SegmentNames) : Fails(d, ctx)) <=>
           (\E d \in Entries(p, Nothing, Nothing) : Fails(d, ctx))
<1>1. ASSUME NEW always, NEW fragments, NEW said, NEW says
      PROVE  Fails(Entry(always, fragments, said), ctx) <=> Fails(Entry(always, fragments, says), ctx)
  BY DEF Fails, Entry
<1>2. ASSUME NEW g, NEW said, NEW says
      PROVE  Fails(GuardEntry(g, said), ctx) <=> Fails(GuardEntry(g, says), ctx)
  BY <1>1 DEF GuardEntry
<1>3. ASSUME NEW r, NEW said, NEW says
      PROVE  Fails(SegmentEntry(r, said), ctx) <=> Fails(SegmentEntry(r, says), ctx)
  BY <1>1 DEF SegmentEntry
<1> QED
  BY <1>2, <1>3 DEF Entries

(* Plain hints are printed alike.                                          *)
LEMMA PlainPrinted ==
  ASSUME NEW p \in TextPolicies, PlainHints(p)
  PROVE  Range(CompiledHints(p)) = Range(Hinted(p))
<1>1. ASSUME NEW h \in Range(p.loops)
      PROVE  PrintedUnsigned(h) = Printed(h)
  <2>1. \A n \in 0 .. Word - 1 : Unsigned(n) = n
    BY WordAssumption DEF Unsigned
  <2>2. Unsigned(h.line) = h.line /\ Unsigned(h.column) = h.column
    BY <2>1 DEF PlainHints
  <2>3. h.infinite \/ (h.bound \in 0 .. Word - 1 /\ Unsigned(h.bound) = h.bound)
    BY <2>1 DEF PlainHints
  <2>4. CASE h.infinite
    BY <2>2, <2>4 DEF Printed, PrintedUnsigned
  <2>5. CASE ~h.infinite /\ h.bound # Unset
    BY <2>2, <2>3, <2>5 DEF Printed, PrintedUnsigned
  <2>6. CASE ~h.infinite /\ h.bound = Unset
    BY <2>2, <2>3, <2>6, UnsetAssumption DEF Printed, PrintedUnsigned
  <2> QED
    BY <2>4, <2>5, <2>6
<1> QED
  BY <1>1, HintsAre

(* The bytecode of a policy denies an instruction in the cases in which    *)
(* the text would, and when the tier is too low: whatever the order of the *)
(* limits, and though its indices say less about what was missing.         *)
THEOREM BytecodeDeniesAlike ==
  ASSUME NEW p \in TextPolicies, PlainHints(p), NEW ctx
  PROVE  Judged(Compiled(p), ctx).kind = "Deny" <=>
           Unsigned(ctx.tier) < Unsigned(p.tier) \/ Judged(Demands(Engine(p)), ctx).kind = "Deny"
<1>1. Fails(LeastTier(p.tier), ctx) <=> Unsigned(ctx.tier) < Unsigned(p.tier)
  BY DEF Fails, LeastTier
<1>2. Judged(Compiled(p), ctx).kind = "Deny" <=>
        \E d \in {LeastTier(p.tier)} \cup LimitsOn(p) \cup Range(Hinted(p)) \cup Entries(p, Nothing, Nothing) :
          Fails(d, ctx)
  BY JudgedDenies, DemandsAre, PlainPrinted, RequiredAre
<1>3. Judged(Demands(Engine(p)), ctx).kind = "Deny" <=>
        \E d \in LimitsOn(p) \cup Range(Hinted(p)) \cup Entries(p, GuardNames, SegmentNames) : Fails(d, ctx)
  BY JudgedDenies, DemandsAre, RequiredAre
<1> QED
  BY <1>1, <1>2, <1>3, EntriesFail

-----------------------------------------------------------------------------
(* The stored form                                                         *)

(* A run of the reader of fields.                                          *)
Restores(g, n, first, fields) ==
  /\ g[0] = first
  /\ \A i \in 1 .. n : g[i] = Restore(g[i - 1], fields[i])

LEMMA RestoresExists ==
  ASSUME NEW n \in Nat, NEW first, NEW fields
  PROVE  \E g : Restores(g, n, first, fields)
<1> DEFINE Done == {k \in 0 .. n : \E g : Restores(g, k, first, fields)}
<1>1. 0 \in Done
  <2> DEFINE h == [i \in 0 .. 0 |-> first]
  <2>1. Restores(h, 0, first, fields)
    BY DEF Restores
  <2> QED
    BY <2>1
<1>2. ASSUME NEW k \in 0 .. n - 1, k \in Done
      PROVE  k + 1 \in Done
  <2>1. PICK g : Restores(g, k, first, fields)
    BY <1>2
  <2> DEFINE h == [i \in 0 .. k + 1 |-> IF i = k + 1 THEN Restore(g[k], fields[k + 1]) ELSE g[i]]
  <2>2. h[0] = first
    BY <2>1 DEF Restores
  <2>3. ASSUME NEW i \in 1 .. k + 1
        PROVE  h[i] = Restore(h[i - 1], fields[i])
    <3>1. CASE i = k + 1
      BY <3>1
    <3>2. CASE i # k + 1
      <4>1. i \in 1 .. k /\ i - 1 \in 0 .. k /\ i - 1 # k + 1
        BY <3>2
      <4>2. h[i] = g[i] /\ h[i - 1] = g[i - 1]
        BY <4>1
      <4> QED
        BY <2>1, <4>1, <4>2 DEF Restores
    <3> QED
      BY <3>1, <3>2
  <2> HIDE DEF h
  <2>4. Restores(h, k + 1, first, fields)
    BY <2>2, <2>3 DEF Restores
  <2> QED
    BY <2>4
<1>3. \A k \in 0 .. n - 1 : k \in Done => k + 1 \in Done
  BY <1>2
<1> HIDE DEF Done
<1>4. 0 .. n \subseteq Done
  BY ONLY <1>1, <1>3, UpTo
<1> QED
  BY <1>4 DEF Done

LEMMA RestoresUnique ==
  ASSUME NEW n \in Nat, NEW first, NEW fields, NEW g, NEW h,
         Restores(g, n, first, fields), Restores(h, n, first, fields)
  PROVE  g[n] = h[n]
<1> DEFINE Same == {i \in 0 .. n : g[i] = h[i]}
<1>1. 0 \in Same
  BY DEF Restores
<1>2. \A i \in 0 .. n - 1 : i \in Same => i + 1 \in Same
  <2>1. ASSUME NEW i \in 0 .. n - 1, i \in Same
        PROVE  i + 1 \in Same
    <3>1. i + 1 \in 1 .. n /\ i + 1 \in 0 .. n /\ i + 1 - 1 = i
      OBVIOUS
    <3>2. g[i + 1] = Restore(g[i], fields[i + 1]) /\ h[i + 1] = Restore(h[i], fields[i + 1])
      BY <3>1 DEF Restores
    <3> QED
      BY <2>1, <3>1, <3>2
  <2> QED
    BY <2>1
<1> HIDE DEF Same
<1>3. 0 .. n \subseteq Same
  BY ONLY <1>1, <1>2, UpTo
<1> QED
  BY <1>3 DEF Same

LEMMA RestoredIs ==
  ASSUME NEW first, NEW fields, NEW n \in Nat, n = Len(fields), NEW g, Restores(g, n, first, fields)
  PROVE  Restored(first, fields) = g[n]
<1> DEFINE Body(f) == [i \in 0 .. n |-> IF i = 0 THEN first ELSE Restore(f[i - 1], fields[i])]
           After == CHOOSE f : f = Body(f)
<1>1. Restored(first, fields) = After[n]
  BY Zenon DEF Restored
<1> DEFINE r == [i \in 0 .. n |-> g[i]]
<1>2. r = Body(r)
  <2>1. ASSUME NEW i \in 0 .. n
        PROVE  g[i] = IF i = 0 THEN first ELSE Restore(r[i - 1], fields[i])
    <3>1. CASE i = 0
      BY <3>1 DEF Restores
    <3>2. CASE i # 0
      <4>1. i \in 1 .. n /\ i - 1 \in 0 .. n
        BY <3>2
      <4>2. r[i - 1] = g[i - 1]
        BY <4>1
      <4> HIDE DEF r
      <4> QED
        BY <3>2, <4>1, <4>2 DEF Restores
    <3> QED
      BY <3>1, <3>2
  <2> QED
    BY <2>1, Zenon
<1> HIDE DEF Body, After, r
<1>3. After = Body(After)
  BY <1>2 DEF After
<1>4. \A i \in 0 .. n : After[i] = IF i = 0 THEN first ELSE Restore(After[i - 1], fields[i])
  BY <1>3, Zenon DEF Body
<1>5. Restores(After, n, first, fields)
  BY <1>4 DEF Restores
<1>6. After[n] = g[n]
  BY <1>5, RestoresUnique
<1> QED
  BY <1>1, <1>6

(* One after the other.                                                    *)
LEMMA RestoredJoined ==
  ASSUME NEW first, NEW s, NEW t, IsList(s), IsList(t)
  PROVE  Restored(first, s \o t) = Restored(Restored(first, s), t)
<1> DEFINE m == Len(s)
           n == Len(t)
           mid == Restored(first, s)
<1>1. m \in Nat /\ n \in Nat
  BY LenProperties DEF IsList
<1>2. Len(s \o t) = m + n /\ \A i \in 1 .. m + n : (s \o t)[i] = IF i <= m THEN s[i] ELSE t[i - m]
  <2> DEFINE S == Range(s) \cup Range(t)
  <2>1. s \in Seq(S) /\ t \in Seq(S)
    BY SeqMonotonic DEF IsList
  <2> HIDE DEF S
  <2> QED
    BY <2>1, ConcatProperties
<1> HIDE DEF m, n, mid
<1>3. PICK g : Restores(g, m, first, s)
  BY <1>1, RestoresExists
<1>4. mid = g[m]
  BY <1>1, <1>3, RestoredIs DEF m, mid
<1>5. PICK h : Restores(h, n, mid, t)
  BY <1>1, RestoresExists
<1>6. Restored(mid, t) = h[n]
  BY <1>1, <1>5, RestoredIs DEF n
<1> DEFINE both == [i \in 0 .. m + n |-> IF i <= m THEN g[i] ELSE h[i - m]]
<1>7. Restores(both, m + n, first, s \o t)
  <2>1. both[0] = first
    BY <1>1, <1>3 DEF Restores
  <2>2. ASSUME NEW i \in 1 .. m + n
        PROVE  both[i] = Restore(both[i - 1], (s \o t)[i])
    <3>1. CASE i <= m
      <4>1. i \in 1 .. m /\ both[i] = g[i] /\ both[i - 1] = g[i - 1] /\ (s \o t)[i] = s[i]
        BY <1>1, <1>2, <3>1
      <4> HIDE DEF both
      <4> QED
        BY <1>3, <4>1 DEF Restores
    <3>2. CASE i = m + 1
      <4>1. both[i] = h[1] /\ both[i - 1] = g[m] /\ (s \o t)[i] = t[1] /\ 1 \in 1 .. n /\ 1 - 1 = 0
        BY <1>1, <1>2, <3>2
      <4> HIDE DEF both
      <4>2. h[1] = Restore(h[0], t[1]) /\ h[0] = g[m]
        BY <1>4, <1>5, <4>1 DEF Restores
      <4> QED
        BY <4>1, <4>2
    <3>3. CASE i > m + 1
      <4>1. /\ both[i] = h[i - m] /\ both[i - 1] = h[(i - m) - 1] /\ (s \o t)[i] = t[i - m]
            /\ i - m \in 1 .. n
        <5>1. i - m \in 1 .. n /\ (i - m) - 1 = (i - 1) - m /\ ~(i - 1 <= m) /\ ~(i <= m) /\ i - 1 \in 0 .. m + n
          BY <1>1, <3>3
        <5> QED
          BY <1>2, <5>1
      <4> HIDE DEF both
      <4> QED
        BY <1>5, <4>1 DEF Restores
    <3>4. i <= m \/ i = m + 1 \/ i > m + 1
      BY <1>1
    <3> HIDE DEF both
    <3> QED
      BY <3>1, <3>2, <3>3, <3>4
  <2> HIDE DEF both
  <2> QED
    BY <2>1, <2>2 DEF Restores
<1>8. both[m + n] = h[n]
  <2>1. CASE n = 0
    BY <1>1, <1>4, <1>5, <2>1 DEF Restores
  <2>2. CASE n # 0
    BY <1>1, <2>2
  <2> QED
    BY <2>1, <2>2
<1> HIDE DEF both
<1>9. Restored(first, s \o t) = both[m + n]
  <2>1. PICK k \in Nat : k = m + n
    BY <1>1
  <2>2. k = Len(s \o t) /\ Restores(both, k, first, s \o t)
    BY <1>2, <1>7, <2>1
  <2> DEFINE all == s \o t
  <2>3. k \in Nat /\ k = Len(all) /\ Restores(both, k, first, all)
    BY <2>2
  <2> HIDE DEF all
  <2>4. Restored(first, all) = both[k]
    BY ONLY <2>3, RestoredIs
  <2> QED
    BY <2>1, <2>4 DEF all
<1> QED
  BY <1>6, <1>8, <1>9 DEF mid

LEMMA RestoredFew ==
  ASSUME NEW q
  PROVE  /\ Restored(q, <<>>) = q
         /\ \A f : Restored(q, <<f>>) = Restore(q, f)
<1>1. Restored(q, <<>>) = q
  <2> DEFINE g == [i \in 0 .. 0 |-> q]
  <2>1. Restores(g, 0, q, <<>>) /\ g[0] = q
    BY DEF Restores
  <2>2. Len(<<>>) = 0
    BY EmptySeq
  <2> HIDE DEF g
  <2> QED
    BY <2>1, <2>2, RestoredIs
<1>2. ASSUME NEW f
      PROVE  Restored(q, <<f>>) = Restore(q, f)
  <2> DEFINE g == [i \in 0 .. 1 |-> IF i = 0 THEN q ELSE Restore(q, f)]
  <2>1. Restores(g, 1, q, <<f>>) /\ g[1] = Restore(q, f)
    BY DEF Restores
  <2>2. Len(<<f>>) = 1
    OBVIOUS
  <2> HIDE DEF g
  <2> QED
    BY <2>1, <2>2, RestoredIs
<1> QED
  BY <1>1, <1>2

Lists == {"hashes", "loops", "guards", "segments", "events", "alignments", "bytecode"}

Parts == Lists \cup {"tier", "limits"}
IsPolicy(q) == q = [x \in Parts |-> q[x]] /\ q.limits = [k \in Limits |-> q.limits[k]]

(* The fields of a list, read after the others, make that list.            *)
LEMMA ListRestored ==
  ASSUME NEW list \in Lists, NEW n \in Nat, NEW items, NEW q,
         IsPolicy(q), q[list] = <<>>
  PROVE  Restored(q, [i \in 1 .. n |-> Field(list, items[i])]) = [q EXCEPT ![list] = [i \in 1 .. n |-> items[i]]]
<1> DEFINE prefix(k) == [i \in 1 .. k |-> items[i]]
           fields == [i \in 1 .. n |-> Field(list, items[i])]
           g == [k \in 0 .. n |-> [q EXCEPT ![list] = prefix(k)]]
           S == {items[i] : i \in 1 .. n}
<1>1. \A k \in 0 .. n : prefix(k) \in Seq(S) /\ Len(prefix(k)) = k
  OBVIOUS
<1>2. prefix(0) = <<>>
  BY <1>1, EmptySeq
<1>3. ASSUME NEW k \in 0 .. n - 1
      PROVE  Append(prefix(k), items[k + 1]) = prefix(k + 1)
  <2>1. items[k + 1] \in S /\ k + 1 \in 0 .. n
    OBVIOUS
  <2>2. /\ Append(prefix(k), items[k + 1]) \in Seq(S)
        /\ Len(Append(prefix(k), items[k + 1])) = k + 1
        /\ \A i \in 1 .. k : Append(prefix(k), items[k + 1])[i] = items[i]
        /\ Append(prefix(k), items[k + 1])[k + 1] = items[k + 1]
    <3>1. \A i \in 1 .. k : prefix(k)[i] = items[i]
      OBVIOUS
    <3> HIDE DEF prefix, S
    <3> QED
      BY <1>1, <2>1, <3>1, AppendProperties
  <2>3. \A i \in 1 .. k + 1 : prefix(k + 1)[i] = items[i]
    OBVIOUS
  <2>4. \A i \in 1 .. k + 1 : Append(prefix(k), items[k + 1])[i] = prefix(k + 1)[i]
    <3> HIDE DEF prefix, S
    <3>1. \A i \in 1 .. k + 1 : i \in 1 .. k \/ i = k + 1
      OBVIOUS
    <3> QED
      BY <2>2, <2>3, <3>1
  <2> HIDE DEF prefix, S
  <2> QED
    BY <1>1, <2>1, <2>2, <2>4, SeqEqual
<1>4. ASSUME NEW k \in 0 .. n - 1
      PROVE  Restore([q EXCEPT ![list] = prefix(k)], Field(list, items[k + 1])) = [q EXCEPT ![list] = prefix(k + 1)]
  <2> HIDE DEF prefix
  <2> DEFINE r == [q EXCEPT ![list] = prefix(k)]
             f == Field(list, items[k + 1])
  <2>1. f.tag = list /\ f.value = items[k + 1] /\ list # "tier" /\ list \notin Limits
    BY DEF Field, Lists, Limits
  <2>2. Restore(r, f) = [r EXCEPT ![list] = Append(r[list], items[k + 1])]
    <3> HIDE DEF r, f
    <3> QED
      BY <2>1, Zenon DEF Restore
  <2>3. r[list] = prefix(k)
    BY DEF IsPolicy, Parts
  <2> QED
    BY <1>3, <2>2, <2>3
<1>5. g[0] = q
  <2>1. [q EXCEPT ![list] = prefix(0)] = q
    BY <1>2 DEF IsPolicy, Parts
  <2> QED
    BY <2>1
<1>6. ASSUME NEW i \in 1 .. n
      PROVE  g[i] = Restore(g[i - 1], fields[i])
  <2>1. PICK k \in 0 .. n - 1 : i = k + 1
    <3>1. i - 1 \in 0 .. n - 1 /\ i = (i - 1) + 1
      OBVIOUS
    <3> QED
      BY <3>1
  <2>2. g[k + 1] = [q EXCEPT ![list] = prefix(k + 1)] /\ g[k] = [q EXCEPT ![list] = prefix(k)]
    <3> HIDE DEF prefix
    <3>1. k \in 0 .. n /\ k + 1 \in 0 .. n
      OBVIOUS
    <3> QED
      BY <3>1
  <2>4. i - 1 = k
    BY <2>1
  <2>3. fields[i] = Field(list, items[k + 1])
    BY <2>1
  <2> HIDE DEF g, prefix, fields
  <2> QED
    BY <1>4, <2>1, <2>2, <2>3, <2>4
<1>7. Len(fields) = n
  OBVIOUS
<1>8. g[n] = [q EXCEPT ![list] = prefix(n)]
  <2> HIDE DEF prefix
  <2> QED
    OBVIOUS
<1> HIDE DEF g, fields, prefix
<1>9. Restores(g, n, q, fields)
  BY <1>5, <1>6 DEF Restores
<1>10. Restored(q, fields) = g[n]
  BY <1>7, <1>9, RestoredIs
<1> QED
  BY <1>8, <1>10 DEF fields, prefix

(* What reading fields s after q makes.                                    *)
Reads(q, s, r) == IsList(s) /\ Restored(q, s) = r

LEMMA ReadsOn ==
  ASSUME NEW q, NEW s, NEW r, NEW t, NEW u, Reads(q, s, r), Reads(r, t, u)
  PROVE  Reads(q, s \o t, u)
BY Joined, RestoredJoined DEF Reads

LEMMA TierRead ==
  ASSUME NEW p
  PROVE  \E r : /\ IsPolicy(r) /\ Reads(Blank, <<Field("tier", p.tier)>>, r)
                /\ r.tier = p.tier /\ \A x \in Parts \ {"tier"} : r[x] = Blank[x]
<1> DEFINE f == Field("tier", p.tier)
           r == [Blank EXCEPT !.tier = p.tier]
<1>1. f.tag = "tier" /\ f.value = p.tier /\ "tier" \notin Limits
  BY DEF Field, Limits
<1>2. IsPolicy(r) /\ r.tier = p.tier /\ \A x \in Parts \ {"tier"} : r[x] = Blank[x]
  BY DEF IsPolicy, Blank, Parts, Lists
<1> HIDE DEF f
<1>3. Restore(Blank, f) = r
  BY <1>1, Zenon DEF Restore
<1> HIDE DEF r
<1>4. Reads(Blank, <<f>>, r)
  BY <1>3, RestoredFew, Singleton DEF Reads
<1> QED
  BY <1>2, <1>4 DEF f

(* What a stored limit, and a stored list, make of a policy q.             *)
LimitFrom(p, q, what, r) ==
  /\ IsPolicy(r) /\ Reads(q, StoredLimit(p, what), r)
  /\ r.limits[what] = p.limits[what]
  /\ \A k \in Limits \ {what} : r.limits[k] = q.limits[k]
  /\ \A x \in Parts \ {"limits"} : r[x] = q[x]

ListFrom(p, q, list, r) ==
  /\ IsPolicy(r) /\ Reads(q, StoredList(p, list), r)
  /\ r[list] = [i \in DOMAIN p[list] |-> StoredItem(list, p[list][i])]
  /\ \A x \in Parts \ {list} : r[x] = q[x]

LEMMA LimitRead ==
  ASSUME NEW p, NEW q, IsPolicy(q), NEW what \in Limits, q.limits[what] = Unset
  PROVE  \E r : LimitFrom(p, q, what, r)
<1>1. CASE p.limits[what] = Unset
  <2>1. StoredLimit(p, what) = <<>>
    BY <1>1 DEF StoredLimit
  <2>2. Reads(q, <<>>, q)
    BY RestoredFew, OneToN, EmptySeq DEF Reads, IsList
  <2> QED
    BY <1>1, <2>1, <2>2 DEF LimitFrom
<1>2. CASE p.limits[what] # Unset
  <2> DEFINE f == Field(what, p.limits[what])
             r == [q EXCEPT !.limits[what] = p.limits[what]]
  <2>1. f.tag = what /\ f.value = p.limits[what] /\ what # "tier"
    BY DEF Field, Limits
  <2>2. StoredLimit(p, what) = <<f>>
    BY <1>2 DEF StoredLimit
  <2>3. /\ r.limits[what] = p.limits[what]
        /\ \A k \in Limits \ {what} : r.limits[k] = q.limits[k]
        /\ \A x \in Parts \ {"limits"} : r[x] = q[x]
        /\ IsPolicy(r)
    BY DEF IsPolicy, Parts
  <2> HIDE DEF f
  <2>4. Restore(q, f) = r
    BY <2>1, Zenon DEF Restore
  <2> HIDE DEF r
  <2>5. Reads(q, <<f>>, r)
    BY <2>4, RestoredFew, Singleton DEF Reads
  <2> QED
    BY <2>2, <2>3, <2>5 DEF LimitFrom
<1> QED
  BY <1>1, <1>2

LEMMA ListRead ==
  ASSUME NEW p, NEW q, IsPolicy(q), NEW list \in Lists, q[list] = <<>>,
         NEW n \in Nat, DOMAIN p[list] = 1 .. n
  PROVE  \E r : ListFrom(p, q, list, r)
<1> DEFINE items == [i \in 1 .. n |-> StoredItem(list, p[list][i])]
           fields == [i \in 1 .. n |-> Field(list, items[i])]
           r == [q EXCEPT ![list] = [i \in 1 .. n |-> items[i]]]
<1>1. StoredList(p, list) = fields
  BY DEF StoredList
<1>2. IsList(fields)
  <2>1. fields = [i \in 1 .. n |-> fields[i]]
    OBVIOUS
  <2> HIDE DEF fields
  <2> QED
    BY <2>1, OneToN
<1>3. /\ r[list] = [i \in DOMAIN p[list] |-> StoredItem(list, p[list][i])]
      /\ \A x \in Parts \ {list} : r[x] = q[x]
      /\ IsPolicy(r)
  <2>1. [i \in 1 .. n |-> items[i]] = items /\ items = [i \in DOMAIN p[list] |-> StoredItem(list, p[list][i])]
    OBVIOUS
  <2>2. list \in Parts /\ list # "limits" /\ "limits" \in Parts
    BY DEF Parts, Lists
  <2> HIDE DEF items
  <2> QED
    BY <2>1, <2>2 DEF IsPolicy
<1> HIDE DEF items
<1>4. Restored(q, fields) = r
  BY ListRestored
<1> HIDE DEF fields, r
<1> QED
  BY <1>1, <1>2, <1>3, <1>4 DEF Reads, ListFrom

StoredOnes == {"max-stack", "max-instructions", "max-recursion", "max-reflections", "max-meta-writes"}

(* The five limits that have a tag survive, the other five are forgotten.  *)
LEMMA LimitsRead ==
  ASSUME NEW p
  PROVE  \E r, s : /\ IsPolicy(r) /\ Reads(Blank, s, r)
                   /\ s = <<Field("tier", p.tier)>> \o StoredLimit(p, "max-stack")
                            \o StoredLimit(p, "max-instructions") \o StoredLimit(p, "max-recursion")
                            \o StoredLimit(p, "max-reflections") \o StoredLimit(p, "max-meta-writes")
                   /\ r.tier = p.tier
                   /\ \A k \in Limits : r.limits[k] = IF k \in StoredOnes THEN p.limits[k] ELSE Unset
                   /\ \A x \in Lists : r[x] = <<>>
<1>1. /\ \A k \in Limits : Blank.limits[k] = Unset
      /\ \A x \in Lists : Blank[x] = <<>>
      /\ StoredOnes \subseteq Limits
      /\ Lists \subseteq Parts \ {"tier", "limits"} /\ "limits" \in Parts \ {"tier"} /\ "tier" \in Parts \ {"limits"}
  BY DEF Blank, Lists, Limits, StoredOnes, Parts
<1>2. PICK a : /\ IsPolicy(a) /\ Reads(Blank, <<Field("tier", p.tier)>>, a)
               /\ a.tier = p.tier /\ \A x \in Parts \ {"tier"} : a[x] = Blank[x]
  BY TierRead
<1>3. (\A k \in Limits : a.limits[k] = Unset) /\ (\A x \in Lists : a[x] = <<>>)
  BY <1>1, <1>2
<1> DEFINE s1 == <<Field("tier", p.tier)>>
           s2 == s1 \o StoredLimit(p, "max-stack")
           s3 == s2 \o StoredLimit(p, "max-instructions")
           s4 == s3 \o StoredLimit(p, "max-recursion")
           s5 == s4 \o StoredLimit(p, "max-reflections")
           s6 == s5 \o StoredLimit(p, "max-meta-writes")
           Had(r, done) == /\ IsPolicy(r) /\ r.tier = p.tier
                           /\ \A k \in Limits : r.limits[k] = IF k \in done THEN p.limits[k] ELSE Unset
                           /\ \A x \in Lists : r[x] = <<>>
<1>4. ASSUME NEW r, NEW done, NEW what \in Limits \ done, Had(r, done), NEW s, Reads(Blank, s, r)
      PROVE  \E t : Had(t, done \cup {what}) /\ Reads(Blank, s \o StoredLimit(p, what), t)
  <2>1. PICK t : LimitFrom(p, r, what, t)
    <3>1. r.limits[what] = Unset /\ IsPolicy(r) /\ what \in Limits
      BY <1>4
    <3> HIDE DEF Had
    <3> QED
      BY <3>1, LimitRead
  <2>2. Had(t, done \cup {what})
    BY <1>1, <1>4, <2>1 DEF LimitFrom
  <2>3. Reads(Blank, s \o StoredLimit(p, what), t)
    BY <1>4, <2>1, ReadsOn DEF LimitFrom
  <2> QED
    BY <2>2, <2>3
<1>5. Had(a, {}) /\ Reads(Blank, s1, a)
  BY <1>2, <1>3
<1> HIDE DEF Had, s1
<1>6. PICK b : Had(b, {} \cup {"max-stack"}) /\ Reads(Blank, s2, b)
  <2>1. "max-stack" \in Limits \ {}
    BY DEF Limits
  <2> QED
    BY <1>4, <1>5, <2>1
<1> HIDE DEF s2
<1>7. PICK c : Had(c, {} \cup {"max-stack"} \cup {"max-instructions"}) /\ Reads(Blank, s3, c)
  <2>1. "max-instructions" \in Limits \ ({} \cup {"max-stack"})
    BY DEF Limits
  <2> QED
    BY <1>4, <1>6, <2>1
<1> HIDE DEF s3
<1>8. PICK d : /\ Had(d, {} \cup {"max-stack"} \cup {"max-instructions"} \cup {"max-recursion"})
               /\ Reads(Blank, s4, d)
  <2>1. "max-recursion" \in Limits \ ({} \cup {"max-stack"} \cup {"max-instructions"})
    BY DEF Limits
  <2> QED
    BY <1>4, <1>7, <2>1
<1> HIDE DEF s4
<1>9. PICK e : /\ Had(e, {} \cup {"max-stack"} \cup {"max-instructions"} \cup {"max-recursion"}
                            \cup {"max-reflections"})
               /\ Reads(Blank, s5, e)
  <2>1. "max-reflections" \in Limits \ ({} \cup {"max-stack"} \cup {"max-instructions"} \cup {"max-recursion"})
    BY DEF Limits
  <2> QED
    BY <1>4, <1>8, <2>1
<1> HIDE DEF s5
<1>10. PICK f : /\ Had(f, {} \cup {"max-stack"} \cup {"max-instructions"} \cup {"max-recursion"}
                             \cup {"max-reflections"} \cup {"max-meta-writes"})
                /\ Reads(Blank, s6, f)
  <2>1. "max-meta-writes" \in Limits \ ({} \cup {"max-stack"} \cup {"max-instructions"} \cup {"max-recursion"}
                                           \cup {"max-reflections"})
    BY DEF Limits
  <2> QED
    BY <1>4, <1>9, <2>1
<1>11. {} \cup {"max-stack"} \cup {"max-instructions"} \cup {"max-recursion"}
         \cup {"max-reflections"} \cup {"max-meta-writes"} = StoredOnes
  BY DEF StoredOnes
<1> QED
  BY <1>10, <1>11 DEF Had, s6, s5, s4, s3, s2, s1

(* A policy that has lists, stored and read back: the tier, five limits    *)
(* and every list come back, in their order, but for the bounds of hints.  *)
THEOREM StoredRoundTrip ==
  ASSUME NEW p, \A list \in Lists : \E n \in Nat : DOMAIN p[list] = 1 .. n
  PROVE  LET back == Deserialized(Serialized(p))
         IN  /\ back.tier = p.tier
             /\ \A k \in Limits : back.limits[k] = IF k \in StoredOnes THEN p.limits[k] ELSE Unset
             /\ \A list \in Lists :
                  back[list] = [i \in DOMAIN p[list] |-> StoredItem(list, p[list][i])]
<1> DEFINE Kept(r) == /\ r.tier = p.tier
                      /\ \A k \in Limits : r.limits[k] = IF k \in StoredOnes THEN p.limits[k] ELSE Unset
           Had(r, done) == /\ IsPolicy(r) /\ Kept(r)
                           /\ \A x \in done : r[x] = [i \in DOMAIN p[x] |-> StoredItem(x, p[x][i])]
                           /\ \A x \in Lists \ done : r[x] = <<>>
<1>1. PICK r0, s0 :
         /\ Had(r0, {}) /\ Reads(Blank, s0, r0)
         /\ s0 = <<Field("tier", p.tier)>> \o StoredLimit(p, "max-stack")
                   \o StoredLimit(p, "max-instructions") \o StoredLimit(p, "max-recursion")
                   \o StoredLimit(p, "max-reflections") \o StoredLimit(p, "max-meta-writes")
  BY LimitsRead
<1>2. ASSUME NEW r, NEW done \in SUBSET Lists, NEW list \in Lists \ done, Had(r, done), NEW s, Reads(Blank, s, r)
      PROVE  \E t : Had(t, done \cup {list}) /\ Reads(Blank, s \o StoredList(p, list), t)
  <2>1. IsPolicy(r) /\ Kept(r) /\ r[list] = <<>> /\ list \in Lists
    BY <1>2
  <2>2. PICK n \in Nat : DOMAIN p[list] = 1 .. n
    OBVIOUS
  <2> HIDE DEF Had, Kept
  <2>3. PICK t : ListFrom(p, r, list, t)
    BY <2>1, <2>2, ListRead
  <2>4. Lists \subseteq Parts /\ "tier" \in Parts \ {list} /\ "limits" \in Parts \ {list}
    BY DEF Lists, Parts
  <2>5. Kept(t)
    BY <2>1, <2>3, <2>4 DEF Kept, ListFrom
  <2>6. Had(t, done \cup {list})
    BY <1>2, <2>3, <2>4, <2>5 DEF Had, ListFrom
  <2>7. Reads(Blank, s \o StoredList(p, list), t)
    BY <1>2, <2>3, ReadsOn DEF ListFrom
  <2> QED
    BY <2>6, <2>7
<1> DEFINE d1 == {} \cup {"hashes"}
           d2 == d1 \cup {"loops"}
           d3 == d2 \cup {"guards"}
           d4 == d3 \cup {"segments"}
           d5 == d4 \cup {"events"}
           d6 == d5 \cup {"alignments"}
           d7 == d6 \cup {"bytecode"}
           s1 == s0 \o StoredList(p, "hashes")
           s2 == s1 \o StoredList(p, "loops")
           s3 == s2 \o StoredList(p, "guards")
           s4 == s3 \o StoredList(p, "segments")
           s5 == s4 \o StoredList(p, "events")
           s6 == s5 \o StoredList(p, "alignments")
           s7 == s6 \o StoredList(p, "bytecode")
<1> HIDE DEF Had, Kept
<1>3. /\ {} \in SUBSET Lists /\ d1 \in SUBSET Lists /\ d2 \in SUBSET Lists /\ d3 \in SUBSET Lists
      /\ d4 \in SUBSET Lists /\ d5 \in SUBSET Lists /\ d6 \in SUBSET Lists /\ d7 = Lists
  BY DEF Lists
<1>4. /\ "hashes" \in Lists \ {} /\ "loops" \in Lists \ d1 /\ "guards" \in Lists \ d2 /\ "segments" \in Lists \ d3
      /\ "events" \in Lists \ d4 /\ "alignments" \in Lists \ d5 /\ "bytecode" \in Lists \ d6
  BY DEF Lists
<1> HIDE DEF d1, d2, d3, d4, d5, d6, d7, s1, s2, s3, s4, s5, s6, s7
<1>5. PICK r1 : Had(r1, d1) /\ Reads(Blank, s1, r1)
  <2>1. Had(r0, {}) /\ Reads(Blank, s0, r0) /\ {} \in SUBSET Lists /\ "hashes" \in Lists \ {}
    BY <1>1, <1>3, <1>4
  <2> QED
    BY ONLY <2>1, <1>2 DEF d1, s1
<1>6. PICK r2 : Had(r2, d2) /\ Reads(Blank, s2, r2)
  BY <1>5, <1>2, <1>3, <1>4 DEF d2, s2
<1>7. PICK r3 : Had(r3, d3) /\ Reads(Blank, s3, r3)
  BY <1>6, <1>2, <1>3, <1>4 DEF d3, s3
<1>8. PICK r4 : Had(r4, d4) /\ Reads(Blank, s4, r4)
  BY <1>7, <1>2, <1>3, <1>4 DEF d4, s4
<1>9. PICK r5 : Had(r5, d5) /\ Reads(Blank, s5, r5)
  BY <1>8, <1>2, <1>3, <1>4 DEF d5, s5
<1>10. PICK r6 : Had(r6, d6) /\ Reads(Blank, s6, r6)
  BY <1>9, <1>2, <1>3, <1>4 DEF d6, s6
<1>11. PICK r7 : Had(r7, d7) /\ Reads(Blank, s7, r7)
  BY <1>10, <1>2, <1>3, <1>4 DEF d7, s7
<1>12. Serialized(p) = s7
  BY <1>1, Zenon DEF Serialized, s7, s6, s5, s4, s3, s2, s1
<1>13. Deserialized(Serialized(p)) = r7
  BY <1>11, <1>12 DEF Deserialized, Reads
<1> QED
  BY <1>3, <1>11, <1>13 DEF Had, Kept

(* What was stored with a bytecode and read back has that bytecode, and    *)
(* demands what was demanded before.                                       *)
LEMMA StoredDemands ==
  ASSUME NEW p \in TextPolicies, PlainHints(p), NEW code, IsList(code)
  PROVE  LET back == Deserialized(Serialized([p EXCEPT !.bytecode = code]))
         IN  /\ back.bytecode = code /\ back.hashes = p.hashes
             /\ Demands(Engine(back)) = Demands(Engine(p))
<1> DEFINE q == [p EXCEPT !.bytecode = code]
           back == Deserialized(Serialized(q))
<1>1. /\ q.tier = p.tier /\ q.limits = p.limits /\ q.hashes = p.hashes /\ q.loops = p.loops
      /\ q.guards = p.guards /\ q.segments = p.segments /\ q.events = p.events
      /\ q.alignments = p.alignments /\ q.bytecode = code
  BY DEF TextPolicies
<1>2. p.hashes \in Seq(Texts) /\ \E n \in Nat : p.hashes \in [1 .. n -> Texts]
  BY SeqDef DEF TextPolicies
<1>3. \E n \in Nat : code \in [1 .. n -> Range(code)]
  BY SeqDef DEF IsList
<1> HIDE DEF q
<1>4. \A list \in Lists : \E n \in Nat : DOMAIN q[list] = 1 .. n
  BY <1>1, <1>2, <1>3, PolicyLists DEF Lists
<1>5. /\ \A k \in Limits : back.limits[k] = IF k \in StoredOnes THEN p.limits[k] ELSE Unset
      /\ \A list \in Lists : back[list] = [i \in DOMAIN q[list] |-> StoredItem(list, q[list][i])]
  BY <1>1, <1>4, StoredRoundTrip
<1> HIDE DEF back
<1>6. \A list \in Lists \ {"loops"} : back[list] = [i \in DOMAIN q[list] |-> q[list][i]]
  BY <1>5 DEF StoredItem
<1>7. /\ back.hashes = p.hashes /\ back.guards = p.guards /\ back.segments = p.segments
      /\ back.events = p.events /\ back.alignments = p.alignments /\ back.bytecode = code
  <2>1. {"hashes", "guards", "segments", "events", "alignments", "bytecode"} \subseteq Lists \ {"loops"}
    BY DEF Lists
  <2>2. /\ \E n \in Nat : p.guards \in [1 .. n -> GuardRequirements]
        /\ \E n \in Nat : p.segments \in [1 .. n -> SegmentRequirements]
        /\ \E n \in Nat : p.events \in [1 .. n -> ReasonRequirements]
        /\ \E n \in Nat : p.alignments \in [1 .. n -> ReasonRequirements]
    BY PolicyLists, SeqDef
  <2>3. back.hashes = p.hashes
    BY <1>1, <1>2, <1>6, <2>1
  <2>4. back.guards = p.guards
    <3>1. back.guards = [i \in DOMAIN p.guards |-> p.guards[i]]
      BY <1>1, <1>6, <2>1
    <3> QED
      BY <2>2, <3>1
  <2>5. back.segments = p.segments
    <3>1. back.segments = [i \in DOMAIN p.segments |-> p.segments[i]]
      BY <1>1, <1>6, <2>1
    <3> QED
      BY <2>2, <3>1
  <2>6. back.events = p.events
    <3>1. back.events = [i \in DOMAIN p.events |-> p.events[i]]
      BY <1>1, <1>6, <2>1
    <3> QED
      BY <2>2, <3>1
  <2>7. back.alignments = p.alignments
    <3>1. back.alignments = [i \in DOMAIN p.alignments |-> p.alignments[i]]
      BY <1>1, <1>6, <2>1
    <3> QED
      BY <2>2, <3>1
  <2>8. back.bytecode = code
    BY <1>1, <1>3, <1>6, <2>1
  <2> QED
    BY <2>3, <2>4, <2>5, <2>6, <2>7, <2>8
<1>8. back.loops = [i \in DOMAIN p.loops |-> StoredHint(p.loops[i])]
  BY <1>1, <1>5 DEF Lists, StoredItem
<1>9. ASSUME NEW h \in Range(p.loops)
      PROVE  Printed(StoredHint(h)) = Printed(h)
  <2>1. h \in Loops
    BY PolicyLists DEF Range
  <2>2. h.infinite \/ h.bound \in 0 .. Word - 1
    BY DEF PlainHints
  <2>3. ~h.infinite => h.bound # Unset
    BY <2>2, WordAssumption, UnsetAssumption
  <2>4. /\ StoredHint(h).file = h.file /\ StoredHint(h).line = h.line /\ StoredHint(h).column = h.column
        /\ StoredHint(h).infinite = h.infinite
        /\ ~h.infinite => StoredHint(h).bound = h.bound
    BY <2>1, <2>3 DEF Loops, StoredHint
  <2> QED
    BY <2>4 DEF Printed
<1>10. Hinted(back) = Hinted(p)
  <2>1. DOMAIN back.loops = DOMAIN p.loops
    BY <1>8
  <2>2. \A i \in DOMAIN p.loops : LoopEntry(Printed(back.loops[i])) = LoopEntry(Printed(p.loops[i]))
    BY <1>8, <1>9 DEF Range
  <2> QED
    BY <2>1, <2>2 DEF Hinted
<1>11. Limited(back) = Limited(p)
  <2>1. \A what \in StoredOnes : LimitOn(back, what) = LimitOn(p, what)
    BY <1>5 DEF LimitOn, StoredOnes, Limits
  <2> QED
    BY <2>1 DEF Limited, StoredOnes
<1>12. Required(back) = Required(p)
  BY <1>7, Zenon DEF Required
<1>13. Demands(Engine(back)) = Demands(Engine(p))
  BY <1>10, <1>11, <1>12 DEF Demands, Engine
<1> QED
  BY <1>7, <1>13 DEF back, q

-----------------------------------------------------------------------------
(* The governed machine                                                    *)

(* The engine of a program is made of a policy of TextPolicies.            *)
LEMMA EngineIs ==
  ASSUME program \in Programs, HasPolicy
  PROVE  engine.policy \in TextPolicies /\ engine = Engine(engine.policy)
<1> DEFINE text == PolicyText[program]
<1>1. engine = EngineFor(text)
  BY EngineAssumption DEF engine, Engines
<1>2. text # Unset /\ Parsed(text) # Unreadable /\ engine = Engine(Parsed(text))
  BY <1>1 DEF EngineFor, HasPolicy
<1>3. text \in Seq(Tokens)
  BY <1>2, PolicyAssumption
<1>4. Parsed(text) \in TextPolicies
  BY <1>2, <1>3, TextsReadPolicies
<1> QED
  BY <1>2, <1>4 DEF Engine

LEMMA BytecodeAgreesHere ==
  ASSUME program \in Programs
  PROVE  BytecodeAgrees
<1> SUFFICES ASSUME HasPolicy, PlainHints(engine.policy), NEW op \in Opcodes
             PROVE  Judged(CompiledForm[program], Context(op, Unset, count)).kind = "Deny" <=>
                      \/ Unsigned(tier) < Unsigned(engine.policy.tier)
                      \/ Judged(Demands(engine), Context(op, Unset, count)).kind = "Deny"
  BY DEF BytecodeAgrees
<1>1. CompiledForm[program] = Compiled(engine.policy)
  BY DEF CompiledForm, HasPolicy, engine
<1>2. Context(op, Unset, count).tier = tier
  BY DEF Context
<1> QED
  BY <1>1, <1>2, EngineIs, BytecodeDeniesAlike

LEMMA StoredAgreesHere ==
  ASSUME program \in Programs
  PROVE  StoredAgrees
<1> SUFFICES ASSUME HasPolicy, PlainHints(engine.policy)
             PROVE  /\ StoredForm[program].policy.bytecode = CompiledForm[program]
                    /\ Demands(StoredForm[program]) = Demands(engine)
                    /\ StoredForm[program].policy.hashes = engine.policy.hashes
  BY DEF StoredAgrees, HashDenied
<1> DEFINE p == engine.policy
           back == Deserialized(Serialized([p EXCEPT !.bytecode = Compiled(p)]))
<1>1. CompiledForm[program] = Compiled(p) /\ StoredForm[program] = Engine(back)
  BY DEF CompiledForm, StoredForm, HasPolicy, engine
<1>2. p \in TextPolicies /\ engine = Engine(p)
  BY EngineIs
<1> HIDE DEF p
<1>3. PlainHints(p) /\ IsList(Compiled(p))
  BY <1>2, DemandsAre DEF p
<1>4. back.bytecode = Compiled(p) /\ back.hashes = p.hashes /\ Demands(Engine(back)) = Demands(Engine(p))
  BY <1>2, <1>3, StoredDemands
<1> HIDE DEF back
<1>5. Engine(back).policy = back
  BY DEF Engine
<1> QED
  BY <1>1, <1>2, <1>4, <1>5 DEF p

LEMMA CompletesIsPlain ==
  ASSUME TypeOK, Completes
  PROVE  Plain
<1>1. tier \in Promotions(tier, 5)
  BY DEF TypeOK, Tiers, Promotions, Larger
<1> QED
  BY <1>1 DEF Completes, Plain

(* Governed or not, what an instruction does to the calls it may do in     *)
(* VmCalls.                                                                *)
LEMMA GovernedStep == TypeOK /\ [GovernedNext]_everything => [Next]_vars
<1> SUFFICES ASSUME TypeOK, [GovernedNext]_everything
             PROVE  [Next]_vars
  OBVIOUS
<1>1. CASE RunPush
  BY <1>1 DEF RunPush, Next
<1>2. CASE RunPop
  BY <1>2 DEF RunPop, Next
<1>3. CASE RunCall
  BY <1>3 DEF RunCall, Next
<1>4. CASE RunRet
  BY <1>4 DEF RunRet, Next
<1>5. CASE RunRecursor
  BY <1>5 DEF RunRecursor, Next
<1>6. ASSUME NEW n \in FrameSizes, RunStackAlloc(n)
      PROVE  [Next]_vars
  BY <1>6 DEF RunStackAlloc, Next
<1>7. ASSUME NEW n \in FrameSizes, NEW ptr \in StackStart .. StackBase, RunStackFree(ptr, n)
      PROVE  [Next]_vars
  <2>1. CASE StackFree(ptr, n)
    <3>1. ptr \in StackStart .. StackBase - 1
      BY <2>1 DEF StackFree, CanFree
    <3> QED
      BY <2>1, <3>1 DEF Next
  <2>2. CASE Trapped
    BY <2>2 DEF Next
  <2> QED
    BY <1>7, <2>1, <2>2 DEF RunStackFree
<1>8. ASSUME NEW g \in Guards, NEW result \in {"pass", "fail"}, RunEnumIsVariant(g, result)
      PROVE  [Next]_vars
  BY <1>8, CompletesIsPlain DEF RunEnumIsVariant, Next
<1>9. ASSUME NEW addr \in StackStart .. StackBase - 1, RunAxRead(addr)
      PROVE  [Next]_vars
  BY <1>9, CompletesIsPlain DEF RunAxRead, Next
<1>10. ASSUME NEW hash \in Hashes, RunTLoadHash(hash)
       PROVE  [Next]_vars
  <2>1. Completes \/ Trapped
    BY <1>10 DEF RunTLoadHash
  <2> QED
    BY <2>1, CompletesIsPlain DEF Next
<1>11. CASE RunMetaReflect
  <2>1. Completes \/ Trapped
    BY <1>11 DEF RunMetaReflect
  <2> QED
    BY <2>1, CompletesIsPlain DEF Next
<1>12. CASE RunOther
  BY <1>12 DEF RunOther, Next
<1>13. CASE RunHalt
  BY <1>13, CompletesIsPlain DEF RunHalt, Next
<1>14. CASE RunOff
  BY <1>14 DEF RunOff
<1>15. ASSUME NEW op \in Opcodes, Denied(op)
       PROVE  [Next]_vars
  BY <1>15 DEF Denied
<1>16. CASE UNCHANGED everything
  BY <1>16 DEF everything
<1> QED
  BY <1>1, <1>2, <1>3, <1>4, <1>5, <1>6, <1>7, <1>8, <1>9, <1>10, <1>11, <1>12, <1>13, <1>14, <1>15,
     <1>16 DEF GovernedNext

(* A machine under a policy is a machine: it does nothing to its calls,    *)
(* stack and tier that one without a policy might not do.                  *)
THEOREM GovernedRefines == GovernedSpec => Spec
<1>1. GovernedInit => Init
  BY DEF GovernedInit
<1>2. Init => IInv
  BY InitIInv
<1>3. IInv => TypeOK
  BY DEF IInv
<1>4. IInv /\ [Next]_vars => IInv'
  BY NextIInv
<1> QED
  BY <1>1, <1>2, <1>3, <1>4, GovernedStep, PTL DEF GovernedSpec, Spec

(* What the machine knows of a governed program at every step: the hints   *)
(* that the engine remembers were found in its log.                        *)
Governance ==
  /\ program \in Programs
  /\ memo \subseteq answered \cup refused
  /\ reflections \in Nat
  /\ count \in Nat
  /\ WithinPolicy
  /\ HaltEarned

(* An instruction that is not denied fails no demand of its policy.        *)
LEMMA AllowedMeans ==
  ASSUME program \in Programs, HasPolicy, NEW op, NEW payload, NEW executed,
         Answer(op, payload, executed).kind # "Deny",
         NEW d \in LimitsOn(engine.policy) \cup Range(Hinted(engine.policy)) \cup Range(Required(engine.policy))
  PROVE  ~Fails(d, Recalling(Context(op, payload, executed), memo))
<1> DEFINE ctx == Context(op, payload, executed)
           seen == Recalling(ctx, memo)
           v == Interpreted(engine, ctx, memo)
<1>1. Verdict(engine, ctx, memo).kind # "Deny"
  BY DEF Answer, HasPolicy
<1>2. v.kind # "Deny"
  <2> HIDE DEF ctx
  <2>1. CASE EthicsDenies(ctx.used["max-recursion"])
    <3>1. Verdict(engine, ctx, memo) = Deny({<<"phrase", "recursion ceiling exceeded">>})
      BY <2>1, Zenon DEF Verdict
    <3>2. \A r : Deny(r).kind = "Deny"
      BY DEF Deny
    <3> QED
      BY <1>1, <3>1, <3>2
  <2>2. CASE v = Allow
    BY <2>2 DEF Allow
  <2>3. CASE ~EthicsDenies(ctx.used["max-recursion"]) /\ v # Allow
    <3>1. Verdict(engine, ctx, memo) = v
      BY <2>3, Zenon DEF Verdict
    <3> QED
      BY <1>1, <3>1
  <2> QED
    BY <2>1, <2>2, <2>3
<1>3. engine.policy \in TextPolicies /\ engine = Engine(engine.policy) /\ engine.policy.bytecode = <<>>
  BY EngineIs, PolicyLists
<1>4. v = Judged(Demands(engine), seen)
  <2> HIDE DEF ctx
  <2> QED
    BY <1>2, <1>3 DEF Interpreted, Deny
<1> HIDE DEF ctx, seen, v
<1>5. d \in Range(Demands(engine))
  BY <1>3, DemandsAre
<1>6. ~Fails(d, seen)
  BY <1>2, <1>4, <1>5, JudgedDenies
<1> QED
  BY <1>6 DEF seen, ctx

(* So what it has counted is within every limit.                           *)
LEMMA AllowedWithin ==
  ASSUME TypeOK, program \in Programs, reflections \in Nat, HasPolicy, NEW op, NEW payload, NEW executed,
         Answer(op, payload, executed).kind # "Deny",
         NEW what \in {"max-recursion", "max-reflections"}, engine.policy.limits[what] # Unset
  PROVE  Used(executed)[what] <= Unsigned(engine.policy.limits[what])
<1> DEFINE d == LimitOn(engine.policy, what)
           seen == Recalling(Context(op, payload, executed), memo)
<1>1. d \in LimitsOn(engine.policy)
  BY DEF LimitsOn
<1>2. ~Fails(d, seen)
  BY <1>1, AllowedMeans
<1>3. seen.used[what] = Used(executed)[what]
  BY DEF Recalling, Context
<1>4. d.kind = "limit" /\ d.of = what /\ d.most = engine.policy.limits[what]
  BY DEF LimitOn
<1> HIDE DEF d, seen
<1>5. ~(Used(executed)[what] > Unsigned(engine.policy.limits[what]))
  BY <1>2, <1>3, <1>4 DEF Fails
<1>6. Unsigned(engine.policy.limits[what]) \in Int
  <2>1. engine.policy.limits[what] \in Int
    BY EngineIs, PolicyLists DEF Limits
  <2> QED
    BY <2>1, WordAssumption DEF Unsigned
<1>7. Used(executed)[what] \in Int
  <2>1. Deep \in Int
    BY LenProperties DEF Deep, Larger, TypeOK
  <2> QED
    BY <2>1 DEF Used
<1> QED
  BY <1>5, <1>6, <1>7

(* And before a halt every requirement was met or denied.                  *)
LEMMA HaltMeets ==
  ASSUME program \in Programs, HasPolicy, memo \subseteq answered \cup refused, NEW executed,
         Answer("Halt", Unset, executed).kind # "Deny", NEW d \in Range(engine.required)
  PROVE  d.fragments \in answered \cup refused
<1> DEFINE p == engine.policy
           seen == Recalling(Context("Halt", Unset, executed), memo)
<1>1. p \in TextPolicies /\ engine.required = Required(p)
  BY EngineIs DEF Engine
<1>2. ~Fails(d, seen)
  BY <1>1, AllowedMeans
<1>3. d \in Entries(p, GuardNames, SegmentNames)
  BY <1>1, RequiredAre
<1>4. d.kind = "entry"
  <2>1. ASSUME NEW always, NEW fragments, NEW says
        PROVE  Entry(always, fragments, says).kind = "entry"
    BY DEF Entry
  <2>2. ASSUME NEW r
        PROVE  /\ GuardEntry(r, GuardNames(r)).kind = "entry"
               /\ SegmentEntry(r, SegmentNames(r)).kind = "entry"
               /\ EventEntry(r).kind = "entry"
               /\ AlignmentEntry(r).kind = "entry"
    BY <2>1, Zenon DEF GuardEntry, SegmentEntry, EventEntry, AlignmentEntry
  <2> QED
    BY <1>3, <2>2 DEF Entries
<1>5. seen.op = "Halt" /\ seen.answered = answered \cup refused \cup memo
  BY DEF Recalling, Context
<1> HIDE DEF seen
<1> QED
  BY <1>2, <1>4, <1>5 DEF Fails

(* What the engine finds, it found in the log.                             *)
LEMMA FoundInLog ==
  ASSUME program \in Programs, memo \subseteq answered \cup refused,
         NEW op, NEW payload, NEW executed, Remember(op, payload, executed)
  PROVE  memo' \subseteq answered \cup refused
<1> DEFINE ctx == Context(op, payload, executed)
<1>1. ctx.answered = answered \cup refused
  BY DEF Context
<1> HIDE DEF ctx
<1>2. ASSUME HasPolicy
      PROVE  Learned(engine, ctx, memo) \subseteq ctx.answered \cup memo
  <2> DEFINE e == engine
             known == ctx.answered \cup memo
             found == {i \in DOMAIN e.hints : \A j \in 1 .. i : e.hints[j].fragments \in known}
  <2>1. DOMAIN e.hints \subseteq Nat \ {0}
    <3>1. e.policy \in TextPolicies /\ e.hints = Hinted(e.policy)
      BY <1>2, EngineIs DEF Engine
    <3>2. DOMAIN e.hints = DOMAIN e.policy.loops
      BY <3>1 DEF Hinted
    <3> QED
      BY <3>1, <3>2, PolicyLists
  <2>2. \A i \in found : e.hints[i].fragments \in known
    BY <2>1
  <2> QED
    BY <2>2 DEF Learned
<1> QED
  BY <1>1, <1>2 DEF Remember, ctx

(* One instruction makes a program deeper by one at most.                  *)
LEMMA OneDeeper ==
  ASSUME TypeOK, TypeOK', [Next]_vars
  PROVE  Deep' <= Deep + 1 /\ Deep' \in Int /\ Deep \in Int
<1> DEFINE Deeper == depth' <= depth + 1 /\ Len(frames') <= Len(frames) + 1
<1>1. /\ depth \in Nat /\ frames \in Seq(Nat \X Nat) /\ Len(frames) \in Nat
      /\ depth' \in Nat /\ frames' \in Seq(Nat \X Nat) /\ Len(frames') \in Nat
  BY LenProperties DEF TypeOK
<1>2. ASSUME UNCHANGED <<frames, depth>>
      PROVE  Deeper
  BY <1>1, <1>2
<1>3. ASSUME Call
      PROVE  Deeper
  BY <1>1, <1>3 DEF Call, stack
<1>4. ASSUME Ret
      PROVE  Deeper
  BY <1>1, <1>4 DEF Ret
<1>5. ASSUME NEW n \in FrameSizes, StackAlloc(n)
      PROVE  Deeper
  <2> DEFINE f == <<sp - AlignBlock(n), AlignBlock(n)>>
  <2>1. frames' = Append(frames, f) /\ UNCHANGED depth
    BY <1>5 DEF StackAlloc
  <2>2. Len(Append(frames, f)) = Len(frames) + 1
    BY <1>1
  <2> QED
    BY <1>1, <2>1, <2>2
<1>6. ASSUME NEW n \in FrameSizes, NEW ptr, StackFree(ptr, n)
      PROVE  Deeper
  <2>1. frames # <<>> /\ frames' = Front(frames) /\ UNCHANGED depth
    BY <1>6 DEF StackFree, CanFree
  <2>2. Len(Front(frames)) = Len(frames) - 1
    BY <1>1, <2>1, FrontFacts
  <2> QED
    BY <1>1, <2>1, <2>2
<1>7. Next => UNCHANGED <<frames, depth>> \/ Call \/ Ret
        \/ \E n \in FrameSizes : StackAlloc(n) \/ \E ptr \in StackStart .. StackBase - 1 : StackFree(ptr, n)
  BY DEF Next, Push, Pop, Terminate, Plain, Recurse, Contract, Trapped, stack, vars
<1>8. Deeper
  BY <1>1, <1>2, <1>3, <1>4, <1>5, <1>6, <1>7 DEF vars
<1> QED
  BY <1>1, <1>8 DEF Deep, Larger

(* What holds the limits of a policy together at any moment.               *)
CountedWithin ==
  /\ engine.policy.limits["max-recursion"] # Unset =>
       Deep <= Unsigned(engine.policy.limits["max-recursion"]) + 1
  /\ engine.policy.limits["max-reflections"] # Unset =>
       reflections <= Unsigned(engine.policy.limits["max-reflections"]) + 1

LEMMA LimitsAt ==
  TypeOK /\ PolicyBound /\ program \in Programs /\ (HasPolicy => CountedWithin) => WithinPolicy
<1> SUFFICES ASSUME TypeOK, PolicyBound, program \in Programs, HasPolicy, CountedWithin
             PROVE  WithinPolicy
  BY Zenon DEF WithinPolicy
<1> DEFINE most == engine.policy.limits["max-stack"]
<1>1. ASSUME most # Unset
      PROVE  StackBase - sp <= Unsigned(most) + 0
  <2>1. Engines[program] # Unreadable /\ Engines[program] = engine
    BY DEF HasPolicy, engine
  <2>2. StackLimit(engine) = MaxStack
    BY <2>1, PolicyAssumption
  <2>3. most = MaxStack
    BY <1>1, <2>2 DEF StackLimit, HasPolicy
  <2>4. MaxStack \in Nat /\ MaxStack < Word
    BY PolicyAssumption, SegmentAssumption
  <2> HIDE DEF most
  <2>5. Unsigned(most) = MaxStack
    BY <2>3, <2>4, WordAssumption DEF Unsigned
  <2> QED
    BY <2>4, <2>5 DEF PolicyBound
<1> QED
  BY <1>1, Zenon DEF WithinPolicy, CountedWithin

LEMMA LimitsNext ==
  TypeOK' /\ PolicyBound' /\ (program \in Programs)' /\ (HasPolicy => CountedWithin)' => WithinPolicy'
BY LimitsAt, PTL

LEMMA HaltNext ==
  (HasPolicy /\ halted => \A d \in Range(engine.required) : d.fragments \in answered \cup refused)'
    => HaltEarned'
BY Zenon DEF HaltEarned

LEMMA InitGovernance == GovernedInit => Governance
<1> SUFFICES ASSUME GovernedInit
             PROVE  Governance
  OBVIOUS
<1>1. IInv
  BY InitIInv DEF GovernedInit
<1>2. program \in Programs /\ memo = {} /\ count = 0 /\ reflections = 0 /\ halted = FALSE
  BY DEF GovernedInit
<1>3. Deep = 0
  BY EmptySeq DEF GovernedInit, Init, Deep, Larger
<1>4. ASSUME HasPolicy
      PROVE  CountedWithin
  <2>1. \A what \in Limits : engine.policy.limits[what] # Unset => Unsigned(engine.policy.limits[what]) \in Nat
    BY <1>2, <1>4, EngineIs, PolicyLists, WordAssumption DEF Unsigned
  <2> QED
    BY <1>2, <1>3, <2>1 DEF CountedWithin, Limits
<1>5. WithinPolicy
  BY <1>1, <1>2, <1>4, LimitsAt DEF IInv
<1> QED
  BY <1>2, <1>5 DEF Governance, HaltEarned

(* An instruction that was not denied keeps the program within its policy. *)
LEMMA AskedKeeps ==
  ASSUME IInv, IInv', [Next]_vars, Governance, NEW op, Asked(op),
         reflections' \in {reflections, reflections + 1}, answered \subseteq answered',
         halted' => op = "Halt"
  PROVE  Governance'
<1> USE DEF Governance
<1>1. program' = program /\ engine' = engine /\ (HasPolicy' <=> HasPolicy) /\ refused' = refused
  BY DEF Asked, engine, HasPolicy
<1>2. memo' \subseteq answered \cup refused
  BY FoundInLog DEF Asked
<1>3. count' \in Nat /\ reflections' \in Nat
  BY DEF Asked, Counted
<1>4. ASSUME HasPolicy
      PROVE  CountedWithin'
  <2>1. TypeOK /\ TypeOK' /\ Answer(op, Unset, Counted).kind # "Deny"
    BY DEF IInv, Asked
  <2>2. Deep' <= Deep + 1 /\ Deep' \in Int /\ Deep \in Int
    BY <2>1, OneDeeper
  <2>3. Used(Counted)["max-recursion"] = Deep /\ Used(Counted)["max-reflections"] = reflections
    BY DEF Used
  <2>4. ASSUME NEW what \in {"max-recursion", "max-reflections"}, engine.policy.limits[what] # Unset
        PROVE  /\ Used(Counted)[what] <= Unsigned(engine.policy.limits[what])
               /\ Unsigned(engine.policy.limits[what]) \in Int
    <3>1. engine.policy.limits[what] \in Int
      BY <1>4, <2>4, EngineIs, PolicyLists DEF Limits
    <3> QED
      BY <1>4, <2>1, <2>4, <3>1, AllowedWithin, WordAssumption DEF Unsigned
  <2>5. engine.policy.limits["max-recursion"] # Unset =>
          Deep' <= Unsigned(engine.policy.limits["max-recursion"]) + 1
    BY <2>2, <2>3, <2>4
  <2>6. engine.policy.limits["max-reflections"] # Unset =>
          reflections' <= Unsigned(engine.policy.limits["max-reflections"]) + 1
    BY <2>3, <2>4
  <2> QED
    BY <1>1, <2>5, <2>6 DEF CountedWithin
<1>5. WithinPolicy'
  BY <1>1, <1>4, LimitsNext DEF IInv
<1>6. HaltEarned'
  <2>1. ASSUME HasPolicy, halted', NEW d \in Range(engine.required)
        PROVE  d.fragments \in answered \cup refused
    BY <2>1, HaltMeets DEF Asked
  <2> QED
    BY <1>1, <2>1, HaltNext
<1> QED
  BY <1>1, <1>2, <1>3, <1>5, <1>6

(* As does one that was, and the end of the program.                       *)
LEMMA StillKeeps ==
  ASSUME IInv, Governance, UNCHANGED <<vars, program, reflections>>, count' \in Nat,
         memo' \subseteq answered \cup refused, answered \subseteq answered', refused \subseteq refused',
         HasPolicy /\ halted' => \A d \in Range(engine.required) : d.fragments \in answered \cup refused
  PROVE  Governance'
<1> USE DEF Governance
<1>1. engine' = engine /\ (HasPolicy' <=> HasPolicy)
  BY DEF engine, HasPolicy
<1>2. WithinPolicy'
  BY <1>1, Zenon DEF WithinPolicy, Deep, vars
<1>3. HaltEarned'
  BY <1>1, HaltNext
<1> QED
  BY <1>1, <1>2, <1>3

LEMMA RecordsGrow ==
  ASSUME NEW reasons, Records(reasons)
  PROVE  answered \subseteq answered'
BY DEF Records

LEMMA NextGovernance == IInv /\ IInv' /\ Governance /\ [GovernedNext]_everything => Governance'
<1> SUFFICES ASSUME IInv, IInv', Governance, [GovernedNext]_everything
             PROVE  Governance'
  OBVIOUS
<1>1. [Next]_vars
  BY GovernedStep DEF IInv
<1>2. ASSUME NEW op, Asked(op), Continues, answered \subseteq answered'
      PROVE  Governance'
  <2>1. reflections' = reflections /\ ~halted'
    BY <1>2 DEF Continues, Asked
  <2> QED
    BY <1>1, <1>2, <2>1, AskedKeeps
<1>3. CASE RunPush
  BY <1>2, <1>3, RecordsGrow DEF RunPush
<1>4. CASE RunPop
  BY <1>2, <1>4, RecordsGrow DEF RunPop
<1>5. CASE RunCall
  BY <1>2, <1>5, RecordsGrow DEF RunCall
<1>6. CASE RunRet
  BY <1>2, <1>6, RecordsGrow DEF RunRet
<1>7. CASE RunRecursor
  BY <1>2, <1>7, RecordsGrow DEF RunRecursor
<1>8. ASSUME NEW n \in FrameSizes, RunStackAlloc(n)
      PROVE  Governance'
  BY <1>2, <1>8, RecordsGrow DEF RunStackAlloc
<1>9. ASSUME NEW n \in FrameSizes, NEW ptr \in StackStart .. StackBase, RunStackFree(ptr, n)
      PROVE  Governance'
  BY <1>2, <1>9, RecordsGrow DEF RunStackFree
<1>10. ASSUME NEW g \in Guards, NEW result \in {"pass", "fail"}, RunEnumIsVariant(g, result)
       PROVE  Governance'
  BY <1>2, <1>10, RecordsGrow DEF RunEnumIsVariant
<1>11. ASSUME NEW addr \in StackStart .. StackBase - 1, RunAxRead(addr)
       PROVE  Governance'
  BY <1>2, <1>11, RecordsGrow DEF RunAxRead
<1>12. ASSUME NEW hash \in Hashes, RunTLoadHash(hash)
       PROVE  Governance'
  <2>1. Asked("TLoadHash") /\ Continues /\ \E reasons : Records(reasons)
    BY <1>12 DEF RunTLoadHash
  <2> QED
    BY <1>2, <2>1, RecordsGrow
<1>13. CASE RunMetaReflect
  <2>1. Asked("MetaReflect") /\ answered \subseteq answered' /\ ~halted'
    BY <1>13, RecordsGrow DEF RunMetaReflect, Asked
  <2>2. reflections' \in {reflections, reflections + 1}
    BY <1>13 DEF RunMetaReflect
  <2> QED
    BY <1>1, <2>1, <2>2, AskedKeeps
<1>14. CASE RunOther
  BY <1>2, <1>14, RecordsGrow DEF RunOther
<1>15. CASE RunHalt
  <2>1. Asked("Halt") /\ answered \subseteq answered' /\ reflections' = reflections
    BY <1>15, RecordsGrow DEF RunHalt
  <2> QED
    BY <1>1, <2>1, AskedKeeps
<1>16. CASE RunOff
  <2>1. UNCHANGED <<vars, program, reflections, answered, refused, count>> /\ count' \in Nat
    BY <1>16 DEF RunOff, journal, Governance
  <2>2. memo' \subseteq answered \cup refused
    BY <1>16, FoundInLog DEF RunOff, Governance
  <2>3. ASSUME HasPolicy, halted', NEW d \in Range(engine.required)
        PROVE  d.fragments \in answered \cup refused
    <3>1. Answer("Halt", Unset, count).kind # "Deny"
      BY <1>16, <2>3 DEF RunOff
    <3> QED
      BY <2>3, <3>1, HaltMeets DEF Governance
  <2> QED
    BY <2>1, <2>2, <2>3, StillKeeps
<1>17. ASSUME NEW op \in Opcodes, Denied(op)
       PROVE  Governance'
  <2>1. UNCHANGED <<vars, program, reflections>> /\ ~halted'
    BY <1>17 DEF Denied
  <2>2. count' \in Nat
    BY <1>17 DEF Denied, Counted, Governance
  <2>3. memo' \subseteq answered \cup refused
    BY <1>17, FoundInLog DEF Denied, Governance
  <2>4. answered \subseteq answered' /\ refused \subseteq refused'
    BY <1>17 DEF Denied
  <2> QED
    BY <2>1, <2>2, <2>3, <2>4, StillKeeps
<1>18. CASE UNCHANGED everything
  <2>1. UNCHANGED <<vars, program, answered, refused, memo, count, reflections, halted>>
    BY <1>18 DEF everything, governor, journal
  <2> QED
    BY <2>1, StillKeeps DEF Governance, HaltEarned
<1> QED
  BY <1>3, <1>4, <1>5, <1>6, <1>7, <1>8, <1>9, <1>10, <1>11, <1>12, <1>13, <1>14, <1>15, <1>16, <1>17,
     <1>18 DEF GovernedNext

(* The engine remembers only what its log showed it, at every step.        *)
THEOREM GovernedInvariant == GovernedSpec => [](IInv /\ Governance)
<1>1. GovernedInit => IInv /\ Governance
  BY InitIInv, InitGovernance DEF GovernedInit
<1>2. IInv /\ Governance /\ [GovernedNext]_everything => (IInv /\ Governance)'
  <2>1. IInv => TypeOK
    BY DEF IInv
  <2> QED
    BY <2>1, GovernedStep, NextIInv, NextGovernance
<1> QED
  BY <1>1, <1>2, PTL DEF GovernedSpec

(* Whatever a program does, each limit of its policy is exceeded by what   *)
(* one instruction adds at most, and max-stack by nothing.                 *)
THEOREM WithinPolicyAlways == GovernedSpec => []WithinPolicy
<1>1. Governance => WithinPolicy
  BY DEF Governance
<1> QED
  BY <1>1, GovernedInvariant, PTL

(* A program that has halted met every requirement of its policy, or was   *)
(* denied an instruction whose record mentions what it had missed.         *)
THEOREM HaltEarnedAlways == GovernedSpec => []HaltEarned
<1>1. Governance => HaltEarned
  BY DEF Governance
<1> QED
  BY <1>1, GovernedInvariant, PTL

(* At every step the bytecode of the policy, and the policy that was       *)
(* stored with it and read back, would answer as its text does.            *)
THEOREM FormsAgreeAlways == GovernedSpec => []FormsAgree
<1>1. Governance => FormsAgree
  BY BytecodeAgreesHere, StoredAgreesHere DEF Governance, FormsAgree
<1> QED
  BY <1>1, GovernedInvariant, PTL

(* No policy lets the stack grow beyond its bound, nor the depth beyond    *)
(* the tier, nor entropy rise.                                             *)
THEOREM GovernedCallsSafe == GovernedSpec => [](PolicyBound /\ DepthWithinTier /\ EntropyDescends)
BY GovernedRefines, StackWithinPolicy, DepthSafe, EntropySafe, PTL
=============================================================================
