--------------------------- MODULE CanonFsProofs ----------------------------
(***************************************************************************)
(* Proofs about CanonFs for any number of drivers, objects and chunks, any *)
(* masks and any size of the cache: types, one writer per file and, with   *)
(* read verification, exact caches and the refinement of ContentStore.     *)
(*                                                                         *)
(* OneWriter is not inductive: a step must also know that what is being    *)
(* written is there (WritersHaveFiles) and that what is being removed is   *)
(* incomplete (RemovedIncomplete).  Then no step touches a complete file,  *)
(* on which caches and refinement rest (SealedStay).                       *)
(***************************************************************************)
EXTENDS CanonFs, FiniteSetTheorems, SequenceTheorems, TLAPS

FileTypes ==
  /\ file \in [Objects -> Nat \cup {NoFile}]
  /\ \A o \in Objects : file[o] # NoFile => file[o] <= Chunks[o]
  /\ stranded \subseteq Objects

CallTypes ==
  /\ call \in [Drivers -> Call]
  /\ result \in [Drivers -> Result]

CapTypes ==
  /\ cap \in [Objects -> Masks \cup {NoFile, Blank}]
  /\ knows \in [Drivers -> BOOLEAN]
  /\ capCache \in [Drivers -> [Objects -> Masks \cup {NoMask}]]
  /\ overtaken \in [Drivers -> SUBSET Objects]

CacheTypes ==
  /\ objCache \in [Drivers -> [Objects -> Nat \cup {NoFile}]]
  /\ lru \in [Drivers -> Seq(Objects)]

LEMMA TypeParts == TypeOK <=> FileTypes /\ CallTypes /\ CapTypes /\ CacheTypes
BY DEF TypeOK, FileTypes, CallTypes, CapTypes, CacheTypes

WritersHaveFiles ==
  \A d \in Drivers, o \in Objects :
    call[d] = InCall("fill", o) \/ call[d] = InCall("remove", o) => file[o] # NoFile

RemovedIncomplete ==
  \A d \in Drivers, o \in Objects : call[d] = InCall("remove", o) => ~Complete(o)

FilesSound == OneWriter /\ WritersHaveFiles /\ RemovedIncomplete

-----------------------------------------------------------------------------
(* Calls *)

(* The operations that a call may be in, and what it carries. *)
LEMMA CallFacts ==
  ASSUME CallTypes, NEW d \in Drivers
  PROVE  /\ \A op \in {"create", "fill", "remove", "load", "recount"} :
              call[d].op = op => call[d].obj \in Objects /\ call[d] = InCall(op, call[d].obj)
         /\ call[d].op = "publish" =>
              /\ call[d].obj \in Objects /\ call[d].mask \in Masks /\ call[d].linked \in BOOLEAN
              /\ call[d] = Publishing(call[d].obj, call[d].mask, call[d].linked)
         /\ call[d] # Idle => call[d].op # "idle"
<1>1. call[d] \in Call
  BY DEF CallTypes
<1>2. CASE call[d] = Idle
  BY <1>2 DEF Idle
<1>3. CASE \E op \in {"create", "fill", "remove", "load", "recount"}, o \in Objects :
             call[d] = InCall(op, o)
  BY <1>3 DEF InCall
<1>4. CASE \E o \in Objects, m \in Masks, l \in BOOLEAN : call[d] = Publishing(o, m, l)
  BY <1>4 DEF Publishing
<1> QED
  BY <1>1, <1>2, <1>3, <1>4 DEF Call

(* Operations are told apart, and so are the objects they work on. *)
LEMMA CallsDiffer ==
  /\ \A op, q, o, p : InCall(op, o) = InCall(q, p) => op = q /\ o = p
  /\ \A op, o : InCall(op, o) # Idle
  /\ \A op, o, p, m, l : op # "publish" => InCall(op, o) # Publishing(p, m, l)
BY DEF InCall, Idle, Publishing

(* The writers of an object write it, and nothing else. *)
LEMMA WriterCalls ==
  /\ \A o, p : InCall("fill", o) # InCall("remove", p)
  /\ \A o, p : InCall("fill", o) = InCall("fill", p) => o = p
  /\ \A o, p : InCall("remove", o) = InCall("remove", p) => o = p
BY DEF InCall

NotWriting(c) == \A o \in Objects : c # InCall("fill", o) /\ c # InCall("remove", o)

LEMMA NotWritingCalls ==
  /\ NotWriting(Idle)
  /\ \A o : NotWriting(InCall("create", o))
  /\ \A o : NotWriting(InCall("load", o))
  /\ \A o : NotWriting(InCall("recount", o))
  /\ \A o, m, l : NotWriting(Publishing(o, m, l))
  /\ \A c : c.op \notin {"fill", "remove"} => NotWriting(c)
BY DEF NotWriting, InCall, Idle, Publishing

(* A call that is replaced is replaced for its driver only. *)
LEMMA CallUpdate ==
  ASSUME CallTypes, NEW d \in Drivers, NEW c, NEW r, c \in Call, r \in Result,
         call' = [call EXCEPT ![d] = c], result' = [result EXCEPT ![d] = r]
  PROVE  /\ CallTypes'
         /\ call'[d] = c
         /\ \A e \in Drivers : e # d => call'[e] = call[e]
BY DEF CallTypes

(* The calls and results that the actions use are typed. *)
LEMMA CallsTyped ==
  /\ Idle \in Call
  /\ \A op \in {"create", "fill", "remove", "load", "recount"} :
       \A o \in Objects : InCall(op, o) \in Call
  /\ \A o \in Objects, m \in Masks, l \in BOOLEAN : Publishing(o, m, l) \in Call
  /\ NoResult \in Result
  /\ \A o \in Objects : Wrote(o) \in Result
  /\ \A o \in Objects : \A n \in Nat : Read(o, n) \in Result
BY DEF Call, Result, Read

-----------------------------------------------------------------------------
(* Files *)

(* What leaves files and their writers alone keeps them sound. *)
LEMMA BystanderSound ==
  ASSUME FilesSound, UNCHANGED <<file, stranded>>,
         \A e \in Drivers, o \in Objects :
           /\ call'[e] = InCall("fill", o) <=> call[e] = InCall("fill", o)
           /\ call'[e] = InCall("remove", o) <=> call[e] = InCall("remove", o)
  PROVE  FilesSound'
<1>1. \A o \in Objects : Writers(o)' = Writers(o) /\ Complete(o)' = Complete(o)
  BY DEF Writers, Complete
<1>2. OneWriter'
  BY <1>1 DEF FilesSound, OneWriter
<1>3. WritersHaveFiles'
  BY DEF FilesSound, WritersHaveFiles
<1>4. RemovedIncomplete'
  BY <1>1 DEF FilesSound, RemovedIncomplete
<1> QED
  BY <1>2, <1>3, <1>4 DEF FilesSound

(* A driver that is no writer before and after is a bystander. *)
LEMMA CallBystander ==
  ASSUME FilesSound, CallTypes, UNCHANGED <<file, stranded>>, NEW d \in Drivers, NEW c,
         call' = [call EXCEPT ![d] = c], NotWriting(call[d]), NotWriting(c)
  PROVE  FilesSound'
<1>1. call'[d] = c /\ \A e \in Drivers : e # d => call'[e] = call[e]
  BY DEF CallTypes
<1> QED
  BY <1>1, BystanderSound DEF NotWriting

-----------------------------------------------------------------------------
(* Types *)

LEMMA InitTypes == Init => TypeOK
BY StoreAssumption, EmptySeq DEF Init, TypeOK, Call, Result

(* Calls and results are typed by whatever ends a call or goes on with it. *)
LEMMA ReturnTypes ==
  ASSUME CallTypes, NEW d \in Drivers, NEW r \in Result, Return(d, r)
  PROVE  CallTypes'
BY CallUpdate, CallsTyped DEF Return

LEMMA ContinueTypes ==
  ASSUME CallTypes, NEW d \in Drivers, NEW c \in Call, Continue(d, c)
  PROVE  CallTypes'
BY CallUpdate, CallsTyped DEF Continue

LEMMA BeginTypes ==
  ASSUME TypeOK, NEW d \in Drivers, NEW o \in Objects, NEW perm, NEW op \in {"create", "load"},
         Begin(d, o, perm, op)
  PROVE  TypeOK'
<1>1. FileTypes' /\ CacheTypes'
  BY TypeParts DEF Begin, objects, FileTypes, CacheTypes
<1>2. CallTypes'
  BY TypeParts, ReturnTypes, ContinueTypes, CallsTyped DEF Begin
<1>3. CapTypes'
  <2>1. CASE knows[d] /\ capCache[d][o] = NoMask /\ ReadableCap(o)
    <3>1. cap[o] \in Masks
      BY <2>1 DEF TypeOK, ReadableCap
    <3>2. capCache' = [capCache EXCEPT ![d][o] = cap[o]]
      BY <2>1 DEF Begin, Remember
    <3>3. overtaken' = [overtaken EXCEPT ![d] = @ \ {o}]
      BY <2>1 DEF Begin, Remember
    <3>4. capCache' \in [Drivers -> [Objects -> Masks \cup {NoMask}]]
      BY <3>1, <3>2 DEF TypeOK
    <3>5. overtaken' \in [Drivers -> SUBSET Objects]
      BY <3>3 DEF TypeOK
    <3> QED
      BY <3>4, <3>5 DEF Begin, TypeOK, CapTypes
  <2>2. CASE ~(knows[d] /\ capCache[d][o] = NoMask /\ ReadableCap(o))
    BY <2>2 DEF Begin, Remember, TypeOK, CapTypes
  <2> QED
    BY <2>1, <2>2
<1> QED
  BY <1>1, <1>2, <1>3, TypeParts DEF FileTypes, CallTypes, CapTypes, CacheTypes, TypeOK

(* The four actions on capabilities. *)
LEMMA OvertakeTypes ==
  ASSUME CapTypes, NEW d \in Drivers, NEW o \in Objects, Overtake(d, o)
  PROVE  overtaken' \in [Drivers -> SUBSET Objects]
BY DEF CapTypes, Overtake

LEMMA OpenCapabilityTypes ==
  ASSUME TypeOK, NEW d \in Drivers, NEW o \in Objects, NEW m \in Masks, OpenCapability(d, o, m)
  PROVE  TypeOK'
<1>1. FileTypes' /\ CacheTypes'
  BY TypeParts DEF OpenCapability, objects, FileTypes, CacheTypes
<1>2. CallTypes'
  BY TypeParts, ContinueTypes, CallsTyped DEF OpenCapability
<1>3. CapTypes'
  BY TypeParts, OvertakeTypes DEF OpenCapability, CapTypes
<1> QED
  BY <1>1, <1>2, <1>3 DEF FileTypes, CallTypes, CapTypes, CacheTypes, TypeOK

LEMMA CloseCapabilityTypes ==
  ASSUME TypeOK, NEW d \in Drivers, CloseCapability(d)
  PROVE  TypeOK'
<1>1. FileTypes' /\ CacheTypes'
  BY TypeParts DEF CloseCapability, objects, FileTypes, CacheTypes
<1>2. CallTypes'
  BY TypeParts, ReturnTypes, CallsTyped DEF CloseCapability
<1>3. CapTypes'
  <2>1. call[d].obj \in Objects /\ call[d].mask \in Masks
    BY TypeParts, CallFacts DEF CloseCapability
  <2>2. cap' \in [Objects -> Masks \cup {NoFile, Blank}]
    BY <2>1 DEF CloseCapability, TypeOK
  <2>3. overtaken' \in [Drivers -> SUBSET Objects]
    <3>1. CASE Overtake(d, call[d].obj)
      BY <2>1, <3>1, TypeParts, OvertakeTypes
    <3>2. CASE overtaken' = [overtaken EXCEPT ![d] = @ \cup {call[d].obj}]
      BY <2>1, <3>2 DEF TypeOK
    <3> QED
      BY <3>1, <3>2 DEF CloseCapability
  <2>4. knows' \in [Drivers -> BOOLEAN]
    BY DEF CloseCapability, TypeOK
  <2>5. capCache' \in [Drivers -> [Objects -> Masks \cup {NoMask}]]
    BY <2>1 DEF CloseCapability, TypeOK
  <2> QED
    BY <2>2, <2>3, <2>4, <2>5 DEF CapTypes
<1> QED
  BY <1>1, <1>2, <1>3 DEF FileTypes, CallTypes, CapTypes, CacheTypes, TypeOK

(* The publishes that lose their file stay publishes. *)
LEMMA UnlinkedTypes ==
  ASSUME CallTypes, NEW d \in Drivers, NEW o \in Objects, RemoveCapability(d, o)
  PROVE  /\ CallTypes'
         /\ call'[d] = InCall("recount", o)
         /\ \A e \in Drivers : e # d =>
              \/ call'[e] = call[e]
              \/ DuringPublish(e, o) /\ call'[e] = Publishing(o, call[e].mask, FALSE)
<1> SUFFICES ASSUME NEW e \in Drivers
             PROVE  /\ call'[e] \in Call
                    /\ e = d => call'[e] = InCall("recount", o)
                    /\ e # d => \/ call'[e] = call[e]
                                \/ /\ DuringPublish(e, o)
                                   /\ call'[e] = Publishing(o, call[e].mask, FALSE)
  BY DEF CallTypes, RemoveCapability, Result
<1>1. CASE e = d
  BY <1>1, CallsTyped DEF RemoveCapability
<1>2. CASE e # d /\ ~DuringPublish(e, o)
  BY <1>2 DEF RemoveCapability, CallTypes
<1>3. CASE e # d /\ DuringPublish(e, o)
  <2>1. call[e].mask \in Masks
    BY <1>3, CallFacts DEF DuringPublish
  <2>2. call'[e] = Publishing(o, call[e].mask, FALSE)
    BY <1>3 DEF RemoveCapability
  <2> QED
    BY <1>3, <2>1, <2>2, CallsTyped
<1> QED
  BY <1>1, <1>2, <1>3

LEMMA RemoveCapabilityTypes ==
  ASSUME TypeOK, NEW d \in Drivers, NEW o \in Objects, RemoveCapability(d, o)
  PROVE  TypeOK'
<1>1. FileTypes' /\ CacheTypes'
  BY TypeParts DEF RemoveCapability, objects, FileTypes, CacheTypes
<1>2. CallTypes'
  BY TypeParts, UnlinkedTypes
<1>3. CapTypes'
  BY TypeParts, OvertakeTypes DEF RemoveCapability, CapTypes
<1> QED
  BY <1>1, <1>2, <1>3 DEF FileTypes, CallTypes, CapTypes, CacheTypes, TypeOK

LEMMA RecountTypes ==
  ASSUME TypeOK, NEW d \in Drivers, Recount(d)
  PROVE  TypeOK'
<1>1. FileTypes' /\ CacheTypes'
  BY TypeParts DEF Recount, objects, FileTypes, CacheTypes
<1>2. CallTypes'
  BY TypeParts, ReturnTypes, CallsTyped DEF Recount
<1>3. CapTypes'
  BY TypeParts, CallFacts DEF Recount, CapTypes, DropMask, AnyCapability
<1> QED
  BY <1>1, <1>2, <1>3 DEF FileTypes, CallTypes, CapTypes, CacheTypes, TypeOK

(* The actions on objects. *)
LEMMA FileUpdate ==
  ASSUME FileTypes, NEW o \in Objects, NEW n \in Nat, n <= Chunks[o],
         file' = [file EXCEPT ![o] = n], stranded' = stranded
  PROVE  FileTypes'
<1>1. file' \in [Objects -> Nat \cup {NoFile}]
  BY DEF FileTypes
<1>2. ASSUME NEW p \in Objects, file'[p] # NoFile PROVE file'[p] <= Chunks[p]
  <2>1. CASE p = o
    BY <2>1 DEF FileTypes
  <2>2. CASE p # o
    BY <1>2, <2>2 DEF FileTypes
  <2> QED
    BY <2>1, <2>2
<1> QED
  BY <1>1, <1>2 DEF FileTypes

LEMMA CreateTypes ==
  ASSUME TypeOK, NEW d \in Drivers, Create(d)
  PROVE  TypeOK'
<1>1. CapTypes' /\ CacheTypes'
  BY TypeParts DEF Create, rights, cache, CapTypes, CacheTypes
<1>2. PICK o \in Objects : o = call[d].obj
  BY TypeParts, CallFacts DEF Create
<1>3. CallTypes'
  BY <1>2, TypeParts, ReturnTypes, ContinueTypes, CallsTyped DEF Create
<1>4. FileTypes'
  <2>1. 0 \in Nat /\ 0 <= Chunks[o]
    BY StoreAssumption
  <2>2. CASE file' = file
    BY <2>2 DEF Create, TypeOK, FileTypes
  <2>3. CASE file' # file
    BY <1>2, <2>1, <2>3, TypeParts, FileUpdate DEF Create
  <2> QED
    BY <2>2, <2>3
<1> QED
  BY <1>1, <1>3, <1>4 DEF FileTypes, CallTypes, CapTypes, CacheTypes, TypeOK

(* A file that is being written has room for another chunk. *)
LEMMA Room ==
  ASSUME TypeOK, NEW o \in Objects, file[o] # NoFile, ~Complete(o)
  PROVE  file[o] \in Nat /\ Chunks[o] \in Nat /\ file[o] + 1 \in Nat /\ file[o] + 1 <= Chunks[o]
<1>1. file[o] \in Nat /\ file[o] <= Chunks[o]
  BY DEF TypeOK
<1>2. Chunks[o] \in Nat
  BY StoreAssumption
<1> QED
  BY <1>1, <1>2 DEF Complete

LEMMA WriteChunkTypes ==
  ASSUME TypeOK, WritersHaveFiles, NEW d \in Drivers, WriteChunk(d)
  PROVE  TypeOK'
<1>1. CapTypes' /\ CacheTypes' /\ CallTypes'
  BY TypeParts DEF WriteChunk, rights, cache, CapTypes, CacheTypes, CallTypes
<1>2. PICK o \in Objects : o = call[d].obj /\ call[d] = InCall("fill", o)
  BY TypeParts, CallFacts DEF WriteChunk
<1>3. file[o] + 1 \in Nat /\ file[o] + 1 <= Chunks[o]
  BY <1>2, Room DEF WritersHaveFiles, WriteChunk
<1>4. FileTypes'
  BY <1>2, <1>3, TypeParts, FileUpdate DEF WriteChunk
<1> QED
  BY <1>1, <1>4 DEF FileTypes, CallTypes, CapTypes, CacheTypes, TypeOK

LEMMA WriteFailsTypes ==
  ASSUME TypeOK, NEW d \in Drivers, WriteFails(d)
  PROVE  TypeOK'
<1>1. FileTypes' /\ CapTypes' /\ CacheTypes'
  BY TypeParts DEF WriteFails, rights, objects, FileTypes, CapTypes, CacheTypes
<1>2. CallTypes'
  BY TypeParts, CallFacts, ContinueTypes, CallsTyped DEF WriteFails
<1> QED
  BY <1>1, <1>2 DEF FileTypes, CallTypes, CapTypes, CacheTypes, TypeOK

LEMMA RemovePartialTypes ==
  ASSUME TypeOK, NEW d \in Drivers, RemovePartial(d)
  PROVE  TypeOK'
<1>1. CapTypes' /\ CacheTypes'
  BY TypeParts DEF RemovePartial, rights, cache, CapTypes, CacheTypes
<1>2. call[d].obj \in Objects
  BY TypeParts, CallFacts DEF RemovePartial
<1>3. CallTypes'
  BY TypeParts, ReturnTypes, CallsTyped DEF RemovePartial
<1>4. FileTypes'
  BY <1>2 DEF RemovePartial, TypeOK, FileTypes
<1> QED
  BY <1>1, <1>3, <1>4 DEF FileTypes, CallTypes, CapTypes, CacheTypes, TypeOK

LEMMA InsertTypes ==
  ASSUME CacheTypes, NEW d \in Drivers, NEW o \in Objects, NEW n \in Nat, CacheInsert(d, o, n)
  PROVE  CacheTypes'
<1> DEFINE kept == IF Cardinality(Cached(d)) >= CacheSize
                   THEN [objCache[d] EXCEPT ![Last(lru[d])] = NoFile] ELSE objCache[d]
           list == IF Cardinality(Cached(d)) >= CacheSize THEN Front(lru[d]) ELSE lru[d]
<1>1. objCache' = [objCache EXCEPT ![d] = [kept EXCEPT ![o] = n]]
  BY DEF CacheInsert
<1>2. lru' = [lru EXCEPT ![d] = <<o>> \o list]
  BY DEF CacheInsert
<1>3. kept \in [Objects -> Nat \cup {NoFile}]
  BY DEF CacheTypes
<1>4. list \in Seq(Objects)
  BY DEF CacheTypes, Front
<1> HIDE DEF kept, list
<1>5. <<o>> \o list \in Seq(Objects)
  BY <1>4
<1> QED
  BY <1>1, <1>2, <1>3, <1>5 DEF CacheTypes

LEMMA FinishWriteTypes ==
  ASSUME TypeOK, NEW d \in Drivers, FinishWrite(d)
  PROVE  TypeOK'
<1>1. CapTypes' /\ FileTypes'
  BY TypeParts DEF FinishWrite, rights, CapTypes, FileTypes
<1>2. call[d].obj \in Objects
  BY TypeParts, CallFacts DEF FinishWrite
<1>3. CallTypes'
  BY <1>2, TypeParts, ReturnTypes, CallsTyped DEF FinishWrite
<1>4. file[call[d].obj] \in Nat
  BY <1>2, StoreAssumption DEF FinishWrite, Complete
<1>5. CacheTypes'
  BY <1>2, <1>4, TypeParts, InsertTypes DEF FinishWrite
<1> QED
  BY <1>1, <1>3, <1>5 DEF FileTypes, CallTypes, CapTypes, CacheTypes, TypeOK

LEMMA RemoveAtType ==
  ASSUME NEW S, NEW s \in Seq(S), NEW i \in DOMAIN s
  PROVE  RemoveAt(s, i) \in Seq(S)
BY DEF RemoveAt

LEMMA LoadCachedTypes ==
  ASSUME TypeOK, NEW d \in Drivers, LoadCached(d)
  PROVE  TypeOK'
<1>1. CapTypes' /\ FileTypes'
  BY TypeParts DEF LoadCached, rights, CapTypes, FileTypes
<1>2. PICK o \in Objects : o = call[d].obj /\ o \in Cached(d)
  BY TypeParts, CallFacts DEF LoadCached
<1>3. objCache[d][o] \in Nat
  BY <1>2 DEF Cached, TypeOK
<1>4. CallTypes'
  BY <1>2, <1>3, TypeParts, ReturnTypes, CallsTyped DEF LoadCached
<1>5. CacheTypes'
  <2>1. CASE lru' = lru
    BY <2>1 DEF LoadCached, CacheTypes, TypeOK
  <2>2. CASE lru' # lru
    <3>1. PICK i \in DOMAIN lru[d] : lru' = [lru EXCEPT ![d] = <<o>> \o RemoveAt(@, i)]
      BY <1>2, <2>2 DEF LoadCached
    <3>2. <<o>> \o RemoveAt(lru[d], i) \in Seq(Objects)
      BY RemoveAtType DEF TypeOK
    <3> QED
      BY <3>1, <3>2 DEF LoadCached, CacheTypes, TypeOK
  <2> QED
    BY <2>1, <2>2
<1> QED
  BY <1>1, <1>4, <1>5 DEF FileTypes, CallTypes, CapTypes, CacheTypes, TypeOK

LEMMA LoadFileTypes ==
  ASSUME TypeOK, NEW d \in Drivers, LoadFile(d)
  PROVE  TypeOK'
<1>1. CapTypes' /\ FileTypes'
  BY TypeParts DEF LoadFile, rights, CapTypes, FileTypes
<1>2. PICK o \in Objects : o = call[d].obj
  BY TypeParts, CallFacts DEF LoadFile
<1>3. CASE Return(d, NoResult) /\ UNCHANGED cache
  BY <1>1, <1>3, TypeParts, ReturnTypes, CallsTyped
     DEF cache, FileTypes, CallTypes, CapTypes, CacheTypes, TypeOK
<1>4. CASE /\ file[o] # NoFile
           /\ CacheInsert(d, o, file[o])
           /\ Return(d, Read(o, file[o]))
  <2>1. file[o] \in Nat
    BY <1>4 DEF TypeOK
  <2>2. CallTypes' /\ CacheTypes'
    BY <1>4, <2>1, TypeParts, ReturnTypes, CallsTyped, InsertTypes
  <2> QED
    BY <1>1, <2>2 DEF FileTypes, CallTypes, CapTypes, CacheTypes, TypeOK
<1> QED
  BY <1>2, <1>3, <1>4 DEF LoadFile

LEMMA ReopenTypes ==
  ASSUME TypeOK, NEW d \in Drivers, Reopen(d)
  PROVE  TypeOK'
<1>1. CallTypes'
  BY TypeParts, ReturnTypes, CallsTyped DEF Reopen
<1>2. FileTypes'
  <2>1. call[d].op \in {"fill", "remove"} => call[d].obj \in Objects
    BY TypeParts, CallFacts
  <2> QED
    BY <2>1 DEF Reopen, FileTypes, TypeOK
<1>3. CapTypes'
  BY DEF Reopen, CapTypes, TypeOK, AnyCapability
<1>4. CacheTypes'
  BY DEF Reopen, CacheTypes, TypeOK
<1> QED
  BY <1>1, <1>2, <1>3, <1>4 DEF FileTypes, CallTypes, CapTypes, CacheTypes, TypeOK

LEMMA TypeStep == TypeOK /\ WritersHaveFiles /\ [Next]_vars => TypeOK'
<1> SUFFICES ASSUME TypeOK, WritersHaveFiles, [Next]_vars
             PROVE  TypeOK'
  OBVIOUS
<1>1. CASE UNCHANGED vars
  BY <1>1 DEF vars, TypeOK
<1>2. CASE Next
  <2> PICK d \in Drivers :
        \/ \E o \in Objects :
             \/ StartWrite(d, o) \/ StartRead(d, o) \/ RemoveCapability(d, o)
             \/ \E m \in Masks : OpenCapability(d, o, m)
        \/ Create(d) \/ WriteChunk(d) \/ WriteFails(d) \/ RemovePartial(d) \/ FinishWrite(d)
        \/ LoadCached(d) \/ LoadFile(d)
        \/ CloseCapability(d) \/ Recount(d)
        \/ Reopen(d)
    BY <1>2 DEF Next
  <2>1. ASSUME NEW o \in Objects, StartWrite(d, o) \/ StartRead(d, o) PROVE TypeOK'
    BY <2>1, BeginTypes DEF StartWrite, StartRead
  <2>2. ASSUME NEW o \in Objects, RemoveCapability(d, o) PROVE TypeOK'
    BY <2>2, RemoveCapabilityTypes
  <2>3. ASSUME NEW o \in Objects, NEW m \in Masks, OpenCapability(d, o, m) PROVE TypeOK'
    BY <2>3, OpenCapabilityTypes
  <2>4. CASE Create(d) \/ WriteChunk(d) \/ WriteFails(d) \/ RemovePartial(d) \/ FinishWrite(d)
    BY <2>4, CreateTypes, WriteChunkTypes, WriteFailsTypes, RemovePartialTypes, FinishWriteTypes
  <2>5. CASE LoadCached(d) \/ LoadFile(d) \/ CloseCapability(d) \/ Recount(d) \/ Reopen(d)
    BY <2>5, LoadCachedTypes, LoadFileTypes, CloseCapabilityTypes, RecountTypes, ReopenTypes
  <2> QED
    BY <2>1, <2>2, <2>3, <2>4, <2>5
<1> QED
  BY <1>1, <1>2

-----------------------------------------------------------------------------
(* One writer *)

(* A writer that withdraws leaves nothing, a complete file or one that is  *)
(* known to be stranded.                                                   *)
LEMMA WithdrawSound ==
  ASSUME FilesSound, CallTypes, NEW d \in Drivers, NEW c, NEW o \in Objects,
         d \in Writers(o),
         call' = [call EXCEPT ![d] = c],
         NotWriting(c),
         \A p \in Objects \ {o} : file'[p] = file[p],
         stranded \subseteq stranded',
         file'[o] = NoFile \/ Complete(o)' \/ o \in stranded'
  PROVE  FilesSound'
<1>1. call'[d] = c /\ \A e \in Drivers : e # d => call'[e] = call[e]
  BY DEF CallTypes
<1>2. \A p \in Objects : Writers(p)' = Writers(p) \ {d}
  BY <1>1 DEF Writers, NotWriting
<1>3. \A e \in Writers(o) : e = d
  BY DEF FilesSound, OneWriter
<1>4. \A p \in Objects \ {o} : Complete(p)' <=> Complete(p)
  BY DEF Complete
<1>5. ASSUME NEW p \in Objects
      PROVE  /\ \A e, f \in Writers(p)' : e = f
             /\ file'[p] # NoFile /\ ~Complete(p)' => Writers(p)' # {} \/ p \in stranded'
  <2>1. \A e, f \in Writers(p)' : e = f
    BY <1>2 DEF FilesSound, OneWriter
  <2>2. CASE p = o
    BY <2>1, <2>2
  <2>3. CASE p # o
    <3>1. d \notin Writers(p)
      BY <2>3, WriterCalls DEF Writers
    <3>2. Writers(p)' = Writers(p)
      BY <1>2, <3>1
    <3> QED
      BY <1>4, <2>1, <2>3, <3>2 DEF FilesSound, OneWriter
  <2> QED
    BY <2>2, <2>3
<1>6. OneWriter'
  BY <1>5 DEF OneWriter
<1>7. ASSUME NEW e \in Drivers, NEW p \in Objects,
             call'[e] = InCall("fill", p) \/ call'[e] = InCall("remove", p)
      PROVE  p # o /\ call[e] = call'[e]
  <2>1. e \in Writers(p)'
    BY <1>7 DEF Writers
  <2>2. e # d /\ e \in Writers(p)
    BY <1>2, <2>1
  <2> QED
    BY <1>1, <1>3, <2>2
<1>8. WritersHaveFiles'
  BY <1>7 DEF FilesSound, WritersHaveFiles
<1>9. RemovedIncomplete'
  BY <1>4, <1>7 DEF FilesSound, RemovedIncomplete
<1> QED
  BY <1>6, <1>8, <1>9 DEF FilesSound

LEMMA BeginFiles ==
  ASSUME TypeOK, FilesSound, NEW d \in Drivers, NEW o \in Objects, NEW perm,
         NEW op \in {"create", "load"}, Begin(d, o, perm, op)
  PROVE  FilesSound'
<1>1. NotWriting(call[d]) /\ UNCHANGED <<file, stranded>>
  BY NotWritingCalls DEF Begin, objects
<1>2. NotWriting(InCall(op, o)) /\ NotWriting(Idle)
  BY NotWritingCalls
<1>3. \/ call' = [call EXCEPT ![d] = InCall(op, o)]
      \/ call' = [call EXCEPT ![d] = Idle]
  BY DEF Begin, Continue, Return
<1> QED
  BY <1>1, <1>2, <1>3, TypeParts, CallBystander

LEMMA OpenCapabilityFiles ==
  ASSUME TypeOK, FilesSound, NEW d \in Drivers, NEW o \in Objects, NEW m \in Masks,
         OpenCapability(d, o, m)
  PROVE  FilesSound'
<1>1. NotWriting(call[d]) /\ UNCHANGED <<file, stranded>>
  BY NotWritingCalls DEF OpenCapability, objects
<1>2. call' = [call EXCEPT ![d] = Publishing(o, m, TRUE)]
  BY DEF OpenCapability, Continue
<1> QED
  BY <1>1, <1>2, TypeParts, CallBystander, NotWritingCalls

LEMMA RemoveCapabilityFiles ==
  ASSUME TypeOK, FilesSound, NEW d \in Drivers, NEW o \in Objects, RemoveCapability(d, o)
  PROVE  FilesSound'
<1>1. UNCHANGED <<file, stranded>>
  BY DEF RemoveCapability, objects
<1>2. ASSUME NEW e \in Drivers
      PROVE  call'[e] = call[e] \/ (NotWriting(call[e]) /\ NotWriting(call'[e]))
  <2>1. CASE e = d
    <3>1. call[e] = Idle /\ call'[e] = InCall("recount", o)
      BY <2>1, TypeParts, UnlinkedTypes DEF RemoveCapability
    <3> QED
      BY <3>1, NotWritingCalls
  <2>2. CASE DuringPublish(e, o) /\ call'[e] = Publishing(o, call[e].mask, FALSE)
    BY <2>2, NotWritingCalls DEF DuringPublish
  <2> QED
    BY <2>1, <2>2, TypeParts, UnlinkedTypes
<1> QED
  BY <1>1, <1>2, BystanderSound DEF NotWriting

(* What ends a call that was not writing. *)
LEMMA EndedFiles ==
  ASSUME TypeOK, FilesSound, NEW d \in Drivers,
         CloseCapability(d) \/ Recount(d) \/ LoadCached(d) \/ LoadFile(d)
  PROVE  FilesSound'
<1>1. call[d].op \notin {"fill", "remove"}
  BY DEF CloseCapability, Recount, LoadCached, LoadFile
<1>2. NotWriting(call[d]) /\ NotWriting(Idle)
  BY <1>1, NotWritingCalls
<1>3. call' = [call EXCEPT ![d] = Idle]
  BY DEF CloseCapability, Recount, LoadCached, LoadFile, Return
<1>4. UNCHANGED <<file, stranded>>
  BY DEF CloseCapability, Recount, LoadCached, LoadFile, objects
<1> QED
  BY <1>2, <1>3, <1>4, TypeParts, CallBystander

(* Nobody else writes what is not there. *)
LEMMA CreateFiles ==
  ASSUME TypeOK, FilesSound, NEW d \in Drivers, Create(d)
  PROVE  FilesSound'
<1>1. PICK o \in Objects : o = call[d].obj /\ call[d] = InCall("create", o)
  BY TypeParts, CallFacts DEF Create
<1>2. CASE file[o] # NoFile
  <2>1. call' = [call EXCEPT ![d] = Idle] /\ UNCHANGED <<file, stranded>>
    BY <1>1, <1>2 DEF Create, Return
  <2>2. NotWriting(call[d]) /\ NotWriting(Idle)
    BY <1>1, NotWritingCalls
  <2> QED
    BY <2>1, <2>2, TypeParts, CallBystander
<1>3. CASE file[o] = NoFile
  <2>1. call' = [call EXCEPT ![d] = InCall("fill", o)] /\ file' = [file EXCEPT ![o] = 0]
        /\ stranded' = stranded
    BY <1>1, <1>3 DEF Create, Continue
  <2>2. call'[d] = InCall("fill", o) /\ \A e \in Drivers : e # d => call'[e] = call[e]
    BY <2>1, TypeParts DEF CallTypes
  <2>3. file'[o] = 0 /\ 0 # NoFile /\ \A p \in Objects \ {o} : file'[p] = file[p]
    BY <2>1, StoreAssumption DEF TypeOK
  <2>4. Writers(o) = {}
    BY <1>3 DEF FilesSound, WritersHaveFiles, Writers
  <2>5. Writers(o)' = {d}
    BY <2>2, <2>4 DEF Writers
  <2>6. ASSUME NEW p \in Objects, p # o PROVE Writers(p)' = Writers(p)
    <3>1. call[d] \notin {InCall("fill", p), InCall("remove", p)}
      BY <1>1, NotWritingCalls DEF NotWriting
    <3>2. call'[d] \notin {InCall("fill", p), InCall("remove", p)}
      BY <2>2, <2>6, WriterCalls
    <3> QED
      BY <2>2, <3>1, <3>2 DEF Writers
  <2>7. OneWriter'
    BY <2>1, <2>3, <2>5, <2>6 DEF FilesSound, OneWriter, Complete
  <2>8. WritersHaveFiles'
    BY <2>2, <2>3, WriterCalls DEF FilesSound, WritersHaveFiles
  <2>9. RemovedIncomplete'
    <3>1. \A e \in Drivers, p \in Objects :
            call'[e] = InCall("remove", p) => p # o /\ call[e] = call'[e]
      BY <1>3, <2>2, WriterCalls DEF FilesSound, WritersHaveFiles
    <3> QED
      BY <2>3, <3>1 DEF FilesSound, RemovedIncomplete, Complete
  <2> QED
    BY <2>7, <2>8, <2>9 DEF FilesSound
<1> QED
  BY <1>2, <1>3

(* The one writer of a file is not removing it while it writes. *)
LEMMA WriteChunkFiles ==
  ASSUME TypeOK, FilesSound, NEW d \in Drivers, WriteChunk(d)
  PROVE  FilesSound'
<1>1. PICK o \in Objects : o = call[d].obj /\ call[d] = InCall("fill", o)
  BY TypeParts, CallFacts DEF WriteChunk
<1>2. call' = call /\ stranded' = stranded /\ file' = [file EXCEPT ![o] = @ + 1]
  BY <1>1 DEF WriteChunk
<1>3. file[o] + 1 \in Nat
  BY <1>1, Room DEF FilesSound, WritersHaveFiles, WriteChunk
<1>4. file'[o] # NoFile /\ \A p \in Objects \ {o} : file'[p] = file[p]
  BY <1>2, <1>3, StoreAssumption DEF TypeOK
<1>5. \A p \in Objects : Writers(p)' = Writers(p)
  BY <1>2 DEF Writers
<1>6. d \in Writers(o)
  BY <1>1 DEF Writers
<1>7. OneWriter'
  BY <1>2, <1>4, <1>5, <1>6 DEF FilesSound, OneWriter, Complete
<1>8. WritersHaveFiles'
  BY <1>2, <1>4 DEF FilesSound, WritersHaveFiles
<1>9. RemovedIncomplete'
  <2>1. ASSUME NEW e \in Drivers, call[e] = InCall("remove", o) PROVE FALSE
    <3>1. e \in Writers(o)
      BY <2>1 DEF Writers
    <3>2. e = d
      BY <1>6, <3>1 DEF FilesSound, OneWriter
    <3> QED
      BY <1>1, <2>1, <3>2, WriterCalls
  <2> QED
    BY <1>2, <1>4, <2>1 DEF FilesSound, RemovedIncomplete, Complete
<1> QED
  BY <1>7, <1>8, <1>9 DEF FilesSound

LEMMA WriteFailsFiles ==
  ASSUME TypeOK, FilesSound, NEW d \in Drivers, WriteFails(d)
  PROVE  FilesSound'
<1>1. PICK o \in Objects : o = call[d].obj /\ call[d] = InCall("fill", o)
  BY TypeParts, CallFacts DEF WriteFails
<1>2. UNCHANGED <<file, stranded>> /\ ~Complete(o)
  BY <1>1 DEF WriteFails, objects
<1>3. call'[d] = InCall("remove", o) /\ \A e \in Drivers : e # d => call'[e] = call[e]
  BY <1>1, TypeParts DEF WriteFails, Continue, CallTypes
<1>4. ASSUME NEW p \in Objects PROVE Writers(p)' = Writers(p)
  <2>1. d \in Writers(p)' <=> d \in Writers(p)
    BY <1>1, <1>3, WriterCalls DEF Writers
  <2>2. \A e \in Drivers : e # d => (e \in Writers(p)' <=> e \in Writers(p))
    BY <1>3 DEF Writers
  <2> QED
    BY <2>1, <2>2 DEF Writers
<1>5. OneWriter'
  BY <1>2, <1>4 DEF FilesSound, OneWriter, Complete
<1>6. WritersHaveFiles'
  <2>1. file[o] # NoFile
    BY <1>1 DEF FilesSound, WritersHaveFiles
  <2>2. ASSUME NEW e \in Drivers, NEW p \in Objects, call'[e] = InCall("fill", p) \/ call'[e] = InCall("remove", p)
        PROVE  file[p] # NoFile
    <3>1. CASE e = d
      <4>1. p = o
        BY <1>3, <2>2, <3>1, WriterCalls
      <4> QED
        BY <2>1, <4>1
    <3>2. CASE e # d
      BY <1>3, <2>2, <3>2 DEF FilesSound, WritersHaveFiles
    <3> QED
      BY <3>1, <3>2
  <2> QED
    BY <1>2, <2>2 DEF WritersHaveFiles
<1>7. RemovedIncomplete'
  BY <1>2, <1>3, WriterCalls DEF FilesSound, RemovedIncomplete, Complete
<1> QED
  BY <1>5, <1>6, <1>7 DEF FilesSound

LEMMA RemovePartialFiles ==
  ASSUME TypeOK, FilesSound, NEW d \in Drivers, RemovePartial(d)
  PROVE  FilesSound'
<1>1. PICK o \in Objects : o = call[d].obj /\ call[d] = InCall("remove", o)
  BY TypeParts, CallFacts DEF RemovePartial
<1>2. d \in Writers(o) /\ call' = [call EXCEPT ![d] = Idle]
  BY <1>1 DEF Writers, RemovePartial, Return
<1>3. /\ \A p \in Objects \ {o} : file'[p] = file[p]
      /\ stranded \subseteq stranded'
      /\ file'[o] = NoFile \/ o \in stranded'
  BY <1>1 DEF RemovePartial, TypeOK
<1> QED
  BY <1>2, <1>3, WithdrawSound, TypeParts, NotWritingCalls

LEMMA FinishWriteFiles ==
  ASSUME TypeOK, FilesSound, NEW d \in Drivers, FinishWrite(d)
  PROVE  FilesSound'
<1>1. PICK o \in Objects : o = call[d].obj /\ call[d] = InCall("fill", o)
  BY TypeParts, CallFacts DEF FinishWrite
<1>2. d \in Writers(o) /\ call' = [call EXCEPT ![d] = Idle]
  BY <1>1 DEF Writers, FinishWrite, Return
<1>3. file' = file /\ stranded' = stranded /\ Complete(o)'
  BY <1>1 DEF FinishWrite, Complete
<1> QED
  BY <1>2, <1>3, WithdrawSound, TypeParts, NotWritingCalls

LEMMA ReopenFiles ==
  ASSUME TypeOK, FilesSound, NEW d \in Drivers, Reopen(d)
  PROVE  FilesSound'
<1>1. call' = [call EXCEPT ![d] = Idle] /\ file' = file
  BY DEF Reopen, Return
<1>2. CASE call[d].op \notin {"fill", "remove"}
  <2>1. stranded' = stranded
    BY <1>2 DEF Reopen
  <2>2. NotWriting(call[d]) /\ NotWriting(Idle)
    BY <1>2, NotWritingCalls
  <2> QED
    BY <1>1, <2>1, <2>2, TypeParts, CallBystander
<1>3. CASE call[d].op \in {"fill", "remove"}
  <2>1. PICK o \in Objects : o = call[d].obj /\ d \in Writers(o)
    BY <1>3, TypeParts, CallFacts DEF Writers
  <2>2. stranded \subseteq stranded' /\ (Complete(o)' \/ o \in stranded')
    BY <1>1, <1>3, <2>1 DEF Reopen, Complete
  <2> QED
    BY <1>1, <2>1, <2>2, WithdrawSound, TypeParts, NotWritingCalls
<1> QED
  BY <1>2, <1>3

LEMMA FilesStep == TypeOK /\ FilesSound /\ [Next]_vars => FilesSound'
<1> SUFFICES ASSUME TypeOK, FilesSound, [Next]_vars
             PROVE  FilesSound'
  OBVIOUS
<1>1. CASE UNCHANGED vars
  BY <1>1, BystanderSound DEF vars
<1>2. CASE Next
  <2> PICK d \in Drivers :
        \/ \E o \in Objects :
             \/ StartWrite(d, o) \/ StartRead(d, o) \/ RemoveCapability(d, o)
             \/ \E m \in Masks : OpenCapability(d, o, m)
        \/ Create(d) \/ WriteChunk(d) \/ WriteFails(d) \/ RemovePartial(d) \/ FinishWrite(d)
        \/ LoadCached(d) \/ LoadFile(d)
        \/ CloseCapability(d) \/ Recount(d)
        \/ Reopen(d)
    BY <1>2 DEF Next
  <2>1. ASSUME NEW o \in Objects, StartWrite(d, o) \/ StartRead(d, o) PROVE FilesSound'
    BY <2>1, BeginFiles DEF StartWrite, StartRead
  <2>2. ASSUME NEW o \in Objects, RemoveCapability(d, o) PROVE FilesSound'
    BY <2>2, RemoveCapabilityFiles
  <2>3. ASSUME NEW o \in Objects, NEW m \in Masks, OpenCapability(d, o, m) PROVE FilesSound'
    BY <2>3, OpenCapabilityFiles
  <2>4. CASE Create(d) \/ WriteChunk(d) \/ WriteFails(d) \/ RemovePartial(d) \/ FinishWrite(d)
    BY <2>4, CreateFiles, WriteChunkFiles, WriteFailsFiles, RemovePartialFiles, FinishWriteFiles
  <2>5. CASE LoadCached(d) \/ LoadFile(d) \/ CloseCapability(d) \/ Recount(d) \/ Reopen(d)
    BY <2>5, EndedFiles, ReopenFiles
  <2> QED
    BY <2>1, <2>2, <2>3, <2>4, <2>5
<1> QED
  BY <1>1, <1>2

LEMMA InitFiles == Init => FilesSound
BY CallsDiffer DEF Init, FilesSound, OneWriter, WritersHaveFiles, RemovedIncomplete, Writers

THEOREM SoundAlways == Spec => [](TypeOK /\ FilesSound)
<1>1. Init => TypeOK /\ FilesSound
  BY InitTypes, InitFiles
<1>2. TypeOK /\ FilesSound /\ [Next]_vars => (TypeOK /\ FilesSound)'
  BY TypeStep, FilesStep DEF FilesSound
<1> QED
  BY <1>1, <1>2, PTL DEF Spec

(* The state keeps its shape: no file outgrows its object, whatever the    *)
(* drivers on a root do at the same time and wherever they stop.           *)
THEOREM FsTypeCorrect == Spec => []TypeOK
BY SoundAlways, PTL

(* One driver at a time fills an object's file (O_EXCL), and an incomplete *)
(* file has a writer, or its writer died or failed to clean it up.         *)
THEOREM OneWriterAlways == Spec => []OneWriter
<1>1. FilesSound => OneWriter
  BY DEF FilesSound
<1> QED
  BY <1>1, SoundAlways, PTL

-----------------------------------------------------------------------------
(* Lists without repetition *)

Distinct(s) == \A i, j \in 1 .. Len(s) : s[i] = s[j] => i = j

LEMMA Members ==
  ASSUME NEW S, NEW s \in Seq(S)
  PROVE  \A x : x \in ToSet(s) <=> \E i \in 1 .. Len(s) : s[i] = x
BY DEF ToSet

(* Such a list has as many elements as its set. *)
LEMMA CountDistinct ==
  ASSUME NEW S, NEW s \in Seq(S), Distinct(s)
  PROVE  Cardinality(ToSet(s)) = Len(s)
<1>1. s \in [1 .. Len(s) -> ToSet(s)]
  BY LenProperties DEF ToSet
<1>2. \A i, j \in 1 .. Len(s) : s[i] = s[j] => i = j
  BY DEF Distinct
<1>3. \A x \in ToSet(s) : \E i \in 1 .. Len(s) : s[i] = x
  BY Members
<1>4. s \in Bijection(1 .. Len(s), ToSet(s))
  BY <1>1, <1>2, <1>3 DEF Bijection, Injection, IsInjective, Surjection
<1>5. ExistsBijection(1 .. Len(s), ToSet(s))
  BY <1>4 DEF ExistsBijection
<1> QED
  BY <1>5, FS_CountingElements

LEMMA ConsDistinct ==
  ASSUME NEW S, NEW s \in Seq(S), Distinct(s), NEW x \in S, x \notin ToSet(s)
  PROVE  /\ <<x>> \o s \in Seq(S)
         /\ Len(<<x>> \o s) = Len(s) + 1
         /\ Distinct(<<x>> \o s)
         /\ ToSet(<<x>> \o s) = {x} \cup ToSet(s)
<1> DEFINE t == <<x>> \o s
<1>1. t \in Seq(S) /\ Len(t) = Len(s) + 1
  OBVIOUS
<1>2. t[1] = x /\ \A i \in 1 .. Len(s) : t[i + 1] = s[i]
  OBVIOUS
<1> HIDE DEF t
<1>3. \A i \in 1 .. Len(t) : i = 1 \/ (i - 1 \in 1 .. Len(s) /\ t[i] = s[i - 1])
  <2> TAKE i \in 1 .. Len(t)
  <2>1. CASE i # 1
    <3>1. i - 1 \in 1 .. Len(s)
      BY <1>1, <2>1
    <3>2. t[i - 1 + 1] = s[i - 1]
      BY <1>2, <3>1
    <3> QED
      BY <3>1, <3>2
  <2> QED
    BY <2>1
<1>4. Distinct(t)
  <2> SUFFICES ASSUME NEW i \in 1 .. Len(t), NEW j \in 1 .. Len(t), t[i] = t[j]
               PROVE  i = j
    BY DEF Distinct
  <2>1. CASE i = 1 /\ j # 1
    BY <1>2, <1>3, <2>1, Members
  <2>2. CASE i # 1 /\ j = 1
    BY <1>2, <1>3, <2>2, Members
  <2>3. CASE i # 1 /\ j # 1
    <3>1. i - 1 = j - 1
      BY <1>3, <2>3 DEF Distinct
    <3> QED
      BY <3>1
  <2> QED
    BY <2>1, <2>2, <2>3
<1>5. ASSUME NEW y PROVE y \in ToSet(t) <=> y = x \/ y \in ToSet(s)
  <2>1. ASSUME y \in ToSet(t) PROVE y = x \/ y \in ToSet(s)
    <3>1. PICK i \in 1 .. Len(t) : t[i] = y
      BY <1>1, <2>1, Members
    <3> QED
      BY <1>2, <1>3, <3>1, Members
  <2>2. ASSUME y = x PROVE y \in ToSet(t)
    <3>1. 1 \in 1 .. Len(t)
      BY <1>1
    <3> QED
      BY <1>1, <1>2, <2>2, <3>1, Members
  <2>3. ASSUME y \in ToSet(s) PROVE y \in ToSet(t)
    <3>1. PICK i \in 1 .. Len(s) : s[i] = y
      BY <2>3, Members
    <3>2. i + 1 \in 1 .. Len(t) /\ t[i + 1] = y
      BY <1>1, <1>2, <3>1
    <3> QED
      BY <1>1, <3>2, Members
  <2> QED
    BY <2>1, <2>2, <2>3
<1> QED
  BY <1>1, <1>4, <1>5 DEF t

(* The element at one position is left out. *)
LEMMA LeftOut ==
  ASSUME NEW S, NEW s \in Seq(S), NEW k \in 1 .. Len(s)
  PROVE  /\ RemoveAt(s, k) \in Seq(S)
         /\ Len(RemoveAt(s, k)) = Len(s) - 1
         /\ \A i \in 1 .. Len(s) - 1 :
              RemoveAt(s, k)[i] = IF i < k THEN s[i] ELSE s[i + 1]
<1> DEFINE a == SubSeq(s, 1, k - 1)
           b == SubSeq(s, k + 1, Len(s))
<1>1. a \in Seq(S) /\ Len(a) = k - 1
  OBVIOUS
<1>2. \A i \in 1 .. k - 1 : a[i] = s[i]
  OBVIOUS
<1>3. b \in Seq(S) /\ Len(b) = Len(s) - k
  OBVIOUS
<1>4. \A i \in 1 .. Len(s) - k : b[i] = s[k + i]
  OBVIOUS
<1>5. RemoveAt(s, k) = a \o b
  BY DEF RemoveAt
<1> HIDE DEF a, b
<1>6. /\ a \o b \in Seq(S)
      /\ Len(a \o b) = Len(a) + Len(b)
      /\ \A i \in 1 .. Len(a) + Len(b) :
           (a \o b)[i] = IF i <= Len(a) THEN a[i] ELSE b[i - Len(a)]
  BY <1>1, <1>3, ConcatProperties
<1>7. ASSUME NEW i \in 1 .. Len(s) - 1
      PROVE  (a \o b)[i] = IF i < k THEN s[i] ELSE s[i + 1]
  <2>1. CASE i < k
    BY <1>1, <1>2, <1>3, <1>6, <2>1
  <2>2. CASE ~(i < k)
    <3>1. i - (k - 1) \in 1 .. Len(s) - k
      BY <2>2
    <3>2. (a \o b)[i] = b[i - (k - 1)]
      <4>1. Len(a) = k - 1 /\ i \in 1 .. Len(a) + Len(b) /\ ~(i <= Len(a))
        BY <1>1, <1>3, <2>2
      <4> QED
        BY <1>6, <4>1
    <3>3. k + (i - (k - 1)) = i + 1
      OBVIOUS
    <3> QED
      BY <1>4, <2>2, <3>1, <3>2, <3>3
  <2> QED
    BY <2>1, <2>2
<1> QED
  BY <1>1, <1>3, <1>5, <1>6, <1>7

LEMMA RemoveDistinct ==
  ASSUME NEW S, NEW s \in Seq(S), Distinct(s), NEW k \in 1 .. Len(s)
  PROVE  /\ RemoveAt(s, k) \in Seq(S)
         /\ Len(RemoveAt(s, k)) = Len(s) - 1
         /\ Distinct(RemoveAt(s, k))
         /\ ToSet(RemoveAt(s, k)) = ToSet(s) \ {s[k]}
<1> DEFINE t == RemoveAt(s, k)
           from(i) == IF i < k THEN i ELSE i + 1
<1>1. t \in Seq(S) /\ Len(t) = Len(s) - 1
  BY LeftOut
<1>2. \A i \in 1 .. Len(s) - 1 : from(i) \in 1 .. Len(s) /\ from(i) # k /\ t[i] = s[from(i)]
  BY LeftOut
<1>3. \A i, j \in 1 .. Len(s) - 1 : from(i) = from(j) => i = j
  OBVIOUS
<1>4. \A j \in 1 .. Len(s) : j # k => \E i \in 1 .. Len(s) - 1 : from(i) = j
  <2> TAKE j \in 1 .. Len(s)
  <2>1. CASE j < k
    <3>1. j \in 1 .. Len(s) - 1 /\ from(j) = j
      BY <2>1
    <3> QED
      BY <3>1
  <2>2. CASE j > k
    <3>1. j - 1 \in 1 .. Len(s) - 1 /\ from(j - 1) = j
      BY <2>2
    <3> QED
      BY <3>1
  <2> QED
    BY <2>1, <2>2
<1> HIDE DEF t, from
<1>5. Distinct(t)
  <2> SUFFICES ASSUME NEW i \in 1 .. Len(s) - 1, NEW j \in 1 .. Len(s) - 1, t[i] = t[j]
               PROVE  i = j
    BY <1>1 DEF Distinct
  <2>1. s[from(i)] = s[from(j)] /\ from(i) \in 1 .. Len(s) /\ from(j) \in 1 .. Len(s)
    BY <1>2
  <2>2. from(i) = from(j)
    BY <2>1 DEF Distinct
  <2> QED
    BY <1>3, <2>2
<1>6. ASSUME NEW y PROVE y \in ToSet(t) <=> y \in ToSet(s) /\ y # s[k]
  <2>1. ASSUME y \in ToSet(t) PROVE y \in ToSet(s) /\ y # s[k]
    <3>1. PICK i \in 1 .. Len(s) - 1 : t[i] = y
      BY <1>1, <2>1, Members
    <3> QED
      BY <1>2, <3>1, Members DEF Distinct
  <2>2. ASSUME y \in ToSet(s), y # s[k] PROVE y \in ToSet(t)
    <3>1. PICK j \in 1 .. Len(s) : s[j] = y
      BY <2>2, Members
    <3>2. PICK i \in 1 .. Len(s) - 1 : from(i) = j
      BY <1>4, <2>2, <3>1
    <3>3. i \in 1 .. Len(t) /\ t[i] = y
      BY <1>1, <1>2, <3>1, <3>2
    <3> QED
      BY <1>1, <3>3, Members
  <2> QED
    BY <2>1, <2>2
<1> QED
  BY <1>1, <1>5, <1>6 DEF t

(* Front removes the last element. *)
LEMMA FrontDistinct ==
  ASSUME NEW S, NEW s \in Seq(S), Distinct(s), s # <<>>
  PROVE  /\ Front(s) \in Seq(S)
         /\ Len(Front(s)) = Len(s) - 1
         /\ Distinct(Front(s))
         /\ ToSet(Front(s)) = ToSet(s) \ {Last(s)}
<1>1. Len(s) \in 1 .. Len(s)
  BY EmptySeq
<1>2. RemoveAt(s, Len(s)) = SubSeq(s, 1, Len(s) - 1) \o <<>>
  <2>1. SubSeq(s, Len(s) + 1, Len(s)) = <<>>
    BY <1>1, SubSeqEmpty
  <2> QED
    BY <2>1 DEF RemoveAt
<1>3. SubSeq(s, 1, Len(s) - 1) \in Seq(S)
  BY <1>1
<1>4. Front(s) = RemoveAt(s, Len(s))
  BY <1>2, <1>3, ConcatEmptySeq DEF Front
<1> QED
  BY <1>1, <1>4, RemoveDistinct DEF Last

-----------------------------------------------------------------------------
(* Complete files *)

(* No step touches a complete file: it is there for good. *)
LEMMA SealedStay ==
  ASSUME TypeOK, FilesSound, [Next]_vars, NEW o \in Objects, Complete(o)
  PROVE  file'[o] = file[o] /\ Complete(o)'
<1>1. file[o] # NoFile
  BY StoreAssumption DEF Complete
<1>2. CASE file' = file
  BY <1>2 DEF Complete
<1>3. ASSUME NEW d \in Drivers, Create(d) \/ WriteChunk(d) \/ RemovePartial(d)
      PROVE  file'[o] = file[o]
  <2>1. PICK p \in Objects :
          p = call[d].obj /\ (RemovePartial(d) => call[d] = InCall("remove", p))
    BY <1>3, TypeParts, CallFacts DEF Create, WriteChunk, RemovePartial
  <2>2. p # o \/ file' = file
    BY <1>1, <1>3, <2>1
       DEF Create, WriteChunk, RemovePartial, FilesSound, RemovedIncomplete
  <2> QED
    BY <1>3, <2>1, <2>2 DEF Create, WriteChunk, RemovePartial, TypeOK
<1>4. file' = file \/ \E d \in Drivers : Create(d) \/ WriteChunk(d) \/ RemovePartial(d)
  BY DEF Next, vars, StartWrite, StartRead, Begin, RemoveCapability, OpenCapability,
         WriteFails, FinishWrite, LoadCached, LoadFile, CloseCapability, Recount, Reopen,
         objects
<1> QED
  BY <1>2, <1>3, <1>4 DEF Complete

-----------------------------------------------------------------------------
(* Caches *)

Filed(d) == \A o \in Cached(d) : objCache[d][o] = Chunks[o] /\ Complete(o)

Listed(d) == ToSet(lru[d]) = Cached(d) /\ Distinct(lru[d]) /\ Len(lru[d]) <= CacheSize

(* What is being written is cached by nobody who writes it. *)
Uncached(d) == \A o \in Objects : call[d] = InCall("fill", o) => o \notin Cached(d)

CachesSound == \A d \in Drivers : Filed(d) /\ Listed(d) /\ Uncached(d)

(* An object that was not cached takes the place of the last of a full list. *)
LEMMA InsertSound ==
  ASSUME CacheTypes, NEW d \in Drivers, NEW o \in Objects, NEW n \in Nat, CacheInsert(d, o, n),
         Listed(d), o \notin Cached(d)
  PROVE  /\ Listed(d)'
         /\ objCache'[d][o] = n
         /\ \A p \in Objects \ {o} : objCache'[d][p] \in {objCache[d][p], NoFile}
         /\ \A e \in Drivers \ {d} : objCache'[e] = objCache[e] /\ lru'[e] = lru[e]
<1> DEFINE full == Cardinality(Cached(d)) >= CacheSize
           last == Last(lru[d])
           kept == IF full THEN [objCache[d] EXCEPT ![last] = NoFile] ELSE objCache[d]
           list == IF full THEN Front(lru[d]) ELSE lru[d]
           rest == {p \in Objects : kept[p] # NoFile}
<1>1. objCache' = [objCache EXCEPT ![d] = [kept EXCEPT ![o] = n]]
  BY DEF CacheInsert
<1>2. lru' = [lru EXCEPT ![d] = <<o>> \o list]
  BY DEF CacheInsert
<1>3. lru[d] \in Seq(Objects) /\ Len(lru[d]) \in Nat
  BY DEF CacheTypes
<1>4. Cardinality(Cached(d)) = Len(lru[d])
  BY <1>3, CountDistinct DEF Listed
<1>5. CacheSize \in Nat /\ CacheSize > 0 /\ n # NoFile
  BY StoreAssumption
<1>6. /\ list \in Seq(Objects)
      /\ Len(list) + 1 <= CacheSize
      /\ Distinct(list)
      /\ ToSet(list) = rest
      /\ kept \in [Objects -> Nat \cup {NoFile}]
      /\ \A p \in Objects : kept[p] \in {objCache[d][p], NoFile}
  <2>1. CASE full
    <3>1. lru[d] # <<>> /\ Len(lru[d]) = CacheSize
      BY <1>3, <1>4, <1>5, <2>1, EmptySeq DEF Listed
    <3>2. /\ Front(lru[d]) \in Seq(Objects)
          /\ Len(Front(lru[d])) = Len(lru[d]) - 1
          /\ Distinct(Front(lru[d]))
          /\ ToSet(Front(lru[d])) = Cached(d) \ {last}
      BY <1>3, <3>1, FrontDistinct DEF Listed
    <3>3. kept = [objCache[d] EXCEPT ![last] = NoFile] /\ list = Front(lru[d])
      BY <2>1
    <3>4. /\ kept \in [Objects -> Nat \cup {NoFile}]
          /\ \A p \in Objects : kept[p] = IF p = last THEN NoFile ELSE objCache[d][p]
      BY <3>3 DEF CacheTypes
    <3>5. rest = Cached(d) \ {last}
      <4> HIDE DEF kept, last
      <4> QED
        BY <3>4 DEF Cached
    <3>6. Len(list) + 1 <= CacheSize
      BY <1>3, <1>5, <3>1, <3>2, <3>3
    <3> HIDE DEF kept, list, last, rest
    <3> QED
      BY <3>2, <3>3, <3>4, <3>5, <3>6
  <2>2. CASE ~full
    <3>1. kept = objCache[d] /\ list = lru[d]
      BY <2>2
    <3>2. Len(lru[d]) + 1 <= CacheSize
      BY <1>3, <1>4, <1>5, <2>2
    <3>3. rest = Cached(d)
      BY <3>1 DEF Cached
    <3> HIDE DEF kept, list, rest
    <3> QED
      BY <1>3, <3>1, <3>2, <3>3 DEF Listed, CacheTypes
  <2> QED
    BY <2>1, <2>2
<1> HIDE DEF full, last, kept, list
<1>7. o \notin ToSet(list)
  BY <1>6 DEF Cached, CacheTypes
<1>8. /\ <<o>> \o list \in Seq(Objects)
      /\ Len(<<o>> \o list) = Len(list) + 1
      /\ Distinct(<<o>> \o list)
      /\ ToSet(<<o>> \o list) = {o} \cup rest
  BY <1>6, <1>7, ConsDistinct
<1>9. /\ objCache'[d] = [kept EXCEPT ![o] = n]
      /\ lru'[d] = <<o>> \o list
      /\ \A e \in Drivers \ {d} : objCache'[e] = objCache[e] /\ lru'[e] = lru[e]
  BY <1>1, <1>2 DEF CacheTypes
<1>10. objCache'[d][o] = n /\ \A p \in Objects \ {o} : objCache'[d][p] = kept[p]
  BY <1>6, <1>9
<1>11. Cached(d)' = {o} \cup rest
  BY <1>5, <1>10 DEF Cached
<1>12. Listed(d)'
  BY <1>6, <1>8, <1>9, <1>11 DEF Listed
<1> QED
  BY <1>6, <1>9, <1>10, <1>12

(* A hit moves the object to the front of the list. *)
LEMMA HitSound ==
  ASSUME CacheTypes, NEW d \in Drivers, NEW o \in Objects, NEW i \in DOMAIN lru[d],
         lru[d][i] = o, lru' = [lru EXCEPT ![d] = <<o>> \o RemoveAt(@, i)],
         objCache' = objCache, Listed(d)
  PROVE  Listed(d)' /\ \A e \in Drivers \ {d} : lru'[e] = lru[e]
<1> DEFINE list == RemoveAt(lru[d], i)
<1>1. lru[d] \in Seq(Objects) /\ Len(lru[d]) \in Nat /\ i \in 1 .. Len(lru[d])
  BY DEF CacheTypes
<1>2. /\ list \in Seq(Objects)
      /\ Len(list) = Len(lru[d]) - 1
      /\ Distinct(list)
      /\ ToSet(list) = ToSet(lru[d]) \ {o}
  BY <1>1, RemoveDistinct DEF Listed
<1>3. lru'[d] = <<o>> \o list /\ \A e \in Drivers \ {d} : lru'[e] = lru[e]
  BY DEF CacheTypes
<1> HIDE DEF list
<1>4. /\ Len(<<o>> \o list) = Len(list) + 1
      /\ Distinct(<<o>> \o list)
      /\ ToSet(<<o>> \o list) = {o} \cup ToSet(list)
  BY <1>2, ConsDistinct
<1>5. o \in ToSet(lru[d])
  BY <1>1, Members
<1>6. ToSet(lru'[d]) = ToSet(lru[d]) /\ Len(lru'[d]) = Len(lru[d])
  <2>1. Len(<<o>> \o list) = Len(lru[d])
    BY <1>1, <1>2, <1>4
  <2>2. ToSet(<<o>> \o list) = {o} \cup (ToSet(lru[d]) \ {o})
    BY <1>2, <1>4
  <2>3. {o} \cup (ToSet(lru[d]) \ {o}) = ToSet(lru[d])
    BY <1>5
  <2> QED
    BY <1>3, <2>1, <2>2, <2>3
<1>7. Cached(d)' = Cached(d)
  BY DEF Cached
<1> QED
  BY <1>3, <1>4, <1>6, <1>7 DEF Listed

(* What leaves the caches alone and starts no new writing keeps them. *)
LEMMA CachesStay ==
  ASSUME CachesSound, UNCHANGED cache,
         \A o \in Objects : Complete(o) => Complete(o)',
         \A d \in Drivers, o \in Objects :
           call'[d] = InCall("fill", o) => call[d] = InCall("fill", o)
  PROVE  CachesSound'
<1> SUFFICES ASSUME NEW d \in Drivers
             PROVE  (Filed(d) /\ Listed(d) /\ Uncached(d))'
  BY DEF CachesSound
<1>1. Cached(d)' = Cached(d) /\ objCache' = objCache /\ lru' = lru
  BY DEF Cached, cache
<1>2. Filed(d)' /\ Listed(d)'
  BY <1>1 DEF CachesSound, Filed, Listed, Cached
<1>3. Uncached(d)'
  BY <1>1 DEF CachesSound, Uncached
<1> QED
  BY <1>2, <1>3

(* One cache changes, while its driver ends a call. *)
LEMMA OneCacheSound ==
  ASSUME TypeOK, CachesSound, NEW d \in Drivers, NEW r, Return(d, r), file' = file,
         \A e \in Drivers \ {d} : objCache'[e] = objCache[e] /\ lru'[e] = lru[e],
         Filed(d)', Listed(d)'
  PROVE  CachesSound'
<1>1. call'[d] = Idle /\ \A e \in Drivers \ {d} : call'[e] = call[e]
  BY DEF Return, TypeOK
<1>2. Uncached(d)'
  BY <1>1, CallsDiffer DEF Uncached
<1>3. ASSUME NEW e \in Drivers \ {d} PROVE (Filed(e) /\ Listed(e) /\ Uncached(e))'
  <2>1. Cached(e)' = Cached(e)
    BY DEF Cached
  <2>2. Filed(e)' /\ Listed(e)'
    BY <2>1 DEF CachesSound, Filed, Listed, Cached, Complete
  <2>3. Uncached(e)'
    BY <1>1, <2>1 DEF CachesSound, Uncached
  <2> QED
    BY <2>2, <2>3
<1> QED
  BY <1>2, <1>3 DEF CachesSound

LEMMA InsertFiled ==
  ASSUME TypeOK, CachesSound, NEW d \in Drivers, NEW o \in Objects, NEW r, Return(d, r),
         file' = file, Complete(o), o \notin Cached(d), CacheInsert(d, o, file[o])
  PROVE  CachesSound'
<1>1. file[o] = Chunks[o] /\ file[o] \in Nat
  BY StoreAssumption DEF Complete
<1>2. /\ Listed(d)'
      /\ objCache'[d][o] = file[o]
      /\ \A p \in Objects \ {o} : objCache'[d][p] \in {objCache[d][p], NoFile}
      /\ \A e \in Drivers \ {d} : objCache'[e] = objCache[e] /\ lru'[e] = lru[e]
  BY <1>1, TypeParts, InsertSound DEF CachesSound
<1>3. Filed(d)'
  <2> SUFFICES ASSUME NEW p \in Objects, objCache'[d][p] # NoFile
               PROVE  objCache'[d][p] = Chunks[p] /\ Complete(p)'
    BY DEF Filed, Cached
  <2>1. CASE p = o
    BY <1>1, <1>2, <2>1 DEF Complete
  <2>2. CASE p # o
    <3>1. objCache'[d][p] = objCache[d][p] /\ p \in Cached(d)
      BY <1>2, <2>2 DEF Cached
    <3> QED
      BY <3>1 DEF CachesSound, Filed, Complete
  <2> QED
    BY <2>1, <2>2
<1> QED
  BY <1>2, <1>3, OneCacheSound

(* What is read is whole, and what is cached is complete. *)
LEMMA LoadedComplete ==
  ASSUME ReadVerify, NEW o, NEW n, Verified(o, n)
  PROVE  n = Chunks[o]
BY DEF Verified

LEMMA FinishWriteCaches ==
  ASSUME TypeOK, CachesSound, NEW d \in Drivers, FinishWrite(d)
  PROVE  CachesSound'
<1>1. PICK o \in Objects : o = call[d].obj /\ call[d] = InCall("fill", o)
  BY TypeParts, CallFacts DEF FinishWrite
<1>2. o \notin Cached(d)
  BY <1>1 DEF CachesSound, Uncached
<1>3. /\ Complete(o) /\ CacheInsert(d, o, file[o]) /\ Return(d, Wrote(o))
      /\ file' = file
  BY <1>1 DEF FinishWrite
<1> QED
  BY <1>2, <1>3, InsertFiled

LEMMA LoadFileCaches ==
  ASSUME ReadVerify, TypeOK, CachesSound, NEW d \in Drivers, LoadFile(d)
  PROVE  CachesSound'
<1>1. PICK o \in Objects : o = call[d].obj
  BY TypeParts, CallFacts DEF LoadFile
<1>2. CASE /\ Verified(o, file[o])
           /\ CacheInsert(d, o, file[o])
           /\ Return(d, Read(o, file[o]))
  <2>1. Complete(o) /\ o \notin Cached(d) /\ file' = file
    BY <1>1, <1>2, LoadedComplete DEF LoadFile, Complete
  <2> QED
    BY <1>2, <2>1, InsertFiled
<1>3. CASE UNCHANGED cache /\ Return(d, NoResult)
  <2>1. file' = file /\ UNCHANGED <<objCache, lru>>
    BY <1>3 DEF LoadFile, cache
  <2>2. Filed(d)' /\ Listed(d)'
    BY <2>1 DEF CachesSound, Filed, Listed, Cached, Complete
  <2> QED
    BY <1>3, <2>1, <2>2, OneCacheSound
<1> QED
  BY <1>1, <1>2, <1>3 DEF LoadFile

LEMMA LoadCachedCaches ==
  ASSUME TypeOK, CachesSound, NEW d \in Drivers, LoadCached(d)
  PROVE  CachesSound'
<1>1. PICK o \in Objects : o = call[d].obj
  BY TypeParts, CallFacts DEF LoadCached
<1>2. file' = file /\ objCache' = objCache
  BY DEF LoadCached
<1>3. Filed(d)'
  BY <1>2 DEF CachesSound, Filed, Cached, Complete
<1>4. PICK r : Return(d, r)
  BY DEF LoadCached
<1>5. CASE lru' = lru
  <2>1. Listed(d)'
    BY <1>2, <1>5 DEF CachesSound, Listed, Cached
  <2> QED
    BY <1>2, <1>3, <1>4, <1>5, <2>1, OneCacheSound
<1>6. CASE lru' # lru
  <2>1. PICK i \in DOMAIN lru[d] :
          lru[d][i] = o /\ lru' = [lru EXCEPT ![d] = <<o>> \o RemoveAt(@, i)]
    BY <1>1, <1>6 DEF LoadCached
  <2>2. Listed(d)' /\ \A e \in Drivers \ {d} : lru'[e] = lru[e]
    BY <1>2, <2>1, TypeParts, HitSound DEF CachesSound
  <2> QED
    BY <1>2, <1>3, <1>4, <2>2, OneCacheSound
<1> QED
  BY <1>5, <1>6

LEMMA ReopenCaches ==
  ASSUME TypeOK, CachesSound, NEW d \in Drivers, Reopen(d)
  PROVE  CachesSound'
<1>1. /\ objCache'[d] = [o \in Objects |-> NoFile]
      /\ lru'[d] = <<>>
      /\ \A e \in Drivers \ {d} : objCache'[e] = objCache[e] /\ lru'[e] = lru[e]
      /\ file' = file
  BY DEF Reopen, TypeOK
<1>2. Cached(d)' = {}
  BY <1>1 DEF Cached
<1>3. Filed(d)'
  BY <1>2 DEF Filed
<1>4. Listed(d)'
  BY <1>1, <1>2, StoreAssumption DEF Listed, ToSet, Distinct
<1> QED
  BY <1>1, <1>3, <1>4, OneCacheSound DEF Reopen

(* What is not there is in no cache. *)
LEMMA CreateCaches ==
  ASSUME TypeOK, FilesSound, CachesSound, NEW d \in Drivers, Create(d),
         \A o \in Objects : Complete(o) => Complete(o)'
  PROVE  CachesSound'
<1>1. PICK o \in Objects : o = call[d].obj
  BY TypeParts, CallFacts DEF Create
<1>2. UNCHANGED <<objCache, lru>>
  BY DEF Create, cache
<1>3. CASE Return(d, Wrote(o))
  <2>1. \A e \in Drivers, p \in Objects :
          call'[e] = InCall("fill", p) => call[e] = InCall("fill", p)
    BY <1>3, CallsDiffer DEF Return, TypeOK
  <2> QED
    BY <1>2, <2>1, CachesStay DEF cache
<1>4. CASE file[o] = NoFile /\ Continue(d, InCall("fill", o))
  <2>1. call'[d] = InCall("fill", o) /\ \A e \in Drivers \ {d} : call'[e] = call[e]
    BY <1>4 DEF Continue, TypeOK
  <2>2. o \notin Cached(d)
    BY <1>4, StoreAssumption DEF CachesSound, Filed, Complete
  <2>3. \A e \in Drivers : Cached(e)' = Cached(e)
    BY <1>2 DEF Cached
  <2>4. \A e \in Drivers : Uncached(e)'
    BY <2>1, <2>2, <2>3, WriterCalls DEF CachesSound, Uncached
  <2>5. \A e \in Drivers : Filed(e)'
    BY <1>2, <2>3 DEF CachesSound, Filed, Cached
  <2>6. \A e \in Drivers : Listed(e)'
    BY <1>2, <2>3 DEF CachesSound, Listed
  <2> QED
    BY <2>4, <2>5, <2>6 DEF CachesSound
<1> QED
  BY <1>1, <1>3, <1>4 DEF Create

(* A call that goes on as anything but a filling starts none. *)
LEMMA NoNewFill ==
  ASSUME CallTypes, NEW d \in Drivers, NEW c, call' = [call EXCEPT ![d] = c],
         \A o \in Objects : c # InCall("fill", o)
  PROVE  \A e \in Drivers, o \in Objects :
           call'[e] = InCall("fill", o) => call[e] = InCall("fill", o)
BY DEF CallTypes

LEMMA BeginCaches ==
  ASSUME TypeOK, CachesSound, NEW d \in Drivers, NEW o \in Objects, NEW perm,
         NEW op \in {"create", "load"}, Begin(d, o, perm, op)
  PROVE  CachesSound'
<1>1. UNCHANGED cache /\ UNCHANGED file
  BY DEF Begin, objects, cache
<1>2. PICK c : call' = [call EXCEPT ![d] = c] /\ c \in {InCall(op, o), Idle}
  BY DEF Begin, Continue, Return
<1>3. \A p \in Objects : c # InCall("fill", p)
  BY <1>2, NotWritingCalls DEF NotWriting
<1> QED
  BY <1>1, <1>2, <1>3, TypeParts, NoNewFill, CachesStay DEF Complete

LEMMA OpenCapabilityCaches ==
  ASSUME TypeOK, CachesSound, NEW d \in Drivers, NEW o \in Objects, NEW m \in Masks,
         OpenCapability(d, o, m)
  PROVE  CachesSound'
<1>1. UNCHANGED cache /\ UNCHANGED file
  BY DEF OpenCapability, objects, cache
<1>2. call' = [call EXCEPT ![d] = Publishing(o, m, TRUE)]
  BY DEF OpenCapability, Continue
<1>3. \A p \in Objects : Publishing(o, m, TRUE) # InCall("fill", p)
  BY NotWritingCalls DEF NotWriting
<1> QED
  BY <1>1, <1>2, <1>3, TypeParts, NoNewFill, CachesStay DEF Complete

LEMMA RemoveCapabilityCaches ==
  ASSUME TypeOK, CachesSound, NEW d \in Drivers, NEW o \in Objects, RemoveCapability(d, o)
  PROVE  CachesSound'
<1>1. UNCHANGED cache /\ UNCHANGED file
  BY DEF RemoveCapability, objects, cache
<1>2. ASSUME NEW e \in Drivers PROVE call'[e] = call[e] \/ NotWriting(call'[e])
  <2>1. \/ call'[e] = InCall("recount", o)
        \/ call'[e] = call[e]
        \/ call'[e] = Publishing(o, call[e].mask, FALSE)
    BY TypeParts, UnlinkedTypes
  <2> QED
    BY <2>1, NotWritingCalls
<1> QED
  BY <1>1, <1>2, CachesStay DEF Complete, NotWriting

(* What ends a call, or lets a writing fail, without touching the caches. *)
LEMMA EndedCaches ==
  ASSUME TypeOK, CachesSound, NEW d \in Drivers,
         CloseCapability(d) \/ Recount(d) \/ WriteFails(d) \/ RemovePartial(d),
         \A o \in Objects : Complete(o) => Complete(o)'
  PROVE  CachesSound'
<1>1. UNCHANGED cache
  BY DEF CloseCapability, Recount, WriteFails, RemovePartial, objects, cache
<1>2. PICK c : call' = [call EXCEPT ![d] = c] /\ c \in {Idle, InCall("remove", call[d].obj)}
  BY DEF CloseCapability, Recount, WriteFails, RemovePartial, Continue, Return
<1>3. \A p \in Objects : c # InCall("fill", p)
  BY <1>2, WriterCalls, CallsDiffer
<1> QED
  BY <1>1, <1>2, <1>3, TypeParts, NoNewFill, CachesStay

LEMMA WriteChunkCaches ==
  ASSUME TypeOK, CachesSound, NEW d \in Drivers, WriteChunk(d),
         \A o \in Objects : Complete(o) => Complete(o)'
  PROVE  CachesSound'
BY CachesStay DEF WriteChunk

LEMMA CachesStep ==
  ASSUME ReadVerify
  PROVE  TypeOK /\ FilesSound /\ CachesSound /\ [Next]_vars => CachesSound'
<1> SUFFICES ASSUME TypeOK, FilesSound, CachesSound, [Next]_vars
             PROVE  CachesSound'
  OBVIOUS
<1>1. \A o \in Objects : Complete(o) => Complete(o)'
  BY SealedStay
<1>2. CASE UNCHANGED vars
  BY <1>1, <1>2, CachesStay DEF vars, cache
<1>3. CASE Next
  <2> PICK d \in Drivers :
        \/ \E o \in Objects :
             \/ StartWrite(d, o) \/ StartRead(d, o) \/ RemoveCapability(d, o)
             \/ \E m \in Masks : OpenCapability(d, o, m)
        \/ Create(d) \/ WriteChunk(d) \/ WriteFails(d) \/ RemovePartial(d) \/ FinishWrite(d)
        \/ LoadCached(d) \/ LoadFile(d)
        \/ CloseCapability(d) \/ Recount(d)
        \/ Reopen(d)
    BY <1>3 DEF Next
  <2>1. ASSUME NEW o \in Objects, StartWrite(d, o) \/ StartRead(d, o) PROVE CachesSound'
    BY <2>1, BeginCaches DEF StartWrite, StartRead
  <2>2. ASSUME NEW o \in Objects, RemoveCapability(d, o) PROVE CachesSound'
    BY <2>2, RemoveCapabilityCaches
  <2>3. ASSUME NEW o \in Objects, NEW m \in Masks, OpenCapability(d, o, m) PROVE CachesSound'
    BY <2>3, OpenCapabilityCaches
  <2>4. CASE Create(d) \/ WriteChunk(d) \/ WriteFails(d) \/ RemovePartial(d) \/ FinishWrite(d)
    BY <1>1, <2>4, CreateCaches, WriteChunkCaches, EndedCaches, FinishWriteCaches
  <2>5. CASE LoadCached(d) \/ LoadFile(d) \/ CloseCapability(d) \/ Recount(d) \/ Reopen(d)
    BY <1>1, <2>5, LoadCachedCaches, LoadFileCaches, EndedCaches, ReopenCaches
  <2> QED
    BY <2>1, <2>2, <2>3, <2>4, <2>5
<1> QED
  BY <1>2, <1>3

LEMMA InitCaches == Init => CachesSound
<1> SUFFICES ASSUME Init, NEW d \in Drivers
             PROVE  Filed(d) /\ Listed(d) /\ Uncached(d)
  BY DEF CachesSound
<1>1. Cached(d) = {} /\ lru[d] = <<>> /\ call[d] = Idle
  BY DEF Init, Cached
<1>2. Listed(d)
  BY <1>1, StoreAssumption DEF Listed, ToSet, Distinct
<1> QED
  BY <1>1, <1>2, CallsDiffer DEF Filed, Uncached

(* With read verification a cache holds complete objects only, its list    *)
(* orders exactly these, and it never outgrows its size.                   *)
THEOREM CachesExact ==
  ASSUME ReadVerify
  PROVE  Spec => []CacheExact
<1>1. Init => TypeOK /\ FilesSound /\ CachesSound
  BY InitTypes, InitFiles, InitCaches
<1>2. TypeOK /\ FilesSound /\ CachesSound /\ [Next]_vars
        => (TypeOK /\ FilesSound /\ CachesSound)'
  BY TypeStep, FilesStep, CachesStep DEF FilesSound
<1>3. CachesSound => CacheExact
  BY DEF CachesSound, Filed, Listed, Distinct, CacheExact
<1> QED
  BY <1>1, <1>2, <1>3, PTL DEF Spec

-----------------------------------------------------------------------------
(* Refinement *)

(* A call in progress has no result yet. *)
Pending == \A d \in Drivers : call[d] # Idle => result[d] = NoResult

FsInv == TypeOK /\ FilesSound /\ CachesSound /\ Pending

LEMMA PendingStep == TypeOK /\ Pending /\ [Next]_vars => Pending'
<1> SUFFICES ASSUME TypeOK, Pending, [Next]_vars, NEW e \in Drivers, call'[e] # Idle
             PROVE  result'[e] = NoResult
  BY DEF Pending
<1>1. ASSUME NEW d \in Drivers, NEW c, Continue(d, c) PROVE result'[e] = NoResult
  BY <1>1 DEF Continue, TypeOK, Pending
<1>2. ASSUME NEW d \in Drivers, NEW r, Return(d, r) PROVE result'[e] = NoResult
  BY <1>2 DEF Return, TypeOK, Pending
<1>3. CASE UNCHANGED <<call, result>>
  BY <1>3 DEF Pending
<1>4. ASSUME NEW d \in Drivers, NEW o \in Objects, RemoveCapability(d, o)
      PROVE  result'[e] = NoResult
  <2>1. CASE e = d
    BY <1>4, <2>1 DEF RemoveCapability, TypeOK
  <2>2. CASE e # d
    <3>1. call'[e] = call[e] \/ DuringPublish(e, o)
      BY <1>4, <2>2, TypeParts, UnlinkedTypes
    <3>2. DuringPublish(e, o) => call[e] # Idle
      BY DEF DuringPublish, Idle
    <3> QED
      BY <1>4, <2>2, <3>1, <3>2 DEF RemoveCapability, TypeOK, Pending
  <2> QED
    BY <2>1, <2>2
<1> DEFINE Steps(d) == \/ UNCHANGED <<call, result>>
                       \/ \E c : Continue(d, c)
                       \/ \E r : Return(d, r)
                       \/ \E o \in Objects : RemoveCapability(d, o)
<1>5. UNCHANGED <<call, result>> \/ \E d \in Drivers : Steps(d)
  <2>1. CASE UNCHANGED vars
    BY <2>1 DEF vars
  <2>2. ASSUME NEW d \in Drivers, NEW o \in Objects,
               StartWrite(d, o) \/ StartRead(d, o) \/ \E m \in Masks : OpenCapability(d, o, m)
        PROVE  Steps(d)
    BY <2>2 DEF StartWrite, StartRead, Begin, OpenCapability
  <2>3. ASSUME NEW d \in Drivers, Create(d) \/ WriteChunk(d) \/ WriteFails(d) \/ RemovePartial(d) \/ FinishWrite(d)
        PROVE  Steps(d)
    BY <2>3 DEF Create, WriteChunk, WriteFails, RemovePartial, FinishWrite
  <2>4. ASSUME NEW d \in Drivers,
               LoadCached(d) \/ LoadFile(d) \/ CloseCapability(d) \/ Recount(d) \/ Reopen(d)
        PROVE  Steps(d)
    BY <2>4 DEF LoadCached, LoadFile, CloseCapability, Recount, Reopen
  <2>5. ASSUME NEW d \in Drivers, NEW o \in Objects, RemoveCapability(d, o)
        PROVE  Steps(d)
    BY <2>5
  <2> HIDE DEF Steps
  <2> QED
    BY <2>1, <2>2, <2>3, <2>4, <2>5 DEF Next
<1> QED
  BY <1>1, <1>2, <1>3, <1>4, <1>5

(* The two kinds of steps of the store, in terms of the drivers. *)
LEMMA AnswerStep ==
  ASSUME NEW d \in Drivers, NEW r, result \in [Drivers -> Result],
         result' = [result EXCEPT ![d] = r], Sealed' = Sealed,
         Answered(d)' \in Sealed \cup {NoResult}
  PROVE  Store!Next
<1>1. \A e \in Drivers : e # d => Answered(e)' = Answered(e)
  BY DEF Answered
<1>2. Answers' = [Answers EXCEPT ![d] = Answered(d)']
  BY <1>1 DEF Answers
<1>3. Store!Answer(d)
  BY <1>2 DEF Store!Answer
<1> QED
  BY <1>3 DEF Store!Next

LEMMA ErrorStep ==
  ASSUME NEW d \in Drivers, result \in [Drivers -> Result],
         result' = [result EXCEPT ![d] = NoResult], Sealed' = Sealed
  PROVE  Store!Next
<1>1. Answered(d)' = NoResult
  BY DEF Answered
<1> QED
  BY <1>1, AnswerStep

LEMMA WroteStep ==
  ASSUME NEW d \in Drivers, NEW o \in Objects, result \in [Drivers -> Result],
         result' = [result EXCEPT ![d] = Wrote(o)], Sealed' = Sealed
  PROVE  Store!Next
<1>1. Answered(d)' = NoResult
  BY DEF Answered, Wrote
<1> QED
  BY <1>1, AnswerStep

LEMMA ReadStep ==
  ASSUME NEW d \in Drivers, NEW o \in Sealed, result \in [Drivers -> Result],
         result' = [result EXCEPT ![d] = Read(o, Chunks[o])], Sealed' = Sealed
  PROVE  Store!Next
<1>1. result'[d] = Read(o, Chunks[o])
  OBVIOUS
<1>2. Answered(d)' \in {o, NoResult}
  BY <1>1 DEF Answered, Read
<1> QED
  BY <1>2, AnswerStep

LEMMA SealStep ==
  ASSUME NEW o \in Objects \ Sealed, Sealed' = Sealed \cup {o},
         \A d \in Drivers : result'[d] = result[d]
  PROVE  Store!Next
<1>1. Answers' = Answers
  BY DEF Answers, Answered
<1>2. Store!Seal(o)
  BY <1>1 DEF Store!Seal
<1> QED
  BY <1>2 DEF Store!Next, Sealed

LEMMA SealedUnchanged ==
  ASSUME file' = file
  PROVE  Sealed' = Sealed
BY DEF Sealed, Complete

LEMMA BeginStep ==
  ASSUME TypeOK, NEW d \in Drivers, NEW o \in Objects, NEW perm, NEW op, Begin(d, o, perm, op)
  PROVE  Store!Next
<1>1. result' = [result EXCEPT ![d] = NoResult] /\ file' = file
  BY DEF Begin, Continue, Return, objects
<1> QED
  BY <1>1, ErrorStep, SealedUnchanged DEF TypeOK

(* A new file completes an object that has no content at all. *)
LEMMA CreateStep ==
  ASSUME TypeOK, Pending, NEW d \in Drivers, Create(d)
  PROVE  Store!Next
<1>1. PICK o \in Objects : o = call[d].obj
  BY TypeParts, CallFacts DEF Create
<1>2. CASE file' = file /\ Return(d, Wrote(o))
  BY <1>2, WroteStep, SealedUnchanged DEF Return, TypeOK
<1>3. CASE /\ file[o] = NoFile
           /\ file' = [file EXCEPT ![o] = 0]
           /\ Continue(d, InCall("fill", o))
  <2>1. file'[o] = 0 /\ \A p \in Objects : p # o => file'[p] = file[p]
    BY <1>3 DEF TypeOK
  <2>2. o \notin Sealed
    BY <1>3, StoreAssumption DEF Sealed, Complete
  <2>3. CASE Chunks[o] = 0
    <3>1. Sealed' = Sealed \cup {o}
      BY <2>1, <2>3 DEF Sealed, Complete
    <3>2. result[d] = NoResult
      BY DEF Pending, Create, Idle
    <3>3. \A e \in Drivers : result'[e] = result[e]
      BY <1>3, <3>2 DEF Continue, TypeOK
    <3> QED
      BY <2>2, <3>1, <3>3, SealStep
  <2>4. CASE Chunks[o] # 0
    <3>1. Sealed' = Sealed
      BY <2>1, <2>2, <2>4 DEF Sealed, Complete
    <3> QED
      BY <1>3, <3>1, ErrorStep DEF Continue, TypeOK
  <2> QED
    BY <2>3, <2>4
<1> QED
  BY <1>1, <1>2, <1>3 DEF Create

(* The last chunk seals the object, the others do not show. *)
LEMMA WriteChunkStep ==
  ASSUME TypeOK, FilesSound, NEW d \in Drivers, WriteChunk(d)
  PROVE  Store!Next \/ UNCHANGED <<Sealed, Answers>>
<1>1. PICK o \in Objects : o = call[d].obj
  BY TypeParts, CallFacts DEF WriteChunk
<1>2. /\ result' = result
      /\ o \notin Sealed
      /\ \A p \in Objects : p # o => file'[p] = file[p]
  BY <1>1 DEF WriteChunk, TypeOK, Sealed
<1>3. CASE Complete(o)'
  <2>1. Sealed' = Sealed \cup {o}
    BY <1>2, <1>3 DEF Sealed, Complete
  <2> QED
    BY <1>2, <2>1, SealStep
<1>4. CASE ~Complete(o)'
  <2>1. Sealed' = Sealed
    BY <1>2, <1>4 DEF Sealed, Complete
  <2>2. Answers' = Answers
    BY <1>2 DEF Answers, Answered
  <2> QED
    BY <2>1, <2>2
<1> QED
  BY <1>3, <1>4

(* What is removed was not sealed. *)
LEMMA RemovePartialStep ==
  ASSUME TypeOK, FilesSound, NEW d \in Drivers, RemovePartial(d)
  PROVE  Store!Next
<1>1. PICK o \in Objects : o = call[d].obj /\ call[d] = InCall("remove", o)
  BY TypeParts, CallFacts DEF RemovePartial
<1>2. file' = file \/ file' = [file EXCEPT ![o] = NoFile]
  BY <1>1 DEF RemovePartial
<1>3. ~Complete(o) /\ NoFile # Chunks[o]
  BY <1>1, StoreAssumption DEF FilesSound, RemovedIncomplete
<1>4. Sealed' = Sealed
  BY <1>2, <1>3 DEF Sealed, Complete, TypeOK
<1> QED
  BY <1>4, ErrorStep DEF RemovePartial, Return, TypeOK

(* The other calls end with an error, or with a write that is done. *)
LEMMA EndedStep ==
  ASSUME TypeOK, NEW d \in Drivers,
         WriteFails(d) \/ CloseCapability(d) \/ Recount(d) \/ Reopen(d)
  PROVE  Store!Next
<1>1. file' = file
  BY DEF WriteFails, CloseCapability, Recount, Reopen, objects
<1>2. result' = [result EXCEPT ![d] = NoResult]
  BY DEF WriteFails, CloseCapability, Recount, Reopen, Continue, Return
<1> QED
  BY <1>1, <1>2, ErrorStep, SealedUnchanged DEF TypeOK

LEMMA CapabilityStep ==
  ASSUME TypeOK, NEW d \in Drivers, NEW o \in Objects,
         RemoveCapability(d, o) \/ \E m \in Masks : OpenCapability(d, o, m)
  PROVE  Store!Next
<1>1. file' = file
  BY DEF RemoveCapability, OpenCapability, objects
<1>2. result' = [result EXCEPT ![d] = NoResult]
  BY DEF RemoveCapability, OpenCapability, Continue
<1> QED
  BY <1>1, <1>2, ErrorStep, SealedUnchanged DEF TypeOK

LEMMA FinishWriteStep ==
  ASSUME TypeOK, NEW d \in Drivers, FinishWrite(d)
  PROVE  Store!Next
<1>1. PICK o \in Objects : o = call[d].obj
  BY TypeParts, CallFacts DEF FinishWrite
<1>2. file' = file /\ result' = [result EXCEPT ![d] = Wrote(o)]
  BY <1>1 DEF FinishWrite, Return
<1> QED
  BY <1>2, WroteStep, SealedUnchanged DEF TypeOK

(* A read that is verified returns a sealed object. *)
LEMMA LoadStep ==
  ASSUME ReadVerify, TypeOK, CachesSound, NEW d \in Drivers, LoadCached(d) \/ LoadFile(d)
  PROVE  Store!Next
<1>1. PICK o \in Objects : o = call[d].obj
  BY TypeParts, CallFacts DEF LoadCached, LoadFile
<1>2. file' = file
  BY DEF LoadCached, LoadFile
<1>3. CASE Return(d, NoResult)
  BY <1>2, <1>3, ErrorStep, SealedUnchanged DEF Return, TypeOK
<1>4. CASE o \in Sealed /\ Return(d, Read(o, Chunks[o]))
  BY <1>2, <1>4, ReadStep, SealedUnchanged DEF Return, TypeOK
<1>5. ASSUME LoadCached(d) PROVE Return(d, NoResult)
                                 \/ (o \in Sealed /\ Return(d, Read(o, Chunks[o])))
  <2>1. objCache[d][o] = Chunks[o] /\ o \in Sealed
    BY <1>1, <1>5 DEF LoadCached, CachesSound, Filed, Sealed
  <2> QED
    BY <1>1, <1>5, <2>1 DEF LoadCached
<1>6. ASSUME LoadFile(d) PROVE Return(d, NoResult)
                               \/ (o \in Sealed /\ Return(d, Read(o, Chunks[o])))
  <2>1. Verified(o, file[o]) => file[o] = Chunks[o] /\ o \in Sealed
    BY LoadedComplete DEF Sealed, Complete
  <2> QED
    BY <1>1, <1>6, <2>1 DEF LoadFile
<1> QED
  BY <1>3, <1>4, <1>5, <1>6

LEMMA StoreStep ==
  ASSUME ReadVerify
  PROVE  FsInv /\ [Next]_vars => [Store!Next]_<<Sealed, Answers>>
<1> SUFFICES ASSUME FsInv, [Next]_vars
             PROVE  Store!Next \/ UNCHANGED <<Sealed, Answers>>
  OBVIOUS
<1> USE DEF FsInv
<1>1. CASE UNCHANGED vars
  BY <1>1, SealedUnchanged DEF vars, Answers, Answered
<1>2. CASE Next
  <2> PICK d \in Drivers :
        \/ \E o \in Objects :
             \/ StartWrite(d, o) \/ StartRead(d, o) \/ RemoveCapability(d, o)
             \/ \E m \in Masks : OpenCapability(d, o, m)
        \/ Create(d) \/ WriteChunk(d) \/ WriteFails(d) \/ RemovePartial(d) \/ FinishWrite(d)
        \/ LoadCached(d) \/ LoadFile(d)
        \/ CloseCapability(d) \/ Recount(d)
        \/ Reopen(d)
    BY <1>2 DEF Next
  <2>1. ASSUME NEW o \in Objects, StartWrite(d, o) \/ StartRead(d, o) PROVE Store!Next
    BY <2>1, BeginStep DEF StartWrite, StartRead
  <2>2. ASSUME NEW o \in Objects,
               RemoveCapability(d, o) \/ \E m \in Masks : OpenCapability(d, o, m)
        PROVE  Store!Next
    BY <2>2, CapabilityStep
  <2>3. CASE Create(d) \/ WriteChunk(d) \/ RemovePartial(d) \/ FinishWrite(d)
    BY <2>3, CreateStep, WriteChunkStep, RemovePartialStep, FinishWriteStep
  <2>4. CASE LoadCached(d) \/ LoadFile(d)
    BY <2>4, LoadStep
  <2>5. CASE WriteFails(d) \/ CloseCapability(d) \/ Recount(d) \/ Reopen(d)
    BY <2>5, EndedStep
  <2> QED
    BY <2>1, <2>2, <2>3, <2>4, <2>5
<1> QED
  BY <1>1, <1>2

LEMMA StoreInit == Init => Store!Init
<1> SUFFICES ASSUME Init PROVE Store!Init
  OBVIOUS
<1>1. Sealed = {}
  BY StoreAssumption DEF Init, Sealed, Complete
<1>2. Answers = [d \in Drivers |-> NoResult]
  BY DEF Init, Answers, Answered
<1> QED
  BY <1>1, <1>2 DEF Store!Init

(* With read verification the drivers on a root are together a store that  *)
(* seals an object once and whose reads return sealed objects or errors,   *)
(* whatever they do at the same time and wherever their processes end.     *)
THEOREM StoreRefined ==
  ASSUME ReadVerify
  PROVE  Spec => StoreSpec
<1>1. Init => FsInv
  BY InitTypes, InitFiles, InitCaches DEF FsInv, Pending, Init
<1>2. FsInv /\ [Next]_vars => FsInv'
  BY TypeStep, FilesStep, CachesStep, PendingStep DEF FsInv, FilesSound
<1>3. FsInv /\ [Next]_vars => [Store!Next]_<<Sealed, Answers>>
  BY StoreStep
<1> QED
  BY <1>1, <1>2, <1>3, StoreInit, PTL DEF Spec, StoreSpec, Store!Spec

-----------------------------------------------------------------------------
(* Capabilities *)

(* The cache of d agrees with the capability of o, or d knows better.      *)
Follows(d, o) ==
  capCache[d][o] # NoMask /\ o \notin overtaken[d] =>
    capCache[d][o] = cap[o] \/ DuringPublish(d, o) \/ call[d] = InCall("recount", o)

LEMMA CapsFollowedIs == CapsFollowed <=> \A d \in Drivers : \A o \in Objects : Follows(d, o)
BY DEF CapsFollowed, Follows

(* A driver that is not at work on the capability of o follows it.         *)
LEMMA FollowsAtRest ==
  ASSUME NEW d, NEW o, Follows(d, o), call[d].op = "publish" \/ call[d].op = "recount" => call[d].obj # o
  PROVE  capCache[d][o] # NoMask /\ o \notin overtaken[d] => capCache[d][o] = cap[o]
BY DEF Follows, DuringPublish, InCall

(* What a step says of one driver and one capability is left as it was.    *)
LEMMA FollowsStays ==
  ASSUME NEW d, NEW o, Follows(d, o), capCache'[d][o] = capCache[d][o], cap'[o] = cap[o],
         o \in overtaken[d] => o \in overtaken'[d],
         \/ call'[d] = call[d]
         \/ call[d].op = "publish" \/ call[d].op = "recount" => call[d].obj # o
  PROVE  Follows(d, o)'
<1>1. CASE call'[d] = call[d]
  BY <1>1 DEF Follows, DuringPublish
<1>2. CASE call[d].op = "publish" \/ call[d].op = "recount" => call[d].obj # o
  BY <1>2, FollowsAtRest DEF Follows
<1> QED
  BY <1>1, <1>2

LEMMA BeginFollows ==
  ASSUME TypeOK, CapsFollowed, NEW d \in Drivers, NEW o \in Objects,
         Begin(d, o, "read", "load") \/ Begin(d, o, "write", "create")
  PROVE  CapsFollowed'
<1>1. /\ capCache \in [Drivers -> [Objects -> Masks \cup {NoMask}]]
      /\ overtaken \in [Drivers -> SUBSET Objects] /\ call \in [Drivers -> Call]
  BY DEF TypeOK
<1>2. call[d] = Idle /\ cap' = cap /\ \A e \in Drivers : e # d => call'[e] = call[e]
  BY <1>1 DEF Begin, Continue, Return
<1>3. Remember(d, o)
  BY DEF Begin
<1>4. ASSUME NEW e \in Drivers, NEW p \in Objects, e # d \/ p # o
      PROVE  capCache'[e][p] = capCache[e][p] /\ (p \in overtaken[e] => p \in overtaken'[e])
  BY <1>1, <1>3, <1>4 DEF Remember
<1>5. ASSUME NEW e \in Drivers, NEW p \in Objects, e # d \/ p # o
      PROVE  Follows(e, p)'
  <2>1. Follows(e, p)
    BY CapsFollowedIs
  <2>2. e = d => call[e].op = "idle"
    BY <1>2 DEF Idle
  <2> QED
    BY <1>2, <1>4, <1>5, <2>1, <2>2, FollowsStays
<1>6. Follows(d, o)'
  <2>1. CASE capCache'[d][o] = cap[o]
    BY <1>2, <2>1 DEF Follows
  <2>2. CASE capCache' = capCache /\ overtaken' = overtaken
    <3>1. Follows(d, o) /\ call[d].op = "idle"
      BY <1>2, CapsFollowedIs DEF Idle
    <3> QED
      BY <1>2, <2>2, <3>1, FollowsStays
  <2>3. capCache' = [capCache EXCEPT ![d][o] = cap[o]] => capCache'[d][o] = cap[o]
    BY <1>1
  <2> QED
    BY <1>3, <2>1, <2>2, <2>3 DEF Remember
<1> QED
  BY <1>5, <1>6 DEF CapsFollowed, Follows, DuringPublish, InCall

LEMMA OpenCapabilityFollows ==
  ASSUME TypeOK, CapsFollowed, NEW d \in Drivers, NEW o \in Objects, NEW m \in Masks,
         OpenCapability(d, o, m)
  PROVE  CapsFollowed'
<1>1. /\ cap \in [Objects -> Masks \cup {NoFile, Blank}]
      /\ overtaken \in [Drivers -> SUBSET Objects] /\ call \in [Drivers -> Call]
  BY DEF TypeOK
<1>2. /\ call[d] = Idle /\ capCache' = capCache
      /\ cap' = [cap EXCEPT ![o] = Blank] /\ call' = [call EXCEPT ![d] = Publishing(o, m, TRUE)]
      /\ Overtake(d, o)
  BY DEF OpenCapability, Continue
<1>3. ASSUME NEW e \in Drivers, NEW p \in Objects
      PROVE  Follows(e, p)'
  <2>1. Follows(e, p)
    BY CapsFollowedIs
  <2>2. CASE e = d /\ p = o
    BY <1>1, <1>2, <2>2 DEF Follows, DuringPublish, Publishing
  <2>3. CASE e # d /\ p = o
    BY <1>1, <1>2, <2>3 DEF Follows, Overtake
  <2>4. CASE p # o
    <3>1. p \in overtaken[e] => p \in overtaken'[e]
      BY <1>1, <1>2, <2>4 DEF Overtake
    <3>2. call'[e] = call[e] \/ call[e].op = "idle"
      <4>1. e = d => call[e].op = "idle"
        BY <1>2 DEF Idle
      <4>2. e # d => call'[e] = call[e]
        BY <1>1, <1>2
      <4> QED
        BY <4>1, <4>2
    <3>3. cap'[p] = cap[p] /\ capCache'[e][p] = capCache[e][p]
      BY <1>1, <1>2, <2>4
    <3> QED
      BY <2>1, <3>1, <3>2, <3>3, FollowsStays
  <2> QED
    BY <2>2, <2>3, <2>4
<1> QED
  BY <1>3 DEF CapsFollowed, Follows, DuringPublish, InCall

LEMMA CloseCapabilityFollows ==
  ASSUME TypeOK, CapsFollowed, NEW d \in Drivers, CloseCapability(d)
  PROVE  CapsFollowed'
<1>1. /\ cap \in [Objects -> Masks \cup {NoFile, Blank}]
      /\ capCache \in [Drivers -> [Objects -> Masks \cup {NoMask}]]
      /\ overtaken \in [Drivers -> SUBSET Objects] /\ call \in [Drivers -> Call]
  BY DEF TypeOK
<1>2. PICK o \in Objects, m \in Masks :
        /\ call[d].obj = o /\ call[d].mask = m /\ call[d].op = "publish"
        /\ capCache' = [capCache EXCEPT ![d][o] = m]
        /\ \/ cap' = [cap EXCEPT ![o] = m] /\ Overtake(d, o)
           \/ cap' = cap /\ overtaken' = [overtaken EXCEPT ![d] = @ \cup {o}]
        /\ call' = [call EXCEPT ![d] = Idle]
  <2>1. call[d].obj \in Objects /\ call[d].mask \in Masks /\ call[d].op = "publish"
    BY TypeParts, CallFacts DEF CloseCapability
  <2> QED
    BY <2>1 DEF CloseCapability, Return
<1>3. ASSUME NEW e \in Drivers, NEW p \in Objects
      PROVE  Follows(e, p)'
  <2>1. Follows(e, p)
    BY CapsFollowedIs
  <2>2. CASE e = d /\ p = o
    <3>1. CASE cap' = [cap EXCEPT ![o] = m]
      BY <1>1, <1>2, <2>2, <3>1 DEF Follows
    <3>2. CASE overtaken' = [overtaken EXCEPT ![d] = @ \cup {o}]
      BY <1>1, <2>2, <3>2 DEF Follows
    <3> QED
      BY <1>2, <3>1, <3>2
  <2>3. CASE e # d \/ p # o
    <3>1. p \in overtaken[e] => p \in overtaken'[e]
      BY <1>1, <1>2, <2>3 DEF Overtake
    <3>2. capCache'[e][p] = capCache[e][p]
      BY <1>1, <1>2, <2>3
    <3>3. CASE cap'[p] = cap[p]
      <4>1. call'[e] = call[e] \/ (call[e].op = "publish" /\ call[e].obj # p)
        BY <1>1, <1>2, <2>3
      <4> QED
        BY <2>1, <3>1, <3>2, <3>3, <4>1, FollowsStays
    <3>4. CASE cap' = [cap EXCEPT ![o] = m] /\ Overtake(d, o) /\ p = o
      BY <1>1, <2>3, <3>4 DEF Follows, Overtake
    <3> QED
      BY <1>1, <1>2, <3>3, <3>4
  <2> QED
    BY <2>2, <2>3
<1> QED
  BY <1>3 DEF CapsFollowed, Follows, DuringPublish, InCall

LEMMA RemoveCapabilityFollows ==
  ASSUME TypeOK, CapsFollowed, NEW d \in Drivers, NEW o \in Objects, RemoveCapability(d, o)
  PROVE  CapsFollowed'
<1>1. /\ cap \in [Objects -> Masks \cup {NoFile, Blank}]
      /\ overtaken \in [Drivers -> SUBSET Objects]
  BY DEF TypeOK
<1>2. /\ call[d] = Idle /\ capCache' = capCache /\ cap' = [cap EXCEPT ![o] = NoFile]
      /\ call'[d] = InCall("recount", o)
      /\ \A e \in Drivers : e # d =>
           call'[e] = IF DuringPublish(e, o) THEN Publishing(o, call[e].mask, FALSE) ELSE call[e]
      /\ Overtake(d, o)
  BY DEF RemoveCapability
<1>3. ASSUME NEW e \in Drivers, NEW p \in Objects
      PROVE  Follows(e, p)'
  <2>1. Follows(e, p)
    BY CapsFollowedIs
  <2>2. CASE p = o
    BY <1>1, <1>2, <2>2 DEF Follows, Overtake
  <2>3. CASE p # o
    <3>1. p \in overtaken[e] => p \in overtaken'[e]
      BY <1>1, <1>2, <2>3 DEF Overtake
    <3>2. \/ call'[e] = call[e] \/ call[e].op = "idle"
          \/ call[e].op = "publish" /\ call[e].obj # p
      <4>1. e = d => call[e].op = "idle"
        BY <1>2 DEF Idle
      <4>2. e # d /\ ~DuringPublish(e, o) => call'[e] = call[e]
        BY <1>2
      <4>3. DuringPublish(e, o) => call[e].op = "publish" /\ call[e].obj # p
        BY <2>3 DEF DuringPublish
      <4> QED
        BY <4>1, <4>2, <4>3
    <3>3. cap'[p] = cap[p] /\ capCache'[e][p] = capCache[e][p]
      BY <1>1, <1>2, <2>3
    <3> QED
      BY <2>1, <3>1, <3>2, <3>3, FollowsStays
  <2> QED
    BY <2>2, <2>3
<1> QED
  BY <1>3 DEF CapsFollowed, Follows, DuringPublish, InCall

LEMMA RecountFollows ==
  ASSUME TypeOK, CapsFollowed, NEW d \in Drivers, Recount(d)
  PROVE  CapsFollowed'
<1>1. /\ capCache \in [Drivers -> [Objects -> Masks \cup {NoMask}]] /\ call \in [Drivers -> Call]
  BY DEF TypeOK
<1>2. PICK o \in Objects :
        /\ call[d].obj = o /\ call[d].op = "recount" /\ cap' = cap /\ overtaken' = overtaken
        /\ capCache' = [capCache EXCEPT ![d][o] = NoMask]
        /\ call' = [call EXCEPT ![d] = Idle]
  <2>1. call[d].obj \in Objects /\ call[d].op = "recount"
    BY TypeParts, CallFacts DEF Recount
  <2> QED
    BY <2>1 DEF Recount, Return, DropMask
<1>3. ASSUME NEW e \in Drivers, NEW p \in Objects
      PROVE  Follows(e, p)'
  <2>1. CASE e = d /\ p = o
    BY <1>1, <1>2, <2>1 DEF Follows
  <2>2. CASE e # d \/ p # o
    <3>1. capCache'[e][p] = capCache[e][p]
      BY <1>1, <1>2, <2>2
    <3>2. call'[e] = call[e] \/ call[e].obj # p
      BY <1>1, <1>2, <2>2
    <3> QED
      BY <1>2, <3>1, <3>2, FollowsStays, CapsFollowedIs
  <2> QED
    BY <2>1, <2>2
<1> QED
  BY <1>3 DEF CapsFollowed, Follows, DuringPublish, InCall

LEMMA ReopenFollows ==
  ASSUME TypeOK, CapsFollowed, NEW d \in Drivers, Reopen(d)
  PROVE  CapsFollowed'
<1>1. /\ capCache \in [Drivers -> [Objects -> Masks \cup {NoMask}]] /\ call \in [Drivers -> Call]
  BY DEF TypeOK
<1>2. /\ cap' = cap /\ overtaken' = overtaken
      /\ capCache' = [capCache EXCEPT ![d] = [o \in Objects |-> NoMask]]
      /\ call' = [call EXCEPT ![d] = Idle]
  BY DEF Reopen, Return
<1>3. ASSUME NEW e \in Drivers, NEW p \in Objects
      PROVE  Follows(e, p)'
  <2>1. CASE e = d
    BY <1>1, <1>2, <2>1 DEF Follows
  <2>2. CASE e # d
    BY <1>1, <1>2, <2>2, FollowsStays, CapsFollowedIs
  <2> QED
    BY <2>1, <2>2
<1> QED
  BY <1>3 DEF CapsFollowed, Follows, DuringPublish, InCall

(* The steps that work on objects leave capabilities alone.                *)
LEMMA ObjectCallFollows ==
  ASSUME TypeOK, CapsFollowed, NEW d \in Drivers,
         call[d].op \in {"create", "fill", "remove", "load"}, UNCHANGED rights,
         \A e \in Drivers : e # d => call'[e] = call[e]
  PROVE  CapsFollowed'
<1>1. cap' = cap /\ capCache' = capCache /\ overtaken' = overtaken
  BY DEF rights
<1>2. ASSUME NEW e \in Drivers, NEW p \in Objects
      PROVE  Follows(e, p)'
  <2>1. Follows(e, p)
    BY CapsFollowedIs
  <2> QED
    BY <1>1, <2>1, FollowsStays
<1> QED
  BY <1>2 DEF CapsFollowed, Follows, DuringPublish, InCall

LEMMA CapsStep == TypeOK /\ CapsFollowed /\ [Next]_vars => CapsFollowed'
<1> SUFFICES ASSUME TypeOK, CapsFollowed, [Next]_vars PROVE CapsFollowed'
  OBVIOUS
<1>1. CASE UNCHANGED vars
  BY <1>1 DEF vars, CapsFollowed, DuringPublish
<1>2. CASE Next
  <2> PICK d \in Drivers :
        \/ \E o \in Objects :
             \/ StartWrite(d, o) \/ StartRead(d, o) \/ RemoveCapability(d, o)
             \/ \E m \in Masks : OpenCapability(d, o, m)
        \/ Create(d) \/ WriteChunk(d) \/ WriteFails(d) \/ RemovePartial(d) \/ FinishWrite(d)
        \/ LoadCached(d) \/ LoadFile(d)
        \/ CloseCapability(d) \/ Recount(d)
        \/ Reopen(d)
    BY <1>2 DEF Next
  <2>1. ASSUME NEW o \in Objects, StartWrite(d, o) \/ StartRead(d, o) PROVE CapsFollowed'
    BY <2>1, BeginFollows DEF StartWrite, StartRead
  <2>2. ASSUME NEW o \in Objects, RemoveCapability(d, o) PROVE CapsFollowed'
    BY <2>2, RemoveCapabilityFollows
  <2>3. ASSUME NEW o \in Objects, NEW m \in Masks, OpenCapability(d, o, m) PROVE CapsFollowed'
    BY <2>3, OpenCapabilityFollows
  <2>4. call \in [Drivers -> Call]
    BY DEF TypeOK
  <2>5. CASE Create(d) \/ WriteChunk(d) \/ WriteFails(d) \/ RemovePartial(d) \/ FinishWrite(d)
    BY <2>4, <2>5, ObjectCallFollows
       DEF Create, WriteChunk, WriteFails, RemovePartial, FinishWrite, Continue, Return
  <2>6. CASE LoadCached(d) \/ LoadFile(d)
    BY <2>4, <2>6, ObjectCallFollows DEF LoadCached, LoadFile, Return
  <2>7. CASE CloseCapability(d) \/ Recount(d) \/ Reopen(d)
    BY <2>7, CloseCapabilityFollows, RecountFollows, ReopenFollows
  <2> QED
    BY <2>1, <2>2, <2>3, <2>5, <2>6, <2>7
<1> QED
  BY <1>1, <1>2

(* A driver that works alone on a capability finds in its cache what is on *)
(* disk, however the grants and revocations of any number of drivers, and  *)
(* the ends of their processes, interleave.                                *)
THEOREM CapsFollowedAlways == Spec => []CapsFollowed
<1>1. Init => CapsFollowed
  BY DEF Init, CapsFollowed
<1>2. TypeOK /\ CapsFollowed /\ [Next]_vars => CapsFollowed'
  BY CapsStep
<1> QED
  BY <1>1, <1>2, FsTypeCorrect, PTL DEF Spec
=============================================================================
