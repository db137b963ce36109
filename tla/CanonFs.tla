------------------------------ MODULE CanonFs -------------------------------
(***************************************************************************)
(* The persistent CanonFS driver (src/canonfs/persistent_driver.cpp).      *)
(* Several drivers, each in a process of its own (a virtual machine, the   *)
(* command line tool), share one root directory without any lock.  A step  *)
(* is what one driver does to the file system in one call of the operating *)
(* system, with the memory of the driver that goes with it, so that calls  *)
(* of different drivers interleave; a process may die between two steps.   *)
(*                                                                         *)
(* An object stands for its content and for its hash.  Capability masks    *)
(* are sets of the permissions that have one decimal digit together (read, *)
(* write, append): a mask overwrites another one whole.  A veto of the     *)
(* Axion hook, and a file that cannot be opened, end a call before it has  *)
(* done anything.                                                          *)
(***************************************************************************)
EXTENDS Integers, SequencesExt

CONSTANTS
  Drivers,     \* driver instances on the same root
  Objects,     \* contents
  Chunks,      \* write(2) calls that each object takes
  Masks,       \* permission masks that are published
  CacheSize,   \* kMaxCacheSize (2048)
  ReadVerify,  \* T81_CANONFS_READ_VERIFY is not switched off
  NoFile,      \* no such file
  Blank,       \* a capability file that has just been truncated
  NoMask,      \* no such entry in the capability cache
  NoResult     \* an error, or no call yet

Mask == SUBSET {"read", "write", "append"}

ASSUME StoreAssumption ==
  /\ Chunks \in [Objects -> Nat]
  /\ Masks \subseteq Mask
  /\ CacheSize \in Nat \ {0}
  /\ ReadVerify \in BOOLEAN
  /\ NoFile \notin Nat
  /\ NoFile # Blank
  /\ \A m \in Mask : m \notin {NoFile, Blank, NoMask}
  /\ NoResult \notin Objects

VARIABLES
  file,       \* objects/<hash>.blk: how many chunks of the object it holds
  cap,        \* caps/<hash>.cap: the mask in it
  call,       \* what each driver is in the middle of
  result,     \* what its last read or write returned
  knows,      \* has_capabilities_
  capCache,   \* capability_cache_
  objCache,   \* object_cache_: the chunks it holds of each object
  lru,        \* lru_list_, most recent first
  stranded,   \* history: objects whose writer died or could not clean up
  overtaken   \* history: capabilities that changed behind a driver's back

vars == <<file, cap, call, result, knows, capCache, objCache, lru, stranded, overtaken>>

cache == <<objCache, lru>>
rights == <<cap, knows, capCache, overtaken>>
objects == <<file, objCache, lru, stranded>>

Idle == [op |-> "idle"]
InCall(op, o) == [op |-> op, obj |-> o]
Publishing(o, m, linked) == [op |-> "publish", obj |-> o, mask |-> m, linked |-> linked]

Wrote(o) == [did |-> "write", obj |-> o]
Read(o, n) == [did |-> "read", obj |-> o, chunks |-> n]

Complete(o) == file[o] = Chunks[o]

Writers(o) == {d \in Drivers : call[d] \in {InCall("fill", o), InCall("remove", o)}}

(* The call of d goes on, or ends with result r. *)
Continue(d, c) == call' = [call EXCEPT ![d] = c] /\ result' = [result EXCEPT ![d] = NoResult]
Return(d, r) == call' = [call EXCEPT ![d] = Idle] /\ result' = [result EXCEPT ![d] = r]

-----------------------------------------------------------------------------
(* Capabilities *)

ReadableCap(o) == cap[o] \notin {NoFile, Blank}

(* The mask that has_capability finds in its cache, or else in the file.   *)
MaskSeen(d, o) ==
  IF capCache[d][o] # NoMask THEN capCache[d][o]
  ELSE IF ReadableCap(o) THEN cap[o] ELSE {}

Allowed(d, o, perm) == knows[d] => perm \in MaskSeen(d, o)

(* has_capability keeps the mask that it has read from a file. *)
Remember(d, o) ==
  IF knows[d] /\ capCache[d][o] = NoMask /\ ReadableCap(o)
  THEN /\ capCache' = [capCache EXCEPT ![d][o] = cap[o]]
       /\ overtaken' = [overtaken EXCEPT ![d] = @ \ {o}]
  ELSE UNCHANGED <<capCache, overtaken>>

(* The first part of a read or a write: may d go on with it as op? *)
Begin(d, o, perm, op) ==
  /\ call[d] = Idle
  /\ Remember(d, o)
  /\ IF Allowed(d, o, perm) THEN Continue(d, InCall(op, o)) ELSE Return(d, NoResult)
  /\ UNCHANGED <<objects, cap, knows>>

(* What d does to the capability of o leaves the other caches behind. *)
Overtake(d, o) ==
  overtaken' = [e \in Drivers |->
                  IF e = d THEN overtaken[e] \ {o} ELSE overtaken[e] \cup {o}]

(* write_capability opens the file, which truncates it ... *)
OpenCapability(d, o, m) ==
  /\ call[d] = Idle
  /\ cap' = [cap EXCEPT ![o] = Blank]
  /\ Overtake(d, o)
  /\ Continue(d, Publishing(o, m, TRUE))
  /\ UNCHANGED <<objects, knows, capCache>>

(* ... and writes the mask when the stream is closed, where a failure goes *)
(* unseen, as does a file that has been removed in the meantime.           *)
CloseCapability(d) ==
  /\ call[d].op = "publish"
  /\ LET o == call[d].obj
         m == call[d].mask
     IN  /\ \/ call[d].linked /\ cap' = [cap EXCEPT ![o] = m] /\ Overtake(d, o)
            \/ UNCHANGED cap /\ overtaken' = [overtaken EXCEPT ![d] = @ \cup {o}]
         /\ knows' = [knows EXCEPT ![d] = TRUE]
         /\ capCache' = [capCache EXCEPT ![d][o] = m]
  /\ Return(d, NoResult)
  /\ UNCHANGED objects

DuringPublish(d, o) == call[d].op = "publish" /\ call[d].obj = o

(* The file is gone from the directory also for those that have it open.   *)
RemoveCapability(d, o) ==
  /\ call[d] = Idle
  /\ cap' = [cap EXCEPT ![o] = NoFile]
  /\ Overtake(d, o)
  /\ call' = [e \in Drivers |->
                IF e = d THEN InCall("recount", o)
                ELSE IF DuringPublish(e, o) THEN Publishing(o, call[e].mask, FALSE)
                ELSE call[e]]
  /\ result' = [result EXCEPT ![d] = NoResult]
  /\ UNCHANGED <<objects, knows, capCache>>

AnyCapability == \E o \in Objects : cap[o] # NoFile

KeepMask(d, o) == capCache
DropMask(d, o) == [capCache EXCEPT ![d][o] = NoMask]

(* revoke_capability looks whether any capability is left. *)
Recount(d) ==
  /\ call[d].op = "recount"
  /\ knows' = [knows EXCEPT ![d] = AnyCapability]
  /\ capCache' = DropMask(d, call[d].obj)
  /\ Return(d, NoResult)
  /\ UNCHANGED <<objects, cap, overtaken>>

-----------------------------------------------------------------------------
(* The object cache *)

Cached(d) == {o \in Objects : objCache[d][o] # NoFile}

CacheInsertUnpopped(d, o, n) ==
  LET full == Cardinality(Cached(d)) >= CacheSize
      kept == IF full THEN [objCache[d] EXCEPT ![Last(lru[d])] = NoFile] ELSE objCache[d]
  IN  /\ objCache' = [objCache EXCEPT ![d] = [kept EXCEPT ![o] = n]]
      /\ lru' = [lru EXCEPT ![d] = <<o>> \o lru[d]]

(* A full cache drops the object at the end of the list first. *)
CacheInsert(d, o, n) ==
  LET full == Cardinality(Cached(d)) >= CacheSize
      kept == IF full THEN [objCache[d] EXCEPT ![Last(lru[d])] = NoFile] ELSE objCache[d]
      list == IF full THEN Front(lru[d]) ELSE lru[d]
  IN  /\ objCache' = [objCache EXCEPT ![d] = [kept EXCEPT ![o] = n]]
      /\ lru' = [lru EXCEPT ![d] = <<o>> \o list]

-----------------------------------------------------------------------------
(* write_object *)

StartWrite(d, o) == Begin(d, o, "write", "create")

CreateTruncating(d) ==
  /\ call[d].op = "create"
  /\ file' = [file EXCEPT ![call[d].obj] = 0]
  /\ Continue(d, InCall("fill", call[d].obj))
  /\ UNCHANGED <<rights, cache, stranded>>

(* open with O_CREAT and O_EXCL: a file that is there is taken for the     *)
(* object.                                                                 *)
Create(d) ==
  /\ call[d].op = "create"
  /\ LET o == call[d].obj
     IN  IF file[o] = NoFile
         THEN file' = [file EXCEPT ![o] = 0] /\ Continue(d, InCall("fill", o))
         ELSE UNCHANGED file /\ Return(d, Wrote(o))
  /\ UNCHANGED <<rights, cache, stranded>>

WriteChunk(d) ==
  /\ call[d].op = "fill"
  /\ ~Complete(call[d].obj)
  /\ file' = [file EXCEPT ![call[d].obj] = @ + 1]
  /\ UNCHANGED <<rights, call, result, cache, stranded>>

WriteFails(d) ==
  /\ call[d].op = "fill"
  /\ ~Complete(call[d].obj)
  /\ Continue(d, InCall("remove", call[d].obj))
  /\ UNCHANGED <<rights, objects>>

(* The error of remove is ignored. *)
RemovePartial(d) ==
  /\ call[d].op = "remove"
  /\ \/ file' = [file EXCEPT ![call[d].obj] = NoFile] /\ UNCHANGED stranded
     \/ UNCHANGED file /\ stranded' = stranded \cup {call[d].obj}
  /\ Return(d, NoResult)
  /\ UNCHANGED <<rights, cache>>

FinishWrite(d) ==
  /\ call[d].op = "fill"
  /\ Complete(call[d].obj)
  /\ CacheInsert(d, call[d].obj, file[call[d].obj])
  /\ Return(d, Wrote(call[d].obj))
  /\ UNCHANGED <<rights, file, stranded>>

-----------------------------------------------------------------------------
(* read_object_bytes *)

StartRead(d, o) == Begin(d, o, "read", "load")

VerifiedAlways(o, n) == TRUE
Verified(o, n) == ReadVerify => n = Chunks[o]

LoadCached(d) ==
  /\ call[d].op = "load"
  /\ call[d].obj \in Cached(d)
  /\ LET o == call[d].obj
         n == objCache[d][o]
     IN  IF Verified(o, n)
         THEN /\ \E i \in DOMAIN lru[d] :
                   /\ lru[d][i] = o
                   /\ lru' = [lru EXCEPT ![d] = <<o>> \o RemoveAt(@, i)]
              /\ Return(d, Read(o, n))
         ELSE UNCHANGED lru /\ Return(d, NoResult)
  /\ UNCHANGED <<rights, file, objCache, stranded>>

(* The file is read as long as fstat says it is. *)
LoadFile(d) ==
  /\ call[d].op = "load"
  /\ call[d].obj \notin Cached(d)
  /\ LET o == call[d].obj
     IN  IF file[o] # NoFile /\ Verified(o, file[o])
         THEN CacheInsert(d, o, file[o]) /\ Return(d, Read(o, file[o]))
         ELSE UNCHANGED cache /\ Return(d, NoResult)
  /\ UNCHANGED <<rights, file, stranded>>

-----------------------------------------------------------------------------

(* The process of d ends, perhaps in the middle of a call, and a new one   *)
(* makes a driver on the same root.                                        *)
Reopen(d) ==
  /\ stranded' = IF call[d].op \in {"fill", "remove"} /\ ~Complete(call[d].obj)
                 THEN stranded \cup {call[d].obj} ELSE stranded
  /\ Return(d, NoResult)
  /\ knows' = [knows EXCEPT ![d] = AnyCapability]
  /\ capCache' = [capCache EXCEPT ![d] = [o \in Objects |-> NoMask]]
  /\ objCache' = [objCache EXCEPT ![d] = [o \in Objects |-> NoFile]]
  /\ lru' = [lru EXCEPT ![d] = <<>>]
  /\ UNCHANGED <<file, cap, overtaken>>

Init ==
  /\ file = [o \in Objects |-> NoFile]
  /\ cap = [o \in Objects |-> NoFile]
  /\ call = [d \in Drivers |-> Idle]
  /\ result = [d \in Drivers |-> NoResult]
  /\ knows = [d \in Drivers |-> FALSE]
  /\ capCache = [d \in Drivers |-> [o \in Objects |-> NoMask]]
  /\ objCache = [d \in Drivers |-> [o \in Objects |-> NoFile]]
  /\ lru = [d \in Drivers |-> <<>>]
  /\ stranded = {}
  /\ overtaken = [d \in Drivers |-> {}]

Next ==
  \E d \in Drivers :
    \/ \E o \in Objects :
         \/ StartWrite(d, o) \/ StartRead(d, o) \/ RemoveCapability(d, o)
         \/ \E m \in Masks : OpenCapability(d, o, m)
    \/ Create(d) \/ WriteChunk(d) \/ WriteFails(d) \/ RemovePartial(d) \/ FinishWrite(d)
    \/ LoadCached(d) \/ LoadFile(d)
    \/ CloseCapability(d) \/ Recount(d)
    \/ Reopen(d)

Spec == Init /\ [][Next]_vars

-----------------------------------------------------------------------------
(* Properties *)

Call ==
  {Idle} \cup {InCall(op, o) : op \in {"create", "fill", "remove", "load", "recount"},
                               o \in Objects}
         \cup {Publishing(o, m, l) : o \in Objects, m \in Masks, l \in BOOLEAN}

Result ==
  {NoResult} \cup {Wrote(o) : o \in Objects} \cup [did : {"read"}, obj : Objects, chunks : Nat]

(* The shape of the state; no file is ever longer than its object.         *)
TypeOK ==
  /\ file \in [Objects -> Nat \cup {NoFile}]
  /\ \A o \in Objects : file[o] # NoFile => file[o] <= Chunks[o]
  /\ cap \in [Objects -> Masks \cup {NoFile, Blank}]
  /\ call \in [Drivers -> Call]
  /\ result \in [Drivers -> Result]
  /\ knows \in [Drivers -> BOOLEAN]
  /\ capCache \in [Drivers -> [Objects -> Masks \cup {NoMask}]]
  /\ objCache \in [Drivers -> [Objects -> Nat \cup {NoFile}]]
  /\ lru \in [Drivers -> Seq(Objects)]
  /\ stranded \subseteq Objects
  /\ overtaken \in [Drivers -> SUBSET Objects]

(* An object's file is filled by one driver at a time, and only a crash or *)
(* a failed clean-up leaves an incomplete one behind: no interleaving of   *)
(* writers does.                                                           *)
OneWriter ==
  \A o \in Objects :
    /\ \A d, e \in Writers(o) : d = e
    /\ file[o] # NoFile /\ ~Complete(o) => Writers(o) # {} \/ o \in stranded

(* The cache of every driver holds complete objects that are still on disk *)
(* and its list orders exactly these, so that the element that eviction    *)
(* takes from the end is there and is in the cache.                        *)
CacheExact ==
  \A d \in Drivers :
    /\ \A o \in Cached(d) : objCache[d][o] = Chunks[o] /\ Complete(o)
    /\ ToSet(lru[d]) = Cached(d)
    /\ \A i, j \in 1 .. Len(lru[d]) : lru[d][i] = lru[d][j] => i = j
    /\ Len(lru[d]) <= CacheSize

(* A mask in a driver's cache is the one on disk, unless another driver    *)
(* has touched that capability since or its own write was lost: a driver   *)
(* that works alone follows its own grants and revocations at once.        *)
CapsFollowed ==
  \A d \in Drivers : \A o \in Objects :
    capCache[d][o] # NoMask /\ o \notin overtaken[d] =>
      capCache[d][o] = cap[o] \/ DuringPublish(d, o) \/ call[d] = InCall("recount", o)

(* The drivers together are a store that seals each object once and whose  *)
(* reads return sealed objects only, through crashes and interleavings.    *)
Answered(d) ==
  IF result[d] = NoResult \/ result[d].did = "write" THEN NoResult
  ELSE IF result[d].chunks = Chunks[result[d].obj] THEN result[d].obj
  ELSE result[d]

Sealed == {o \in Objects : Complete(o)}
Answers == [d \in Drivers |-> Answered(d)]

Store == INSTANCE ContentStore WITH
  Clients <- Drivers, NoAnswer <- NoResult, sealed <- Sealed, answer <- Answers

StoreSpec == Store!Spec
=============================================================================
