---------------------------- MODULE ContentStore ----------------------------
(***************************************************************************)
(* What CanonFS promises of its objects (spec/canonfs-spec.md, 2, as far   *)
(* as src/canonfs/persistent_driver.cpp provides it): an object is sealed  *)
(* once and for all under the hash of its content, and a read returns a    *)
(* sealed object or an error, never anything else.                         *)
(***************************************************************************)

CONSTANTS
  Clients,   \* those that read and write
  Objects,   \* contents; each stands for its hash too
  NoAnswer   \* an error, or no read yet

VARIABLES
  sealed,    \* objects in the store
  answer     \* what the last read of each client returned

Seal(o) ==
  /\ o \notin sealed
  /\ sealed' = sealed \cup {o}
  /\ UNCHANGED answer

Answer(c) ==
  /\ \E a \in sealed \cup {NoAnswer} : answer' = [answer EXCEPT ![c] = a]
  /\ UNCHANGED sealed

Init ==
  /\ sealed = {}
  /\ answer = [c \in Clients |-> NoAnswer]

Next ==
  \/ \E o \in Objects : Seal(o)
  \/ \E c \in Clients : Answer(c)

Spec == Init /\ [][Next]_<<sealed, answer>>
=============================================================================
