----------------------------- MODULE Catalogue -----------------------------
(***************************************************************************)
(* What a store of meta data promises to who looks something up: an answer *)
(* is an entry that was stored under that uuid, and as long as the process *)
(* lives it does not change.  It may say that there is none although there *)
(* is one.  MetaStore implements it.                                       *)
(***************************************************************************)
CONSTANTS
  Saves,      \* what callers save
  Uuids,
  Uuid,       \* the uuid in the meta data of each
  Unasked,
  Missing     \* find_meta returned None

VARIABLES
  entries,    \* what is stored
  answer      \* the last answer for each uuid, in this process

vars == << entries, answer >>

Init ==
  /\ entries = {}
  /\ answer = [u \in Uuids |-> Unasked]

Store(s) ==
  /\ entries' = entries \cup {s}
  /\ UNCHANGED answer

Candidates(u) ==
  IF answer[u] \in Saves THEN {answer[u]}
  ELSE {s \in entries : Uuid[s] = u} \cup {Missing}

Lookup(u) ==
  /\ \E r \in Candidates(u) : answer' = [answer EXCEPT ![u] = r]
  /\ UNCHANGED entries

Restart ==
  /\ answer' = [u \in Uuids |-> Unasked]
  /\ UNCHANGED entries

Next ==
  \/ \E s \in Saves : Store(s)
  \/ \E u \in Uuids : Lookup(u)
  \/ Restart

Spec == Init /\ [][Next]_vars
=============================================================================
