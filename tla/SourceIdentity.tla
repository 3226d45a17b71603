------------------------------ MODULE SourceIdentity ------------------------------
(***************************************************************************)
(* What discovery promises about identity: the bytes of a recording belong *)
(* to one row of audio_files from the moment they are first seen, wherever *)
(* the file that holds them is moved.                                      *)
(***************************************************************************)
CONSTANTS Rows, Contents, NoOwner

VARIABLE owner      \* the row each content belongs to

Init == owner = [c \in Contents |-> NoOwner]

Register(c, r) ==
  /\ owner[c] = NoOwner
  /\ owner' = [owner EXCEPT ![c] = r]

Next == \E c \in Contents, r \in Rows : Register(c, r)

Spec == Init /\ [][Next]_owner
================================================================================
