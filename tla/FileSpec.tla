------------------------------- MODULE FileSpec -------------------------------
(***************************************************************************)
(* What the read function of an open file promises (struct file_entry,     *)
(* fs.h:46-50, as ext4fs_file_entry_read keeps it, ext4.c:869-876): one    *)
(* answer to every request, which is an error or the bytes of the file     *)
(* from the position on.  How the file lies on the device, and in which    *)
(* pieces it is read, is not to be seen.                                   *)
(***************************************************************************)
EXTENDS Integers

CONSTANTS
  Positions, Lengths,   (* the requests there may be                         *)
  Unsure                (* what stands for bytes of reads the device failed  *)

VARIABLES
  content,      (* the file's bytes                                          *)
  size,         (* its size                                                  *)
  asked,        (* the request that has no answer yet                        *)
  answer        (* the answer the caller has not taken yet                   *)

vars == <<content, size, asked, answer>>

NoRequest == [pos |-> 0, len |-> -1]
None == [st |-> "none", bytes |-> <<>>]
Failed == [st |-> "failed", bytes |-> <<>>]

Init ==
  /\ asked = NoRequest
  /\ answer = None

(* Dokan's single thread asks for one thing at a time.                     *)
Ask ==
  /\ asked = NoRequest /\ answer = None
  /\ \E pos \in Positions, len \in Lengths :
       len <= size /\ asked' = [pos |-> pos, len |-> len]
  /\ UNCHANGED <<content, size, answer>>

(* The bytes may be unsure one by one: the device reads sectors.           *)
Bytes(pos, len) ==
  {bytes \in [0..(len - 1) -> Int] :
     \A k \in 0..(len - 1) : bytes[k] \in {content[pos + k]} \cup Unsure}

Answer ==
  /\ asked # NoRequest
  /\ \/ answer' = Failed
     \/ answer' \in [st : {"read"}, bytes : Bytes(asked.pos, asked.len)]
  /\ asked' = NoRequest
  /\ UNCHANGED <<content, size>>

Take ==
  /\ answer # None
  /\ answer' = None
  /\ UNCHANGED <<content, size, asked>>

Next == Ask \/ Answer \/ Take

Spec == Init /\ [][Next]_vars /\ WF_vars(Answer)
=============================================================================
