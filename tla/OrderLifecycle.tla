---------------------------- MODULE OrderLifecycle ----------------------------
(***************************************************************************)
(* What the pending_orders queue promises about one row, whatever workers  *)
(* crash, race or time out: it is inserted once, taken at most Limit       *)
(* times, handed back only while attempts are left, and once settled never *)
(* queued again.  OrderQueue implements this.                              *)
(***************************************************************************)
EXTENDS Naturals

CONSTANTS Rows, Limit
VARIABLES phase, taken
vars == <<phase, taken>>

Init ==
  /\ phase = [o \in Rows |-> "absent"]
  /\ taken = [o \in Rows |-> 0]

Insert(o) ==
  /\ phase[o] = "absent"
  /\ phase' = [phase EXCEPT ![o] = "pending"]
  /\ UNCHANGED taken

Take(o) ==
  /\ phase[o] = "pending" /\ taken[o] < Limit
  /\ phase' = [phase EXCEPT ![o] = "processing"]
  /\ taken' = [taken EXCEPT ![o] = @ + 1]

HandBack(S) ==
  /\ \A o \in S : phase[o] = "processing" /\ taken[o] < Limit
  /\ phase' = [o \in Rows |-> IF o \in S THEN "pending" ELSE phase[o]]
  /\ UNCHANGED taken

\* By whoever still works on the row, hence from any phase but absent.
Close(o, verdict) ==
  /\ phase[o] # "absent"
  /\ phase' = [phase EXCEPT ![o] = verdict]
  /\ UNCHANGED taken

Next ==
  \/ \E o \in Rows : Insert(o) \/ Take(o) \/ Close(o, "sent") \/ Close(o, "failed")
  \/ \E S \in SUBSET Rows : HandBack(S)

Spec == Init /\ [][Next]_vars
=============================================================================
