----------------------------- MODULE DurableLog -----------------------------
(***************************************************************************)
(* What a board promises about its history, whatever the process, the      *)
(* files and the instances do behind it: one log of edits that only grows  *)
(* at its end, in which an acknowledged edit keeps its place for ever.  A  *)
(* crash may take edits back, from the end, and never an acknowledged one. *)
(* A log that breaks can no longer be recovered: edits are acknowledged    *)
(* that it lacks.  Losing its last edits may mend it.                      *)
(***************************************************************************)
EXTENDS Naturals, SequencesExt

CONSTANT Edit

VARIABLES
  durable,   \* the edits a restart would recover, oldest first
  acked,     \* the edits whose clients were told that they are accepted
  broken     \* a restart could not read the log

logVars == <<durable, acked, broken>>

Init == durable = << >> /\ acked = {} /\ broken = FALSE

\* Edits are recorded behind those that are there.
Record ==
  /\ IsStrictPrefix(durable, durable')
  /\ broken => broken'
  /\ UNCHANGED acked

\* Something is written that cannot be read back.
Break == broken' = TRUE /\ UNCHANGED <<durable, acked>>

\* A recorded edit is acknowledged.
Acknowledge(e) ==
  /\ e \in ToSet(durable) \/ broken
  /\ acked' = acked \union {e}
  /\ UNCHANGED <<durable, broken>>

\* Unacknowledged edits are lost from the end.
Lose ==
  /\ IsStrictPrefix(durable', durable)
  /\ broken' => broken
  /\ acked \subseteq ToSet(durable')
  /\ UNCHANGED acked

Next == Record \/ Break \/ Lose \/ \E e \in Edit : Acknowledge(e)

Spec == Init /\ [][Next]_logVars
=============================================================================
