----------------------------- MODULE SessionLog -----------------------------
(***************************************************************************)
(* What a session's short-term memory promises, without locks, versions,   *)
(* requests or stores: a log of accepted messages of which an initial part *)
(* is folded into a summary.  A message leaves the log only by a fold, a   *)
(* fold takes whole archived runs from the front, and the summary tells of *)
(* exactly the folded messages.                                            *)
(***************************************************************************)
EXTENDS Integers

CONSTANT MaxMessages

VARIABLES
  open,      \* the session still takes messages or compressions
  written,   \* messages 1 .. written were accepted
  folded,    \* messages 1 .. folded have left the list
  told,      \* messages the summary tells of
  kept       \* messages some archive holds

logVars == <<open, written, folded, told, kept>>

LogInit ==
  /\ open = TRUE
  /\ written = 0 /\ folded = 0
  /\ told = {} /\ kept = {}

Append ==
  /\ open /\ written < MaxMessages
  /\ written' = written + 1
  /\ UNCHANGED <<open, folded, told, kept>>

Keep ==
  /\ \E i, j \in 1..written : kept' = kept \cup i..j
  /\ UNCHANGED <<open, written, folded, told>>

Fold ==
  /\ open
  /\ \E n \in (folded + 1)..written :
       /\ (folded + 1)..n \subseteq kept
       /\ folded' = n
       /\ told' = told \cup (folded + 1)..n
  /\ UNCHANGED <<open, written, kept>>

Close ==
  /\ open /\ open' = FALSE
  /\ UNCHANGED <<written, folded, told, kept>>

LogNext == Append \/ Keep \/ Fold \/ Close

LogSpec == LogInit /\ [][LogNext]_logVars
=============================================================================
