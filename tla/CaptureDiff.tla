---------------------------- MODULE CaptureDiff ----------------------------
(***************************************************************************)
(* What the analysis of two captures promises: the replies to the queries  *)
(* 1, 2, ... are compared as long as both captures have them, and those    *)
(* that differ are counted.  The analysis may break off.                   *)
(***************************************************************************)
EXTENDS Naturals

CONSTANT Differs(_, _)

VARIABLES
  base, target,   \* the captures: functions from query ids to replies
  compared,       \* ids of the replies compared
  different,      \* how many of them differ
  status          \* running | finished | aborted

vars == <<base, target, compared, different, status>>

Common == DOMAIN base \cap DOMAIN target

(* The first id that has not been compared. *)
IsNext(id) == id \notin compared /\ 1..(id - 1) \subseteq compared

Init ==
  /\ compared = {} /\ different = 0
  /\ status = "running"

CompareNext ==
  /\ status = "running"
  /\ \E id \in Common :
       /\ IsNext(id)
       /\ compared' = compared \cup {id}
       /\ different' = different
            + (IF Differs(base[id], target[id]) THEN 1 ELSE 0)
  /\ UNCHANGED <<base, target, status>>

Finish ==
  /\ status = "running"
  /\ ~\E id \in Common : IsNext(id)
  /\ status' = "finished"
  /\ UNCHANGED <<base, target, compared, different>>

Abort ==
  /\ status = "running"
  /\ status' = "aborted"
  /\ UNCHANGED <<base, target, compared, different>>

Next == CompareNext \/ Finish \/ Abort

Spec == Init /\ [][Next]_vars
=============================================================================
