------------------------------ MODULE MCWork ------------------------------
(***************************************************************************)
(* An instance of Work: a catchup in small.  A batch downloads two checkpoints  *)
(* and applies the second once the first is there; another part of the node      *)
(* schedules a command of its own.                                              *)
(***************************************************************************)
EXTENDS Work

CONSTANTS sched, batch, get1, second, get2, cond2, apply2, other

CatchupKind ==
    [x \in WorkId |->
        CASE x = sched -> "scheduler"
          [] x = batch -> "batch"
          [] x = second -> "sequence"
          [] x = cond2 -> "conditional"
          [] OTHER -> "command"]

CatchupParent ==
    [x \in WorkId |->
        CASE x \in {get1, second} -> batch
          [] x \in {get2, cond2} -> second
          [] x = apply2 -> cond2
          [] OTHER -> sched]

CatchupItems ==
    [x \in WorkId |->
        CASE x = batch -> <<get1, second>>
          [] x = second -> <<get2, cond2>>
          [] x = cond2 -> <<apply2>>
          [] OTHER -> <<>>]

\* The first download is retried.
CatchupRetries == [x \in WorkId |-> IF x = get1 THEN 1 ELSE 0]

CatchupBefore == [x \in {cond2} |-> get1]
=============================================================================
