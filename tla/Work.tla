------------------------------- MODULE Work -------------------------------
(***************************************************************************)
(* The tree of works that the main thread cranks: src/work/ (BasicWork, Work,  *)
(* WorkSequence, ConditionalWork, BatchWork, WorkScheduler), with               *)
(* src/historywork/RunCommandWork.cpp as the leaves.  The scheduler is the       *)
(* root; every crank walks down to one leaf, every wake-up walks up to the root. *)
(* A work is a record with the members of its class:                            *)
(*                                                                            *)
(*   state, retries        mState, mRetries                                     *)
(*   timer                 mRetryTimer: null, armed, or fired and not yet reset  *)
(*   kids, next            mChildren; mNextChild as a position, 0 for end()      *)
(*   abortKids             mAbortChildrenButNotSelf                              *)
(*   batch, item           mBatch; how many works yieldMoreWork has yielded      *)
(*   index, started        mNextInSequence; mCurrentExecuting is set, or         *)
(*                         mWorkStarted                                          *)
(*   cond                  mCondition is not null                                *)
(*   event                 the process runs, or the sleep timer is armed         *)
(*   done                  mDone                                                 *)
(*                                                                            *)
(* tree holds the works, mScheduled, and whether every assertion and every       *)
(* check that throws has held so far.  A member function is an operator from     *)
(* the old tree to the new one.                                                  *)
(***************************************************************************)
EXTENDS Integers, SequencesExt

CONSTANTS
    WorkId,      \* the works
    Scheduler,   \* the WorkScheduler
    Kind,        \* "scheduler", "batch", "sequence", "conditional", "command"
    Parent,      \* whom the work notifies
    Items,       \* the works that a batch, sequence or conditional work runs
    MaxRetries,  \* mMaxRetries
    Bandwidth,   \* MAX_CONCURRENT_SUBPROCESSES
    Before       \* the work that a conditional work waits for

ASSUME WorkAssumption ==
    /\ Scheduler \in WorkId
    /\ MaxRetries \in [WorkId -> Nat]
    /\ Bandwidth \in Nat \ {0}

VARIABLE tree

Done == {"SUCCESS", "FAILURE", "ABORTED"}

State == Done \cup {"PENDING", "RUNNING", "WAITING", "ABORTING", "RETRYING"}

ALLOWED_TRANSITIONS ==
    {<<"PENDING", "RUNNING">>, <<"PENDING", "ABORTING">>,
     <<"RUNNING", "RUNNING">>, <<"RUNNING", "WAITING">>,
     <<"RUNNING", "SUCCESS">>, <<"RUNNING", "FAILURE">>,
     <<"RUNNING", "RETRYING">>, <<"RUNNING", "ABORTING">>,
     <<"WAITING", "RUNNING">>, <<"WAITING", "ABORTING">>,
     <<"RETRYING", "WAITING">>, <<"SUCCESS", "PENDING">>,
     <<"FAILURE", "PENDING">>, <<"ABORTING", "ABORTING">>,
     <<"ABORTING", "ABORTED">>, <<"ABORTED", "PENDING">>}

NewWork ==
    [state |-> "PENDING", retries |-> 0, timer |-> "null", kids |-> <<>>,
     next |-> 0, abortKids |-> FALSE, batch |-> {}, item |-> 0, index |-> 1,
     started |-> FALSE, cond |-> TRUE, event |-> FALSE, done |-> FALSE]

Require(t, holds) == [t EXCEPT !.sound = @ /\ holds]

isDone(t, x) == t.work[x].state \in Done

isAborting(t, x) == t.work[x].state = "ABORTING"

getState(t, x) ==
    LET s == t.work[x].state
    IN  CASE s \in {"PENDING", "ABORTING"} -> "RUNNING"
          [] s = "RETRYING" -> "WAITING"
          [] OTHER -> s

allDone(t, xs) == \A i \in DOMAIN xs : isDone(t, xs[i])

allSuccessful(t, xs) == \A i \in DOMAIN xs : getState(t, xs[i]) = "SUCCESS"

anyFailed(t, xs) == \E i \in DOMAIN xs : getState(t, xs[i]) = "FAILURE"

anyRunning(t, xs) == \E i \in DOMAIN xs : getState(t, xs[i]) = "RUNNING"

-----------------------------------------------------------------------------
(***************************************************************************)
(* BasicWork.                                                                 *)
(***************************************************************************)
scheduleOne(t) == [t EXCEPT !.scheduled = TRUE]

\* Mutant: the work wakes up and tells nobody.
wakeUpSilently(t, x) ==
    IF t.work[x].state # "WAITING" THEN t
    ELSE [t EXCEPT !.work[x].state = "RUNNING"]

\* The scheduler's callback schedules the next crank; every other work's tells
\* its parent.
RECURSIVE wakeUp(_, _)
wakeUp(t, x) ==
    IF t.work[x].state # "WAITING" THEN t
    ELSE LET awake == [t EXCEPT !.work[x].state = "RUNNING"]
         IN  IF x = Scheduler THEN scheduleOne(awake)
             ELSE wakeUp(awake, Parent[x])

\* Mutant: the next attempt is counted, and nobody is woken up to make it.
retryHandlerAsleep(t, x) ==
    [t EXCEPT !.work[x].retries = @ + 1, !.work[x].timer = "null"]

\* The handler does not look at the error code: a timer that is cancelled runs it
\* as well.
retryHandler(t, x) ==
    LET r == t.work[x]
        checked == Require(t, r.state \in {"WAITING", "ABORTED", "ABORTING"})
    IN  IF r.state = "WAITING"
        THEN wakeUp([checked EXCEPT !.work[x].retries = @ + 1,
                                    !.work[x].timer = "null"], x)
        ELSE [checked EXCEPT !.work[x].timer = "fired"]

workOnReset(t, x) ==
    [Require(t, allDone(t, t.work[x].kids)) EXCEPT
        !.work[x] = [@ EXCEPT !.kids = <<>>, !.next = 0, !.abortKids = FALSE,
                              !.batch = {}, !.item = 0]]

sequenceOnReset(t, x) ==
    LET before == 1 .. t.work[x].index - 1
    IN  [Require(t, \A i \in before : isDone(t, Items[x][i])) EXCEPT
            !.work[x].index = 1, !.work[x].started = FALSE]

conditionalOnReset(t, x) == [t EXCEPT !.work[x].started = FALSE]

commandOnReset(t, x) == [t EXCEPT !.work[x].done = FALSE]

onReset(t, x) ==
    CASE Kind[x] \in {"scheduler", "batch"} -> workOnReset(t, x)
      [] Kind[x] = "sequence" -> sequenceOnReset(t, x)
      [] Kind[x] = "conditional" -> conditionalOnReset(t, x)
      [] Kind[x] = "command" -> commandOnReset(t, x)

reset(t, x) ==
    LET cancelled == IF t.work[x].timer = "armed" THEN retryHandler(t, x) ELSE t
    IN  onReset([cancelled EXCEPT !.work[x].timer = "null"], x)

waitForRetry(t, x) ==
    [Require(t, t.work[x].timer = "null") EXCEPT
        !.work[x].timer = "armed", !.work[x].state = "WAITING"]

\* What setState does before it stores st.
leaveState(t, x, st) ==
    IF t.work[x].state = "PENDING" /\ st = "RUNNING"
    THEN [reset(t, x) EXCEPT !.work[x].retries = 0]
    ELSE IF st \in {"FAILURE", "RETRYING", "ABORTED"} THEN reset(t, x)
    ELSE t

\* And from then on.
enterState(t, x, st) ==
    LET changed == [t EXCEPT !.work[x].state = st]
    IN  IF st = "RETRYING" THEN waitForRetry(changed, x) ELSE changed

setState(t, x, to) ==
    LET r == t.work[x]
        st == IF to = "FAILURE" /\ r.retries < MaxRetries[x]
              THEN "RETRYING" ELSE to
    IN  enterState(
            leaveState(Require(t, <<r.state, st>> \in ALLOWED_TRANSITIONS), x, st),
            x, st)

requireNoRetries(t, x) == Require(t, t.work[x].retries = 0)

startWork(t, x) ==
    LET pending == IF t.work[x].state # "PENDING"
                   THEN setState(t, x, "PENDING") ELSE t
    IN  requireNoRetries(setState(pending, x, "RUNNING"), x)

RECURSIVE shutdown(_, _)
shutdownChildren(t, x) ==
    FoldLeft(LAMBDA u, c : shutdown(u, c), t,
             SelectSeq(t.work[x].kids, LAMBDA c : ~isDone(t, c)))

\* Mutant: a batch shuts itself down and leaves its children alone.
workShutdownSelf(t, x) == t

workShutdown(t, x) == shutdownChildren(t, x)

sequenceShutdown(t, x) ==
    IF t.work[x].started THEN shutdown(t, Items[x][t.work[x].index]) ELSE t

conditionalShutdown(t, x) ==
    IF t.work[x].started THEN shutdown(t, Items[x][1]) ELSE t

\* BasicWork::shutdown.
basicShutdown(t, x) == IF isDone(t, x) THEN t ELSE setState(t, x, "ABORTING")

\* Every class shuts down what it has started, then itself.
shutdown(t, x) ==
    basicShutdown(CASE Kind[x] \in {"scheduler", "batch"} -> workShutdown(t, x)
                    [] Kind[x] = "sequence" -> sequenceShutdown(t, x)
                    [] Kind[x] = "conditional" -> conditionalShutdown(t, x)
                    [] Kind[x] = "command" -> t,
                  x)

-----------------------------------------------------------------------------
(***************************************************************************)
(* Work: the children, and the round robin over them.                         *)
(***************************************************************************)
addChild(t, x, c) ==
    [t EXCEPT !.work[x].next = IF t.work[x].kids = <<>> THEN 1 ELSE @,
              !.work[x].kids = Append(@, c)]

addWork(t, x, c) == wakeUp(startWork(addChild(t, x, c), c), x)

clearChildren(t, x) ==
    [Require(t, allDone(t, t.work[x].kids)) EXCEPT
        !.work[x].kids = <<>>, !.work[x].next = 0]

\* The next running child, if any, from mNextChild on; children that are done are
\* erased on the way.  At the end of the list mNextChild starts over.
yieldNextRunningChild(t, x) ==
    LET r == t.work[x]
        n == Len(r.kids)
        first == IF r.next = 0 THEN n + 1 ELSE r.next
        running == {i \in first .. n : getState(t, r.kids[i]) = "RUNNING"}
        at == IF running = {} THEN n + 1 ELSE Min(running)
        left == SubSeq(r.kids, 1, first - 1)
                    \o SelectSeq(SubSeq(r.kids, first, at - 1),
                                 LAMBDA c : ~isDone(t, c))
        kids == left \o SubSeq(r.kids, at, n)
        after == IF running # {}
                 THEN IF at = n THEN 0 ELSE Len(left) + 2
                 ELSE IF kids = <<>> THEN 0 ELSE 1
    IN  [child |-> IF running = {} THEN {} ELSE {r.kids[at]},
         tree |-> [t EXCEPT !.work[x].kids = kids, !.work[x].next = after]]

-----------------------------------------------------------------------------
(***************************************************************************)
(* What a crank of each class does.  An operator that stands for a function    *)
(* with a result returns it with the tree.  out is what the world decides: the  *)
(* exit code of a command, whether it is started, whether a process that is     *)
(* killed goes at once.                                                        *)
(***************************************************************************)
Result(t, value) == [tree |-> t, value |-> value]

RECURSIVE crankWork(_, _, _)

\* BatchWork::doWork with addMoreWorkIfNeeded.
RECURSIVE addMoreWorkIfNeeded(_, _)
addMoreWorkIfNeeded(t, x) ==
    LET r == t.work[x]
        w == Items[x][r.item + 1]
    IN  IF Cardinality(r.batch) < Bandwidth /\ r.item < Len(Items[x])
        THEN addMoreWorkIfNeeded(
                 [addWork(t, x, w) EXCEPT !.work[x].batch = @ \cup {w},
                                          !.work[x].item = @ + 1], x)
        ELSE t

\* How a batch stands once it has added what it can.
batchStatus(t, x) ==
    LET kids == t.work[x].kids
    IN  Result(t, IF allSuccessful(t, kids) THEN "SUCCESS"
                  ELSE IF anyRunning(t, kids) THEN "RUNNING"
                  ELSE "WAITING")

batchDoWork(t, x) ==
    LET cleaned == [t EXCEPT !.work[x].batch =
                        {w \in @ : getState(t, w) # "SUCCESS"}]
    IN  IF anyFailed(t, t.work[x].kids) THEN Result(t, "FAILURE")
        ELSE batchStatus(addMoreWorkIfNeeded(Require(cleaned, ~isAborting(t, x)), x), x)

schedulerDoWork(t, x) ==
    Result(t, IF anyRunning(t, t.work[x].kids) THEN "RUNNING" ELSE "WAITING")

doWork(t, x) ==
    IF Kind[x] = "scheduler" THEN schedulerDoWork(t, x) ELSE batchDoWork(t, x)

\* A child that an aborting work yields is cranked; with none left, it is done when
\* all its children are.
abortYielded(y, x, out) ==
    IF y.child = {} THEN Result(y.tree, allDone(y.tree, y.tree.work[x].kids))
    ELSE LET c == CHOOSE w \in y.child : TRUE
         IN  Result(crankWork(Require(y.tree, isAborting(y.tree, c)), c, out), FALSE)

workOnAbort(t, x, out) == abortYielded(yieldNextRunningChild(t, x), x, out)

\* Mutant: a work that fails does not wait for its children to abort.
workOnRunLeaving(t, x, out) ==
    LET y == yieldNextRunningChild(t, x)
    IN  IF y.child # {}
        THEN Result(crankWork(y.tree, CHOOSE w \in y.child : TRUE, out), "RUNNING")
        ELSE doWork(y.tree, x)

\* The end of an abort that leaves the work itself running.
childrenAborted(aborted) ==
    Result(aborted.tree, IF aborted.value THEN "FAILURE" ELSE "RUNNING")

\* What becomes of the result of doWork.
afterDoWork(did, x) ==
    LET kids == did.tree.work[x].kids
    IN  IF did.value = "SUCCESS"
        THEN Result(clearChildren(Require(did.tree, allSuccessful(did.tree, kids)), x),
                    "SUCCESS")
        ELSE IF did.value = "FAILURE" /\ ~allDone(did.tree, kids)
        THEN Result([shutdownChildren(did.tree, x) EXCEPT !.work[x].abortKids = TRUE],
                    "RUNNING")
        ELSE did

runYielded(y, x, out) ==
    IF y.child # {}
    THEN Result(crankWork(y.tree, CHOOSE w \in y.child : TRUE, out), "RUNNING")
    ELSE afterDoWork(doWork(y.tree, x), x)

workOnRun(t, x, out) ==
    IF t.work[x].abortKids
    THEN childrenAborted(workOnAbort(t, x, out))
    ELSE runYielded(yieldNextRunningChild(t, x), x, out)

RECURSIVE sequenceOnRun(_, _, _)
sequenceOnRun(t, x, out) ==
    LET r == t.work[x]
        w == Items[x][r.index]
    IN  IF r.index > Len(Items[x]) THEN Result(t, "SUCCESS")
        ELSE IF ~r.started
        THEN Result(crankWork([startWork(t, w) EXCEPT !.work[x].started = TRUE],
                              w, out), "RUNNING")
        ELSE IF getState(t, w) = "SUCCESS"
        THEN sequenceOnRun([t EXCEPT !.work[x].started = FALSE,
                                     !.work[x].index = @ + 1], x, out)
        ELSE IF getState(t, w) # "RUNNING" THEN Result(t, getState(t, w))
        ELSE Result(crankWork(t, w, out), "RUNNING")

sequenceOnAbort(t, x, out) ==
    LET r == t.work[x]
        w == Items[x][r.index]
    IN  IF r.started /\ ~isDone(t, w) THEN Result(crankWork(t, w, out), FALSE)
        ELSE Result(t, TRUE)

stateOf(t, w) == Result(t, getState(t, w))

conditionalOnRun(t, x, out) ==
    LET w == Items[x][1]
        ready == getState(t, Before[x]) = "SUCCESS"
        begun == [startWork(Require(t, t.work[x].cond), w) EXCEPT
                     !.work[x].started = TRUE, !.work[x].cond = FALSE]
    IN  IF t.work[x].started \/ ready
        THEN stateOf(crankWork(IF t.work[x].started THEN t ELSE begun, w, out), w)
        ELSE Result([Require(t, t.work[x].cond) EXCEPT !.work[x].event = TRUE],
                    "WAITING")

conditionalOnAbort(t, x, out) ==
    LET w == Items[x][1]
    IN  IF t.work[x].started /\ ~isDone(t, w)
        THEN Result(crankWork(t, w, out), FALSE) ELSE Result(t, TRUE)

\* RunCommandWork: the command is empty (SUCCESS), cannot be started (FAILURE), or
\* runs until its exit event sets mDone.
commandOnRun(t, x, out) ==
    IF t.work[x].done
    THEN Result(t, IF out = "FAILURE" THEN "FAILURE" ELSE "SUCCESS")
    ELSE Result([t EXCEPT !.work[x].event = @ \/ out = "WAITING"], out)

commandOnAbort(t, x, out) == Result(t, ~t.work[x].event \/ out = "SUCCESS")

onRun(t, x, out) ==
    CASE Kind[x] \in {"scheduler", "batch"} -> workOnRun(t, x, out)
      [] Kind[x] = "sequence" -> sequenceOnRun(t, x, out)
      [] Kind[x] = "conditional" -> conditionalOnRun(t, x, out)
      [] Kind[x] = "command" -> commandOnRun(t, x, out)

onAbort(t, x, out) ==
    CASE Kind[x] \in {"scheduler", "batch"} -> workOnAbort(t, x, out)
      [] Kind[x] = "sequence" -> sequenceOnAbort(t, x, out)
      [] Kind[x] = "conditional" -> conditionalOnAbort(t, x, out)
      [] Kind[x] = "command" -> commandOnAbort(t, x, out)

aborts(r, x) == setState(r.tree, x, IF r.value THEN "ABORTED" ELSE "ABORTING")

runs(r, x) == setState(r.tree, x, r.value)

crankWork(t, x, out) ==
    LET checked == Require(t, ~isDone(t, x) /\ t.work[x].state # "WAITING")
    IN  IF isAborting(t, x) THEN aborts(onAbort(checked, x, out), x)
        ELSE runs(onRun(checked, x, out), x)
-----------------------------------------------------------------------------
(***************************************************************************)
(* What happens on the main thread.                                           *)
(***************************************************************************)
create ==
    LET new == [work |-> [x \in WorkId |-> NewWork], scheduled |-> FALSE,
                sound |-> TRUE]
    IN  crankWork(startWork(new, Scheduler), Scheduler, "SUCCESS")

Init == tree = create

\* Some part of the node schedules a work; not after the scheduler has stopped,
\* which is the end of the application.
ScheduleWork(x) ==
    /\ Parent[x] = Scheduler
    /\ tree.work[x].state = "PENDING"
    /\ ~isAborting(tree, Scheduler)
    /\ ~isDone(tree, Scheduler)
    /\ tree' = addWork(tree, Scheduler, x)

reschedule(t) == [t EXCEPT !.scheduled = getState(t, Scheduler) = "RUNNING"]

\* The closure that scheduleOne posts, one round of its loop at a time: shouldYield
\* may end the loop after any round, and it is posted again while there is work.
Crank(out) ==
    /\ tree.scheduled
    /\ tree' = reschedule(crankWork(tree, Scheduler, out))

\* A process exits, or the sleep timer of a ConditionalWork fires.
Event(x) ==
    /\ tree.work[x].event
    /\ tree' = wakeUp([tree EXCEPT !.work[x].event = FALSE,
                                   !.work[x].done = Kind[x] = "command"], x)

RetryTimer(x) ==
    /\ tree.work[x].timer = "armed"
    /\ tree' = retryHandler(tree, x)

\* WorkScheduler::shutdown.
Shutdown ==
    /\ ~isDone(tree, Scheduler)
    /\ tree' = scheduleOne(shutdown(tree, Scheduler))

Outcome == {"WAITING", "SUCCESS", "FAILURE"}

Finished == isDone(tree, Scheduler) /\ UNCHANGED tree

Next ==
    \/ \E x \in WorkId : ScheduleWork(x) \/ Event(x) \/ RetryTimer(x)
    \/ \E out \in Outcome : Crank(out)
    \/ Shutdown
    \/ Finished

Spec == Init /\ [][Next]_tree

\* The main thread runs what is posted to it, processes exit and timers fire.
\* Nothing makes anybody schedule a work or shut the application down.  This is
\* WF_tree of a crank, of Event(x) and of RetryTimer(x) with what they amount to: some
\* outcome of a crank that is posted changes the tree, and without cranks nothing else
\* goes on changing it; only Event(x) ends an event, and always does; an armed timer
\* that goes off is armed no longer.
Fairness ==
    /\ []<>(~tree.scheduled) \/ []<><<TRUE>>_tree
    /\ \A x \in {w \in WorkId : Kind[w] \in {"command", "conditional"}} :
           []<>(~tree.work[x].event)
    /\ \A x \in {w \in WorkId : MaxRetries[w] > 0} : []<>(tree.work[x].timer # "armed")

FairSpec == Spec /\ Fairness

-----------------------------------------------------------------------------
(***************************************************************************)
(* Properties.                                                                *)
(***************************************************************************)
\* No assertion of src/work fails and nothing in it throws: transitions are the
\* allowed ones (BasicWork.cpp:388), nobody cranks a work that waits or is done
\* (:331), a retry timer fires in a state that expects it (:184) and is never armed
\* twice (:165), children are done when they are dropped (Work.cpp:142), a child
\* cranked by an aborting parent aborts too (:89), a batch that succeeds has only
\* successful children (:55) and a condition is still there when it is asked.
NeverAsserts == tree.sound

\* No wake-up is lost: a work that needs cranking is below works that are awake, and
\* when the scheduler is awake its next crank is posted.  (wakeUp is silent when the
\* work is not WAITING, BasicWork.cpp:294, and scheduleOne when one is posted.)
NoLostWakeup ==
    /\ \A x \in WorkId \ {Scheduler} :
           tree.work[x].state \in {"RUNNING", "ABORTING"}
               => tree.work[Parent[x]].state \in {"RUNNING", "ABORTING"}
    /\ tree.work[Scheduler].state \in {"RUNNING", "ABORTING"} <=> tree.scheduled

\* A work that is done leaves nothing behind: what it ran is done or was never
\* started, and no retry timer is armed that would fire into it.  And success is earned
\* in order: a batch, sequence or conditional work succeeds only when everything it was
\* to run has, although children that are done are erased before doWork looks; a step
\* of a sequence starts after the steps before it have succeeded, and a conditioned
\* work after the work it waits for.
DoneInOrder ==
    \A x \in WorkId :
        LET succeeded(y) == tree.work[y].state = "SUCCESS"
            begun(y) == tree.work[y].state # "PENDING"
        IN  /\ isDone(tree, x) =>
                   /\ tree.work[x].timer # "armed"
                   /\ tree.work[x].kids = <<>>
                   /\ \A i \in DOMAIN Items[x] :
                          tree.work[Items[x][i]].state \in Done \cup {"PENDING"}
            /\ x # Scheduler /\ succeeded(x) =>
                   \A i \in DOMAIN Items[x] : succeeded(Items[x][i])
            /\ Kind[x] = "sequence" =>
                   \A i \in DOMAIN Items[x] : begun(Items[x][i]) =>
                       \A j \in 1 .. i - 1 : succeeded(Items[x][j])
            /\ Kind[x] = "conditional" /\ begun(Items[x][1]) => succeeded(Before[x])

\* Every work that is scheduled ends, through retries, failing siblings and
\* shutdown, and so does the scheduler once it is shut down.  (With
\* DoneInOrder, so does everything below them.)
EveryWorkEnds ==
    /\ \A x \in {w \in WorkId : w # Scheduler /\ Parent[w] = Scheduler} :
           tree.work[x].state # "PENDING" ~> isDone(tree, x)
    /\ isAborting(tree, Scheduler) ~> isDone(tree, Scheduler)
=============================================================================
