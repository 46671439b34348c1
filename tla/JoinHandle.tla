----------------------------- MODULE JoinHandle -----------------------------
(***************************************************************************)
(* The state a spawned task shares with its handle                         *)
(* (tpt-async-core/src/task.rs).  Two actors on two threads: the executor  *)
(* owns the Completer, the awaiting task owns the JoinHandle or the        *)
(* cancel-on-drop Task.  A step is one access to the shared state: `flags` *)
(* is atomic, `result` and `waker` each have a lock of their own that is   *)
(* never held across another access, so complete, cancel and poll are all  *)
(* several steps that the other side can interleave with.                  *)
(* RuntimeProofs extends this module together with Executor, so that the  *)
(* names they would share are prefixed here.                               *)
(***************************************************************************)
CONSTANTS Wakers,   \* wakers the handle may be polled with
          NoWaker   \* the empty waker slot

ASSUME JoinHandleAssumption == NoWaker \notin Wakers

VARIABLES
  flags,      \* SharedState::flags
  result,     \* SharedState::result holds a value
  waker,      \* SharedState::waker
  cpc,        \* the completer: where it is in complete or drop
  completed,  \* history: complete was called
  hpc,        \* the handle: where it is in poll, cancel or drop
  kind,       \* "task" until detach turns it into a plain "join" handle
  context,    \* the waker of the poll in progress
  cancelled,  \* history: cancel was called on the handle
  outcome,    \* history: what the last finished poll returned
  promised    \* history: waker of the last Pending poll, until it is woken

shared == <<flags, result, waker>>
completerVars == <<cpc, completed>>
handleVars == <<hpc, kind, context, cancelled>>
joinVars == <<shared, completerVars, handleVars, outcome, promised>>

Flags    == {"PENDING", "READY", "CANCELLED"}
CPC      == {"running", "flag", "wake", "dropping", "cancelling", "gone"}
HPC      == {"idle", "register", "recheck", "take", "cancelWake",
             "dropping", "dropWake", "gone"}
Outcomes == {"none", "pending", "ok", "cancelled"}

\* waker.lock().take() and wake: shared by complete and cancel.
TakeAndWake ==
  /\ waker' = NoWaker
  /\ promised' = IF waker = promised THEN NoWaker ELSE promised

-----------------------------------------------------------------------------
JoinInit ==
  /\ flags = "PENDING"
  /\ result = FALSE
  /\ waker = NoWaker
  /\ cpc = "running"
  /\ completed = FALSE
  /\ hpc = "idle"
  /\ kind \in {"join", "task"}
  /\ context = NoWaker
  /\ cancelled = FALSE
  /\ outcome = "none"
  /\ promised = NoWaker

\* Mutant: the flag is published before the result is stored.
CompleteResultLate ==
  /\ cpc = "running"
  /\ cpc' = "flag"
  /\ flags' = "READY"
  /\ completed' = TRUE
  /\ UNCHANGED <<result, waker, handleVars, outcome, promised>>

\* complete: store the result, then the flag, then wake; the Completer is
\* dropped when it returns.
CompleteResult ==
  /\ cpc = "running"
  /\ cpc' = "flag"
  /\ result' = TRUE
  /\ completed' = TRUE
  /\ UNCHANGED <<flags, waker, handleVars, outcome, promised>>

CompleteFlag ==
  /\ cpc = "flag"
  /\ cpc' = "wake"
  /\ flags' = "READY"
  /\ UNCHANGED <<result, waker, completed, handleVars, outcome, promised>>

CompleterWake ==
  /\ cpc = "wake"
  /\ TakeAndWake
  /\ cpc' = IF completed THEN "dropping" ELSE "gone"
  /\ UNCHANGED <<flags, result, completed, handleVars, outcome>>

\* The executor drops the task's future, and the Completer with it.
DropFuture ==
  /\ cpc = "running"
  /\ cpc' = "dropping"
  /\ UNCHANGED <<shared, completed, handleVars, outcome, promised>>

\* Mutant: Drop cancels a completed task too.
CompleterDropAlways ==
  /\ cpc = "dropping"
  /\ cpc' = "cancelling"
  /\ UNCHANGED <<shared, completed, handleVars, outcome, promised>>

\* Drop for Completer: if the flags still say pending, cancel the handle.
CompleterDrop ==
  /\ cpc = "dropping"
  /\ cpc' = IF flags = "PENDING" THEN "cancelling" ELSE "gone"
  /\ UNCHANGED <<shared, completed, handleVars, outcome, promised>>

CompleterCancel ==
  /\ cpc = "cancelling"
  /\ flags' = "CANCELLED"
  /\ cpc' = "wake"
  /\ UNCHANGED <<result, waker, completed, handleVars, outcome, promised>>

-----------------------------------------------------------------------------
\* poll loads the flags; a settled outcome is returned, a pending one
\* registers the waker.  The task is awake now, so nobody owes it a wake.
Poll(k) ==
  /\ hpc = "idle"
  /\ outcome # "ok"   \* polling again after Ready(Ok) is documented to panic
  /\ \/ /\ flags = "READY"
        /\ hpc' = "take"
        /\ UNCHANGED outcome
     \/ /\ flags = "CANCELLED"
        /\ outcome' = "cancelled"
        /\ UNCHANGED hpc
     \/ /\ flags = "PENDING"
        /\ hpc' = "register"
        /\ UNCHANGED outcome
  /\ context' = k
  /\ promised' = NoWaker
  /\ UNCHANGED <<shared, completerVars, kind, cancelled>>

\* Keep an equivalent waker, otherwise store the new one.
RegisterWaker ==
  /\ hpc = "register"
  /\ waker' = context
  /\ hpc' = "recheck"
  /\ UNCHANGED <<flags, result, completerVars, kind, context, cancelled, outcome, promised>>

\* Mutant: Pending is returned without looking at the flags again.
RecheckSkipped ==
  /\ hpc = "recheck"
  /\ hpc' = "idle"
  /\ outcome' = "pending"
  /\ promised' = context
  /\ UNCHANGED <<shared, completerVars, kind, context, cancelled>>

\* "Register waker before re-checking to avoid a race."
Recheck ==
  /\ hpc = "recheck"
  /\ \/ /\ flags = "READY"
        /\ hpc' = "take"
        /\ UNCHANGED <<outcome, promised>>
     \/ /\ flags = "CANCELLED"
        /\ hpc' = "idle"
        /\ outcome' = "cancelled"
        /\ UNCHANGED promised
     \/ /\ flags = "PENDING"
        /\ hpc' = "idle"
        /\ outcome' = "pending"
        /\ promised' = context
  /\ UNCHANGED <<shared, completerVars, kind, context, cancelled>>

TakeResult ==
  /\ hpc = "take"
  /\ result' = FALSE
  /\ hpc' = "idle"
  /\ outcome' = "ok"
  /\ UNCHANGED <<flags, waker, completerVars, kind, context, cancelled, promised>>

\* cancel: store the flag whatever it was, then wake.
CancelFlag ==
  /\ hpc = "idle"
  /\ flags' = "CANCELLED"
  /\ cancelled' = TRUE
  /\ hpc' = "cancelWake"
  /\ UNCHANGED <<result, waker, completerVars, kind, context, outcome, promised>>

CancelWake ==
  /\ hpc = "cancelWake"
  /\ TakeAndWake
  /\ hpc' = "idle"
  /\ UNCHANGED <<flags, result, completerVars, kind, context, cancelled, outcome>>

\* Task::detach: a Task becomes a JoinHandle and its Drop will not run.
Detach ==
  /\ hpc = "idle" /\ kind = "task"
  /\ kind' = "join"
  /\ UNCHANGED <<shared, completerVars, hpc, context, cancelled, outcome, promised>>

\* Mutant: a Task is dropped like a JoinHandle.
DropHandleDetached ==
  /\ hpc = "idle"
  /\ hpc' = "gone"
  /\ promised' = NoWaker
  /\ UNCHANGED <<shared, completerVars, kind, context, cancelled, outcome>>

\* A JoinHandle is dropped without a word; Task's Drop asks is_finished first.
DropHandle ==
  /\ hpc = "idle"
  /\ hpc' = IF kind = "task" /\ flags = "PENDING" THEN "dropping" ELSE "gone"
  /\ promised' = NoWaker
  /\ UNCHANGED <<shared, completerVars, kind, context, cancelled, outcome>>

\* Task's Drop: is_finished said no, so cancel, over whatever happened since.
DropCancel ==
  /\ hpc = "dropping"
  /\ flags' = "CANCELLED"
  /\ cancelled' = TRUE
  /\ hpc' = "dropWake"
  /\ UNCHANGED <<result, waker, completerVars, kind, context, outcome, promised>>

DropWake ==
  /\ hpc = "dropWake"
  /\ TakeAndWake
  /\ hpc' = "gone"
  /\ UNCHANGED <<flags, result, completerVars, kind, context, cancelled, outcome>>

-----------------------------------------------------------------------------
CompleterStep == CompleteFlag \/ CompleterWake \/ CompleterDrop \/ CompleterCancel
Finish == CompleteResult \/ DropFuture
HandleStep == RegisterWaker \/ Recheck \/ TakeResult \/ CancelWake \/ DropCancel \/ DropWake

JoinNext ==
  \/ CompleterStep \/ Finish
  \/ HandleStep
  \/ \E k \in Wakers : Poll(k)
  \/ CancelFlag \/ Detach \/ DropHandle

JoinSpec == JoinInit /\ [][JoinNext]_joinVars

\* Both threads finish what they began, the executor ends or drops the task,
\* and the awaiting task is polled again once its waker was called, even if
\* it keeps calling other methods of the handle in between.
JoinFairness ==
  /\ WF_joinVars(CompleterStep) /\ WF_joinVars(Finish) /\ WF_joinVars(HandleStep)
  /\ SF_joinVars(promised = NoWaker /\ \E k \in Wakers : Poll(k))

FairJoinSpec == JoinSpec /\ JoinFairness

-----------------------------------------------------------------------------
\* Types of the shared state and of the two actors; a poll has a waker.
JoinTypeOK ==
  /\ flags \in Flags
  /\ result \in BOOLEAN
  /\ waker \in Wakers \cup {NoWaker}
  /\ cpc \in CPC
  /\ completed \in BOOLEAN
  /\ hpc \in HPC
  /\ kind \in {"join", "task"}
  /\ context \in Wakers \cup {NoWaker}
  /\ hpc \in {"register", "recheck"} => context \in Wakers
  /\ cancelled \in BOOLEAN
  /\ outcome \in Outcomes
  /\ promised \in Wakers \cup {NoWaker}

\* The awaiting task is never left asleep: until a Pending poll's waker is
\* called, that very waker is in the slot, and if the task has finished in
\* the meantime, whoever finished it is about to empty the slot and wake.
AwaiterNotLost ==
  promised # NoWaker =>
    /\ waker = promised
    /\ flags = "PENDING" \/ cpc = "wake" \/ hpc = "cancelWake"

\* A poll that saw READY finds the result: `expect` in poll never fires on a
\* handle that has not yielded it yet.
ReadyHasResult == hpc = "take" => result

\* What the handle reports is what happened: Ok only for a completed task,
\* Err(Cancelled) only if the handle was cancelled or the task's future was
\* dropped before it completed.
OutcomeIsTrue ==
  /\ outcome = "ok" => completed
  /\ outcome = "cancelled" => cancelled \/ ~completed

\* What the docs of poll and cancel say: Err(Cancelled) is repeatable, and the
\* result of a task that completes after it was cancelled is discarded.  In
\* the code complete overwrites the flag of a cancel.
CancelledIsRepeatable == [][outcome = "cancelled" => outcome' = "cancelled"]_joinVars

\* Cancel-on-drop: once a Task (not detached) is gone, its task is finished
\* or cancelled, in every interleaving with the executor.
DroppedTaskIsSettled ==
  hpc = "gone" /\ kind = "task" => flags # "PENDING"

\* An awaited handle is eventually resolved or dropped.
AwaitTerminates == [](outcome = "pending" => <>(outcome # "pending" \/ hpc = "gone"))

=============================================================================
