----------------------------- MODULE Completion -----------------------------
(***************************************************************************)
(* The completion shim (compat/linux/completion.h): a counter and an       *)
(* IOLock, which a thread that holds it cannot take again.  A call takes   *)
(* two steps: it is made, and it gets through its locked section; one      *)
(* whose time is up takes the lock once more.                              *)
(***************************************************************************)
EXTENDS Integers

CONSTANTS
    Threads,
    Width       \* bits of the counter (32)

VARIABLES
    done,       \* c->done; AllDone is ~0u
    lock,       \* the thread that holds c->lock, or Nobody
    call        \* the function each thread is in

cvars == <<done, lock, call>>

Nobody  == "nobody"
AllDone == 2 ^ Width - 1
Calls   == {"complete", "complete_all", "reinit", "wait", "wait_timeout"}

CInit ==
    /\ done = 0 /\ lock = Nobody
    /\ call = [t \in Threads |-> "none"]

Call(t, f) ==
    /\ call[t] = "none" /\ f \in Calls
    /\ call' = [call EXCEPT ![t] = f]
    /\ UNCHANGED <<done, lock>>

Return(t) == call' = [call EXCEPT ![t] = "none"]

\* complete, complete_all and reinit_completion.
Set(t, f, value) ==
    /\ call[t] = f /\ lock = Nobody
    /\ done' = value
    /\ Return(t)
    /\ UNCHANGED lock

Complete(t)    == Set(t, "complete", (done + 1) % 2 ^ Width)
CompleteAll(t) == Set(t, "complete_all", AllDone)
Reinit(t)      == Set(t, "reinit", 0)

\* wait_for_completion, and wait_for_completion_timeout, find it done.
WaitDone(t) ==
    /\ call[t] \in {"wait", "wait_timeout"} /\ lock = Nobody
    /\ done # 0
    /\ done' = IF done = AllDone THEN done ELSE done - 1
    /\ Return(t)
    /\ UNCHANGED lock

\* wait_for_completion_timeout finds it not done, drops the lock, and its time
\* is up ...
WaitExpires(t) ==
    /\ call[t] = "wait_timeout" /\ lock = Nobody
    /\ done = 0
    /\ call' = [call EXCEPT ![t] = "expired"]
    /\ UNCHANGED <<done, lock>>

\* ... so it takes the lock and returns 0.
WaitTimeout(t) ==
    /\ call[t] = "expired" /\ lock = Nobody
    /\ lock' = t
    /\ Return(t)
    /\ UNCHANGED done

Step(t) == Complete(t) \/ CompleteAll(t) \/ Reinit(t) \/ WaitDone(t) \/ WaitExpires(t) \/ WaitTimeout(t)

CNext == \E t \in Threads : Step(t) \/ \E f \in Calls : Call(t, f)

\* A call that can get through does.
CSpec == CInit /\ [][CNext]_cvars /\ \A t \in Threads : SF_cvars(Step(t))

\* The comment on struct completion: waiting and waking "is safe from any
\* calling context" (src/src/compat/linux/completion.h:13): a complete() made
\* by the interrupt thread returns.
CompleteReturns == \A t \in Threads : call[t] = "complete" ~> call[t] # "complete"
=============================================================================
