----------------------------- MODULE WorkQueue ------------------------------
(***************************************************************************)
(* The workqueue and timer shims of rtw88_compat.c: one queue (system_wq,  *)
(* to which every delayed work goes), its worker thread, and the timers.   *)
(* A section under wq->lock is one action; the timer functions, and        *)
(* cancel_work_sync, take no lock.  The driver may queue, delay and cancel *)
(* its works at any time until it destroys the queue, and a work the       *)
(* worker runs may queue works even then.                                  *)
(***************************************************************************)
EXTENDS Integers, Sequences

CONSTANT Works

None == "none"

ASSUME WorksAssumption == None \notin Works

VARIABLES
    queue,      \* wq->queue
    pending,    \* work->pending
    running,    \* wq->running
    freed,      \* destroy_workqueue has freed wq
    worker,     \* wq_thread_fn: at its loop test, asleep, in a work, gone
    exec,       \* the work the worker is in
    active,     \* timer->active
    armed,      \* the timer's thread call is entered and will start
    cb,         \* where a timer's callback is
    usr,        \* a caller of cancel_delayed_work_sync, destroy_workqueue
    torn,       \* a linked work was linked again: the list is broken
    cut,        \* history: cancelled while linked, and still on the list
    owed,       \* history: delayed, and neither queued nor cancelled since
    again       \* history: turns over each time a work is delayed

qvars == <<queue, pending, running, freed, worker, exec, active, armed, cb, usr, torn, cut, owed,
           again>>
tmvars == <<active, armed, cb>>

Linked(w) == \E i \in 1 .. Len(queue) : queue[i] = w

QInit ==
    /\ queue = <<>> /\ pending = [w \in Works |-> FALSE]
    /\ running = TRUE /\ freed = FALSE
    /\ worker = "test" /\ exec = None
    /\ active = [w \in Works |-> FALSE] /\ armed = [w \in Works |-> FALSE]
    /\ cb = [w \in Works |-> "idle"]
    /\ usr = [pc |-> "idle", work |-> None]
    /\ torn = FALSE /\ cut = {} /\ owed = {} /\ again = FALSE

-----------------------------------------------------------------------------
(* queue_work and the worker.                                              *)

\* Mutant: the sleeping worker is not woken.
EnqueueNoWakeup(w) ==
    \/ pending[w] /\ UNCHANGED <<queue, pending, worker, torn>>
    \/ /\ ~pending[w] /\ ~Linked(w)
       /\ pending' = [pending EXCEPT ![w] = TRUE]
       /\ queue' = Append(queue, w)
       /\ UNCHANGED <<worker, torn>>

\* Mutant: pending is not set.
EnqueueUnmarked(w) ==
    \/ pending[w] /\ UNCHANGED <<queue, pending, worker, torn>>
    \/ ~pending[w] /\ Linked(w) /\ torn' = TRUE /\ UNCHANGED <<queue, pending, worker>>
    \/ /\ ~pending[w] /\ ~Linked(w)
       /\ queue' = Append(queue, w)
       /\ worker' = IF worker = "sleep" THEN "test" ELSE worker
       /\ UNCHANGED <<pending, torn>>

\* queue_work's locked section: mark, link, wake the worker.  list_add_tail of
\* an entry that is on the list breaks the list.
Enqueue(w) ==
    \/ pending[w] /\ UNCHANGED <<queue, pending, worker, torn>>
    \/ ~pending[w] /\ Linked(w) /\ torn' = TRUE /\ UNCHANGED <<queue, pending, worker>>
    \/ /\ ~pending[w] /\ ~Linked(w)
       /\ pending' = [pending EXCEPT ![w] = TRUE]
       /\ queue' = Append(queue, w)
       /\ worker' = IF worker = "sleep" THEN "test" ELSE worker
       /\ UNCHANGED torn

\* The driver, or a work the worker is in, also while the queue is destroyed.
QueueWork(w) ==
    /\ running \/ worker = "run"
    /\ Enqueue(w)
    /\ UNCHANGED <<running, freed, exec, tmvars, usr, cut, owed, again>>

WorkerSleep ==
    /\ worker = "test" /\ queue = <<>> /\ running
    /\ worker' = "sleep"
    /\ UNCHANGED <<torn, queue, pending, running, freed, exec, tmvars, usr, cut, owed, again>>

WorkerTake ==
    /\ worker = "test" /\ queue # <<>>
    /\ queue' = Tail(queue)
    /\ pending' = [pending EXCEPT ![Head(queue)] = FALSE]
    /\ cut' = cut \ {Head(queue)}
    /\ exec' = Head(queue) /\ worker' = "run"
    /\ UNCHANGED <<torn, running, freed, tmvars, usr, owed, again>>

\* Mutant: the worker does not forget the work it ran.
WorkerReturnKeepsWork ==
    /\ worker = "run"
    /\ worker' = "test"
    /\ UNCHANGED <<torn, queue, pending, running, freed, exec, tmvars, usr, cut, owed, again>>

WorkerReturn ==
    /\ worker = "run"
    /\ exec' = None /\ worker' = "test"
    /\ UNCHANGED <<torn, queue, pending, running, freed, tmvars, usr, cut, owed, again>>

\* Mutant: the worker leaves as soon as it is told to.
WorkerExitEarly ==
    /\ worker = "test" /\ ~running
    /\ worker' = "gone"
    /\ UNCHANGED <<torn, queue, pending, running, freed, exec, tmvars, usr, cut, owed, again>>

\* wq->done, and the thread ends.
WorkerExit ==
    /\ worker = "test" /\ queue = <<>> /\ ~running
    /\ worker' = "gone"
    /\ UNCHANGED <<torn, queue, pending, running, freed, exec, tmvars, usr, cut, owed, again>>

-----------------------------------------------------------------------------
(* Delayed works.  A timer is [active, armed]: its flag and its thread call. *)

TimerOf(w)      == [active |-> active[w], armed |-> armed[w]]
SetTimer(w, tm) == /\ active' = [active EXCEPT ![w] = tm.active]
                   /\ armed' = [armed EXCEPT ![w] = tm.armed]

\* The call a used timer still has is cancelled; a callback that runs is not.
timer_setup(tm) == [active |-> FALSE, armed |-> FALSE]
mod_timer(tm)   == [active |-> TRUE, armed |-> TRUE]
del_timer(tm)   == [tm EXCEPT !.active = FALSE, !.armed = FALSE]

\* queue_delayed_work, with no look at pending or at the timer: the call is
\* entered anew, for a later deadline.
QueueDelayed(w) ==
    /\ running
    /\ SetTimer(w, mod_timer(timer_setup(TimerOf(w))))
    /\ owed' = owed \cup {w}
    /\ again' = ~again
    /\ UNCHANGED <<torn, queue, pending, running, freed, worker, exec, cb, usr, cut>>

\* timer_call_fn starts ...
TimerStart(w) ==
    /\ armed[w] /\ cb[w] = "idle"
    /\ armed' = [armed EXCEPT ![w] = FALSE]
    /\ cb' = [cb EXCEPT ![w] = "test"]
    /\ UNCHANGED <<torn, queue, pending, running, freed, worker, exec, active, usr, cut, owed,
                   again>>

\* ... looks at active ...
TimerTest(w) ==
    /\ cb[w] = "test"
    /\ cb' = [cb EXCEPT ![w] = IF active[w] THEN "clear" ELSE "idle"]
    /\ UNCHANGED <<torn, queue, pending, running, freed, worker, exec, active, armed, usr, cut, owed,
                   again>>

\* ... clears it ...
TimerClear(w) ==
    /\ cb[w] = "clear"
    /\ active' = [active EXCEPT ![w] = FALSE]
    /\ cb' = [cb EXCEPT ![w] = "fire"]
    /\ UNCHANGED <<torn, queue, pending, running, freed, worker, exec, armed, usr, cut, owed,
                   again>>

\* ... and queues the work.
TimerFire(w) ==
    /\ cb[w] = "fire"
    /\ cb' = [cb EXCEPT ![w] = "idle"]
    /\ owed' = owed \ {w}
    /\ Enqueue(w)
    /\ UNCHANGED <<running, freed, exec, active, armed, usr, cut, again>>

-----------------------------------------------------------------------------
(* Cancelling.                                                             *)

Unpend(w) ==
    /\ pending' = [pending EXCEPT ![w] = FALSE]
    /\ cut' = IF Linked(w) THEN cut \cup {w} ELSE cut

\* cancel_work_sync clears pending, and leaves the work on the list.
CancelWork(w) ==
    /\ running
    /\ Unpend(w)
    /\ UNCHANGED <<torn, queue, running, freed, worker, exec, tmvars, usr, owed, again>>

\* cancel_delayed_work: del_timer, and pending.
CancelDelayed(w) ==
    /\ running
    /\ SetTimer(w, del_timer(TimerOf(w)))
    /\ owed' = owed \ {w}
    /\ Unpend(w)
    /\ UNCHANGED <<torn, queue, running, freed, worker, exec, cb, usr, again>>

\* cancel_delayed_work_sync: del_timer_sync clears active ...
CancelSync(w) ==
    /\ running /\ usr.pc = "idle"
    /\ active' = [active EXCEPT ![w] = FALSE]
    /\ usr' = [pc |-> "wait", work |-> w]
    /\ UNCHANGED <<torn, queue, pending, running, freed, worker, exec, armed, cb, cut, owed, again>>

\* ... cancels the call and gives a running callback 500 microseconds, which
\* it may or may not need ...
CancelSyncCall ==
    /\ usr.pc = "wait"
    /\ armed' = [armed EXCEPT ![usr.work] = FALSE]
    /\ owed' = owed \ {usr.work}
    /\ usr' = [usr EXCEPT !.pc = "unpend"]
    /\ UNCHANGED <<torn, queue, pending, running, freed, worker, exec, active, cb, cut, again>>

\* ... and then cancel_work_sync.
CancelSyncEnd ==
    /\ usr.pc = "unpend"
    /\ Unpend(usr.work)
    /\ usr' = [pc |-> "idle", work |-> None]
    /\ UNCHANGED <<torn, queue, running, freed, worker, exec, tmvars, owed, again>>

\* destroy_workqueue, called when the driver has stopped using the queue: no
\* timer is armed or firing, so the 500 microseconds were enough.
Destroy ==
    /\ running /\ usr.pc = "idle"
    /\ \A w \in Works : ~armed[w] /\ cb[w] = "idle"
    /\ running' = FALSE
    /\ worker' = IF worker = "sleep" THEN "test" ELSE worker
    /\ usr' = [pc |-> "destroy", work |-> None]
    /\ UNCHANGED <<torn, queue, pending, freed, exec, tmvars, cut, owed, again>>

DestroyEnd ==
    /\ usr.pc = "destroy" /\ worker = "gone"
    /\ freed' = TRUE
    /\ usr' = [pc |-> "idle", work |-> None]
    /\ UNCHANGED <<torn, queue, pending, running, worker, exec, tmvars, cut, owed, again>>

-----------------------------------------------------------------------------
WorkerWork == WorkerSleep \/ WorkerTake \/ WorkerReturn \/ WorkerExit
\* Mutant: timer_call_fn calls the function first and clears active after it.
TimerWorkClearsLast(w) ==
    \/ TimerTest(w)
    \/ /\ cb[w] = "clear"
       /\ cb' = [cb EXCEPT ![w] = "fire"]
       /\ owed' = owed \ {w}
       /\ Enqueue(w)
       /\ UNCHANGED <<running, freed, exec, active, armed, usr, cut, again>>
    \/ /\ cb[w] = "fire"
       /\ active' = [active EXCEPT ![w] = FALSE]
       /\ cb' = [cb EXCEPT ![w] = "idle"]
       /\ UNCHANGED <<torn, queue, pending, running, freed, worker, exec, armed, usr, cut, owed,
                   again>>

\* The rest of timer_call_fn.
TimerWork(w) == TimerTest(w) \/ TimerClear(w) \/ TimerFire(w)
UsrWork == CancelSyncCall \/ CancelSyncEnd \/ DestroyEnd

\* Once the list is broken, nothing is said any more.
QNext == ~torn /\
   (\/ \E w \in Works : \/ QueueWork(w) \/ QueueDelayed(w) \/ TimerStart(w) \/ TimerWork(w)
                        \/ CancelWork(w) \/ CancelDelayed(w) \/ CancelSync(w)
    \/ WorkerWork \/ UsrWork \/ Destroy)

\* The worker and the callbacks run, works return, and the deadline of an
\* entered call passes, unless the call is entered anew before that: a work
\* that is delayed again and again may never run.
QSpec ==
    /\ QInit /\ [][QNext]_qvars
    /\ WF_qvars(~torn /\ WorkerWork) /\ WF_qvars(~torn /\ UsrWork)
    /\ \A w \in Works : /\ WF_qvars(~torn /\ TimerWork(w))
                        /\ WF_qvars(~torn /\ armed[w] /\ (TimerStart(w) \/ QueueDelayed(w)))

-----------------------------------------------------------------------------
\* The types; the worker is in a work exactly while it has one.
QTypeOK ==
    /\ queue \in Seq(Works)
    /\ pending \in [Works -> BOOLEAN] /\ running \in BOOLEAN /\ freed \in BOOLEAN
    /\ torn \in BOOLEAN
    /\ worker \in {"test", "sleep", "run", "gone"} /\ exec \in Works \cup {None}
    /\ (worker = "run") = (exec # None)
    /\ active \in [Works -> BOOLEAN] /\ armed \in [Works -> BOOLEAN]
    /\ cb \in [Works -> {"idle", "test", "clear", "fire"}]
    /\ usr \in [pc : {"idle", "wait", "unpend", "destroy"}, work : Works \cup {None}]
    /\ cut \subseteq Works /\ owed \subseteq Works /\ again \in BOOLEAN

\* pending tells whether a work is on the list, except for a work cancelled
\* while it was there: cancel_work_sync clears pending and unlinks nothing.
\* So only queueing such a work again can break the list.
LinkedOnce ==
    /\ \A w \in Works : pending[w] = (Linked(w) /\ w \notin cut)
    /\ \A i, j \in 1 .. Len(queue) : queue[i] = queue[j] => i = j
    /\ torn => cut # {}

\* A freed queue has no work on its list and no thread in it: the worker goes
\* on until the list is empty, and destroy_workqueue waits for its done.
DestroyDrains == freed => queue = <<>> /\ exec = None /\ worker = "gone"

\* No wakeup is lost: whatever is on the list is run, also when the driver
\* destroys the queue or cancels the work meanwhile.
QueuedRuns == \A w \in Works : Linked(w) ~> exec = w \/ torn

\* A delayed work is not lost when it is delayed again while its timer's
\* callback is between its look at active and its clearing it.  It is claimed
\* for a work that is not delayed again for ever.
DelayedRuns ==
    \A w \in Works : <>[][~QueueDelayed(w)]_qvars => (w \in owed ~> w \notin owed \/ torn)
=============================================================================
