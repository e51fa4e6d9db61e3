---------------------------- MODULE ThreadState ----------------------------
(***************************************************************************)
(* Threads that wait, run, are suspended and are halted: kern/sched_prim.c *)
(* (assert_wait, clear_wait, thread_wakeup, thread_block, thread_dispatch),*)
(* kern/thread.c (thread_dowait, thread_halt, thread_halt_self, suspend,   *)
(* resume, abort, terminate, get_state), kern/ipc_sched.c and the timers   *)
(* of kern/mach_clock.c.                                                   *)
(*                                                                         *)
(* One action is one hold of a thread's lock.  When NCPUS > 1 any two      *)
(* threads may run between two such holds; on a uniprocessor only one      *)
(* thread is on the processor, and the kernel gives it up in thread_block  *)
(* only.  Device interrupts wake threads up at any time.  The wakeup that  *)
(* thread_dispatch and thread_dowait do just after the unlock belongs to   *)
(* their step: at worst it wakes a sleeper that looks again.               *)
(*                                                                         *)
(* An event is a member of Events, or a thread x, which stands for the     *)
(* event &x->wake_active.                                                  *)
(***************************************************************************)
EXTENDS Naturals, FiniteSets

CONSTANTS
    Threads, Events,
    Null,               \* event 0; no thread
    Ops,                \* the calls threads make: see OpsAssumption
    MaxStops,           \* bound on user_stop_count
    Multiprocessor      \* NCPUS > 1

ASSUME ValuesAssumption ==
    /\ Null \notin Threads \cup Events
    /\ Threads \cap Events = {}
    /\ MaxStops \in Nat \ {0}
    /\ Multiprocessor \in BOOLEAN
ASSUME ThreadsAssumption == IsFiniteSet(Threads)
\* In-kernel waits, IPC waits, waits with a timeout; and the calls on threads.
ASSUME OpsAssumption ==
    Ops \subseteq {"wait", "ipc", "timeout", "suspend", "resume", "get_state",
                   "abort", "terminate"}

VARIABLES
    state,              \* TH_RUN, TH_WAIT, TH_SUSP, TH_UNINT, TH_HALTED
    wait_event, wait_result,
    timer,              \* the threads whose timer is set
    fired,              \* the thread whose timer softclock has just taken
    suspend_count, user_stop_count,
    wake_active,        \* the threads with wake_active
    ast_halt,           \* the threads with AST_HALT
    active,             \* the threads not terminated
    swap_func,          \* "return" or "msg" (a clean point), "other"
    place,              \* on a "cpu", on a "runq", "chosen" from it, "off", or
                        \* "twice": on a run queue and somewhere else
    pc, target, op,     \* the call each thread is in, and on whom
    timed,              \* the threads whose present wait has a timeout
    panicked

wait == <<wait_event, wait_result, timer, timed>>
counts == <<suspend_count, user_stop_count, wake_active, ast_halt, active>>
call == <<pc, target, op>>
vars == <<state, wait, fired, counts, swap_func, place, call, panicked>>

Sched == {"RUN", "WAIT", "SUSP", "UNINT"}       \* TH_SCHED_STATE
Stopped == {{"SUSP"}, {"WAIT", "SUSP"}}

-----------------------------------------------------------------------------
(* The scheduling fields of all threads, as the routines below change them. *)
Now == [state |-> state, wait_event |-> wait_event, wait_result |-> wait_result,
        timer |-> timer, timed |-> timed, place |-> place]

Commit(s) ==
    /\ state' = s.state /\ wait_event' = s.wait_event /\ wait_result' = s.wait_result
    /\ timer' = s.timer /\ timed' = s.timed /\ place' = s.place

thread_setrun(s, X) ==
    [s EXCEPT !.place = [t \in Threads |-> IF t \notin X THEN @[t]
                                           ELSE IF @[t] = "off" THEN "runq" ELSE "twice"]]

\* The end of a wait, as in clear_wait, thread_wakeup_prim and thread_go: a
\* sleeping thread is put on a run queue unless it is suspended there; one
\* that has not blocked yet, or is suspended, only loses TH_WAIT.
Sleeping_Any(st) == "WAIT" \in st /\ "RUN" \notin st

Sleeping(st) == "WAIT" \in st /\ "RUN" \notin st /\ ("SUSP" \in st => "UNINT" \in st)

reset_timeout_Forgotten(s, X) == s

reset_timeout(s, X) == [s EXCEPT !.timer = @ \ X]

EndWait(s, X, result) ==
    LET ended == {x \in X : "WAIT" \in s.state[x]}
        go == {x \in ended : Sleeping(s.state[x])}
    IN  [thread_setrun(reset_timeout(s, X), go) EXCEPT
           !.wait_event = [t \in Threads |-> IF t \in X THEN Null ELSE @[t]],
           !.state = [t \in Threads |->
                        (@[t] \ (IF t \in ended THEN {"WAIT"} ELSE {}))
                              \cup (IF t \in go THEN {"RUN"} ELSE {})],
           !.wait_result = [t \in Threads |-> IF t \in ended THEN result ELSE @[t]],
           !.timed = @ \ ended]

\* Its two lock holds are one step: what can end the wait between them does
\* the same.
clear_wait_Queued(s, x, result, interrupt_only) ==
    IF interrupt_only /\ "UNINT" \in s.state[x] THEN s
    ELSE [EndWait(s, {x}, result) EXCEPT !.wait_event[x] = s.wait_event[x]]

clear_wait(s, x, result, interrupt_only) ==
    IF interrupt_only /\ "UNINT" \in s.state[x] THEN s ELSE EndWait(s, {x}, result)

thread_wakeup(s, event, result) ==
    EndWait(s, {t \in Threads : s.wait_event[t] = event}, result)

assert_wait(s, t, event, interruptible) ==
    [s EXCEPT !.wait_event[t] = event,
              !.state[t] = @ \cup {"WAIT"} \cup (IF interruptible THEN {} ELSE {"UNINT"})]

\* thread_hold's and thread_release's part of the state.
Hold(s, x) == [s EXCEPT !.state[x] = @ \cup {"SUSP"}]

Unsuspend_Blind(s, x) ==
    thread_setrun([s EXCEPT !.state[x] = (@ \ {"SUSP", "HALTED"}) \cup {"RUN"}], {x})

Unsuspend_Halted(s, x) ==
    LET st == s.state[x] \ {"SUSP"}
    IN  IF st \cap {"WAIT", "RUN"} # {} THEN [s EXCEPT !.state[x] = st]
        ELSE thread_setrun([s EXCEPT !.state[x] = st \cup {"RUN"}], {x})

Unsuspend(s, x) ==
    LET st == s.state[x] \ {"SUSP", "HALTED"}
    IN  IF st \cap {"WAIT", "RUN"} # {} THEN [s EXCEPT !.state[x] = st]
        ELSE thread_setrun([s EXCEPT !.state[x] = st \cup {"RUN"}], {x})

Release(s, x) == IF suspend_count[x] = 1 THEN Unsuspend(s, x) ELSE s

-----------------------------------------------------------------------------
Init ==
    /\ state = [t \in Threads |-> {"RUN"}]
    /\ wait_event = [t \in Threads |-> Null]
    /\ wait_result = [t \in Threads |-> "awakened"]
    /\ timer = {} /\ fired = Null /\ timed = {}
    /\ suspend_count = [t \in Threads |-> 0]
    /\ user_stop_count = [t \in Threads |-> 0]
    /\ wake_active = {} /\ ast_halt = {} /\ active = Threads
    /\ swap_func = [t \in Threads |-> "return"]
    /\ place = [t \in Threads |-> "runq"]
    /\ pc = [t \in Threads |-> "run"]
    /\ target = [t \in Threads |-> Null]
    /\ op = [t \in Threads |-> "none"]
    /\ panicked = FALSE

\* t executes.  On a uniprocessor softclock runs to its end first.
Runs(t) == place[t] = "cpu" /\ (Multiprocessor \/ fired = Null) /\ ~panicked

Goto(t, l) == pc' = [pc EXCEPT ![t] = l] /\ UNCHANGED <<target, op>>

Begin(t, l, x, o) ==
    /\ pc' = [pc EXCEPT ![t] = l]
    /\ target' = [target EXCEPT ![t] = x]
    /\ op' = [op EXCEPT ![t] = o]

Return(t) == Begin(t, "run", Null, "none")

-----------------------------------------------------------------------------
(* Processors and run queues. *)

\* thread_select takes t off its run queue.
thread_select(t) ==
    /\ place[t] = "runq"
    /\ place' = [place EXCEPT ![t] = "chosen"]
    /\ UNCHANGED <<state, wait, fired, counts, swap_func, call, panicked>>

\* The part of thread_invoke that makes t the running thread: it is now
\* interruptible.
thread_invoke(t) ==
    /\ place[t] = "chosen"
    /\ Multiprocessor \/ (fired = Null /\ \A u \in Threads : place[u] # "cpu")
    /\ place' = [place EXCEPT ![t] = "cpu"]
    /\ state' = [state EXCEPT ![t] = @ \ {"UNINT"}]
    /\ UNCHANGED <<wait, fired, counts, swap_func, call, panicked>>

\* There was no stack for t; the swapin thread has got one.
thread_doswapin(t) ==
    LET off == [Now EXCEPT !.place[t] = "off"]
    IN  /\ place[t] = "chosen"
        /\ Commit(IF "RUN" \in state[t] THEN thread_setrun(off, {t}) ELSE off)
        /\ UNCHANGED <<fired, counts, swap_func, call, panicked>>

\* Where t goes on after thread_block.
AfterBlock(l) ==
    CASE l = "dowait_sleep" -> "dowait_woken"
      [] l = "halt_sleep" -> "halt_woken"
      [] OTHER -> "run"

Suspends(st) == st \in {{"RUN", "SUSP"}, {"RUN", "SUSP", "HALTED"}, {"RUN", "WAIT", "SUSP"}}
Requeues(st) == st \in {{"RUN"}, {"RUN", "UNINT"}, {"RUN", "SUSP", "UNINT"}}
Blocks(st) == st \in {{"RUN", "WAIT"}, {"RUN", "WAIT", "UNINT"}, {"RUN", "WAIT", "SUSP", "UNINT"}}

thread_dispatch_Silent(t) ==
    LET st == state[t]
        off == [Now EXCEPT !.state[t] = @ \ {"RUN"}, !.place[t] = "off"]
    IN  /\ \/ Suspends(st) /\ Commit(off)
           \/ Requeues(st) /\ Commit(thread_setrun([Now EXCEPT !.place[t] = "off"], {t}))
           \/ Blocks(st) /\ Commit(off)
        /\ UNCHANGED <<wake_active, panicked>>

thread_dispatch(t) ==
    LET st == state[t]
        off == [Now EXCEPT !.state[t] = @ \ {"RUN"}, !.place[t] = "off"]
    IN  \/ /\ Suspends(st)
           /\ Commit(IF t \in wake_active THEN thread_wakeup(off, t, "awakened") ELSE off)
           /\ wake_active' = wake_active \ {t}
           /\ UNCHANGED panicked
        \/ /\ Requeues(st)
           /\ Commit(thread_setrun([Now EXCEPT !.place[t] = "off"], {t}))
           /\ UNCHANGED <<wake_active, panicked>>
        \/ /\ Blocks(st)
           /\ Commit(off)
           /\ UNCHANGED <<wake_active, panicked>>
        \/ /\ ~(Suspends(st) \/ Requeues(st) \/ Blocks(st))
           /\ panicked' = TRUE
           /\ Commit(Now)
           /\ UNCHANGED wake_active

\* Another thread has been invoked on t's processor, and t is dispatched.
\* A wait for a message may have a continuation; on the way back to user mode
\* it is thread_exception_return, unless t must halt first.
thread_block(t) ==
    /\ Runs(t)
    /\ \E f \in {"return", "msg", "other"} :
          /\ \/ pc[t] = "run" /\ f = "return" /\ t \notin ast_halt
             \/ pc[t] = "run" /\ f = "other"
             \/ pc[t] = "halt_self_block" /\ f = "return"
             \/ pc[t] = "ipc_asserted" /\ f \in {"msg", "other"}
             \/ pc[t] \in {"asserted", "dowait_sleep", "halt_sleep"} /\ f = "other"
          /\ swap_func' = [swap_func EXCEPT ![t] = f]
    /\ thread_dispatch(t)
    /\ Goto(t, AfterBlock(pc[t]))
    /\ UNCHANGED <<fired, suspend_count, user_stop_count, ast_halt, active>>

-----------------------------------------------------------------------------
(* Waiting. *)

WaitForEvent(t) ==
    /\ "wait" \in Ops /\ Runs(t) /\ pc[t] = "run"
    /\ \E e \in Events, interruptible \in BOOLEAN :
          Commit(assert_wait(Now, t, e, interruptible))
    /\ Goto(t, "asserted")
    /\ UNCHANGED <<fired, counts, swap_func, panicked>>

\* thread_will_wait, or thread_will_wait_with_timeout.
thread_will_wait(t) ==
    /\ "ipc" \in Ops /\ Runs(t) /\ pc[t] = "run"
    /\ state' = [state EXCEPT ![t] = @ \cup {"WAIT"}]
    /\ \/ UNCHANGED <<timer, timed>>
       \/ "timeout" \in Ops /\ timer' = timer \cup {t} /\ timed' = timed \cup {t}
    /\ Goto(t, "ipc_asserted")
    /\ UNCHANGED <<wait_event, wait_result, fired, counts, swap_func, place, panicked>>

thread_set_timeout(t) ==
    /\ "timeout" \in Ops /\ Runs(t) /\ pc[t] = "asserted" /\ t \notin timed
    /\ "WAIT" \in state[t]
    /\ timer' = timer \cup {t} /\ timed' = timed \cup {t}
    /\ UNCHANGED <<state, wait_event, wait_result, fired, counts, swap_func, place,
                   call, panicked>>

\* An event happens.
Wakeup(e) ==
    /\ \E t \in Threads : wait_event[t] = e
    /\ Commit(thread_wakeup(Now, e, "awakened"))
    /\ UNCHANGED <<fired, counts, swap_func, call, panicked>>

\* A thread in an IPC wait is sent a message.
thread_go(x) ==
    /\ "WAIT" \in state[x] /\ wait_event[x] = Null
    /\ Commit(EndWait(Now, {x}, "awakened"))
    /\ UNCHANGED <<fired, counts, swap_func, call, panicked>>

\* softclock takes a timer off its queue, then calls thread_timeout.
softclock(x) ==
    /\ fired = Null /\ x \in timer
    /\ fired' = x
    /\ timer' = timer \ {x}
    /\ UNCHANGED <<state, wait_event, wait_result, timed, counts, swap_func, place,
                   call, panicked>>

thread_timeout(x) ==
    /\ fired = x
    /\ fired' = Null
    /\ Commit(clear_wait(Now, x, "timed_out", FALSE))
    /\ UNCHANGED <<counts, swap_func, call, panicked>>

-----------------------------------------------------------------------------
(* Suspending. *)

thread_suspend(t, x) ==
    LET hold == user_stop_count[x] = 0
    IN  /\ "suspend" \in Ops /\ Runs(t) /\ pc[t] = "run" /\ x \in active
        /\ user_stop_count[x] < MaxStops
        /\ user_stop_count' = [user_stop_count EXCEPT ![x] = @ + 1]
        /\ suspend_count' = [suspend_count EXCEPT ![x] = IF hold THEN @ + 1 ELSE @]
        /\ Commit(IF hold THEN Hold(Now, x) ELSE Now)
        /\ IF hold /\ x # t THEN Begin(t, "dowait", x, "suspend") ELSE UNCHANGED call
        /\ UNCHANGED <<fired, wake_active, ast_halt, active, swap_func, panicked>>

thread_resume(t, x) ==
    /\ "resume" \in Ops /\ Runs(t) /\ pc[t] = "run" /\ x \in active
    /\ user_stop_count[x] > 0
    /\ user_stop_count' = [user_stop_count EXCEPT ![x] = @ - 1]
    /\ IF user_stop_count[x] = 1
       THEN /\ Commit(Release(Now, x))
            /\ suspend_count' = [suspend_count EXCEPT ![x] = @ - 1]
       ELSE Commit(Now) /\ UNCHANGED suspend_count
    /\ UNCHANGED <<fired, wake_active, ast_halt, active, swap_func, call, panicked>>

\* thread_get_state and thread_set_state hold the thread themselves.
thread_get_state(t, x) ==
    /\ "get_state" \in Ops /\ Runs(t) /\ pc[t] = "run" /\ x \in active \ {t}
    /\ suspend_count' = [suspend_count EXCEPT ![x] = @ + 1]
    /\ Commit(Hold(Now, x))
    /\ Begin(t, "dowait", x, "get_state")
    /\ UNCHANGED <<fired, user_stop_count, wake_active, ast_halt, active, swap_func, panicked>>

\* t has waited for its target, or has done what it held it for.
thread_release(t) ==
    LET x == target[t]
    IN  /\ Runs(t)
        /\ pc[t] \in {"got", "release"} \/ (pc[t] = "halted" /\ op[t] = "abort")
        /\ Commit(Release(Now, x))
        /\ suspend_count' = [suspend_count EXCEPT ![x] = @ - 1]
        /\ Return(t)
        /\ UNCHANGED <<fired, user_stop_count, wake_active, ast_halt, active, swap_func, panicked>>

\* Sleep until x stops.
Await(t, x, s, l) ==
    /\ wake_active' = wake_active \cup {x}
    /\ Commit(assert_wait(s, t, x, TRUE))
    /\ Goto(t, l)

Interrupted(t) == wait_result[t] # "awakened" /\ op[t] = "abort"

\* What follows thread_dowait.
DowaitDone(t) ==
    CASE op[t] = "suspend" -> Return(t)
      [] op[t] = "get_state" -> Goto(t, "got")
      [] OTHER -> Goto(t, "halt_stopped")

\* TH_RUN | TH_SUSP on a run queue: pull it off.
OffRunq(x) == state[x] \cap Sched = {"RUN", "SUSP"} /\ place[x] = "runq"

\* The thread has to stop by itself.  (A thread that is not suspended any
\* more is not waited for.)
MustStop(x) ==
    /\ "SUSP" \in state[x] /\ state[x] \cap Sched \notin Stopped
    /\ ~OffRunq(x)

thread_dowait(t) ==
    LET x == target[t]
        off == [Now EXCEPT !.state[x] = @ \ {"RUN"}, !.place[x] = "off"]
    IN  /\ Runs(t) /\ pc[t] \in {"dowait", "dowait_woken"}
        /\ \/ /\ pc[t] = "dowait_woken" /\ Interrupted(t)
              /\ Goto(t, "halt_fail")
              /\ Commit(Now) /\ UNCHANGED wake_active
           \/ /\ ~(pc[t] = "dowait_woken" /\ Interrupted(t))
              /\ \/ /\ OffRunq(x)
                    /\ Commit(IF x \in wake_active THEN thread_wakeup(off, x, "awakened") ELSE off)
                    /\ wake_active' = wake_active \ {x}
                    /\ DowaitDone(t)
                 \/ MustStop(x) /\ Await(t, x, Now, "dowait_sleep")
                 \/ /\ ~OffRunq(x) /\ ~MustStop(x)
                    /\ DowaitDone(t)
                    /\ Commit(Now) /\ UNCHANGED wake_active
        /\ UNCHANGED <<fired, suspend_count, user_stop_count, ast_halt, active,
                       swap_func, panicked>>

-----------------------------------------------------------------------------
(* Halting at a clean point. *)

\* thread_halt under the target's lock, with x held as s: wait for somebody
\* else's halt to complete, or become the one who halts.
HaltOrAwait(t, x, s) ==
    \/ /\ x \in ast_halt /\ "HALTED" \notin state[x]
       /\ Await(t, x, s, "halt_sleep")
       /\ UNCHANGED ast_halt
    \/ /\ ~(x \in ast_halt /\ "HALTED" \notin state[x])
       /\ ast_halt' = ast_halt \cup {x}
       /\ Goto(t, "dowait")
       /\ Commit(s) /\ UNCHANGED wake_active

\* thread_abort (must_halt FALSE) and thread_terminate (TRUE) begin.
thread_halt(t, x) ==
    /\ Runs(t) /\ pc[t] = "run" /\ x \in active \ {t}
    /\ \E o \in {"abort", "terminate"} \cap Ops :
          /\ o = "terminate" => t \in active
          /\ active' = IF o = "terminate" THEN active \ {x} ELSE active
          /\ Begin(t, "halt", x, o)
    /\ UNCHANGED <<state, wait, fired, suspend_count, user_stop_count, wake_active,
                   ast_halt, swap_func, place, panicked>>

\* Somebody is halting the caller itself.
HaltCycle(t) == op[t] = "abort" /\ t \in ast_halt

HaltBegin(t) ==
    LET x == target[t]
        more == [suspend_count EXCEPT ![x] = @ + 1]
    IN  /\ Runs(t) /\ pc[t] = "halt"
        /\ \/ /\ "HALTED" \in state[x]
              /\ suspend_count' = more
              /\ Goto(t, "halted")
              /\ Commit(Now) /\ UNCHANGED <<wake_active, ast_halt>>
           \/ /\ "HALTED" \notin state[x] /\ HaltCycle(t)        \* KERN_FAILURE
              /\ Commit(thread_wakeup(Now, t, "interrupted"))
              /\ Return(t)
              /\ UNCHANGED <<suspend_count, wake_active, ast_halt>>
           \/ /\ "HALTED" \notin state[x] /\ ~HaltCycle(t)
              /\ suspend_count' = more
              /\ HaltOrAwait(t, x, Hold(Now, x))
        /\ UNCHANGED <<fired, user_stop_count, active, swap_func, panicked>>

\* The state is looked at without the lock, and then again with it.
HaltWoken(t) ==
    LET x == target[t]
    IN  /\ Runs(t) /\ pc[t] = "halt_woken"
        /\ Goto(t, IF "HALTED" \in state[x] THEN "halted"
                   ELSE IF Interrupted(t) THEN "release" ELSE "halt_again")
        /\ UNCHANGED <<state, wait, fired, counts, swap_func, place, panicked>>

HaltAgain(t) ==
    /\ Runs(t) /\ pc[t] = "halt_again"
    /\ HaltOrAwait(t, target[t], Now)
    /\ UNCHANGED <<fired, suspend_count, user_stop_count, active, swap_func, panicked>>

\* thread_dowait was interrupted: give up, and say so to the others.
HaltFail(t) ==
    LET x == target[t]
    IN  /\ Runs(t) /\ pc[t] = "halt_fail"
        /\ ast_halt' = ast_halt \ {x}
        /\ Commit(thread_wakeup(Now, x, "interrupted"))
        /\ Goto(t, "release")
        /\ UNCHANGED <<fired, suspend_count, user_stop_count, wake_active, active,
                       swap_func, panicked>>

\* The target has stopped.  Its wait is interrupted; at a clean point it is
\* halted here (a message it has just been sent may prevent that), and
\* otherwise it is made to run until it gets to one.  (The lock is dropped
\* between the three parts; the target has stopped, and is held.)
HaltStopped(t) ==
    LET x == target[t]
        s == clear_wait(Now, x, "interrupted", TRUE)
    IN  /\ Runs(t) /\ pc[t] = "halt_stopped"
        /\ \/ /\ "HALTED" \in state[x]
              /\ Commit(s)
              /\ Goto(t, "halted")
              /\ UNCHANGED <<ast_halt, panicked>>
           \/ /\ "HALTED" \notin state[x] /\ swap_func[x] \in {"return", "msg"}
              /\ Commit([s EXCEPT !.state[x] = @ \cup {"HALTED"}])
              /\ ast_halt' = ast_halt \ {x}
              /\ Goto(t, "halted")
              /\ UNCHANGED panicked
           \/ /\ "HALTED" \notin state[x] /\ swap_func[x] \in {"msg", "other"}
              /\ panicked' = (s.state[x] \cap Sched # {"SUSP"})
              /\ Commit(thread_setrun([s EXCEPT !.state[x] = @ \cup {"RUN", "UNINT"}], {x}))
              /\ Goto(t, "dowait")
              /\ UNCHANGED ast_halt
        /\ UNCHANGED <<fired, suspend_count, user_stop_count, wake_active, active, swap_func>>

\* ast_taken: thread_should_halt is read, then thread_halt_self.
ast_taken(t) ==
    /\ Runs(t) /\ pc[t] = "run" /\ t \in ast_halt
    /\ Goto(t, "halt_self")
    /\ UNCHANGED <<state, wait, fired, counts, swap_func, place, panicked>>

thread_halt_self(t) ==
    /\ Runs(t) /\ pc[t] = "halt_self"
    /\ state' = [state EXCEPT ![t] = @ \cup {"HALTED"}]
    /\ ast_halt' = ast_halt \ {t}
    /\ Goto(t, "halt_self_block")
    /\ UNCHANGED <<wait, fired, suspend_count, user_stop_count, wake_active, active,
                   swap_func, place, panicked>>

\* The target's termination goes on without it.
TerminateDone(t) ==
    /\ Runs(t) /\ pc[t] = "halted" /\ op[t] = "terminate"
    /\ Return(t)
    /\ UNCHANGED <<state, wait, fired, counts, swap_func, place, panicked>>

-----------------------------------------------------------------------------
Switch(t) == thread_select(t) \/ thread_invoke(t) \/ thread_doswapin(t) \/ thread_block(t)

Step(t) ==
    \/ WaitForEvent(t) \/ thread_will_wait(t) \/ thread_set_timeout(t)
    \/ thread_release(t) \/ thread_dowait(t)
    \/ HaltBegin(t) \/ HaltWoken(t) \/ HaltAgain(t) \/ HaltFail(t) \/ HaltStopped(t)
    \/ ast_taken(t) \/ thread_halt_self(t) \/ TerminateDone(t)

Call(t, x) ==
    \/ thread_suspend(t, x) \/ thread_resume(t, x) \/ thread_get_state(t, x)
    \/ thread_halt(t, x)

Next ==
    \/ \E t \in Threads :
          Switch(t) \/ Step(t) \/ thread_go(t) \/ softclock(t) \/ thread_timeout(t)
    \/ \E t, x \in Threads : Call(t, x)
    \/ \E e \in Events : Wakeup(e)

Spec == Init /\ [][Next]_vars

-----------------------------------------------------------------------------
Labels == {"run", "asserted", "ipc_asserted", "dowait", "dowait_sleep", "dowait_woken",
           "got", "release", "halt", "halt_sleep", "halt_woken", "halt_again",
           "halt_fail", "halt_stopped", "halted", "halt_self", "halt_self_block"}

(* The fields of the threads and the calls they are in have their types.    *)
TypeOK ==
    /\ state \in [Threads -> SUBSET (Sched \cup {"HALTED"})]
    /\ wait_event \in [Threads -> Events \cup Threads \cup {Null}]
    /\ wait_result \in [Threads -> {"awakened", "timed_out", "interrupted"}]
    /\ timer \subseteq Threads /\ timed \subseteq Threads /\ fired \in Threads \cup {Null}
    /\ suspend_count \in [Threads -> Nat] /\ user_stop_count \in [Threads -> 0 .. MaxStops]
    /\ wake_active \subseteq Threads /\ ast_halt \subseteq Threads /\ active \subseteq Threads
    /\ swap_func \in [Threads -> {"return", "msg", "other"}]
    /\ place \in [Threads -> {"cpu", "runq", "chosen", "off", "twice"}]
    /\ pc \in [Threads -> Labels]
    /\ target \in [Threads -> Threads \cup {Null}]
    /\ op \in [Threads -> Ops \cup {"none"}]
    /\ panicked \in BOOLEAN

(* No thread is lost, and none is on a run queue twice: a thread with       *)
(* TH_RUN is in exactly one place, and one without it has a reason, a wait  *)
(* or a suspension that somebody counts.                                    *)
NoThreadLost ==
    \A t \in Threads :
        /\ "RUN" \in state[t] <=> place[t] # "off"
        /\ place[t] # "twice"
        /\ place[t] = "off" => state[t] \cap {"WAIT", "SUSP"} # {}
        /\ "SUSP" \in state[t] <=> suspend_count[t] > 0

(* panic("thread_wakeup") of sched_prim.c:664 cannot happen: a thread on a  *)
(* wait queue has TH_WAIT on.  A timer is set only for a thread that waits, *)
(* or softclock would end a wait it was not set for.                        *)
WaitersWait ==
    \A t \in Threads :
        /\ wait_event[t] # Null => "WAIT" \in state[t]
        /\ t \in timer => "WAIT" \in state[t]

(* The panics of thread_dispatch (sched_prim.c:1250) and thread_halt        *)
(* (thread.c:1409) cannot happen.                                           *)
NoPanic == ~panicked

(* thread.c:1494-1496: after thread_dowait the thread has really stopped,   *)
(* and it stays so while thread_get_state reads its registers.              *)
StoppedWhileRead ==
    \A t \in Threads : pc[t] = "got" => place[target[t]] = "off"

(* thread.c:1207: a thread that thread_halt has halted is at a clean point, *)
(* suspended, and stays there until the caller releases it.                 *)
HaltHolds ==
    \A t \in Threads :
        pc[t] = "halted" =>
            LET x == target[t]
            IN  /\ {"HALTED", "SUSP"} \subseteq state[x]
                /\ place[x] = "off" \/ pc[x] = "halt_self_block"

AsleepOn(t, x) == "WAIT" \in state[t] /\ wait_event[t] = x

(* thread.c:1515-1517: whoever sleeps until a thread stops is woken when it *)
(* does.                                                                    *)
StopNoticed ==
    \A t, x \in Threads :
        AsleepOn(t, x) /\ pc[t] \in {"dowait_sleep", "dowait_woken"} =>
            x \in wake_active /\ state[x] \cap Sched \notin Stopped

(* thread.c:1294: whoever waits for somebody else's halt to complete does   *)
(* so while there is one going on, or its end is about to be announced.     *)
HaltNoticed ==
    \A t, x \in Threads :
        AsleepOn(t, x) /\ pc[t] \in {"halt_sleep", "halt_woken"} =>
            (x \in ast_halt /\ "HALTED" \notin state[x]) \/ pc[x] = "halt_self_block"

(* A timeout ends only the wait it was set for.                             *)
NoStaleTimeout ==
    [][\A x \in Threads :
          "WAIT" \in state[x] \ state'[x] /\ wait_result'[x] = "timed_out" => x \in timed]_vars

=============================================================================
