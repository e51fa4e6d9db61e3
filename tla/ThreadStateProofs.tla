------------------------- MODULE ThreadStateProofs -------------------------
(***************************************************************************)
(* Why no thread is lost, woken twice or halted at the wrong place, for    *)
(* every number of threads.  The six state bits, the queues, the counts of *)
(* suspensions and the calls in progress are kept by different routines;   *)
(* the invariant says how they fit together.  It needs one restriction on  *)
(* callers: with NCPUS > 1 nobody calls thread_halt (CallsOK).             *)
(***************************************************************************)
EXTENDS ThreadState, FiniteSetTheorems, TLAPS

Bits == Sched \cup {"HALTED"}
Places == {"cpu", "runq", "chosen", "off", "twice"}
Results == {"awakened", "timed_out", "interrupted"}
Scheduling ==
    [state : [Threads -> SUBSET Bits], wait_event : [Threads -> Events \cup Threads \cup {Null}],
     wait_result : [Threads -> Results], timer : SUBSET Threads, timed : SUBSET Threads,
     place : [Threads -> Places]]

\* The state bits of x say where it is, and what else is set for it.
Placed(s, x) ==
    /\ "RUN" \in s.state[x] <=> s.place[x] # "off"
    /\ s.place[x] # "twice"
    /\ s.place[x] = "off" => "WAIT" \in s.state[x] \/ "SUSP" \in s.state[x]
    /\ s.place[x] \in {"runq", "chosen"} => "WAIT" \notin s.state[x]
    /\ s.wait_event[x] # Null => "WAIT" \in s.state[x]
    /\ x \in s.timer => "WAIT" \in s.state[x] /\ x \in s.timed
    /\ "HALTED" \in s.state[x] =>
          "SUSP" \in s.state[x] /\ "WAIT" \notin s.state[x] /\ "UNINT" \notin s.state[x]
Sound(s) == s \in Scheduling /\ \A x \in Threads : Placed(s, x)

\* With NCPUS > 1 no thread is halted.
CallsOK == Multiprocessor => Ops \cap {"abort", "terminate"} = {}

\* Each label belongs to a call, or to none.
Idle == {"run", "asserted", "ipc_asserted", "halt_self", "halt_self_block"}
Halting == {"halt", "halt_sleep", "halt_woken", "halt_again", "halt_fail", "halt_stopped",
            "halted", "release"}
Dowait == {"dowait", "dowait_sleep", "dowait_woken"}
CallAt(t) ==
    /\ pc[t] \in Idle => op[t] = "none" /\ target[t] = Null
    /\ pc[t] \notin Idle => target[t] \in Threads
    /\ pc[t] = "got" => op[t] = "get_state"
    /\ pc[t] \in Dowait => op[t] \in {"suspend", "get_state", "abort", "terminate"}
    /\ pc[t] \in Halting => op[t] \in {"abort", "terminate"}

\* What is off the processor is where thread_block left it; what is on it waits
\* only where it has asserted a wait.
Asserted == {"asserted", "ipc_asserted", "dowait_sleep", "halt_sleep"}
Left == {"run", "dowait_woken", "halt_woken"}
CpuAt(t) ==
    /\ place[t] = "cpu" /\ pc[t] \notin Asserted =>
          "WAIT" \notin state[t] /\ "UNINT" \notin state[t]
    /\ place[t] # "cpu" => pc[t] \in Left
    /\ "HALTED" \in state[t] /\ "RUN" \in state[t] => pc[t] = "halt_self_block"
OneCpu ==
    ~Multiprocessor => \A t, u \in Threads : place[t] = "cpu" /\ place[u] = "cpu" => t = u

\* Every thread that holds x, and the user's stops, are counted; a terminated
\* target stays held for ever.
Holds(t, x) == target[t] = x /\ op[t] # "suspend" /\ pc[t] # "halt"
Holders(x) == {t \in Threads : Holds(t, x)}
Held(x) == Cardinality(Holders(x)) + (IF user_stop_count[x] > 0 THEN 1 ELSE 0)
CountAt(x) == ("SUSP" \in state[x] <=> suspend_count[x] > 0) /\ Held(x) <= suspend_count[x]

\* A thread is to halt as long as somebody is about to halt it.
Halts(t, x) ==
    /\ target[t] = x /\ op[t] \in {"abort", "terminate"}
    /\ pc[t] \in Dowait \cup {"halt_stopped", "halt_fail"}
HaltAt(x) ==
    /\ x \in ast_halt => "HALTED" \notin state[x] /\ \E t \in Threads : Halts(t, x)
    /\ pc[x] = "halt_self" => x \in ast_halt
    /\ pc[x] = "halt_again" => "HALTED" \notin state[target[x]]

\* What thread_dowait and thread_halt have achieved lasts.
StopAt(t) ==
    /\ pc[t] \in {"got", "halt_stopped"} =>
          /\ "SUSP" \in state[target[t]]
          /\ "RUN" \notin state[target[t]] /\ "UNINT" \notin state[target[t]]
    /\ pc[t] = "halted" => "HALTED" \in state[target[t]]

\* The types of what the scheduler's routines do not change.
OtherTypes ==
    /\ fired \in Threads \cup {Null}
    /\ suspend_count \in [Threads -> Nat] /\ user_stop_count \in [Threads -> 0 .. MaxStops]
    /\ wake_active \subseteq Threads /\ ast_halt \subseteq Threads /\ active \subseteq Threads
    /\ swap_func \in [Threads -> {"return", "msg", "other"}]
    /\ pc \in [Threads -> Labels] /\ target \in [Threads -> Threads \cup {Null}]
    /\ op \in [Threads -> Ops \cup {"none"}]

Inv ==
    /\ Sound(Now) /\ OtherTypes /\ OneCpu /\ panicked = FALSE
    /\ \A t \in Threads : CallAt(t) /\ CpuAt(t) /\ CountAt(t) /\ HaltAt(t) /\ StopAt(t)

\* A timer that softclock has taken is that of the present wait.
FiredOK == \A x \in Threads : fired = x /\ "WAIT" \in state[x] => x \in timed

\* Whoever sleeps until its target stops will be told, because the target cannot
\* stop, nor be released, without that.
Awaited(x) ==
    x \in wake_active /\ "SUSP" \in state[x] /\ ("RUN" \in state[x] \/ "UNINT" \in state[x])
SleepsOn(t, x) == AsleepOn(t, x) /\ pc[t] \in {"dowait_sleep", "dowait_woken"}
StopCounted(t) ==
    op[t] = "suspend" /\ target[t] \in Threads => user_stop_count[target[t]] > 0
SleepOK ==
    \A t \in Threads :
        /\ StopCounted(t)
        /\ \A x \in Threads : SleepsOn(t, x) => target[t] = x /\ Awaited(x)

-----------------------------------------------------------------------------
(* The routines of kern/sched_prim.c.                                      *)

\* What the end of some waits does not change, from s to e.
Wakes(s, e) ==
    \A t \in Threads :
        /\ e.place[t] = "cpu" <=> s.place[t] = "cpu"
        /\ \A b \in {"SUSP", "HALTED", "UNINT"} : b \in e.state[t] <=> b \in s.state[t]
        /\ "WAIT" \in e.state[t] =>
              /\ "WAIT" \in s.state[t] /\ e.wait_event[t] = s.wait_event[t]
              /\ t \in s.timed => t \in e.timed
        /\ "RUN" \in s.state[t] => "RUN" \in e.state[t]
        /\ "RUN" \in e.state[t] =>
              "RUN" \in s.state[t] \/ ("SUSP" \in s.state[t] => "UNINT" \in s.state[t])

\* What EndWait(s, X, r) does to t, as e.
Ends(s, X, t) == t \in X /\ "WAIT" \in s.state[t]
Goes(s, X, t) == Ends(s, X, t) /\ Sleeping(s.state[t])
Ended(s, e, X, r, t) ==
    /\ e.place[t] = IF ~Goes(s, X, t) THEN s.place[t]
                    ELSE IF s.place[t] = "off" THEN "runq" ELSE "twice"
    /\ "RUN" \in e.state[t] <=> "RUN" \in s.state[t] \/ Goes(s, X, t)
    /\ "WAIT" \in e.state[t] <=> "WAIT" \in s.state[t] /\ t \notin X
    /\ \A b \in {"SUSP", "HALTED", "UNINT"} : b \in e.state[t] <=> b \in s.state[t]
    /\ e.wait_event[t] = IF t \in X THEN Null ELSE s.wait_event[t]
    /\ Ends(s, X, t) => e.wait_result[t] = r
    /\ t \in e.timer <=> t \in s.timer /\ t \notin X
    /\ t \in e.timed <=> t \in s.timed /\ ~Ends(s, X, t)

LEMMA EndWaitFields ==
    ASSUME NEW s \in Scheduling, NEW X \in SUBSET Threads, NEW r \in Results
    PROVE  /\ EndWait(s, X, r) \in Scheduling
           /\ \A t \in Threads : Ended(s, EndWait(s, X, r), X, r, t)
<1> DEFINE ended == {x \in X : "WAIT" \in s.state[x]}
           go == {x \in ended : Sleeping(s.state[x])}
           u == [s EXCEPT !.timer = @ \ X]
           v == [u EXCEPT !.place = [y \in Threads |->
                    IF y \notin go THEN @[y] ELSE IF @[y] = "off" THEN "runq" ELSE "twice"]]
           e == [v EXCEPT
                   !.wait_event = [y \in Threads |-> IF y \in X THEN Null ELSE @[y]],
                   !.state = [y \in Threads |->
                                (@[y] \ (IF y \in ended THEN {"WAIT"} ELSE {}))
                                      \cup (IF y \in go THEN {"RUN"} ELSE {})],
                   !.wait_result = [y \in Threads |-> IF y \in ended THEN r ELSE @[y]],
                   !.timed = @ \ ended]
<1>1. EndWait(s, X, r) = e
  BY DEF EndWait, thread_setrun, reset_timeout
<1>2. ended \subseteq Threads /\ go \subseteq ended
  OBVIOUS
<1>3. /\ \A t \in Threads : t \in ended <=> Ends(s, X, t)
      /\ \A t \in Threads : t \in go <=> Goes(s, X, t)
  BY DEF Ends, Goes
<1> HIDE DEF ended, go
<1>4. u \in Scheduling /\ u = [s EXCEPT !.timer = @ \ X]
  BY DEF Scheduling
<1>5. v \in Scheduling
  BY <1>4 DEF Scheduling, Places
<1>6. e \in Scheduling
  BY <1>2, <1>4, <1>5 DEF Scheduling, Bits, Sched, Results
<1>7. ASSUME NEW t \in Threads PROVE Ended(s, e, X, r, t)
  <2>1. /\ e.wait_event[t] = IF t \in X THEN Null ELSE s.wait_event[t]
        /\ e.wait_result[t] = IF t \in ended THEN r ELSE s.wait_result[t]
        /\ e.timer = s.timer \ X /\ e.timed = s.timed \ ended
    BY <1>4 DEF Scheduling
  <2>2. e.state[t] = (s.state[t] \ (IF t \in ended THEN {"WAIT"} ELSE {}))
                         \cup (IF t \in go THEN {"RUN"} ELSE {})
    BY <1>4 DEF Scheduling
  <2>3. e.place[t] = IF t \notin go THEN s.place[t]
                     ELSE IF s.place[t] = "off" THEN "runq" ELSE "twice"
    BY <1>4 DEF Scheduling
  <2> HIDE DEF e
  <2>4. /\ "RUN" \in e.state[t] <=> "RUN" \in s.state[t] \/ t \in go
        /\ "WAIT" \in e.state[t] <=> "WAIT" \in s.state[t] /\ t \notin ended
        /\ \A b \in {"SUSP", "HALTED", "UNINT"} : b \in e.state[t] <=> b \in s.state[t]
    BY <2>2
  <2> QED
    BY <1>3, <2>1, <2>3, <2>4 DEF Ended, Ends
<1> QED
  BY <1>1, <1>6, <1>7

\* The end of a wait leaves every thread where its state says it is.
LEMMA EndWaitSound ==
    ASSUME NEW s, Sound(s), NEW X \in SUBSET Threads, NEW r \in Results
    PROVE  LET e == EndWait(s, X, r)
           IN  /\ Sound(e) /\ Wakes(s, e)
               /\ \A t \in Threads :
                     /\ t \in X => e.wait_event[t] = Null /\ "WAIT" \notin e.state[t]
                     /\ "WAIT" \in s.state[t] \ e.state[t] => e.wait_result[t] = r
<1> DEFINE e == EndWait(s, X, r)
<1>1. s \in Scheduling /\ e \in Scheduling /\ \A t \in Threads : Ended(s, e, X, r, t)
  BY EndWaitFields DEF Sound
<1> HIDE DEF e
<1>2. ASSUME NEW t \in Threads PROVE Placed(e, t)
  <2>1. Ended(s, e, X, r, t) /\ Placed(s, t)
    BY <1>1 DEF Sound
  <2> QED
    BY <2>1 DEF Ended, Goes, Ends, Sleeping, Placed
<1>3. Wakes(s, e)
  <2> SUFFICES ASSUME NEW t \in Threads
               PROVE  /\ e.place[t] = "cpu" <=> s.place[t] = "cpu"
                      /\ \A b \in {"SUSP", "HALTED", "UNINT"} :
                            b \in e.state[t] <=> b \in s.state[t]
                      /\ "WAIT" \in e.state[t] =>
                            /\ "WAIT" \in s.state[t] /\ e.wait_event[t] = s.wait_event[t]
                            /\ t \in s.timed => t \in e.timed
                      /\ "RUN" \in s.state[t] => "RUN" \in e.state[t]
                      /\ "RUN" \in e.state[t] =>
                            \/ "RUN" \in s.state[t]
                            \/ ("SUSP" \in s.state[t] => "UNINT" \in s.state[t])
    BY DEF Wakes
  <2>1. Ended(s, e, X, r, t) /\ Placed(s, t)
    BY <1>1 DEF Sound
  <2>2. e.place[t] = "cpu" <=> s.place[t] = "cpu"
    BY <2>1 DEF Ended, Goes, Ends, Sleeping, Placed
  <2>3. /\ "RUN" \in s.state[t] => "RUN" \in e.state[t]
        /\ "RUN" \in e.state[t] =>
              "RUN" \in s.state[t] \/ ("SUSP" \in s.state[t] => "UNINT" \in s.state[t])
    BY <2>1 DEF Ended, Goes, Sleeping
  <2>4. "WAIT" \in e.state[t] =>
          /\ "WAIT" \in s.state[t] /\ e.wait_event[t] = s.wait_event[t]
          /\ t \in s.timed => t \in e.timed
    BY <2>1 DEF Ended, Ends
  <2>5. \A b \in {"SUSP", "HALTED", "UNINT"} : b \in e.state[t] <=> b \in s.state[t]
    BY <2>1 DEF Ended
  <2> QED
    BY <2>2, <2>3, <2>4, <2>5
<1>4. ASSUME NEW t \in Threads
      PROVE  /\ t \in X => e.wait_event[t] = Null /\ "WAIT" \notin e.state[t]
             /\ "WAIT" \in s.state[t] \ e.state[t] => e.wait_result[t] = r
  BY <1>1 DEF Ended, Ends
<1> QED
  BY <1>1, <1>2, <1>3, <1>4 DEF Sound, e

\* Nothing has to be done for the threads to stay as they are.
LEMMA WakesNone ==
    ASSUME NEW s PROVE Wakes(s, s)
BY DEF Wakes

LEMMA ClearWaitSound ==
    ASSUME NEW s, Sound(s), NEW x \in Threads, NEW r \in Results, NEW i \in BOOLEAN
    PROVE  LET e == clear_wait(s, x, r, i)
           IN  /\ Sound(e) /\ Wakes(s, e)
               /\ \A t \in Threads : "WAIT" \in s.state[t] \ e.state[t] => e.wait_result[t] = r
               /\ "WAIT" \in e.state[x] => i /\ "UNINT" \in s.state[x]
BY EndWaitSound, WakesNone DEF clear_wait

LEMMA WakeupSound ==
    ASSUME NEW s, Sound(s), NEW event, event # Null, NEW r \in Results
    PROVE  LET e == thread_wakeup(s, event, r)
           IN  /\ Sound(e) /\ Wakes(s, e)
               /\ \A t \in Threads :
                     /\ e.wait_event[t] # event
                     /\ "WAIT" \in s.state[t] \ e.state[t] => e.wait_result[t] = r
<1> DEFINE X == {t \in Threads : s.wait_event[t] = event}
           e == EndWait(s, X, r)
<1>1. X \in SUBSET Threads /\ thread_wakeup(s, event, r) = e
  BY DEF thread_wakeup
<1>2. /\ Sound(e) /\ Wakes(s, e)
      /\ \A t \in Threads :
            /\ t \in X => e.wait_event[t] = Null
            /\ "WAIT" \in s.state[t] \ e.state[t] => e.wait_result[t] = r
  BY <1>1, EndWaitSound
<1>3. ASSUME NEW t \in Threads PROVE e.wait_event[t] # event
  <2>1. Ended(s, e, X, r, t)
    BY <1>1, EndWaitFields DEF Sound
  <2> QED
    BY <2>1 DEF Ended
<1> HIDE DEF e
<1> QED
  BY <1>1, <1>2, <1>3

-----------------------------------------------------------------------------
(* Changes to one thread.                                                  *)

Same(s, e, u) ==
    /\ e.state[u] = s.state[u] /\ e.place[u] = s.place[u]
    /\ e.wait_event[u] = s.wait_event[u] /\ e.wait_result[u] = s.wait_result[u]
    /\ u \in e.timed <=> u \in s.timed

\* x gives up its processor or its place on a run queue.
Off(s, x) == [s EXCEPT !.state[x] = @ \ {"RUN"}, !.place[x] = "off"]
Requeued(s, x) == thread_setrun([s EXCEPT !.place[x] = "off"], {x})

LEMMA AssertWaitSound ==
    ASSUME NEW s, Sound(s), NEW t \in Threads, NEW event \in Events \cup Threads,
           NEW i \in BOOLEAN, s.place[t] = "cpu", "HALTED" \notin s.state[t]
    PROVE  LET e == assert_wait(s, t, event, i)
           IN  /\ Sound(e) /\ \A u \in Threads \ {t} : Same(s, e, u)
               /\ e.place[t] = s.place[t] /\ e.wait_event[t] = event
               /\ "WAIT" \in e.state[t]
               /\ \A b \in {"RUN", "SUSP", "HALTED"} : b \in e.state[t] <=> b \in s.state[t]
               /\ "UNINT" \in e.state[t] => "UNINT" \in s.state[t] \/ ~i
               /\ e.wait_result = s.wait_result /\ e.timed = s.timed
<1> DEFINE e == assert_wait(s, t, event, i)
           more == {"WAIT"} \cup (IF i THEN {} ELSE {"UNINT"})
<1>1. s \in Scheduling /\ Placed(s, t)
  BY DEF Sound
<1>2. /\ e = [s EXCEPT !.wait_event[t] = event, !.state[t] = @ \cup more]
      /\ more \subseteq Bits /\ "WAIT" \in more /\ more \subseteq {"WAIT", "UNINT"}
      /\ "UNINT" \in more => ~i
  BY DEF assert_wait, Bits, Sched
<1> HIDE DEF e, more
<1>3. /\ e \in Scheduling /\ \A u \in Threads \ {t} : Same(s, e, u)
      /\ e.place = s.place /\ e.wait_event[t] = event /\ e.state[t] = s.state[t] \cup more
      /\ e.wait_result = s.wait_result /\ e.timed = s.timed /\ e.timer = s.timer
  BY <1>1, <1>2 DEF Scheduling, Same
<1>4. /\ "WAIT" \in e.state[t]
      /\ \A b \in {"RUN", "SUSP", "HALTED"} : b \in e.state[t] <=> b \in s.state[t]
      /\ "UNINT" \in e.state[t] => "UNINT" \in s.state[t] \/ ~i
  BY <1>2, <1>3
<1>5. \A u \in Threads : Placed(e, u)
  BY <1>1, <1>3, <1>4 DEF Sound, Placed, Same
<1> QED
  BY <1>3, <1>4, <1>5 DEF Sound, e

LEMMA HoldSound ==
    ASSUME NEW s, Sound(s), NEW x \in Threads
    PROVE  LET e == Hold(s, x)
           IN  /\ Sound(e) /\ \A u \in Threads \ {x} : Same(s, e, u)
               /\ e.place = s.place /\ "SUSP" \in e.state[x]
               /\ \A b \in {"RUN", "WAIT", "UNINT", "HALTED"} :
                     b \in e.state[x] <=> b \in s.state[x]
               /\ e.wait_event = s.wait_event /\ e.wait_result = s.wait_result
               /\ e.timed = s.timed
<1> DEFINE e == Hold(s, x)
<1>1. s \in Scheduling /\ Placed(s, x)
  BY DEF Sound
<1>2. /\ e \in Scheduling /\ \A u \in Threads \ {x} : Same(s, e, u)
      /\ e.place = s.place /\ e.state[x] = s.state[x] \cup {"SUSP"}
      /\ e.wait_event = s.wait_event /\ e.wait_result = s.wait_result
      /\ e.timed = s.timed /\ e.timer = s.timer
  BY <1>1 DEF Hold, Scheduling, Same, Bits, Sched
<1> HIDE DEF e
<1>3. /\ "SUSP" \in e.state[x]
      /\ \A b \in {"RUN", "WAIT", "UNINT", "HALTED"} : b \in e.state[x] <=> b \in s.state[x]
  BY <1>2
<1>4. \A u \in Threads : Placed(e, u)
  BY <1>1, <1>2, <1>3 DEF Sound, Placed, Same
<1> QED
  BY <1>2, <1>3, <1>4 DEF Sound, e

LEMMA UnsuspendSound ==
    ASSUME NEW s, Sound(s), NEW x \in Threads
    PROVE  LET e == Unsuspend(s, x)
           IN  /\ Sound(e) /\ \A u \in Threads \ {x} : Same(s, e, u)
               /\ e.place[x] = "cpu" <=> s.place[x] = "cpu"
               /\ "SUSP" \notin e.state[x] /\ "HALTED" \notin e.state[x]
               /\ \A b \in {"WAIT", "UNINT"} : b \in e.state[x] <=> b \in s.state[x]
               /\ e.wait_event = s.wait_event /\ e.wait_result = s.wait_result
               /\ e.timed = s.timed
<1> DEFINE e == Unsuspend(s, x)
           st == s.state[x] \ {"SUSP", "HALTED"}
           a == [s EXCEPT !.state[x] = st]
           b == [s EXCEPT !.state[x] = st \cup {"RUN"}]
           c == [b EXCEPT !.place = [t \in Threads |->
                    IF t \notin {x} THEN @[t] ELSE IF @[t] = "off" THEN "runq" ELSE "twice"]]
           stay == st \cap {"WAIT", "RUN"} # {}
<1>1. s \in Scheduling /\ Placed(s, x)
  BY DEF Sound
<1>2. e = IF stay THEN a ELSE c
  BY DEF Unsuspend, thread_setrun
<1>3. /\ stay <=> "WAIT" \in s.state[x] \/ "RUN" \in s.state[x]
      /\ ~stay => s.place[x] = "off"
  BY <1>1 DEF Placed
<1>4. st \subseteq Bits /\ st \cup {"RUN"} \subseteq Bits
  BY <1>1 DEF Scheduling, Bits, Sched
<1> HIDE DEF e, st, stay
<1>5. b \in Scheduling
  BY <1>1, <1>4 DEF Scheduling
<1>6. e \in Scheduling
  BY <1>1, <1>2, <1>4, <1>5 DEF Scheduling, Places
<1>7. \A u \in Threads \ {x} : Same(s, e, u)
  BY <1>1, <1>2, <1>5 DEF Scheduling, Same
<1>8. /\ e.wait_event = s.wait_event /\ e.wait_result = s.wait_result
      /\ e.timed = s.timed /\ e.timer = s.timer
      /\ e.place[x] = IF stay THEN s.place[x] ELSE "runq"
      /\ e.state[x] = IF stay THEN st ELSE st \cup {"RUN"}
  BY <1>1, <1>2, <1>3, <1>5 DEF Scheduling
<1>9. /\ "SUSP" \notin e.state[x] /\ "HALTED" \notin e.state[x]
      /\ \A d \in {"WAIT", "UNINT"} : d \in e.state[x] <=> d \in s.state[x]
      /\ "RUN" \in e.state[x] <=> "RUN" \in s.state[x] \/ ~stay
  BY <1>8 DEF st
<1>10. Placed(e, x) /\ (e.place[x] = "cpu" <=> s.place[x] = "cpu")
  BY <1>1, <1>3, <1>8, <1>9 DEF Placed
<1>11. \A u \in Threads : Placed(e, u)
  BY <1>7, <1>8, <1>10 DEF Sound, Placed, Same
<1> QED
  BY <1>6, <1>7, <1>8, <1>9, <1>10, <1>11 DEF Sound, e

LEMMA OffSound ==
    ASSUME NEW s, Sound(s), NEW x \in Threads,
           "WAIT" \in s.state[x] \/ "SUSP" \in s.state[x]
    PROVE  LET e == Off(s, x)
           IN  /\ Sound(e) /\ \A u \in Threads \ {x} : Same(s, e, u)
               /\ e.place[x] = "off" /\ "RUN" \notin e.state[x]
               /\ \A b \in {"SUSP", "WAIT", "UNINT", "HALTED"} :
                     b \in e.state[x] <=> b \in s.state[x]
               /\ e.wait_event = s.wait_event /\ e.wait_result = s.wait_result
               /\ e.timed = s.timed
<1> DEFINE e == Off(s, x)
<1>1. s \in Scheduling /\ Placed(s, x)
  BY DEF Sound
<1>2. /\ e \in Scheduling /\ \A u \in Threads \ {x} : Same(s, e, u)
      /\ e.place[x] = "off" /\ e.state[x] = s.state[x] \ {"RUN"}
      /\ e.wait_event = s.wait_event /\ e.wait_result = s.wait_result
      /\ e.timed = s.timed /\ e.timer = s.timer
  BY <1>1 DEF Off, Scheduling, Same, Places
<1> HIDE DEF e
<1>3. /\ "RUN" \notin e.state[x]
      /\ \A b \in {"SUSP", "WAIT", "UNINT", "HALTED"} : b \in e.state[x] <=> b \in s.state[x]
  BY <1>2
<1>4. Placed(e, x)
  BY <1>1, <1>2, <1>3 DEF Placed
<1>5. \A u \in Threads : Placed(e, u)
  BY <1>2, <1>4 DEF Sound, Placed, Same
<1> QED
  BY <1>2, <1>3, <1>5 DEF Sound, e

\* x goes from the processor, or from where it was chosen, back to a run queue.
LEMMA RequeuedSound ==
    ASSUME NEW s, Sound(s), NEW x \in Threads,
           "RUN" \in s.state[x], "WAIT" \notin s.state[x]
    PROVE  LET e == Requeued(s, x)
           IN  /\ Sound(e) /\ \A u \in Threads \ {x} : Same(s, e, u)
               /\ e.place[x] = "runq" /\ e.state = s.state
               /\ e.wait_event = s.wait_event /\ e.wait_result = s.wait_result
               /\ e.timed = s.timed
<1> DEFINE e == Requeued(s, x)
           a == [s EXCEPT !.place[x] = "off"]
<1>1. s \in Scheduling /\ Placed(s, x)
  BY DEF Sound
<1>2. a \in Scheduling
  BY <1>1 DEF Scheduling, Places
<1>3. /\ e \in Scheduling /\ \A u \in Threads \ {x} : Same(s, e, u)
      /\ e.place[x] = "runq" /\ e.state = s.state
      /\ e.wait_event = s.wait_event /\ e.wait_result = s.wait_result
      /\ e.timed = s.timed /\ e.timer = s.timer
  <2>1. e = [a EXCEPT !.place = [t \in Threads |->
                IF t \notin {x} THEN @[t] ELSE IF @[t] = "off" THEN "runq" ELSE "twice"]]
    BY DEF Requeued, thread_setrun
  <2>2. /\ \A u \in Threads \ {x} : Same(s, a, u)
        /\ a.place[x] = "off" /\ a.state = s.state
        /\ a.wait_event = s.wait_event /\ a.wait_result = s.wait_result
        /\ a.timed = s.timed /\ a.timer = s.timer
    BY <1>1 DEF Scheduling, Same
  <2> HIDE DEF a, e
  <2> QED
    BY <1>2, <2>1, <2>2 DEF Scheduling, Same, Places
<1> HIDE DEF e
<1>4. Placed(e, x)
  BY <1>1, <1>3 DEF Placed
<1>5. \A u \in Threads : Placed(e, u)
  BY <1>3, <1>4 DEF Sound, Placed, Same
<1> QED
  BY <1>3, <1>5 DEF Sound, e

\* thread_halt finds x at a clean point.
LEMMA HaltedSound ==
    ASSUME NEW s, Sound(s), NEW x \in Threads,
           "SUSP" \in s.state[x], "WAIT" \notin s.state[x], "UNINT" \notin s.state[x]
    PROVE  LET e == [s EXCEPT !.state[x] = @ \cup {"HALTED"}]
           IN  /\ Sound(e) /\ \A u \in Threads \ {x} : Same(s, e, u)
               /\ e.place = s.place /\ "HALTED" \in e.state[x]
               /\ \A b \in Sched : b \in e.state[x] <=> b \in s.state[x]
               /\ e.wait_event = s.wait_event /\ e.wait_result = s.wait_result
               /\ e.timed = s.timed
<1> DEFINE e == [s EXCEPT !.state[x] = @ \cup {"HALTED"}]
<1>1. s \in Scheduling /\ Placed(s, x)
  BY DEF Sound
<1>2. /\ e \in Scheduling /\ \A u \in Threads \ {x} : Same(s, e, u)
      /\ e.place = s.place /\ e.state[x] = s.state[x] \cup {"HALTED"}
      /\ e.wait_event = s.wait_event /\ e.wait_result = s.wait_result
      /\ e.timed = s.timed /\ e.timer = s.timer
  BY <1>1 DEF Scheduling, Same, Bits
<1> HIDE DEF e
<1>3. /\ "HALTED" \in e.state[x]
      /\ \A b \in Sched : b \in e.state[x] <=> b \in s.state[x]
  BY <1>2 DEF Sched
<1>4. Placed(e, x)
  BY <1>1, <1>2, <1>3 DEF Placed, Sched
<1>5. \A u \in Threads : Placed(e, u)
  BY <1>2, <1>4 DEF Sound, Placed, Same
<1> QED
  BY <1>2, <1>3, <1>5 DEF Sound, e

\* thread_halt makes x run, to where it halts itself.
LEMMA ForcedSound ==
    ASSUME NEW s, Sound(s), NEW x \in Threads, s.place[x] = "off",
           "WAIT" \notin s.state[x], "HALTED" \notin s.state[x]
    PROVE  LET e == thread_setrun([s EXCEPT !.state[x] = @ \cup {"RUN", "UNINT"}], {x})
           IN  /\ Sound(e) /\ \A u \in Threads \ {x} : Same(s, e, u)
               /\ e.place[x] = "runq"
               /\ \A b \in {"SUSP", "WAIT", "HALTED"} : b \in e.state[x] <=> b \in s.state[x]
               /\ e.wait_event = s.wait_event /\ e.wait_result = s.wait_result
               /\ e.timed = s.timed
<1> DEFINE a == [s EXCEPT !.state[x] = @ \cup {"RUN", "UNINT"}]
           e == thread_setrun(a, {x})
<1>1. s \in Scheduling /\ Placed(s, x)
  BY DEF Sound
<1>2. a \in Scheduling
  BY <1>1 DEF Scheduling, Bits, Sched
<1>3. /\ e \in Scheduling /\ \A u \in Threads \ {x} : Same(s, e, u)
      /\ e.place[x] = "runq" /\ e.state[x] = s.state[x] \cup {"RUN", "UNINT"}
      /\ e.wait_event = s.wait_event /\ e.wait_result = s.wait_result
      /\ e.timed = s.timed /\ e.timer = s.timer
  BY <1>1, <1>2 DEF thread_setrun, Scheduling, Same, Places
<1> HIDE DEF e
<1>4. /\ "RUN" \in e.state[x]
      /\ \A b \in {"SUSP", "WAIT", "HALTED"} : b \in e.state[x] <=> b \in s.state[x]
  BY <1>3
<1>5. Placed(e, x)
  BY <1>1, <1>3, <1>4 DEF Placed
<1>6. \A u \in Threads : Placed(e, u)
  BY <1>3, <1>5 DEF Sound, Placed, Same
<1> QED
  BY <1>3, <1>4, <1>6 DEF Sound, e

-----------------------------------------------------------------------------
(* What a step leaves alone.                                               *)

\* x is on the processor as before, and not more of it waits or is halted.
Calm(s, e, x) ==
    /\ e.place[x] = "cpu" <=> s.place[x] = "cpu"
    /\ s.place[x] = "cpu" => /\ "WAIT" \in e.state[x] => "WAIT" \in s.state[x]
                             /\ "UNINT" \in e.state[x] => "UNINT" \in s.state[x]
    /\ "HALTED" \in e.state[x] => "HALTED" \in s.state[x]
    /\ "HALTED" \in e.state[x] /\ "RUN" \in e.state[x] => "RUN" \in s.state[x]

\* x stays off the processor.
Aside(s, e, x) == s.place[x] # "cpu" /\ e.place[x] # "cpu" /\ "RUN" \notin e.state[x]

\* x stays stopped, or halted.
Still(s, e, x) ==
    /\ "HALTED" \in s.state[x] => "HALTED" \in e.state[x]
    /\ "SUSP" \in s.state[x] /\ "RUN" \notin s.state[x] /\ "UNINT" \notin s.state[x] =>
          "SUSP" \in e.state[x] /\ "RUN" \notin e.state[x] /\ "UNINT" \notin e.state[x]

SameCall(u) == pc'[u] = pc[u] /\ op'[u] = op[u] /\ target'[u] = target[u]

LEMMA SameCalm ==
    ASSUME NEW s, NEW e, NEW x, Same(s, e, x) PROVE Calm(s, e, x) /\ Still(s, e, x)
BY DEF Same, Calm, Still

LEMMA WakesCalm ==
    ASSUME NEW s, Sound(s), NEW e, Wakes(s, e), NEW x \in Threads
    PROVE  Calm(s, e, x) /\ Still(s, e, x) /\ ("SUSP" \in e.state[x] <=> "SUSP" \in s.state[x])
<1>1. Placed(s, x)
  BY DEF Sound
<1>2. /\ e.place[x] = "cpu" <=> s.place[x] = "cpu"
      /\ \A b \in {"SUSP", "HALTED", "UNINT"} : b \in e.state[x] <=> b \in s.state[x]
      /\ "WAIT" \in e.state[x] => "WAIT" \in s.state[x]
      /\ "RUN" \in e.state[x] =>
            "RUN" \in s.state[x] \/ ("SUSP" \in s.state[x] => "UNINT" \in s.state[x])
  BY DEF Wakes
<1> QED
  BY <1>1, <1>2 DEF Calm, Still, Placed

LEMMA CommitSound ==
    ASSUME NEW s, Sound(s), Commit(s)
    PROVE  Sound(Now)'
<1>1. s \in Scheduling /\ Now'.state = s.state /\ Now'.place = s.place
      /\ Now'.wait_event = s.wait_event /\ Now'.wait_result = s.wait_result
      /\ Now'.timer = s.timer /\ Now'.timed = s.timed
  BY DEF Commit, Now, Sound
<1>2. Now' \in Scheduling
  BY <1>1 DEF Now, Scheduling
<1>3. \A x \in Threads : Placed(Now', x)
  BY <1>1 DEF Placed, Sound
<1> QED
  BY <1>2, <1>3 DEF Sound

\* A processor, a stopped thread and a halting one, of a thread that is not the
\* one that acts.
LEMMA CpuKept ==
    ASSUME NEW s, Commit(s), NEW u \in Threads, Calm(Now, s, u) \/ Aside(Now, s, u),
           pc'[u] = pc[u], CpuAt(u)
    PROVE  CpuAt(u)'
BY DEF CpuAt, Calm, Aside, Now, Commit

LEMMA StopKept ==
    ASSUME NEW s, Commit(s), NEW u \in Threads, Still(Now, s, target[u]), SameCall(u), StopAt(u)
    PROVE  StopAt(u)'
BY DEF StopAt, Still, SameCall, Now, Commit

LEMMA CallKept ==
    ASSUME NEW u \in Threads, SameCall(u), CallAt(u) PROVE CallAt(u)'
BY DEF CallAt, SameCall

LEMMA OneCpuKept ==
    ASSUME NEW s, Commit(s), OneCpu, \A u \in Threads : s.place[u] = "cpu" => place[u] = "cpu"
    PROVE  OneCpu'
BY DEF OneCpu, Commit

-----------------------------------------------------------------------------
(* Counting the holders of a thread.                                       *)

LEMMA HeldType ==
    ASSUME OtherTypes, NEW x \in Threads
    PROVE  /\ IsFiniteSet(Holders(x)) /\ Cardinality(Holders(x)) \in Nat /\ Held(x) \in Nat
           /\ user_stop_count[x] \in Nat /\ suspend_count[x] \in Nat
           /\ Held(x) = Cardinality(Holders(x)) + (IF user_stop_count[x] > 0 THEN 1 ELSE 0)
<1>1. IsFiniteSet(Holders(x))
  BY ThreadsAssumption, FS_Subset DEF Holders
<1>2. Cardinality(Holders(x)) \in Nat
  BY <1>1, FS_CardinalityType
<1>3. user_stop_count[x] \in Nat /\ suspend_count[x] \in Nat
  BY ValuesAssumption DEF OtherTypes
<1> QED
  BY <1>1, <1>2, <1>3 DEF Held

\* A held thread is suspended, by as many as hold it.
LEMMA HoldersCounted ==
    ASSUME OtherTypes, NEW x \in Threads, CountAt(x), NEW t \in Threads, Holds(t, x)
    PROVE  /\ suspend_count[x] \in Nat \ {0} /\ "SUSP" \in state[x]
           /\ \A u \in Threads \ {t} : Holds(u, x) => suspend_count[x] # 1
           /\ user_stop_count[x] > 0 => suspend_count[x] # 1
<1>1. /\ IsFiniteSet(Holders(x)) /\ Cardinality(Holders(x)) \in Nat /\ suspend_count[x] \in Nat
      /\ Held(x) = Cardinality(Holders(x)) + (IF user_stop_count[x] > 0 THEN 1 ELSE 0)
      /\ user_stop_count[x] \in Nat
  BY HeldType
<1>2. t \in Holders(x)
  BY DEF Holders
<1>3. Holders(x) # {} /\ Cardinality(Holders(x)) # 0
  BY <1>1, <1>2, FS_EmptySet
<1>4. /\ Cardinality(Holders(x)) >= 1 /\ suspend_count[x] >= Held(x)
      /\ "SUSP" \in state[x] <=> suspend_count[x] > 0
  BY <1>1, <1>3 DEF CountAt
<1>5. ASSUME NEW u \in Threads \ {t}, Holds(u, x) PROVE Cardinality(Holders(x)) # 1
  <2>1. u \in Holders(x) /\ u # t
    BY <1>5 DEF Holders
  <2>2. IsFiniteSet(Holders(x) \ {t}) /\ Cardinality(Holders(x) \ {t}) = Cardinality(Holders(x)) - 1
    BY <1>1, <1>2, FS_RemoveElement
  <2>3. Holders(x) \ {t} # {}
    BY <2>1
  <2>4. Cardinality(Holders(x) \ {t}) # 0
    BY <2>2, <2>3, FS_EmptySet
  <2> QED
    BY <1>1, <2>2, <2>4
<1> QED
  BY <1>1, <1>4, <1>5

\* The counts are right when nobody comes to hold x, when t does, when t gives x
\* up, and when the user's stop of x is made or taken back.
LEMMA CountKept ==
    ASSUME OtherTypes, OtherTypes', NEW x \in Threads, CountAt(x),
           "SUSP" \in state'[x] <=> "SUSP" \in state[x],
           suspend_count'[x] = suspend_count[x], user_stop_count'[x] = user_stop_count[x],
           \A u \in Threads : Holds(u, x)' => Holds(u, x)
    PROVE  CountAt(x)'
<1>1. Holders(x)' \subseteq Holders(x)
  BY DEF Holders
<1>2. Cardinality(Holders(x)') <= Cardinality(Holders(x))
  BY <1>1, HeldType, FS_Subset
<1>3. Cardinality(Holders(x)') \in Nat /\ Cardinality(Holders(x)) \in Nat
  BY HeldType, <1>1, FS_Subset, FS_CardinalityType
<1> QED
  BY <1>2, <1>3, HeldType DEF CountAt, Held

LEMMA CountHold ==
    ASSUME OtherTypes, OtherTypes', NEW x \in Threads, NEW t \in Threads, CountAt(x),
           "SUSP" \in state'[x],
           suspend_count'[x] = suspend_count[x] + 1, user_stop_count'[x] = user_stop_count[x],
           \A u \in Threads \ {t} : Holds(u, x)' => Holds(u, x)
    PROVE  CountAt(x)'
<1>1. /\ IsFiniteSet(Holders(x)) /\ Cardinality(Holders(x)) \in Nat /\ suspend_count[x] \in Nat
      /\ Held(x) = Cardinality(Holders(x)) + (IF user_stop_count[x] > 0 THEN 1 ELSE 0)
  BY HeldType
<1>2. Holders(x)' \subseteq Holders(x) \cup {t}
  BY DEF Holders
<1>3. /\ IsFiniteSet(Holders(x) \cup {t})
      /\ Cardinality(Holders(x) \cup {t}) \in {Cardinality(Holders(x)), Cardinality(Holders(x)) + 1}
  BY <1>1, FS_AddElement
<1>4. /\ Cardinality(Holders(x)') <= Cardinality(Holders(x) \cup {t})
      /\ IsFiniteSet(Holders(x)')
  BY <1>2, <1>3, FS_Subset
<1>5. Cardinality(Holders(x)') \in Nat
  BY <1>4, FS_CardinalityType
<1> QED
  BY <1>1, <1>3, <1>4, <1>5 DEF CountAt, Held

LEMMA CountRelease ==
    ASSUME OtherTypes, OtherTypes', NEW x \in Threads, NEW t \in Threads, CountAt(x),
           Holds(t, x), "SUSP" \in state'[x] <=> suspend_count[x] # 1,
           suspend_count'[x] = suspend_count[x] - 1, user_stop_count'[x] = user_stop_count[x],
           \A u \in Threads : Holds(u, x)' => u # t /\ Holds(u, x)
    PROVE  CountAt(x)'
<1>1. /\ IsFiniteSet(Holders(x)) /\ Cardinality(Holders(x)) \in Nat /\ suspend_count[x] \in Nat
      /\ Held(x) = Cardinality(Holders(x)) + (IF user_stop_count[x] > 0 THEN 1 ELSE 0)
  BY HeldType
<1>2. t \in Holders(x) /\ Holders(x)' \subseteq Holders(x) \ {t}
  BY DEF Holders
<1>3. /\ IsFiniteSet(Holders(x) \ {t})
      /\ Cardinality(Holders(x) \ {t}) = Cardinality(Holders(x)) - 1
  BY <1>1, <1>2, FS_RemoveElement
<1>4. /\ Cardinality(Holders(x)') <= Cardinality(Holders(x) \ {t})
      /\ IsFiniteSet(Holders(x)')
  BY <1>2, <1>3, FS_Subset
<1>5. Cardinality(Holders(x)') \in Nat
  BY <1>4, FS_CardinalityType
<1>6. suspend_count[x] # 0
  BY HoldersCounted
<1> QED
  BY <1>1, <1>3, <1>4, <1>5, <1>6 DEF CountAt, Held

LEMMA CountStops ==
    ASSUME OtherTypes, OtherTypes', NEW x \in Threads, CountAt(x),
           \A u \in Threads : Holds(u, x)' => Holds(u, x),
           \/ /\ user_stop_count[x] = 0 /\ suspend_count'[x] = suspend_count[x] + 1
              /\ "SUSP" \in state'[x]
           \/ /\ user_stop_count[x] = 1 /\ user_stop_count'[x] = 0
              /\ suspend_count'[x] = suspend_count[x] - 1
              /\ "SUSP" \in state'[x] <=> suspend_count[x] # 1
           \/ /\ user_stop_count[x] > 0 /\ suspend_count'[x] = suspend_count[x]
              /\ "SUSP" \in state'[x] <=> "SUSP" \in state[x]
    PROVE  CountAt(x)'
<1>1. Holders(x)' \subseteq Holders(x)
  BY DEF Holders
<1>2. Cardinality(Holders(x)') <= Cardinality(Holders(x))
  BY <1>1, HeldType, FS_Subset
<1>3. Cardinality(Holders(x)') \in Nat /\ Cardinality(Holders(x)) \in Nat
  BY HeldType, <1>1, FS_Subset, FS_CardinalityType
<1>4. /\ suspend_count[x] \in Nat /\ user_stop_count[x] \in Nat
      /\ suspend_count'[x] \in Nat /\ user_stop_count'[x] \in Nat
  BY ValuesAssumption DEF OtherTypes
<1> QED
  BY <1>2, <1>3, <1>4 DEF CountAt, Held

-----------------------------------------------------------------------------
(* The invariant, when an interrupt or the thread t makes a step.          *)

LEMMA NowFields ==
    /\ Now.state = state /\ Now.place = place /\ Now.wait_event = wait_event
    /\ Now.wait_result = wait_result /\ Now.timer = timer /\ Now.timed = timed
BY DEF Now

LEMMA QuietStep ==
    ASSUME Inv, NEW s, Sound(s), Commit(s),
           \A x \in Threads : /\ Calm(Now, s, x) /\ Still(Now, s, x)
                              /\ "SUSP" \in s.state[x] <=> "SUSP" \in state[x],
           UNCHANGED <<counts, call, swap_func, panicked>>, fired' \in Threads \cup {Null}
    PROVE  Inv'
<1>1. Sound(Now)'
  BY CommitSound
<1>2. OtherTypes'
  BY DEF Inv, OtherTypes, counts, call
<1>3. OneCpu'
  BY OneCpuKept, NowFields DEF Inv, Calm
<1>4. panicked' = FALSE
  BY DEF Inv
<1>5. ASSUME NEW u \in Threads
      PROVE  CallAt(u)' /\ CpuAt(u)' /\ CountAt(u)' /\ HaltAt(u)' /\ StopAt(u)'
  <2>1. /\ CallAt(u) /\ CpuAt(u) /\ CountAt(u) /\ HaltAt(u) /\ StopAt(u)
        /\ OtherTypes /\ \A x \in Threads : SameCall(x)
    BY DEF Inv, call, SameCall
  <2>2. CallAt(u)' /\ CpuAt(u)'
    BY <2>1, CallKept, CpuKept DEF SameCall
  <2>3. CountAt(u)'
    BY <1>2, <2>1, CountKept DEF Commit, counts, SameCall, Holds
  <2>4. target[u] \in Threads => StopAt(u)'
    BY <2>1, StopKept
  <2>5. target[u] \notin Threads => StopAt(u)'
    BY <2>1 DEF CallAt, StopAt, SameCall, Idle
  <2>6. \A x \in Threads : "HALTED" \in state'[x] => "HALTED" \in state[x]
    BY NowFields DEF Calm, Commit
  <2>7. pc[u] = "halt_again" => target[u] \in Threads
    BY <2>1 DEF CallAt, Idle
  <2>8. HaltAt(u)'
    BY <2>1, <2>6, <2>7 DEF HaltAt, Halts, counts, SameCall
  <2> QED
    BY <2>2, <2>3, <2>4, <2>5, <2>8
<1> QED
  BY <1>1, <1>2, <1>3, <1>4, <1>5 DEF Inv

\* While t acts nobody else is in the middle of a halt: on one processor nobody
\* else acts, and on several there are no halts.
LEMMA Alone ==
    ASSUME Inv, CallsOK, NEW t \in Threads, place[t] = "cpu", NEW u \in Threads \ {t}
    PROVE  /\ pc[u] \notin {"halt", "halt_sleep", "halt_again", "halt_fail", "halt_stopped",
                            "halted", "release", "halt_self"}
           /\ ~Multiprocessor => pc[u] \in Left
<1>1. /\ CallAt(u) /\ CpuAt(u) /\ HaltAt(u) /\ OneCpu /\ OtherTypes
  BY DEF Inv
<1>2. CASE ~Multiprocessor
  BY <1>1, <1>2 DEF OneCpu, CpuAt, Left
<1>3. CASE Multiprocessor
  <2>1. \A x \in Threads : op[x] \notin {"abort", "terminate"}
    BY <1>1, <1>3 DEF CallsOK, OtherTypes
  <2>2. u \notin ast_halt
    BY <1>1, <2>1 DEF HaltAt, Halts
  <2> QED
    BY <1>1, <1>3, <2>1, <2>2 DEF CallAt, HaltAt, Halting
<1> QED
  BY <1>2, <1>3

\* t is the only one that changes who is to halt, or halts.
LEMMA HaltMoves ==
    ASSUME Inv, CallsOK, NEW t \in Threads, place[t] = "cpu", NEW s, Commit(s),
           \A u \in Threads \ {t} : SameCall(u),
           \A x \in ast_halt' :
              "HALTED" \notin s.state[x] /\ (Halts(t, x)' \/ (x \in ast_halt /\ ~Halts(t, x))),
           ast_halt' \subseteq Threads,
           pc'[t] = "halt_self" => t \in ast_halt',
           pc'[t] = "halt_again" => "HALTED" \notin s.state[target'[t]]
    PROVE  \A x \in Threads : HaltAt(x)'
<1> SUFFICES ASSUME NEW x \in Threads PROVE HaltAt(x)'
  OBVIOUS
<1>1. HaltAt(x) /\ state' = s.state
  BY DEF Inv, Commit
<1>2. ASSUME x \in ast_halt', ~Halts(t, x)' PROVE \E u \in Threads : Halts(u, x)'
  <2>1. PICK u \in Threads : Halts(u, x)
    BY <1>1, <1>2 DEF HaltAt
  <2>2. u # t
    BY <1>2, <2>1
  <2> QED
    BY <2>1, <2>2 DEF Halts, SameCall
<1>3. x # t => pc'[x] \notin {"halt_self", "halt_again"}
  BY Alone DEF SameCall
<1> QED
  BY <1>1, <1>2, <1>3 DEF HaltAt

LEMMA HaltStep ==
    ASSUME Inv, CallsOK, NEW t \in Threads, place[t] = "cpu", NEW s, Commit(s),
           \A x \in Threads : "HALTED" \in s.state[x] => "HALTED" \in state[x],
           \A u \in Threads \ {t} : SameCall(u),
           \A x \in ast_halt' : x \in ast_halt /\ (Halts(t, x) => Halts(t, x)'),
           pc'[t] = "halt_self" => t \in ast_halt',
           pc'[t] = "halt_again" => "HALTED" \notin s.state[target'[t]]
    PROVE  \A x \in Threads : HaltAt(x)'
<1>1. ast_halt' \subseteq Threads /\ \A x \in Threads : HaltAt(x)
  BY DEF Inv, OtherTypes
<1>2. \A x \in ast_halt' : "HALTED" \notin s.state[x]
  BY <1>1 DEF HaltAt
<1> QED
  BY <1>1, <1>2, HaltMoves

LEMMA StopStep ==
    ASSUME Inv, CallsOK, NEW t \in Threads, place[t] = "cpu", NEW s, Commit(s),
           \A u \in Threads \ {t} : SameCall(u), StopAt(t)',
           \A u \in Threads \ {t} : pc[u] = "got" => Still(Now, s, target[u])
    PROVE  \A u \in Threads : StopAt(u)'
<1> SUFFICES ASSUME NEW u \in Threads \ {t} PROVE StopAt(u)'
  OBVIOUS
<1>1. StopAt(u) /\ SameCall(u)
  BY DEF Inv
<1>2. CASE pc[u] = "got"
  BY <1>1, <1>2, StopKept
<1>3. CASE pc[u] # "got"
  BY <1>1, <1>3, Alone DEF StopAt, SameCall
<1> QED
  BY <1>2, <1>3

LEMMA CountStep ==
    ASSUME Inv, OtherTypes', NEW t \in Threads, NEW s, Commit(s),
           \A u \in Threads \ {t} : SameCall(u),
           \A y \in Threads : /\ Holds(t, y)' => Holds(t, y)
                              /\ "SUSP" \in s.state[y] <=> "SUSP" \in state[y],
           UNCHANGED <<suspend_count, user_stop_count>>
    PROVE  \A y \in Threads : CountAt(y)'
<1> SUFFICES ASSUME NEW y \in Threads PROVE CountAt(y)'
  OBVIOUS
<1>1. CountAt(y) /\ OtherTypes /\ ("SUSP" \in state'[y] <=> "SUSP" \in state[y])
  BY DEF Inv, Commit
<1>2. \A u \in Threads : Holds(u, y)' => Holds(u, y)
  BY DEF SameCall, Holds
<1> QED
  BY <1>1, <1>2, CountKept

LEMMA ActStep ==
    ASSUME Inv, CallsOK, NEW t \in Threads, place[t] = "cpu",
           NEW s, Sound(s), Commit(s),
           \A u \in Threads \ {t} : (Calm(Now, s, u) \/ Aside(Now, s, u)) /\ SameCall(u),
           \A u \in Threads \ {t} : pc[u] = "got" => Still(Now, s, target[u]),
           OtherTypes', panicked' = FALSE, CallAt(t)', CpuAt(t)', StopAt(t)',
           \A x \in Threads : CountAt(x)' /\ HaltAt(x)'
    PROVE  Inv'
<1>1. Sound(Now)'
  BY CommitSound
<1>2. OneCpu'
  BY OneCpuKept, NowFields DEF Inv, Calm, Aside
<1>3. \A u \in Threads : StopAt(u)'
  BY StopStep
<1>4. ASSUME NEW u \in Threads \ {t} PROVE CallAt(u)' /\ CpuAt(u)'
  <2>1. /\ CallAt(u) /\ CpuAt(u) /\ SameCall(u)
        /\ Calm(Now, s, u) \/ Aside(Now, s, u)
    BY DEF Inv
  <2> QED
    BY <2>1, CallKept, CpuKept DEF SameCall
<1> QED
  BY <1>1, <1>2, <1>3, <1>4 DEF Inv

LEMMA GotStill ==
    ASSUME Inv, NEW s, \A x \in Threads : Still(Now, s, x)
    PROVE  \A u \in Threads : pc[u] = "got" => Still(Now, s, target[u])
BY DEF Inv, CallAt, Idle

\* A thread that executes, other than between assert_wait and thread_block.
LEMMA Acting ==
    ASSUME Inv, NEW t \in Threads, Runs(t), pc[t] \notin Asserted \cup {"halt_self_block"}
    PROVE  /\ place[t] = "cpu" /\ Sound(Now) /\ OtherTypes /\ CallAt(t)
           /\ "RUN" \in state[t] /\ "WAIT" \notin state[t]
           /\ "UNINT" \notin state[t] /\ "HALTED" \notin state[t]
<1>1. Sound(Now) /\ Placed(Now, t) /\ OtherTypes /\ CallAt(t) /\ CpuAt(t)
  BY DEF Inv, Sound
<1> QED
  BY <1>1, NowFields DEF Runs, Placed, CpuAt

LEMMA CpuCalm ==
    ASSUME Inv, NEW t \in Threads, Runs(t), pc[t] \notin Asserted \cup {"halt_self_block"},
           NEW s, Commit(s), Calm(Now, s, t)
    PROVE  CpuAt(t)'
BY Acting, NowFields DEF CpuAt, Calm, Commit

\* t has asserted a wait.
LEMMA CpuAsserted ==
    ASSUME NEW t \in Threads, NEW s, Commit(s), s.place[t] = "cpu", "HALTED" \notin s.state[t],
           pc'[t] \in Asserted
    PROVE  CpuAt(t)'
BY DEF CpuAt, Commit

\* Goto, Begin and Return change the call of t only.
LEMMA GotoCall ==
    ASSUME OtherTypes, NEW t \in Threads, NEW l \in Labels, Goto(t, l)
    PROVE  /\ \A u \in Threads \ {t} : SameCall(u)
           /\ pc'[t] = l /\ op'[t] = op[t] /\ target'[t] = target[t]
           /\ pc' \in [Threads -> Labels] /\ target' \in [Threads -> Threads \cup {Null}]
           /\ op' \in [Threads -> Ops \cup {"none"}]
BY DEF OtherTypes, Goto, SameCall

LEMMA BeginCall ==
    ASSUME OtherTypes, NEW t \in Threads, NEW l \in Labels, NEW x \in Threads \cup {Null},
           NEW o \in Ops \cup {"none"}, Begin(t, l, x, o)
    PROVE  /\ \A u \in Threads \ {t} : SameCall(u)
           /\ pc'[t] = l /\ op'[t] = o /\ target'[t] = x
           /\ pc' \in [Threads -> Labels] /\ target' \in [Threads -> Threads \cup {Null}]
           /\ op' \in [Threads -> Ops \cup {"none"}]
BY DEF OtherTypes, Begin, SameCall

LEMMA ReturnCall ==
    ASSUME OtherTypes, NEW t \in Threads, Return(t)
    PROVE  /\ \A u \in Threads \ {t} : SameCall(u)
           /\ pc'[t] = "run" /\ op'[t] = "none" /\ target'[t] = Null
           /\ pc' \in [Threads -> Labels] /\ target' \in [Threads -> Threads \cup {Null}]
           /\ op' \in [Threads -> Ops \cup {"none"}]
BY BeginCall DEF Return, Labels

-----------------------------------------------------------------------------
(* Interrupts, processors and run queues.                                  *)

LEMMA WakeupInv ==
    ASSUME Inv, NEW e \in Events, Wakeup(e)
    PROVE  Inv'
<1> DEFINE s == thread_wakeup(Now, e, "awakened")
<1>1. Sound(Now) /\ e # Null /\ fired \in Threads \cup {Null}
  BY ValuesAssumption DEF Inv, OtherTypes
<1>2. Sound(s) /\ Wakes(Now, s)
  BY <1>1, WakeupSound DEF Results
<1>3. Commit(s) /\ UNCHANGED <<fired, counts, call, swap_func, panicked>>
  BY DEF Wakeup
<1> HIDE DEF s
<1>4. \A x \in Threads : /\ Calm(Now, s, x) /\ Still(Now, s, x)
                         /\ "SUSP" \in s.state[x] <=> "SUSP" \in state[x]
  BY <1>1, <1>2, WakesCalm, NowFields
<1> QED
  BY <1>1, <1>2, <1>3, <1>4, QuietStep

LEMMA GoInv ==
    ASSUME Inv, NEW x \in Threads, thread_go(x)
    PROVE  Inv'
<1> DEFINE s == EndWait(Now, {x}, "awakened")
<1>1. Sound(Now) /\ fired \in Threads \cup {Null}
  BY DEF Inv, OtherTypes
<1>2. Sound(s) /\ Wakes(Now, s)
  BY <1>1, EndWaitSound DEF Results
<1>3. Commit(s) /\ UNCHANGED <<fired, counts, call, swap_func, panicked>>
  BY DEF thread_go
<1> HIDE DEF s
<1>4. \A y \in Threads : /\ Calm(Now, s, y) /\ Still(Now, s, y)
                         /\ "SUSP" \in s.state[y] <=> "SUSP" \in state[y]
  BY <1>1, <1>2, WakesCalm, NowFields
<1> QED
  BY <1>1, <1>2, <1>3, <1>4, QuietStep

LEMMA TimeoutInv ==
    ASSUME Inv, NEW x \in Threads, thread_timeout(x)
    PROVE  Inv'
<1> DEFINE s == clear_wait(Now, x, "timed_out", FALSE)
<1>1. Sound(Now)
  BY DEF Inv
<1>2. Sound(s) /\ Wakes(Now, s)
  BY <1>1, ClearWaitSound DEF Results
<1>3. /\ Commit(s) /\ UNCHANGED <<counts, call, swap_func, panicked>>
      /\ fired' \in Threads \cup {Null}
  BY DEF thread_timeout
<1> HIDE DEF s
<1>4. \A y \in Threads : /\ Calm(Now, s, y) /\ Still(Now, s, y)
                         /\ "SUSP" \in s.state[y] <=> "SUSP" \in state[y]
  BY <1>1, <1>2, WakesCalm, NowFields
<1> QED
  BY <1>1, <1>2, <1>3, <1>4, QuietStep

LEMMA SoftclockInv ==
    ASSUME Inv, NEW x \in Threads, softclock(x)
    PROVE  Inv'
<1> DEFINE s == [Now EXCEPT !.timer = @ \ {x}]
<1>1. Now \in Scheduling /\ \A y \in Threads : Placed(Now, y)
  BY DEF Inv, Sound
<1>2. /\ s \in Scheduling /\ s.state = state /\ s.place = place /\ s.timer = timer \ {x}
      /\ s.wait_event = wait_event /\ s.wait_result = wait_result /\ s.timed = timed
  BY <1>1 DEF Scheduling, Now
<1>3. /\ Commit(s) /\ UNCHANGED <<counts, call, swap_func, panicked>>
      /\ fired' \in Threads \cup {Null}
  BY <1>2 DEF softclock, Commit
<1> HIDE DEF s
<1>4. Sound(s)
  BY <1>1, <1>2, NowFields DEF Sound, Placed
<1>5. \A y \in Threads : /\ Calm(Now, s, y) /\ Still(Now, s, y)
                         /\ "SUSP" \in s.state[y] <=> "SUSP" \in state[y]
  BY <1>2, NowFields DEF Calm, Still
<1> QED
  BY <1>3, <1>4, <1>5, QuietStep

LEMMA SelectInv ==
    ASSUME Inv, NEW t \in Threads, thread_select(t)
    PROVE  Inv'
<1> DEFINE s == [Now EXCEPT !.place[t] = "chosen"]
<1>1. Now \in Scheduling /\ (\A y \in Threads : Placed(Now, y)) /\ fired \in Threads \cup {Null}
  BY DEF Inv, Sound, OtherTypes
<1>2. /\ s \in Scheduling /\ s.state = state /\ s.place = [place EXCEPT ![t] = "chosen"]
      /\ s.wait_event = wait_event /\ s.wait_result = wait_result
      /\ s.timer = timer /\ s.timed = timed /\ place \in [Threads -> Places]
  BY <1>1 DEF Scheduling, Now, Places
<1>3. /\ Commit(s) /\ UNCHANGED <<fired, counts, call, swap_func, panicked>> /\ place[t] = "runq"
  BY <1>2 DEF thread_select, Commit, wait
<1> HIDE DEF s
<1>4. Sound(s)
  <2> SUFFICES ASSUME NEW y \in Threads PROVE Placed(s, y)
    BY <1>2 DEF Sound
  <2>1. Placed(Now, y)
    BY <1>1
  <2> QED
    BY <1>2, <1>3, <2>1, NowFields DEF Placed
<1>5. \A y \in Threads : /\ Calm(Now, s, y) /\ Still(Now, s, y)
                         /\ "SUSP" \in s.state[y] <=> "SUSP" \in state[y]
  BY <1>2, <1>3, NowFields DEF Calm, Still
<1> QED
  BY <1>1, <1>3, <1>4, <1>5, QuietStep

LEMMA SwapinInv ==
    ASSUME Inv, NEW t \in Threads, thread_doswapin(t)
    PROVE  Inv'
<1> DEFINE s == Requeued(Now, t)
<1>1. /\ Sound(Now) /\ Placed(Now, t) /\ fired \in Threads \cup {Null}
      /\ place[t] = "chosen"
  BY DEF Inv, Sound, OtherTypes, thread_doswapin
<1>2. "RUN" \in state[t] /\ "WAIT" \notin state[t]
  BY <1>1, NowFields DEF Placed
<1>3. /\ Sound(s) /\ \A u \in Threads \ {t} : Same(Now, s, u)
      /\ s.place[t] = "runq" /\ s.state = state
  BY <1>1, <1>2, RequeuedSound, NowFields
<1>4. Commit(s) /\ UNCHANGED <<fired, counts, call, swap_func, panicked>>
  BY <1>2 DEF thread_doswapin, Requeued
<1> HIDE DEF s
<1>5. \A y \in Threads : /\ Calm(Now, s, y) /\ Still(Now, s, y)
                         /\ "SUSP" \in s.state[y] <=> "SUSP" \in state[y]
  BY <1>1, <1>3, NowFields DEF Calm, Still, Same
<1> QED
  BY <1>1, <1>3, <1>4, <1>5, QuietStep

LEMMA InvokeInv ==
    ASSUME Inv, NEW t \in Threads, thread_invoke(t)
    PROVE  Inv'
<1> DEFINE s == [Now EXCEPT !.place[t] = "cpu", !.state[t] = @ \ {"UNINT"}]
<1>1. /\ Now \in Scheduling /\ \A y \in Threads : Placed(Now, y)
      /\ OtherTypes /\ OneCpu /\ panicked = FALSE
      /\ place[t] = "chosen"
  BY DEF Inv, Sound, thread_invoke
<1>2. /\ s \in Scheduling /\ s.state = [state EXCEPT ![t] = @ \ {"UNINT"}]
      /\ s.place = [place EXCEPT ![t] = "cpu"]
      /\ s.wait_event = wait_event /\ s.wait_result = wait_result
      /\ s.timer = timer /\ s.timed = timed
      /\ place \in [Threads -> Places] /\ state \in [Threads -> SUBSET Bits]
  BY <1>1 DEF Scheduling, Now, Places
<1>3. Commit(s) /\ UNCHANGED <<fired, counts, call, swap_func, panicked>>
  BY <1>2 DEF thread_invoke, Commit, wait
<1>4. /\ \A u \in Threads \ {t} : Same(Now, s, u)
      /\ s.place[t] = "cpu" /\ "UNINT" \notin s.state[t]
      /\ \A b \in {"RUN", "WAIT", "SUSP", "HALTED"} : b \in s.state[t] <=> b \in state[t]
  BY <1>2, NowFields DEF Same
<1> HIDE DEF s
<1>5. /\ "WAIT" \notin state[t] /\ "RUN" \in state[t]
      /\ "HALTED" \notin state[t] \/ pc[t] = "halt_self_block"
  BY <1>1, NowFields DEF Placed, Inv, CpuAt
<1>6. Sound(s)
  <2> SUFFICES ASSUME NEW y \in Threads PROVE Placed(s, y)
    BY <1>2 DEF Sound
  <2>1. Placed(Now, y)
    BY <1>1
  <2>2. CASE y = t
    BY <1>2, <1>4, <1>5, <2>1, <2>2, NowFields DEF Placed
  <2>3. CASE y # t
    BY <1>2, <1>4, <2>1, <2>3, NowFields DEF Placed, Same
  <2> QED
    BY <2>2, <2>3
<1>7. Sound(Now)'
  BY <1>3, <1>6, CommitSound
<1>8. OtherTypes' /\ panicked' = FALSE
  BY <1>1, <1>3 DEF OtherTypes, counts, call
<1>9. OneCpu'
  <2>1. ~Multiprocessor => \A u \in Threads : place[u] # "cpu"
    BY DEF thread_invoke
  <2> QED
    BY <1>2, <1>3, <2>1 DEF OneCpu, Commit
<1>10. \A u \in Threads : SameCall(u)
  BY <1>3 DEF call, SameCall
<1>11. \A x \in Threads : /\ Still(Now, s, x)
                          /\ \A b \in {"SUSP", "HALTED"} : b \in s.state[x] <=> b \in state[x]
  BY <1>4, <1>5, NowFields DEF Still, Same
<1>12. ASSUME NEW u \in Threads
       PROVE  CallAt(u)' /\ CpuAt(u)' /\ CountAt(u)' /\ HaltAt(u)' /\ StopAt(u)'
  <2>1. CallAt(u) /\ CpuAt(u) /\ CountAt(u) /\ HaltAt(u) /\ StopAt(u)
    BY DEF Inv
  <2>2. CallAt(u)'
    BY <1>10, <2>1, CallKept
  <2>3. CpuAt(u)'
    <3>1. CASE u = t
      BY <1>3, <1>4, <1>5, <1>10, <3>1 DEF CpuAt, Commit, SameCall
    <3>2. CASE u # t
      BY <1>3, <1>4, <1>10, <2>1, <3>2, SameCalm, CpuKept DEF SameCall
    <3> QED
      BY <3>1, <3>2
  <2>4. CountAt(u)'
    BY <1>1, <1>3, <1>8, <1>10, <1>11, <2>1, CountKept DEF Commit, counts, SameCall, Holds
  <2>5. pc[u] \in {"got", "halt_stopped", "halted", "halt_again"} => target[u] \in Threads
    BY <2>1 DEF CallAt, Idle
  <2>6. StopAt(u)'
    BY <1>3, <1>10, <1>11, <2>1, <2>5, StopKept DEF StopAt, SameCall
  <2>7. HaltAt(u)'
    BY <1>3, <1>10, <1>11, <2>1, <2>5 DEF HaltAt, Halts, counts, SameCall, Commit
  <2> QED
    BY <2>2, <2>3, <2>4, <2>6, <2>7
<1> QED
  BY <1>7, <1>8, <1>9, <1>12 DEF Inv

\* The cases of thread_dispatch are all there are.
LEMMA DispatchCases ==
    ASSUME NEW st \in SUBSET Bits, "RUN" \in st,
           "HALTED" \in st => "SUSP" \in st /\ "WAIT" \notin st /\ "UNINT" \notin st
    PROVE  /\ Suspends(st) => "SUSP" \in st
           /\ Requeues(st) => "WAIT" \notin st /\ "HALTED" \notin st
           /\ Blocks(st) => "WAIT" \in st /\ ("SUSP" \in st => "UNINT" \in st)
           /\ Suspends(st) \/ Requeues(st) \/ Blocks(st)
<1>1. /\ Suspends(st) => "SUSP" \in st
      /\ Requeues(st) => "WAIT" \notin st /\ "HALTED" \notin st
      /\ Blocks(st) => "WAIT" \in st /\ ("SUSP" \in st => "UNINT" \in st)
  BY DEF Suspends, Requeues, Blocks
<1>2. ASSUME "SUSP" \in st, "UNINT" \notin st PROVE Suspends(st)
  BY <1>2 DEF Suspends, Bits, Sched
<1>3. ASSUME "SUSP" \notin st \/ "UNINT" \in st, "WAIT" \notin st PROVE Requeues(st)
  BY <1>3 DEF Requeues, Bits, Sched
<1>4. ASSUME "SUSP" \notin st \/ "UNINT" \in st, "WAIT" \in st PROVE Blocks(st)
  BY <1>4 DEF Blocks, Bits, Sched
<1> QED
  BY <1>1, <1>2, <1>3, <1>4

\* thread_dispatch takes t, and only t, from its processor.
Dispatched(s, t) ==
    /\ Sound(s) /\ s.place[t] # "cpu" /\ ("RUN" \in s.state[t] => "HALTED" \notin s.state[t])
    /\ \A u \in Threads \ {t} : Calm(Now, s, u)
    /\ \A x \in Threads : /\ Still(Now, s, x)
                          /\ \A b \in {"SUSP", "HALTED"} : b \in s.state[x] <=> b \in state[x]

LEMMA OffDispatched ==
    ASSUME Inv, NEW t \in Threads, place[t] = "cpu", Suspends(state[t]) \/ Blocks(state[t])
    PROVE  Dispatched(Off(Now, t), t)
<1>1. /\ Sound(Now) /\ Placed(Now, t) /\ state[t] \in SUBSET Bits
  BY NowFields DEF Inv, Sound, Scheduling
<1>2. "RUN" \in state[t] /\ ("SUSP" \in state[t] \/ "WAIT" \in state[t])
  BY <1>1, NowFields, DispatchCases DEF Placed
<1> DEFINE s == Off(Now, t)
<1>3. /\ Sound(s) /\ \A u \in Threads \ {t} : Same(Now, s, u)
      /\ s.place[t] = "off" /\ "RUN" \notin s.state[t]
      /\ \A b \in {"SUSP", "WAIT", "UNINT", "HALTED"} : b \in s.state[t] <=> b \in state[t]
  BY <1>1, <1>2, OffSound, NowFields
<1> HIDE DEF s
<1>4. Dispatched(s, t)
  BY <1>2, <1>3, SameCalm, NowFields DEF Dispatched, Still, Same
<1> QED
  BY <1>4 DEF s

LEMMA DispatchSound ==
    ASSUME Inv, NEW t \in Threads, place[t] = "cpu", thread_dispatch(t)
    PROVE  /\ panicked' = FALSE /\ wake_active' \subseteq Threads
           /\ \E s : Commit(s) /\ Dispatched(s, t)
<1>1. /\ Sound(Now) /\ Placed(Now, t) /\ state[t] \in SUBSET Bits
      /\ panicked = FALSE /\ wake_active \subseteq Threads /\ t # Null
  BY NowFields, ValuesAssumption DEF Inv, Sound, Scheduling, OtherTypes
<1>2. /\ "RUN" \in state[t]
      /\ Suspends(state[t]) \/ Requeues(state[t]) \/ Blocks(state[t])
      /\ Requeues(state[t]) => "WAIT" \notin state[t] /\ "HALTED" \notin state[t]
  BY <1>1, NowFields, DispatchCases DEF Placed
<1> DEFINE off == [Now EXCEPT !.state[t] = @ \ {"RUN"}, !.place[t] = "off"]
           woken == thread_wakeup(off, t, "awakened")
<1>3. off = Off(Now, t)
  BY DEF Off
<1>4. ASSUME Suspends(state[t]), Commit(IF t \in wake_active THEN woken ELSE off)
      PROVE  \E s : Commit(s) /\ Dispatched(s, t)
  <2>1. Dispatched(off, t)
    BY <1>3, <1>4, OffDispatched
  <2>2. CASE t \in wake_active
    <3>1. Sound(woken) /\ Wakes(off, woken)
      BY <1>1, <2>1, WakeupSound DEF Dispatched, Results
    <3>0. "SUSP" \in Now.state[t]
      BY <1>4, NowFields DEF Suspends
    <3> HIDE DEF off, woken
    <3>2. off.place[t] = "off" /\ "RUN" \notin off.state[t]
      BY <1>1, <1>3, <3>0, OffSound
    <3>3. \A x \in Threads :
             /\ Calm(off, woken, x) /\ Still(off, woken, x)
             /\ \A b \in {"SUSP", "HALTED"} : b \in woken.state[x] <=> b \in off.state[x]
      BY <2>1, <3>1, WakesCalm DEF Wakes, Dispatched
    <3>4. woken.place[t] # "cpu"
      BY <3>2, <3>3 DEF Calm
    <3>5. "RUN" \in woken.state[t] => "HALTED" \notin woken.state[t]
      BY <3>2, <3>3 DEF Calm
    <3>6. Dispatched(woken, t)
      BY <2>1, <3>1, <3>3, <3>4, <3>5, NowFields DEF Dispatched, Calm, Still
    <3> QED
      BY <1>4, <2>2, <3>6
  <2>3. CASE t \notin wake_active
    BY <1>4, <2>1, <2>3
  <2> QED
    BY <2>2, <2>3
<1>5. ASSUME Requeues(state[t]), Commit(Requeued(Now, t))
      PROVE  \E s : Commit(s) /\ Dispatched(s, t)
  <2> DEFINE s == Requeued(Now, t)
  <2>1. /\ Sound(s) /\ \A u \in Threads \ {t} : Same(Now, s, u)
        /\ s.place[t] = "runq" /\ s.state = state
    BY <1>1, <1>2, <1>5, RequeuedSound, NowFields
  <2> HIDE DEF s
  <2>2. Dispatched(s, t)
    BY <1>2, <1>5, <2>1, SameCalm, NowFields DEF Dispatched, Still
  <2> QED
    BY <1>5, <2>2 DEF s
<1>6. ASSUME Blocks(state[t]), Commit(off)
      PROVE  \E s : Commit(s) /\ Dispatched(s, t)
  BY <1>3, <1>6, OffDispatched
<1>7. \/ Suspends(state[t]) /\ Commit(IF t \in wake_active THEN woken ELSE off)
      \/ Requeues(state[t]) /\ Commit(Requeued(Now, t))
      \/ Blocks(state[t]) /\ Commit(off)
  BY <1>2 DEF thread_dispatch, Requeued
<1>8. panicked' = FALSE /\ wake_active' \subseteq Threads
  BY <1>1, <1>2 DEF thread_dispatch
<1> QED
  BY <1>4, <1>5, <1>6, <1>7, <1>8

LEMMA BlockInv ==
    ASSUME Inv, NEW t \in Threads, thread_block(t)
    PROVE  Inv'
<1>1. /\ place[t] = "cpu" /\ OtherTypes /\ OneCpu /\ thread_dispatch(t)
      /\ pc[t] \in Asserted \cup {"run", "halt_self_block"}
      /\ pc' = [pc EXCEPT ![t] = AfterBlock(pc[t])]
      /\ UNCHANGED <<target, op, fired, suspend_count, user_stop_count, ast_halt, active>>
      /\ swap_func' \in [Threads -> {"return", "msg", "other"}]
  BY DEF thread_block, Runs, Goto, Inv, OtherTypes, Asserted
<1>2. /\ panicked' = FALSE /\ wake_active' \subseteq Threads
      /\ \E s : Commit(s) /\ Dispatched(s, t)
  BY <1>1, DispatchSound
<1>3. PICK s : Commit(s) /\ Dispatched(s, t)
  BY <1>2
<1>4. Sound(Now)'
  BY <1>3, CommitSound DEF Dispatched
<1>5. /\ \A u \in Threads \ {t} : SameCall(u)
      /\ op'[t] = op[t] /\ target'[t] = target[t] /\ pc'[t] = AfterBlock(pc[t])
      /\ pc'[t] \in Left
      /\ pc[t] = "dowait_sleep" => pc'[t] = "dowait_woken"
      /\ pc[t] = "halt_sleep" => pc'[t] = "halt_woken"
      /\ pc[t] \notin {"dowait_sleep", "halt_sleep"} => pc'[t] = "run"
  BY <1>1 DEF SameCall, AfterBlock, OtherTypes, Left
<1>6. OtherTypes'
  <2>1. pc' \in [Threads -> Labels]
    BY <1>1, <1>5 DEF OtherTypes, Left, Labels
  <2> QED
    BY <1>1, <1>2, <2>1 DEF OtherTypes
<1>7. OneCpu'
  BY <1>1, <1>3, OneCpuKept, NowFields DEF Dispatched, Calm
<1>8. ASSUME NEW u \in Threads
      PROVE  CallAt(u)' /\ CpuAt(u)' /\ CountAt(u)' /\ HaltAt(u)' /\ StopAt(u)'
  <2>1. /\ CallAt(u) /\ CpuAt(u) /\ CountAt(u) /\ HaltAt(u) /\ StopAt(u)
        /\ CallAt(t)
    BY DEF Inv
  <2>2. u # t => CallAt(u)' /\ CpuAt(u)'
    BY <1>3, <1>5, <2>1, CallKept, CpuKept DEF Dispatched, SameCall
  <2>3. CallAt(t)'
    BY <1>1, <1>5, <2>1 DEF CallAt, Idle, Asserted, Dowait, Halting
  <2>4. CpuAt(t)'
    BY <1>3, <1>5 DEF CpuAt, Dispatched, Commit
  <2>5. \A v, y \in Threads : Holds(v, y)' => Holds(v, y)
    BY <1>1, <1>5 DEF Holds, SameCall, Asserted
  <2>6. CountAt(u)'
    BY <1>1, <1>3, <1>6, <2>1, <2>5, CountKept DEF Dispatched, Commit
  <2>7. pc[u] \in {"got", "halt_stopped", "halted", "halt_again"} => target[u] \in Threads
    BY <2>1 DEF CallAt, Idle
  <2>8. StopAt(u)'
    BY <1>3, <1>5, <2>1, <2>7, StopKept DEF Dispatched, StopAt, SameCall, Left
  <2>9. \A v, y \in Threads : Halts(v, y) => Halts(v, y)'
    BY <1>1, <1>5 DEF Halts, SameCall, Asserted, Dowait, Left
  <2>10. HaltAt(u)'
    BY <1>1, <1>3, <1>5, <2>1, <2>7, <2>9 DEF HaltAt, Dispatched, SameCall, Commit, Left
  <2> QED
    BY <2>2, <2>3, <2>4, <2>6, <2>8, <2>10
<1> QED
  BY <1>2, <1>4, <1>6, <1>7, <1>8 DEF Inv

-----------------------------------------------------------------------------
(* Waiting.                                                                *)

LEMMA WaitForEventInv ==
    ASSUME Inv, CallsOK, NEW t \in Threads, WaitForEvent(t)
    PROVE  Inv'
<1>1. PICK e \in Events, i \in BOOLEAN : Commit(assert_wait(Now, t, e, i))
  BY DEF WaitForEvent
<1>2. /\ Runs(t) /\ pc[t] = "run" /\ Goto(t, "asserted")
      /\ UNCHANGED <<fired, counts, swap_func, panicked>>
  BY DEF WaitForEvent
<1>3. /\ place[t] = "cpu" /\ Sound(Now) /\ OtherTypes /\ CallAt(t) /\ "HALTED" \notin state[t]
  BY <1>2, Acting DEF Asserted
<1> DEFINE s == assert_wait(Now, t, e, i)
<1>4. /\ Sound(s) /\ \A u \in Threads \ {t} : Same(Now, s, u)
      /\ s.place[t] = "cpu"
      /\ \A b \in {"RUN", "SUSP", "HALTED"} : b \in s.state[t] <=> b \in state[t]
  BY <1>3, AssertWaitSound, NowFields
<1>5. Commit(s)
  BY <1>1
<1> HIDE DEF s
<1>6. /\ \A u \in Threads \ {t} : SameCall(u)
      /\ pc'[t] = "asserted" /\ op'[t] = op[t] /\ target'[t] = target[t]
      /\ OtherTypes'
  BY <1>2, <1>3, GotoCall DEF Labels, OtherTypes, counts
<1>7. \A x \in Threads : Still(Now, s, x)
  BY <1>3, <1>4, SameCalm, NowFields, Acting, <1>2 DEF Still, Asserted
<1>8. \A u \in Threads \ {t} : Calm(Now, s, u)
  BY <1>4, SameCalm
<1>9. \A x \in Threads : CountAt(x)'
  BY <1>2, <1>4, <1>5, <1>6, CountStep, NowFields DEF Holds, counts, Same
<1>10. \A x \in Threads : HaltAt(x)'
  BY <1>2, <1>3, <1>4, <1>5, <1>6, HaltStep, NowFields DEF Halts, Dowait, counts, Same
<1>11. CallAt(t)' /\ StopAt(t)' /\ CpuAt(t)' /\ panicked' = FALSE
  BY <1>2, <1>3, <1>4, <1>5, <1>6, CpuAsserted, NowFields
     DEF CallAt, StopAt, Idle, Asserted, Dowait, Halting, Inv
<1> QED
  BY <1>3, <1>4, <1>5, <1>6, <1>7, <1>8, <1>9, <1>10, <1>11, ActStep, GotStill

LEMMA WillWaitInv ==
    ASSUME Inv, CallsOK, NEW t \in Threads, thread_will_wait(t)
    PROVE  Inv'
<1> DEFINE s == [Now EXCEPT !.state[t] = @ \cup {"WAIT"}, !.timer = timer', !.timed = timed']
<1>1. /\ Runs(t) /\ pc[t] = "run" /\ Goto(t, "ipc_asserted")
      /\ state' = [state EXCEPT ![t] = @ \cup {"WAIT"}]
      /\ \/ UNCHANGED <<timer, timed>>
         \/ timer' = timer \cup {t} /\ timed' = timed \cup {t}
      /\ UNCHANGED <<wait_event, wait_result, fired, counts, swap_func, place, panicked>>
  BY DEF thread_will_wait
<1>2. /\ place[t] = "cpu" /\ Sound(Now) /\ OtherTypes /\ CallAt(t)
      /\ "HALTED" \notin state[t] /\ "RUN" \in state[t]
  BY <1>1, Acting DEF Asserted
<1>3. Now \in Scheduling /\ \A y \in Threads : Placed(Now, y)
  BY <1>2 DEF Sound
<1>4. /\ s \in Scheduling /\ s.state = state' /\ s.place = place
      /\ s.wait_event = wait_event /\ s.wait_result = wait_result
      /\ s.timer = timer' /\ s.timed = timed'
  BY <1>1, <1>3 DEF Scheduling, Now, Bits, Sched
<1>5. Commit(s)
  BY <1>1, <1>4 DEF Commit
<1>6. /\ "WAIT" \in s.state[t]
      /\ \A b \in {"RUN", "SUSP", "UNINT", "HALTED"} : b \in s.state[t] <=> b \in state[t]
      /\ \A u \in Threads \ {t} : Same(Now, s, u) /\ (u \in s.timer <=> u \in timer)
      /\ t \in s.timer => t \in timer \/ t \in s.timed
      /\ t \in timed => t \in s.timed
  BY <1>1, <1>3, <1>4, NowFields DEF Scheduling, Same
<1> HIDE DEF s
<1>7. Sound(s)
  <2> SUFFICES ASSUME NEW y \in Threads PROVE Placed(s, y)
    BY <1>4 DEF Sound
  <2>1. Placed(Now, y)
    BY <1>3
  <2>2. CASE y = t
    BY <1>2, <1>4, <1>6, <2>1, <2>2, NowFields DEF Placed
  <2>3. CASE y # t
    BY <1>6, <2>1, <2>3, NowFields DEF Placed, Same
  <2> QED
    BY <2>2, <2>3
<1>8. /\ \A u \in Threads \ {t} : SameCall(u)
      /\ pc'[t] = "ipc_asserted" /\ op'[t] = op[t] /\ target'[t] = target[t]
      /\ OtherTypes'
  BY <1>1, <1>2, GotoCall DEF Labels, OtherTypes, counts
<1>9. \A x \in Threads : Still(Now, s, x)
  BY <1>6, SameCalm, NowFields DEF Still
<1>10. \A u \in Threads \ {t} : Calm(Now, s, u)
  BY <1>6, SameCalm
<1>11. \A x \in Threads : CountAt(x)'
  BY <1>1, <1>5, <1>6, <1>8, CountStep, NowFields DEF Holds, counts, Same
<1>12. \A x \in Threads : HaltAt(x)'
  BY <1>1, <1>2, <1>5, <1>6, <1>8, HaltStep, NowFields DEF Halts, Dowait, counts, Same
<1>13. CallAt(t)' /\ StopAt(t)' /\ CpuAt(t)' /\ panicked' = FALSE
  BY <1>1, <1>2, <1>4, <1>5, <1>6, <1>8, CpuAsserted
     DEF CallAt, StopAt, Idle, Asserted, Dowait, Halting, Inv
<1> QED
  BY <1>2, <1>5, <1>7, <1>8, <1>9, <1>10, <1>11, <1>12, <1>13, ActStep, GotStill

LEMMA SetTimeoutInv ==
    ASSUME Inv, NEW t \in Threads, thread_set_timeout(t)
    PROVE  Inv'
<1> DEFINE s == [Now EXCEPT !.timer = @ \cup {t}, !.timed = @ \cup {t}]
<1>1. /\ Now \in Scheduling /\ (\A y \in Threads : Placed(Now, y))
      /\ fired \in Threads \cup {Null} /\ "WAIT" \in state[t]
  BY DEF Inv, Sound, OtherTypes, thread_set_timeout
<1>2. /\ s \in Scheduling /\ s.state = state /\ s.place = place
      /\ s.timer = timer \cup {t} /\ s.timed = timed \cup {t}
      /\ s.wait_event = wait_event /\ s.wait_result = wait_result
  BY <1>1 DEF Scheduling, Now
<1>3. Commit(s) /\ UNCHANGED <<counts, call, swap_func, panicked, fired>>
  BY <1>2 DEF thread_set_timeout, Commit
<1> HIDE DEF s
<1>4. Sound(s)
  BY <1>1, <1>2, NowFields DEF Sound, Placed
<1>5. \A y \in Threads : /\ Calm(Now, s, y) /\ Still(Now, s, y)
                         /\ "SUSP" \in s.state[y] <=> "SUSP" \in state[y]
  BY <1>2, NowFields DEF Calm, Still
<1> QED
  BY <1>1, <1>3, <1>4, <1>5, QuietStep

-----------------------------------------------------------------------------
(* Suspending.                                                             *)

LEMMA HoldCalm ==
    ASSUME Sound(Now), NEW x \in Threads, NEW s, s = Hold(Now, x) \/ s = Now
    PROVE  /\ Sound(s) /\ s.place = place
           /\ \A y \in Threads : Calm(Now, s, y) /\ Still(Now, s, y)
           /\ \A y \in Threads : "HALTED" \in s.state[y] <=> "HALTED" \in state[y]
           /\ \A y \in Threads \ {x} : "SUSP" \in s.state[y] <=> "SUSP" \in state[y]
           /\ s = Hold(Now, x) => "SUSP" \in s.state[x]
<1>1. CASE s = Now
  BY <1>1, HoldSound, NowFields DEF Calm, Still
<1>2. CASE s = Hold(Now, x)
  <2>1. /\ Sound(s) /\ \A u \in Threads \ {x} : Same(Now, s, u)
        /\ s.place = Now.place /\ "SUSP" \in s.state[x]
        /\ \A b \in {"RUN", "WAIT", "UNINT", "HALTED"} : b \in s.state[x] <=> b \in Now.state[x]
    BY <1>2, HoldSound
  <2>2. Calm(Now, s, x) /\ Still(Now, s, x)
    BY <2>1 DEF Calm, Still
  <2>3. \A u \in Threads \ {x} : Calm(Now, s, u) /\ Still(Now, s, u)
    BY <2>1, SameCalm
  <2> QED
    BY <2>1, <2>2, <2>3, NowFields DEF Same
<1> QED
  BY <1>1, <1>2

LEMMA ReleaseCalm ==
    ASSUME Sound(Now), NEW x \in Threads, NEW s, s = Release(Now, x)
    PROVE  /\ Sound(s)
           /\ \A y \in Threads : Calm(Now, s, y)
           /\ \A y \in Threads : "HALTED" \in s.state[y] => "HALTED" \in state[y]
           /\ \A y \in Threads \ {x} : /\ Still(Now, s, y)
                                       /\ "SUSP" \in s.state[y] <=> "SUSP" \in state[y]
           /\ suspend_count[x] = 1 => "SUSP" \notin s.state[x]
           /\ suspend_count[x] # 1 => /\ Still(Now, s, x)
                                      /\ "SUSP" \in s.state[x] <=> "SUSP" \in state[x]
<1>1. CASE suspend_count[x] # 1
  BY <1>1, NowFields DEF Release, Calm, Still
<1>2. CASE suspend_count[x] = 1
  <2>1. /\ Sound(s) /\ \A u \in Threads \ {x} : Same(Now, s, u)
        /\ s.place[x] = "cpu" <=> Now.place[x] = "cpu"
        /\ "SUSP" \notin s.state[x] /\ "HALTED" \notin s.state[x]
        /\ \A b \in {"WAIT", "UNINT"} : b \in s.state[x] <=> b \in Now.state[x]
    BY <1>2, UnsuspendSound DEF Release
  <2>2. Calm(Now, s, x)
    BY <2>1 DEF Calm
  <2>3. \A u \in Threads \ {x} : Calm(Now, s, u) /\ Still(Now, s, u)
    BY <2>1, SameCalm
  <2> QED
    BY <1>2, <2>1, <2>2, <2>3, NowFields DEF Same
<1> QED
  BY <1>1, <1>2

LEMMA SuspendInv ==
    ASSUME Inv, CallsOK, NEW t \in Threads, NEW x \in Threads, thread_suspend(t, x)
    PROVE  Inv'
<1> DEFINE hold == user_stop_count[x] = 0
           s == IF hold THEN Hold(Now, x) ELSE Now
<1>1. /\ "suspend" \in Ops /\ Runs(t) /\ pc[t] = "run" /\ user_stop_count[x] < MaxStops
      /\ user_stop_count' = [user_stop_count EXCEPT ![x] = @ + 1]
      /\ suspend_count' = [suspend_count EXCEPT ![x] = IF hold THEN @ + 1 ELSE @]
      /\ Commit(s)
      /\ IF hold /\ x # t THEN Begin(t, "dowait", x, "suspend") ELSE UNCHANGED call
      /\ UNCHANGED <<fired, wake_active, ast_halt, active, swap_func, panicked>>
  BY DEF thread_suspend
<1>2. place[t] = "cpu" /\ Sound(Now) /\ OtherTypes /\ CallAt(t)
  BY <1>1, Acting DEF Asserted
<1>3. /\ Sound(s) /\ s.place = place
      /\ \A y \in Threads : Calm(Now, s, y) /\ Still(Now, s, y)
      /\ \A y \in Threads : "HALTED" \in s.state[y] <=> "HALTED" \in state[y]
      /\ \A y \in Threads \ {x} : "SUSP" \in s.state[y] <=> "SUSP" \in state[y]
      /\ hold => "SUSP" \in s.state[x]
      /\ ~hold => ("SUSP" \in s.state[x] <=> "SUSP" \in state[x])
  BY <1>2, HoldCalm, NowFields
<1>4. /\ \A u \in Threads \ {t} : SameCall(u)
      /\ \/ pc'[t] = "run" /\ op'[t] = op[t] /\ target'[t] = target[t]
         \/ pc'[t] = "dowait" /\ op'[t] = "suspend" /\ target'[t] = x
      /\ pc' \in [Threads -> Labels] /\ target' \in [Threads -> Threads \cup {Null}]
      /\ op' \in [Threads -> Ops \cup {"none"}]
  <2>1. CASE hold /\ x # t
    BY <1>1, <1>2, <2>1, BeginCall DEF Labels
  <2>2. CASE ~(hold /\ x # t)
    BY <1>1, <1>2, <2>2 DEF OtherTypes, call, SameCall
  <2> QED
    BY <2>1, <2>2
<1>5. OtherTypes'
  BY <1>1, <1>2, <1>4, ValuesAssumption DEF OtherTypes
<1> HIDE DEF s
<1>6. \A u, y \in Threads : Holds(u, y)' => Holds(u, y)
  BY <1>1, <1>4 DEF Holds, SameCall
<1>7. ASSUME NEW y \in Threads PROVE CountAt(y)'
  <2>1. CountAt(y) /\ state' = s.state
    BY <1>1 DEF Inv, Commit
  <2>2. CASE y = x
    <3>1. CASE hold
      BY <1>1, <1>2, <1>3, <1>5, <1>6, <2>1, <2>2, <3>1, CountStops DEF OtherTypes
    <3>2. CASE ~hold
      BY <1>1, <1>2, <1>3, <1>5, <1>6, <2>1, <2>2, <3>2, CountStops, ValuesAssumption
         DEF OtherTypes
    <3> QED
      BY <3>1, <3>2
  <2>3. CASE y # x
    BY <1>1, <1>2, <1>3, <1>5, <1>6, <2>1, <2>3, CountKept DEF OtherTypes
  <2> QED
    BY <2>2, <2>3
<1>8. \A y \in Threads : HaltAt(y)'
  BY <1>1, <1>2, <1>3, <1>4, HaltStep DEF Halts, Dowait
<1>9. CallAt(t)' /\ StopAt(t)' /\ CpuAt(t)' /\ panicked' = FALSE
  BY <1>1, <1>2, <1>3, <1>4, CpuCalm
     DEF CallAt, StopAt, Idle, Asserted, Dowait, Halting, Inv
<1> QED
  BY <1>1, <1>2, <1>3, <1>4, <1>5, <1>7, <1>8, <1>9, ActStep, GotStill

LEMMA ResumeInv ==
    ASSUME Inv, CallsOK, NEW t \in Threads, NEW x \in Threads, thread_resume(t, x)
    PROVE  Inv'
<1> DEFINE last == user_stop_count[x] = 1
           s == IF last THEN Release(Now, x) ELSE Now
<1>1. /\ Runs(t) /\ pc[t] = "run" /\ user_stop_count[x] > 0
      /\ user_stop_count' = [user_stop_count EXCEPT ![x] = @ - 1]
      /\ suspend_count' = [suspend_count EXCEPT ![x] = IF last THEN @ - 1 ELSE @]
      /\ Commit(s)
      /\ UNCHANGED <<fired, wake_active, ast_halt, active, swap_func, call, panicked>>
  <2>1. OtherTypes
    BY DEF Inv
  <2> QED
    BY <2>1 DEF thread_resume, OtherTypes
<1>2. /\ place[t] = "cpu" /\ Sound(Now) /\ OtherTypes /\ CallAt(t) /\ CountAt(x)
      /\ user_stop_count[x] \in Nat
  <2>1. place[t] = "cpu" /\ Sound(Now) /\ OtherTypes /\ CallAt(t)
    BY <1>1, Acting DEF Asserted
  <2> QED
    BY <2>1, HeldType DEF Inv
<1>3. /\ Sound(s)
      /\ \A y \in Threads : Calm(Now, s, y)
      /\ \A y \in Threads : "HALTED" \in s.state[y] => "HALTED" \in state[y]
      /\ \A y \in Threads \ {x} : /\ Still(Now, s, y)
                                  /\ "SUSP" \in s.state[y] <=> "SUSP" \in state[y]
      /\ last /\ suspend_count[x] = 1 => "SUSP" \notin s.state[x]
      /\ ~last \/ suspend_count[x] # 1 => /\ Still(Now, s, x)
                                          /\ "SUSP" \in s.state[x] <=> "SUSP" \in state[x]
  <2>1. CASE last
    BY <1>2, <2>1, ReleaseCalm
  <2>2. CASE ~last
    BY <1>2, <2>2, NowFields DEF Calm, Still
  <2> QED
    BY <2>1, <2>2
<1> HIDE DEF s
<1>4. suspend_count[x] \in Nat \ {0} /\ "SUSP" \in state[x]
  BY <1>1, <1>2, HeldType DEF CountAt
<1>5. \A u \in Threads : SameCall(u)
  BY <1>1 DEF SameCall, call
<1>6. OtherTypes'
  BY <1>1, <1>2, <1>4, ValuesAssumption DEF OtherTypes, call
<1>7. \A u \in Threads : pc[u] = "got" => Still(Now, s, target[u])
  <2> SUFFICES ASSUME NEW u \in Threads, pc[u] = "got" PROVE Still(Now, s, target[u])
    OBVIOUS
  <2>1. CallAt(u)
    BY DEF Inv
  <2>2. target[u] \in Threads /\ Holds(u, target[u])
    BY <2>1 DEF CallAt, Idle, Holds
  <2> QED
    BY <1>1, <1>2, <1>3, <2>2, HoldersCounted
<1>8. \A u, y \in Threads : Holds(u, y)' => Holds(u, y)
  BY <1>5 DEF Holds, SameCall
<1>9. ASSUME NEW y \in Threads PROVE CountAt(y)'
  <2>1. CountAt(y) /\ state' = s.state
    BY <1>1 DEF Inv, Commit
  <2>2. CASE y = x
    <3>1. CASE last
      BY <1>1, <1>2, <1>3, <1>4, <1>6, <1>8, <2>1, <2>2, <3>1, CountStops DEF OtherTypes
    <3>2. CASE ~last
      BY <1>1, <1>2, <1>3, <1>6, <1>8, <2>1, <2>2, <3>2, CountStops DEF OtherTypes
    <3> QED
      BY <3>1, <3>2
  <2>3. CASE y # x
    BY <1>1, <1>2, <1>3, <1>6, <1>8, <2>1, <2>3, CountKept DEF OtherTypes
  <2> QED
    BY <2>2, <2>3
<1>10. \A y \in Threads : HaltAt(y)'
  BY <1>1, <1>2, <1>3, <1>5, HaltStep DEF Halts, Dowait, SameCall
<1>11. CallAt(t)' /\ StopAt(t)' /\ CpuAt(t)' /\ panicked' = FALSE
  BY <1>1, <1>2, <1>3, <1>5, CpuCalm
     DEF CallAt, StopAt, Idle, Asserted, Dowait, Halting, Inv, SameCall
<1> QED
  BY <1>1, <1>2, <1>3, <1>5, <1>6, <1>7, <1>9, <1>10, <1>11, ActStep

LEMMA GetStateInv ==
    ASSUME Inv, CallsOK, NEW t \in Threads, NEW x \in Threads, thread_get_state(t, x)
    PROVE  Inv'
<1> DEFINE s == Hold(Now, x)
<1>1. /\ "get_state" \in Ops /\ Runs(t) /\ pc[t] = "run"
      /\ suspend_count' = [suspend_count EXCEPT ![x] = @ + 1]
      /\ Commit(s) /\ Begin(t, "dowait", x, "get_state")
      /\ UNCHANGED <<fired, user_stop_count, wake_active, ast_halt, active, swap_func, panicked>>
  BY DEF thread_get_state
<1>2. place[t] = "cpu" /\ Sound(Now) /\ OtherTypes /\ CallAt(t)
  BY <1>1, Acting DEF Asserted
<1>3. /\ Sound(s) /\ s.place = place
      /\ \A y \in Threads : Calm(Now, s, y) /\ Still(Now, s, y)
      /\ \A y \in Threads : "HALTED" \in s.state[y] <=> "HALTED" \in state[y]
      /\ \A y \in Threads \ {x} : "SUSP" \in s.state[y] <=> "SUSP" \in state[y]
      /\ "SUSP" \in s.state[x]
  BY <1>2, HoldCalm
<1> HIDE DEF s
<1>4. /\ \A u \in Threads \ {t} : SameCall(u)
      /\ pc'[t] = "dowait" /\ op'[t] = "get_state" /\ target'[t] = x
      /\ OtherTypes'
  BY <1>1, <1>2, BeginCall DEF Labels, OtherTypes
<1>5. ASSUME NEW y \in Threads PROVE CountAt(y)'
  <2>1. CountAt(y) /\ state' = s.state
    BY <1>1 DEF Inv, Commit
  <2>2. \A u \in Threads : Holds(u, y)' => Holds(u, y) \/ (u = t /\ y = x)
    BY <1>4 DEF Holds, SameCall
  <2>3. CASE y = x
    BY <1>1, <1>2, <1>3, <1>4, <2>1, <2>2, <2>3, CountHold DEF OtherTypes
  <2>4. CASE y # x
    BY <1>1, <1>2, <1>3, <1>4, <2>1, <2>2, <2>4, CountKept DEF OtherTypes
  <2> QED
    BY <2>3, <2>4
<1>6. \A y \in Threads : HaltAt(y)'
  BY <1>1, <1>2, <1>3, <1>4, HaltStep DEF Halts, Dowait
<1>7. CallAt(t)' /\ StopAt(t)' /\ CpuAt(t)' /\ panicked' = FALSE
  BY <1>1, <1>2, <1>3, <1>4, CpuCalm
     DEF CallAt, StopAt, Idle, Asserted, Dowait, Halting, Inv
<1> QED
  BY <1>1, <1>2, <1>3, <1>4, <1>5, <1>6, <1>7, ActStep, GotStill

\* Only the last hold lets a thread run, and the others that hold it know.
LEMMA ReleaseInv ==
    ASSUME Inv, CallsOK, NEW t \in Threads, thread_release(t)
    PROVE  Inv'
<1> DEFINE x == target[t]
           s == Release(Now, x)
<1>1. /\ Runs(t)
      /\ pc[t] \in {"got", "release"} \/ (pc[t] = "halted" /\ op[t] = "abort")
      /\ suspend_count' = [suspend_count EXCEPT ![x] = @ - 1]
      /\ Commit(s) /\ Return(t)
      /\ UNCHANGED <<fired, user_stop_count, wake_active, ast_halt, active, swap_func, panicked>>
  BY DEF thread_release
<1>2. /\ place[t] = "cpu" /\ Sound(Now) /\ OtherTypes /\ CallAt(t)
  BY <1>1, Acting DEF Asserted
<1>3. x \in Threads /\ Holds(t, x)
  BY <1>1, <1>2 DEF CallAt, Idle, Halting, Holds
<1>4. /\ Sound(s)
      /\ \A y \in Threads : Calm(Now, s, y)
      /\ \A y \in Threads : "HALTED" \in s.state[y] => "HALTED" \in state[y]
      /\ \A y \in Threads \ {x} : /\ Still(Now, s, y)
                                  /\ "SUSP" \in s.state[y] <=> "SUSP" \in state[y]
      /\ suspend_count[x] = 1 => "SUSP" \notin s.state[x]
      /\ suspend_count[x] # 1 => /\ Still(Now, s, x)
                                 /\ "SUSP" \in s.state[x] <=> "SUSP" \in state[x]
  BY <1>2, <1>3, ReleaseCalm
<1>5. /\ suspend_count[x] \in Nat \ {0} /\ "SUSP" \in state[x]
      /\ \A u \in Threads \ {t} : Holds(u, x) => suspend_count[x] # 1
  <2>1. CountAt(x)
    BY <1>3 DEF Inv
  <2> QED
    BY <1>2, <1>3, <2>1, HoldersCounted
<1> HIDE DEF x, s
<1>6. /\ \A u \in Threads \ {t} : SameCall(u)
      /\ pc'[t] = "run" /\ op'[t] = "none" /\ target'[t] = Null
      /\ OtherTypes'
  <2>1. suspend_count' \in [Threads -> Nat]
    BY <1>1, <1>2, <1>3, <1>5 DEF OtherTypes
  <2> QED
    BY <1>1, <1>2, <2>1, ReturnCall DEF OtherTypes
<1>7. \A u \in Threads \ {t} : pc[u] = "got" => Still(Now, s, target[u])
  <2> SUFFICES ASSUME NEW u \in Threads \ {t}, pc[u] = "got" PROVE Still(Now, s, target[u])
    OBVIOUS
  <2>1. CallAt(u)
    BY DEF Inv
  <2>2. target[u] \in Threads /\ Holds(u, target[u])
    BY <2>1 DEF CallAt, Idle, Holds
  <2> QED
    BY <1>4, <1>5, <2>2
<1>8. ASSUME NEW y \in Threads PROVE CountAt(y)'
  <2>1. CountAt(y) /\ state' = s.state
    BY <1>1 DEF Inv, Commit
  <2>2. \A u \in Threads : Holds(u, y)' => u # t /\ Holds(u, y)
    BY <1>6, ValuesAssumption DEF Holds, SameCall
  <2>3. CASE y = x
    BY <1>1, <1>2, <1>3, <1>4, <1>5, <1>6, <2>1, <2>2, <2>3, CountRelease DEF OtherTypes
  <2>4. CASE y # x
    BY <1>1, <1>2, <1>4, <1>6, <2>1, <2>2, <2>4, CountKept DEF OtherTypes
  <2> QED
    BY <2>3, <2>4
<1>9. \A y \in Threads : HaltAt(y)'
  BY <1>1, <1>2, <1>4, <1>6, HaltStep DEF Halts, Dowait
<1>10. CallAt(t)' /\ StopAt(t)' /\ CpuAt(t)' /\ panicked' = FALSE
  BY <1>1, <1>2, <1>3, <1>4, <1>6, CpuCalm
     DEF CallAt, StopAt, Idle, Asserted, Dowait, Halting, Inv
<1> QED
  BY <1>1, <1>2, <1>4, <1>6, <1>7, <1>8, <1>9, <1>10, ActStep

\* What thread_dowait leads to: the caller goes on, or sleeps.
LEMMA DowaitStep ==
    ASSUME Inv, CallsOK, NEW t \in Threads, Runs(t), pc[t] \in {"dowait", "dowait_woken"},
           NEW s, Sound(s), Commit(s),
           \A u \in Threads \ {t} : Calm(Now, s, u),
           \A y \in Threads : /\ Still(Now, s, y)
                              /\ "SUSP" \in s.state[y] <=> "SUSP" \in state[y]
                              /\ "HALTED" \in s.state[y] <=> "HALTED" \in state[y],
           wake_active' \subseteq Threads,
           UNCHANGED <<fired, suspend_count, user_stop_count, ast_halt, active,
                       swap_func, panicked>>,
           \/ /\ Calm(Now, s, t) /\ DowaitDone(t)
              /\ op[t] # "suspend" => /\ "SUSP" \in s.state[target[t]]
                                      /\ "RUN" \notin s.state[target[t]]
                                      /\ "UNINT" \notin s.state[target[t]]
           \/ Calm(Now, s, t) /\ op[t] = "abort" /\ Goto(t, "halt_fail")
           \/ s.place[t] = "cpu" /\ Goto(t, "dowait_sleep")
    PROVE  Inv'
<1>1. place[t] = "cpu" /\ Sound(Now) /\ OtherTypes /\ CallAt(t) /\ "HALTED" \notin state[t]
  BY Acting DEF Asserted
<1>2. target[t] \in Threads /\ op[t] \in {"suspend", "get_state", "abort", "terminate"}
  BY <1>1 DEF CallAt, Idle, Dowait
<1>3. /\ \A u \in Threads \ {t} : SameCall(u)
      /\ pc' \in [Threads -> Labels] /\ target' \in [Threads -> Threads \cup {Null}]
      /\ op' \in [Threads -> Ops \cup {"none"}]
      /\ \/ pc'[t] = "run" /\ op[t] = "suspend" /\ op'[t] = "none" /\ target'[t] = Null
         \/ /\ op'[t] = op[t] /\ target'[t] = target[t]
            /\ \/ pc'[t] = "got" /\ op[t] = "get_state"
               \/ pc'[t] = "halt_stopped" /\ op[t] \in {"abort", "terminate"}
               \/ pc'[t] = "halt_fail" /\ op[t] = "abort"
               \/ pc'[t] = "dowait_sleep"
  <2>1. CASE DowaitDone(t) /\ op[t] = "suspend"
    BY <1>1, <2>1, ReturnCall DEF DowaitDone
  <2>2. CASE DowaitDone(t) /\ op[t] = "get_state"
    BY <1>1, <2>2, GotoCall DEF DowaitDone, Labels
  <2>3. CASE DowaitDone(t) /\ op[t] \in {"abort", "terminate"}
    BY <1>1, <2>3, GotoCall DEF DowaitDone, Labels
  <2>4. CASE op[t] = "abort" /\ Goto(t, "halt_fail")
    BY <1>1, <2>4, GotoCall DEF Labels
  <2>5. CASE Goto(t, "dowait_sleep")
    BY <1>1, <2>5, GotoCall DEF Labels
  <2> QED
    BY <1>2, <2>1, <2>2, <2>3, <2>4, <2>5
<1>4. OtherTypes'
  BY <1>1, <1>3 DEF OtherTypes
<1>5. \A y \in Threads : CountAt(y)'
  BY <1>3, <1>4, CountStep, ValuesAssumption DEF Holds
<1>6. \A y \in Threads : HaltAt(y)'
  BY <1>1, <1>3, HaltStep DEF Halts, Dowait
<1>7. CallAt(t)'
  BY <1>2, <1>3 DEF CallAt, Idle, Dowait, Halting
<1>8. StopAt(t)'
  <2>1. CASE pc'[t] \in {"got", "halt_stopped"}
    <3>1. /\ "SUSP" \in s.state[target[t]] /\ "RUN" \notin s.state[target[t]]
          /\ "UNINT" \notin s.state[target[t]] /\ target'[t] = target[t]
      BY <1>1, <1>3, <2>1, GotoCall DEF Labels
    <3> QED
      BY <2>1, <3>1 DEF StopAt, Commit
  <2>2. CASE pc'[t] \notin {"got", "halt_stopped"}
    BY <1>3, <2>2 DEF StopAt
  <2> QED
    BY <2>1, <2>2
<1>9. CpuAt(t)'
  <2>1. CASE Calm(Now, s, t)
    BY <2>1, CpuCalm DEF Asserted
  <2>2. CASE s.place[t] = "cpu" /\ Goto(t, "dowait_sleep")
    BY <1>1, <2>2, CpuAsserted, GotoCall DEF Asserted, Labels
  <2> QED
    BY <2>1, <2>2
<1>10. panicked' = FALSE
  BY DEF Inv
<1> QED
  BY <1>1, <1>3, <1>4, <1>5, <1>6, <1>7, <1>8, <1>9, <1>10, ActStep, GotStill

\* x is taken off its run queue, and those who wait for that are woken.
LEMMA OffRunqCalm ==
    ASSUME Sound(Now), NEW x \in Threads, OffRunq(x), NEW s,
           s \in {Off(Now, x), thread_wakeup(Off(Now, x), x, "awakened")}
    PROVE  /\ Sound(s)
           /\ \A y \in Threads : /\ Calm(Now, s, y) /\ Still(Now, s, y)
                                 /\ "SUSP" \in s.state[y] <=> "SUSP" \in state[y]
                                 /\ "HALTED" \in s.state[y] <=> "HALTED" \in state[y]
           /\ "SUSP" \in s.state[x] /\ "RUN" \notin s.state[x] /\ "UNINT" \notin s.state[x]
<1> DEFINE off == Off(Now, x)
           woken == thread_wakeup(off, x, "awakened")
<1>1. "SUSP" \in state[x] /\ "UNINT" \notin state[x] /\ place[x] = "runq"
  BY DEF OffRunq, Sched
<1>2. /\ Sound(off) /\ \A u \in Threads \ {x} : Same(Now, off, u)
      /\ off.place[x] = "off" /\ "RUN" \notin off.state[x]
      /\ \A b \in {"SUSP", "WAIT", "UNINT", "HALTED"} : b \in off.state[x] <=> b \in state[x]
  BY <1>1, OffSound, NowFields
<1> HIDE DEF off
<1>3. \A y \in Threads : /\ Calm(Now, off, y) /\ Still(Now, off, y)
                         /\ "SUSP" \in off.state[y] <=> "SUSP" \in state[y]
                         /\ "HALTED" \in off.state[y] <=> "HALTED" \in state[y]
  BY <1>1, <1>2, SameCalm, NowFields DEF Calm, Still, Same
<1>4. Sound(woken) /\ Wakes(off, woken)
  BY <1>2, WakeupSound, ValuesAssumption DEF Results
<1> HIDE DEF woken
<1>5. \A y \in Threads : /\ Calm(off, woken, y) /\ Still(off, woken, y)
                         /\ "SUSP" \in woken.state[y] <=> "SUSP" \in off.state[y]
                         /\ "HALTED" \in woken.state[y] <=> "HALTED" \in off.state[y]
  BY <1>2, <1>4, WakesCalm DEF Wakes
<1>6. \A y \in Threads : /\ Calm(Now, woken, y) /\ Still(Now, woken, y)
                         /\ "SUSP" \in woken.state[y] <=> "SUSP" \in state[y]
                         /\ "HALTED" \in woken.state[y] <=> "HALTED" \in state[y]
  BY <1>3, <1>5 DEF Calm, Still
<1>7. "SUSP" \in woken.state[x] /\ "RUN" \notin woken.state[x] /\ "UNINT" \notin woken.state[x]
  BY <1>1, <1>2, <1>5 DEF Still
<1>8. s = off \/ s = woken
  BY DEF off, woken
<1> QED
  BY <1>1, <1>2, <1>3, <1>4, <1>6, <1>7, <1>8

\* A caller that goes to sleep in thread_dowait or thread_halt.
LEMMA AwaitCalm ==
    ASSUME Inv, NEW t \in Threads, Runs(t), pc[t] \notin Asserted \cup {"halt_self_block"},
           NEW x \in Threads, NEW z, Sound(z), z.place = place,
           \A y \in Threads : /\ Calm(Now, z, y) /\ Still(Now, z, y)
                              /\ "HALTED" \in z.state[y] <=> "HALTED" \in state[y],
           NEW s, s = assert_wait(z, t, x, TRUE)
    PROVE  /\ Sound(s) /\ s.place[t] = "cpu"
           /\ \A y \in Threads : /\ y # t => Calm(Now, s, y)
                                 /\ Still(Now, s, y)
                                 /\ "SUSP" \in s.state[y] <=> "SUSP" \in z.state[y]
                                 /\ "HALTED" \in s.state[y] <=> "HALTED" \in state[y]
<1>1. /\ place[t] = "cpu" /\ "HALTED" \notin state[t] /\ "RUN" \in state[t]
      /\ z.place[t] = "cpu" /\ "HALTED" \notin z.state[t]
  BY Acting
<1>2. /\ Sound(s) /\ \A u \in Threads \ {t} : Same(z, s, u)
      /\ s.place[t] = z.place[t]
      /\ \A b \in {"RUN", "SUSP", "HALTED"} : b \in s.state[t] <=> b \in z.state[t]
  <2> DEFINE w == assert_wait(z, t, x, TRUE)
  <2>1. /\ Sound(w) /\ \A u \in Threads \ {t} : Same(z, w, u)
        /\ w.place[t] = z.place[t]
        /\ \A b \in {"RUN", "SUSP", "HALTED"} : b \in w.state[t] <=> b \in z.state[t]
    <3>1. PICK i \in BOOLEAN : i = TRUE
      OBVIOUS
    <3>2. /\ Sound(assert_wait(z, t, x, i))
          /\ \A u \in Threads \ {t} : Same(z, assert_wait(z, t, x, i), u)
          /\ assert_wait(z, t, x, i).place[t] = z.place[t]
          /\ \A b \in {"RUN", "SUSP", "HALTED"} :
                b \in assert_wait(z, t, x, i).state[t] <=> b \in z.state[t]
      BY <1>1, AssertWaitSound
    <3> QED
      BY <3>1, <3>2
  <2> QED
    BY <2>1
<1>3. \A y \in Threads \ {t} : Calm(z, s, y) /\ Still(z, s, y)
  BY <1>2, SameCalm
<1>4. \A y \in Threads \ {t} : Calm(Now, s, y) /\ Still(Now, s, y)
  BY <1>3 DEF Calm, Still
<1>5. Still(Now, s, t)
  BY <1>1, NowFields DEF Still
<1> QED
  BY <1>1, <1>2, <1>4, <1>5 DEF Same

LEMMA DowaitInv ==
    ASSUME Inv, CallsOK, NEW t \in Threads, thread_dowait(t)
    PROVE  Inv'
<1> DEFINE x == target[t]
           off == [Now EXCEPT !.state[x] = @ \ {"RUN"}, !.place[x] = "off"]
           woken == thread_wakeup(off, x, "awakened")
<1>1. /\ Runs(t) /\ pc[t] \in {"dowait", "dowait_woken"}
      /\ \/ op[t] = "abort" /\ Goto(t, "halt_fail") /\ Commit(Now) /\ UNCHANGED wake_active
         \/ /\ OffRunq(x) /\ Commit(IF x \in wake_active THEN woken ELSE off)
            /\ wake_active' = wake_active \ {x}
            /\ DowaitDone(t)
         \/ MustStop(x) /\ Await(t, x, Now, "dowait_sleep")
         \/ /\ ~OffRunq(x) /\ ~MustStop(x) /\ DowaitDone(t)
            /\ Commit(Now) /\ UNCHANGED wake_active
      /\ UNCHANGED <<fired, suspend_count, user_stop_count, ast_halt, active, swap_func, panicked>>
  BY DEF thread_dowait, Interrupted
<1>2. /\ place[t] = "cpu" /\ Sound(Now) /\ OtherTypes /\ CallAt(t)
      /\ pc[t] \notin Asserted \cup {"halt_self_block"}
      /\ wake_active \subseteq Threads
  BY <1>1, Acting DEF Asserted, OtherTypes
<1>3. x \in Threads /\ off = Off(Now, x)
  BY <1>1, <1>2 DEF CallAt, Idle, Off
<1>4. \A y \in Threads : Calm(Now, Now, y) /\ Still(Now, Now, y)
  BY DEF Calm, Still
<1> HIDE DEF off, woken, x
<1>5. CASE op[t] = "abort" /\ Goto(t, "halt_fail") /\ Commit(Now) /\ UNCHANGED wake_active
  BY <1>1, <1>2, <1>4, <1>5, DowaitStep, NowFields
<1>6. CASE /\ OffRunq(x) /\ Commit(IF x \in wake_active THEN woken ELSE off)
           /\ wake_active' = wake_active \ {x}
           /\ DowaitDone(t)
  <2>1. PICK s \in {off, woken} : Commit(s)
    BY <1>6
  <2>2. /\ Sound(s)
        /\ \A y \in Threads : /\ Calm(Now, s, y) /\ Still(Now, s, y)
                              /\ "SUSP" \in s.state[y] <=> "SUSP" \in state[y]
                              /\ "HALTED" \in s.state[y] <=> "HALTED" \in state[y]
        /\ "SUSP" \in s.state[x] /\ "RUN" \notin s.state[x] /\ "UNINT" \notin s.state[x]
    BY <1>2, <1>3, <1>6, <2>1, OffRunqCalm DEF woken
  <2> QED
    BY <1>1, <1>2, <1>6, <2>1, <2>2, DowaitStep DEF x
<1>7. CASE MustStop(x) /\ Await(t, x, Now, "dowait_sleep")
  <2> DEFINE s == assert_wait(Now, t, x, TRUE)
  <2>1. /\ Sound(s) /\ s.place[t] = "cpu"
        /\ \A y \in Threads : /\ y # t => Calm(Now, s, y)
                              /\ Still(Now, s, y)
                              /\ "SUSP" \in s.state[y] <=> "SUSP" \in state[y]
                              /\ "HALTED" \in s.state[y] <=> "HALTED" \in state[y]
    BY <1>1, <1>2, <1>3, <1>4, AwaitCalm, NowFields
  <2>2. Commit(s) /\ Goto(t, "dowait_sleep") /\ wake_active' \subseteq Threads
    BY <1>2, <1>3, <1>7 DEF Await
  <2> HIDE DEF s
  <2> QED
    BY <1>1, <2>1, <2>2, DowaitStep
<1>8. CASE /\ ~OffRunq(x) /\ ~MustStop(x) /\ DowaitDone(t)
           /\ Commit(Now) /\ UNCHANGED wake_active
  <2>1. ASSUME op[t] # "suspend"
        PROVE  "SUSP" \in state[x] /\ "RUN" \notin state[x] /\ "UNINT" \notin state[x]
    <3>1. Holds(t, x) /\ CountAt(x)
      BY <1>1, <1>3, <2>1 DEF Holds, Inv, x
    <3>2. "SUSP" \in state[x]
      BY <1>2, <1>3, <3>1, HoldersCounted
    <3>3. state[x] \cap Sched \in Stopped
      BY <1>8, <3>2 DEF MustStop
    <3> QED
      BY <3>2, <3>3 DEF Stopped, Sched
  <2> QED
    BY <1>1, <1>2, <1>4, <1>8, <2>1, DowaitStep, NowFields DEF x
<1> QED
  BY <1>1, <1>5, <1>6, <1>7, <1>8

-----------------------------------------------------------------------------
(* Halting.                                                                *)

\* A step of a call that changes no thread.
LEMMA NowStep ==
    ASSUME Inv, CallsOK, NEW t \in Threads, Runs(t), pc[t] \notin Asserted \cup {"halt_self_block"},
           UNCHANGED <<state, wait, place, fired, suspend_count, user_stop_count,
                       wake_active, ast_halt, swap_func, panicked>>,
           active' \subseteq Threads,
           \A u \in Threads \ {t} : SameCall(u),
           pc' \in [Threads -> Labels] /\ target' \in [Threads -> Threads \cup {Null}]
           /\ op' \in [Threads -> Ops \cup {"none"}],
           CallAt(t)', StopAt(t)',
           \A y \in Threads : (Holds(t, y)' => Holds(t, y)) /\ (Halts(t, y) => Halts(t, y)'),
           pc'[t] = "halt_self" => t \in ast_halt,
           pc'[t] = "halt_again" => "HALTED" \notin state[target'[t]]
    PROVE  Inv'
<1>1. place[t] = "cpu" /\ Sound(Now) /\ OtherTypes /\ Commit(Now)
  BY Acting DEF Commit, Now, wait
<1>2. \A y \in Threads : Calm(Now, Now, y) /\ Still(Now, Now, y)
  BY DEF Calm, Still
<1>3. OtherTypes' /\ panicked' = FALSE
  BY <1>1 DEF OtherTypes, Inv
<1>4. \A y \in Threads : CountAt(y)'
  BY <1>1, <1>3, CountStep, NowFields
<1>5. \A y \in Threads : HaltAt(y)'
  <2>1. \A y \in ast_halt' : y \in ast_halt /\ (Halts(t, y) => Halts(t, y)')
    BY <1>1 DEF OtherTypes
  <2> QED
    BY <1>1, <2>1, HaltStep, NowFields
<1>6. CpuAt(t)'
  BY <1>1, <1>2, CpuCalm
<1> QED
  BY <1>1, <1>2, <1>3, <1>4, <1>5, <1>6, ActStep, GotStill

LEMMA HaltInv ==
    ASSUME Inv, CallsOK, NEW t \in Threads, NEW x \in Threads, thread_halt(t, x)
    PROVE  Inv'
<1>1. PICK o \in {"abort", "terminate"} \cap Ops : Begin(t, "halt", x, o)
  BY DEF thread_halt
<1>2. /\ Runs(t) /\ pc[t] = "run" /\ active' \subseteq active
      /\ UNCHANGED <<state, wait, place, fired, suspend_count, user_stop_count,
                     wake_active, ast_halt, swap_func, panicked>>
  BY DEF thread_halt
<1>3. OtherTypes
  BY DEF Inv
<1>4. /\ \A u \in Threads \ {t} : SameCall(u)
      /\ pc'[t] = "halt" /\ op'[t] = o /\ target'[t] = x
      /\ pc' \in [Threads -> Labels] /\ target' \in [Threads -> Threads \cup {Null}]
      /\ op' \in [Threads -> Ops \cup {"none"}]
  BY <1>1, <1>3, BeginCall DEF Labels
<1>5. CallAt(t)' /\ StopAt(t)'
  BY <1>1, <1>4 DEF CallAt, StopAt, Idle, Halting, Dowait
<1>6. \A y \in Threads : ~Holds(t, y)' /\ ~Halts(t, y)
  BY <1>2, <1>4 DEF Holds, Halts, Dowait
<1>7. active' \subseteq Threads
  BY <1>2, <1>3 DEF OtherTypes
<1> QED
  BY <1>2, <1>4, <1>5, <1>6, <1>7, NowStep DEF Asserted

LEMMA HaltWokenInv ==
    ASSUME Inv, CallsOK, NEW t \in Threads, HaltWoken(t)
    PROVE  Inv'
<1> DEFINE x == target[t]
           l == IF "HALTED" \in state[x] THEN "halted"
                ELSE IF Interrupted(t) THEN "release" ELSE "halt_again"
<1>1. /\ Runs(t) /\ pc[t] = "halt_woken" /\ Goto(t, l)
      /\ UNCHANGED <<state, wait, place, fired, suspend_count, user_stop_count,
                     wake_active, ast_halt, active, swap_func, panicked>>
  BY DEF HaltWoken, counts
<1>2. OtherTypes /\ CallAt(t)
  BY DEF Inv
<1>3. l \in Labels
  BY DEF Labels
<1>4. /\ \A u \in Threads \ {t} : SameCall(u)
      /\ pc'[t] = l /\ op'[t] = op[t] /\ target'[t] = x
      /\ pc' \in [Threads -> Labels] /\ target' \in [Threads -> Threads \cup {Null}]
      /\ op' \in [Threads -> Ops \cup {"none"}]
  BY <1>1, <1>2, <1>3, GotoCall
<1>5. /\ l \in {"halted", "release", "halt_again"}
      /\ l = "halted" => "HALTED" \in state[x]
      /\ l = "halt_again" => "HALTED" \notin state[x]
  OBVIOUS
<1> HIDE DEF l, x
<1>6. CallAt(t)' /\ StopAt(t)'
  BY <1>1, <1>2, <1>4, <1>5 DEF CallAt, StopAt, Idle, Halting, Dowait, x
<1>7. \A y \in Threads : (Holds(t, y)' => Holds(t, y)) /\ ~Halts(t, y)
  BY <1>1, <1>4, <1>5 DEF Holds, Halts, Dowait, x
<1>8. active' \subseteq Threads
  BY <1>1, <1>2 DEF OtherTypes
<1> QED
  BY <1>1, <1>4, <1>5, <1>6, <1>7, <1>8, NowStep DEF Asserted

LEMMA AstTakenInv ==
    ASSUME Inv, CallsOK, NEW t \in Threads, ast_taken(t)
    PROVE  Inv'
<1>1. /\ Runs(t) /\ pc[t] = "run" /\ t \in ast_halt /\ Goto(t, "halt_self")
      /\ UNCHANGED <<state, wait, place, fired, suspend_count, user_stop_count,
                     wake_active, ast_halt, active, swap_func, panicked>>
  BY DEF ast_taken, counts
<1>2. OtherTypes /\ CallAt(t)
  BY DEF Inv
<1>3. /\ \A u \in Threads \ {t} : SameCall(u)
      /\ pc'[t] = "halt_self" /\ op'[t] = op[t] /\ target'[t] = target[t]
      /\ pc' \in [Threads -> Labels] /\ target' \in [Threads -> Threads \cup {Null}]
      /\ op' \in [Threads -> Ops \cup {"none"}]
  BY <1>1, <1>2, GotoCall DEF Labels
<1>4. CallAt(t)' /\ StopAt(t)'
  BY <1>1, <1>2, <1>3 DEF CallAt, StopAt, Idle, Halting, Dowait
<1>5. \A y \in Threads : (Holds(t, y)' => Holds(t, y)) /\ ~Halts(t, y)
  BY <1>1, <1>3 DEF Holds, Halts, Dowait
<1>6. active' \subseteq Threads
  BY <1>1, <1>2 DEF OtherTypes
<1> QED
  BY <1>1, <1>3, <1>4, <1>5, <1>6, NowStep DEF Asserted

LEMMA TerminateDoneInv ==
    ASSUME Inv, CallsOK, NEW t \in Threads, TerminateDone(t)
    PROVE  Inv'
<1>1. /\ Runs(t) /\ pc[t] = "halted" /\ Return(t)
      /\ UNCHANGED <<state, wait, place, fired, suspend_count, user_stop_count,
                     wake_active, ast_halt, active, swap_func, panicked>>
  BY DEF TerminateDone, counts
<1>2. OtherTypes
  BY DEF Inv
<1>3. /\ \A u \in Threads \ {t} : SameCall(u)
      /\ pc'[t] = "run" /\ op'[t] = "none" /\ target'[t] = Null
      /\ pc' \in [Threads -> Labels] /\ target' \in [Threads -> Threads \cup {Null}]
      /\ op' \in [Threads -> Ops \cup {"none"}]
  BY <1>1, <1>2, ReturnCall
<1>4. CallAt(t)' /\ StopAt(t)'
  BY <1>3 DEF CallAt, StopAt, Idle, Halting, Dowait
<1>5. \A y \in Threads : ~Holds(t, y)' /\ ~Halts(t, y)
  BY <1>1, <1>3, ValuesAssumption DEF Holds, Halts, Dowait
<1>6. active' \subseteq Threads
  BY <1>1, <1>2 DEF OtherTypes
<1> QED
  BY <1>1, <1>3, <1>4, <1>5, <1>6, NowStep DEF Asserted

\* thread_halt, with the target held as z, becomes the one who halts it or waits
\* for the one who does.
LEMMA HaltOrAwaitInv ==
    ASSUME Inv, CallsOK, NEW t \in Threads, Runs(t), pc[t] \in {"halt", "halt_again"},
           "HALTED" \notin state[target[t]], NEW z, HaltOrAwait(t, target[t], z),
           UNCHANGED <<fired, user_stop_count, active, swap_func, panicked>>,
           \/ pc[t] = "halt_again" /\ z = Now /\ UNCHANGED suspend_count
           \/ /\ pc[t] = "halt" /\ z = Hold(Now, target[t])
              /\ suspend_count' = [suspend_count EXCEPT ![target[t]] = @ + 1]
    PROVE  Inv'
<1> DEFINE x == target[t]
           a == assert_wait(z, t, x, TRUE)
<1>1. /\ place[t] = "cpu" /\ Sound(Now) /\ OtherTypes /\ CallAt(t)
      /\ pc[t] \notin Asserted \cup {"halt_self_block"}
  BY Acting DEF Asserted
<1>2. x \in Threads /\ op[t] \in {"abort", "terminate"}
  BY <1>1 DEF CallAt, Idle, Halting
<1>3. /\ Sound(z) /\ z.place = place
      /\ \A y \in Threads : Calm(Now, z, y) /\ Still(Now, z, y)
      /\ \A y \in Threads : "HALTED" \in z.state[y] <=> "HALTED" \in state[y]
      /\ \A y \in Threads \ {x} : "SUSP" \in z.state[y] <=> "SUSP" \in state[y]
      /\ pc[t] = "halt" => "SUSP" \in z.state[x]
      /\ pc[t] = "halt_again" => ("SUSP" \in z.state[x] <=> "SUSP" \in state[x])
  BY <1>1, <1>2, HoldCalm, NowFields
<1>4. /\ Sound(a) /\ a.place[t] = "cpu"
      /\ \A y \in Threads : /\ y # t => Calm(Now, a, y)
                            /\ Still(Now, a, y)
                            /\ "SUSP" \in a.state[y] <=> "SUSP" \in z.state[y]
                            /\ "HALTED" \in a.state[y] <=> "HALTED" \in state[y]
  BY <1>1, <1>2, <1>3, AwaitCalm
<1>5. \/ /\ Commit(a) /\ Goto(t, "halt_sleep") /\ UNCHANGED ast_halt
         /\ wake_active' = wake_active \cup {x}
      \/ /\ Commit(z) /\ Goto(t, "dowait") /\ ast_halt' = ast_halt \cup {x}
         /\ UNCHANGED wake_active
  BY DEF HaltOrAwait, Await
<1> HIDE DEF a, x
<1>6. /\ \A u \in Threads \ {t} : SameCall(u)
      /\ op'[t] = op[t] /\ target'[t] = target[t]
      /\ pc' \in [Threads -> Labels] /\ target' \in [Threads -> Threads \cup {Null}]
      /\ op' \in [Threads -> Ops \cup {"none"}]
      /\ \/ Commit(a) /\ pc'[t] = "halt_sleep" /\ UNCHANGED ast_halt
         \/ Commit(z) /\ pc'[t] = "dowait" /\ ast_halt' = ast_halt \cup {x}
  BY <1>1, <1>5, GotoCall DEF Labels
<1>7. OtherTypes'
  <2>1. suspend_count' \in [Threads -> Nat]
    BY <1>1, <1>2 DEF OtherTypes, x
  <2>2. wake_active' \subseteq Threads /\ ast_halt' \subseteq Threads
    BY <1>1, <1>2, <1>5 DEF OtherTypes
  <2> QED
    BY <1>1, <1>6, <2>1, <2>2 DEF OtherTypes
<1>8. PICK s \in {a, z} : Commit(s)
  BY <1>5
<1>9. /\ Sound(s) /\ s.place[t] = "cpu"
      /\ \A y \in Threads : /\ y # t => Calm(Now, s, y)
                            /\ Still(Now, s, y)
                            /\ "SUSP" \in s.state[y] <=> "SUSP" \in z.state[y]
                            /\ "HALTED" \in s.state[y] <=> "HALTED" \in state[y]
  BY <1>1, <1>3, <1>4
<1>10. ASSUME NEW y \in Threads PROVE CountAt(y)'
  <2>1. CountAt(y) /\ state' = s.state
    BY <1>8 DEF Inv, Commit
  <2>2. \A u \in Threads : Holds(u, y)' => Holds(u, y) \/ (pc[t] = "halt" /\ u = t /\ y = x)
    BY <1>6 DEF Holds, SameCall, x
  <2>3. /\ user_stop_count'[y] = user_stop_count[y]
        /\ pc[t] = "halt" /\ y = x => suspend_count'[y] = suspend_count[y] + 1
        /\ ~(pc[t] = "halt" /\ y = x) => suspend_count'[y] = suspend_count[y]
    BY <1>1, <1>2 DEF OtherTypes, x
  <2>4. CASE pc[t] = "halt" /\ y = x
    BY <1>1, <1>3, <1>7, <1>9, <2>1, <2>2, <2>3, <2>4, CountHold
  <2>5. CASE ~(pc[t] = "halt" /\ y = x)
    <3>1. "SUSP" \in state'[y] <=> "SUSP" \in state[y]
      BY <1>3, <1>9, <2>1, <2>5
    <3> QED
      BY <1>1, <1>7, <2>1, <2>2, <2>3, <2>5, <3>1, CountKept
  <2> QED
    BY <2>4, <2>5
<1>11. \A y \in Threads : HaltAt(y)'
  <2>1. pc'[t] \in {"halt_sleep", "dowait"} /\ ast_halt' \subseteq ast_halt \cup {x}
    BY <1>6
  <2>2. \A y \in ast_halt : y \in Threads /\ "HALTED" \notin state[y]
    BY <1>1 DEF Inv, HaltAt, OtherTypes
  <2>3. \A y \in Threads : ~Halts(t, y)
    BY DEF Halts, Dowait
  <2>4. ASSUME NEW y \in ast_halt', y \notin ast_halt PROVE Halts(t, y)'
    BY <1>2, <1>6, <2>4 DEF Halts, Dowait, x
  <2>5. \A y \in ast_halt' : y \in Threads /\ "HALTED" \notin state[y]
    BY <1>2, <2>1, <2>2 DEF x
  <2>6. \A y \in ast_halt' :
           "HALTED" \notin s.state[y] /\ (Halts(t, y)' \/ (y \in ast_halt /\ ~Halts(t, y)))
    BY <1>9, <2>3, <2>4, <2>5
  <2> QED
    BY <1>1, <1>6, <1>7, <1>8, <2>1, <2>6, HaltMoves DEF OtherTypes
<1>12. CallAt(t)' /\ StopAt(t)'
  BY <1>2, <1>6 DEF CallAt, StopAt, Idle, Dowait, Halting, x
<1>13. CpuAt(t)'
  <2>1. CASE Commit(a) /\ pc'[t] = "halt_sleep"
    BY <1>1, <1>4, <2>1, Acting, CpuAsserted DEF Asserted
  <2>2. CASE Commit(z)
    BY <1>1, <1>3, <2>2, CpuCalm
  <2> QED
    BY <1>6, <2>1, <2>2
<1> QED
  BY <1>1, <1>6, <1>7, <1>8, <1>9, <1>10, <1>11, <1>12, <1>13, ActStep, GotStill DEF Inv

LEMMA HaltAgainInv ==
    ASSUME Inv, CallsOK, NEW t \in Threads, HaltAgain(t)
    PROVE  Inv'
<1>1. /\ Runs(t) /\ pc[t] = "halt_again" /\ HaltOrAwait(t, target[t], Now)
      /\ UNCHANGED <<fired, user_stop_count, active, swap_func, panicked>>
      /\ UNCHANGED suspend_count
  BY DEF HaltAgain
<1>2. "HALTED" \notin state[target[t]]
  BY <1>1 DEF Inv, HaltAt
<1> QED
  BY <1>1, <1>2, HaltOrAwaitInv

LEMMA HaltFailInv ==
    ASSUME Inv, CallsOK, NEW t \in Threads, HaltFail(t)
    PROVE  Inv'
<1> DEFINE x == target[t]
           s == thread_wakeup(Now, x, "interrupted")
<1>1. /\ Runs(t) /\ pc[t] = "halt_fail" /\ Commit(s) /\ Goto(t, "release")
      /\ ast_halt' = ast_halt \ {x}
      /\ UNCHANGED <<fired, suspend_count, user_stop_count, wake_active, active,
                     swap_func, panicked>>
  BY DEF HaltFail
<1>2. place[t] = "cpu" /\ Sound(Now) /\ OtherTypes /\ CallAt(t)
  BY <1>1, Acting DEF Asserted
<1>3. x \in Threads /\ op[t] \in {"abort", "terminate"} /\ x # Null
  BY <1>1, <1>2, ValuesAssumption DEF CallAt, Idle, Halting
<1>4. Sound(s) /\ Wakes(Now, s)
  BY <1>2, <1>3, WakeupSound DEF Results
<1> HIDE DEF s
<1>5. \A y \in Threads : /\ Calm(Now, s, y) /\ Still(Now, s, y)
                         /\ "SUSP" \in s.state[y] <=> "SUSP" \in state[y]
                         /\ "HALTED" \in s.state[y] <=> "HALTED" \in state[y]
  BY <1>2, <1>4, WakesCalm, NowFields DEF Wakes
<1>6. /\ \A u \in Threads \ {t} : SameCall(u)
      /\ pc'[t] = "release" /\ op'[t] = op[t] /\ target'[t] = x
      /\ OtherTypes'
  BY <1>1, <1>2, GotoCall DEF Labels, OtherTypes
<1>7. \A y \in Threads : CountAt(y)'
  BY <1>1, <1>5, <1>6, CountStep DEF Holds
<1>8. \A y \in Threads : HaltAt(y)'
  BY <1>1, <1>2, <1>5, <1>6, HaltStep DEF Halts, OtherTypes
<1>9. CallAt(t)' /\ StopAt(t)' /\ CpuAt(t)' /\ panicked' = FALSE
  BY <1>1, <1>2, <1>3, <1>5, <1>6, CpuCalm
     DEF CallAt, StopAt, Idle, Asserted, Dowait, Halting, Inv
<1> QED
  BY <1>1, <1>2, <1>4, <1>5, <1>6, <1>7, <1>8, <1>9, ActStep, GotStill

LEMMA HaltBeginInv ==
    ASSUME Inv, CallsOK, NEW t \in Threads, HaltBegin(t)
    PROVE  Inv'
<1> DEFINE x == target[t]
           more == [suspend_count EXCEPT ![x] = @ + 1]
           woken == thread_wakeup(Now, t, "interrupted")
<1>1. /\ Runs(t) /\ pc[t] = "halt"
      /\ \/ /\ "HALTED" \in state[x] /\ suspend_count' = more
            /\ Goto(t, "halted") /\ Commit(Now) /\ UNCHANGED <<wake_active, ast_halt>>
         \/ /\ Commit(woken) /\ Return(t)
            /\ UNCHANGED <<suspend_count, wake_active, ast_halt>>
         \/ /\ "HALTED" \notin state[x] /\ suspend_count' = more
            /\ HaltOrAwait(t, x, Hold(Now, x))
      /\ UNCHANGED <<fired, user_stop_count, active, swap_func, panicked>>
  BY DEF HaltBegin
<1>2. /\ place[t] = "cpu" /\ Sound(Now) /\ OtherTypes /\ CallAt(t) /\ t # Null
  BY <1>1, Acting, ValuesAssumption DEF Asserted
<1>3. x \in Threads /\ op[t] \in {"abort", "terminate"}
  BY <1>1, <1>2 DEF CallAt, Idle, Halting
<1> HIDE DEF woken, x
<1>4. CASE /\ "HALTED" \in state[x] /\ suspend_count' = more
           /\ Goto(t, "halted") /\ Commit(Now) /\ UNCHANGED <<wake_active, ast_halt>>
  <2>1. /\ \A u \in Threads \ {t} : SameCall(u)
        /\ pc'[t] = "halted" /\ op'[t] = op[t] /\ target'[t] = x
        /\ OtherTypes'
    <3>1. suspend_count' \in [Threads -> Nat]
      BY <1>2, <1>3, <1>4 DEF OtherTypes
    <3> QED
      BY <1>1, <1>2, <1>4, <3>1, GotoCall DEF Labels, OtherTypes, x
  <2>2. \A y \in Threads : Calm(Now, Now, y) /\ Still(Now, Now, y)
    BY DEF Calm, Still
  <2>3. Placed(Now, x)
    BY <1>2, <1>3 DEF Sound
  <2>4. "SUSP" \in state[x]
    BY <1>4, <2>3, NowFields DEF Placed
  <2>5. ASSUME NEW y \in Threads PROVE CountAt(y)'
    <3>1. CountAt(y) /\ state' = state
      BY <1>4, NowFields DEF Inv, Commit
    <3>2. \A u \in Threads : Holds(u, y)' => Holds(u, y) \/ (u = t /\ y = x)
      BY <2>1 DEF Holds, SameCall
    <3>3. CASE y = x
      BY <1>1, <1>2, <1>3, <1>4, <2>1, <2>4, <3>1, <3>2, <3>3, CountHold DEF OtherTypes
    <3>4. CASE y # x
      BY <1>1, <1>2, <1>3, <1>4, <2>1, <3>1, <3>2, <3>4, CountKept DEF OtherTypes
    <3> QED
      BY <3>3, <3>4
  <2>6. \A y \in Threads : HaltAt(y)'
    <3>1. \A y \in Threads : ~Halts(t, y)
      BY <1>1 DEF Halts, Dowait
    <3> QED
      BY <1>2, <1>4, <2>1, <3>1, HaltStep, NowFields DEF OtherTypes
  <2>7. CallAt(t)' /\ StopAt(t)' /\ CpuAt(t)' /\ panicked' = FALSE
    BY <1>1, <1>2, <1>3, <1>4, <2>1, <2>2, CpuCalm, NowFields
       DEF CallAt, StopAt, Idle, Asserted, Dowait, Halting, Inv, Commit
  <2> QED
    BY <1>2, <1>4, <2>1, <2>2, <2>5, <2>6, <2>7, ActStep, GotStill
<1>5. CASE /\ Commit(woken) /\ Return(t)
           /\ UNCHANGED <<suspend_count, wake_active, ast_halt>>
  <2>1. Sound(woken) /\ Wakes(Now, woken)
    BY <1>2, WakeupSound DEF Results, woken
  <2>2. \A y \in Threads : /\ Calm(Now, woken, y) /\ Still(Now, woken, y)
                           /\ "SUSP" \in woken.state[y] <=> "SUSP" \in state[y]
                           /\ "HALTED" \in woken.state[y] <=> "HALTED" \in state[y]
    BY <1>2, <2>1, WakesCalm, NowFields DEF Wakes
  <2>3. /\ \A u \in Threads \ {t} : SameCall(u)
        /\ pc'[t] = "run" /\ op'[t] = "none" /\ target'[t] = Null
        /\ OtherTypes'
    BY <1>1, <1>2, <1>5, ReturnCall DEF OtherTypes
  <2>4. \A y \in Threads : ~Holds(t, y)' /\ ~Halts(t, y)
    BY <1>1, <2>3, ValuesAssumption DEF Holds, Halts, Dowait
  <2>5. \A y \in Threads : CountAt(y)'
    BY <1>1, <1>5, <2>2, <2>3, <2>4, CountStep
  <2>6. \A y \in Threads : HaltAt(y)'
    BY <1>2, <1>5, <2>2, <2>3, <2>4, HaltStep DEF OtherTypes
  <2>7. CallAt(t)' /\ StopAt(t)' /\ CpuAt(t)' /\ panicked' = FALSE
    BY <1>1, <1>2, <1>3, <1>5, <2>2, <2>3, CpuCalm
       DEF CallAt, StopAt, Idle, Asserted, Dowait, Halting, Inv
  <2> QED
    BY <1>2, <1>5, <2>1, <2>2, <2>3, <2>5, <2>6, <2>7, ActStep, GotStill
<1>6. CASE /\ "HALTED" \notin state[x] /\ suspend_count' = more
           /\ HaltOrAwait(t, x, Hold(Now, x))
  BY <1>1, <1>6, HaltOrAwaitInv DEF x
<1> QED
  BY <1>1, <1>4, <1>5, <1>6

\* A thread with AST_HALT is held by the one who halts it.
LEMMA ToHaltSuspended ==
    ASSUME Inv, NEW x \in ast_halt
    PROVE  "SUSP" \in state[x] /\ x \in Threads
<1>1. x \in Threads /\ OtherTypes
  BY DEF Inv, OtherTypes
<1>2. CountAt(x) /\ HaltAt(x)
  BY <1>1 DEF Inv
<1>3. PICK t \in Threads : Halts(t, x)
  BY <1>2 DEF HaltAt
<1>4. Holds(t, x)
  BY <1>3 DEF Halts, Holds, Dowait
<1> QED
  BY <1>1, <1>2, <1>4, HoldersCounted

LEMMA HaltSelfInv ==
    ASSUME Inv, CallsOK, NEW t \in Threads, thread_halt_self(t)
    PROVE  Inv'
<1> DEFINE s == [Now EXCEPT !.state[t] = @ \cup {"HALTED"}]
<1>1. /\ Runs(t) /\ pc[t] = "halt_self" /\ Goto(t, "halt_self_block")
      /\ state' = [state EXCEPT ![t] = @ \cup {"HALTED"}]
      /\ ast_halt' = ast_halt \ {t}
      /\ UNCHANGED <<wait, fired, suspend_count, user_stop_count, wake_active, active,
                     swap_func, place, panicked>>
  BY DEF thread_halt_self
<1>2. /\ place[t] = "cpu" /\ Sound(Now) /\ OtherTypes /\ CallAt(t)
      /\ "RUN" \in state[t] /\ "WAIT" \notin state[t]
      /\ "UNINT" \notin state[t] /\ "HALTED" \notin state[t]
  BY <1>1, Acting DEF Asserted
<1>3. t \in ast_halt /\ "SUSP" \in state[t]
  <2>1. t \in ast_halt
    BY <1>1 DEF Inv, HaltAt
  <2> QED
    BY <2>1, ToHaltSuspended
<1>4. /\ Sound(s) /\ \A u \in Threads \ {t} : Same(Now, s, u)
      /\ s.place = place /\ "HALTED" \in s.state[t]
      /\ \A b \in Sched : b \in s.state[t] <=> b \in state[t]
  BY <1>2, <1>3, HaltedSound, NowFields
<1>5. Commit(s)
  BY <1>1, <1>2 DEF Commit, Now, Sound, Scheduling, wait
<1> HIDE DEF s
<1>6. /\ \A u \in Threads \ {t} : SameCall(u)
      /\ pc'[t] = "halt_self_block" /\ op'[t] = op[t] /\ target'[t] = target[t]
      /\ OtherTypes'
  BY <1>1, <1>2, GotoCall DEF Labels, OtherTypes
<1>7. \A u \in Threads \ {t} : Calm(Now, s, u)
  BY <1>4, SameCalm
<1>8. \A y \in Threads : /\ Still(Now, s, y)
                         /\ "SUSP" \in s.state[y] <=> "SUSP" \in state[y]
  BY <1>2, <1>4, SameCalm, NowFields DEF Still, Sched, Same
<1>9. \A y \in Threads : CountAt(y)'
  BY <1>1, <1>5, <1>6, <1>8, CountStep DEF Holds
<1>10. \A y \in Threads : HaltAt(y)'
  <2>1. \A y \in Threads : ~Halts(t, y)
    BY <1>1 DEF Halts, Dowait
  <2>2. ASSUME NEW y \in ast_halt' PROVE y \in ast_halt /\ y \in Threads /\ "HALTED" \notin s.state[y]
    <3>1. y \in ast_halt /\ y \in Threads \ {t}
      BY <1>1, <1>2 DEF OtherTypes
    <3>2. HaltAt(y)
      BY <3>1 DEF Inv
    <3> QED
      BY <1>4, <3>1, <3>2, NowFields DEF HaltAt, Same
  <2> QED
    BY <1>2, <1>5, <1>6, <2>1, <2>2, HaltMoves
<1>11. CallAt(t)' /\ StopAt(t)' /\ panicked' = FALSE
  BY <1>1, <1>2, <1>6 DEF CallAt, StopAt, Idle, Dowait, Halting, Inv
<1>12. CpuAt(t)'
  BY <1>2, <1>4, <1>5, <1>6 DEF CpuAt, Commit, Sched
<1> QED
  BY <1>2, <1>4, <1>5, <1>6, <1>7, <1>8, <1>9, <1>10, <1>11, <1>12, ActStep, GotStill

LEMMA HaltStoppedInv ==
    ASSUME Inv, CallsOK, NEW t \in Threads, HaltStopped(t)
    PROVE  Inv'
<1> DEFINE x == target[t]
           z == clear_wait(Now, x, "interrupted", TRUE)
           halted == [z EXCEPT !.state[x] = @ \cup {"HALTED"}]
           forced == thread_setrun([z EXCEPT !.state[x] = @ \cup {"RUN", "UNINT"}], {x})
<1>1. /\ Runs(t) /\ pc[t] = "halt_stopped"
      /\ \/ /\ "HALTED" \in state[x] /\ Commit(z) /\ Goto(t, "halted")
            /\ UNCHANGED <<ast_halt, panicked>>
         \/ /\ "HALTED" \notin state[x] /\ Commit(halted) /\ Goto(t, "halted")
            /\ ast_halt' = ast_halt \ {x} /\ UNCHANGED panicked
         \/ /\ "HALTED" \notin state[x] /\ Commit(forced) /\ Goto(t, "dowait")
            /\ panicked' = (z.state[x] \cap Sched # {"SUSP"}) /\ UNCHANGED ast_halt
      /\ UNCHANGED <<fired, suspend_count, user_stop_count, wake_active, active, swap_func>>
  BY DEF HaltStopped
<1>2. /\ place[t] = "cpu" /\ Sound(Now) /\ OtherTypes /\ CallAt(t) /\ StopAt(t)
      /\ "RUN" \in state[t] /\ panicked = FALSE
      /\ pc[t] \notin Asserted \cup {"halt_self_block"}
  BY <1>1, Acting DEF Asserted, Inv
<1>3. /\ x \in Threads /\ op[t] \in {"abort", "terminate"} /\ ~Multiprocessor
      /\ "SUSP" \in state[x] /\ "RUN" \notin state[x] /\ "UNINT" \notin state[x]
      /\ x # t
  BY <1>1, <1>2 DEF CallAt, Idle, Halting, StopAt, CallsOK, OtherTypes
<1>4. Placed(Now, x) /\ HaltAt(x)
  BY <1>2, <1>3 DEF Sound, Inv
<1>5. place[x] = "off"
  BY <1>3, <1>4, NowFields DEF Placed
<1>6. Sound(z) /\ Wakes(Now, z) /\ "WAIT" \notin z.state[x]
  BY <1>2, <1>3, ClearWaitSound, NowFields DEF Results
<1> HIDE DEF z, x
<1>7. \A y \in Threads : /\ Calm(Now, z, y) /\ Still(Now, z, y)
                         /\ "SUSP" \in z.state[y] <=> "SUSP" \in state[y]
                         /\ "HALTED" \in z.state[y] <=> "HALTED" \in state[y]
  BY <1>2, <1>6, WakesCalm, NowFields DEF Wakes
<1>8. /\ "SUSP" \in z.state[x] /\ "RUN" \notin z.state[x] /\ "UNINT" \notin z.state[x]
      /\ z.place[x] = "off"
  <2>1. "SUSP" \in z.state[x] /\ "RUN" \notin z.state[x] /\ "UNINT" \notin z.state[x]
    BY <1>3, <1>7, NowFields DEF Still
  <2>2. Placed(z, x)
    BY <1>3, <1>6 DEF Sound
  <2> QED
    BY <2>1, <2>2 DEF Placed
<1>9. ast_halt \subseteq Threads /\ \A y \in ast_halt : "HALTED" \notin state[y]
  BY <1>2 DEF Inv, HaltAt, OtherTypes
\* A thread that reads the registers of another is not in the middle of that.
<1>10. \A u \in Threads \ {t} : pc[u] # "got"
  BY <1>2, <1>3, Alone DEF Left
<1>11. ASSUME NEW s, Sound(s), Commit(s), Calm(Now, s, t),
              \A u \in Threads \ {t} : Calm(Now, s, u) \/ Aside(Now, s, u),
              \A y \in Threads : "SUSP" \in s.state[y] <=> "SUSP" \in state[y],
              NEW l \in {"halted", "dowait"}, Goto(t, l), l = "halted" => "HALTED" \in s.state[x],
              panicked' = FALSE, ast_halt' \subseteq ast_halt,
              \A y \in ast_halt' : "HALTED" \notin s.state[y],
              \A y \in ast_halt' : y = x => l = "dowait"
       PROVE  Inv'
  <2>1. /\ \A u \in Threads \ {t} : SameCall(u)
        /\ pc'[t] = l /\ op'[t] = op[t] /\ target'[t] = x
        /\ OtherTypes'
    BY <1>1, <1>2, <1>9, <1>11, GotoCall DEF Labels, OtherTypes, x
  <2>2. \A y \in Threads : CountAt(y)'
    <3>1. \A y \in Threads : Holds(t, y)' => Holds(t, y)
      BY <1>1, <2>1 DEF Holds, x
    <3> QED
      BY <1>1, <1>11, <2>1, <3>1, CountStep
  <2>3. \A y \in Threads : HaltAt(y)'
    <3>1. \A y \in Threads : Halts(t, y) => y = x
      BY DEF Halts, x
    <3>2. ASSUME NEW y \in ast_halt', y = x PROVE Halts(t, y)'
      BY <1>3, <1>11, <2>1, <3>2 DEF Halts, Dowait
    <3>3. ASSUME NEW y \in ast_halt', y # x PROVE y \in ast_halt /\ ~Halts(t, y)
      BY <1>9, <1>11, <3>1, <3>3
    <3>4. \A y \in ast_halt' :
             "HALTED" \notin s.state[y] /\ (Halts(t, y)' \/ (y \in ast_halt /\ ~Halts(t, y)))
      BY <1>11, <3>2, <3>3
    <3>5. pc'[t] \notin {"halt_self", "halt_again"} /\ ast_halt' \subseteq Threads
      BY <1>9, <1>11, <2>1
    <3> QED
      BY <1>2, <1>11, <2>1, <3>4, <3>5, HaltMoves
  <2>4. CallAt(t)' /\ StopAt(t)'
    BY <1>3, <1>11, <2>1 DEF CallAt, StopAt, Idle, Dowait, Halting, Commit
  <2>5. CpuAt(t)'
    BY <1>1, <1>2, <1>11, CpuCalm
  <2> QED
    BY <1>2, <1>10, <1>11, <2>1, <2>2, <2>3, <2>4, <2>5, ActStep
<1>12. CASE /\ "HALTED" \in state[x] /\ Commit(z) /\ Goto(t, "halted")
            /\ UNCHANGED <<ast_halt, panicked>>
  BY <1>2, <1>3, <1>6, <1>7, <1>9, <1>11, <1>12
<1>13. CASE /\ "HALTED" \notin state[x] /\ Commit(halted) /\ Goto(t, "halted")
            /\ ast_halt' = ast_halt \ {x} /\ UNCHANGED panicked
  <2>1. /\ Sound(halted) /\ \A u \in Threads \ {x} : Same(z, halted, u)
        /\ halted.place = z.place /\ "HALTED" \in halted.state[x]
        /\ \A b \in Sched : b \in halted.state[x] <=> b \in z.state[x]
    BY <1>3, <1>6, <1>8, HaltedSound
  <2> HIDE DEF halted
  <2>2. \A u \in Threads \ {x} : Calm(Now, halted, u)
    BY <1>7, <2>1 DEF Calm, Same
  <2>3. Aside(Now, halted, x)
    BY <1>5, <1>8, <2>1, NowFields DEF Aside, Sched
  <2>4. \A y \in Threads : "SUSP" \in halted.state[y] <=> "SUSP" \in state[y]
    BY <1>7, <2>1 DEF Same, Sched
  <2>5. \A y \in Threads \ {x} : "HALTED" \in halted.state[y] <=> "HALTED" \in state[y]
    BY <1>7, <2>1 DEF Same
  <2>6. \A y \in ast_halt' : "HALTED" \notin halted.state[y] /\ y # x
    BY <1>9, <1>13, <2>5
  <2>7. Calm(Now, halted, t)
    BY <1>3, <2>2
  <2> QED
    BY <1>2, <1>11, <1>13, <2>1, <2>2, <2>3, <2>4, <2>6, <2>7
<1>14. CASE /\ "HALTED" \notin state[x] /\ Commit(forced) /\ Goto(t, "dowait")
            /\ panicked' = (z.state[x] \cap Sched # {"SUSP"}) /\ UNCHANGED ast_halt
  <2>1. "HALTED" \notin z.state[x]
    BY <1>3, <1>7, <1>14
  <2>2. /\ Sound(forced) /\ \A u \in Threads \ {x} : Same(z, forced, u)
        /\ forced.place[x] = "runq"
        /\ \A b \in {"SUSP", "WAIT", "HALTED"} : b \in forced.state[x] <=> b \in z.state[x]
    BY <1>3, <1>6, <1>8, <2>1, ForcedSound
  <2> HIDE DEF forced
  <2>3. \A u \in Threads \ {x} : Calm(Now, forced, u)
    BY <1>7, <2>2 DEF Calm, Same
  <2>4. Calm(Now, forced, x)
    BY <1>5, <2>1, <2>2, NowFields DEF Calm
  <2>5. \A y \in Threads : /\ "SUSP" \in forced.state[y] <=> "SUSP" \in state[y]
                           /\ "HALTED" \in forced.state[y] <=> "HALTED" \in state[y]
    BY <1>7, <2>2 DEF Same
  \* A stopped thread whose wait has been ended is just suspended: no panic.
  <2>6. panicked' = FALSE
    <3>1. z.state[x] \cap Sched = {"SUSP"}
      BY <1>6, <1>8 DEF Sched
    <3> QED
      BY <1>14, <3>1
  <2> QED
    BY <1>3, <1>9, <1>11, <1>14, <2>2, <2>3, <2>4, <2>5, <2>6
<1> QED
  BY <1>1, <1>12, <1>13, <1>14

-----------------------------------------------------------------------------
(* The invariant.                                                          *)

LEMMA InitInv ==
    ASSUME Init
    PROVE  Inv
<1>1. Now \in Scheduling
  BY DEF Init, Now, Scheduling, Bits, Sched, Places, Results
<1>2. \A x \in Threads : Placed(Now, x)
  BY NowFields DEF Init, Placed
<1>3. OtherTypes
  BY ValuesAssumption DEF Init, OtherTypes, Labels
<1>4. OneCpu /\ panicked = FALSE
  BY DEF Init, OneCpu
<1>5. ASSUME NEW t \in Threads
      PROVE  CallAt(t) /\ CpuAt(t) /\ CountAt(t) /\ HaltAt(t) /\ StopAt(t)
  <2>1. pc[t] = "run" /\ target[t] = Null /\ op[t] = "none" /\ place[t] = "runq"
    BY DEF Init
  <2>2. CallAt(t) /\ CpuAt(t) /\ HaltAt(t) /\ StopAt(t)
    BY <2>1 DEF Init, CallAt, CpuAt, HaltAt, StopAt, Idle, Dowait, Halting, Left
  <2>3. Holders(t) = {}
    BY ValuesAssumption DEF Init, Holders, Holds
  <2>4. Cardinality(Holders(t)) = 0
    BY <2>3, FS_EmptySet
  <2>5. CountAt(t)
    BY <2>4 DEF Init, CountAt, Held
  <2> QED
    BY <2>2, <2>5
<1> QED
  BY <1>1, <1>2, <1>3, <1>4, <1>5 DEF Inv, Sound

LEMMA StutterInv ==
    ASSUME Inv, UNCHANGED vars
    PROVE  Inv'
<1>1. /\ Commit(Now) /\ UNCHANGED <<counts, call, swap_func, panicked>> /\ fired' = fired
      /\ Sound(Now) /\ fired \in Threads \cup {Null}
  BY DEF vars, wait, Commit, Now, Inv, OtherTypes
<1>2. \A x \in Threads : Calm(Now, Now, x) /\ Still(Now, Now, x)
  BY DEF Calm, Still
<1> QED
  BY <1>1, <1>2, QuietStep, NowFields

LEMMA NextInv ==
    ASSUME CallsOK, Inv, [Next]_vars
    PROVE  Inv'
<1>1. ASSUME NEW t \in Threads, Switch(t) PROVE Inv'
  BY <1>1, SelectInv, InvokeInv, SwapinInv, BlockInv DEF Switch
<1>2. ASSUME NEW t \in Threads, Step(t) PROVE Inv'
  <2>1. CASE WaitForEvent(t) \/ thread_will_wait(t) \/ thread_set_timeout(t)
    BY <2>1, WaitForEventInv, WillWaitInv, SetTimeoutInv
  <2>2. CASE thread_release(t) \/ thread_dowait(t)
    BY <2>2, ReleaseInv, DowaitInv
  <2>3. CASE HaltBegin(t) \/ HaltWoken(t) \/ HaltAgain(t) \/ HaltFail(t) \/ HaltStopped(t)
    BY <2>3, HaltBeginInv, HaltWokenInv, HaltAgainInv, HaltFailInv, HaltStoppedInv
  <2>4. CASE ast_taken(t) \/ thread_halt_self(t) \/ TerminateDone(t)
    BY <2>4, AstTakenInv, HaltSelfInv, TerminateDoneInv
  <2> QED
    BY <1>2, <2>1, <2>2, <2>3, <2>4 DEF Step
<1>3. ASSUME NEW t \in Threads, NEW x \in Threads, Call(t, x) PROVE Inv'
  BY <1>3, SuspendInv, ResumeInv, GetStateInv, HaltInv DEF Call
<1>4. ASSUME NEW t \in Threads, thread_go(t) \/ softclock(t) \/ thread_timeout(t) PROVE Inv'
  BY <1>4, GoInv, SoftclockInv, TimeoutInv
<1>5. ASSUME NEW e \in Events, Wakeup(e) PROVE Inv'
  BY <1>5, WakeupInv
<1>6. CASE UNCHANGED vars
  BY <1>6, StutterInv
<1> QED
  BY <1>1, <1>2, <1>3, <1>4, <1>5, <1>6 DEF Next

\* Where every thread is, what its state says, who holds it and what the calls in
\* progress have achieved agree at every step.
THEOREM Invariance ==
    ASSUME CallsOK
    PROVE  Spec => []Inv
<1>1. Init => Inv
  BY InitInv
<1>2. Inv /\ [Next]_vars => Inv'
  BY NextInv
<1> QED
  BY <1>1, <1>2, PTL DEF Spec

\* The fields of the threads and of the calls have their types.
THEOREM Typing ==
    ASSUME CallsOK
    PROVE  Spec => []TypeOK
<1>1. Inv => TypeOK
  BY DEF Inv, Sound, Now, Scheduling, OtherTypes, TypeOK, Bits, Places, Results
<1> QED
  BY <1>1, Invariance, PTL

\* No thread is lost, none is on two queues (kern/sched_prim.c, kern/thread.c).
THEOREM NoneLost ==
    ASSUME CallsOK
    PROVE  Spec => []NoThreadLost
<1>1. ASSUME Inv PROVE NoThreadLost
  <2> SUFFICES ASSUME NEW t \in Threads
               PROVE  /\ "RUN" \in state[t] <=> place[t] # "off"
                      /\ place[t] # "twice"
                      /\ place[t] = "off" => state[t] \cap {"WAIT", "SUSP"} # {}
                      /\ "SUSP" \in state[t] <=> suspend_count[t] > 0
    BY DEF NoThreadLost
  <2>1. Placed(Now, t) /\ CountAt(t)
    BY <1>1 DEF Inv, Sound
  <2> QED
    BY <2>1, NowFields DEF Placed, CountAt
<1> QED
  BY <1>1, Invariance, PTL

\* thread_wakeup_prim finds only waiting threads, softclock only their timers.
THEOREM WaitersDoWait ==
    ASSUME CallsOK
    PROVE  Spec => []WaitersWait
<1>1. ASSUME Inv PROVE WaitersWait
  <2> SUFFICES ASSUME NEW t \in Threads
               PROVE  /\ wait_event[t] # Null => "WAIT" \in state[t]
                      /\ t \in timer => "WAIT" \in state[t]
    BY DEF WaitersWait
  <2>1. Placed(Now, t)
    BY <1>1 DEF Inv, Sound
  <2> QED
    BY <2>1, NowFields DEF Placed
<1> QED
  BY <1>1, Invariance, PTL

\* Neither thread_dispatch nor thread_halt panics.
THEOREM PanicFree ==
    ASSUME CallsOK
    PROVE  Spec => []NoPanic
<1>1. Inv => NoPanic
  BY DEF Inv, NoPanic
<1> QED
  BY <1>1, Invariance, PTL

\* A thread does not run while thread_get_state reads its registers.
THEOREM ReadWhileStopped ==
    ASSUME CallsOK
    PROVE  Spec => []StoppedWhileRead
<1>1. ASSUME Inv PROVE StoppedWhileRead
  <2> SUFFICES ASSUME NEW t \in Threads, pc[t] = "got" PROVE place[target[t]] = "off"
    BY DEF StoppedWhileRead
  <2>1. CallAt(t) /\ StopAt(t)
    BY <1>1 DEF Inv
  <2>2. target[t] \in Threads /\ "RUN" \notin state[target[t]]
    BY <2>1 DEF CallAt, StopAt, Idle
  <2>3. Placed(Now, target[t])
    BY <1>1, <2>2 DEF Inv, Sound
  <2> QED
    BY <2>2, <2>3, NowFields DEF Placed
<1> QED
  BY <1>1, Invariance, PTL

\* What thread_halt has halted is suspended at a clean point until it is released.
THEOREM HaltedStaysHalted ==
    ASSUME CallsOK
    PROVE  Spec => []HaltHolds
<1>1. ASSUME Inv PROVE HaltHolds
  <2> SUFFICES ASSUME NEW t \in Threads, pc[t] = "halted"
               PROVE  /\ {"HALTED", "SUSP"} \subseteq state[target[t]]
                      /\ place[target[t]] = "off" \/ pc[target[t]] = "halt_self_block"
    BY DEF HaltHolds
  <2>1. CallAt(t) /\ StopAt(t)
    BY <1>1 DEF Inv
  <2>2. target[t] \in Threads /\ "HALTED" \in state[target[t]]
    BY <2>1 DEF CallAt, StopAt, Idle
  <2>3. Placed(Now, target[t]) /\ CpuAt(target[t])
    BY <1>1, <2>2 DEF Inv, Sound
  <2> QED
    BY <2>2, <2>3, NowFields DEF Placed, CpuAt
<1> QED
  BY <1>1, Invariance, PTL

-----------------------------------------------------------------------------
(* Timeouts.                                                               *)

\* A step of thread t, in its code or off the processor.
Acts(t) == thread_block(t) \/ Step(t) \/ \E x \in Threads : Call(t, x)

LEMMA ActsRun ==
    ASSUME NEW t \in Threads, Acts(t)
    PROVE  Runs(t) /\ UNCHANGED fired
<1>1. CASE thread_block(t)
  BY <1>1 DEF thread_block
<1>2. CASE Step(t)
  BY <1>2 DEF Step, WaitForEvent, thread_will_wait, thread_set_timeout, thread_release,
              thread_dowait, HaltBegin, HaltWoken, HaltAgain, HaltFail, HaltStopped, ast_taken,
              thread_halt_self, TerminateDone
<1>3. CASE \E x \in Threads : Call(t, x)
  BY <1>3 DEF Call, thread_suspend, thread_resume, thread_get_state, thread_halt
<1> QED
  BY <1>1, <1>2, <1>3 DEF Acts

LEMMA NextCases ==
    ASSUME [Next]_vars
    PROVE  \/ \E t \in Threads : Acts(t)
           \/ \E t \in Threads : thread_select(t) \/ thread_invoke(t) \/ thread_doswapin(t)
           \/ \E t \in Threads : thread_go(t) \/ softclock(t) \/ thread_timeout(t)
           \/ \E e \in Events : Wakeup(e)
           \/ UNCHANGED vars
BY DEF Next, Switch, Acts

\* What the switching of threads keeps of their waits.
LEMMA SwitchKept ==
    ASSUME Inv, NEW t \in Threads, thread_select(t) \/ thread_invoke(t) \/ thread_doswapin(t)
    PROVE  /\ UNCHANGED <<fired, timed, wait_event, wait_result, counts, call>>
           /\ \A x \in Threads : \A b \in {"WAIT", "RUN", "SUSP", "HALTED"} :
                 b \in state'[x] <=> b \in state[x]
<1>1. /\ Sound(Now) /\ Placed(Now, t)
      /\ state \in [Threads -> SUBSET Bits] /\ wait_result \in [Threads -> Results]
  BY NowFields DEF Inv, Sound, Scheduling
<1>2. CASE thread_select(t)
  BY <1>2 DEF thread_select, wait
<1>3. CASE thread_invoke(t)
  BY <1>1, <1>3 DEF thread_invoke, wait
<1>4. CASE thread_doswapin(t)
  <2>1. "RUN" \in state[t] /\ "WAIT" \notin state[t]
    BY <1>1, <1>4, NowFields DEF Placed, thread_doswapin
  <2>2. Requeued(Now, t).state = state /\ Requeued(Now, t).timed = timed
        /\ Requeued(Now, t).wait_event = wait_event /\ Requeued(Now, t).wait_result = wait_result
    BY <1>1, <2>1, RequeuedSound, NowFields
  <2>3. Commit(Requeued(Now, t)) /\ UNCHANGED <<fired, counts, call>>
    BY <1>4, <2>1 DEF thread_doswapin, Requeued
  <2> QED
    BY <2>2, <2>3 DEF Commit
<1> QED
  BY <1>2, <1>3, <1>4

\* An interrupt ends waits, and does nothing else.
LEMMA InterruptWakes ==
    ASSUME Inv, NEW s,
           \/ \E e \in Events : Wakeup(e) /\ s = thread_wakeup(Now, e, "awakened")
           \/ \E x \in Threads : thread_go(x) /\ s = EndWait(Now, {x}, "awakened")
           \/ \E x \in Threads : thread_timeout(x) /\ s = clear_wait(Now, x, "timed_out", FALSE)
    PROVE  Commit(s) /\ Sound(s) /\ Wakes(Now, s) /\ UNCHANGED <<counts, call>>
<1>1. Sound(Now)
  BY DEF Inv
<1>2. ASSUME NEW e \in Events, Wakeup(e), s = thread_wakeup(Now, e, "awakened")
      PROVE  Commit(s) /\ Sound(s) /\ Wakes(Now, s) /\ UNCHANGED <<counts, call>>
  BY <1>1, <1>2, WakeupSound, ValuesAssumption DEF Results, Wakeup
<1>3. ASSUME NEW x \in Threads, thread_go(x), s = EndWait(Now, {x}, "awakened")
      PROVE  Commit(s) /\ Sound(s) /\ Wakes(Now, s) /\ UNCHANGED <<counts, call>>
  BY <1>1, <1>3, EndWaitSound DEF Results, thread_go
<1>4. ASSUME NEW x \in Threads, thread_timeout(x), s = clear_wait(Now, x, "timed_out", FALSE)
      PROVE  Commit(s) /\ Sound(s) /\ Wakes(Now, s) /\ UNCHANGED <<counts, call>>
  BY <1>1, <1>4, ClearWaitSound DEF Results, thread_timeout
<1> QED
  BY <1>2, <1>3, <1>4

\* On a uniprocessor no thread acts between softclock's taking a timer and the
\* thread_timeout it calls.
LEMMA FiredNext ==
    ASSUME ~Multiprocessor, Inv, FiredOK, [Next]_vars
    PROVE  FiredOK'
<1>1. CASE \E t \in Threads : Acts(t)
  BY <1>1, ActsRun, ValuesAssumption DEF Runs, FiredOK
<1>2. CASE \E t \in Threads : thread_select(t) \/ thread_invoke(t) \/ thread_doswapin(t)
  BY <1>2, SwitchKept DEF FiredOK
<1>3. CASE \E t \in Threads : softclock(t)
  <2>1. PICK t \in Threads : softclock(t)
    BY <1>3
  <2>2. Placed(Now, t)
    BY DEF Inv, Sound
  <2>3. t \in timed /\ fired' = t /\ UNCHANGED <<timed, state>>
    BY <2>1, <2>2, NowFields DEF softclock, Placed
  <2> QED
    BY <2>3 DEF FiredOK
<1>4. CASE \E t \in Threads : thread_timeout(t)
  BY <1>4, ValuesAssumption DEF thread_timeout, FiredOK
<1>5. CASE (\E e \in Events : Wakeup(e)) \/ (\E t \in Threads : thread_go(t))
  <2>1. PICK s : Commit(s) /\ Wakes(Now, s)
    BY <1>5, InterruptWakes
  <2>2. UNCHANGED fired
    BY <1>5 DEF Wakeup, thread_go
  <2>3. \A x \in Threads : "WAIT" \in state'[x] => "WAIT" \in state[x] /\ (x \in timed => x \in timed')
    BY <2>1, NowFields DEF Wakes, Commit
  <2> QED
    BY <2>2, <2>3 DEF FiredOK
<1>6. CASE UNCHANGED vars
  BY <1>6 DEF vars, wait, FiredOK
<1> QED
  BY <1>1, <1>2, <1>3, <1>4, <1>5, <1>6, NextCases

\* No wait ends, in going from state to s, by a timeout.
Untimed(s) == \A x \in Threads : "WAIT" \in state[x] \ s.state[x] => s.wait_result[x] # "timed_out"

LEMMA UntimedWakeup ==
    ASSUME Inv, NEW z, Sound(z), \A x \in Threads : "WAIT" \in state[x] => "WAIT" \in z.state[x],
           NEW e \in Threads, NEW r \in {"awakened", "interrupted"}
    PROVE  Untimed(thread_wakeup(z, e, r))
<1>1. e # Null /\ r \in Results
  BY ValuesAssumption DEF Results
<1> DEFINE s == thread_wakeup(z, e, r)
<1>2. \A t \in Threads : "WAIT" \in z.state[t] \ s.state[t] => s.wait_result[t] = r
  BY <1>1, WakeupSound
<1> HIDE DEF s
<1>3. Untimed(s)
  BY <1>2 DEF Untimed
<1> QED
  BY <1>3 DEF s

\* The routines that end no wait.
LEMMA KeepsWaits ==
    ASSUME NEW z, Sound(z), NEW x \in Threads
    PROVE  /\ \A u \in Threads : "WAIT" \in z.state[u] => "WAIT" \in Hold(z, x).state[u]
           /\ \A u \in Threads : "WAIT" \in z.state[u] => "WAIT" \in Release(z, x).state[u]
           /\ \A e, i : \A u \in Threads :
                 "WAIT" \in z.state[u] => "WAIT" \in assert_wait(z, x, e, i).state[u]
<1>1. \A u \in Threads : "WAIT" \in z.state[u] => "WAIT" \in Hold(z, x).state[u]
  BY HoldSound DEF Same
<1>2. \A u \in Threads : "WAIT" \in z.state[u] => "WAIT" \in Unsuspend(z, x).state[u]
  BY UnsuspendSound DEF Same
<1>3. \A u \in Threads : "WAIT" \in z.state[u] => "WAIT" \in Release(z, x).state[u]
  BY <1>2 DEF Release
<1>4. ASSUME NEW e, NEW i, NEW u \in Threads, "WAIT" \in z.state[u]
      PROVE  "WAIT" \in assert_wait(z, x, e, i).state[u]
  <2>1. assert_wait(z, x, e, i).state =
          [z.state EXCEPT ![x] = @ \cup {"WAIT"} \cup (IF i THEN {} ELSE {"UNINT"})]
    BY DEF Sound, Scheduling, assert_wait
  <2>2. z.state \in [Threads -> SUBSET Bits]
    BY DEF Sound, Scheduling
  <2> QED
    BY <1>4, <2>1, <2>2
<1> QED
  BY <1>1, <1>3, <1>4

LEMMA UntimedAct ==
    ASSUME Inv, NEW t \in Threads, Acts(t)
    PROVE  \A x \in Threads : "WAIT" \in state[x] \ state'[x] => wait_result'[x] # "timed_out"
<1> DEFINE Kept(s) == \A x \in Threads : "WAIT" \in state[x] => "WAIT" \in s.state[x]
           Goal == \A x \in Threads : "WAIT" \in state[x] \ state'[x] => wait_result'[x] # "timed_out"
<1>1. /\ Sound(Now) /\ OtherTypes /\ CallAt(t) /\ StopAt(t)
      /\ state \in [Threads -> SUBSET Bits]
  BY NowFields DEF Inv, Sound, Scheduling
<1>2. ASSUME NEW s, Commit(s), Kept(s) PROVE Goal
  BY <1>2 DEF Commit
<1>3. ASSUME NEW s, Commit(s), Untimed(s) PROVE Goal
  BY <1>3 DEF Commit, Untimed
<1>4. CASE UNCHANGED state
  BY <1>4
<1>5. ASSUME NEW x \in Threads, NEW s, Commit(s),
             \/ s = Now \/ s = Hold(Now, x) \/ s = Release(Now, x)
             \/ \E e, i : s = assert_wait(Now, t, e, i)
             \/ \E e, i : s = assert_wait(Hold(Now, x), t, e, i)
      PROVE  Goal
  <2>1. Sound(Hold(Now, x))
    BY <1>1, HoldSound
  <2>2. Kept(s)
    BY <1>1, <1>5, <2>1, KeepsWaits, NowFields
  <2> QED
    BY <1>2, <1>5, <2>2
<1>6. CASE thread_block(t)
  <2> DEFINE off == [Now EXCEPT !.state[t] = @ \ {"RUN"}, !.place[t] = "off"]
             s == thread_wakeup(off, t, "awakened")
  <2>1. place[t] = "cpu" /\ thread_dispatch(t) /\ off = Off(Now, t)
    BY <1>6 DEF thread_block, Runs, Off
  <2>2. \/ Suspends(state[t]) /\ Commit(s)
        \/ (Suspends(state[t]) \/ Blocks(state[t])) /\ Commit(off)
        \/ Requeues(state[t]) /\ Commit(Requeued(Now, t))
        \/ Commit(Now)
    BY <2>1 DEF thread_dispatch, Requeued
  <2> HIDE DEF off
  <2>3. ASSUME Suspends(state[t]) \/ Blocks(state[t])
        PROVE  Sound(off) /\ Kept(off)
    <3>1. "WAIT" \in state[t] \/ "SUSP" \in state[t]
      BY <2>3 DEF Suspends, Blocks
    <3> QED
      BY <1>1, <2>1, <3>1, OffSound, NowFields DEF Same
  <2>4. CASE Suspends(state[t]) /\ Commit(s)
    <3>1. Untimed(s)
      BY <2>3, <2>4, UntimedWakeup
    <3> QED
      BY <1>3, <2>4, <3>1
  <2>5. CASE (Suspends(state[t]) \/ Blocks(state[t])) /\ Commit(off)
    BY <1>2, <2>3, <2>5
  <2>6. CASE Requeues(state[t]) /\ Commit(Requeued(Now, t))
    <3>1. Requeued(Now, t).state = state
      BY NowFields DEF Requeued, thread_setrun, Now
    <3> QED
      BY <2>6, <3>1 DEF Commit
  <2>7. CASE Commit(Now)
    BY <1>5, <2>7
  <2> QED
    BY <2>2, <2>4, <2>5, <2>6, <2>7
<1>7. CASE WaitForEvent(t)
  BY <1>5, <1>7 DEF WaitForEvent
<1>8. CASE thread_will_wait(t)
  BY <1>1, <1>8 DEF thread_will_wait
<1>9. CASE \/ thread_set_timeout(t) \/ HaltWoken(t) \/ ast_taken(t) \/ TerminateDone(t)
           \/ \E x \in Threads : thread_halt(t, x)
  BY <1>4, <1>9 DEF thread_set_timeout, HaltWoken, ast_taken, TerminateDone, thread_halt
<1>10. CASE thread_halt_self(t)
  BY <1>1, <1>10 DEF thread_halt_self
<1>11. CASE thread_release(t)
  <2>1. target[t] \in Threads /\ Commit(Release(Now, target[t]))
    BY <1>1, <1>11 DEF thread_release, CallAt, Idle
  <2> QED
    BY <1>5, <2>1
<1>12. ASSUME NEW x \in Threads,
              thread_suspend(t, x) \/ thread_resume(t, x) \/ thread_get_state(t, x)
       PROVE  Goal
  <2>1. Commit(Now) \/ Commit(Hold(Now, x)) \/ Commit(Release(Now, x))
    BY <1>12 DEF thread_suspend, thread_resume, thread_get_state
  <2> QED
    BY <1>5, <2>1
<1>13. CASE thread_dowait(t)
  <2> DEFINE x == target[t]
             off == [Now EXCEPT !.state[x] = @ \ {"RUN"}, !.place[x] = "off"]
             s == thread_wakeup(off, x, "awakened")
  <2>1. /\ x \in Threads /\ off = Off(Now, x)
        /\ \/ Commit(Now) \/ Commit(assert_wait(Now, t, x, TRUE))
           \/ OffRunq(x) /\ Commit(IF x \in wake_active THEN s ELSE off)
    BY <1>1, <1>13 DEF thread_dowait, Await, CallAt, Idle, Off
  <2> HIDE DEF off, x
  <2>2. CASE Commit(Now) \/ Commit(assert_wait(Now, t, x, TRUE))
    BY <1>5, <2>1, <2>2
  <2>3. CASE OffRunq(x) /\ Commit(IF x \in wake_active THEN s ELSE off)
    <3>1. "SUSP" \in state[x]
      BY <2>3 DEF OffRunq, Sched
    <3>2. Sound(off) /\ Kept(off)
      BY <1>1, <2>1, <3>1, OffSound, NowFields DEF Same
    <3>3. Untimed(s)
      BY <2>1, <3>2, UntimedWakeup
    <3> QED
      BY <1>2, <1>3, <2>3, <3>2, <3>3
  <2> QED
    BY <2>1, <2>2, <2>3
<1>14. CASE HaltBegin(t) \/ HaltAgain(t) \/ HaltFail(t)
  <2> DEFINE x == target[t]
  <2>1. x \in Threads
    BY <1>1, <1>14 DEF HaltBegin, HaltAgain, HaltFail, CallAt, Idle
  <2>2. \/ Commit(Now) \/ Commit(Hold(Now, x))
        \/ Commit(assert_wait(Now, t, x, TRUE)) \/ Commit(assert_wait(Hold(Now, x), t, x, TRUE))
        \/ \E u \in Threads : Commit(thread_wakeup(Now, u, "interrupted"))
    BY <1>14, <2>1 DEF HaltBegin, HaltAgain, HaltFail, HaltOrAwait, Await
  <2> HIDE DEF x
  <2>3. \A u \in Threads : Untimed(thread_wakeup(Now, u, "interrupted"))
    BY <1>1, UntimedWakeup, NowFields
  <2> QED
    BY <1>3, <1>5, <2>1, <2>2, <2>3
<1>15. CASE HaltStopped(t)
  <2> DEFINE x == target[t]
             z == clear_wait(Now, x, "interrupted", TRUE)
  <2>1. /\ x \in Threads /\ Runs(t) /\ pc[t] = "halt_stopped"
        /\ \/ Commit(z) \/ Commit([z EXCEPT !.state[x] = @ \cup {"HALTED"}])
           \/ Commit(thread_setrun([z EXCEPT !.state[x] = @ \cup {"RUN", "UNINT"}], {x}))
    BY <1>1, <1>15 DEF HaltStopped, CallAt, Idle
  <2>2. /\ Sound(z)
        /\ \A u \in Threads : "WAIT" \in state[u] \ z.state[u] => z.wait_result[u] = "interrupted"
    <3>1. /\ Sound(z)
          /\ \A u \in Threads : "WAIT" \in Now.state[u] \ z.state[u] =>
                z.wait_result[u] = "interrupted"
      <4>1. PICK i \in BOOLEAN : i = TRUE
        OBVIOUS
      <4>2. /\ Sound(clear_wait(Now, x, "interrupted", i))
            /\ \A u \in Threads :
                  "WAIT" \in Now.state[u] \ clear_wait(Now, x, "interrupted", i).state[u] =>
                     clear_wait(Now, x, "interrupted", i).wait_result[u] = "interrupted"
        BY <1>1, <2>1, ClearWaitSound DEF Results
      <4> QED
        BY <4>1, <4>2
    <3> HIDE DEF z
    <3> QED
      BY <3>1, NowFields
  <2> HIDE DEF z, x
  <2>3. \A s : /\ s.wait_result = z.wait_result
               /\ \A u \in Threads : "WAIT" \in z.state[u] => "WAIT" \in s.state[u]
               => Untimed(s)
    BY <2>2 DEF Untimed
  <2>4. Untimed(z)
    BY <2>3
  <2>5. z.state \in [Threads -> SUBSET Bits]
    BY <2>2 DEF Sound, Scheduling
  <2>6. Untimed([z EXCEPT !.state[x] = @ \cup {"HALTED"}])
    BY <2>1, <2>2, <2>3, <2>5 DEF Sound, Scheduling
  <2>7. Untimed(thread_setrun([z EXCEPT !.state[x] = @ \cup {"RUN", "UNINT"}], {x}))
    BY <2>1, <2>2, <2>3, <2>5 DEF Sound, Scheduling, thread_setrun
  <2> QED
    BY <1>3, <2>1, <2>4, <2>6, <2>7
<1> QED
  BY <1>6, <1>7, <1>8, <1>9, <1>10, <1>11, <1>12, <1>13, <1>14, <1>15 DEF Acts, Step, Call

\* On a uniprocessor a timeout ends only the wait that thread_set_timeout was
\* called for (kern/mach_clock.c, thread_timeout).
THEOREM TimeoutsNotStale ==
    ASSUME ~Multiprocessor
    PROVE  Spec => NoStaleTimeout
<1> DEFINE Stale == \E x \in Threads : /\ "WAIT" \in state[x] \ state'[x]
                                       /\ wait_result'[x] = "timed_out" /\ x \notin timed
<1>1. CallsOK
  BY DEF CallsOK
<1>2. Init => FiredOK
  BY ValuesAssumption DEF Init, FiredOK
<1>3. Inv /\ FiredOK /\ [Next]_vars => FiredOK'
  BY FiredNext
<1>4. ASSUME Inv, FiredOK, [Next]_vars PROVE ~Stale
  <2>1. CASE \E t \in Threads : Acts(t)
    BY <1>4, <2>1, UntimedAct
  <2>2. CASE \E t \in Threads : thread_select(t) \/ thread_invoke(t) \/ thread_doswapin(t)
    BY <1>4, <2>2, SwitchKept
  <2>3. CASE \E t \in Threads : softclock(t)
    BY <2>3 DEF softclock
  <2>4. ASSUME NEW y \in Threads, thread_timeout(y) PROVE ~Stale
    <3> DEFINE s == clear_wait(Now, y, "timed_out", FALSE)
    <3>1. /\ s = EndWait(Now, {y}, "timed_out") /\ Commit(s) /\ fired = y
          /\ Now \in Scheduling
      BY <1>4, <2>4 DEF clear_wait, thread_timeout, Inv, Sound
    <3> HIDE DEF s
    <3>2. \A x \in Threads : Ended(Now, s, {y}, "timed_out", x)
      BY <3>1, EndWaitFields DEF Results
    <3>3. \A x \in Threads : "WAIT" \in state[x] \ state'[x] => x = y
      BY <3>1, <3>2, NowFields DEF Ended, Commit
    <3> QED
      BY <1>4, <3>1, <3>3 DEF FiredOK
  <2>5. ASSUME NEW e \in Events, Wakeup(e) PROVE ~Stale
    <3> DEFINE s == thread_wakeup(Now, e, "awakened")
    <3>1. Commit(s) /\ Sound(Now) /\ e # Null
      BY <1>4, <2>5, ValuesAssumption DEF Wakeup, Inv
    <3>2. \A x \in Threads : "WAIT" \in Now.state[x] \ s.state[x] => s.wait_result[x] = "awakened"
      BY <3>1, WakeupSound DEF Results
    <3> HIDE DEF s
    <3> QED
      BY <3>1, <3>2, NowFields DEF Commit
  <2>6. ASSUME NEW y \in Threads, thread_go(y) PROVE ~Stale
    <3> DEFINE s == EndWait(Now, {y}, "awakened")
    <3>1. Commit(s) /\ Sound(Now)
      BY <1>4, <2>6 DEF thread_go, Inv
    <3>2. \A x \in Threads : "WAIT" \in Now.state[x] \ s.state[x] => s.wait_result[x] = "awakened"
      BY <3>1, EndWaitSound DEF Results
    <3> HIDE DEF s
    <3> QED
      BY <3>1, <3>2, NowFields DEF Commit
  <2>7. CASE UNCHANGED vars
    BY <2>7 DEF vars
  <2> QED
    BY <1>4, <2>1, <2>2, <2>3, <2>4, <2>5, <2>6, <2>7, NextCases
<1>5. ASSUME Inv, FiredOK, [Next]_vars
      PROVE  [\A x \in Threads :
                "WAIT" \in state[x] \ state'[x] /\ wait_result'[x] = "timed_out" => x \in timed]_vars
  BY <1>4, <1>5
<1>6. Spec => []Inv
  BY <1>1, Invariance
<1>7. Spec => []FiredOK
  BY <1>2, <1>3, <1>6, PTL DEF Spec
<1> QED
  BY <1>5, <1>6, <1>7, PTL DEF Spec, NoStaleTimeout

-----------------------------------------------------------------------------
(* Sleeping until a thread stops.                                          *)

\* The calls that are left are those to suspend a thread and to read its state.
NoReleases == Ops \cap {"resume", "abort", "terminate"} = {}

LEMMA NoHalts ==
    ASSUME NoReleases, Inv
    PROVE  /\ ast_halt = {}
           /\ \A t \in Threads : /\ op[t] \notin {"abort", "terminate"}
                                 /\ pc[t] \notin Halting \cup {"halt_self"}
<1>1. OtherTypes /\ \A t \in Threads : CallAt(t) /\ HaltAt(t)
  BY DEF Inv
<1>2. \A t \in Threads : op[t] \notin {"abort", "terminate"}
  BY <1>1 DEF OtherTypes, NoReleases
<1>3. ast_halt = {}
  BY <1>1, <1>2 DEF OtherTypes, HaltAt, Halts
<1> QED
  BY <1>1, <1>2, <1>3 DEF CallAt, HaltAt

\* An interrupt, or a step that keeps the calls as they are.
LEMMA SleepWakes ==
    ASSUME SleepOK, NEW s, Commit(s), Wakes(Now, s), UNCHANGED <<counts, call>>
    PROVE  SleepOK'
<1>1. \A t \in Threads : StopCounted(t)'
  BY DEF SleepOK, StopCounted, counts, call
<1>2. ASSUME NEW t \in Threads, NEW x \in Threads, SleepsOn(t, x)'
      PROVE  target'[t] = x /\ Awaited(x)'
  <2>1. SleepsOn(t, x)
    BY <1>2, NowFields DEF SleepsOn, AsleepOn, Wakes, Commit, call
  <2>2. target[t] = x /\ Awaited(x)
    BY <2>1 DEF SleepOK
  <2> QED
    BY <2>2, NowFields DEF Awaited, Wakes, Commit, counts, call
<1> QED
  BY <1>1, <1>2 DEF SleepOK

\* A step of t, to s: who sleeps until x stops still does, and will be woken.
LEMMA SleepStep ==
    ASSUME SleepOK, NEW t \in Threads, NEW s, Commit(s),
           \A u \in Threads \ {t} : SameCall(u), StopCounted(t)',
           \A x \in Threads : user_stop_count[x] > 0 => user_stop_count'[x] > 0,
           \A u \in Threads \ {t} : "WAIT" \in s.state[u] =>
              "WAIT" \in state[u] /\ s.wait_event[u] = wait_event[u],
           \A x \in Threads : Awaited(x) =>
              \/ x \in wake_active' /\ "SUSP" \in s.state[x]
                 /\ ("RUN" \in s.state[x] \/ "UNINT" \in s.state[x])
              \/ \A u \in Threads \ {t} : SleepsOn(u, x) => s.wait_event[u] # x,
           \A x \in Threads : SleepsOn(t, x)' => target'[t] = x /\ Awaited(x)'
    PROVE  SleepOK'
<1>1. ASSUME NEW u \in Threads PROVE StopCounted(u)'
  <2>1. StopCounted(u)
    BY DEF SleepOK
  <2> QED
    BY <2>1 DEF StopCounted, SameCall
<1>2. ASSUME NEW u \in Threads \ {t}, NEW x \in Threads, SleepsOn(u, x)'
      PROVE  target'[u] = x /\ Awaited(x)'
  <2>1. SleepsOn(u, x) /\ s.wait_event[u] = x
    BY <1>2 DEF SleepsOn, AsleepOn, Commit, SameCall
  <2>2. target[u] = x /\ Awaited(x)
    BY <2>1 DEF SleepOK
  <2>3. x \in wake_active' /\ "SUSP" \in s.state[x]
        /\ ("RUN" \in s.state[x] \/ "UNINT" \in s.state[x])
    BY <2>1, <2>2
  <2> QED
    BY <2>2, <2>3 DEF Awaited, Commit, SameCall
<1> QED
  BY <1>1, <1>2 DEF SleepOK

LEMMA SleepSwitch ==
    ASSUME Inv, SleepOK, NEW t \in Threads,
           thread_select(t) \/ thread_invoke(t) \/ thread_doswapin(t)
    PROVE  SleepOK'
<1>1. /\ UNCHANGED <<wait_event, counts, call>>
      /\ \A x \in Threads : \A b \in {"WAIT", "RUN", "SUSP", "HALTED"} :
            b \in state'[x] <=> b \in state[x]
  BY SwitchKept
<1>2. ASSUME NEW x \in Threads, "UNINT" \in state[x]
      PROVE  "UNINT" \in state'[x] \/ "RUN" \in state'[x]
  <2>1. CASE thread_select(t)
    BY <1>2, <2>1 DEF thread_select
  <2>2. CASE thread_invoke(t) \/ thread_doswapin(t)
    <3>1. Placed(Now, t) /\ place[t] = "chosen" /\ state \in [Threads -> SUBSET Bits]
      BY <2>2, NowFields DEF Inv, Sound, Scheduling, thread_invoke, thread_doswapin
    <3>2. "RUN" \in state[t]
      BY <3>1, NowFields DEF Placed
    <3>3. CASE thread_invoke(t)
      BY <1>1, <1>2, <3>1, <3>2, <3>3 DEF thread_invoke
    <3>4. CASE thread_doswapin(t)
      BY <1>2, <3>2, <3>4, NowFields DEF thread_doswapin, Commit, thread_setrun, Now
    <3> QED
      BY <2>2, <3>3, <3>4
  <2> QED
    BY <2>1, <2>2
<1>3. \A u \in Threads : StopCounted(u)'
  BY <1>1 DEF SleepOK, StopCounted, counts, call
<1>4. ASSUME NEW u \in Threads, NEW x \in Threads, SleepsOn(u, x)'
      PROVE  target'[u] = x /\ Awaited(x)'
  <2>1. SleepsOn(u, x)
    BY <1>1, <1>4 DEF SleepsOn, AsleepOn, call
  <2>2. target[u] = x /\ Awaited(x)
    BY <2>1 DEF SleepOK
  <2> QED
    BY <1>1, <1>2, <2>2 DEF Awaited, counts, call
<1> QED
  BY <1>3, <1>4 DEF SleepOK

\* x is taken off a processor or a run queue as it stops; who sleeps until then
\* is woken.
LEMMA SleepOff ==
    ASSUME Inv, SleepOK, NEW x \in Threads, "SUSP" \in state[x],
           NEW s, s = IF x \in wake_active THEN thread_wakeup(Off(Now, x), x, "awakened")
                      ELSE Off(Now, x),
           wake_active' = wake_active \ {x}
    PROVE  /\ \A u \in Threads : "WAIT" \in s.state[u] =>
                 "WAIT" \in state[u] /\ s.wait_event[u] = wait_event[u]
           /\ \A y \in Threads : Awaited(y) =>
                 \/ y \in wake_active' /\ "SUSP" \in s.state[y]
                    /\ ("RUN" \in s.state[y] \/ "UNINT" \in s.state[y])
                 \/ \A u \in Threads : SleepsOn(u, y) => s.wait_event[u] # y
<1> DEFINE off == Off(Now, x)
           woken == thread_wakeup(off, x, "awakened")
<1>1. /\ Sound(off) /\ \A u \in Threads \ {x} : Same(Now, off, u)
      /\ \A b \in {"SUSP", "WAIT", "UNINT", "HALTED"} : b \in off.state[x] <=> b \in state[x]
      /\ off.wait_event = wait_event
  BY OffSound, NowFields DEF Inv
<1> HIDE DEF off
<1>2. Sound(woken) /\ Wakes(off, woken) /\ \A u \in Threads : woken.wait_event[u] # x
  BY <1>1, WakeupSound, ValuesAssumption DEF Results
<1> HIDE DEF woken
<1>3. CASE x \in wake_active
  <2>1. s = woken
    BY <1>3 DEF woken, off
  <2>2. ASSUME NEW u \in Threads, "WAIT" \in s.state[u]
        PROVE  "WAIT" \in state[u] /\ s.wait_event[u] = wait_event[u]
    <3>1. "WAIT" \in off.state[u] /\ s.wait_event[u] = off.wait_event[u]
      BY <1>2, <2>1, <2>2 DEF Wakes
    <3> QED
      BY <1>1, <3>1, NowFields DEF Same
  <2>3. ASSUME NEW y \in Threads \ {x}, Awaited(y)
        PROVE  /\ y \in wake_active' /\ "SUSP" \in s.state[y]
               /\ "RUN" \in s.state[y] \/ "UNINT" \in s.state[y]
    <3>1. "SUSP" \in off.state[y] /\ ("RUN" \in off.state[y] \/ "UNINT" \in off.state[y])
      BY <1>1, <2>3, NowFields DEF Same, Awaited
    <3>2. "SUSP" \in s.state[y] /\ ("RUN" \in s.state[y] \/ "UNINT" \in s.state[y])
      BY <1>2, <2>1, <3>1 DEF Wakes
    <3> QED
      BY <2>3, <3>2 DEF Awaited
  <2> QED
    BY <1>2, <2>1, <2>2, <2>3
<1>4. CASE x \notin wake_active
  <2>1. s = off /\ \A y \in Threads : Awaited(y) => y # x
    BY <1>4 DEF off, Awaited
  <2> QED
    BY <1>1, <2>1, NowFields DEF Same, Awaited
<1> QED
  BY <1>3, <1>4

LEMMA SleepBlock ==
    ASSUME Inv, SleepOK, NEW t \in Threads, thread_block(t)
    PROVE  SleepOK'
<1> DEFINE off == [Now EXCEPT !.state[t] = @ \ {"RUN"}, !.place[t] = "off"]
           woken == IF t \in wake_active THEN thread_wakeup(off, t, "awakened") ELSE off
<1>1. /\ place[t] = "cpu" /\ thread_dispatch(t) /\ off = Off(Now, t)
      /\ pc' = [pc EXCEPT ![t] = AfterBlock(pc[t])]
      /\ UNCHANGED <<target, op, user_stop_count>>
  BY DEF thread_block, Runs, Off, Goto
<1>2. /\ Sound(Now) /\ Placed(Now, t) /\ OtherTypes /\ state[t] \in SUBSET Bits
  BY NowFields DEF Inv, Sound, Scheduling
<1>3. /\ \A u \in Threads \ {t} : SameCall(u)
      /\ \A u \in Threads : pc'[u] \in {"dowait_sleep", "dowait_woken"} =>
            pc[u] \in {"dowait_sleep", "dowait_woken"}
  BY <1>1, <1>2 DEF SameCall, AfterBlock, OtherTypes
<1> HIDE DEF off
<1>4. PICK s : /\ Commit(s)
               /\ \A u \in Threads : "WAIT" \in s.state[u] =>
                     "WAIT" \in state[u] /\ s.wait_event[u] = wait_event[u]
               /\ \A x \in Threads : Awaited(x) =>
                     \/ x \in wake_active' /\ "SUSP" \in s.state[x]
                        /\ ("RUN" \in s.state[x] \/ "UNINT" \in s.state[x])
                     \/ \A u \in Threads : SleepsOn(u, x) => s.wait_event[u] # x
  <2>1. /\ "RUN" \in state[t]
        /\ Suspends(state[t]) => "SUSP" \in state[t]
        /\ Blocks(state[t]) => "WAIT" \in state[t] /\ ("SUSP" \in state[t] => "UNINT" \in state[t])
        /\ Requeues(state[t]) => "WAIT" \notin state[t]
        /\ Suspends(state[t]) \/ Requeues(state[t]) \/ Blocks(state[t])
    BY <1>1, <1>2, NowFields, DispatchCases DEF Placed
  <2>2. \/ Suspends(state[t]) /\ Commit(woken) /\ wake_active' = wake_active \ {t}
        \/ Requeues(state[t]) /\ Commit(Requeued(Now, t)) /\ UNCHANGED wake_active
        \/ Blocks(state[t]) /\ Commit(off) /\ UNCHANGED wake_active
    BY <1>1, <2>1 DEF thread_dispatch, Requeued, off
  <2>3. CASE Suspends(state[t]) /\ Commit(woken) /\ wake_active' = wake_active \ {t}
    BY <1>1, <2>1, <2>3, SleepOff
  <2>4. CASE Requeues(state[t]) /\ Commit(Requeued(Now, t)) /\ UNCHANGED wake_active
    <3>1. Requeued(Now, t).state = state /\ Requeued(Now, t).wait_event = wait_event
      BY <1>2, <2>1, <2>4, RequeuedSound, NowFields
    <3> QED
      BY <2>4, <3>1 DEF Awaited
  <2>5. CASE Blocks(state[t]) /\ Commit(off) /\ UNCHANGED wake_active
    <3>1. /\ \A u \in Threads \ {t} : Same(Now, off, u)
          /\ \A b \in {"SUSP", "WAIT", "UNINT", "HALTED"} : b \in off.state[t] <=> b \in state[t]
          /\ off.wait_event = wait_event
      BY <1>1, <1>2, <2>1, <2>5, OffSound, NowFields
    <3> QED
      BY <2>1, <2>5, <3>1, NowFields DEF Awaited, Same
  <2> QED
    BY <2>2, <2>3, <2>4, <2>5
<1>5. StopCounted(t)'
  BY <1>1 DEF SleepOK, StopCounted
<1>6. ASSUME NEW x \in Threads, SleepsOn(t, x)' PROVE target'[t] = x /\ Awaited(x)'
  <2>1. SleepsOn(t, x) /\ s.wait_event[t] = x
    BY <1>3, <1>4, <1>6 DEF SleepsOn, AsleepOn, Commit
  <2>2. target[t] = x /\ Awaited(x)
    BY <2>1 DEF SleepOK
  <2> QED
    BY <1>1, <1>4, <2>1, <2>2 DEF Awaited, Commit
<1> QED
  BY <1>1, <1>3, <1>4, <1>5, <1>6, SleepStep

LEMMA SleepWait ==
    ASSUME Inv, SleepOK, NEW t \in Threads,
           WaitForEvent(t) \/ thread_will_wait(t) \/ thread_set_timeout(t)
    PROVE  SleepOK'
<1>1. /\ OtherTypes /\ state \in [Threads -> SUBSET Bits]
      /\ wait_event \in [Threads -> Events \cup Threads \cup {Null}]
  BY NowFields DEF Inv, Sound, Scheduling
<1>2. /\ UNCHANGED <<target, op, user_stop_count, wake_active>>
      /\ pc'[t] \in {"asserted", "ipc_asserted"}
      /\ \A u \in Threads \ {t} : pc'[u] = pc[u]
  BY <1>1 DEF WaitForEvent, thread_will_wait, thread_set_timeout, Goto, counts, call, OtherTypes
<1>3. /\ \A u \in Threads \ {t} : state'[u] = state[u] /\ wait_event'[u] = wait_event[u]
      /\ \A b \in {"RUN", "SUSP", "UNINT"} : b \in state[t] => b \in state'[t]
  <2>1. CASE WaitForEvent(t)
    <3>1. PICK e \in Events, i \in BOOLEAN : Commit(assert_wait(Now, t, e, i))
      BY <2>1 DEF WaitForEvent
    <3>2. /\ state' = [state EXCEPT ![t] = @ \cup {"WAIT"} \cup (IF i THEN {} ELSE {"UNINT"})]
          /\ wait_event' = [wait_event EXCEPT ![t] = e]
      BY <3>1 DEF Commit, assert_wait, Now
    <3> QED
      BY <1>1, <3>2
  <2>2. CASE thread_will_wait(t)
    BY <1>1, <2>2 DEF thread_will_wait
  <2>3. CASE thread_set_timeout(t)
    BY <2>3 DEF thread_set_timeout
  <2> QED
    BY <2>1, <2>2, <2>3
<1>4. ASSUME NEW u \in Threads PROVE StopCounted(u)'
  BY <1>2 DEF SleepOK, StopCounted
<1>5. ASSUME NEW u \in Threads, NEW x \in Threads, SleepsOn(u, x)'
      PROVE  target'[u] = x /\ Awaited(x)'
  <2>1. SleepsOn(u, x)
    BY <1>2, <1>3, <1>5 DEF SleepsOn, AsleepOn
  <2>2. target[u] = x /\ Awaited(x)
    BY <2>1 DEF SleepOK
  <2> QED
    BY <1>2, <1>3, <2>2 DEF Awaited
<1> QED
  BY <1>4, <1>5 DEF SleepOK

LEMMA SleepHold ==
    ASSUME Inv, SleepOK, NEW t \in Threads, NEW x \in Threads,
           thread_suspend(t, x) \/ thread_get_state(t, x)
    PROVE  SleepOK'
<1>1. PICK s \in {Now, Hold(Now, x)} : Commit(s)
  BY DEF thread_suspend, thread_get_state
<1>2. /\ Sound(Now) /\ OtherTypes /\ CallAt(t) /\ pc[t] = "run"
      /\ UNCHANGED wake_active
  BY DEF thread_suspend, thread_get_state, Inv
<1>3. /\ user_stop_count' = user_stop_count \/ user_stop_count' = [user_stop_count EXCEPT ![x] = @ + 1]
      /\ \/ UNCHANGED call
         \/ Begin(t, "dowait", x, "suspend") /\ user_stop_count[x] = 0
            /\ user_stop_count' = [user_stop_count EXCEPT ![x] = @ + 1]
         \/ Begin(t, "dowait", x, "get_state")
  BY DEF thread_suspend, thread_get_state
<1>4. user_stop_count \in [Threads -> Nat]
  BY <1>2, ValuesAssumption DEF OtherTypes
<1>5. /\ \A u \in Threads \ {t} : SameCall(u)
      /\ pc'[t] \in {"run", "dowait"}
      /\ \/ op'[t] = op[t]
         \/ op'[t] = "suspend" /\ target'[t] = x /\ user_stop_count'[x] > 0
         \/ op'[t] = "get_state"
  <2>1. CASE UNCHANGED call
    BY <1>2, <2>1 DEF call, SameCall
  <2>2. CASE Begin(t, "dowait", x, "suspend") /\ user_stop_count[x] = 0
             /\ user_stop_count' = [user_stop_count EXCEPT ![x] = @ + 1]
    BY <1>2, <1>4, <2>2 DEF Begin, SameCall, OtherTypes
  <2>3. CASE Begin(t, "dowait", x, "get_state")
    BY <1>2, <2>3 DEF Begin, SameCall, OtherTypes
  <2> QED
    BY <1>3, <2>1, <2>2, <2>3
<1>6. StopCounted(t)'
  BY <1>2, <1>5 DEF StopCounted, CallAt, Idle
<1>7. \A y \in Threads : user_stop_count[y] > 0 => user_stop_count'[y] > 0
  BY <1>3, <1>4
<1>8. /\ s.wait_event = wait_event
      /\ \A y \in Threads : \A b \in {"RUN", "WAIT", "UNINT"} : b \in s.state[y] <=> b \in state[y]
      /\ \A y \in Threads : "SUSP" \in state[y] => "SUSP" \in s.state[y]
  <2>1. CASE s = Now
    BY <2>1, NowFields
  <2>2. CASE s = Hold(Now, x)
    <3>1. /\ \A u \in Threads \ {x} : Same(Now, s, u)
          /\ \A b \in {"RUN", "WAIT", "UNINT"} : b \in s.state[x] <=> b \in Now.state[x]
          /\ "SUSP" \in s.state[x] /\ s.wait_event = Now.wait_event
      BY <1>2, <2>2, HoldSound
    <3> QED
      BY <3>1, NowFields DEF Same
  <2> QED
    BY <1>1, <2>1, <2>2
<1>9. \A y \in Threads : ~SleepsOn(t, y)'
  BY <1>5 DEF SleepsOn
<1> QED
  BY <1>1, <1>2, <1>5, <1>6, <1>7, <1>8, <1>9, SleepStep DEF Awaited

\* While somebody sleeps until x stops, x is held by more than t, or by the user.
LEMMA SleepRelease ==
    ASSUME Inv, SleepOK, NoReleases, NEW t \in Threads, thread_release(t)
    PROVE  SleepOK'
<1> DEFINE x == target[t]
           s == Release(Now, x)
<1>1. /\ pc[t] \in {"got", "release", "halted"} /\ Commit(s) /\ Return(t)
      /\ UNCHANGED <<user_stop_count, wake_active>>
  BY DEF thread_release
<1>2. Sound(Now) /\ OtherTypes /\ CallAt(t)
  BY DEF Inv
<1>3. pc[t] = "got"
  BY <1>1, NoHalts DEF Halting
<1>4. x \in Threads /\ Holds(t, x) /\ CountAt(x)
  BY <1>2, <1>3 DEF CallAt, Idle, Holds, Inv
<1>5. /\ \A u \in Threads \ {t} : SameCall(u)
      /\ pc'[t] = "run" /\ op'[t] = "none"
  BY <1>1, <1>2, ReturnCall
<1>6. StopCounted(t)' /\ \A y \in Threads : ~SleepsOn(t, y)'
  BY <1>5 DEF StopCounted, SleepsOn
<1>7. ASSUME NEW u \in Threads, SleepsOn(u, x) PROVE suspend_count[x] # 1
  <2>1. /\ target[u] = x /\ pc[u] \in {"dowait_sleep", "dowait_woken"}
        /\ op[u] = "suspend" => user_stop_count[x] > 0
    BY <1>4, <1>7 DEF SleepOK, SleepsOn, StopCounted
  <2>2. CASE op[u] = "suspend"
    BY <1>2, <1>4, <2>1, <2>2, HoldersCounted
  <2>3. CASE op[u] # "suspend"
    <3>1. Holds(u, x) /\ u # t
      BY <1>3, <2>1, <2>3 DEF Holds
    <3> QED
      BY <1>2, <1>4, <3>1, HoldersCounted
  <2> QED
    BY <2>2, <2>3
<1> HIDE DEF x
<1>8. /\ s.wait_event = wait_event
      /\ \A y \in Threads : "WAIT" \in s.state[y] <=> "WAIT" \in state[y]
      /\ \A y \in Threads \ {x} : s.state[y] = state[y]
      /\ suspend_count[x] # 1 => s.state[x] = state[x]
  <2>1. CASE suspend_count[x] # 1
    BY <2>1, NowFields DEF Release
  <2>2. CASE suspend_count[x] = 1
    <3>1. s = Unsuspend(Now, x)
      BY <2>2 DEF Release
    <3> HIDE DEF s
    <3>2. /\ \A u \in Threads \ {x} : Same(Now, s, u)
          /\ "WAIT" \in s.state[x] <=> "WAIT" \in Now.state[x]
          /\ s.wait_event = Now.wait_event
      BY <1>2, <1>4, <3>1, UnsuspendSound DEF x
    <3> QED
      BY <2>2, <3>2, NowFields DEF Same
  <2> QED
    BY <2>1, <2>2
<1> HIDE DEF s
<1>9. ASSUME NEW y \in Threads, Awaited(y)
      PROVE  \/ y \in wake_active' /\ "SUSP" \in s.state[y]
                /\ ("RUN" \in s.state[y] \/ "UNINT" \in s.state[y])
             \/ \A u \in Threads \ {t} : SleepsOn(u, y) => s.wait_event[u] # y
  BY <1>1, <1>7, <1>8, <1>9 DEF Awaited
<1> QED
  BY <1>1, <1>5, <1>6, <1>8, <1>9, SleepStep

LEMMA SleepDowait ==
    ASSUME Inv, SleepOK, NoReleases, NEW t \in Threads, thread_dowait(t)
    PROVE  SleepOK'
<1> DEFINE x == target[t]
           off == [Now EXCEPT !.state[x] = @ \ {"RUN"}, !.place[x] = "off"]
           gone == IF x \in wake_active THEN thread_wakeup(off, x, "awakened") ELSE off
           a == assert_wait(Now, t, x, TRUE)
<1>1. /\ Sound(Now) /\ OtherTypes /\ CallAt(t) /\ state \in [Threads -> SUBSET Bits]
      /\ wait_event \in [Threads -> Events \cup Threads \cup {Null}]
      /\ op[t] \notin {"abort", "terminate"} /\ pc[t] \in {"dowait", "dowait_woken"}
  BY NoHalts, NowFields DEF Inv, Sound, Scheduling, thread_dowait
<1>2. x \in Threads /\ off = Off(Now, x) /\ op[t] \in {"suspend", "get_state"}
  BY <1>1 DEF CallAt, Idle, Dowait, Off
<1>3. /\ \/ OffRunq(x) /\ Commit(gone) /\ wake_active' = wake_active \ {x} /\ DowaitDone(t)
         \/ MustStop(x) /\ Await(t, x, Now, "dowait_sleep")
         \/ Commit(Now) /\ UNCHANGED wake_active /\ DowaitDone(t)
      /\ UNCHANGED user_stop_count
  BY <1>1 DEF thread_dowait, Interrupted
<1> HIDE DEF off, x
<1>4. ASSUME DowaitDone(t)
      PROVE  /\ \A u \in Threads \ {t} : SameCall(u)
             /\ StopCounted(t)' /\ \A y \in Threads : ~SleepsOn(t, y)'
  <2>1. Return(t) \/ (Goto(t, "got") /\ op[t] = "get_state")
    BY <1>2, <1>4 DEF DowaitDone
  <2>2. /\ \A u \in Threads \ {t} : SameCall(u)
        /\ pc'[t] \in {"run", "got"} /\ op'[t] \in {"none", "get_state"}
    BY <1>1, <2>1, ReturnCall, GotoCall DEF Labels
  <2> QED
    BY <2>2 DEF StopCounted, SleepsOn
<1>5. \A y \in Threads : user_stop_count[y] > 0 => user_stop_count'[y] > 0
  BY <1>3
<1>6. CASE OffRunq(x) /\ Commit(gone) /\ wake_active' = wake_active \ {x} /\ DowaitDone(t)
  <2>1. "SUSP" \in state[x]
    BY <1>6 DEF OffRunq, Sched
  <2>2. /\ \A u \in Threads : "WAIT" \in gone.state[u] =>
              "WAIT" \in state[u] /\ gone.wait_event[u] = wait_event[u]
        /\ \A y \in Threads : Awaited(y) =>
              \/ y \in wake_active' /\ "SUSP" \in gone.state[y]
                 /\ ("RUN" \in gone.state[y] \/ "UNINT" \in gone.state[y])
              \/ \A u \in Threads : SleepsOn(u, y) => gone.wait_event[u] # y
    BY <1>2, <1>6, <2>1, SleepOff
  <2> HIDE DEF gone
  <2> QED
    BY <1>4, <1>5, <1>6, <2>2, SleepStep
<1>7. CASE MustStop(x) /\ Await(t, x, Now, "dowait_sleep")
  <2>1. /\ state' = [state EXCEPT ![t] = @ \cup {"WAIT"} \cup {}]
        /\ wait_event' = [wait_event EXCEPT ![t] = x]
        /\ Goto(t, "dowait_sleep") /\ wake_active' = wake_active \cup {x} /\ Commit(a)
    BY <1>7 DEF Await, Commit, assert_wait, Now
  <2>2. /\ a.state = state' /\ a.wait_event = wait_event'
    BY <2>1 DEF Commit
  <2> HIDE DEF a
  <2>3. /\ \A u \in Threads \ {t} : SameCall(u)
        /\ pc'[t] = "dowait_sleep" /\ op'[t] = op[t] /\ target'[t] = x
    BY <1>1, <2>1, GotoCall DEF Labels, x
  <2>4. /\ \A u \in Threads \ {t} : a.state[u] = state[u] /\ a.wait_event[u] = wait_event[u]
        /\ \A b \in {"RUN", "SUSP", "UNINT"} : b \in a.state[t] <=> b \in state[t]
        /\ a.wait_event[t] = x
    BY <1>1, <2>1, <2>2
  <2>5. "SUSP" \in state[x] /\ ("RUN" \in state[x] \/ "UNINT" \in state[x])
    <3>1. "SUSP" \in state[x] /\ state[x] \cap Sched \notin Stopped
      BY <1>7 DEF MustStop
    <3> QED
      BY <3>1 DEF Stopped, Sched
  <2>6. ASSUME NEW y \in Threads, SleepsOn(t, y)' PROVE target'[t] = y /\ Awaited(y)'
    <3>1. y = x
      BY <2>2, <2>4, <2>6 DEF SleepsOn, AsleepOn
    <3>2. "SUSP" \in a.state[x] /\ ("RUN" \in a.state[x] \/ "UNINT" \in a.state[x])
      BY <1>2, <2>4, <2>5
    <3> QED
      BY <2>1, <2>2, <2>3, <3>1, <3>2 DEF Awaited
  <2>7. StopCounted(t)'
    BY <1>3, <2>3 DEF SleepOK, StopCounted, x
  <2>8. \A y \in Threads : Awaited(y) =>
           /\ y \in wake_active' /\ "SUSP" \in a.state[y]
           /\ "RUN" \in a.state[y] \/ "UNINT" \in a.state[y]
    BY <2>1, <2>4 DEF Awaited
  <2>9. \A u \in Threads \ {t} : "WAIT" \in a.state[u] =>
           "WAIT" \in state[u] /\ a.wait_event[u] = wait_event[u]
    BY <2>4
  <2> QED
    BY <1>5, <2>1, <2>3, <2>6, <2>7, <2>8, <2>9, SleepStep
<1>8. CASE Commit(Now) /\ UNCHANGED wake_active /\ DowaitDone(t)
  BY <1>4, <1>5, <1>8, SleepStep, NowFields DEF Awaited
<1> QED
  BY <1>3, <1>6, <1>7, <1>8

LEMMA SleepNext ==
    ASSUME Inv, SleepOK, NoReleases, [Next]_vars
    PROVE  SleepOK'
<1>1. ASSUME NEW t \in Threads, Acts(t) PROVE SleepOK'
  <2>1. CASE thread_block(t)
    BY <2>1, SleepBlock
  <2>2. CASE WaitForEvent(t) \/ thread_will_wait(t) \/ thread_set_timeout(t)
    BY <2>2, SleepWait
  <2>3. CASE thread_release(t) \/ thread_dowait(t)
    BY <2>3, SleepRelease, SleepDowait
  <2>4. ~(HaltBegin(t) \/ HaltWoken(t) \/ HaltAgain(t) \/ HaltFail(t) \/ HaltStopped(t)
          \/ ast_taken(t) \/ thread_halt_self(t) \/ TerminateDone(t))
    BY NoHalts DEF HaltBegin, HaltWoken, HaltAgain, HaltFail, HaltStopped, ast_taken,
                   thread_halt_self, TerminateDone, Halting
  <2>5. CASE \E x \in Threads : thread_suspend(t, x) \/ thread_get_state(t, x)
    BY <2>5, SleepHold
  <2>6. ~\E x \in Threads : thread_resume(t, x) \/ thread_halt(t, x)
    BY DEF NoReleases, thread_resume, thread_halt
  <2> QED
    BY <1>1, <2>1, <2>2, <2>3, <2>4, <2>5, <2>6 DEF Acts, Step, Call
<1>2. ASSUME NEW t \in Threads,
             thread_select(t) \/ thread_invoke(t) \/ thread_doswapin(t)
      PROVE  SleepOK'
  BY <1>2, SleepSwitch
<1>3. CASE (\E e \in Events : Wakeup(e)) \/ (\E t \in Threads : thread_go(t) \/ thread_timeout(t))
  <2>1. PICK s : Commit(s) /\ Wakes(Now, s) /\ UNCHANGED <<counts, call>>
    BY <1>3, InterruptWakes
  <2> QED
    BY <2>1, SleepWakes
<1>4. CASE UNCHANGED vars \/ \E t \in Threads : softclock(t)
  <2>1. UNCHANGED <<state, wait_event, counts, call>>
    BY <1>4 DEF vars, wait, softclock
  <2> QED
    BY <2>1 DEF SleepOK, StopCounted, SleepsOn, AsleepOn, Awaited, counts, call
<1> QED
  BY <1>1, <1>2, <1>3, <1>4, NextCases

\* thread_dowait is told when its thread stops, as long as nobody lets that run
\* again meanwhile, nor interrupts the caller.
THEOREM StopsNoticed ==
    ASSUME NoReleases
    PROVE  Spec => []StopNoticed
<1>1. CallsOK
  BY DEF CallsOK, NoReleases
<1>2. Init => SleepOK
  BY ValuesAssumption DEF Init, SleepOK, StopCounted, SleepsOn
<1>3. Inv /\ SleepOK /\ [Next]_vars => SleepOK'
  BY SleepNext
<1>4. ASSUME SleepOK PROVE StopNoticed
  <2> SUFFICES ASSUME NEW t \in Threads, NEW x \in Threads, AsleepOn(t, x),
                      pc[t] \in {"dowait_sleep", "dowait_woken"}
               PROVE  x \in wake_active /\ state[x] \cap Sched \notin Stopped
    BY DEF StopNoticed
  <2>1. Awaited(x)
    BY <1>4 DEF SleepOK, SleepsOn
  <2> QED
    BY <2>1 DEF Awaited, Stopped, Sched
<1>5. Spec => []Inv
  BY <1>1, Invariance
<1> QED
  BY <1>2, <1>3, <1>4, <1>5, PTL DEF Spec

=============================================================================
