-------------------------- MODULE SchedulerVersions --------------------------
(***************************************************************************)
(* schedule.c beside the two earlier schedulers that are kept in           *)
(* assignment3/working_schedules, schedule_v1.c and schedule_v2.c, as      *)
(* changes of Scheduler.  (The third one there, schedule_v3.c, is          *)
(* schedule.c.)  Against schedule.c, both earlier ones                     *)
(*   - count an alarm once: alarm() does not store alarm_config_time and   *)
(*     the tick that ends the count does not start it again;               *)
(*   - put the frame that a signal changed back only if the context keeps  *)
(*     the CPU: with a switch in the same tick the signal is lost;         *)
(*   - never free the OS stack of a context that exits;                    *)
(* and v1 copies a new context from the caller of clone(), not from init.  *)
(***************************************************************************)
EXTENDS Scheduler

VARIABLE version    \* the file that is linked into the kernel

allvars == <<vars, version>>

VersionsInit ==
  /\ Init
  /\ version \in {"v1", "v2", "schedule"}

-----------------------------------------------------------------------------
\* schedule_v2.c
pick_next_context_v2(st, type, new) == pick_next_context(st, type, new)

\* Mutation: the registers are not saved.
TickSaves_v2_Forgotten == regs

\* The registers pushed at the entry of the tick, with the old frame.
TickSaves_v2 == [regs EXCEPT ![current] = cpu]

handle_timer_tick_v2(new) ==
  /\ mode = "up"
  /\ Len(TickFrame.stk) <= MaxNest
  /\ ticks_to_alarm' = [ticks_to_alarm EXCEPT ![1] = CountDown(@)]
  /\ ticks_to_sleep' = [p \in Pids |-> CountDown(ticks_to_sleep[p])]
  /\ pick_next_context_v2(TickStates, "TIMER", new)
  /\ IF CleansUp(TickStates, "TIMER")
     THEN /\ mode' = "down"
          /\ state' = TickStates
          /\ UNCHANGED <<regs, cpu, current>>
     ELSE IF new = current
     THEN /\ state' = [TickStates EXCEPT ![new] = RUNNING]
          /\ cpu' = TickFrame
          /\ UNCHANGED <<regs, current, mode>>
     ELSE SwitchTo(new, TickStates, TickSaves_v2)
  /\ UNCHANGED <<alarm_config_time, sighandlers, os_stack_pfn, freePfns>>

do_exit_v2(new) ==
  LET st == [state EXCEPT ![current] = UNUSED] IN
  /\ InUser
  /\ pick_next_context_v2(st, "DO_EXIT", new)
  /\ IF CleansUp(st, "DO_EXIT")
     THEN /\ mode' = "down"
          /\ state' = st
          /\ UNCHANGED <<regs, cpu, current>>
     ELSE SwitchTo(new, st, regs)
  /\ UNCHANGED <<timers, sighandlers, os_stack_pfn, freePfns>>

do_sleep_v2(ticks, new) == do_sleep(ticks, new)

do_clone_v2(new, pfn) == do_clone(new, pfn)

do_signal_v2(signo, registered) == do_signal(signo, registered)

do_alarm_v2(ticks) ==
  /\ InUser
  /\ ticks_to_alarm' = [ticks_to_alarm EXCEPT ![current] = ticks]
  /\ UNCHANGED <<state, ticks_to_sleep, alarm_config_time, sighandlers,
                 os_stack_pfn, regs, current, cpu, freePfns, mode>>

\* A fault with a handler, and one without.
invoke_sync_signal_v2(signo, new) ==
  \/ invoke_sync_signal(signo)
  \/ signo \notin sighandlers[current] /\ do_exit_v2(new)

-----------------------------------------------------------------------------
\* schedule_v1.c
pick_next_context_v1(st, type, new) == pick_next_context_v2(st, type, new)

handle_timer_tick_v1(new) == handle_timer_tick_v2(new)

do_exit_v1(new) == do_exit_v2(new)

do_sleep_v1(ticks, new) == do_sleep_v2(ticks, new)

CloneRegs_v1(new) ==
  [regs EXCEPT ![new] = [regs[current] EXCEPT !.rip = "body", !.stk = <<>>]]

do_clone_v1(new, pfn) ==
  /\ InUser
  /\ get_new_ctx(new)
  /\ sighandlers' = [sighandlers EXCEPT ![new] = sighandlers[current]]
  /\ ticks_to_sleep' = [ticks_to_sleep EXCEPT ![new] = 0]
  /\ alarm_config_time' = [alarm_config_time EXCEPT ![new] = 0]
  /\ ticks_to_alarm' = [ticks_to_alarm EXCEPT ![new] = 0]
  /\ os_stack_pfn' = CloneStacks(new, pfn)
  /\ freePfns' = freePfns \ {pfn}
  /\ regs' = CloneRegs_v1(new)
  /\ state' = [state EXCEPT ![new] = READY]
  /\ UNCHANGED <<current, cpu, mode>>

invoke_sync_signal_v1(signo, new) == invoke_sync_signal_v2(signo, new)

do_signal_v1(signo, registered) == do_signal_v2(signo, registered)

do_alarm_v1(ticks) == do_alarm_v2(ticks)

-----------------------------------------------------------------------------
User ==
  \/ clone_table_full
  \/ \E g \in Gprs : UserStep(g)
  \/ \E depth \in 1 .. MaxNest : HandlerReturn(depth)

NextV1 ==
  \/ \E new \in Pids : handle_timer_tick_v1(new) \/ do_exit_v1(new)
  \/ \E ticks \in SleepTicks, new \in Pids : do_sleep_v1(ticks, new)
  \/ \E new \in Pids, pfn \in freePfns : do_clone_v1(new, pfn)
  \/ \E signo \in Signals, registered \in BOOLEAN : do_signal_v1(signo, registered)
  \/ \E ticks \in AlarmTicks : do_alarm_v1(ticks)
  \/ \E signo \in FaultSignals, new \in Pids : invoke_sync_signal_v1(signo, new)

NextV2 ==
  \/ \E new \in Pids : handle_timer_tick_v2(new) \/ do_exit_v2(new)
  \/ \E ticks \in SleepTicks, new \in Pids : do_sleep_v2(ticks, new)
  \/ \E new \in Pids, pfn \in freePfns : do_clone_v2(new, pfn)
  \/ \E signo \in Signals, registered \in BOOLEAN : do_signal_v2(signo, registered)
  \/ \E ticks \in AlarmTicks : do_alarm_v2(ticks)
  \/ \E signo \in FaultSignals, new \in Pids : invoke_sync_signal_v2(signo, new)

VersionsNext ==
  /\ \/ version = "v1" /\ NextV1
     \/ version = "v2" /\ NextV2
     \/ version # "schedule" /\ User
     \/ version = "schedule" /\ Next
  /\ UNCHANGED version

VersionsSpec == VersionsInit /\ [][VersionsNext]_allvars

-----------------------------------------------------------------------------
\* Where a context is: the code it runs, and what it returns to.
Frame(p) == IF p = current THEN cpu ELSE regs[p]

Same(f, g)   == g.rip = f.rip /\ g.stk = f.stk
Pushed(f, g) == g.rip = "handler" /\ g.stk = <<f.rip>> \o f.stk
Popped(f, g) == f.stk # <<>> /\ g.rip = Head(f.stk) /\ g.stk = Tail(f.stk)

\* A context goes on where it was.  No tick, sleep, clone or exit, its own or
\* another's, with a switch or without, drops a signal handler that is under way
\* or starts one twice: only the running context starts one, upon the code that
\* runs, and only while it keeps the CPU does one return.  (That the earlier
\* schedulers may never start the handler of an alarm is not excluded.)
ControlKept ==
  [][ \A p \in Pids : state[p] # UNUSED /\ state'[p] # UNUSED =>
        \/ Same(Frame(p), Frame(p)')
        \/ p = current /\ Pushed(Frame(p), Frame(p)')
        \/ p = current /\ p = current' /\ Popped(Frame(p), Frame(p)')
    ]_allvars
=============================================================================
