------------------------------ MODULE Scheduler ------------------------------
(***************************************************************************)
(* The gemOS scheduler of assignment3/schedule.c: the context table, the   *)
(* round robin, sleep(), alarm(), signal(), clone() and exit(), and the    *)
(* save and restore of user registers around a context switch.             *)
(*                                                                         *)
(* There is one CPU and every handler runs with interrupts disabled (the   *)
(* system call entry starts with cli, the timer comes through an interrupt *)
(* gate), so each handler is one step; what interleaves is the order in    *)
(* which the user contexts call the handlers and the timer ticks.          *)
(***************************************************************************)
EXTENDS Naturals, Sequences, FiniteSets

CONSTANTS
  MAX_PROCESSES,  \* size of the context table; pid 0 is the swapper, pid 1 init
  SleepTicks,     \* arguments user programs pass to sleep()
  AlarmTicks,     \* arguments user programs pass to alarm()
  FaultSignals,   \* the synchronous signals, SIGSEGV and SIGFPE
  SIGALRM,
  Gprs,           \* contents of the general purpose registers, as one value
  Pfns,           \* page frames of the OS_PT region, for OS stacks
  NoPfn,          \* os_stack_pfn of a context slot that was never used
  MaxNest         \* bound on handler invocations stacked on one user stack

Pids     == 0 .. MAX_PROCESSES - 1
UserPids == Pids \ {0}
Signals  == FaultSignals \cup {SIGALRM}

ASSUME SchedulerAssumptions ==
  /\ MAX_PROCESSES \in Nat /\ MAX_PROCESSES >= 2
  /\ SleepTicks \subseteq Nat
  /\ AlarmTicks \subseteq Nat
  /\ SIGALRM \notin FaultSignals
  /\ Gprs # {}
  /\ NoPfn \notin Pfns
  /\ MaxNest \in Nat

\* enum process_state; EXITING is never assigned, NEW only inside do_clone
UNUSED  == "UNUSED"
READY   == "READY"
RUNNING == "RUNNING"
WAITING == "WAITING"
States  == {UNUSED, READY, RUNNING, WAITING}

VARIABLES
  \* struct exec_context, field by field, indexed by pid
  state, ticks_to_sleep, ticks_to_alarm, alarm_config_time, sighandlers,
  os_stack_pfn, regs,
  current,     \* get_current_ctx()
  cpu,         \* the user registers of the running context
  freePfns,    \* frames os_pfn_alloc(OS_PT_REG) may return
  mode         \* "up"; "down" after do_cleanup; "fault" after a NULL context

timers == <<ticks_to_sleep, ticks_to_alarm, alarm_config_time>>
vars == <<state, timers, sighandlers, os_stack_pfn, regs, current, cpu,
          freePfns, mode>>

(***************************************************************************)
(* The user-visible register file: the general purpose registers, the      *)
(* instruction pointer (in the program or in a signal handler) and the     *)
(* user stack as the return addresses signal delivery pushed on it.        *)
(***************************************************************************)
Rips    == {"body", "handler"}
RegFile == [gpr : Gprs, rip : Rips, stk : Seq(Rips)]

TypeOK ==
  /\ state \in [Pids -> States]
  /\ ticks_to_sleep \in [Pids -> Nat]
  /\ ticks_to_alarm \in [Pids -> Nat]
  /\ alarm_config_time \in [Pids -> Nat]
  /\ sighandlers \in [Pids -> SUBSET Signals]
  /\ os_stack_pfn \in [Pids -> Pfns \cup {NoPfn}]
  /\ regs \in [Pids -> RegFile]
  /\ current \in Pids
  /\ cpu \in RegFile
  /\ freePfns \subseteq Pfns
  /\ mode \in {"up", "down", "fault"}

-----------------------------------------------------------------------------
(***************************************************************************)
(* pick_next_context: the READY context met first when the table is        *)
(* scanned from the one after current, pid 0 and current left out; without *)
(* one, a timer tick keeps a user context running and everything else      *)
(* loads the swapper.                                                      *)
(***************************************************************************)
ScanPos(i) == IF i > current THEN i - current ELSE MAX_PROCESSES + i - current

\* Mutation: the second loop, over the pids below current, is missing.
Ready_UpwardOnly(st) == {i \in UserPids : i > current /\ st[i] = READY}

Ready(st) == {i \in UserPids \ {current} : st[i] = READY}

\* Mutation: the scan always starts at pid 1.
pick_next_context_FromInit(st, type, new) ==
  IF Ready(st) # {}
  THEN new \in Ready(st) /\ \A i \in Ready(st) : new <= i
  ELSE new = IF type = "TIMER" THEN current ELSE 0

pick_next_context(st, type, new) ==
  IF Ready(st) # {}
  THEN new \in Ready(st) /\ \A i \in Ready(st) : ScanPos(new) <= ScanPos(i)
  ELSE new = IF type = "TIMER" THEN current ELSE 0

\* Mutation: the sleepers are not looked for.
CleansUp_IgnoresSleepers(st, type) ==
  /\ Ready(st) = {}
  /\ \/ type = "DO_EXIT"
     \/ type = "TIMER" /\ current = 0

\* is_wait = 0 on the paths that then shut the machine down with do_cleanup
CleansUp(st, type) ==
  /\ Ready(st) = {}
  /\ ~ \E i \in UserPids \ {current} : st[i] = WAITING
  /\ \/ type = "DO_EXIT"
     \/ type = "TIMER" /\ current = 0

(***************************************************************************)
(* invoke_sync_signal on a user frame f of context current: with a handler *)
(* registered, push the interrupted rip and go to the handler.             *)
(***************************************************************************)
Deliver(f) == [f EXCEPT !.rip = "handler", !.stk = <<f.rip>> \o f.stk]

-----------------------------------------------------------------------------
\* The state in which exec_init enters user mode for the first time.
Init ==
  /\ state = [p \in Pids |->
                IF p = 0 THEN READY ELSE IF p = 1 THEN RUNNING ELSE UNUSED]
  /\ ticks_to_sleep = [p \in Pids |-> 0]
  /\ ticks_to_alarm = [p \in Pids |-> 0]
  /\ alarm_config_time = [p \in Pids |-> 0]
  /\ sighandlers = [p \in Pids |-> {}]
  /\ \E swapper, init \in Pfns :
       /\ swapper # init
       /\ os_stack_pfn = [p \in Pids |-> IF p = 0 THEN swapper
                                         ELSE IF p = 1 THEN init ELSE NoPfn]
       /\ freePfns = Pfns \ {swapper, init}
  /\ \E g \in Gprs :
       /\ cpu = [gpr |-> g, rip |-> "body", stk |-> <<>>]
       /\ regs = [p \in Pids |-> [gpr |-> g, rip |-> "body", stk |-> <<>>]]
  /\ current = 1
  /\ mode = "up"

\* A user context other than the swapper (a hlt loop) is executing.
InUser == mode = "up" /\ current # 0

(***************************************************************************)
(* The context switch at the end of a handler: st is the table after the   *)
(* handler's own changes, saved the register copies after its saves.       *)
(***************************************************************************)
\* Mutation: the registers of the new context are not loaded.
SwitchTo_KeepsCpu(new, st, saved) ==
  /\ state' = [st EXCEPT ![new] = RUNNING]
  /\ regs' = saved
  /\ cpu' = cpu
  /\ current' = new
  /\ mode' = "up"

SwitchTo(new, st, saved) ==
  /\ state' = [st EXCEPT ![new] = RUNNING]
  /\ regs' = saved
  /\ cpu' = saved[new]
  /\ current' = new
  /\ mode' = "up"

(***************************************************************************)
(* handle_timer_tick.  Only init's alarm is counted; when it expires it is *)
(* rearmed and SIGALRM goes to whichever context is current.  Then all the *)
(* sleepers are counted down, current becomes READY and the next context   *)
(* is picked.  The frame is written back before the switch saves it.       *)
(***************************************************************************)
AlarmExpires == ticks_to_alarm[1] = 1

\* Mutations: without the test for zero; without the decrement.
CountDown_Unguarded(n) == n - 1

CountDown_Stuck(n) == n

CountDown(n) == IF n >= 1 THEN n - 1 ELSE n

TickFrame ==
  IF AlarmExpires /\ SIGALRM \in sighandlers[current] THEN Deliver(cpu) ELSE cpu

\* Mutations: current is left RUNNING; sleepers are woken by the first tick.
TickStates_KeepsRunning ==
  [p \in Pids |-> IF ticks_to_sleep[p] = 1 THEN READY ELSE state[p]]

TickStates_WakesAll ==
  [p \in Pids |-> IF p = current \/ ticks_to_sleep[p] >= 1 THEN READY
                  ELSE state[p]]

TickStates ==
  [p \in Pids |-> IF p = current \/ ticks_to_sleep[p] = 1 THEN READY
                  ELSE state[p]]

\* Mutation, the behaviour of working_schedules/schedule_v2.c: the frame the
\* signal changed is written back only when the context keeps the CPU.
TickSaves_OldFrame(new) ==
  IF new = current THEN regs ELSE [regs EXCEPT ![current] = cpu]

TickSaves(new) ==
  IF new = current THEN regs ELSE [regs EXCEPT ![current] = TickFrame]

handle_timer_tick(new) ==
  /\ mode = "up"
  /\ Len(TickFrame.stk) <= MaxNest
  /\ ticks_to_alarm' = [ticks_to_alarm EXCEPT
       ![1] = IF AlarmExpires THEN alarm_config_time[1]
              ELSE CountDown(@)]
  /\ ticks_to_sleep' = [p \in Pids |-> CountDown(ticks_to_sleep[p])]
  /\ pick_next_context(TickStates, "TIMER", new)
  /\ IF CleansUp(TickStates, "TIMER")
     THEN /\ mode' = "down"
          /\ state' = TickStates
          /\ UNCHANGED <<regs, cpu, current>>
     ELSE IF new = current
     THEN /\ state' = [TickStates EXCEPT ![new] = RUNNING]
          /\ cpu' = TickFrame
          /\ UNCHANGED <<regs, current, mode>>
     ELSE SwitchTo(new, TickStates, TickSaves(new))
  /\ UNCHANGED <<alarm_config_time, sighandlers, os_stack_pfn, freePfns>>

\* do_exit: the slot becomes UNUSED and, unless the machine goes down, its OS
\* stack is freed; its timers and handlers are left as they are.
do_exit(new) ==
  LET st == [state EXCEPT ![current] = UNUSED] IN
  /\ InUser
  /\ pick_next_context(st, "DO_EXIT", new)
  /\ IF CleansUp(st, "DO_EXIT")
     THEN /\ mode' = "down"
          /\ state' = st
          /\ UNCHANGED <<regs, cpu, current, freePfns>>
     ELSE /\ freePfns' = freePfns \cup {os_stack_pfn[current]}
          /\ SwitchTo(new, st, regs)
  /\ UNCHANGED <<timers, sighandlers, os_stack_pfn>>

\* Mutation: the stack pointer is not copied.
SleepSaves_RipOnly == [regs EXCEPT ![current].rip = cpu.rip]

\* do_sleep: of the registers the system call entry pushed, only the frame
\* (rip, rsp, rbp, rflags) is copied into regs.
SleepSaves ==
  [regs EXCEPT ![current].rip = cpu.rip, ![current].stk = cpu.stk]

do_sleep(ticks, new) ==
  LET st == [state EXCEPT ![current] = WAITING] IN
  /\ InUser
  /\ ticks_to_sleep' = [ticks_to_sleep EXCEPT ![current] = ticks]
  /\ pick_next_context(st, "SLEEPING", new)
  /\ SwitchTo(new, st, SleepSaves)
  /\ UNCHANGED <<ticks_to_alarm, alarm_config_time, sighandlers,
                 os_stack_pfn, freePfns>>

\* get_new_ctx, in context.o: the first UNUSED slot of the table.
get_new_ctx(new) ==
  /\ state[new] = UNUSED
  /\ \A p \in Pids : p < new => state[p] # UNUSED

\* do_clone: the new context copies slot 1, not the caller.
CloneRegs(new) ==
  [regs EXCEPT ![new] = [regs[1] EXCEPT !.rip = "body", !.stk = <<>>]]

\* Mutation: the OS stack is inherited with the rest of the structure.
CloneStacks_Shared(new, pfn) == [os_stack_pfn EXCEPT ![new] = os_stack_pfn[1]]

CloneStacks(new, pfn) == [os_stack_pfn EXCEPT ![new] = pfn]

do_clone(new, pfn) ==
  /\ InUser
  /\ get_new_ctx(new)
  /\ state' = [state EXCEPT ![new] = READY]
  /\ os_stack_pfn' = CloneStacks(new, pfn)
  /\ freePfns' = freePfns \ {pfn}
  /\ ticks_to_sleep' = [ticks_to_sleep EXCEPT ![new] = 0]
  /\ ticks_to_alarm' = [ticks_to_alarm EXCEPT ![new] = 0]
  /\ alarm_config_time' = [alarm_config_time EXCEPT ![new] = 0]
  /\ sighandlers' = [sighandlers EXCEPT ![new] = sighandlers[1]]
  /\ regs' = CloneRegs(new)
  /\ UNCHANGED <<current, cpu, mode>>

\* With the table full get_new_ctx returns NULL, which do_clone dereferences.
clone_table_full ==
  /\ InUser
  /\ \A p \in Pids : state[p] # UNUSED
  /\ mode' = "fault"
  /\ UNCHANGED <<state, timers, sighandlers, os_stack_pfn, regs, current, cpu,
                 freePfns>>

\* do_signal: register a handler, or NULL.
do_signal(signo, registered) ==
  /\ InUser
  /\ sighandlers' = [sighandlers EXCEPT
       ![current] = IF registered THEN @ \cup {signo} ELSE @ \ {signo}]
  /\ UNCHANGED <<state, timers, os_stack_pfn, regs, current, cpu, freePfns, mode>>

do_alarm(ticks) ==
  /\ InUser
  /\ ticks_to_alarm' = [ticks_to_alarm EXCEPT ![current] = ticks]
  /\ alarm_config_time' = [alarm_config_time EXCEPT ![current] = ticks]
  /\ UNCHANGED <<state, ticks_to_sleep, sighandlers, os_stack_pfn, regs,
                 current, cpu, freePfns, mode>>

\* invoke_sync_signal from the divide-by-zero or page fault handler, with a
\* handler registered; without one the fault ends in do_exit.
invoke_sync_signal(signo) ==
  /\ InUser
  /\ signo \in sighandlers[current]
  /\ Len(cpu.stk) < MaxNest
  /\ cpu' = Deliver(cpu)
  /\ UNCHANGED <<state, timers, sighandlers, os_stack_pfn, regs, current,
                 freePfns, mode>>

fault_exit(signo, new) ==
  /\ signo \notin sighandlers[current]
  /\ do_exit(new)

\* The user program computes, or the last of depth nested signal handlers
\* executes ret.
UserStep(g) ==
  /\ InUser
  /\ cpu' = [cpu EXCEPT !.gpr = g]
  /\ UNCHANGED <<state, timers, sighandlers, os_stack_pfn, regs, current,
                 freePfns, mode>>

HandlerReturn(depth) ==
  /\ InUser
  /\ cpu.rip = "handler" /\ Len(cpu.stk) = depth
  /\ cpu' = [cpu EXCEPT !.rip = Head(cpu.stk), !.stk = Tail(cpu.stk)]
  /\ UNCHANGED <<state, timers, sighandlers, os_stack_pfn, regs, current,
                 freePfns, mode>>

Tick == \E new \in Pids : handle_timer_tick(new)

Next ==
  \/ Tick
  \/ \E new \in Pids : do_exit(new)
  \/ \E ticks \in SleepTicks, new \in Pids : do_sleep(ticks, new)
  \/ \E new \in Pids, pfn \in freePfns : do_clone(new, pfn)
  \/ clone_table_full
  \/ \E signo \in Signals, registered \in BOOLEAN : do_signal(signo, registered)
  \/ \E ticks \in AlarmTicks : do_alarm(ticks)
  \/ \E signo \in FaultSignals : invoke_sync_signal(signo)
  \/ \E signo \in FaultSignals, new \in Pids : fault_exit(signo, new)
  \/ \E g \in Gprs : UserStep(g)
  \/ \E depth \in 1 .. MaxNest : HandlerReturn(depth)

Spec == Init /\ [][Next]_vars

\* The timer is periodic and nothing masks it for ever.
FairSpec == Spec /\ WF_vars(Tick)

-----------------------------------------------------------------------------
\* Exactly the current context is RUNNING.
RunningIsCurrent ==
  mode = "up" => \A p \in Pids : state[p] = RUNNING <=> p = current

\* The swapper runs only while some user context sleeps and none could run
\* (so its timer tick never reaches do_cleanup, and no READY context idles).
SwapperOnlyIdles ==
  mode = "up" /\ current = 0 =>
    /\ \E p \in UserPids : state[p] = WAITING
    /\ \A p \in UserPids : state[p] \in {WAITING, UNUSED}

\* The machine is shut down only when no user context is left, not even asleep.
CleanupOnlyWhenAlone ==
  mode = "down" => \A p \in UserPids : state[p] = UNUSED

\* A sleep count left in a slot always belongs to a sleeping context: the tick
\* loop, which does not look at the state, never revives an exited context.
SleepersWait == \A p \in Pids : ticks_to_sleep[p] > 0 => state[p] = WAITING

\* context.h, os_stack_pfn: "Must be unique for every context"; and no live
\* context's stack is on the free list.
OsStacksDistinct ==
  mode = "up" =>
  \A p \in Pids : state[p] # UNUSED =>
    /\ os_stack_pfn[p] \in Pfns \ freePfns
    /\ \A q \in Pids : q # p /\ state[q] # UNUSED =>
                         os_stack_pfn[p] # os_stack_pfn[q]

\* A context taken off the CPU by the timer is saved completely, with the
\* signal frame the same tick may have pushed.
PreemptionSavesFrame ==
  [][ current' # current /\ state'[current] = READY
        => regs'[current] = TickFrame ]_vars

\* A context that is put on the CPU continues from its saved registers, and
\* nobody touches the saved registers of a context that is off the CPU.
ResumesSavedRegs ==
  [][ /\ current' # current => cpu' = regs[current']
      /\ \A p \in Pids : p # current /\ state[p] # UNUSED => regs'[p] = regs[p]
    ]_vars

\* Signals nest: under every running handler there is the return address of
\* the handler it interrupted, and under the first the one of the program.
\* So every ret of a handler leads back, whoever the tick interrupted with
\* init's alarm and wherever the context slept or was preempted since.
Nested(f) ==
  IF f.stk = <<>> THEN f.rip = "body"
  ELSE /\ f.rip = "handler"
       /\ \A i \in 1 .. Len(f.stk) :
            f.stk[i] = IF i = Len(f.stk) THEN "body" ELSE "handler"

HandlersNest == Nested(cpu) /\ \A p \in Pids : Nested(regs[p])

\* include/context.h, regs: "Saved copy of user registers".
SwitchSavesRegisters ==
  [][ current' # current /\ state'[current] # UNUSED
        => regs'[current].gpr = cpu.gpr ]_vars

\* Round robin: a READY context is eventually run.
NoStarvation ==
  \A p \in UserPids : state[p] = READY ~> (state[p] = RUNNING \/ mode # "up")

\* A sleeping context eventually leaves WAITING.
SleepEnds ==
  \A p \in UserPids : state[p] = WAITING ~> (state[p] # WAITING \/ mode # "up")
=============================================================================
