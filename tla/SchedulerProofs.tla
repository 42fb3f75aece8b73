--------------------------- MODULE SchedulerProofs ---------------------------
(***************************************************************************)
(* Proofs about the schedulers of modules Scheduler and SchedulerVersions, *)
(* for every size of the context table and every set of tick counts,       *)
(* registers and page frames.                                              *)
(***************************************************************************)
EXTENDS SchedulerVersions, TLAPS

\* The swapper never sleeps and never exits.
SwapperAlive == mode = "up" => state[0] \in {READY, RUNNING}

\* The inductive invariant: the safety invariants of Scheduler support each
\* other, see the README.
Inv ==
  /\ TypeOK
  /\ RunningIsCurrent
  /\ SwapperAlive
  /\ SwapperOnlyIdles
  /\ CleanupOnlyWhenAlone
  /\ SleepersWait
  /\ OsStacksDistinct

-----------------------------------------------------------------------------
\* What pick_next_context may return, without the scan order.
LEMMA PickResult ==
  ASSUME NEW st, NEW type, NEW new, pick_next_context(st, type, new)
  PROVE  \/ new \in Ready(st)
         \/ Ready(st) = {} /\ new = IF type = "TIMER" THEN current ELSE 0
BY DEF pick_next_context

\* Signal delivery maps register files to register files.
LEMMA DeliverType ==
  ASSUME NEW f \in RegFile
  PROVE  Deliver(f) \in RegFile
<1>1. <<f.rip>> \o f.stk \in Seq(Rips)
  BY DEF RegFile, Rips
<1> QED
  BY <1>1 DEF Deliver, RegFile, Rips

\* The frame a tick returns to, with or without a signal, is a register file.
LEMMA TickFrameType == TypeOK => TickFrame \in RegFile
BY DeliverType DEF TickFrame, TypeOK

\* Waking sleepers gives states of the table.
LEMMA TickStatesType == TypeOK => TickStates \in [Pids -> States]
BY DEF TickStates, TypeOK, States, READY

\* A context switch keeps the parts it assigns well typed.
LEMMA SwitchToType ==
  ASSUME NEW new \in Pids, NEW st \in [Pids -> States],
         NEW saved \in [Pids -> RegFile], SwitchTo(new, st, saved)
  PROVE  /\ state' \in [Pids -> States]
         /\ regs' \in [Pids -> RegFile]
         /\ cpu' \in RegFile
         /\ current' \in Pids
         /\ mode' \in {"up", "down", "fault"}
BY DEF SwitchTo, States, RUNNING

-----------------------------------------------------------------------------
\* The swapper and init have slots in the context table.
LEMMA FirstPids == 0 \in Pids /\ 1 \in Pids /\ 1 \in UserPids
BY SchedulerAssumptions DEF Pids, UserPids

\* The machine as exec_init leaves it is well formed.
LEMMA InitType == Init => TypeOK
<1> SUFFICES ASSUME Init PROVE TypeOK
  OBVIOUS
<1> USE SchedulerAssumptions
<1>1. <<>> \in Seq(Rips)
  OBVIOUS
<1>2. regs \in [Pids -> RegFile] /\ cpu \in RegFile
  BY <1>1 DEF Init, RegFile, Rips
<1>3. os_stack_pfn \in [Pids -> Pfns \cup {NoPfn}] /\ freePfns \subseteq Pfns
  BY DEF Init
<1>4. current \in Pids
  BY DEF Init, Pids
<1> QED
  BY <1>2, <1>3, <1>4 DEF Init, TypeOK, States, READY, RUNNING, UNUSED

\* The machine as exec_init leaves it satisfies the inductive invariant.
LEMMA InitInv == Init => Inv
<1> SUFFICES ASSUME Init PROVE Inv
  OBVIOUS
<1> USE FirstPids, SchedulerAssumptions
<1>1. TypeOK
  BY InitType
<1>2. RunningIsCurrent /\ SwapperAlive
  BY DEF Init, RunningIsCurrent, SwapperAlive, READY, RUNNING, UNUSED
<1>3. SwapperOnlyIdles /\ CleanupOnlyWhenAlone
  BY DEF Init, SwapperOnlyIdles, CleanupOnlyWhenAlone
<1>4. SleepersWait
  BY DEF Init, SleepersWait
<1>5. OsStacksDistinct
  BY DEF Init, OsStacksDistinct, UNUSED
<1> QED
  BY <1>1, <1>2, <1>3, <1>4, <1>5 DEF Inv

-----------------------------------------------------------------------------
\* A tick, up to what it saves and what becomes of the alarm.
TickShape(new, saved) ==
  /\ mode = "up"
  /\ ticks_to_sleep' = [p \in Pids |-> CountDown(ticks_to_sleep[p])]
  /\ pick_next_context(TickStates, "TIMER", new)
  /\ IF CleansUp(TickStates, "TIMER")
     THEN /\ mode' = "down"
          /\ state' = TickStates
          /\ UNCHANGED <<regs, cpu, current>>
     ELSE IF new = current
     THEN /\ state' = [TickStates EXCEPT ![new] = RUNNING]
          /\ cpu' = TickFrame
          /\ UNCHANGED <<regs, current, mode>>
     ELSE SwitchTo(new, TickStates, saved)
  /\ UNCHANGED <<alarm_config_time, sighandlers, os_stack_pfn, freePfns>>

\* Such a tick preserves the invariant.
LEMMA TickShapeInv ==
  ASSUME Inv, NEW new \in Pids, NEW saved \in [Pids -> RegFile],
         ticks_to_alarm' \in [Pids -> Nat], TickShape(new, saved)
  PROVE  Inv'
<1> USE FirstPids DEF Inv
<1>1. ticks_to_sleep' \in [Pids -> Nat]
  <2>1. ASSUME NEW n \in Nat PROVE CountDown(n) \in Nat
    BY DEF CountDown
  <2> QED
    BY <2>1 DEF TickShape, TypeOK
<1>3. CASE CleansUp(TickStates, "TIMER")
  \* impossible: the swapper was current, so somebody was asleep
  <2>1. current = 0
    BY <1>3, FirstPids DEF CleansUp
  <2>2. PICK p \in UserPids : state[p] = WAITING
    BY <2>1 DEF SwapperOnlyIdles, TickShape
  <2>3. p # current /\ p \in Pids
    BY <2>1 DEF UserPids
  <2>4. TickStates[p] \in {READY, WAITING}
    BY <2>2, <2>3 DEF TickStates
  <2> QED
    BY <1>3, <2>3, <2>4 DEF CleansUp, Ready
<1>4. CASE ~CleansUp(TickStates, "TIMER")
  <2>1. /\ mode = "up" /\ mode' = "up"
        /\ current' = new
        /\ state' = [TickStates EXCEPT ![new] = RUNNING]
    BY <1>4 DEF TickShape, SwitchTo
  <2>2. /\ regs' \in [Pids -> RegFile]
        /\ cpu' \in RegFile
    BY <1>4, TickFrameType, TickStatesType, SwitchToType
       DEF TickShape, TypeOK
  <2>3. TypeOK'
    BY <1>1, <2>1, <2>2, TickStatesType
       DEF TickShape, TypeOK, States, RUNNING
  <2>4. RunningIsCurrent'
    BY <2>1, TickStatesType
       DEF RunningIsCurrent, TickStates, TypeOK, READY, RUNNING
  <2>5. SwapperOnlyIdles'
    <3>1. SUFFICES ASSUME new = 0 PROVE SwapperOnlyIdles'
      BY <2>1 DEF SwapperOnlyIdles
    <3>2. Ready(TickStates) = {} /\ current = 0
      BY <3>1, PickResult DEF TickShape, Ready, UserPids
    <3>3. \A p \in UserPids : p # current /\ p \in Pids
      BY <3>2 DEF UserPids
    <3>4. \E p \in UserPids : TickStates[p] = WAITING
      BY <1>4, <3>2, <3>3 DEF CleansUp
    <3>5. \A p \in UserPids : TickStates[p] \in {WAITING, UNUSED}
      <4> SUFFICES ASSUME NEW p \in UserPids
                   PROVE  TickStates[p] \in {WAITING, UNUSED}
        OBVIOUS
      <4>1. TickStates[p] # READY
        BY <3>2, <3>3 DEF Ready
      <4>2. TickStates[p] = state[p]
        BY <4>1, <3>3 DEF TickStates
      <4> QED
        BY <4>2, <3>2, <3>3, <2>1 DEF SwapperOnlyIdles
    <3>6. \A p \in UserPids : state'[p] = TickStates[p]
      BY <2>1, <3>1, <3>2, <3>3, TickStatesType
    <3> QED
      BY <3>4, <3>5, <3>6 DEF SwapperOnlyIdles
  <2>6. CleanupOnlyWhenAlone'
    BY <2>1 DEF CleanupOnlyWhenAlone
  <2>7. SleepersWait'
    <3> SUFFICES ASSUME NEW p \in Pids, ticks_to_sleep'[p] > 0
                 PROVE  state'[p] = WAITING
      BY DEF SleepersWait
    <3>1. ticks_to_sleep[p] \in Nat /\ ticks_to_sleep[p] > 1
      BY DEF TickShape, CountDown, TypeOK
    <3>2. state[p] = WAITING
      BY <3>1 DEF SleepersWait
    <3>3. p # current
      BY <2>1, <3>2 DEF RunningIsCurrent, TypeOK, WAITING, RUNNING
    <3>4. TickStates[p] = WAITING
      BY <3>1, <3>2, <3>3 DEF TickStates
    <3>5. p # new
      BY <3>3, <3>4, PickResult
         DEF TickShape, Ready, READY, WAITING
    <3> QED
      BY <2>1, <3>4, <3>5, TickStatesType
  <2>8. OsStacksDistinct'
    <3>1. \A p \in Pids : state'[p] # UNUSED => state[p] # UNUSED
      <4> SUFFICES ASSUME NEW p \in Pids, state[p] = UNUSED
                   PROVE  state'[p] = UNUSED
        OBVIOUS
      <4>1. p # current /\ ticks_to_sleep[p] # 1
        BY <2>1 DEF RunningIsCurrent, SleepersWait, TypeOK,
                    WAITING, RUNNING, UNUSED
      <4>2. TickStates[p] = UNUSED
        BY <4>1 DEF TickStates
      <4>3. p # new
        BY <4>1, <4>2, PickResult
           DEF TickShape, Ready, READY, UNUSED
      <4> QED
        BY <2>1, <4>2, <4>3, TickStatesType
    <3> QED
      BY <2>1, <3>1 DEF OsStacksDistinct, TickShape
  <2>9. SwapperAlive'
    BY <2>1, TickStatesType DEF SwapperAlive, TickStates
  <2> QED
    BY <2>3, <2>4, <2>5, <2>6, <2>7, <2>8, <2>9
<1> QED
  BY <1>3, <1>4

\* Counting down gives a natural number.
LEMMA CountDownType == \A n \in Nat : CountDown(n) \in Nat
BY DEF CountDown

\* The timer tick preserves the invariant.
LEMMA TickInv ==
  ASSUME Inv, NEW new \in Pids, handle_timer_tick(new)
  PROVE  Inv'
<1>1. ticks_to_alarm' \in [Pids -> Nat]
  BY CountDownType, FirstPids DEF handle_timer_tick, Inv, TypeOK
<1>2. TickSaves(new) \in [Pids -> RegFile]
  BY TickFrameType DEF TickSaves, Inv, TypeOK
<1>3. TickShape(new, TickSaves(new))
  BY DEF handle_timer_tick, TickShape
<1> QED
  BY <1>1, <1>2, <1>3, TickShapeInv

(***************************************************************************)
(* The switch after an exit or a sleep: st is the table once current has   *)
(* left the CPU, in a state that is neither READY nor RUNNING.             *)
(***************************************************************************)
LEMMA LeaveCpu ==
  ASSUME Inv, InUser, NEW gone \in {UNUSED, WAITING}, NEW new \in Pids,
         NEW type \in {"DO_EXIT", "SLEEPING"}, NEW saved,
         pick_next_context([state EXCEPT ![current] = gone], type, new),
         SwitchTo(new, [state EXCEPT ![current] = gone], saved),
         new = 0 => \E p \in UserPids : state'[p] = WAITING
  PROVE  /\ new # current
         /\ state' = [[state EXCEPT ![current] = gone] EXCEPT ![new] = RUNNING]
         /\ \A p \in Pids : p # current /\ state'[p] # UNUSED
                             => state[p] # UNUSED
         /\ \A p \in Pids : p # current /\ state[p] = WAITING
                             => state'[p] = WAITING
         /\ RunningIsCurrent'
         /\ SwapperAlive'
         /\ SwapperOnlyIdles'
         /\ CleanupOnlyWhenAlone'
<1> DEFINE st == [state EXCEPT ![current] = gone]
<1> USE FirstPids DEF Inv
<1>1. mode = "up" /\ current # 0 /\ current \in Pids
  BY DEF InUser, TypeOK
<1>2. st \in [Pids -> States] /\ st[current] = gone
  BY <1>1 DEF TypeOK, States
<1>3. \/ new \in Ready(st)
      \/ Ready(st) = {} /\ new = 0
  <2>1. type # "TIMER"
    OBVIOUS
  <2> QED
    BY <2>1 DEF pick_next_context
<1>4. new # current
  BY <1>1, <1>3 DEF Ready
<1>5. /\ state' = [st EXCEPT ![new] = RUNNING]
      /\ current' = new
      /\ mode' = "up"
  BY DEF SwitchTo
<1>6. /\ \A p \in Pids \ {new} : state'[p] = st[p]
      /\ \A p \in Pids \ {current} : st[p] = state[p]
      /\ state'[new] = RUNNING
  BY <1>2, <1>5 DEF TypeOK
<1>7. state[new] = READY
  <2>1. state[0] = READY
    BY <1>1 DEF SwapperAlive, RunningIsCurrent
  <2> QED
    BY <2>1, <1>3, <1>4, <1>6 DEF Ready
<1>8. SwapperAlive'
  BY <1>1, <1>6 DEF SwapperAlive
<1>9. RunningIsCurrent'
  BY <1>1, <1>2, <1>4, <1>5, <1>6
     DEF RunningIsCurrent, RUNNING, UNUSED, WAITING
<1>10. SwapperOnlyIdles'
  <2> SUFFICES ASSUME new = 0, NEW p \in UserPids
               PROVE  state'[p] \in {WAITING, UNUSED}
    BY <1>5 DEF SwapperOnlyIdles
  <2>1. p \in Pids /\ p # new
    BY DEF UserPids
  <2>2. CASE p = current
    BY <2>1, <2>2, <1>2, <1>6
  <2>3. CASE p # current
    <3>1. state[p] # READY
      BY <2>1, <2>3, <1>3, <1>6 DEF Ready, UserPids
    <3>2. state[p] # RUNNING
      BY <1>1, <2>1, <2>3 DEF RunningIsCurrent
    <3> QED
      BY <2>1, <2>3, <1>6, <3>1, <3>2 DEF TypeOK, States
  <2> QED
    BY <2>2, <2>3
<1>11. CleanupOnlyWhenAlone'
  BY <1>5 DEF CleanupOnlyWhenAlone
<1> QED
  BY <1>4, <1>5, <1>6, <1>7, <1>8, <1>9, <1>10, <1>11 DEF READY, UNUSED, WAITING

\* An exit, whether the stack of the context becomes free or not.
ExitShape(new) ==
  LET st == [state EXCEPT ![current] = UNUSED] IN
  /\ InUser
  /\ pick_next_context(st, "DO_EXIT", new)
  /\ IF CleansUp(st, "DO_EXIT")
     THEN /\ mode' = "down"
          /\ state' = st
          /\ UNCHANGED <<regs, cpu, current>>
     ELSE SwitchTo(new, st, regs)
  /\ freePfns' \subseteq freePfns \cup {os_stack_pfn[current]}
  /\ UNCHANGED <<timers, sighandlers, os_stack_pfn>>

\* Such an exit preserves the invariant.
LEMMA ExitShapeInv ==
  ASSUME Inv, NEW new \in Pids, ExitShape(new)
  PROVE  Inv'
<1> DEFINE st == [state EXCEPT ![current] = UNUSED]
<1> USE FirstPids DEF Inv
<1>1. InUser /\ mode = "up" /\ current \in Pids /\ current # 0
  BY DEF ExitShape, InUser, TypeOK
<1>2. state[current] = RUNNING
  BY <1>1 DEF RunningIsCurrent
<1>3. /\ st \in [Pids -> States]
      /\ st[current] = UNUSED
      /\ \A p \in Pids \ {current} : st[p] = state[p]
  BY <1>1 DEF TypeOK, States
<1>4. os_stack_pfn[current] \in Pfns
  BY <1>1, <1>2 DEF OsStacksDistinct, RUNNING, UNUSED
<1>5. TypeOK'
  <2>1. /\ state' \in [Pids -> States]
        /\ regs' \in [Pids -> RegFile]
        /\ cpu' \in RegFile
        /\ current' \in Pids
        /\ mode' \in {"up", "down", "fault"}
    BY <1>3, SwitchToType DEF ExitShape, TypeOK
  <2> QED
    BY <1>4, <2>1 DEF ExitShape, timers, TypeOK
<1>6. ticks_to_sleep[current] = 0
  BY <1>1, <1>2 DEF SleepersWait, TypeOK, RUNNING, WAITING
<1>7. CASE CleansUp(st, "DO_EXIT")
  <2>1. mode' = "down" /\ state' = st /\ ticks_to_sleep' = ticks_to_sleep
    BY <1>7 DEF ExitShape, timers
  <2>2. CleanupOnlyWhenAlone'
    <3> SUFFICES ASSUME NEW p \in UserPids PROVE st[p] = UNUSED
      BY <2>1 DEF CleanupOnlyWhenAlone
    <3>1. CASE p = current
      BY <1>3, <3>1
    <3>2. CASE p # current
      <4>1. p \in Pids /\ st[p] # READY /\ st[p] # WAITING
        BY <1>7, <3>2 DEF CleansUp, Ready, UserPids
      <4>2. st[p] # RUNNING
        BY <1>1, <1>3, <3>2, <4>1 DEF RunningIsCurrent
      <4> QED
        BY <1>3, <4>1, <4>2 DEF States
    <3> QED
      BY <3>1, <3>2
  <2>3. SleepersWait'
    BY <1>3, <1>6, <2>1 DEF SleepersWait
  <2> QED
    BY <1>5, <2>1, <2>2, <2>3
       DEF RunningIsCurrent, SwapperAlive, SwapperOnlyIdles, OsStacksDistinct
<1>8. CASE ~CleansUp(st, "DO_EXIT")
  <2>1. /\ SwitchTo(new, st, regs)
        /\ pick_next_context(st, "DO_EXIT", new)
        /\ mode' = "up"
        /\ freePfns' \subseteq freePfns \cup {os_stack_pfn[current]}
        /\ os_stack_pfn' = os_stack_pfn
        /\ ticks_to_sleep' = ticks_to_sleep
        /\ state' = [st EXCEPT ![new] = RUNNING]
    BY <1>8 DEF ExitShape, timers, SwitchTo
  <2>2. new = 0 => \E p \in UserPids : state'[p] = WAITING
    <3> SUFFICES ASSUME new = 0
                 PROVE  \E p \in UserPids : state'[p] = WAITING
      OBVIOUS
    <3>1. Ready(st) = {}
      BY <2>1, PickResult DEF Ready, UserPids
    <3>2. PICK p \in UserPids \ {current} : st[p] = WAITING
      BY <1>8, <3>1 DEF CleansUp
    <3> QED
      BY <1>3, <2>1, <3>2 DEF UserPids
  <2>3. /\ new # current
        /\ \A p \in Pids : p # current /\ state'[p] # UNUSED
                            => state[p] # UNUSED
        /\ \A p \in Pids : p # current /\ state[p] = WAITING
                            => state'[p] = WAITING
        /\ RunningIsCurrent' /\ SwapperAlive'
        /\ SwapperOnlyIdles' /\ CleanupOnlyWhenAlone'
    <3> HIDE DEF Inv
    <3> QED
      BY <1>1, <2>1, <2>2, LeaveCpu
  <2>4. state'[current] = UNUSED
    BY <1>1, <1>3, <2>1, <2>3
  <2>5. SleepersWait'
    <3> SUFFICES ASSUME NEW p \in Pids, ticks_to_sleep[p] > 0
                 PROVE  state'[p] = WAITING
      BY <2>1 DEF SleepersWait
    <3>1. p # current /\ state[p] = WAITING
      BY <1>6 DEF SleepersWait
    <3> QED
      BY <3>1, <2>3
  <2>6. OsStacksDistinct'
    BY <1>1, <1>2, <2>1, <2>3, <2>4 DEF OsStacksDistinct, RUNNING, UNUSED
  <2> QED
    BY <1>5, <2>3, <2>5, <2>6
<1> QED
  BY <1>7, <1>8

\* exit() preserves the invariant; the exiting context's stack becomes free.
LEMMA ExitInv ==
  ASSUME Inv, NEW new \in Pids, do_exit(new)
  PROVE  Inv'
<1>1. ExitShape(new)
  BY DEF do_exit, ExitShape
<1> QED
  BY <1>1, ExitShapeInv

\* sleep() preserves the invariant.
LEMMA SleepInv ==
  ASSUME Inv, NEW ticks \in SleepTicks, NEW new \in Pids, do_sleep(ticks, new)
  PROVE  Inv'
<1> DEFINE st == [state EXCEPT ![current] = WAITING]
<1> USE FirstPids DEF Inv
<1>1. InUser /\ mode = "up" /\ current \in UserPids /\ current \in Pids
  BY DEF do_sleep, InUser, TypeOK, UserPids
<1>2. state[current] = RUNNING
  BY <1>1 DEF RunningIsCurrent
<1>3. st \in [Pids -> States] /\ st[current] = WAITING
  BY <1>1 DEF TypeOK, States
<1>4. SleepSaves \in [Pids -> RegFile]
  <2>1. cpu \in RegFile /\ regs[current] \in RegFile
    BY <1>1 DEF TypeOK
  <2>2. SleepSaves = [regs EXCEPT ![current] =
                        [regs[current] EXCEPT !.rip = cpu.rip, !.stk = cpu.stk]]
    BY <1>1, <2>1 DEF SleepSaves, TypeOK, RegFile
  <2> QED
    BY <2>1, <2>2 DEF TypeOK, RegFile
<1>5. /\ SwitchTo(new, st, SleepSaves)
      /\ pick_next_context(st, "SLEEPING", new)
      /\ mode' = "up"
      /\ state' = [st EXCEPT ![new] = RUNNING]
      /\ ticks_to_sleep' = [ticks_to_sleep EXCEPT ![current] = ticks]
  BY DEF do_sleep, SwitchTo
<1>6. new # current
  BY <1>1, <1>5, PickResult DEF Ready, UserPids
<1>7. state'[current] = WAITING
  BY <1>1, <1>3, <1>5, <1>6
<1>8. /\ \A p \in Pids : p # current /\ state'[p] # UNUSED
                          => state[p] # UNUSED
      /\ \A p \in Pids : p # current /\ state[p] = WAITING
                          => state'[p] = WAITING
      /\ RunningIsCurrent' /\ SwapperAlive'
      /\ SwapperOnlyIdles' /\ CleanupOnlyWhenAlone'
  <2> HIDE DEF Inv
  <2> QED
    BY <1>1, <1>5, <1>7, LeaveCpu
<1>9. TypeOK'
  <2>1. ticks_to_sleep' \in [Pids -> Nat]
    BY <1>5, SchedulerAssumptions DEF TypeOK
  <2>2. /\ state' \in [Pids -> States]
        /\ regs' \in [Pids -> RegFile]
        /\ cpu' \in RegFile
        /\ current' \in Pids
        /\ mode' \in {"up", "down", "fault"}
    BY <1>3, <1>4, <1>5, SwitchToType
  <2> QED
    BY <2>1, <2>2 DEF do_sleep, TypeOK
<1>10. SleepersWait'
  BY <1>5, <1>7, <1>8 DEF SleepersWait, TypeOK
<1>11. OsStacksDistinct'
  <2>1. \A p \in Pids : state'[p] # UNUSED => state[p] # UNUSED
    BY <1>2, <1>8 DEF RUNNING, UNUSED
  <2> QED
    BY <1>1, <2>1 DEF OsStacksDistinct, do_sleep
<1> QED
  BY <1>8, <1>9, <1>10, <1>11

\* A clone that copies registers and handlers from somewhere.
CloneShape(new, pfn) ==
  /\ InUser
  /\ get_new_ctx(new)
  /\ state' = [state EXCEPT ![new] = READY]
  /\ os_stack_pfn' = CloneStacks(new, pfn)
  /\ freePfns' = freePfns \ {pfn}
  /\ ticks_to_sleep' = [ticks_to_sleep EXCEPT ![new] = 0]
  /\ ticks_to_alarm' = [ticks_to_alarm EXCEPT ![new] = 0]
  /\ alarm_config_time' = [alarm_config_time EXCEPT ![new] = 0]
  /\ UNCHANGED <<current, cpu, mode>>

\* It preserves the invariant: the new stack was free, so nobody has it.
LEMMA CloneShapeInv ==
  ASSUME Inv, NEW new \in Pids, NEW pfn \in freePfns, CloneShape(new, pfn),
         sighandlers' \in [Pids -> SUBSET Signals],
         regs' \in [Pids -> RegFile]
  PROVE  Inv'
<1> USE FirstPids DEF Inv
<1>1. mode = "up" /\ mode' = "up" /\ current # 0 /\ current' = current
  BY DEF CloneShape, InUser
<1>2. state[new] = UNUSED /\ state' = [state EXCEPT ![new] = READY]
  BY DEF CloneShape, get_new_ctx
<1>3. new # current /\ new # 0
  BY <1>1, <1>2 DEF RunningIsCurrent, SwapperAlive, TypeOK,
                    READY, RUNNING, UNUSED
<1>4. /\ state'[new] = READY
      /\ \A p \in Pids \ {new} : state'[p] = state[p]
  BY <1>2 DEF TypeOK
<1>5. TypeOK'
  <2>3. CloneStacks(new, pfn) \in [Pids -> Pfns \cup {NoPfn}]
    BY DEF CloneStacks, TypeOK
  <2>4. /\ ticks_to_sleep' \in [Pids -> Nat]
        /\ ticks_to_alarm' \in [Pids -> Nat]
        /\ alarm_config_time' \in [Pids -> Nat]
    BY DEF CloneShape, TypeOK
  <2>6. state' \in [Pids -> States]
    BY <1>2 DEF TypeOK, States
  <2> QED
    BY <2>3, <2>4, <2>6 DEF CloneShape, TypeOK
<1>6. RunningIsCurrent' /\ SwapperAlive'
  BY <1>1, <1>3, <1>4 DEF RunningIsCurrent, SwapperAlive, READY, RUNNING
<1>7. SwapperOnlyIdles' /\ CleanupOnlyWhenAlone'
  BY <1>1 DEF SwapperOnlyIdles, CleanupOnlyWhenAlone
<1>8. SleepersWait'
  <2>1. ticks_to_sleep' = [ticks_to_sleep EXCEPT ![new] = 0]
    BY DEF CloneShape
  <2> QED
    BY <1>4, <2>1 DEF SleepersWait, TypeOK
<1>9. OsStacksDistinct'
  <2>1. /\ os_stack_pfn' = [os_stack_pfn EXCEPT ![new] = pfn]
        /\ freePfns' = freePfns \ {pfn}
    BY DEF CloneShape, CloneStacks
  <2>2. /\ os_stack_pfn'[new] = pfn
        /\ \A p \in Pids \ {new} : os_stack_pfn'[p] = os_stack_pfn[p]
    BY <2>1 DEF TypeOK
  <2>3. \A p \in Pids : state[p] # UNUSED => os_stack_pfn[p] # pfn
    BY <1>1 DEF OsStacksDistinct
  <2>4. pfn \in Pfns
    BY DEF TypeOK
  <2> QED
    BY <1>1, <1>4, <2>1, <2>2, <2>3, <2>4 DEF OsStacksDistinct
<1> QED
  BY <1>5, <1>6, <1>7, <1>8, <1>9

\* clone() preserves the invariant.
LEMMA CloneInv ==
  ASSUME Inv, NEW new \in Pids, NEW pfn \in freePfns, do_clone(new, pfn)
  PROVE  Inv'
<1>1. <<>> \in Seq(Rips)
  OBVIOUS
<1>2. regs' \in [Pids -> RegFile]
  BY <1>1, FirstPids DEF do_clone, CloneRegs, Inv, TypeOK, RegFile, Rips
<1>3. sighandlers' \in [Pids -> SUBSET Signals]
  BY FirstPids DEF do_clone, Inv, TypeOK
<1>4. CloneShape(new, pfn)
  BY DEF do_clone, CloneShape
<1> QED
  BY <1>2, <1>3, <1>4, CloneShapeInv

\* The steps that leave the context table and the stacks alone.
LEMMA QuietInv ==
  ASSUME Inv, TypeOK', mode' \in {mode, "fault"},
         UNCHANGED <<state, ticks_to_sleep, os_stack_pfn, current, freePfns>>
  PROVE  Inv'
BY DEF Inv, RunningIsCurrent, SwapperAlive, SwapperOnlyIdles,
       CleanupOnlyWhenAlone, SleepersWait, OsStacksDistinct

\* Every handler preserves the inductive invariant.
LEMMA NextInv == Inv /\ [Next]_vars => Inv'
<1> SUFFICES ASSUME Inv, [Next]_vars PROVE Inv'
  OBVIOUS
<1>1. CASE Tick
  BY <1>1, TickInv DEF Tick
<1>2. ASSUME NEW new \in Pids, do_exit(new) PROVE Inv'
  BY <1>2, ExitInv
<1>3. ASSUME NEW ticks \in SleepTicks, NEW new \in Pids, do_sleep(ticks, new)
      PROVE  Inv'
  BY <1>3, SleepInv
<1>4. ASSUME NEW new \in Pids, NEW pfn \in freePfns, do_clone(new, pfn)
      PROVE  Inv'
  BY <1>4, CloneInv
<1>5. CASE clone_table_full
  <2>1. TypeOK'
    BY <1>5 DEF clone_table_full, timers, Inv, TypeOK
  <2> QED
    BY <1>5, <2>1, QuietInv DEF clone_table_full, timers
<1>6. ASSUME NEW signo \in Signals, NEW registered \in BOOLEAN,
             do_signal(signo, registered)
      PROVE  Inv'
  <2>1. TypeOK'
    BY <1>6 DEF do_signal, timers, Inv, TypeOK
  <2> QED
    BY <1>6, <2>1, QuietInv DEF do_signal, timers
<1>7. ASSUME NEW ticks \in AlarmTicks, do_alarm(ticks) PROVE Inv'
  <2>1. TypeOK'
    BY <1>7, SchedulerAssumptions DEF do_alarm, Inv, TypeOK
  <2> QED
    BY <1>7, <2>1, QuietInv DEF do_alarm
<1>8. ASSUME NEW signo \in FaultSignals, invoke_sync_signal(signo) PROVE Inv'
  <2>1. TypeOK'
    BY <1>8, DeliverType DEF invoke_sync_signal, timers, Inv, TypeOK
  <2> QED
    BY <1>8, <2>1, QuietInv DEF invoke_sync_signal, timers
<1>9. ASSUME NEW signo \in FaultSignals, NEW new \in Pids,
             fault_exit(signo, new)
      PROVE  Inv'
  BY <1>9, ExitInv DEF fault_exit
<1>10. ASSUME NEW g \in Gprs, UserStep(g) PROVE Inv'
  <2>1. cpu' \in RegFile
    BY <1>10 DEF UserStep, Inv, TypeOK, RegFile
  <2>2. TypeOK'
    BY <1>10, <2>1 DEF UserStep, timers, Inv, TypeOK
  <2> QED
    BY <1>10, <2>2, QuietInv DEF UserStep, timers
<1>11. ASSUME NEW depth \in 1 .. MaxNest, HandlerReturn(depth) PROVE Inv'
  <2>1. cpu \in RegFile /\ cpu.stk \in Seq(Rips) /\ cpu.stk # <<>>
    BY <1>11, SchedulerAssumptions DEF HandlerReturn, Inv, TypeOK, RegFile
  <2>2. Head(cpu.stk) \in Rips /\ Tail(cpu.stk) \in Seq(Rips)
    BY <2>1
  <2>3. cpu' \in RegFile
    BY <1>11, <2>1, <2>2 DEF HandlerReturn, RegFile
  <2>4. TypeOK'
    BY <1>11, <2>3 DEF HandlerReturn, timers, Inv, TypeOK
  <2> QED
    BY <1>11, <2>4, QuietInv DEF HandlerReturn, timers
<1>12. CASE UNCHANGED vars
  BY <1>12 DEF vars, timers, Inv, TypeOK, RunningIsCurrent, SwapperAlive,
               SwapperOnlyIdles, CleanupOnlyWhenAlone, SleepersWait,
               OsStacksDistinct
<1> QED
  BY <1>1, <1>2, <1>3, <1>4, <1>5, <1>6, <1>7, <1>8, <1>9, <1>10, <1>11,
     <1>12 DEF Next

-----------------------------------------------------------------------------
\* The inductive invariant holds in every reachable state: type correctness, one
\* RUNNING context, a live swapper, stacks owned once, counts only of sleepers.
THEOREM Invariance == Spec => []Inv
BY InitInv, NextInv, PTL DEF Spec

\* Every handler keeps the context table, the saved registers, the user stacks
\* and the frame pool well formed, for every table size.
THEOREM TypeCorrect == Spec => []TypeOK
<1>1. Inv => TypeOK
  BY DEF Inv
<1> QED
  BY <1>1, Invariance, PTL

\* At every moment exactly the context get_current_ctx() returns is RUNNING.
THEOREM OneRunning == Spec => []RunningIsCurrent
<1>1. Inv => RunningIsCurrent
  BY DEF Inv
<1> QED
  BY <1>1, Invariance, PTL

\* The swapper is loaded by exit and sleep only when a context is asleep and
\* none is READY; so a tick in the swapper never shuts the machine down, and
\* exit shuts it down only when no other context is left, awake or asleep.
THEOREM IdleOnlyWhenAllSleep ==
  Spec => [](SwapperOnlyIdles /\ CleanupOnlyWhenAlone)
<1>1. Inv => SwapperOnlyIdles /\ CleanupOnlyWhenAlone
  BY DEF Inv
<1> QED
  BY <1>1, Invariance, PTL

\* The tick loop, which looks only at ticks_to_sleep, never makes an exited or
\* a cloned context READY by a left-over count.
THEOREM OnlySleepersCount == Spec => []SleepersWait
<1>1. Inv => SleepersWait
  BY DEF Inv
<1> QED
  BY <1>1, Invariance, PTL

\* Two live contexts never share an OS stack frame, and none of them runs on a
\* frame of the free list, whatever the order of clones and exits.
THEOREM StacksNeverShared == Spec => []OsStacksDistinct
<1>1. Inv => OsStacksDistinct
  BY DEF Inv
<1> QED
  BY <1>1, Invariance, PTL

-----------------------------------------------------------------------------
\* The step formulas of the two register properties.
SavesFrame ==
  current' # current /\ state'[current] = READY => regs'[current] = TickFrame

ResumesSaved ==
  /\ current' # current => cpu' = regs[current']
  /\ \A p \in Pids : p # current /\ state[p] # UNUSED => regs'[p] = regs[p]

\* What every step does to the saved registers.
LEMMA RegisterStep == Inv /\ [Next]_vars => SavesFrame /\ ResumesSaved
<1> SUFFICES ASSUME Inv, [Next]_vars PROVE SavesFrame /\ ResumesSaved
  OBVIOUS
<1> USE FirstPids DEF Inv, SavesFrame, ResumesSaved
<1>t. current \in Pids /\ regs \in [Pids -> RegFile]
  BY DEF TypeOK
<1>1. ASSUME NEW new \in Pids, handle_timer_tick(new)
      PROVE  SavesFrame /\ ResumesSaved
  <2>1. CASE CleansUp(TickStates, "TIMER") \/ new = current
    BY <1>1, <2>1 DEF handle_timer_tick
  <2>2. CASE ~CleansUp(TickStates, "TIMER") /\ new # current
    <3>1. /\ current' = new
          /\ regs' = [regs EXCEPT ![current] = TickFrame]
          /\ cpu' = regs'[new]
      BY <1>1, <2>2 DEF handle_timer_tick, SwitchTo, TickSaves
    <3> QED
      BY <1>t, <2>2, <3>1
  <2> QED
    BY <2>1, <2>2
<1>2. ASSUME NEW new \in Pids, do_exit(new)
      PROVE  SavesFrame /\ ResumesSaved
  <2> DEFINE st == [state EXCEPT ![current] = UNUSED]
  <2>1. regs' = regs
    BY <1>2 DEF do_exit, SwitchTo
  <2>2. current' # current => cpu' = regs[current']
    BY <1>2 DEF do_exit, SwitchTo
  <2>3. current' # current => state'[current] = UNUSED
    BY <1>2, <1>t DEF do_exit, SwitchTo, TypeOK
  <2> QED
    BY <2>1, <2>2, <2>3 DEF READY, UNUSED
<1>3. ASSUME NEW ticks \in SleepTicks, NEW new \in Pids, do_sleep(ticks, new)
      PROVE  SavesFrame /\ ResumesSaved
  <2>1. /\ current' = new
        /\ regs' = SleepSaves
        /\ cpu' = SleepSaves[new]
    BY <1>3 DEF do_sleep, SwitchTo
  <2>2. \A p \in Pids \ {current} : SleepSaves[p] = regs[p]
    BY <1>t DEF SleepSaves
  <2>3. new # current => state'[current] = WAITING
    BY <1>3, <1>t DEF do_sleep, SwitchTo, TypeOK
  <2> QED
    BY <2>1, <2>2, <2>3 DEF READY, WAITING
<1>4. ASSUME NEW new \in Pids, NEW pfn \in freePfns, do_clone(new, pfn)
      PROVE  SavesFrame /\ ResumesSaved
  <2>1. current' = current /\ regs' = CloneRegs(new) /\ state[new] = UNUSED
    BY <1>4 DEF do_clone, get_new_ctx
  <2> QED
    BY <1>t, <2>1 DEF CloneRegs
<1>5. CASE UNCHANGED <<current, regs>>
  BY <1>5
<1>6. ASSUME NEW signo \in FaultSignals, NEW new \in Pids,
             fault_exit(signo, new)
      PROVE  SavesFrame /\ ResumesSaved
  BY <1>2, <1>6 DEF fault_exit
<1> QED
  <2>1. CASE Tick
    BY <2>1, <1>1 DEF Tick
  <2>2. CASE \/ clone_table_full
             \/ \E signo \in Signals, registered \in BOOLEAN :
                  do_signal(signo, registered)
             \/ \E ticks \in AlarmTicks : do_alarm(ticks)
             \/ \E signo \in FaultSignals : invoke_sync_signal(signo)
             \/ \E g \in Gprs : UserStep(g)
             \/ \E depth \in 1 .. MaxNest : HandlerReturn(depth)
             \/ UNCHANGED vars
    <3>1. UNCHANGED <<current, regs>>
      BY <2>2 DEF clone_table_full, do_signal, do_alarm, invoke_sync_signal,
                  UserStep, HandlerReturn, vars
    <3> QED
      BY <1>5, <3>1
  <2> QED
    BY <1>2, <1>3, <1>4, <1>6, <2>1, <2>2 DEF Next

\* A preempted context is saved with the signal frame the tick pushed on it.
THEOREM PreemptionIsComplete == Spec => PreemptionSavesFrame
<1>1. Inv /\ [Next]_vars
        => [current' # current /\ state'[current] = READY
              => regs'[current] = TickFrame]_vars
  BY RegisterStep DEF SavesFrame
<1> QED
  BY <1>1, Invariance, PTL DEF Spec, PreemptionSavesFrame

\* A context resumes from its saved registers, which no handler run by another
\* context has changed in between.
THEOREM ResumeIsExact == Spec => ResumesSavedRegs
<1>1. Inv /\ [Next]_vars
        => [/\ current' # current => cpu' = regs[current']
            /\ \A p \in Pids : p # current /\ state[p] # UNUSED
                               => regs'[p] = regs[p]]_vars
  BY RegisterStep DEF ResumesSaved
<1> QED
  BY <1>1, Invariance, PTL DEF Spec, ResumesSavedRegs

-----------------------------------------------------------------------------
\* A signal pushes the address under which the interrupted code goes on.
LEMMA DeliverNested ==
  ASSUME NEW f \in RegFile, Nested(f)
  PROVE  Nested(Deliver(f))
<1> DEFINE s == <<f.rip>> \o f.stk
<1>1. f.stk \in Seq(Rips) /\ f.rip \in Rips
  BY DEF RegFile
<1>2. s \in Seq(Rips) /\ Len(s) = Len(f.stk) + 1 /\ s # <<>>
  BY <1>1
<1>3. \A i \in 1 .. Len(s) : s[i] = IF i = 1 THEN f.rip ELSE f.stk[i - 1]
  BY <1>1
<1>4. Deliver(f).rip = "handler" /\ Deliver(f).stk = s
  BY DEF Deliver, RegFile
<1>5. ASSUME NEW i \in 1 .. Len(s)
      PROVE  s[i] = IF i = Len(s) THEN "body" ELSE "handler"
  <2>1. CASE f.stk = <<>>
    BY <1>2, <1>3, <2>1 DEF Nested
  <2>2. CASE f.stk # <<>> /\ i = 1
    <3>1. Len(f.stk) > 0
      BY <1>1, <2>2
    <3> QED
      BY <1>2, <1>3, <2>2, <3>1 DEF Nested
  <2>3. CASE f.stk # <<>> /\ i # 1
    <3>1. i - 1 \in 1 .. Len(f.stk) /\ (i - 1 = Len(f.stk) <=> i = Len(s))
      BY <1>1, <1>2, <2>3
    <3>2. f.stk[i - 1] = IF i - 1 = Len(f.stk) THEN "body" ELSE "handler"
      BY <2>3, <3>1 DEF Nested
    <3>3. s[i] = f.stk[i - 1]
      BY <1>3, <2>3
    <3> QED
      BY <3>1, <3>2, <3>3
  <2> QED
    BY <2>1, <2>2, <2>3
<1> QED
  BY <1>2, <1>4, <1>5 DEF Nested

\* The ret of a handler pops exactly the address of what it interrupted.
LEMMA ReturnNested ==
  ASSUME NEW f \in RegFile, Nested(f), f.stk # <<>>
  PROVE  Nested([f EXCEPT !.rip = Head(f.stk), !.stk = Tail(f.stk)])
<1>1. f.stk \in Seq(Rips) /\ Len(f.stk) > 0
  BY DEF RegFile
<1>2. PICK s : s = Tail(f.stk)
  OBVIOUS
<1>r. /\ s \in Seq(Rips) /\ Len(s) = Len(f.stk) - 1
      /\ \A i \in 1 .. Len(s) : s[i] = f.stk[i + 1]
  BY <1>1, <1>2
<1> DEFINE g == [f EXCEPT !.rip = Head(f.stk), !.stk = Tail(f.stk)]
<1>3. g.rip = f.stk[1] /\ g.stk = s
  BY <1>1, <1>2 DEF RegFile
<1>4. CASE s = <<>>
  <2>1. Len(s) = 0
    BY <1>4
  <2>2. Len(f.stk) = 1
    BY <1>1, <1>r, <2>1
  <2> QED
    BY <1>3, <1>4, <2>2 DEF Nested
<1>5. CASE s # <<>>
  <2>1. Len(f.stk) > 1
    BY <1>1, <1>r, <1>5
  <2>2. g.rip = "handler"
    BY <1>1, <1>3, <2>1 DEF Nested
  <2>3. ASSUME NEW i \in 1 .. Len(s)
        PROVE  s[i] = IF i = Len(s) THEN "body" ELSE "handler"
    <3>1. i + 1 \in 1 .. Len(f.stk) /\ (i + 1 = Len(f.stk) <=> i = Len(s))
      BY <1>1, <1>r
    <3> QED
      BY <1>1, <1>r, <3>1 DEF Nested
  <2> QED
    BY <1>3, <1>5, <2>2, <2>3 DEF Nested
<1> QED
  BY <1>4, <1>5, <1>2

\* Whether a frame is nested depends on its rip and its stack alone.
LEMMA SameFrameNested ==
  ASSUME NEW f, NEW g, Nested(f), g.rip = f.rip, g.stk = f.stk
  PROVE  Nested(g)
BY DEF Nested

\* No handler loses the way back of a signal handler.
LEMMA NestStep == Inv /\ HandlersNest /\ [Next]_vars => HandlersNest'
<1> SUFFICES ASSUME Inv, HandlersNest, [Next]_vars PROVE HandlersNest'
  OBVIOUS
<1>t. /\ current \in Pids /\ cpu \in RegFile /\ regs \in [Pids -> RegFile]
      /\ Nested(cpu) /\ \A p \in Pids : Nested(regs[p])
  BY DEF Inv, TypeOK, HandlersNest
<1>1. ASSUME NEW new \in Pids, handle_timer_tick(new) PROVE HandlersNest'
  <2>1. Nested(TickFrame)
    BY <1>t, DeliverNested DEF TickFrame
  <2>2. CASE CleansUp(TickStates, "TIMER") \/ new = current
    <3>1. regs' = regs /\ cpu' \in {cpu, TickFrame}
      BY <1>1, <2>2 DEF handle_timer_tick
    <3> QED
      BY <1>t, <2>1, <3>1 DEF HandlersNest
  <2>3. CASE ~CleansUp(TickStates, "TIMER") /\ new # current
    <3>1. /\ regs' = [regs EXCEPT ![current] = TickFrame]
          /\ cpu' = regs'[new]
      BY <1>1, <2>3 DEF handle_timer_tick, SwitchTo, TickSaves
    <3> QED
      BY <1>t, <2>1, <3>1 DEF HandlersNest
  <2> QED
    BY <2>2, <2>3
<1>2. ASSUME NEW new \in Pids, do_exit(new) PROVE HandlersNest'
  <2>1. regs' = regs /\ cpu' \in {cpu, regs[new]}
    BY <1>2 DEF do_exit, SwitchTo
  <2> QED
    BY <1>t, <2>1 DEF HandlersNest
<1>3. ASSUME NEW ticks \in SleepTicks, NEW new \in Pids, do_sleep(ticks, new)
      PROVE  HandlersNest'
  <2>1. regs' = SleepSaves /\ cpu' = SleepSaves[new]
    BY <1>3 DEF do_sleep, SwitchTo
  <2>2. /\ SleepSaves[current].rip = cpu.rip
        /\ SleepSaves[current].stk = cpu.stk
    BY <1>t DEF SleepSaves, RegFile
  <2>3. \A p \in Pids \ {current} : SleepSaves[p] = regs[p]
    BY <1>t DEF SleepSaves
  <2>4. \A p \in Pids : Nested(SleepSaves[p])
    BY <1>t, <2>2, <2>3, SameFrameNested
  <2> QED
    BY <2>1, <2>4 DEF HandlersNest
<1>4. ASSUME NEW new \in Pids, NEW pfn \in freePfns, do_clone(new, pfn)
      PROVE  HandlersNest'
  <2> DEFINE fresh == [regs[1] EXCEPT !.rip = "body", !.stk = <<>>]
  <2>1. cpu' = cpu /\ regs' = [regs EXCEPT ![new] = fresh]
    BY <1>4 DEF do_clone, CloneRegs
  <2>2. fresh.rip = "body" /\ fresh.stk = <<>>
    BY <1>t, FirstPids DEF RegFile
  <2>3. Nested(fresh)
    BY <2>2 DEF Nested
  <2> QED
    BY <1>t, <2>1, <2>3 DEF HandlersNest
<1>5. ASSUME NEW signo \in FaultSignals, invoke_sync_signal(signo)
      PROVE  HandlersNest'
  <2>1. regs' = regs /\ cpu' = Deliver(cpu)
    BY <1>5 DEF invoke_sync_signal
  <2> QED
    BY <1>t, <2>1, DeliverNested DEF HandlersNest
<1>6. ASSUME NEW g \in Gprs, UserStep(g) PROVE HandlersNest'
  <2>1. regs' = regs /\ cpu'.rip = cpu.rip /\ cpu'.stk = cpu.stk
    BY <1>6, <1>t DEF UserStep, RegFile
  <2> QED
    BY <1>t, <2>1, SameFrameNested DEF HandlersNest
<1>7. ASSUME NEW depth \in 1 .. MaxNest, HandlerReturn(depth)
      PROVE  HandlersNest'
  <2>1. /\ regs' = regs /\ cpu.stk # <<>>
        /\ cpu' = [cpu EXCEPT !.rip = Head(cpu.stk), !.stk = Tail(cpu.stk)]
    BY <1>7, SchedulerAssumptions DEF HandlerReturn
  <2> QED
    BY <1>t, <2>1, ReturnNested DEF HandlersNest
<1>8. CASE \/ clone_table_full
           \/ \E signo \in Signals, registered \in BOOLEAN :
                do_signal(signo, registered)
           \/ \E ticks \in AlarmTicks : do_alarm(ticks)
           \/ UNCHANGED vars
  <2>1. UNCHANGED <<cpu, regs>>
    BY <1>8 DEF clone_table_full, do_signal, do_alarm, vars
  <2> QED
    BY <1>t, <2>1 DEF HandlersNest
<1> QED
  BY <1>1, <1>2, <1>3, <1>4, <1>5, <1>6, <1>7, <1>8 DEF Next, Tick, fault_exit

\* Signal handlers find their way back: the return addresses on the CPU and in
\* every saved frame nest, however ticks, sleeps and switches come between.
THEOREM SignalsReturn == Spec => []HandlersNest
<1>1. Init => HandlersNest
  BY DEF Init, HandlersNest, Nested
<1> QED
  BY <1>1, NestStep, Invariance, PTL DEF Spec
-----------------------------------------------------------------------------
(***************************************************************************)
(* The same theorems for whichever scheduler is linked: schedule.c,        *)
(* schedule_v1.c or schedule_v2.c.  The earlier ones differ in four steps, *)
(* and for each the invariant is the one of schedule.c.                    *)
(***************************************************************************)
\* The steps in which the earlier schedulers differ from schedule.c.
EarlierStep ==
  \/ \E new \in Pids : handle_timer_tick_v2(new)
  \/ \E new \in Pids : do_exit_v2(new)
  \/ \E new \in Pids, pfn \in freePfns : do_clone_v1(new, pfn)
  \/ \E ticks \in AlarmTicks : do_alarm_v2(ticks)

\* The steps they have in common with it.
SharedStep ==
  \/ \E ticks \in SleepTicks, new \in Pids : do_sleep(ticks, new)
  \/ \E new \in Pids, pfn \in freePfns : do_clone(new, pfn)
  \/ clone_table_full
  \/ \E signo \in Signals, registered \in BOOLEAN : do_signal(signo, registered)
  \/ \E signo \in FaultSignals : invoke_sync_signal(signo)
  \/ \E g \in Gprs : UserStep(g)
  \/ \E depth \in 1 .. MaxNest : HandlerReturn(depth)

\* Every step is one of schedule.c, and of the shared ones if another file is
\* linked, or one in which that file differs.
LEMMA StepCases ==
  [VersionsNext]_allvars
    => \/ version = "schedule" /\ Next
       \/ version # "schedule" /\ (SharedStep \/ EarlierStep)
       \/ UNCHANGED vars
<1> SUFFICES ASSUME [VersionsNext]_allvars
             PROVE  \/ version = "schedule" /\ Next
                    \/ version # "schedule" /\ (SharedStep \/ EarlierStep)
                    \/ UNCHANGED vars
  OBVIOUS
<1>1. CASE version = "v1" /\ NextV1
  <2>1. SharedStep \/ EarlierStep
    BY <1>1 DEF NextV1, SharedStep, EarlierStep, handle_timer_tick_v1,
                do_exit_v1, do_sleep_v1, do_sleep_v2, do_signal_v1,
                do_signal_v2, do_alarm_v1, invoke_sync_signal_v1,
                invoke_sync_signal_v2
  <2> QED
    BY <1>1, <2>1
<1>2. CASE version = "v2" /\ NextV2
  <2>1. SharedStep \/ EarlierStep
    BY <1>2 DEF NextV2, SharedStep, EarlierStep, do_sleep_v2, do_clone_v2,
                do_signal_v2, invoke_sync_signal_v2
  <2> QED
    BY <1>2, <2>1
<1>3. CASE version # "schedule" /\ User
  BY <1>3 DEF User, SharedStep
<1>4. CASE version = "schedule" /\ Next
  BY <1>4
<1>5. CASE UNCHANGED allvars
  BY <1>5 DEF allvars
<1> QED
  BY <1>1, <1>2, <1>3, <1>4, <1>5 DEF VersionsNext

\* A shared step is a step of schedule.c.
LEMMA SharedIsNext == SharedStep => Next
BY DEF SharedStep, Next

\* The earlier steps preserve the invariant.
LEMMA EarlierInv == Inv /\ EarlierStep => Inv'
<1> SUFFICES ASSUME Inv, EarlierStep PROVE Inv'
  OBVIOUS
<1>1. ASSUME NEW new \in Pids, handle_timer_tick_v2(new) PROVE Inv'
  <2>1. ticks_to_alarm' \in [Pids -> Nat]
    BY <1>1, CountDownType, FirstPids DEF handle_timer_tick_v2, Inv, TypeOK
  <2>2. TickSaves_v2 \in [Pids -> RegFile]
    BY DEF TickSaves_v2, Inv, TypeOK
  <2>3. TickShape(new, TickSaves_v2)
    BY <1>1 DEF handle_timer_tick_v2, pick_next_context_v2, TickShape
  <2> QED
    BY <2>1, <2>2, <2>3, TickShapeInv
<1>2. ASSUME NEW new \in Pids, do_exit_v2(new) PROVE Inv'
  <2>1. ExitShape(new)
    BY <1>2 DEF do_exit_v2, pick_next_context_v2, ExitShape
  <2> QED
    BY <2>1, ExitShapeInv
<1>3. ASSUME NEW new \in Pids, NEW pfn \in freePfns, do_clone_v1(new, pfn)
      PROVE  Inv'
  <2>1. <<>> \in Seq(Rips)
    OBVIOUS
  <2>2. regs' \in [Pids -> RegFile]
    BY <1>3, <2>1 DEF do_clone_v1, CloneRegs_v1, Inv, TypeOK, RegFile, Rips
  <2>3. sighandlers' \in [Pids -> SUBSET Signals]
    BY <1>3 DEF do_clone_v1, Inv, TypeOK
  <2>4. CloneShape(new, pfn)
    BY <1>3 DEF do_clone_v1, CloneShape
  <2> QED
    BY <2>2, <2>3, <2>4, CloneShapeInv
<1>4. ASSUME NEW ticks \in AlarmTicks, do_alarm_v2(ticks) PROVE Inv'
  <2>1. TypeOK'
    BY <1>4, SchedulerAssumptions DEF do_alarm_v2, Inv, TypeOK
  <2> QED
    BY <1>4, <2>1, QuietInv DEF do_alarm_v2
<1> QED
  BY <1>1, <1>2, <1>3, <1>4 DEF EarlierStep

\* Whichever scheduler is linked, every step preserves the inductive invariant.
LEMMA VersionsStepInv == Inv /\ [VersionsNext]_allvars => Inv'
BY StepCases, SharedIsNext, EarlierInv, NextInv

\* The inductive invariant of schedule.c is one of all three schedulers.
THEOREM VersionsInvariance == VersionsSpec => []Inv
<1>1. VersionsInit => Inv
  BY InitInv DEF VersionsInit
<1> QED
  BY <1>1, VersionsStepInv, PTL DEF VersionsSpec

\* Every handler of every version keeps the scheduler's state well formed.
THEOREM VersionsTypeCorrect == VersionsSpec => []TypeOK
<1>1. Inv => TypeOK
  BY DEF Inv
<1> QED
  BY <1>1, VersionsInvariance, PTL

\* In every version one context runs, and it is the current one.
THEOREM VersionsOneRunning == VersionsSpec => []RunningIsCurrent
<1>1. Inv => RunningIsCurrent
  BY DEF Inv
<1> QED
  BY <1>1, VersionsInvariance, PTL

\* In every version the swapper runs only while all others sleep.
THEOREM VersionsIdle == VersionsSpec => []SwapperOnlyIdles
<1>1. Inv => SwapperOnlyIdles
  BY DEF Inv
<1> QED
  BY <1>1, VersionsInvariance, PTL

\* In every version do_cleanup is reached only when no user context is left.
THEOREM VersionsCleanup == VersionsSpec => []CleanupOnlyWhenAlone
<1>1. Inv => CleanupOnlyWhenAlone
  BY DEF Inv
<1> QED
  BY <1>1, VersionsInvariance, PTL

\* In every version a positive sleep count belongs to a sleeper.
THEOREM VersionsSleepers == VersionsSpec => []SleepersWait
<1>1. Inv => SleepersWait
  BY DEF Inv
<1> QED
  BY <1>1, VersionsInvariance, PTL

\* In every version, also those that never free a stack, no two live contexts
\* have the same OS stack.
THEOREM VersionsStacks == VersionsSpec => []OsStacksDistinct
<1>1. Inv => OsStacksDistinct
  BY DEF Inv
<1> QED
  BY <1>1, VersionsInvariance, PTL

-----------------------------------------------------------------------------
\* What the earlier steps do to the saved registers.
LEMMA EarlierRegisters ==
  ASSUME Inv, EarlierStep
  PROVE  ResumesSaved
<1>t. current \in Pids /\ regs \in [Pids -> RegFile]
  BY DEF Inv, TypeOK
<1> USE DEF ResumesSaved
<1>1. ASSUME NEW new \in Pids, handle_timer_tick_v2(new)
      PROVE  ResumesSaved
  <2>1. CASE CleansUp(TickStates, "TIMER") \/ new = current
    BY <1>1, <2>1 DEF handle_timer_tick_v2
  <2>2. CASE ~CleansUp(TickStates, "TIMER") /\ new # current
    <3>1. /\ current' = new
          /\ regs' = [regs EXCEPT ![current] = cpu]
          /\ cpu' = regs'[new]
      BY <1>1, <2>2 DEF handle_timer_tick_v2, SwitchTo, TickSaves_v2
    <3> QED
      BY <1>t, <2>2, <3>1
  <2> QED
    BY <2>1, <2>2
<1>2. ASSUME NEW new \in Pids, do_exit_v2(new)
      PROVE  ResumesSaved
  BY <1>2 DEF do_exit_v2, SwitchTo
<1>3. ASSUME NEW new \in Pids, NEW pfn \in freePfns, do_clone_v1(new, pfn)
      PROVE  ResumesSaved
  <2>1. current' = current /\ regs' = CloneRegs_v1(new) /\ state[new] = UNUSED
    BY <1>3 DEF do_clone_v1, get_new_ctx
  <2> QED
    BY <1>t, <2>1 DEF CloneRegs_v1
<1>4. ASSUME NEW ticks \in AlarmTicks, do_alarm_v2(ticks)
      PROVE  ResumesSaved
  BY <1>4 DEF do_alarm_v2
<1> QED
  BY <1>1, <1>2, <1>3, <1>4 DEF EarlierStep

\* What every step of every version does to the saved registers.
LEMMA VersionsRegisters == Inv /\ [VersionsNext]_allvars => ResumesSaved
<1>1. UNCHANGED vars => ResumesSaved
  BY DEF vars, ResumesSaved
<1> QED
  BY <1>1, StepCases, SharedIsNext, RegisterStep, EarlierRegisters

\* In every version a context resumes from its saved registers, which no handler
\* run by another context has changed.
THEOREM VersionsResume == VersionsSpec => ResumesSavedRegs
<1>1. Inv /\ [VersionsNext]_allvars
        => [/\ current' # current => cpu' = regs[current']
            /\ \A p \in Pids : p # current /\ state[p] # UNUSED
                               => regs'[p] = regs[p]]_vars
  BY VersionsRegisters DEF ResumesSaved
<1> QED
  BY <1>1, VersionsInvariance, PTL DEF VersionsSpec, ResumesSavedRegs

-----------------------------------------------------------------------------
\* The step formula of ControlKept.
Continues(p) ==
  \/ Same(Frame(p), Frame(p)')
  \/ p = current /\ Pushed(Frame(p), Frame(p)')
  \/ p = current /\ p = current' /\ Popped(Frame(p), Frame(p)')

Control ==
  \A p \in Pids : state[p] # UNUSED /\ state'[p] # UNUSED => Continues(p)

\* A tick leaves the frame as it is or pushes a handler on it.
LEMMA TickFramePushes ==
  ASSUME TypeOK
  PROVE  Same(cpu, TickFrame) \/ Pushed(cpu, TickFrame)
BY DEF TickFrame, Deliver, Same, Pushed, TypeOK, RegFile

\* A step without a switch that leaves the saved registers of the others alone.
LEMMA StaysControl ==
  ASSUME TypeOK, current' = current,
         \A p \in Pids : p # current /\ state[p] # UNUSED => regs'[p] = regs[p],
         Same(cpu, cpu') \/ Pushed(cpu, cpu') \/ Popped(cpu, cpu')
  PROVE  Control
<1> SUFFICES ASSUME NEW p \in Pids, state[p] # UNUSED PROVE Continues(p)
  BY DEF Control
<1>1. CASE p = current
  <2>1. Frame(p) = cpu /\ Frame(p)' = cpu'
    BY <1>1 DEF Frame
  <2> QED
    BY <1>1, <2>1 DEF Continues
<1>2. CASE p # current
  <2>1. Frame(p) = regs[p] /\ Frame(p)' = regs[p]
    BY <1>2 DEF Frame
  <2> QED
    BY <2>1 DEF Continues, Same
<1> QED
  BY <1>1, <1>2

\* A switch that saves in f where the old context is.
LEMMA SwitchControl ==
  ASSUME TypeOK, NEW new \in Pids, new # current, NEW f,
         current' = new, regs' = [regs EXCEPT ![current] = f], cpu' = regs'[new],
         state'[current] # UNUSED => Same(cpu, f) \/ Pushed(cpu, f)
  PROVE  Control
<1>1. current \in Pids /\ regs \in [Pids -> RegFile]
  BY DEF TypeOK
<1> SUFFICES ASSUME NEW p \in Pids, state'[p] # UNUSED PROVE Continues(p)
  BY DEF Control
<1>2. CASE p = current
  <2>1. Frame(p) = cpu /\ Frame(p)' = f
    BY <1>1, <1>2 DEF Frame
  <2> QED
    BY <1>2, <2>1 DEF Continues
<1>3. CASE p # current
  <2>1. Frame(p) = regs[p] /\ Frame(p)' = regs[p]
    BY <1>1, <1>3 DEF Frame
  <2> QED
    BY <2>1 DEF Continues, Same
<1> QED
  BY <1>2, <1>3

\* An exit: nothing is saved, and the old context is gone.
LEMMA ExitControl ==
  ASSUME Inv, NEW new \in Pids,
         do_exit(new) \/ do_exit_v2(new)
  PROVE  Control
<1> DEFINE st == [state EXCEPT ![current] = UNUSED]
<1>1. TypeOK /\ current \in Pids \ {0}
  BY DEF Inv, TypeOK, do_exit, do_exit_v2, InUser
<1>2. CASE CleansUp(st, "DO_EXIT")
  <2>1. UNCHANGED <<regs, cpu, current>>
    BY <1>2 DEF do_exit, do_exit_v2
  <2> QED
    BY <1>1, <2>1, StaysControl DEF Same
<1>3. CASE ~CleansUp(st, "DO_EXIT")
  <2>1. SwitchTo(new, st, regs) /\ pick_next_context(st, "DO_EXIT", new)
    BY <1>3 DEF do_exit, do_exit_v2, pick_next_context_v2
  <2>2. new # current
    BY <1>1, <2>1 DEF pick_next_context, Ready
  <2>3. /\ current' = new /\ regs' = [regs EXCEPT ![current] = regs[current]]
        /\ cpu' = regs'[new]
    BY <1>1, <2>1 DEF SwitchTo, TypeOK
  <2>4. state'[current] = UNUSED
    BY <1>1, <2>1, <2>2 DEF SwitchTo, TypeOK
  <2> QED
    BY <1>1, <2>2, <2>3, <2>4, SwitchControl
<1> QED
  BY <1>2, <1>3

\* The steps of schedule.c.
LEMMA ControlStep == Inv /\ Next => Control
<1> SUFFICES ASSUME Inv, Next PROVE Control
  OBVIOUS
<1>t. TypeOK /\ current \in Pids
  BY DEF Inv, TypeOK
<1>1. ASSUME NEW new \in Pids, handle_timer_tick(new) PROVE Control
  <2>1. CASE CleansUp(TickStates, "TIMER") \/ new = current
    <3>1. current' = current /\ regs' = regs /\ cpu' \in {cpu, TickFrame}
      BY <1>1, <2>1 DEF handle_timer_tick
    <3>2. Same(cpu, cpu') \/ Pushed(cpu, cpu')
      BY <1>t, <3>1, TickFramePushes DEF Same
    <3> QED
      BY <1>t, <3>1, <3>2, StaysControl
  <2>2. CASE ~CleansUp(TickStates, "TIMER") /\ new # current
    <3>1. /\ current' = new
          /\ regs' = [regs EXCEPT ![current] = TickFrame]
          /\ cpu' = regs'[new]
      BY <1>1, <2>2 DEF handle_timer_tick, SwitchTo, TickSaves
    <3> QED
      BY <1>t, <2>2, <3>1, TickFramePushes, SwitchControl
  <2> QED
    BY <2>1, <2>2
<1>2. ASSUME NEW ticks \in SleepTicks, NEW new \in Pids, do_sleep(ticks, new)
      PROVE  Control
  <2> DEFINE st == [state EXCEPT ![current] = WAITING]
             f  == [regs[current] EXCEPT !.rip = cpu.rip, !.stk = cpu.stk]
  <2>1. /\ SwitchTo(new, st, SleepSaves) /\ pick_next_context(st, "SLEEPING", new)
        /\ current # 0
    BY <1>2 DEF do_sleep, InUser
  <2>2. new # current
    BY <2>1 DEF pick_next_context, Ready
  <2>3. SleepSaves = [regs EXCEPT ![current] = f]
    BY <1>t DEF SleepSaves, TypeOK
  <2>4. Same(cpu, f)
    BY <1>t DEF Same, TypeOK, RegFile
  <2>5. /\ current' = new /\ regs' = [regs EXCEPT ![current] = f]
        /\ cpu' = regs'[new]
    BY <2>1, <2>3 DEF SwitchTo
  <2> QED
    BY <1>t, <2>2, <2>4, <2>5, SwitchControl
<1>3. ASSUME NEW new \in Pids, NEW pfn \in freePfns, do_clone(new, pfn)
      PROVE  Control
  <2>1. /\ current' = current /\ cpu' = cpu /\ regs' = CloneRegs(new)
        /\ state[new] = UNUSED
    BY <1>3 DEF do_clone, get_new_ctx
  <2>2. \A p \in Pids : p # current /\ state[p] # UNUSED => regs'[p] = regs[p]
    BY <1>t, <2>1 DEF CloneRegs, TypeOK
  <2> QED
    BY <1>t, <2>1, <2>2, StaysControl DEF Same
<1>4. ASSUME NEW signo \in FaultSignals, invoke_sync_signal(signo) PROVE Control
  <2>1. current' = current /\ regs' = regs /\ cpu' = Deliver(cpu)
    BY <1>4 DEF invoke_sync_signal
  <2>2. Pushed(cpu, cpu')
    BY <1>t, <2>1 DEF Deliver, Pushed, TypeOK, RegFile
  <2> QED
    BY <1>t, <2>1, <2>2, StaysControl
<1>5. ASSUME NEW depth \in 1 .. MaxNest, HandlerReturn(depth) PROVE Control
  <2>1. /\ current' = current /\ regs' = regs /\ Len(cpu.stk) # 0
        /\ cpu' = [cpu EXCEPT !.rip = Head(cpu.stk), !.stk = Tail(cpu.stk)]
    BY <1>5 DEF HandlerReturn
  <2>2. Popped(cpu, cpu')
    BY <1>t, <2>1 DEF Popped, TypeOK, RegFile
  <2> QED
    BY <1>t, <2>1, <2>2, StaysControl
<1>6. ASSUME NEW g \in Gprs, UserStep(g) PROVE Control
  <2>1. current' = current /\ regs' = regs /\ cpu' = [cpu EXCEPT !.gpr = g]
    BY <1>6 DEF UserStep
  <2>2. Same(cpu, cpu')
    BY <1>t, <2>1 DEF Same, TypeOK, RegFile
  <2> QED
    BY <1>t, <2>1, <2>2, StaysControl
<1>7. CASE \/ clone_table_full
           \/ \E signo \in Signals, registered \in BOOLEAN : do_signal(signo, registered)
           \/ \E ticks \in AlarmTicks : do_alarm(ticks)
  <2>1. UNCHANGED <<current, regs, cpu>>
    BY <1>7 DEF clone_table_full, do_signal, do_alarm
  <2> QED
    BY <1>t, <2>1, StaysControl DEF Same
<1>8. ASSUME NEW signo \in FaultSignals, NEW new \in Pids, fault_exit(signo, new)
      PROVE  Control
  BY <1>8, ExitControl DEF fault_exit
<1> QED
  BY <1>1, <1>2, <1>3, <1>4, <1>5, <1>6, <1>7, <1>8, ExitControl DEF Next, Tick

\* The steps in which the earlier schedulers differ.
LEMMA EarlierControl == Inv /\ EarlierStep => Control
<1> SUFFICES ASSUME Inv, EarlierStep PROVE Control
  OBVIOUS
<1>t. TypeOK /\ current \in Pids
  BY DEF Inv, TypeOK
<1>1. ASSUME NEW new \in Pids, handle_timer_tick_v2(new) PROVE Control
  <2>1. CASE CleansUp(TickStates, "TIMER") \/ new = current
    <3>1. current' = current /\ regs' = regs /\ cpu' \in {cpu, TickFrame}
      BY <1>1, <2>1 DEF handle_timer_tick_v2
    <3>2. Same(cpu, cpu') \/ Pushed(cpu, cpu')
      BY <1>t, <3>1, TickFramePushes DEF Same
    <3> QED
      BY <1>t, <3>1, <3>2, StaysControl
  <2>2. CASE ~CleansUp(TickStates, "TIMER") /\ new # current
    <3>1. /\ current' = new
          /\ regs' = [regs EXCEPT ![current] = cpu]
          /\ cpu' = regs'[new]
      BY <1>1, <2>2 DEF handle_timer_tick_v2, SwitchTo, TickSaves_v2
    <3>2. Same(cpu, cpu)
      BY DEF Same
    <3> QED
      BY <1>t, <2>2, <3>1, <3>2, SwitchControl
  <2> QED
    BY <2>1, <2>2
<1>2. ASSUME NEW new \in Pids, NEW pfn \in freePfns, do_clone_v1(new, pfn)
      PROVE  Control
  <2>1. /\ current' = current /\ cpu' = cpu /\ regs' = CloneRegs_v1(new)
        /\ state[new] = UNUSED
    BY <1>2 DEF do_clone_v1, get_new_ctx
  <2>2. \A p \in Pids : p # current /\ state[p] # UNUSED => regs'[p] = regs[p]
    BY <1>t, <2>1 DEF CloneRegs_v1, TypeOK
  <2> QED
    BY <1>t, <2>1, <2>2, StaysControl DEF Same
<1>3. ASSUME NEW ticks \in AlarmTicks, do_alarm_v2(ticks) PROVE Control
  <2>1. UNCHANGED <<current, regs, cpu>>
    BY <1>3 DEF do_alarm_v2
  <2> QED
    BY <1>t, <2>1, StaysControl DEF Same
<1> QED
  BY <1>1, <1>2, <1>3, ExitControl DEF EarlierStep

\* Whichever scheduler is linked, a context goes on where it was: no handler
\* under way is dropped or started twice by a tick, a sleep or a switch.
THEOREM VersionsControlKept == VersionsSpec => ControlKept
<1>1. Inv /\ UNCHANGED vars => Control
  <2>1. Inv /\ UNCHANGED vars => TypeOK /\ UNCHANGED <<current, regs, cpu>>
    BY DEF Inv, vars
  <2> QED
    BY <2>1, StaysControl DEF Same
<1>2. Inv /\ [VersionsNext]_allvars => Control
  BY <1>1, StepCases, SharedIsNext, ControlStep, EarlierControl
<1>3. Inv /\ [VersionsNext]_allvars
        => [\A p \in Pids : state[p] # UNUSED /\ state'[p] # UNUSED =>
              \/ Same(Frame(p), Frame(p)')
              \/ p = current /\ Pushed(Frame(p), Frame(p)')
              \/ p = current /\ p = current' /\ Popped(Frame(p), Frame(p)')
           ]_allvars
  BY <1>2 DEF Control, Continues
<1> QED
  BY <1>3, VersionsInvariance, PTL DEF VersionsSpec, ControlKept

-----------------------------------------------------------------------------
\* The earlier steps keep the way back of every signal handler.
LEMMA EarlierNest ==
  ASSUME Inv, HandlersNest, EarlierStep
  PROVE  HandlersNest'
<1>t. /\ current \in Pids /\ cpu \in RegFile /\ regs \in [Pids -> RegFile]
      /\ Nested(cpu) /\ \A p \in Pids : Nested(regs[p])
  BY DEF Inv, TypeOK, HandlersNest
<1>1. ASSUME NEW new \in Pids, handle_timer_tick_v2(new) PROVE HandlersNest'
  <2>1. Nested(TickFrame)
    BY <1>t, DeliverNested DEF TickFrame
  <2>2. CASE CleansUp(TickStates, "TIMER") \/ new = current
    <3>1. regs' = regs /\ cpu' \in {cpu, TickFrame}
      BY <1>1, <2>2 DEF handle_timer_tick_v2
    <3> QED
      BY <1>t, <2>1, <3>1 DEF HandlersNest
  <2>3. CASE ~CleansUp(TickStates, "TIMER") /\ new # current
    <3>1. /\ regs' = [regs EXCEPT ![current] = cpu]
          /\ cpu' = regs'[new]
      BY <1>1, <2>3 DEF handle_timer_tick_v2, SwitchTo, TickSaves_v2
    <3> QED
      BY <1>t, <3>1 DEF HandlersNest
  <2> QED
    BY <2>2, <2>3
<1>2. ASSUME NEW new \in Pids, do_exit_v2(new) PROVE HandlersNest'
  <2>1. regs' = regs /\ cpu' \in {cpu, regs[new]}
    BY <1>2 DEF do_exit_v2, SwitchTo
  <2> QED
    BY <1>t, <2>1 DEF HandlersNest
<1>3. ASSUME NEW new \in Pids, NEW pfn \in freePfns, do_clone_v1(new, pfn)
      PROVE  HandlersNest'
  <2> DEFINE fresh == [regs[current] EXCEPT !.rip = "body", !.stk = <<>>]
  <2>1. cpu' = cpu /\ regs' = [regs EXCEPT ![new] = fresh]
    BY <1>3 DEF do_clone_v1, CloneRegs_v1
  <2>2. fresh.rip = "body" /\ fresh.stk = <<>>
    BY <1>t DEF RegFile
  <2>3. Nested(fresh)
    BY <2>2 DEF Nested
  <2> QED
    BY <1>t, <2>1, <2>3 DEF HandlersNest
<1>4. ASSUME NEW ticks \in AlarmTicks, do_alarm_v2(ticks) PROVE HandlersNest'
  <2>1. UNCHANGED <<cpu, regs>>
    BY <1>4 DEF do_alarm_v2
  <2> QED
    BY <1>t, <2>1 DEF HandlersNest
<1> QED
  BY <1>1, <1>2, <1>3, <1>4 DEF EarlierStep

\* In every version signal handlers find their way back.
THEOREM VersionsSignalsReturn == VersionsSpec => []HandlersNest
<1>1. VersionsInit => HandlersNest
  BY DEF VersionsInit, Init, HandlersNest, Nested
<1>2. Inv /\ HandlersNest /\ [VersionsNext]_allvars => HandlersNest'
  BY StepCases, SharedIsNext, EarlierNest, NestStep
<1> QED
  BY <1>1, <1>2, VersionsInvariance, PTL DEF VersionsSpec
=============================================================================
