-------------------------- MODULE ProcessManager --------------------------
(***************************************************************************)
(* The process manager of the kernel: kernel/cpu/processManager.cpp, with  *)
(* the timer handler that drives it (interrupts/interrupts.cpp) and the    *)
(* shell commands that call it (exec and kill).                            *)
(*                                                                         *)
(* Three intrusive lists hold the process control blocks; here each is the *)
(* sequence it stands for (module IntrusiveQueue relates the two).  A      *)
(* member of Tasks is the memory of one PCB: it is used again by a later   *)
(* process once the kernel has freed it.                                   *)
(*                                                                         *)
(* runNextTask runs with interrupts off and calls itself; every call is a  *)
(* step of its own here, with inISR true between two of them.              *)
(***************************************************************************)
EXTENDS Naturals, Sequences

CONSTANTS
    Tasks,       \* the PCBs newTask can allocate
    Kernel,      \* _kernel_pcb, the task of the kernel and of the shell
    NoTask,      \* nullptr
    Priorities,  \* the priorities processes are started with
    KillIds      \* the PCBs whose id is passed to killTask

PCBs == Tasks \union {Kernel}
Priority == {"HIGH", "LOW"}

ASSUME PCBAssumption ==
    /\ Kernel \notin Tasks
    /\ NoTask \notin PCBs
    /\ Priorities \subseteq Priority
    /\ KillIds \subseteq PCBs

VARIABLES
    high,      \* _high_priority_lst
    low,       \* _low_priority_lst
    toDelete,  \* _to_delete
    current,   \* _current_task
    state,     \* PCB.state, or "FREE" while the PCB is not allocated
    priority,  \* PCB.priority
    last,      \* _last_priority
    before,    \* _before_last_priority
    inISR,     \* runNextTask has called itself and not yet returned
    irq,       \* the interrupt flag outside runNextTask
    exec,      \* the shell's `proc` between newKernelTask and startTask
    shell,     \* where the shell is: "ready" or "starting"
    fault      \* contextSwitch went through a null list head

queues == <<high, low, toDelete>>
turn   == <<last, before>>
cmd    == <<irq, exec, shell>>
vars   == <<queues, current, state, priority, turn, inISR, cmd, fault>>

Elements(q) == {q[i] : i \in DOMAIN q}

RemoveNothing(q, t) == q
RemoveHead(q, t) == Tail(q)

\* Queue::remove.
Remove(q, t) ==
    IF t \notin Elements(q) THEN q
    ELSE LET at == CHOOSE i \in DOMAIN q : q[i] = t
         IN  [i \in 1..(Len(q) - 1) |-> q[IF i < at THEN i ELSE i + 1]]

(***************************************************************************)
(* No constructor runs before kernel_main, so the two priorities have the  *)
(* value of their initialiser or the zero of the .bss section, LOW.        *)
(***************************************************************************)
Init ==
    /\ high = <<>> /\ low = <<>> /\ toDelete = <<>>
    /\ current = NoTask
    /\ state = [t \in PCBs |-> "FREE"]
    /\ priority = [t \in PCBs |-> "LOW"]
    /\ last \in Priority /\ before = last
    /\ inISR = FALSE
    /\ irq = TRUE
    /\ exec = NoTask
    /\ shell = "ready"
    /\ fault = FALSE

\* initMultitasking.  A tick before it finds no task and returns.
InitMultitasking ==
    /\ current = NoTask
    /\ high' = <<Kernel>>
    /\ current' = Kernel
    /\ state' = [state EXCEPT ![Kernel] = "RUNNABLE"]
    /\ priority' = [priority EXCEPT ![Kernel] = "HIGH"]
    /\ UNCHANGED <<low, toDelete, turn, inISR, cmd, fault>>

NotPushed(q, p, t) == q

\* pushToQueue and removeFromQueue: q is the queue of priority p.
PushToQueue(q, p, t) == IF priority[t] = p THEN Append(q, t) ELSE q
RemoveFromQueue(q, p, t) == IF priority[t] = p THEN Remove(q, t) ELSE q

---------------------------------------------------------------------------
(* What a task calls while it runs: the shell in the kernel task, and the  *)
(* return of a process from its entry function.                            *)

Runs(t) == current = t /\ ~inISR /\ ~fault

\* newKernelTask and newTask, called by `exec`.
NewKernelTask(t, p) ==
    /\ Runs(Kernel) /\ shell = "ready" /\ irq
    /\ state[t] = "FREE"
    /\ state' = [state EXCEPT ![t] = "CREATED"]
    /\ priority' = [priority EXCEPT ![t] = p]
    /\ exec' = t
    /\ shell' = "starting"
    /\ UNCHANGED <<queues, current, turn, inISR, irq, fault>>

(***************************************************************************)
(* The kernel heap has no room for the paging system: nullptr is returned  *)
(* and the interrupts stay off.  The caller does not look at the result.   *)
(***************************************************************************)
NewKernelTaskFails ==
    /\ Runs(Kernel) /\ shell = "ready" /\ irq
    /\ exec' = NoTask
    /\ shell' = "starting"
    /\ irq' = FALSE
    /\ UNCHANGED <<queues, current, state, priority, turn, inISR, fault>>

(***************************************************************************)
(* The kernel heap has no room for the PCB: newTask fills in the PCB at    *)
(* address 0, turns the interrupts on and returns nullptr.  The paging     *)
(* system made before it is lost.                                          *)
(***************************************************************************)
NewTaskFails ==
    /\ Runs(Kernel) /\ shell = "ready" /\ irq
    /\ exec' = NoTask
    /\ shell' = "starting"
    /\ UNCHANGED <<queues, current, state, priority, turn, inISR, irq, fault>>

\* startTask.  Page 0 is mapped: pushing nullptr writes there and links nothing.
StartTask ==
    /\ Runs(Kernel) /\ shell = "starting"
    /\ irq' = TRUE
    /\ shell' = "ready"
    /\ exec' = NoTask
    /\ IF exec = NoTask
         THEN UNCHANGED <<high, low, state>>
         ELSE /\ state' = [state EXCEPT ![exec] = "RUNNABLE"]
              /\ high' = PushToQueue(high, "HIGH", exec)
              /\ low' = PushToQueue(low, "LOW", exec)
    /\ UNCHANGED <<toDelete, current, priority, turn, inISR, fault>>

\* killTask(id): only the two run queues are searched.
KillTask(t) ==
    /\ Runs(Kernel) /\ shell = "ready" /\ irq
    /\ t \in Elements(high) \union Elements(low)
    /\ state' = [state EXCEPT ![t] = "TERMINATED"]
    /\ UNCHANGED <<queues, current, priority, turn, inISR, cmd, fault>>

\* taskEntryFunction after the program returned; the task halts from then on.
TaskExit(t) ==
    /\ Runs(t) /\ t # Kernel
    /\ state[t] = "RUNNING"
    /\ state' = [state EXCEPT ![t] = "TERMINATED"]
    /\ UNCHANGED <<queues, current, priority, turn, inISR, cmd, fault>>

---------------------------------------------------------------------------
(* runNextTask.                                                            *)

\* The timer interrupt every PROCESS_TIME, or the call runNextTask makes itself.
Called == current # NoTask /\ ~fault /\ (inISR \/ irq)

(***************************************************************************)
(* contextSwitch to the head of a list: lists and states as the caller     *)
(* left them.  The task popped goes back to the tail of the list of its    *)
(* own priority, and the task switched from becomes RUNNABLE whatever it   *)
(* was.                                                                    *)
(***************************************************************************)
SwitchStatesOnly(st, upcoming) == [st EXCEPT ![upcoming] = "RUNNING"]

SwitchStates(st, upcoming) ==
    [st EXCEPT ![current] = "RUNNABLE", ![upcoming] = "RUNNING"]

ContextSwitch(upcoming, hq, lq, st) ==
    /\ current' = upcoming
    /\ state' = SwitchStates(st, upcoming)
    /\ high' = PushToQueue(hq, "HIGH", upcoming)
    /\ low' = PushToQueue(lq, "LOW", upcoming)
    /\ inISR' = FALSE
    /\ fault' = FALSE

\* The task that ran is terminated: out of its queue, and on with the high list.
RetireCurrent ==
    /\ Called
    /\ state[current] = "TERMINATED"
    /\ toDelete' = Append(toDelete, current)
    /\ before' = last
    /\ last' = "HIGH"
    /\ LET hq == RemoveFromQueue(high, "HIGH", current)
           lq == RemoveFromQueue(low, "LOW", current)
       IN  IF hq = <<>>
             THEN /\ fault' = TRUE
                  /\ high' = hq /\ low' = lq
                  /\ UNCHANGED <<current, state, inISR>>
             ELSE ContextSwitch(Head(hq), Tail(hq), lq, state)
    /\ UNCHANGED <<priority, cmd>>

\* The kernel task frees every process in _to_delete before it chooses.
ReapsAlways == TRUE
ReapsWhenIdle == current = Kernel /\ low = <<>>
Reaps == current = Kernel
Reaped == IF Reaps THEN Elements(toDelete) ELSE {}
ReapedState ==
    [t \in PCBs |-> IF t \in Reaped THEN "FREE" ELSE state[t]]
ReapedList == IF Reaps THEN <<>> ELSE toDelete

\* After two high turns in a row a low task has the next one.
LowTurnAlways == low # <<>>
LowTurnNever == low # <<>> /\ last = "LOW" /\ before = "LOW"
LowTurn == low # <<>> /\ last = "HIGH" /\ before = "HIGH"

TakeTurn ==
    /\ before' = last
    /\ last' = IF LowTurn THEN "LOW" ELSE "HIGH"

\* The head of the list whose turn it is.
Chosen == IF LowTurn THEN Head(low) ELSE Head(high)

Choosing == Called /\ state[current] # "TERMINATED" /\ high # <<>>

RunnableOrKilled(s) == s \in {"RUNNABLE", "TERMINATED"}
Dispatchable(s) == s = "RUNNABLE"

\* case RUNNABLE.
SwitchToChosen ==
    /\ Choosing
    /\ Dispatchable(ReapedState[Chosen])
    /\ TakeTurn
    /\ toDelete' = ReapedList
    /\ IF LowTurn
         THEN ContextSwitch(Chosen, high, Tail(low), ReapedState)
         ELSE ContextSwitch(Chosen, Tail(high), low, ReapedState)
    /\ UNCHANGED <<priority, cmd>>

\* case TERMINATED: a killed process leaves its queue and runNextTask calls itself.
RetireChosen ==
    /\ Choosing
    /\ ReapedState[Chosen] = "TERMINATED"
    /\ TakeTurn
    /\ toDelete' = Append(ReapedList, Chosen)
    /\ IF LowTurn
         THEN low' = Tail(low) /\ high' = high
         ELSE high' = Tail(high) /\ low' = low
    /\ state' = ReapedState
    /\ inISR' = TRUE
    /\ UNCHANGED <<current, priority, cmd, fault>>

\* case RUNNING: the task goes on.
KeepRunning ==
    /\ Choosing
    /\ ReapedState[Chosen] = "RUNNING"
    /\ TakeTurn
    /\ toDelete' = ReapedList
    /\ state' = ReapedState
    /\ inISR' = FALSE
    /\ UNCHANGED <<high, low, current, priority, cmd, fault>>

RunNextTask == RetireCurrent \/ SwitchToChosen \/ RetireChosen \/ KeepRunning

---------------------------------------------------------------------------
Next ==
    \/ InitMultitasking
    \/ \E t \in Tasks, p \in Priorities : NewKernelTask(t, p)
    \/ NewKernelTaskFails
    \/ NewTaskFails
    \/ StartTask
    \/ \E t \in KillIds : KillTask(t)
    \/ \E t \in Tasks : TaskExit(t)
    \/ RunNextTask

Spec == Init /\ [][Next]_vars

(***************************************************************************)
(* initMultitasking and the rest of `exec` are straight-line code.  The    *)
(* timer never stops, and an interrupt that comes while interrupts are off *)
(* is held by the PIC until they are on again: strong fairness.  Nothing   *)
(* obliges a program to return or the user to type a command.              *)
(***************************************************************************)
Fairness ==
    /\ WF_vars(InitMultitasking)
    /\ SF_vars(RunNextTask)
    /\ WF_vars(StartTask)

FairSpec == Spec /\ Fairness

---------------------------------------------------------------------------
(* Invariants.                                                             *)

States == {"FREE", "CREATED", "RUNNING", "RUNNABLE", "TERMINATED"}

\* The variables have their types.
TypeOK ==
    /\ high \in Seq(PCBs) /\ low \in Seq(PCBs) /\ toDelete \in Seq(PCBs)
    /\ current \in PCBs \union {NoTask}
    /\ state \in [PCBs -> States]
    /\ priority \in [PCBs -> Priority]
    /\ last \in Priority /\ before \in Priority
    /\ inISR \in BOOLEAN /\ irq \in BOOLEAN /\ fault \in BOOLEAN
    /\ exec \in Tasks \union {NoTask}
    /\ shell \in {"ready", "starting"}

Distinct(q) == \A i, j \in DOMAIN q : q[i] = q[j] => i = j

(***************************************************************************)
(* The three lists share one `next` field, so a PCB may be on one list     *)
(* only, once, and in the run queue of its priority: a second push would   *)
(* cut a list or close it into a cycle.                                    *)
(***************************************************************************)
ListsDisjoint ==
    /\ Distinct(high) /\ Distinct(low) /\ Distinct(toDelete)
    /\ Elements(high) \cap Elements(toDelete) = {}
    /\ Elements(low) \cap Elements(toDelete) = {}
    /\ \A t \in Elements(high) : priority[t] = "HIGH"
    /\ \A t \in Elements(low) : priority[t] = "LOW"

(***************************************************************************)
(* No PCB is lost or used after it was freed: outside the window of `exec` *)
(* a PCB is allocated exactly when one of the lists holds it, so every     *)
(* process stays reachable until the kernel frees its memory.              *)
(***************************************************************************)
AllocatedIsListed ==
    \A t \in PCBs :
        (t \in Elements(high) \union Elements(low) \union Elements(toDelete))
            <=> (state[t] \notin {"FREE", "CREATED"})

(***************************************************************************)
(* At most one task is RUNNING, it is the current one, and the current     *)
(* task is on a run queue unless the switch away from it went through      *)
(* nullptr.                                                                *)
(***************************************************************************)
OneRunning ==
    /\ \A t \in PCBs : state[t] = "RUNNING" => t = current
    /\ current # NoTask /\ ~fault =>
           current \in Elements(high) \union Elements(low)

\* Before initMultitasking nothing is allocated.
Booting ==
    current = NoTask => \A t \in PCBs : state[t] = "FREE"

\* The process the shell is about to start is the only CREATED one.
CreatedIsPending ==
    /\ \A t \in PCBs : state[t] = "CREATED" <=> t = exec
    /\ shell = "ready" => exec = NoTask

(***************************************************************************)
(* The inductive invariant: what every tick finds and leaves, whatever is  *)
(* killed.                                                                 *)
(***************************************************************************)
IInv ==
    /\ TypeOK
    /\ ListsDisjoint
    /\ AllocatedIsListed
    /\ OneRunning
    /\ Booting
    /\ CreatedIsPending

\* contextSwitch is never given an empty list (processManager.h:56).
NoFault == ~fault

---------------------------------------------------------------------------
(* Action properties.                                                      *)

Dead(t) == state[t] = "TERMINATED" \/ t \in Elements(toDelete)

(***************************************************************************)
(* A PCB, its stack and its heap are freed only by the kernel task, which  *)
(* runs on a stack of its own, and only for a task that is off the run     *)
(* queues and is not the one switched to by the same call.                 *)
(***************************************************************************)
FreedOnlyByKernel ==
    [][\A t \in PCBs : state[t] # "FREE" /\ state'[t] = "FREE" =>
          /\ current = Kernel /\ t # Kernel
          /\ t # current'
          /\ t \notin Elements(high') \union Elements(low')]_vars

(***************************************************************************)
(* A process that was killed or has returned never has the processor       *)
(* again: it stays dead until its memory is freed.                         *)
(***************************************************************************)
DeadStaysDead ==
    [][\A t \in PCBs : Dead(t) => Dead(t)' \/ state'[t] = "FREE"]_vars

(***************************************************************************)
(* The two-to-one schedule: a timer interrupt that takes the processor     *)
(* from a low task gives it to a high one, so the kernel (and the shell)   *)
(* never waits for two low turns in a row.                                 *)
(***************************************************************************)
LowNeverTwice ==
    [][(current # current' /\ current # NoTask /\ priority[current] = "LOW")
          => priority[current'] = "HIGH"]_vars

---------------------------------------------------------------------------
(* Liveness, under FairSpec.                                               *)

Waiting(t) == state[t] = "RUNNABLE" /\ t \in Elements(high) \union Elements(low)

\* A process that was started gets the processor, or is killed first.
StartedRuns ==
    \A t \in Tasks : Waiting(t) ~> (state[t] \in {"RUNNING", "TERMINATED"})

\* The memory of a dead process is freed by the kernel.
DeadIsReaped ==
    \A t \in Tasks : Dead(t) ~> (state[t] = "FREE")

\* The kernel task, and with it the shell, always gets the processor back.
KernelRuns == []<>(current = Kernel)
============================================================================
