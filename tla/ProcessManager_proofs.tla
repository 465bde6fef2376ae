----------------------- MODULE ProcessManager_proofs -----------------------
(***************************************************************************)
(* What holds of the process manager for every set of processes.           *)
(***************************************************************************)
EXTENDS ProcessManager, TLAPS

---------------------------------------------------------------------------
(* The queue operations, by the elements they keep.                        *)

\* push puts one element more on a list, at its end.
LEMMA AppendFacts ==
    ASSUME NEW S, NEW q \in Seq(S), NEW t \in S
    PROVE  /\ Append(q, t) \in Seq(S)
           /\ Append(q, t) # <<>>
           /\ Elements(Append(q, t)) = Elements(q) \union {t}
           /\ Distinct(q) /\ t \notin Elements(q) => Distinct(Append(q, t))
<1>. DEFINE a == Append(q, t)
<1>1. /\ a \in Seq(S) /\ a # <<>>
      /\ Len(q) \in Nat /\ Len(a) = Len(q) + 1
      /\ DOMAIN q = 1..Len(q) /\ DOMAIN a = 1..(Len(q) + 1)
      /\ \A i \in 1..Len(q) : a[i] = q[i]
      /\ a[Len(q) + 1] = t
  OBVIOUS
<1>. HIDE DEF a
<1>2. Elements(a) = Elements(q) \union {t}
  <2>1. \A i \in DOMAIN a : a[i] \in Elements(q) \union {t}
    <3>1. ASSUME NEW i \in DOMAIN a PROVE a[i] \in Elements(q) \union {t}
      <4>1. i \in DOMAIN q \/ i = Len(q) + 1  BY <1>1
      <4>. QED  BY <4>1, <1>1 DEF Elements
    <3>. QED  BY <3>1
  <2>2. \A i \in DOMAIN q : i \in DOMAIN a /\ a[i] = q[i]
    BY <1>1
  <2>3. Len(q) + 1 \in DOMAIN a
    BY <1>1
  <2>. QED
    BY <2>1, <2>2, <2>3, <1>1 DEF Elements
<1>3. ASSUME Distinct(q), t \notin Elements(q)
      PROVE  Distinct(a)
  <2>1. \A i \in 1..Len(q) : q[i] # t
    BY <1>1, <1>3 DEF Elements
  <2>. QED
    BY <2>1, <1>1, <1>3 DEF Distinct
<1>. QED
  BY <1>1, <1>2, <1>3 DEF a

\* pop takes the head and leaves the rest.
LEMMA PopFacts ==
    ASSUME NEW S, NEW q \in Seq(S), q # <<>>
    PROVE  /\ Head(q) \in S
           /\ Tail(q) \in Seq(S)
           /\ Elements(q) = Elements(Tail(q)) \union {Head(q)}
           /\ Distinct(q) => Distinct(Tail(q)) /\ Head(q) \notin Elements(Tail(q))
<1>1. Len(q) \in Nat /\ Len(q) > 0 /\ Head(q) = q[1] /\ 1 \in DOMAIN q
  OBVIOUS
<1>2. /\ Tail(q) \in Seq(S)
      /\ Len(Tail(q)) = Len(q) - 1
      /\ \A i \in DOMAIN Tail(q) : i + 1 \in DOMAIN q /\ Tail(q)[i] = q[i + 1]
      /\ \A i \in DOMAIN q : i = 1 \/ (i - 1 \in DOMAIN Tail(q) /\ q[i] = Tail(q)[i - 1])
  BY <1>1
<1>3. Elements(q) = Elements(Tail(q)) \union {Head(q)}
  <2>1. \A i \in DOMAIN q : q[i] \in Elements(Tail(q)) \union {Head(q)}
    <3>1. ASSUME NEW i \in DOMAIN q
          PROVE  q[i] \in Elements(Tail(q)) \union {Head(q)}
      <4>1. i = 1 \/ (i - 1 \in DOMAIN Tail(q) /\ q[i] = Tail(q)[i - 1])
        BY <1>2
      <4>. QED  BY <4>1, <1>1 DEF Elements
    <3>. QED  BY <3>1
  <2>2. \A i \in DOMAIN Tail(q) : Tail(q)[i] \in Elements(q)
    BY <1>2 DEF Elements
  <2>. QED
    BY <2>1, <2>2, <1>1 DEF Elements
<1>4. ASSUME Distinct(q)
      PROVE  Distinct(Tail(q)) /\ Head(q) \notin Elements(Tail(q))
  BY <1>1, <1>2, <1>4 DEF Elements, Distinct
<1>. QED
  BY <1>1, <1>2, <1>3, <1>4

\* remove takes the element out, wherever it is, and nothing else.
LEMMA RemoveFacts ==
    ASSUME NEW S, NEW q \in Seq(S), NEW t, Distinct(q)
    PROVE  /\ Remove(q, t) \in Seq(S)
           /\ Elements(Remove(q, t)) = Elements(q) \ {t}
           /\ Distinct(Remove(q, t))
<1>1. CASE t \notin Elements(q)
  BY <1>1 DEF Remove
<1>2. CASE t \in Elements(q)
  <2>. DEFINE at == CHOOSE i \in DOMAIN q : q[i] = t
              r == [i \in 1..(Len(q) - 1) |-> q[IF i < at THEN i ELSE i + 1]]
  <2>1. at \in 1..Len(q) /\ q[at] = t /\ Len(q) \in Nat
    BY <1>2 DEF Elements
  <2>2. Remove(q, t) = r
    BY <1>2 DEF Remove
  <2>. HIDE DEF at
  <2>3. r \in Seq(S) /\ DOMAIN r = 1..(Len(q) - 1)
    BY <2>1
  <2>4. \A i \in DOMAIN r : \E j \in DOMAIN q : r[i] = q[j] /\ j # at
    BY <2>1, <2>3
  <2>5. \A j \in DOMAIN q : j # at => \E i \in DOMAIN r : r[i] = q[j]
    <3>1. ASSUME NEW j \in DOMAIN q, j # at
          PROVE  \E i \in DOMAIN r : r[i] = q[j]
      <4>1. CASE j < at
        <5>1. j \in DOMAIN r /\ r[j] = q[j]
          BY <2>1, <2>3, <3>1, <4>1
        <5>. QED  BY <5>1
      <4>2. CASE j > at
        <5>1. j - 1 \in DOMAIN r /\ r[j - 1] = q[j]
          BY <2>1, <2>3, <3>1, <4>2
        <5>. QED  BY <5>1
      <4>. QED  BY <2>1, <3>1, <4>1, <4>2
    <3>. QED  BY <3>1
  <2>6. Distinct(r)
    BY <2>1, <2>3 DEF Distinct
  <2>7. \A j \in DOMAIN q : q[j] = t <=> j = at
    BY <2>1 DEF Distinct
  <2>. HIDE DEF r
  <2>8. Elements(r) = Elements(q) \ {t}
    BY <2>4, <2>5, <2>7 DEF Elements
  <2>. QED
    BY <2>2, <2>3, <2>6, <2>8
<1>. QED
  BY <1>1, <1>2

---------------------------------------------------------------------------
(* The invariant, action by action.                                        *)

Unlisted(t) == state[t] \in {"FREE", "CREATED"}

\* A PCB that is free or only created is on no list.
LEMMA UnlistedFacts ==
    ASSUME IInv, NEW t \in PCBs, Unlisted(t)
    PROVE  t \notin Elements(high) \union Elements(low) \union Elements(toDelete)
BY DEF IInv, AllocatedIsListed, Unlisted

\* The current task is allocated while there is one.
LEMMA CurrentFacts ==
    ASSUME IInv, current # NoTask, ~fault
    PROVE  /\ current \in PCBs
           /\ ~Unlisted(current)
           /\ current \notin Elements(toDelete)
BY DEF IInv, TypeOK, OneRunning, AllocatedIsListed, ListsDisjoint, Unlisted

(***************************************************************************)
(* What contextSwitch may be given: lists in order without the popped task *)
(* u, and states under which everything allocated is u or on a list.       *)
(***************************************************************************)
Prepared(u, hq, lq, del, st) ==
    /\ u \in PCBs
    /\ hq \in Seq(PCBs) /\ lq \in Seq(PCBs) /\ del \in Seq(PCBs)
    /\ Distinct(hq) /\ Distinct(lq) /\ Distinct(del)
    /\ u \notin Elements(hq) /\ u \notin Elements(lq) /\ u \notin Elements(del)
    /\ Elements(hq) \cap Elements(del) = {}
    /\ Elements(lq) \cap Elements(del) = {}
    /\ \A t \in Elements(hq) : priority[t] = "HIGH"
    /\ \A t \in Elements(lq) : priority[t] = "LOW"
    /\ \A t \in PCBs :
          (t = u \/ t \in Elements(hq) \/ t \in Elements(lq) \/ t \in Elements(del))
              <=> (st[t] \notin {"FREE", "CREATED"})
    /\ st \in [PCBs -> States]
    /\ st[current] \notin {"FREE", "CREATED"}
    /\ \A t \in PCBs : st[t] = "RUNNING" => t = current
    /\ \A t \in PCBs : st[t] = "CREATED" <=> t = exec

\* contextSwitch keeps the invariant.
LEMMA ContextSwitchKeeps ==
    ASSUME IInv, current \in PCBs,
           NEW u, NEW hq, NEW lq, NEW del, NEW st,
           Prepared(u, hq, lq, del, st),
           ContextSwitch(u, hq, lq, st),
           toDelete' = del,
           last' \in Priority, before' \in Priority,
           UNCHANGED <<priority, cmd>>
    PROVE  IInv'
<1>. USE DEF Prepared
<1>0. TypeOK /\ CreatedIsPending
  BY DEF IInv
<1>1. /\ current' = u /\ u # NoTask
      /\ inISR' = FALSE /\ fault' = FALSE
      /\ UNCHANGED <<irq, exec, shell, priority>>
  BY PCBAssumption DEF ContextSwitch, cmd
<1>2. state' = [st EXCEPT ![current] = "RUNNABLE", ![u] = "RUNNING"]
  BY DEF ContextSwitch, SwitchStates
<1>3. /\ state' \in [PCBs -> States]
      /\ state'[u] = "RUNNING"
      /\ \A t \in PCBs \ {u} : state'[t] = IF t = current THEN "RUNNABLE" ELSE st[t]
  BY <1>2 DEF States
<1>4. exec # u /\ exec # current /\ (shell = "ready" => exec = NoTask)
  BY <1>0 DEF CreatedIsPending
<1>5. CASE priority[u] = "HIGH"
  <2>1. high' = Append(hq, u) /\ low' = lq
    BY <1>5 DEF ContextSwitch, PushToQueue
  <2>2. /\ high' \in Seq(PCBs) /\ Distinct(high')
        /\ Elements(high') = Elements(hq) \union {u}
    BY <2>1, AppendFacts
  <2>3. TypeOK'
    BY <1>0, <1>1, <1>3, <2>1, <2>2 DEF TypeOK
  <2>4. ListsDisjoint'
    BY <1>1, <1>5, <2>1, <2>2 DEF ListsDisjoint
  <2>5. AllocatedIsListed'
    BY <1>1, <1>3, <2>1, <2>2 DEF AllocatedIsListed
  <2>6. OneRunning' /\ Booting' /\ CreatedIsPending'
    BY <1>1, <1>3, <2>1, <2>2, <1>4 DEF OneRunning, Booting, CreatedIsPending
  <2>. QED
    BY <2>3, <2>4, <2>5, <2>6 DEF IInv
<1>6. CASE priority[u] = "LOW"
  <2>1. high' = hq /\ low' = Append(lq, u)
    BY <1>6 DEF ContextSwitch, PushToQueue
  <2>2. /\ low' \in Seq(PCBs) /\ Distinct(low')
        /\ Elements(low') = Elements(lq) \union {u}
    BY <2>1, AppendFacts
  <2>3. TypeOK'
    BY <1>0, <1>1, <1>3, <2>1, <2>2 DEF TypeOK
  <2>4. ListsDisjoint'
    BY <1>1, <1>6, <2>1, <2>2 DEF ListsDisjoint
  <2>5. AllocatedIsListed'
    BY <1>1, <1>3, <2>1, <2>2 DEF AllocatedIsListed
  <2>6. OneRunning' /\ Booting' /\ CreatedIsPending'
    BY <1>1, <1>3, <2>1, <2>2, <1>4 DEF OneRunning, Booting, CreatedIsPending
  <2>. QED
    BY <2>3, <2>4, <2>5, <2>6 DEF IInv
<1>. QED
  BY <1>0, <1>5, <1>6 DEF TypeOK, Priority

\* The kernel starts with nothing on its lists.
LEMMA InitKeeps == Init => IInv
<1>. SUFFICES ASSUME Init PROVE IInv
  OBVIOUS
<1>. USE PCBAssumption DEF Init
<1>1. Elements(<<>>) = {} /\ Distinct(<<>>) /\ <<>> \in Seq(PCBs)
  BY DEF Elements, Distinct
<1>2. TypeOK
  BY <1>1 DEF TypeOK, States, Priority
<1>3. ListsDisjoint
  BY <1>1 DEF ListsDisjoint
<1>4. AllocatedIsListed
  BY <1>1 DEF AllocatedIsListed
<1>5. OneRunning /\ Booting /\ CreatedIsPending
  BY DEF OneRunning, Booting, CreatedIsPending
<1>. QED
  BY <1>2, <1>3, <1>4, <1>5 DEF IInv

LEMMA InitMultitaskingKeeps ==
    ASSUME IInv, InitMultitasking
    PROVE  IInv'
<1>. USE PCBAssumption
<1>0. TypeOK /\ CreatedIsPending /\ Kernel \in PCBs
  BY DEF IInv, PCBs
<1>1. /\ \A t \in PCBs : state[t] = "FREE"
      /\ high' = <<Kernel>> /\ current' = Kernel
      /\ state' = [state EXCEPT ![Kernel] = "RUNNABLE"]
      /\ priority' = [priority EXCEPT ![Kernel] = "HIGH"]
      /\ UNCHANGED <<low, toDelete, last, before, inISR, irq, exec, shell, fault>>
  BY DEF InitMultitasking, IInv, Booting, turn, cmd
<1>2. Elements(low) = {} /\ Elements(toDelete) = {}
  <2>1. \A t \in PCBs : t \notin Elements(low) /\ t \notin Elements(toDelete)
    BY <1>1, UnlistedFacts DEF Unlisted
  <2>2. Elements(low) \subseteq PCBs /\ Elements(toDelete) \subseteq PCBs
    BY <1>0 DEF TypeOK, Elements
  <2>. QED
    BY <2>1, <2>2
<1>3. high' \in Seq(PCBs) /\ Distinct(high') /\ Elements(high') = {Kernel}
  BY <1>0, <1>1 DEF Distinct, Elements
<1>4. TypeOK'
  BY <1>0, <1>1, <1>3 DEF TypeOK, States, Priority
<1>5. ListsDisjoint'
  BY <1>0, <1>1, <1>2, <1>3 DEF IInv, ListsDisjoint, TypeOK
<1>6. AllocatedIsListed'
  BY <1>0, <1>1, <1>2, <1>3 DEF AllocatedIsListed, TypeOK
<1>7. OneRunning' /\ Booting' /\ CreatedIsPending'
  BY <1>0, <1>1, <1>3 DEF OneRunning, Booting, CreatedIsPending, TypeOK, PCBs
<1>. QED
  BY <1>4, <1>5, <1>6, <1>7 DEF IInv

\* exec takes a free PCB, which no list holds.
LEMMA NewKernelTaskKeeps ==
    ASSUME IInv, NEW t \in Tasks, NEW p \in Priorities, NewKernelTask(t, p)
    PROVE  IInv'
<1>. USE PCBAssumption
<1>1. /\ t \in PCBs /\ state[t] = "FREE" /\ exec = NoTask /\ current = Kernel
      /\ state' = [state EXCEPT ![t] = "CREATED"]
      /\ priority' = [priority EXCEPT ![t] = p]
      /\ exec' = t /\ shell' = "starting"
      /\ UNCHANGED <<high, low, toDelete, current, last, before, inISR, irq, fault>>
  BY DEF NewKernelTask, Runs, IInv, CreatedIsPending, PCBs, queues, turn
<1>2. t \notin Elements(high) \union Elements(low) \union Elements(toDelete)
  BY <1>1, UnlistedFacts DEF Unlisted
<1>3. TypeOK'
  BY <1>1 DEF IInv, TypeOK, States, Priority
<1>4. ListsDisjoint'
  BY <1>1, <1>2 DEF IInv, TypeOK, ListsDisjoint
<1>5. AllocatedIsListed'
  BY <1>1, <1>2 DEF IInv, TypeOK, AllocatedIsListed
<1>6. OneRunning' /\ Booting' /\ CreatedIsPending'
  BY <1>1, <1>2 DEF IInv, TypeOK, OneRunning, Booting, CreatedIsPending, PCBs
<1>. QED
  BY <1>3, <1>4, <1>5, <1>6 DEF IInv

\* startTask puts the created process on the queue of its priority.
LEMMA StartTaskKeeps ==
    ASSUME IInv, StartTask
    PROVE  IInv'
<1>. USE PCBAssumption
<1>0. /\ current = Kernel /\ irq' = TRUE /\ shell' = "ready" /\ exec' = NoTask
      /\ UNCHANGED <<toDelete, current, priority, last, before, inISR, fault>>
      /\ TypeOK
  BY DEF StartTask, Runs, turn, IInv
<1>1. CASE exec = NoTask
  <2>1. UNCHANGED <<high, low, state>>
    BY <1>1 DEF StartTask
  <2>. QED
    BY <1>0, <1>1, <2>1
       DEF IInv, TypeOK, ListsDisjoint, AllocatedIsListed, OneRunning, Booting,
           CreatedIsPending
<1>2. CASE exec # NoTask
  <2>1. /\ exec \in PCBs /\ state[exec] = "CREATED"
        /\ state' = [state EXCEPT ![exec] = "RUNNABLE"]
        /\ high' = PushToQueue(high, "HIGH", exec)
        /\ low' = PushToQueue(low, "LOW", exec)
    BY <1>2 DEF StartTask, IInv, TypeOK, CreatedIsPending, PCBs
  <2>2. exec \notin Elements(high) \union Elements(low) \union Elements(toDelete)
    BY <2>1, UnlistedFacts DEF Unlisted
  <2>3. /\ high' \in Seq(PCBs) /\ Distinct(high')
        /\ Elements(high') = Elements(high) \union
               (IF priority[exec] = "HIGH" THEN {exec} ELSE {})
    BY <1>0, <2>1, <2>2, AppendFacts DEF IInv, TypeOK, ListsDisjoint, PushToQueue
  <2>4. /\ low' \in Seq(PCBs) /\ Distinct(low')
        /\ Elements(low') = Elements(low) \union
               (IF priority[exec] = "LOW" THEN {exec} ELSE {})
    BY <1>0, <2>1, <2>2, AppendFacts DEF IInv, TypeOK, ListsDisjoint, PushToQueue
  <2>5. TypeOK'
    BY <1>0, <2>1, <2>3, <2>4 DEF TypeOK, States
  <2>6. ListsDisjoint'
    BY <1>0, <2>1, <2>2, <2>3, <2>4 DEF IInv, ListsDisjoint
  <2>7. AllocatedIsListed'
    BY <1>0, <2>1, <2>2, <2>3, <2>4 DEF IInv, TypeOK, AllocatedIsListed, Priority
  <2>8. OneRunning' /\ Booting' /\ CreatedIsPending'
    BY <1>0, <2>1, <2>3, <2>4
       DEF IInv, TypeOK, OneRunning, Booting, CreatedIsPending, PCBs
  <2>. QED
    BY <2>5, <2>6, <2>7, <2>8 DEF IInv
<1>. QED
  BY <1>1, <1>2

\* A kill or a return changes only the state of a task that is on a run queue.
LEMMA TerminateKeeps ==
    ASSUME IInv, NEW t \in PCBs, current # NoTask, ~fault,
           t \in Elements(high) \union Elements(low),
           state' = [state EXCEPT ![t] = "TERMINATED"],
           UNCHANGED <<queues, current, priority, turn, inISR, cmd, fault>>
    PROVE  IInv'
<1>1. TypeOK' /\ ListsDisjoint'
  BY DEF IInv, TypeOK, ListsDisjoint, States, queues, turn, cmd
<1>2. AllocatedIsListed'
  BY DEF IInv, TypeOK, AllocatedIsListed, queues
<1>3. OneRunning' /\ Booting'
  BY DEF IInv, TypeOK, OneRunning, Booting, queues
<1>4. CreatedIsPending'
  BY DEF IInv, TypeOK, AllocatedIsListed, CreatedIsPending, queues, cmd
<1>. QED
  BY <1>1, <1>2, <1>3, <1>4 DEF IInv

\* A terminated task leaves its queue for _to_delete; without a high task to
\* go on with, the lists are still in order.
LEMMA RetireCurrentKeeps ==
    ASSUME IInv, RetireCurrent
    PROVE  IInv'
<1>. DEFINE hq == RemoveFromQueue(high, "HIGH", current)
            lq == RemoveFromQueue(low, "LOW", current)
            del == Append(toDelete, current)
<1>0. /\ TypeOK /\ ListsDisjoint /\ AllocatedIsListed /\ OneRunning /\ CreatedIsPending
      /\ current \in PCBs /\ current # NoTask /\ ~Unlisted(current)
      /\ current \notin Elements(toDelete)
      /\ current \in Elements(high) \union Elements(low)
      /\ state[current] = "TERMINATED"
      /\ toDelete' = del /\ last' \in Priority /\ before' \in Priority
      /\ UNCHANGED <<priority, cmd>>
  BY CurrentFacts DEF RetireCurrent, Called, IInv, OneRunning, TypeOK, Priority
<1>1. /\ hq \in Seq(PCBs) /\ Distinct(hq)
      /\ Elements(hq) = Elements(high) \ {current}
  <2>1. CASE priority[current] = "HIGH"
    BY <1>0, <2>1, RemoveFacts DEF TypeOK, ListsDisjoint, RemoveFromQueue
  <2>2. CASE priority[current] # "HIGH"
    BY <1>0, <2>2 DEF TypeOK, ListsDisjoint, RemoveFromQueue
  <2>. QED  BY <2>1, <2>2
<1>2. /\ lq \in Seq(PCBs) /\ Distinct(lq)
      /\ Elements(lq) = Elements(low) \ {current}
  <2>1. CASE priority[current] = "LOW"
    BY <1>0, <2>1, RemoveFacts DEF TypeOK, ListsDisjoint, RemoveFromQueue
  <2>2. CASE priority[current] # "LOW"
    BY <1>0, <2>2 DEF TypeOK, ListsDisjoint, RemoveFromQueue
  <2>. QED  BY <2>1, <2>2
<1>3. /\ del \in Seq(PCBs) /\ Distinct(del)
      /\ Elements(del) = Elements(toDelete) \union {current}
  BY <1>0, AppendFacts DEF TypeOK, ListsDisjoint
<1>4. \/ /\ fault' = TRUE /\ high' = hq /\ low' = lq
         /\ UNCHANGED <<current, state, inISR>>
      \/ hq # <<>> /\ ContextSwitch(Head(hq), Tail(hq), lq, state)
  BY DEF RetireCurrent
<1>. HIDE DEF hq, lq, del
<1>5. CASE /\ fault' = TRUE /\ high' = hq /\ low' = lq
           /\ UNCHANGED <<current, state, inISR>>
  <2>1. TypeOK'
    BY <1>0, <1>1, <1>2, <1>3, <1>5 DEF TypeOK, cmd
  <2>2. ListsDisjoint'
    BY <1>0, <1>1, <1>2, <1>3, <1>5 DEF ListsDisjoint
  <2>3. AllocatedIsListed'
    BY <1>0, <1>1, <1>2, <1>3, <1>5 DEF AllocatedIsListed
  <2>4. OneRunning' /\ Booting' /\ CreatedIsPending'
    BY <1>0, <1>5 DEF OneRunning, Booting, CreatedIsPending, cmd
  <2>. QED
    BY <2>1, <2>2, <2>3, <2>4 DEF IInv
<1>6. CASE hq # <<>> /\ ContextSwitch(Head(hq), Tail(hq), lq, state)
  <2>. DEFINE u == Head(hq)
              tq == Tail(hq)
  <2>1. /\ u \in PCBs /\ tq \in Seq(PCBs) /\ Distinct(tq)
        /\ Elements(hq) = Elements(tq) \union {u} /\ u \notin Elements(tq)
    BY <1>1, <1>6, PopFacts
  <2>2. ContextSwitch(u, tq, lq, state)
    BY <1>6
  <2>. HIDE DEF u, tq
  <2>3. /\ priority[u] = "HIGH"
        /\ u \notin Elements(lq) /\ u \notin Elements(del)
        /\ Elements(tq) \cap Elements(del) = {}
        /\ Elements(lq) \cap Elements(del) = {}
        /\ \A t \in Elements(tq) : priority[t] = "HIGH"
        /\ \A t \in Elements(lq) : priority[t] = "LOW"
    BY <1>0, <1>1, <1>2, <1>3, <2>1 DEF ListsDisjoint
  <2>4. \A t \in PCBs :
           (t = u \/ t \in Elements(tq) \/ t \in Elements(lq) \/ t \in Elements(del))
               <=> (state[t] \notin {"FREE", "CREATED"})
    BY <1>0, <1>1, <1>2, <1>3, <2>1 DEF AllocatedIsListed
  <2>5. /\ state \in [PCBs -> States]
        /\ state[current] \notin {"FREE", "CREATED"}
        /\ \A t \in PCBs : state[t] = "RUNNING" => t = current
        /\ \A t \in PCBs : state[t] = "CREATED" <=> t = exec
    BY <1>0 DEF TypeOK, OneRunning, CreatedIsPending
  <2>6. Prepared(u, tq, lq, del, state)
    BY <1>1, <1>2, <1>3, <2>1, <2>3, <2>4, <2>5 DEF Prepared
  <2>. QED
    BY <1>0, <2>2, <2>6, ContextSwitchKeeps
<1>. QED
  BY <1>4, <1>5, <1>6

(***************************************************************************)
(* What the kernel's reaping leaves: the lists are in order without the    *)
(* processes it freed.                                                     *)
(***************************************************************************)
LEMMA ReapFacts ==
    ASSUME IInv, Called
    PROVE  /\ ReapedList \in Seq(PCBs) /\ Distinct(ReapedList)
           /\ Elements(ReapedList) \subseteq Elements(toDelete)
           /\ ReapedState \in [PCBs -> States]
           /\ ReapedState[current] = state[current]
           /\ \A t \in Elements(high) \union Elements(low) : ReapedState[t] = state[t]
           /\ \A t \in PCBs :
                 (t \in Elements(high) \/ t \in Elements(low) \/ t \in Elements(ReapedList))
                     <=> (ReapedState[t] \notin {"FREE", "CREATED"})
           /\ \A t \in PCBs : ReapedState[t] = "RUNNING" => t = current
           /\ \A t \in PCBs : ReapedState[t] = "CREATED" <=> t = exec
<1>0. /\ TypeOK /\ ListsDisjoint /\ AllocatedIsListed /\ OneRunning /\ CreatedIsPending
      /\ current \in PCBs /\ current \notin Elements(toDelete)
      /\ Elements(high) \subseteq PCBs /\ Elements(low) \subseteq PCBs
  BY CurrentFacts DEF Called, IInv, TypeOK, Elements
<1>1. CASE Reaps
  <2>1. Reaped = Elements(toDelete) /\ ReapedList = <<>>
    BY <1>1 DEF Reaped, ReapedList
  <2>2. Elements(ReapedList) = {} /\ Distinct(ReapedList) /\ ReapedList \in Seq(PCBs)
    BY <2>1 DEF Elements, Distinct
  <2>3. \A t \in PCBs :
          ReapedState[t] = IF t \in Elements(toDelete) THEN "FREE" ELSE state[t]
    BY <2>1 DEF ReapedState
  <2>4. ReapedState \in [PCBs -> States]
    BY <1>0 DEF ReapedState, TypeOK, States
  <2>5. \A t \in Elements(toDelete) : t \notin Elements(high) /\ t \notin Elements(low)
    BY <1>0 DEF ListsDisjoint
  <2>6. \A t \in PCBs :
           (t \in Elements(high) \/ t \in Elements(low) \/ t \in Elements(ReapedList))
               <=> (ReapedState[t] \notin {"FREE", "CREATED"})
    BY <1>0, <2>2, <2>3, <2>5 DEF AllocatedIsListed
  <2>7. \A t \in PCBs : /\ ReapedState[t] = "RUNNING" => t = current
                        /\ ReapedState[t] = "CREATED" <=> t = exec
    BY <1>0, <2>3 DEF AllocatedIsListed, OneRunning, CreatedIsPending
  <2>. QED
    BY <1>0, <2>2, <2>3, <2>4, <2>5, <2>6, <2>7
<1>2. CASE ~Reaps
  <2>1. ReapedList = toDelete /\ ReapedState = state
    BY <1>0, <1>2 DEF Reaped, ReapedList, ReapedState, TypeOK
  <2>. QED
    BY <1>0, <2>1
       DEF TypeOK, ListsDisjoint, AllocatedIsListed, OneRunning, CreatedIsPending
<1>. QED
  BY <1>1, <1>2

\* The list chosen is not empty, and its head is taken from it.
LEMMA ChosenFacts ==
    ASSUME IInv, Choosing
    PROVE  /\ Chosen \in PCBs
           /\ LowTurn => /\ Tail(low) \in Seq(PCBs) /\ Distinct(Tail(low))
                         /\ Elements(low) = Elements(Tail(low)) \union {Chosen}
                         /\ Chosen \notin Elements(Tail(low))
                         /\ priority[Chosen] = "LOW"
           /\ ~LowTurn => /\ Tail(high) \in Seq(PCBs) /\ Distinct(Tail(high))
                          /\ Elements(high) = Elements(Tail(high)) \union {Chosen}
                          /\ Chosen \notin Elements(Tail(high))
                          /\ priority[Chosen] = "HIGH"
<1>1. /\ high \in Seq(PCBs) /\ low \in Seq(PCBs)
      /\ Distinct(high) /\ Distinct(low) /\ high # <<>>
      /\ \A t \in Elements(high) : priority[t] = "HIGH"
      /\ \A t \in Elements(low) : priority[t] = "LOW"
  BY DEF IInv, TypeOK, ListsDisjoint, Choosing
<1>2. CASE LowTurn
  BY <1>1, <1>2, PopFacts DEF Chosen, LowTurn
<1>3. CASE ~LowTurn
  BY <1>1, <1>3, PopFacts DEF Chosen
<1>. QED
  BY <1>2, <1>3

LEMMA SwitchToChosenKeeps ==
    ASSUME IInv, SwitchToChosen
    PROVE  IInv'
<1>. DEFINE hq == IF LowTurn THEN high ELSE Tail(high)
            lq == IF LowTurn THEN Tail(low) ELSE low
<1>1. /\ TypeOK /\ ListsDisjoint /\ Choosing /\ Called /\ current \in PCBs
      /\ ~Unlisted(current)
      /\ toDelete' = ReapedList
      /\ last' \in Priority /\ before' \in Priority
      /\ UNCHANGED <<priority, cmd>>
      /\ ContextSwitch(Chosen, hq, lq, ReapedState)
  BY CurrentFacts DEF SwitchToChosen, Choosing, Called, TakeTurn, IInv, TypeOK, Priority
<1>2. /\ hq \in Seq(PCBs) /\ lq \in Seq(PCBs) /\ Distinct(hq) /\ Distinct(lq)
      /\ Chosen \in PCBs /\ Chosen \notin Elements(hq) /\ Chosen \notin Elements(lq)
      /\ Elements(hq) \union Elements(lq) \union {Chosen} = Elements(high) \union Elements(low)
      /\ Elements(hq) \subseteq Elements(high) /\ Elements(lq) \subseteq Elements(low)
  BY <1>1, ChosenFacts DEF TypeOK, ListsDisjoint
<1>. HIDE DEF hq, lq
<1>3. Prepared(Chosen, hq, lq, ReapedList, ReapedState)
  BY <1>1, <1>2, ReapFacts DEF Prepared, ListsDisjoint, Unlisted
<1>. QED
  BY <1>1, <1>3, ContextSwitchKeeps

LEMMA RetireChosenKeeps ==
    ASSUME IInv, RetireChosen
    PROVE  IInv'
<1>. DEFINE del == Append(ReapedList, Chosen)
<1>1. /\ TypeOK /\ ListsDisjoint /\ OneRunning /\ CreatedIsPending
      /\ Choosing /\ Called /\ current \in PCBs /\ current # NoTask
      /\ state[current] # "TERMINATED"
      /\ ReapedState[Chosen] = "TERMINATED"
      /\ toDelete' = del /\ state' = ReapedState /\ inISR' = TRUE
      /\ last' \in Priority /\ before' \in Priority
      /\ UNCHANGED <<current, priority, cmd, fault>>
      /\ high' = (IF LowTurn THEN high ELSE Tail(high))
      /\ low' = (IF LowTurn THEN Tail(low) ELSE low)
  BY CurrentFacts
     DEF RetireChosen, Choosing, Called, TakeTurn, IInv, TypeOK, Priority
<1>2. /\ high' \in Seq(PCBs) /\ low' \in Seq(PCBs) /\ Distinct(high') /\ Distinct(low')
      /\ Chosen \in PCBs /\ Chosen \notin Elements(high') /\ Chosen \notin Elements(low')
      /\ Elements(high') \union Elements(low') \union {Chosen}
            = Elements(high) \union Elements(low)
      /\ Elements(high') \subseteq Elements(high) /\ Elements(low') \subseteq Elements(low)
  BY <1>1, ChosenFacts DEF TypeOK, ListsDisjoint
<1>3. Chosen # current
  BY <1>1, ReapFacts
<1>4. /\ del \in Seq(PCBs) /\ Distinct(del)
      /\ Elements(del) = Elements(ReapedList) \union {Chosen}
  <2>1. Chosen \notin Elements(ReapedList)
    BY <1>1, <1>2, ReapFacts DEF ListsDisjoint
  <2>. QED
    BY <1>1, <1>2, <2>1, ReapFacts, AppendFacts
<1>. HIDE DEF del
<1>5. TypeOK'
  BY <1>1, <1>2, <1>4, ReapFacts DEF TypeOK, cmd
<1>6. ListsDisjoint'
  BY <1>1, <1>2, <1>4, ReapFacts DEF ListsDisjoint
<1>7. AllocatedIsListed'
  BY <1>1, <1>2, <1>4, ReapFacts DEF AllocatedIsListed
<1>8. OneRunning' /\ Booting' /\ CreatedIsPending'
  BY <1>1, <1>2, <1>3, ReapFacts DEF OneRunning, Booting, CreatedIsPending, cmd
<1>. QED
  BY <1>5, <1>6, <1>7, <1>8 DEF IInv

LEMMA KeepRunningKeeps ==
    ASSUME IInv, KeepRunning
    PROVE  IInv'
<1>1. /\ TypeOK /\ ListsDisjoint /\ OneRunning /\ CreatedIsPending
      /\ Called /\ current # NoTask
      /\ toDelete' = ReapedList /\ state' = ReapedState /\ inISR' = FALSE
      /\ last' \in Priority /\ before' \in Priority
      /\ UNCHANGED <<high, low, current, priority, cmd, fault>>
  BY DEF KeepRunning, Choosing, Called, TakeTurn, IInv, TypeOK, Priority
<1>2. TypeOK'
  BY <1>1, ReapFacts DEF TypeOK, cmd
<1>3. ListsDisjoint'
  BY <1>1, ReapFacts DEF ListsDisjoint
<1>4. AllocatedIsListed'
  BY <1>1, ReapFacts DEF AllocatedIsListed
<1>5. OneRunning' /\ Booting' /\ CreatedIsPending'
  BY <1>1, ReapFacts DEF OneRunning, Booting, CreatedIsPending, cmd
<1>. QED
  BY <1>2, <1>3, <1>4, <1>5 DEF IInv

\* Every step of the process manager keeps the invariant.
LEMMA NextKeeps == IInv /\ [Next]_vars => IInv'
<1>. SUFFICES ASSUME IInv, [Next]_vars PROVE IInv'
  OBVIOUS
<1>1. CASE InitMultitasking
  BY <1>1, InitMultitaskingKeeps
<1>2. ASSUME NEW t \in Tasks, NEW p \in Priorities, NewKernelTask(t, p) PROVE IInv'
  BY <1>2, NewKernelTaskKeeps
<1>3. CASE NewKernelTaskFails \/ NewTaskFails
  BY <1>3
     DEF NewKernelTaskFails, NewTaskFails, Runs, queues, turn, IInv, TypeOK, ListsDisjoint,
         AllocatedIsListed, OneRunning, Booting, CreatedIsPending
<1>4. CASE StartTask
  BY <1>4, StartTaskKeeps
<1>5. ASSUME NEW t \in KillIds, KillTask(t) PROVE IInv'
  <2>1. t \in PCBs /\ current # NoTask /\ ~fault
    BY <1>5, PCBAssumption DEF KillTask, Runs, PCBs
  <2>. QED
    BY <1>5, <2>1, TerminateKeeps DEF KillTask
<1>6. ASSUME NEW t \in Tasks, TaskExit(t) PROVE IInv'
  <2>1. /\ t \in PCBs /\ current = t /\ current # NoTask /\ ~fault
        /\ t \in Elements(high) \union Elements(low)
    BY <1>6, PCBAssumption DEF TaskExit, Runs, PCBs, IInv, OneRunning
  <2>. QED
    BY <1>6, <2>1, TerminateKeeps DEF TaskExit
<1>7. CASE RetireCurrent
  BY <1>7, RetireCurrentKeeps
<1>8. CASE SwitchToChosen
  BY <1>8, SwitchToChosenKeeps
<1>9. CASE RetireChosen
  BY <1>9, RetireChosenKeeps
<1>10. CASE KeepRunning
  BY <1>10, KeepRunningKeeps
<1>11. CASE UNCHANGED vars
  BY <1>11
     DEF vars, queues, turn, cmd, IInv, TypeOK, ListsDisjoint, AllocatedIsListed,
         OneRunning, Booting, CreatedIsPending
<1>. QED
  BY <1>1, <1>2, <1>3, <1>4, <1>5, <1>6, <1>7, <1>8, <1>9, <1>10, <1>11
     DEF Next, RunNextTask

---------------------------------------------------------------------------
(* The theorems.                                                           *)

\* The inductive invariant holds for any number of processes, killed or not.
THEOREM Invariance == Spec => []IInv
<1>1. Init => IInv
  BY InitKeeps
<1>2. IInv /\ [Next]_vars => IInv'
  BY NextKeeps
<1>. QED
  BY <1>1, <1>2, PTL DEF Spec

\* Every variable keeps its type.
THEOREM TypeCorrect == Spec => []TypeOK
<1>1. IInv => TypeOK
  BY DEF IInv
<1>. QED
  BY <1>1, Invariance, PTL

\* No PCB is ever on two lists, or twice on one.
THEOREM DisjointLists == Spec => []ListsDisjoint
<1>1. IInv => ListsDisjoint
  BY DEF IInv
<1>. QED
  BY <1>1, Invariance, PTL

\* No process is lost, and no list holds a freed PCB.
THEOREM NothingLost == Spec => []AllocatedIsListed
<1>1. IInv => AllocatedIsListed
  BY DEF IInv
<1>. QED
  BY <1>1, Invariance, PTL

\* Two tasks never run at once.
THEOREM SingleRunning == Spec => []OneRunning
<1>1. IInv => OneRunning
  BY DEF IInv
<1>. QED
  BY <1>1, Invariance, PTL

(***************************************************************************)
(* The memory of a process is freed only from the kernel task, and never   *)
(* that of a task that is queued or about to run.                          *)
(***************************************************************************)
LEMMA FreedStep ==
    ASSUME IInv, [Next]_vars, NEW t \in PCBs,
           state[t] # "FREE", state'[t] = "FREE"
    PROVE  /\ current = Kernel /\ t # Kernel
           /\ t # current'
           /\ t \notin Elements(high') \union Elements(low')
<1>. USE PCBAssumption
<1>0. IInv' /\ TypeOK
  BY NextKeeps DEF IInv
<1>1. CASE SwitchToChosen \/ RetireChosen \/ KeepRunning
  <2>1. Choosing /\ Called /\ current # NoTask /\ current \in PCBs
    BY <1>1, CurrentFacts DEF SwitchToChosen, RetireChosen, KeepRunning, Choosing, Called
  <2>2. ReapedState[t] = "FREE"
    <3>1. CASE SwitchToChosen
      <4>1. state' = SwitchStates(ReapedState, Chosen)
        BY <3>1 DEF SwitchToChosen, ContextSwitch
      <4>. QED
        BY <4>1, <2>1, ReapFacts DEF SwitchStates
    <3>2. CASE RetireChosen \/ KeepRunning
      BY <3>2 DEF RetireChosen, KeepRunning
    <3>. QED
      BY <1>1, <3>1, <3>2
  <2>3. t \in Reaped
    BY <2>2 DEF ReapedState
  <2>4. current = Kernel /\ t \in Elements(toDelete)
    BY <2>3 DEF Reaped, Reaps
  <2>5. t # Kernel
    BY <2>1, <2>4, CurrentFacts DEF Called
  <2>6. t \notin Elements(high') \union Elements(low')
    BY <1>0 DEF IInv, AllocatedIsListed
  <2>7. t # current'
    <3>1. CASE SwitchToChosen
      <4>1. current' = Chosen /\ state' = SwitchStates(ReapedState, Chosen)
        BY <3>1 DEF SwitchToChosen, ContextSwitch
      <4>2. state'[Chosen] = "RUNNING"
        BY <4>1, <2>1, ChosenFacts, ReapFacts DEF SwitchStates
      <4>. QED
        BY <4>1, <4>2
    <3>2. CASE RetireChosen \/ KeepRunning
      BY <3>2, <2>4, <2>5 DEF RetireChosen, KeepRunning
    <3>. QED
      BY <1>1, <3>1, <3>2
  <2>. QED
    BY <2>4, <2>5, <2>6, <2>7
<1>2. CASE RetireCurrent
  <2>1. \/ state' = state
        \/ \E u : state' = SwitchStates(state, u)
    BY <1>2 DEF RetireCurrent, ContextSwitch
  <2>2. state'[t] # "FREE"
    BY <1>0, <2>1 DEF SwitchStates, TypeOK
  <2>. QED
    BY <2>2
<1>3. CASE \/ InitMultitasking
           \/ \E u \in Tasks, p \in Priorities : NewKernelTask(u, p)
           \/ NewKernelTaskFails \/ NewTaskFails \/ StartTask
           \/ \E u \in KillIds : KillTask(u)
           \/ \E u \in Tasks : TaskExit(u)
           \/ UNCHANGED vars
  <2>1. \/ state' = state
        \/ \E u, s : s # "FREE" /\ state' = [state EXCEPT ![u] = s]
    BY <1>3
       DEF InitMultitasking, NewKernelTask, NewKernelTaskFails, NewTaskFails, StartTask, KillTask,
           TaskExit, vars
  <2>2. state'[t] # "FREE"
    BY <1>0, <2>1 DEF TypeOK
  <2>. QED
    BY <2>2
<1>. QED
  BY <1>1, <1>2, <1>3 DEF Next, RunNextTask

\* Memory is freed only by the kernel task, whatever is killed.
THEOREM ReapingIsSafe == Spec => FreedOnlyByKernel
<1>1. IInv /\ [Next]_vars =>
        [\A t \in PCBs : state[t] # "FREE" /\ state'[t] = "FREE" =>
            /\ current = Kernel /\ t # Kernel
            /\ t # current'
            /\ t \notin Elements(high') \union Elements(low')]_vars
  BY FreedStep
<1>. QED
  BY <1>1, Invariance, PTL DEF Spec, FreedOnlyByKernel

---------------------------------------------------------------------------
(* While the kernel task is not killed.                                    *)

\* Once there is a task, the kernel task is queued and not terminated.
KernelQueued ==
    /\ ~fault
    /\ current # NoTask => /\ Kernel \in Elements(high)
                          /\ priority[Kernel] = "HIGH"
                          /\ state[Kernel] # "TERMINATED"

\* The kernel task stays in the high list: retiring another task leaves it there.
LEMMA KernelStays ==
    ASSUME Kernel \notin KillIds, IInv, KernelQueued, [Next]_vars
    PROVE  KernelQueued'
<1>. USE PCBAssumption
<1>0. TypeOK /\ Kernel \in PCBs /\ ~fault /\ Kernel # NoTask
  BY DEF IInv, KernelQueued, PCBs
<1>1. CASE InitMultitasking
  BY <1>0, <1>1 DEF InitMultitasking, KernelQueued, TypeOK, Elements
<1>2. ASSUME NEW t \in Tasks, NEW p \in Priorities, NewKernelTask(t, p)
      PROVE  KernelQueued'
  BY <1>0, <1>2 DEF NewKernelTask, KernelQueued, TypeOK, queues
<1>3. CASE NewKernelTaskFails \/ NewTaskFails \/ UNCHANGED vars
  BY <1>3 DEF NewKernelTaskFails, NewTaskFails, KernelQueued, vars, queues
<1>4. CASE StartTask
  <2>1. Elements(high) \subseteq Elements(high')
    <3>1. CASE high' = high
      BY <3>1
    <3>2. CASE high' = Append(high, exec) /\ exec \in PCBs
      BY <1>0, <3>2, AppendFacts DEF TypeOK
    <3>. QED
      BY <1>0, <1>4, <3>1, <3>2 DEF StartTask, PushToQueue, TypeOK, PCBs
  <2>2. state'[Kernel] # "TERMINATED"
    BY <1>0, <1>4 DEF StartTask, Runs, KernelQueued, TypeOK
  <2>. QED
    BY <1>4, <2>1, <2>2 DEF StartTask, Runs, KernelQueued
<1>5. ASSUME NEW t \in KillIds, KillTask(t)
      PROVE  KernelQueued'
  BY <1>0, <1>5 DEF KillTask, KernelQueued, TypeOK, queues
<1>6. ASSUME NEW t \in Tasks, TaskExit(t)
      PROVE  KernelQueued'
  BY <1>0, <1>6 DEF TaskExit, KernelQueued, TypeOK, queues
<1>7. CASE RetireCurrent
  <2>. DEFINE hq == RemoveFromQueue(high, "HIGH", current)
              lq == RemoveFromQueue(low, "LOW", current)
  <2>1. /\ current # Kernel /\ current # NoTask
        /\ Kernel \in Elements(high) /\ priority[Kernel] = "HIGH"
        /\ state[Kernel] # "TERMINATED"
    BY <1>7 DEF RetireCurrent, Called, KernelQueued
  <2>2. hq \in Seq(PCBs) /\ Kernel \in Elements(hq)
    BY <2>1, RemoveFacts DEF IInv, TypeOK, ListsDisjoint, RemoveFromQueue
  <2>3. hq # <<>>
    BY <2>2 DEF Elements
  <2>. DEFINE u == Head(hq)
              tq == Tail(hq)
  <2>4. ContextSwitch(u, tq, lq, state)
    BY <1>7, <2>3 DEF RetireCurrent
  <2>5. tq \in Seq(PCBs) /\ u \in PCBs /\ Elements(hq) = Elements(tq) \union {u}
    BY <2>2, <2>3, PopFacts
  <2>. HIDE DEF hq, lq, u, tq
  <2>6. Kernel \in Elements(high')
    <3>1. CASE priority[u] = "HIGH"
      <4>1. high' = Append(tq, u)
        BY <2>4, <3>1 DEF ContextSwitch, PushToQueue
      <4>2. Elements(high') = Elements(tq) \union {u}
        BY <2>5, <4>1, AppendFacts
      <4>. QED
        BY <2>2, <2>5, <4>2
    <3>2. CASE priority[u] # "HIGH"
      <4>1. high' = tq
        BY <2>4, <3>2 DEF ContextSwitch, PushToQueue
      <4>2. Kernel \in Elements(tq)
        BY <2>1, <2>2, <2>5, <3>2
      <4>. QED
        BY <4>1, <4>2
    <3>. QED  BY <3>1, <3>2
  <2>7. state'[Kernel] # "TERMINATED" /\ ~fault'
    BY <1>0, <2>1, <2>4, <2>5 DEF ContextSwitch, SwitchStates, TypeOK
  <2>8. UNCHANGED priority
    BY <1>7 DEF RetireCurrent
  <2>. QED
    BY <2>1, <2>6, <2>7, <2>8 DEF KernelQueued
<1>8. CASE SwitchToChosen
  <2>. DEFINE hq == IF LowTurn THEN high ELSE Tail(high)
              lq == IF LowTurn THEN Tail(low) ELSE low
  <2>1. /\ Choosing /\ Called /\ current # NoTask /\ current \in PCBs
        /\ Kernel \in Elements(high) /\ priority[Kernel] = "HIGH"
        /\ UNCHANGED priority
        /\ ContextSwitch(Chosen, hq, lq, ReapedState)
    BY <1>8, CurrentFacts DEF SwitchToChosen, Choosing, Called, KernelQueued
  <2>2. /\ hq \in Seq(PCBs) /\ Chosen \in PCBs
        /\ Kernel \in Elements(hq) \/ (Kernel = Chosen /\ ~LowTurn)
    BY <1>0, <2>1, ChosenFacts DEF TypeOK
  <2>. HIDE DEF hq, lq
  <2>3. Kernel \in Elements(high')
    <3>1. CASE priority[Chosen] = "HIGH"
      <4>1. high' = Append(hq, Chosen)
        BY <2>1, <3>1 DEF ContextSwitch, PushToQueue
      <4>2. Elements(high') = Elements(hq) \union {Chosen}
        BY <2>2, <4>1, AppendFacts
      <4>. QED
        BY <2>2, <4>2
    <3>2. CASE priority[Chosen] # "HIGH"
      <4>1. high' = hq
        BY <2>1, <3>2 DEF ContextSwitch, PushToQueue
      <4>2. Kernel \in Elements(hq)
        BY <2>1, <2>2, <3>2
      <4>. QED
        BY <4>1, <4>2
    <3>. QED
      BY <3>1, <3>2
  <2>4. ReapedState[Kernel] # "TERMINATED"
    BY <2>1, ReapFacts DEF KernelQueued
  <2>5. state'[Kernel] # "TERMINATED" /\ ~fault'
    BY <1>0, <2>1, <2>2, <2>4, ReapFacts DEF ContextSwitch, SwitchStates
  <2>. QED
    BY <2>1, <2>3, <2>5 DEF KernelQueued
<1>9. CASE RetireChosen
  <2>1. /\ Choosing /\ Called
        /\ Kernel \in Elements(high) /\ priority[Kernel] = "HIGH"
        /\ state[Kernel] # "TERMINATED"
        /\ ReapedState[Chosen] = "TERMINATED" /\ state' = ReapedState
        /\ high' = (IF LowTurn THEN high ELSE Tail(high))
        /\ UNCHANGED <<priority, fault>>
    BY <1>9 DEF RetireChosen, Choosing, Called, KernelQueued
  <2>2. ReapedState[Kernel] = state[Kernel]
    BY <2>1, ReapFacts
  <2>3. Kernel \in Elements(high')
    BY <2>1, <2>2, ChosenFacts
  <2>. QED
    BY <1>0, <2>1, <2>2, <2>3 DEF KernelQueued
<1>10. CASE KeepRunning
  <2>1. /\ Called /\ Kernel \in Elements(high) /\ priority[Kernel] = "HIGH"
        /\ state[Kernel] # "TERMINATED" /\ state' = ReapedState
        /\ UNCHANGED <<high, priority, fault>>
    BY <1>10 DEF KeepRunning, Choosing, Called, KernelQueued
  <2>. QED
    BY <1>0, <2>1, ReapFacts DEF KernelQueued
<1>. QED
  BY <1>1, <1>2, <1>3, <1>4, <1>5, <1>6, <1>7, <1>8, <1>9, <1>10 DEF Next, RunNextTask

\* A switch never goes through an empty list while the kernel is not killed.
THEOREM SwitchIsSafe ==
    ASSUME Kernel \notin KillIds
    PROVE  Spec => []NoFault
<1>1. Init => KernelQueued
  BY DEF Init, KernelQueued
<1>2. IInv /\ KernelQueued /\ [Next]_vars => KernelQueued'
  BY KernelStays
<1>3. KernelQueued => NoFault
  BY DEF KernelQueued, NoFault
<1>. QED
  BY <1>1, <1>2, <1>3, Invariance, PTL DEF Spec

---------------------------------------------------------------------------
(* While processes are started by the shell only, all with LOW priority.   *)

\* The kernel task alone has HIGH priority.
TasksAreLow == \A t \in Tasks : priority[t] = "LOW"

LEMMA LowStays ==
    ASSUME Priorities = {"LOW"}, IInv, TasksAreLow, [Next]_vars
    PROVE  TasksAreLow'
<1>. USE PCBAssumption
<1>1. CASE InitMultitasking
  BY <1>1 DEF InitMultitasking, TasksAreLow, IInv, TypeOK, PCBs
<1>2. ASSUME NEW t \in Tasks, NEW p \in Priorities, NewKernelTask(t, p)
      PROVE  TasksAreLow'
  BY <1>2 DEF NewKernelTask, TasksAreLow, IInv, TypeOK, PCBs
<1>3. CASE UNCHANGED priority
  BY <1>3 DEF TasksAreLow
<1>. QED
  BY <1>1, <1>2, <1>3
     DEF Next, RunNextTask, NewKernelTaskFails, NewTaskFails, StartTask, KillTask,
         TaskExit, RetireCurrent, SwitchToChosen, RetireChosen, KeepRunning, vars

\* A dead process stays dead over every step.
LEMMA DeadStep ==
    ASSUME IInv, KernelQueued, TasksAreLow, [Next]_vars,
           NEW t \in PCBs, Dead(t)
    PROVE  Dead(t)' \/ state'[t] = "FREE"
<1>. USE PCBAssumption
<1>0. /\ TypeOK /\ Kernel \in PCBs /\ Kernel # NoTask
      /\ ~Unlisted(t) /\ current # NoTask
  BY DEF IInv, Dead, Booting, AllocatedIsListed, Unlisted, PCBs
<1>1. CASE InitMultitasking
  BY <1>0, <1>1 DEF InitMultitasking
<1>2. ASSUME NEW u \in Tasks, NEW p \in Priorities, NewKernelTask(u, p)
      PROVE  Dead(t)'
  BY <1>0, <1>2 DEF NewKernelTask, Dead, TypeOK, queues, Unlisted
<1>3. CASE NewKernelTaskFails \/ NewTaskFails \/ UNCHANGED vars
  BY <1>3 DEF NewKernelTaskFails, NewTaskFails, Dead, vars, queues
<1>4. CASE StartTask
  <2>1. exec # t
    BY <1>0 DEF IInv, CreatedIsPending, Unlisted
  <2>. QED
    BY <1>0, <1>4, <2>1 DEF StartTask, Dead, TypeOK
<1>5. ASSUME NEW u \in KillIds, KillTask(u)
      PROVE  Dead(t)'
  BY <1>0, <1>5 DEF KillTask, Dead, TypeOK, queues
<1>6. ASSUME NEW u \in Tasks, TaskExit(u)
      PROVE  Dead(t)'
  BY <1>0, <1>6 DEF TaskExit, Dead, TypeOK, queues
<1>7. CASE RetireCurrent
  <2>1. /\ current \in PCBs /\ current # Kernel /\ state[current] = "TERMINATED"
        /\ current \notin Elements(toDelete)
        /\ toDelete' = Append(toDelete, current)
    BY <1>7, CurrentFacts DEF RetireCurrent, Called, KernelQueued
  <2>2. Elements(toDelete') = Elements(toDelete) \union {current}
    BY <1>0, <2>1, AppendFacts DEF TypeOK
  <2>3. CASE t = current \/ t \in Elements(toDelete)
    BY <2>2, <2>3 DEF Dead
  <2>4. CASE t # current /\ t \notin Elements(toDelete)
    <3>. DEFINE hq == RemoveFromQueue(high, "HIGH", current)
    <3>1. state[t] = "TERMINATED"
      BY <2>4 DEF Dead
    <3>2. current \in Tasks /\ priority[current] # "HIGH"
      BY <2>1 DEF PCBs, TasksAreLow
    <3>3. hq = high
      BY <3>2 DEF RemoveFromQueue
    <3>4. high # <<>> /\ Head(high) = Kernel
      <4>1. high # <<>>
        BY <1>0 DEF KernelQueued, Elements
      <4>2. Head(high) \in Elements(high) /\ Head(high) \in PCBs
        BY <1>0, <4>1, PopFacts DEF TypeOK
      <4>3. priority[Head(high)] = "HIGH"
        BY <4>2 DEF IInv, ListsDisjoint
      <4>. QED
        BY <4>1, <4>2, <4>3 DEF PCBs, TasksAreLow
    <3>5. state' = SwitchStates(state, Kernel)
      BY <1>7, <3>3, <3>4 DEF RetireCurrent, ContextSwitch
    <3>6. t # Kernel
      BY <1>0, <3>1 DEF KernelQueued
    <3>. QED
      BY <1>0, <2>4, <3>1, <3>5, <3>6 DEF SwitchStates, Dead, TypeOK
  <2>. QED
    BY <2>3, <2>4
<1>8. CASE SwitchToChosen \/ RetireChosen \/ KeepRunning
  <2>1. /\ Choosing /\ Called /\ state[current] # "TERMINATED"
        /\ current \in PCBs /\ current \notin Elements(toDelete)
    BY <1>8, CurrentFacts DEF SwitchToChosen, RetireChosen, KeepRunning, Choosing, Called
  <2>2. t # current
    BY <2>1 DEF Dead
  <2>3. Elements(ReapedList) \subseteq Elements(toDelete')
    <3>1. CASE RetireChosen
      <4>1. toDelete' = Append(ReapedList, Chosen)
        BY <3>1 DEF RetireChosen
      <4>2. ReapedList \in Seq(PCBs) /\ Chosen \in PCBs
        BY <2>1, ReapFacts, ChosenFacts
      <4>. QED
        BY <4>1, <4>2, AppendFacts
    <3>2. CASE SwitchToChosen \/ KeepRunning
      BY <3>2 DEF SwitchToChosen, KeepRunning
    <3>. QED
      BY <1>8, <3>1, <3>2
  <2>4. CASE t \in Elements(ReapedList)
    BY <2>3, <2>4 DEF Dead
  <2>5. CASE t \notin Elements(ReapedList)
    <3>1. ReapedState[t] \in {"FREE", "TERMINATED"}
      BY <2>5 DEF ReapedState, Reaped, ReapedList, Dead
    <3>2. CASE SwitchToChosen
      <4>1. /\ state' = SwitchStates(ReapedState, Chosen)
            /\ ReapedState[Chosen] = "RUNNABLE"
        BY <3>2 DEF SwitchToChosen, ContextSwitch, Dispatchable
      <4>2. state'[t] = ReapedState[t]
        BY <2>1, <2>2, <3>1, <4>1, ReapFacts DEF SwitchStates
      <4>. QED
        BY <3>1, <4>2 DEF Dead
    <3>3. CASE RetireChosen \/ KeepRunning
      BY <3>1, <3>3 DEF RetireChosen, KeepRunning, Dead
    <3>. QED
      BY <1>8, <3>2, <3>3
  <2>. QED
    BY <2>4, <2>5
<1>. QED
  BY <1>1, <1>2, <1>3, <1>4, <1>5, <1>6, <1>7, <1>8 DEF Next, RunNextTask

\* A process the shell started never runs again once it was killed or returned.
THEOREM DeadProcessesStayDead ==
    ASSUME Kernel \notin KillIds, Priorities = {"LOW"}
    PROVE  Spec => DeadStaysDead
<1>1. Init => KernelQueued /\ TasksAreLow
  BY DEF Init, KernelQueued, TasksAreLow, PCBs
<1>2. IInv /\ KernelQueued /\ TasksAreLow /\ [Next]_vars
        => KernelQueued' /\ TasksAreLow'
  BY KernelStays, LowStays
<1>3. IInv /\ KernelQueued /\ TasksAreLow /\ [Next]_vars
        => [\A t \in PCBs : Dead(t) => Dead(t)' \/ state'[t] = "FREE"]_vars
  BY DeadStep
<1>. QED
  BY <1>1, <1>2, <1>3, Invariance, PTL DEF Spec, DeadStaysDead

\* The processor is with a low task only right after a low turn.
LowJustRan == current # NoTask /\ priority[current] = "LOW" => last = "LOW"

\* With LOW processes only, the head of the high list is the kernel task.
LEMMA HighIsKernel ==
    ASSUME IInv, KernelQueued, TasksAreLow, Called
    PROVE  high # <<>> /\ Head(high) = Kernel
<1>1. Kernel \in Elements(high) /\ high \in Seq(PCBs)
  BY DEF KernelQueued, Called, IInv, TypeOK
<1>2. high # <<>>
  BY <1>1 DEF Elements
<1>3. Head(high) \in Elements(high) /\ Head(high) \in PCBs
  BY <1>1, <1>2, PopFacts
<1>4. priority[Head(high)] = "HIGH"
  BY <1>3 DEF IInv, ListsDisjoint
<1>. QED
  BY <1>2, <1>3, <1>4 DEF PCBs, TasksAreLow

\* A tick that leaves a low task hands the processor to the kernel task.
LEMMA LowStep ==
    ASSUME IInv, KernelQueued, TasksAreLow, LowJustRan, RunNextTask
    PROVE  /\ LowJustRan'
           /\ current # current' /\ priority[current] = "LOW" => current' = Kernel
<1>. USE PCBAssumption
<1>0. /\ Called /\ TypeOK /\ current # NoTask /\ current \in PCBs
      /\ high # <<>> /\ Head(high) = Kernel
      /\ priority[Kernel] = "HIGH" /\ state[Kernel] # "TERMINATED"
      /\ Kernel \in Elements(high)
      /\ priority' = priority
  <2>1. Called /\ priority' = priority
    BY DEF RunNextTask, RetireCurrent, SwitchToChosen, RetireChosen, KeepRunning, Choosing
  <2>. QED
    BY <2>1, CurrentFacts, HighIsKernel DEF Called, IInv, KernelQueued
<1>1. CASE RetireCurrent
  <2>1. current # Kernel /\ state[current] = "TERMINATED"
    BY <1>0, <1>1 DEF RetireCurrent
  <2>2. priority[current] # "HIGH"
    BY <1>0, <2>1 DEF PCBs, TasksAreLow
  <2>3. RemoveFromQueue(high, "HIGH", current) = high
    BY <2>2 DEF RemoveFromQueue
  <2>4. current' = Kernel
    BY <1>0, <1>1, <2>3 DEF RetireCurrent, ContextSwitch
  <2>. QED
    BY <1>0, <2>4 DEF LowJustRan
<1>2. CASE SwitchToChosen
  <2>1. current' = Chosen /\ last' = (IF LowTurn THEN "LOW" ELSE "HIGH")
    BY <1>2 DEF SwitchToChosen, ContextSwitch, TakeTurn
  <2>2. CASE LowTurn
    <3>1. last = "HIGH" /\ last' = "LOW"
      BY <2>1, <2>2 DEF LowTurn
    <3>. QED
      BY <1>0, <3>1 DEF LowJustRan
  <2>3. CASE ~LowTurn
    BY <1>0, <2>1, <2>3 DEF LowJustRan, Chosen
  <2>. QED
    BY <2>2, <2>3
<1>3. CASE RetireChosen \/ KeepRunning
  <2>1. /\ current' = current /\ last' = (IF LowTurn THEN "LOW" ELSE "HIGH")
        /\ ReapedState[Chosen] \in {"TERMINATED", "RUNNING"}
    BY <1>3 DEF RetireChosen, KeepRunning, TakeTurn
  <2>2. CASE LowTurn
    BY <2>1, <2>2 DEF LowJustRan
  <2>3. CASE ~LowTurn
    <3>1. Chosen = Kernel /\ ReapedState[Kernel] = state[Kernel]
      BY <1>0, <2>3, ReapFacts DEF Chosen
    <3>2. Kernel \in PCBs /\ state[Kernel] = "RUNNING"
      BY <1>0, <2>1, <3>1 DEF PCBs
    <3>3. current = Kernel
      BY <3>2 DEF IInv, OneRunning
    <3>. QED
      BY <1>0, <2>1, <3>3 DEF LowJustRan
  <2>. QED
    BY <2>2, <2>3
<1>. QED
  BY <1>1, <1>2, <1>3 DEF RunNextTask

\* Every step keeps the link between the history flag and the current task.
LEMMA LowJustRanStays ==
    ASSUME IInv, KernelQueued, TasksAreLow, LowJustRan, [Next]_vars
    PROVE  LowJustRan'
<1>. USE PCBAssumption
<1>0. TypeOK /\ Kernel \in PCBs
  BY DEF IInv, PCBs
<1>1. CASE InitMultitasking
  BY <1>0, <1>1 DEF InitMultitasking, TypeOK, LowJustRan
<1>2. ASSUME NEW t \in Tasks, NEW p \in Priorities, NewKernelTask(t, p)
      PROVE  current = Kernel /\ current' = current /\ priority'[Kernel] = priority[Kernel]
             /\ last' = last
  BY <1>0, <1>2 DEF NewKernelTask, Runs, TypeOK, turn
<1>3. CASE NewKernelTaskFails \/ NewTaskFails \/ StartTask \/ (\E t \in KillIds : KillTask(t))
           \/ (\E t \in Tasks : TaskExit(t)) \/ UNCHANGED vars
  BY <1>3 DEF NewKernelTaskFails, NewTaskFails, StartTask, KillTask, TaskExit, vars, turn, LowJustRan
<1>4. CASE RunNextTask
  <2>1. priority' = priority /\ current # NoTask
    BY <1>4 DEF RunNextTask, RetireCurrent, SwitchToChosen, RetireChosen, KeepRunning,
                Choosing, Called
  <2>. QED
    BY <1>4, <2>1, LowStep DEF KernelQueued
<1>. QED
  BY <1>1, <1>2, <1>3, <1>4 DEF Next, LowJustRan

(***************************************************************************)
(* The two-to-one schedule never gives the processor from one process of   *)
(* the shell to another: the kernel task has a turn between any two.       *)
(***************************************************************************)
THEOREM KernelBetweenLowTurns ==
    ASSUME Kernel \notin KillIds, Priorities = {"LOW"}
    PROVE  Spec => LowNeverTwice
<1>1. Init => KernelQueued /\ TasksAreLow /\ LowJustRan
  BY DEF Init, KernelQueued, TasksAreLow, LowJustRan, PCBs
<1>2. IInv /\ KernelQueued /\ TasksAreLow /\ LowJustRan /\ [Next]_vars
        => KernelQueued' /\ TasksAreLow' /\ LowJustRan'
  BY KernelStays, LowStays, LowJustRanStays
<1>3. IInv /\ KernelQueued /\ TasksAreLow /\ LowJustRan /\ [Next]_vars
        => [(current # current' /\ current # NoTask /\ priority[current] = "LOW")
               => priority[current'] = "HIGH"]_vars
  <2> SUFFICES ASSUME IInv, KernelQueued, TasksAreLow, LowJustRan, [Next]_vars,
                      current # current', current # NoTask, priority[current] = "LOW"
               PROVE  priority[current'] = "HIGH"
    OBVIOUS
  <2>1. CASE RunNextTask
    <3>1. current' = Kernel
      BY <2>1, LowStep
    <3>. QED
      BY <3>1 DEF KernelQueued
  <2>2. CASE ~RunNextTask
    BY <2>2 DEF Next, vars, InitMultitasking, NewKernelTask, NewKernelTaskFails, NewTaskFails,
                StartTask, KillTask, TaskExit
  <2>. QED
    BY <2>1, <2>2
<1>. QED
  BY <1>1, <1>2, <1>3, Invariance, PTL DEF Spec, LowNeverTwice
============================================================================
