------------------------------- MODULE Mqueue -------------------------------
(***************************************************************************)
(* The POSIX message queues of Nuttx/nx/nuttx/sched/mqueue on top of the   *)
(* task lists of Kernel: mq_send and mq_receive with and without timeout,  *)
(* sends from interrupt handlers, the pools of messages, and the aborts of *)
(* a wait by a signal, a watchdog or a restart of the task.                *)
(*                                                                         *)
(* A call holds the scheduler lock from its first test to its return and   *)
(* gives it up only by waiting; it is a sequence of critical sections, and *)
(* interrupts come between them.  nmsgs is the length of the list: both    *)
(* are changed in one critical section.  A failed ASSERT stops the system. *)
(*                                                                         *)
(* Calls that fail before they have changed anything (EINVAL, EPERM,       *)
(* EMSGSIZE, EAGAIN under O_NONBLOCK) are no steps.  The heap is taken to  *)
(* answer without blocking the caller.  mq_notify is left out.             *)
(***************************************************************************)
EXTENDS Kernel, FiniteSets

CONSTANTS
  Queue,       \* the message queues
  MaxMsgs,     \* msgq->maxmsgs
  MsgPrio,     \* the priorities of messages
  NumFixed,    \* CONFIG_PREALLOC_MQ_MSGS: messages of g_msgfree at boot
  NumIrq,      \* NUM_INTERRUPT_MSGS: messages of g_msgfreeirq at boot
  BootList,    \* the tasks, in the order of g_readytorun
  BootPrio,    \* their priorities
  Manager,     \* the tasks that restart others
  Calls,       \* the calls the tasks and interrupts of the instance make
  NULL

ASSUME MqueueAssumption ==
  /\ IsFiniteSet(Task) /\ IsFiniteSet(Queue) /\ NULL \notin Queue \union {"FIXED", "IRQ", "DYN"}
  /\ MaxMsgs \in Nat \ {0} /\ MsgPrio \subseteq Nat
  /\ NumFixed \in Nat /\ NumIrq \in Nat
  /\ BootList \in Seq(Task) \ {<<>>} /\ BootList[Len(BootList)] = IDLE
  /\ BootPrio \in [Task -> 0..SCHED_PRIORITY_MAX] /\ BootPrio[IDLE] = 0
  /\ \A t \in Task : InList(BootList, t) /\ (t # IDLE => BootPrio[t] \in Priority)
  /\ \A i, j \in 1..Len(BootList) :
       i < j => BootList[i] # BootList[j] /\ BootPrio[BootList[i]] >= BootPrio[BootList[j]]

VARIABLES
  z,        \* the kernel state k, the queues, their waiters and the free messages
  pc,       \* where each task is inside a call
  waitdog,  \* the tasks whose watchdog is running
  panic     \* an ASSERT has failed

vars == <<z, pc, waitdog, panic>>

NOTEMPTY == "WAIT_MQNOTEMPTY"
NOTFULL  == "WAIT_MQNOTFULL"
Reason   == {NOTEMPTY, NOTFULL}

MsgType == {"FIXED", "IRQ", "DYN"}
Message == [prio : MsgPrio, type : MsgType, task : BOOLEAN]
Errno   == {"OK", "EINTR", "ETIMEDOUT"}
Label   == {"user", "alloc", "timedcheck", "sendwait", "dosend", "wakereceiver",
            "recvwait", "msgfree", "wakesender"}

\* held: the type of the message the call holds, NULL if it holds none.
User == [at |-> "user", q |-> NULL, prio |-> 0, timed |-> FALSE, held |-> NULL]

Self == this_task(z.k)
Full(zz, q) == Len(zz.msgs[q]) >= MaxMsgs

TypeOK ==
  /\ z.k \in KernelState
  /\ z.msgs \in [Queue -> Seq(Message)]
  /\ z.nwait \in [Reason -> [Queue -> 0..Cardinality(Task)]]
  /\ z.msgwaitq \in [Task -> Queue \union {NULL}]
  /\ z.errno \in [Task -> Errno]
  /\ z.free \in [{"FIXED", "IRQ"} -> 0..(NumFixed + NumIrq)]
  /\ pc \in [Task -> [at : Label, q : Queue \union {NULL}, prio : MsgPrio \union {0},
                      timed : BOOLEAN, held : MsgType \union {NULL}]]
  /\ waitdog \subseteq Task /\ panic \in BOOLEAN

Init ==
  /\ z = [ k |-> [os_start EXCEPT
                    !.list["READYTORUN"] = BootList,
                    !.prio = BootPrio, !.init = BootPrio,
                    !.state = [t \in Task |-> IF t = BootList[1] THEN "RUNNING"
                                              ELSE "READYTORUN"]],
           msgs     |-> [q \in Queue |-> <<>>],
           nwait    |-> [s \in Reason |-> [q \in Queue |-> 0]],
           msgwaitq |-> [t \in Task |-> NULL],
           errno    |-> [t \in Task |-> "OK"],
           free     |-> [y \in {"FIXED", "IRQ"} |-> IF y = "FIXED" THEN NumFixed ELSE NumIrq] ]
  /\ pc = [t \in Task |-> User]
  /\ waitdog = {}
  /\ panic = FALSE
-----------------------------------------------------------------------------
\* mq_waitsend and mq_waitreceive: the caller blocks.
WaitOn(zz, t, q, s) ==
  [zz EXCEPT !.msgwaitq[t] = q, !.nwait[s][q] = @ + 1, !.errno[t] = "OK",
             !.k = up_block_task(@, t, s)]

\* The first task of the waiting list s that waits for q.
Waiters(zz, q, s) == {t \in Task : zz.k.state[t] = s /\ zz.msgwaitq[t] = q}
FirstWaiter(zz, q, s) ==
  LET l == zz.k.list[s]
      i == CHOOSE i \in 1..Len(l) : /\ zz.msgwaitq[l[i]] = q
                                    /\ \A j \in 1..(i - 1) : zz.msgwaitq[l[j]] # q
  IN  l[i]

WakeFirst(zz, q, s) ==
  LET t == FirstWaiter(zz, q, s)
  IN  [zz EXCEPT !.msgwaitq[t] = NULL, !.nwait[s][q] = @ - 1, !.k = up_unblock_task(@, t)]

\* A wait ends without its condition: the caller's errno says why.
mq_waitirq(zz, t, e) ==
  IF zz.k.state[t] \notin Reason THEN zz
  ELSE [zz EXCEPT !.nwait[zz.k.state[t]][zz.msgwaitq[t]] = @ - 1, !.msgwaitq[t] = NULL,
                  !.errno[t] = e, !.k = up_unblock_task(@, t)]

\* Fault: the wait of a restarted task is still counted.
RecoverKeepsCount(zz, t) == IF zz.k.state[t] \notin Reason THEN zz ELSE [zz EXCEPT !.msgwaitq[t] = NULL]

\* The wait of a restarted task is given up.  (msgwaitq is left as it was; the
\* task sets it before it waits again.)
mq_recover(zz, t) ==
  IF zz.k.state[t] \notin Reason THEN zz
  ELSE [zz EXCEPT !.nwait[zz.k.state[t]][zz.msgwaitq[t]] = @ - 1, !.msgwaitq[t] = NULL]

\* Fault: a message of higher priority goes behind one of lower priority.
MsgPosLast(l, p) == Len(l) + 1

\* Where a message goes: behind all messages of its own or a higher priority.
MsgPos(l, p) ==
  CHOOSE i \in 1..(Len(l) + 1) :
    /\ \A n \in 1..(i - 1) : p <= l[n].prio
    /\ i <= Len(l) => l[i].prio < p

\* The first critical section of mq_dosend.
Enqueue(zz, q, m) ==
  [zz EXCEPT !.msgs[q] = InsertAtPos(@, MsgPos(@, m.prio), m)]

\* Fault: a receiver is woken only if the queue was empty.
NotifyIfEmpty(zz, q) ==
  IF zz.nwait[NOTEMPTY][q] > 0 /\ Len(zz.msgs[q]) = 1 THEN WakeFirst(zz, q, NOTEMPTY) ELSE zz

\* Its second one: a task that waits for a message is woken.
WakeReceiver(zz, q) ==
  IF zz.nwait[NOTEMPTY][q] > 0 THEN WakeFirst(zz, q, NOTEMPTY) ELSE zz

\* mq_msgalloc, from a task: the pool, then the heap.
mq_msgalloc(zz) == IF zz.free["FIXED"] > 0 THEN {"FIXED"} ELSE {"DYN"}
Taken(zz, y) == IF y = "DYN" THEN zz ELSE [zz EXCEPT !.free[y] = @ - 1]

\* Fault: the structure is freed twice.
MsgFreedTwice(zz, y) == IF y = "DYN" THEN zz ELSE [zz EXCEPT !.free[y] = @ + 2]

mq_msgfree(zz, y) == IF y = "DYN" THEN zz ELSE [zz EXCEPT !.free[y] = @ + 1]
-----------------------------------------------------------------------------
InUser == ~panic /\ pc[Self].at = "user" /\ Self # IDLE
At(l) == ~panic /\ pc[Self].at = l

\* A task resumed inside a wait has not yet left its critical section.
InterruptsEnabled == ~panic /\ pc[Self].at \notin {"sendwait", "recvwait"}

Goto(l) == pc' = [pc EXCEPT ![Self].at = l]

\* The call returns; its caller has read errno.
Return(zz) ==
  /\ z' = [zz EXCEPT !.k = sched_unlock(@), !.errno[Self] = "OK"]
  /\ pc' = [pc EXCEPT ![Self] = User]

\* Fault: the queue is tested before the scheduler is locked.
SendUnlocked(q, p) ==
  /\ InUser /\ ~Full(z, q)
  /\ pc' = [pc EXCEPT ![Self] = [User EXCEPT !.at = "alloc", !.q = q, !.prio = p]]
  /\ UNCHANGED <<z, waitdog, panic>>

\* mq_send: the test for room, and the wait.
MqSend(q, p) ==
  LET y == [z EXCEPT !.k = sched_lock(@)]
      c == [User EXCEPT !.q = q, !.prio = p]
  IN  /\ InUser
      /\ IF Full(z, q)
         THEN /\ z' = WaitOn(y, Self, q, NOTFULL)
              /\ pc' = [pc EXCEPT ![Self] = [c EXCEPT !.at = "sendwait"]]
         ELSE /\ z' = y
              /\ pc' = [pc EXCEPT ![Self] = [c EXCEPT !.at = "alloc"]]
      /\ UNCHANGED <<waitdog, panic>>

\* mq_send has room and takes a message, or fails with ENOMEM.
SendAlloc ==
  /\ At("alloc")
  /\ \/ \E y \in mq_msgalloc(z) :
          /\ z' = Taken(z, y)
          /\ pc' = [pc EXCEPT ![Self].at = "dosend", ![Self].held = y]
     \/ /\ "ENOMEM" \in Calls /\ mq_msgalloc(z) = {"DYN"}
        /\ Return(z)
  /\ UNCHANGED <<waitdog, panic>>

\* mq_timedsend takes the message first, before it locks the scheduler.
MqTimedSend(q, p) ==
  /\ InUser
  /\ \E y \in mq_msgalloc(z) :
       /\ z' = Taken(z, y)
       /\ pc' = [pc EXCEPT ![Self] = [at |-> "timedcheck", q |-> q, prio |-> p,
                                      timed |-> TRUE, held |-> y]]
  /\ UNCHANGED <<waitdog, panic>>

\* There is room, or the watchdog is started and the task waits, or the call fails
\* (the time is over, no watchdog, O_NONBLOCK) and gives the message back.
TimedSendCheck ==
  LET q == pc[Self].q
      y == [z EXCEPT !.k = sched_lock(@)]
  IN  /\ At("timedcheck")
      /\ \/ ~Full(z, q) /\ z' = y /\ Goto("dosend") /\ UNCHANGED waitdog
         \/ Full(z, q) /\ Return(mq_msgfree(y, pc[Self].held)) /\ UNCHANGED waitdog
         \/ /\ Full(z, q) /\ z' = WaitOn(y, Self, q, NOTFULL) /\ Goto("sendwait")
            /\ waitdog' = waitdog \union {Self}
      /\ UNCHANGED panic

\* Fault: a send whose wait failed keeps its message.
SendResumedLeaks ==
  LET c == pc[Self]
  IN  /\ At("sendwait")
      /\ \/ /\ z.errno[Self] # "OK"
            /\ Return(z)
            /\ waitdog' = waitdog \ {Self}
         \/ /\ z.errno[Self] = "OK" /\ Full(z, c.q)
            /\ z' = WaitOn(z, Self, c.q, NOTFULL)
            /\ UNCHANGED <<pc, waitdog>>
         \/ /\ z.errno[Self] = "OK" /\ ~Full(z, c.q)
            /\ Goto(IF c.timed THEN "dosend" ELSE "alloc")
            /\ waitdog' = waitdog \ {Self}
            /\ UNCHANGED z
      /\ UNCHANGED panic

\* The waiting sender runs again: its wait has failed, or the queue has been filled
\* again and it waits on (the watchdog is not started again), or there is room.
SendResumed ==
  LET c == pc[Self]
  IN  /\ At("sendwait")
      /\ \/ /\ z.errno[Self] # "OK"
            /\ Return(IF c.timed THEN mq_msgfree(z, c.held) ELSE z)
            /\ waitdog' = waitdog \ {Self}
         \/ /\ z.errno[Self] = "OK" /\ Full(z, c.q)
            /\ z' = WaitOn(z, Self, c.q, NOTFULL)
            /\ UNCHANGED <<pc, waitdog>>
         \/ /\ z.errno[Self] = "OK" /\ ~Full(z, c.q)
            /\ Goto(IF c.timed THEN "dosend" ELSE "alloc")
            /\ waitdog' = waitdog \ {Self}
            /\ UNCHANGED z
      /\ UNCHANGED panic

SendEnqueue ==
  LET c == pc[Self]
  IN  /\ At("dosend")
      /\ z' = Enqueue(z, c.q, [prio |-> c.prio, type |-> c.held, task |-> TRUE])
      /\ pc' = [pc EXCEPT ![Self].at = "wakereceiver", ![Self].held = NULL]
      /\ UNCHANGED <<waitdog, panic>>

SendWake ==
  /\ At("wakereceiver")
  /\ Return(WakeReceiver(z, pc[Self].q))
  /\ UNCHANGED <<waitdog, panic>>

\* mq_send from an interrupt handler: maxmsgs is no limit, only the pools are.
IsrSend(q, p) ==
  /\ InterruptsEnabled
  /\ \E y \in {"FIXED", "IRQ"} :
       /\ z.free[y] > 0 /\ (y = "IRQ" => z.free["FIXED"] = 0)
       /\ z' = WakeReceiver(Enqueue(Taken(z, y), q, [prio |-> p, type |-> y, task |-> FALSE]), q)
  /\ UNCHANGED <<pc, waitdog, panic>>
-----------------------------------------------------------------------------
\* The receiver takes the first message.
TakeFirst(zz, q) ==
  /\ z' = [zz EXCEPT !.msgs[q] = Tail(@)]
  /\ pc' = [pc EXCEPT ![Self] = [User EXCEPT !.at = "msgfree", !.q = q,
                                             !.held = Head(zz.msgs[q]).type]]

\* mq_receive and mq_timedreceive: take a message or wait for one.
MqReceive(q, timed) ==
  LET y == [z EXCEPT !.k = sched_lock(@)]
  IN  /\ InUser
      /\ IF z.msgs[q] # <<>>
         THEN TakeFirst(y, q) /\ UNCHANGED waitdog
         ELSE /\ z' = WaitOn(y, Self, q, NOTEMPTY)
              /\ pc' = [pc EXCEPT ![Self] = [User EXCEPT !.at = "recvwait", !.q = q,
                                                         !.timed = timed]]
              /\ waitdog' = IF timed THEN waitdog \union {Self} ELSE waitdog
      /\ UNCHANGED panic

\* The waiting receiver runs again: its wait has failed, or it takes a message, or
\* another receiver has been faster and it waits on (again without starting the
\* watchdog).
ReceiveResumed ==
  LET q == pc[Self].q
  IN  /\ At("recvwait")
      /\ \/ z.errno[Self] # "OK" /\ Return(z) /\ waitdog' = waitdog \ {Self}
         \/ /\ z.errno[Self] = "OK" /\ z.msgs[q] # <<>>
            /\ TakeFirst(z, q)
            /\ waitdog' = waitdog \ {Self}
         \/ /\ z.errno[Self] = "OK" /\ z.msgs[q] = <<>>
            /\ z' = WaitOn(z, Self, q, NOTEMPTY)
            /\ UNCHANGED <<pc, waitdog>>
      /\ UNCHANGED panic

\* Fault: a waiting sender is not looked for.
ReceiveNoWake ==
  /\ At("msgfree")
  /\ Return(mq_msgfree(z, pc[Self].held))
  /\ UNCHANGED <<waitdog, panic>>

\* mq_doreceive: the message is freed, and nwaitnotfull read outside the critical
\* section ...
ReceiveFree ==
  LET y == mq_msgfree(z, pc[Self].held)
  IN  /\ At("msgfree")
      /\ IF z.nwait[NOTFULL][pc[Self].q] > 0
         THEN z' = y /\ pc' = [pc EXCEPT ![Self].at = "wakesender", ![Self].held = NULL]
         ELSE Return(y)
      /\ UNCHANGED <<waitdog, panic>>

\* ... in which the first waiting sender is searched, ASSERT(btcb), and woken.
ReceiveWake ==
  LET q == pc[Self].q
  IN  /\ At("wakesender")
      /\ IF Waiters(z, q, NOTFULL) # {}
         THEN Return(WakeFirst(z, q, NOTFULL)) /\ UNCHANGED panic
         ELSE panic' = TRUE /\ UNCHANGED <<z, pc>>
      /\ UNCHANGED waitdog
-----------------------------------------------------------------------------
\* The watchdog of t expires: mq_sndtimeout, mq_rcvtimeout.
MqTimeout(t) ==
  /\ InterruptsEnabled /\ t \in waitdog
  /\ waitdog' = waitdog \ {t}
  /\ z' = mq_waitirq(z, t, "ETIMEDOUT")
  /\ UNCHANGED <<pc, panic>>

\* A signal for a waiting task, from an interrupt handler: the end of
\* sig_tcbdispatch.
Signal(t) ==
  /\ InterruptsEnabled /\ z.k.state[t] \in Reason
  /\ z' = mq_waitirq(z, t, "EINTR")
  /\ UNCHANGED <<pc, waitdog, panic>>

\* task_restart of a task that waits and holds no message.
TaskRestart(t) ==
  /\ InUser /\ Self \in Manager
  /\ z.k.state[t] \in Reason /\ pc[t].held = NULL
  /\ z' = LET y == mq_recover(z, t)
          IN  [y EXCEPT !.k = up_unblock_task(Restarted(@, t), t)]
  /\ waitdog' = waitdog \ {t}
  /\ pc' = [pc EXCEPT ![t] = User]
  /\ UNCHANGED panic

AppCall ==
  \/ \E q \in Queue, p \in MsgPrio : "mq_send" \in Calls /\ MqSend(q, p)
  \/ \E q \in Queue, p \in MsgPrio : "mq_timedsend" \in Calls /\ MqTimedSend(q, p)
  \/ \E q \in Queue : MqReceive(q, FALSE)
  \/ \E q \in Queue : "mq_timedreceive" \in Calls /\ MqReceive(q, TRUE)
  \/ \E t \in Task : "task_restart" \in Calls /\ TaskRestart(t)

Step ==
  \/ SendAlloc \/ TimedSendCheck \/ SendResumed \/ SendEnqueue \/ SendWake
  \/ ReceiveResumed \/ ReceiveFree \/ ReceiveWake

Interrupt ==
  \/ \E q \in Queue, p \in MsgPrio : "isr" \in Calls /\ IsrSend(q, p)
  \/ \E t \in Task : MqTimeout(t)
  \/ \E t \in Task : "signal" \in Calls /\ Signal(t)

Next == AppCall \/ Step \/ Interrupt

Spec == Init /\ [][Next]_vars
-----------------------------------------------------------------------------
\* nwaitnotempty and nwaitnotfull count the tasks that wait, whichever of a wake-up,
\* a signal, a watchdog and a restart ends a wait: mq_dosend searches for a waiter,
\* and asserts that there is one, on that account.
CountsMatchWaiters ==
  \A q \in Queue, s \in Reason : z.nwait[s][q] = Cardinality(Waiters(z, q, s))

\* The tasks that were woken for queue q and have not run yet.
Woken(q, l) == {t \in Task : /\ pc[t].at = l /\ pc[t].q = q
                             /\ z.k.state[t] \notin Reason /\ z.errno[t] = "OK"}
InCall(q, L) == {t \in Task : pc[t].at \in L /\ pc[t].q = q}

\* No receiver sleeps beside a message: each message in the queue of a waiting
\* receiver is about to be taken by another one that has been woken, or its sender
\* is about to wake one.
ReceiversNotForgotten ==
  \A q \in Queue :
    Waiters(z, q, NOTEMPTY) # {} =>
      Len(z.msgs[q]) <= Cardinality(Woken(q, "recvwait")) + Cardinality(InCall(q, {"wakereceiver"}))

\* No sender sleeps beside a free place, likewise.
SendersNotForgotten ==
  \A q \in Queue :
    Waiters(z, q, NOTFULL) # {} =>
      MaxMsgs - Len(z.msgs[q]) <= Cardinality(Woken(q, "sendwait"))
                                  + Cardinality(InCall(q, {"alloc", "dosend", "msgfree", "wakesender"}))

\* Tasks never put more than maxmsgs messages into a queue, although the test for
\* room and the insertion are two critical sections: only interrupt handlers do.
TasksRespectMaxMsgs ==
  \A q \in Queue : Cardinality({i \in 1..Len(z.msgs[q]) : z.msgs[q][i].task}) <= MaxMsgs

\* A receiver gets a message of the highest priority there is.
ReceiveTakesMostUrgent ==
  [][\A q \in Queue :
       Len(z'.msgs[q]) < Len(z.msgs[q]) =>
         \A i \in 1..Len(z.msgs[q]) : z.msgs[q][i].prio <= z.msgs[q][1].prio]_vars

\* No message structure of the pools is lost or freed twice: it is free, in a queue,
\* or held by a call.
Queued(y) ==
  UNION {{q} \X {i \in 1..Len(z.msgs[q]) : z.msgs[q][i].type = y} : q \in Queue}
Pooled(y) == z.free[y] + Cardinality({t \in Task : pc[t].held = y}) + Cardinality(Queued(y))
MessagesConserved == Pooled("FIXED") = NumFixed /\ Pooled("IRQ") = NumIrq

\* A call with a timeout waits only while its watchdog runs.
TimedWaitHasWatchdog ==
  \A t \in Task : z.k.state[t] \in Reason /\ pc[t].timed => t \in waitdog
=============================================================================
