------------------------------- MODULE Signal -------------------------------
(***************************************************************************)
(* The signals of Nuttx/nx/nuttx/sched/signal on top of the task lists of  *)
(* Kernel: kill from tasks, from handlers and from interrupts, the pending *)
(* and the queued signals, handlers that nest (sig_deliver, up_sigdeliver, *)
(* up_schedule_sigaction), sigprocmask, sigsuspend and sigtimedwait.       *)
(*                                                                         *)
(* A task's stack holds the calls it is in, the innermost one first.  Each *)
(* step of a call is what it does up to the next point where an interrupt  *)
(* can come between.  A queued action is known by the number of its send;  *)
(* structures are not reused, and the model stops when sig_deliver works   *)
(* on one that is already freed.                                           *)
(*                                                                         *)
(* One task per group (the configurations have no HAVE_GROUP_MEMBERS); the *)
(* handlers are installed beforehand and do not wait; the pools of pending *)
(* signals do not run out.  What a signal does to waits for semaphores and *)
(* message queues is in their modules.                                     *)
(***************************************************************************)
EXTENDS Kernel, FiniteSets

CONSTANTS
  Sig,       \* the signal numbers
  Handled,   \* those with a handler
  SaMask,    \* the sa_mask of each handler
  IsrSig,    \* those that interrupt handlers send
  SetArg,    \* the sets that are passed to the calls
  MaxSends,  \* bound on the number of signals sent
  BootList,  \* the tasks, in the order of g_readytorun
  BootPrio   \* their priorities

ASSUME SignalAssumption ==
  /\ Sig \subseteq Nat \ {0} /\ IsFiniteSet(Sig)
  /\ Handled \subseteq Sig /\ SaMask \in [Handled -> SUBSET Sig]
  /\ IsrSig \subseteq Sig /\ SetArg \subseteq SUBSET Sig /\ MaxSends \in Nat
  /\ BootList \in Seq(Task) \ {<<>>} /\ BootList[Len(BootList)] = IDLE
  /\ BootPrio \in [Task -> 0..SCHED_PRIORITY_MAX] /\ BootPrio[IDLE] = 0
  /\ \A t \in Task : InList(BootList, t) /\ (t # IDLE => BootPrio[t] \in Priority)
  /\ \A i, j \in 1..Len(BootList) :
       i < j => BootList[i] # BootList[j] /\ BootPrio[BootList[i]] >= BootPrio[BootList[j]]

VARIABLES
  z,        \* the kernel state k and the signal fields of the TCBs
  stack,    \* the calls each task is in
  sent,     \* the number of signals sent
  own,      \* history: the mask each task has set for itself
  corrupt   \* sig_deliver has taken an action that is already freed

vars == <<z, stack, sent, own, corrupt>>

NULL    == 0
Client  == Task \ {IDLE}
SendId  == 1..MaxSends
Action  == [id : SendId, sig : Sig]
Frame   ==
       [op : {"unlock"}]
  \cup [op : {"addpending", "schedule"}, to : Client, act : Action]
  \cup [op : {"deliver"}, next : SendId \union {NULL}, irqoff : BOOLEAN]
  \cup [op : {"handler", "posted"}, next : SendId \union {NULL}, irqoff : BOOLEAN,
        saved : SUBSET Sig]
  \cup [op : {"unmask"}, set : SUBSET Sig]
  \cup [op : {"suspend"}, saved : SUBSET Sig]
  \cup [op : {"timedwait"}, timed : BOOLEAN]

Self == this_task(z.k)

\* The calls of t that hold the scheduler lock.
Locks(t) == {i \in 1..Len(stack[t]) : stack[t][i].op \notin {"addpending", "schedule"}}

TypeOK ==
  /\ z.k \in KernelState
  /\ \A t \in Task : z.k.lock[t] = Cardinality(Locks(t))
  /\ z.mask \in [Task -> SUBSET Sig] /\ z.waitmask \in [Task -> SUBSET Sig]
  /\ z.pending \in [Task -> Seq(Action)] /\ z.actions \in [Task -> Seq(Action)]
  /\ z.sigdeliver \subseteq Task /\ z.waitdog \subseteq Task
  /\ stack \in [Task -> Seq(Frame)]
  /\ sent \in 0..MaxSends /\ own \in [Task -> SUBSET Sig]
  /\ corrupt \in BOOLEAN

Init ==
  /\ z = [ k |-> [os_start EXCEPT
                    !.list["READYTORUN"] = BootList,
                    !.prio = BootPrio, !.init = BootPrio,
                    !.state = [t \in Task |-> IF t = BootList[1] THEN "RUNNING"
                                              ELSE "READYTORUN"]],
           mask       |-> [t \in Task |-> {}],        \* sigprocmask
           waitmask   |-> [t \in Task |-> {}],        \* sigwaitmask
           pending    |-> [t \in Task |-> <<>>],      \* group->tg_sigpendingq
           actions    |-> [t \in Task |-> <<>>],      \* sigpendactionq
           sigdeliver |-> {},                         \* xcp.sigdeliver # NULL
           waitdog    |-> {} ]                        \* a running watchdog
  /\ stack = [t \in Task |-> <<>>]
  /\ sent = 0
  /\ own = [t \in Task |-> {}]
  /\ corrupt = FALSE
-----------------------------------------------------------------------------
sig_lowest(S) == CHOOSE s \in S : \A r \in S : s <= r

sig_pendingset(zz, t) == {zz.pending[t][i].sig : i \in 1..Len(zz.pending[t])}

\* The first entry of signal s.
FirstPending(zz, t, s) ==
  LET l == zz.pending[t]
      i == CHOOSE i \in 1..Len(l) : l[i].sig = s /\ \A j \in 1..(i - 1) : l[j].sig # s
  IN  l[i]

sig_removependingsignal(zz, t, s) ==
  [zz EXCEPT !.pending[t] = dq_rem(FirstPending(zz, t, s), @)]

\* A signal that is pending already gets the new siginfo.
Overwrite(zz, t, a) ==
  [zz EXCEPT !.pending[t] = [i \in 1..Len(@) |-> IF @[i] = FirstPending(zz, t, a.sig)
                                                  THEN a ELSE @[i]]]
AddPending(zz, t, a) == [zz EXCEPT !.pending[t] = Append(@, a)]

sig_queueaction(zz, t, a) ==
  IF a.sig \in Handled THEN [zz EXCEPT !.actions[t] = Append(@, a)] ELSE zz

\* The task waits no longer.
Wake(zz, t) == [zz EXCEPT !.waitmask[t] = {}, !.k = up_unblock_task(@, t)]
WakeIfWaiting(zz, t) == IF zz.k.state[t] = "WAIT_SIG" THEN Wake(zz, t) ELSE zz

\* Fault: a waiting task is only woken.
ScheduleUnlessWaiting(zz, t) ==
  IF zz.k.state[t] = "WAIT_SIG" THEN Wake(zz, t)
  ELSE [zz EXCEPT !.sigdeliver = @ \union {t}]

\* The critical section of sig_tcbdispatch for an unmasked signal, when the task is
\* not the caller: up_schedule_sigaction makes it run up_sigdeliver next.
ScheduleSigaction(zz, t) == WakeIfWaiting([zz EXCEPT !.sigdeliver = @ \union {t}], t)

Masked(zz, t, s) == s \in zz.mask[t]
WaitsFor(zz, t, s) == zz.k.state[t] = "WAIT_SIG" /\ s \in zz.waitmask[t]

\* sig_tcbdispatch in an interrupt handler.
IsrDispatch(zz, t, a) ==
  IF ~Masked(zz, t, a.sig) THEN ScheduleSigaction(sig_queueaction(zz, t, a), t)
  ELSE IF WaitsFor(zz, t, a.sig) THEN Wake(zz, t)
  ELSE IF a.sig \in sig_pendingset(zz, t) THEN Overwrite(zz, t, a)
  ELSE AddPending(zz, t, a)

\* sig_deliver starts with the head of the queue.
DeliverFrame(zz, t, irqoff) ==
  [op |-> "deliver", irqoff |-> irqoff,
   next |-> IF zz.actions[t] = <<>> THEN NULL ELSE zz.actions[t][1].id]

\* sig_unmaskpendingsignal starts with the signals that are pending and unmasked.
UnmaskFrame(zz, t) == [op |-> "unmask", set |-> sig_pendingset(zz, t) \ zz.mask[t]]

Locked(zz)   == [zz EXCEPT !.k = sched_lock(@)]
Unlocked(zz) == [zz EXCEPT !.k = sched_unlock(@)]
-----------------------------------------------------------------------------
Top == stack[Self][1]
At(o) == ~corrupt /\ Self \notin z.sigdeliver /\ stack[Self] # <<>> /\ Top.op = o

\* In the code of the program: outside all calls, or in a signal handler.
InUser == ~corrupt /\ Self \in Client \ z.sigdeliver /\ (stack[Self] # <<>> => Top.op = "handler")

\* Interrupts are off in a task resumed inside a wait, and in handlers that run there
\* or that the task has called itself.
IrqOff(f) == \/ f.op \in {"suspend", "timedwait"}
             \/ f.op \in {"deliver", "handler", "posted"} /\ f.irqoff
InterruptsEnabled == ~corrupt /\ \A i \in 1..Len(stack[Self]) : ~IrqOff(stack[Self][i])

Push(F) == stack' = [stack EXCEPT ![Self] = F \o @]
Replace(F) == stack' = [stack EXCEPT ![Self] = F \o Tail(@)]
Pop == Replace(<<>>)

\* sig_tcbdispatch in a task, up to where it can be interrupted: it goes on in a
\* frame above the caller's frames, below.  A signal that is not pending yet is added later, outside
\* the critical section that has looked for it.
Dispatch(zz, t, a, below) ==
  LET Then(F) == stack' = [stack EXCEPT ![Self] = F \o below]
  IN  \/ /\ ~Masked(zz, t, a.sig)
         /\ z' = sig_queueaction(zz, t, a)
         /\ Then(<<[op |-> "schedule", to |-> t, act |-> a]>>)
      \/ /\ Masked(zz, t, a.sig) /\ WaitsFor(zz, t, a.sig)
         /\ z' = Wake(zz, t)
         /\ Then(<<>>)
      \/ /\ Masked(zz, t, a.sig) /\ ~WaitsFor(zz, t, a.sig)
         /\ \/ /\ a.sig \in sig_pendingset(zz, t)
               /\ z' = Overwrite(zz, t, a)
               /\ Then(<<>>)
            \/ /\ a.sig \notin sig_pendingset(zz, t)
               /\ z' = zz
               /\ Then(<<[op |-> "addpending", to |-> t, act |-> a]>>)

\* Fault: kill does not lock the scheduler.
KillUnlocked(t, s) ==
  /\ InUser /\ sent < MaxSends
  /\ sent' = sent + 1
  /\ Dispatch(z, t, [id |-> sent + 1, sig |-> s], stack[Self])
  /\ UNCHANGED <<own, corrupt>>

Kill(t, s) ==
  /\ InUser /\ sent < MaxSends
  /\ sent' = sent + 1
  /\ Dispatch(Locked(z), t, [id |-> sent + 1, sig |-> s],
              <<[op |-> "unlock"]>> \o stack[Self])
  /\ UNCHANGED <<own, corrupt>>

\* A signal sent by an interrupt handler (a timer, a driver).
IsrKill(t, s) ==
  /\ InterruptsEnabled /\ sent < MaxSends
  /\ sent' = sent + 1
  /\ z' = IsrDispatch(z, t, [id |-> sent + 1, sig |-> s])
  /\ UNCHANGED <<stack, own, corrupt>>

\* The end of sig_addpendingsignal: nobody looks for the signal again.
SigAddPending ==
  /\ At("addpending")
  /\ z' = AddPending(z, Top.to, Top.act)
  /\ Pop
  /\ UNCHANGED <<sent, own, corrupt>>

\* The second critical section: the task's own handlers are called at once, with
\* interrupts off; another task runs them when it runs next.
Schedule ==
  /\ At("schedule")
  /\ IF Top.to = Self
     THEN z' = Locked(z) /\ Replace(<<DeliverFrame(z, Self, TRUE)>>)
     ELSE z' = ScheduleSigaction(z, Top.to) /\ Pop
  /\ UNCHANGED <<sent, own, corrupt>>

\* Fault: the scheduler stays locked.
ReturnLocked ==
  /\ At("unlock")
  /\ Pop
  /\ UNCHANGED <<z, sent, own, corrupt>>

\* kill and sigprocmask return.
Return ==
  /\ At("unlock")
  /\ z' = Unlocked(z)
  /\ Pop
  /\ UNCHANGED <<sent, own, corrupt>>
-----------------------------------------------------------------------------
\* The task was made to continue here: it clears the request and delivers, with
\* interrupts as they were.
up_sigdeliver ==
  /\ ~corrupt /\ Self \in z.sigdeliver
  /\ z' = [z EXCEPT !.sigdeliver = @ \ {Self}, !.k = sched_lock(@)]
  /\ Push(<<DeliverFrame(z, Self, FALSE)>>)
  /\ UNCHANGED <<sent, own, corrupt>>

\* The head of the loop of sig_deliver: it ends, or takes the action it has reached,
\* remembers the one behind it and calls the handler.
DeliverNext ==
  LET l == z.actions[Self]
      I == {i \in 1..Len(l) : l[i].id = Top.next}
      i == CHOOSE i \in I : TRUE
  IN  /\ At("deliver")
      /\ \/ /\ Top.next = NULL
            /\ z' = Unlocked(z) /\ Pop /\ UNCHANGED corrupt
         \/ /\ I # {}
            /\ z' = [z EXCEPT !.actions[Self] = dq_rem(l[i], @),
                              !.mask[Self] = @ \union SaMask[l[i].sig] \union {l[i].sig}]
            /\ Replace(<<[op |-> "handler", irqoff |-> Top.irqoff, saved |-> z.mask[Self],
                          next |-> IF i < Len(l) THEN l[i + 1].id ELSE NULL]>>)
            /\ UNCHANGED corrupt
         \/ /\ Top.next # NULL /\ I = {}
            /\ corrupt' = TRUE /\ UNCHANGED <<z, stack>>
      /\ UNCHANGED <<sent, own>>

\* The handler returns: the mask is restored, and the signals that this unmasks are
\* dispatched.
HandlerReturn ==
  LET y == [z EXCEPT !.mask[Self] = Top.saved]
  IN  /\ At("handler")
      /\ z' = Locked(y)
      /\ Replace(<<UnmaskFrame(y, Self), [Top EXCEPT !.op = "posted"]>>)
      /\ UNCHANGED <<sent, own, corrupt>>

\* The action is freed; the loop goes on with the one remembered.
DeliverFree ==
  /\ At("posted")
  /\ Replace(<<[op |-> "deliver", next |-> Top.next, irqoff |-> Top.irqoff]>>)
  /\ UNCHANGED <<z, sent, own, corrupt>>

\* One round of the loop of sig_unmaskpendingsignal.
UnmaskNext ==
  LET s    == sig_lowest(Top.set)
      rest == [Top EXCEPT !.set = @ \ {s}]
  IN  /\ At("unmask")
      /\ \/ Top.set = {} /\ z' = Unlocked(z) /\ Pop
         \/ /\ Top.set # {} /\ s \notin sig_pendingset(z, Self)
            /\ Replace(<<rest>>) /\ UNCHANGED z
         \/ /\ Top.set # {} /\ s \in sig_pendingset(z, Self)
            /\ Dispatch(sig_removependingsignal(z, Self, s), Self,
                        FirstPending(z, Self, s), <<rest>> \o Tail(stack[Self]))
      /\ UNCHANGED <<sent, own, corrupt>>
-----------------------------------------------------------------------------
\* sigprocmask: the new mask, then the signals it unmasks.
SigProcMask(S) ==
  LET y == [z EXCEPT !.mask[Self] = S]
  IN  /\ InUser
      /\ z' = Locked(Locked(y))
      /\ Push(<<UnmaskFrame(y, Self), [op |-> "unlock"]>>)
      /\ own' = IF stack[Self] = <<>> THEN [own EXCEPT ![Self] = S] ELSE own
      /\ UNCHANGED <<sent, corrupt>>

\* sigsuspend: a pending signal that S unmasks is discarded and the call returns;
\* otherwise the task waits with mask S.
SigSuspend(S) ==
  LET P == sig_pendingset(z, Self) \ S
  IN  /\ InUser /\ stack[Self] = <<>>
      /\ \/ /\ P # {}
            /\ z' = sig_removependingsignal(z, Self, sig_lowest(P))
            /\ UNCHANGED stack
         \/ /\ P = {}
            /\ z' = [Locked(z) EXCEPT !.mask[Self] = S, !.waitmask[Self] = {},
                                      !.k = up_block_task(@, Self, "WAIT_SIG")]
            /\ Push(<<[op |-> "suspend", saved |-> z.mask[Self]]>>)
      /\ UNCHANGED <<sent, own, corrupt>>

\* Fault: the mask of the wait is kept.
SuspendKeepsMask ==
  /\ At("suspend")
  /\ z' = Locked(z)
  /\ Replace(<<UnmaskFrame(z, Self), [op |-> "unlock"]>>)
  /\ UNCHANGED <<sent, own, corrupt>>

\* The suspended task runs again, after the handlers.
SuspendResumed ==
  LET y == [z EXCEPT !.mask[Self] = Top.saved]
  IN  /\ At("suspend")
      /\ z' = Locked(y)
      /\ Replace(<<UnmaskFrame(y, Self), [op |-> "unlock"]>>)
      /\ UNCHANGED <<sent, own, corrupt>>

\* sigtimedwait, sigwaitinfo and pause: a pending signal of S is accepted, or the
\* task waits.
SigTimedWait(S, timed) ==
  LET P == sig_pendingset(z, Self) \intersect S
  IN  /\ InUser /\ stack[Self] = <<>>
      /\ \/ /\ P # {}
            /\ z' = sig_removependingsignal(z, Self, sig_lowest(P))
            /\ UNCHANGED stack
         \/ /\ P = {}
            /\ z' = [Locked(z) EXCEPT !.waitmask[Self] = S,
                                      !.waitdog = IF timed THEN @ \union {Self} ELSE @,
                                      !.k = up_block_task(@, Self, "WAIT_SIG")]
            /\ Push(<<[op |-> "timedwait", timed |-> timed]>>)
      /\ UNCHANGED <<sent, own, corrupt>>

TimedWaitResumed ==
  /\ At("timedwait")
  /\ z' = Unlocked([z EXCEPT !.waitmask[Self] = {}, !.waitdog = @ \ {Self}])
  /\ Pop
  /\ UNCHANGED <<sent, own, corrupt>>

\* The watchdog of t expires; it leaves sigwaitmask as it is.
SigTimeout(t) ==
  /\ InterruptsEnabled /\ t \in z.waitdog
  /\ z' = LET y == [z EXCEPT !.waitdog = @ \ {t}]
          IN  IF z.k.state[t] = "WAIT_SIG" THEN [y EXCEPT !.k = up_unblock_task(@, t)] ELSE y
  /\ UNCHANGED <<stack, sent, own, corrupt>>
-----------------------------------------------------------------------------
AppCall ==
  \/ \E t \in Client, s \in Sig : Kill(t, s)
  \/ \E S \in SetArg : SigProcMask(S) \/ SigSuspend(S)
  \/ \E S \in SetArg, timed \in BOOLEAN : SigTimedWait(S, timed)

Step ==
  \/ SigAddPending \/ Schedule \/ Return
  \/ up_sigdeliver \/ DeliverNext \/ HandlerReturn \/ DeliverFree \/ UnmaskNext
  \/ SuspendResumed \/ TimedWaitResumed

Interrupt ==
  \/ \E t \in Client, s \in IsrSig : IsrKill(t, s)
  \/ \E t \in Client : SigTimeout(t)

Next == AppCall \/ Step \/ Interrupt

Spec == Init /\ [][Next]_vars
-----------------------------------------------------------------------------
\* No signal is forgotten in the list of pending ones: a waiting task has no pending
\* signal that it waits for, and a task that waits or runs its program has none that
\* it does not mask and has a handler for, however the steps of sends, handlers, the
\* watchdog and interrupts fall.  (Not so without a handler: what comes between the
\* search and the insertion of sig_addpendingsignal can leave two entries of one
\* signal, sig_unmaskpendingsignal removes one, and only the return of a handler makes
\* it look for the other.)
NoSignalMissed ==
  ~corrupt =>
    \A t \in Client :
      /\ z.k.state[t] = "WAIT_SIG" => sig_pendingset(z, t) \intersect z.waitmask[t] = {}
      /\ z.k.state[t] = "WAIT_SIG" \/ stack[t] = <<>> =>
           sig_pendingset(z, t) \intersect Handled \subseteq z.mask[t]

\* A queued action is always on its way to its handler: the task is to continue in
\* up_sigdeliver, or its sender is about to see to that, or a sig_deliver of the task
\* still has it before it.
ActionsWillBeDelivered ==
  ~corrupt =>
    \A t \in Client : \A n \in 1..Len(z.actions[t]) :
      \/ t \in z.sigdeliver
      \/ \E u \in Client : \E i \in 1..Len(stack[u]) :
           stack[u][i].op = "schedule" /\ stack[u][i].to = t
      \/ \E i \in 1..Len(stack[t]), m \in 1..n :
           /\ stack[t][i].op \in {"deliver", "handler", "posted"}
           /\ stack[t][i].next = z.actions[t][m].id

\* Handlers and waits leave the mask as the program has set it, also when handlers
\* nest, run inside sigsuspend or change the mask themselves.
MaskRestored ==
  \A t \in Client :
    stack[t] = <<>> => z.mask[t] = own[t] /\ z.waitmask[t] = {} /\ t \notin z.waitdog

\* The action that sig_deliver moves from sigpendactionq to sigpostedq is in
\* sigpendactionq.
TakesQueuedAction == ~corrupt
=============================================================================
