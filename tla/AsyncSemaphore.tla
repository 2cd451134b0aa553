--------------------------- MODULE AsyncSemaphore ---------------------------
(***************************************************************************)
(* asyncio.Semaphore, the library object with which the workflow engine,   *)
(* the planner's executor and the scheduler bound their concurrency.  The  *)
(* module is stateless: a semaphore is the record                          *)
(*                                                                         *)
(*   free     slots nobody owns                                            *)
(*   queue    tasks suspended in acquire(), oldest first                   *)
(*   granted  tasks that were handed a slot and have not yet resumed       *)
(*   held     tasks between the return of acquire() and their release()    *)
(*                                                                         *)
(* and every operator returns the semaphore after one library call.  A     *)
(* slot is handed over inside release(), before the waiter runs again, and *)
(* a granted waiter keeps newcomers out until it does.                     *)
(***************************************************************************)
EXTENDS Naturals, Sequences, FiniteSets

NewSemaphore(limit) ==
  [free |-> limit, queue |-> << >>, granted |-> {}, held |-> {}]

Locked(s) == s.free = 0 \/ s.queue # << >> \/ s.granted # {}

WakeNext(s) ==
  IF s.queue = << >> THEN s
  ELSE [s EXCEPT !.free    = @ - 1,
                 !.queue   = Tail(@),
                 !.granted = @ \cup {Head(s.queue)}]

\* acquire() on a semaphore that is not locked.
TakeSlot(s, t) == [s EXCEPT !.free = @ - 1, !.held = @ \cup {t}]

\* acquire() on a locked semaphore.
JoinQueue(s, t) == [s EXCEPT !.queue = Append(@, t)]

\* The rest of acquire() when a granted waiter runs again.
ResumeWaiter(s, t) ==
  LET r == [s EXCEPT !.granted = @ \ {t}, !.held = @ \cup {t}]
  IN  IF r.free > 0 THEN WakeNext(r) ELSE r

ReleaseSlot(s, t) ==
  WakeNext([s EXCEPT !.free = @ + 1, !.held = @ \ {t}])

\* A granted waiter is cancelled before it runs: it gives its slot back.
ForfeitSlot(s, t) ==
  WakeNext([s EXCEPT !.free = @ + 1, !.granted = @ \ {t}])

\* Every waiter is cancelled: none of them can be woken any more.
DropWaiters(s) == [s EXCEPT !.queue = << >>]

\* The tasks inside acquire().
Waiters(s) == s.granted \cup {s.queue[i] : i \in 1 .. Len(s.queue)}

SemaphoreType(s, T) ==
  s \in [free : Nat, queue : Seq(T), granted : SUBSET T, held : SUBSET T]

\* A semaphore with limit slots: each is free, granted or held, and a task is
\* in at most one place, once.
SemaphoreOK(s, T, limit) ==
  /\ SemaphoreType(s, T)
  /\ s.free + Cardinality(s.granted) + Cardinality(s.held) = limit
  /\ s.granted \cap s.held = {}
  /\ \A i \in 1 .. Len(s.queue) : s.queue[i] \notin s.granted \cup s.held
  /\ \A i, j \in 1 .. Len(s.queue) : s.queue[i] = s.queue[j] => i = j
=============================================================================
