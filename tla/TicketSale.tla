----------------------------- MODULE TicketSale -----------------------------
(***************************************************************************)
(* Thread/thread_2: threads sell the tickets of one counter, inside a      *)
(* scope that a LockGuard locks and, however it is left, unlocks.          *)
(***************************************************************************)
EXTENDS Integers, Sequences

CONSTANTS
  Threads,      \* 1 .. NUM
  Tickets       \* the tickets there are at first

VARIABLES
  lock,         \* who holds the mutex, as a set of at most one
  tickets,
  pc,           \* pc[t]: where thread t is
  printed,      \* the tickets sold, in the order of printf
  joined        \* the threads that main has joined

vars == <<lock, tickets, pc, printed, joined>>

Init ==
  /\ lock = {} /\ tickets = Tickets /\ printed = <<>> /\ joined = 0
  /\ pc = [t \in Threads |-> "new"]

At(t, from, to) == pc[t] = from /\ pc' = [pc EXCEPT ![t] = to]

\* main creates the threads in order.
Create(t) ==
  /\ At(t, "new", "lock") /\ \A s \in Threads : s < t => pc[s] # "new"
  /\ UNCHANGED <<lock, tickets, printed, joined>>

\* LockGuard::LockGuard.
Lock(t) ==
  /\ At(t, "lock", "test") /\ lock = {} /\ lock' = {t}
  /\ UNCHANGED <<tickets, printed, joined>>


Test(t) ==
  /\ IF tickets > 0 THEN At(t, "test", "print") ELSE At(t, "test", "break")
  /\ UNCHANGED <<lock, tickets, printed, joined>>

\* usleep, then printf reads the counter.
Printf(t) ==
  /\ At(t, "print", "take") /\ printed' = Append(printed, tickets)
  /\ UNCHANGED <<lock, tickets, joined>>

Take(t) ==
  /\ At(t, "take", "leave") /\ tickets' = tickets - 1
  /\ UNCHANGED <<lock, printed, joined>>

\* Mutant: an unlock at the end of the scope instead of in a destructor.
UnlockAtTheEnd(t) ==
  /\ \/ At(t, "leave", "lock") /\ lock' = {}
     \/ At(t, "break", "quit") /\ UNCHANGED lock
  /\ UNCHANGED <<tickets, printed, joined>>

\* LockGuard::~LockGuard, at the end of the scope or by the break.
Unlock(t) ==
  /\ At(t, "leave", "lock") \/ At(t, "break", "quit")
  /\ lock' = {}
  /\ UNCHANGED <<tickets, printed, joined>>

\* pthread_join, in order.
Join ==
  /\ joined + 1 \in Threads /\ pc[joined + 1] = "quit"
  /\ joined' = joined + 1
  /\ UNCHANGED <<lock, tickets, pc, printed>>

GetTicket(t) == Lock(t) \/ Test(t) \/ Printf(t) \/ Take(t) \/ Unlock(t)

Next == Join \/ \E t \in Threads : Create(t) \/ GetTicket(t)

\* Every thread is scheduled; the mutex is nobody's in particular.
Fairness ==
  /\ WF_vars(Join)
  /\ \A t \in Threads : WF_vars(Create(t)) /\ WF_vars(GetTicket(t))

Spec == Init /\ [][Next]_vars /\ Fairness

-----------------------------------------------------------------------------
TypeOK ==
  /\ lock \subseteq Threads /\ tickets \in 0 .. Tickets /\ joined \in {0} \cup Threads
  /\ pc \in [Threads -> {"new", "lock", "test", "print", "take", "leave", "break", "quit"}]
  /\ printed \in Seq(0 .. Tickets)

\* All threads end, and by then every ticket has been sold once, in order.
SoldOnce ==
  <>(joined + 1 \notin Threads /\ printed = [i \in 1 .. Tickets |-> Tickets + 1 - i])
=============================================================================
