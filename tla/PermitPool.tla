------------------------------ MODULE PermitPool ------------------------------
(***************************************************************************)
(* What AsyncSemaphore and AsyncMutex promise: a pool of permits with a    *)
(* first-in first-out line of clients.  A wait either ends by taking       *)
(* exactly one permit or leaves the pool as it was; nobody waits while a   *)
(* permit is available.  Only a client of Lossy may lose a permit that was *)
(* set aside for it.  A mutex is a pool that never holds more than one.    *)
(***************************************************************************)
EXTENDS Naturals, FiniteSets

CONSTANTS
  Clients,
  Lossy,     \* clients that may lose a permit that is set aside for them
  Capacity,
  Initial

VARIABLES
  avail,    \* permits anyone may take
  line,     \* the clients that wait
  before,   \* for a client in line, the clients in front of it
  reserved, \* clients a permit is set aside for
  owed      \* permits put in and not yet taken out

poolVars == <<avail, line, before, reserved, owed>>

PoolTypeOK ==
  /\ avail \in 0..Capacity
  /\ line \in SUBSET Clients
  /\ before \in [Clients -> SUBSET Clients]
  /\ reserved \in SUBSET Clients
  /\ owed \in Nat

PoolInit ==
  /\ avail = Initial
  /\ line = {}
  /\ before = [c \in Clients |-> {}]
  /\ reserved = {}
  /\ owed = Initial

\* The clients of gone leave the line.
StepOut(gone) ==
  /\ line' = line \ gone
  /\ before' = [c \in Clients |-> IF c \in line \ gone THEN before[c] \ gone ELSE {}]

\* An available permit is set aside for c, who does not have to wait.
Reserve(c) ==
  /\ c \notin line \union reserved
  /\ avail > 0
  /\ avail' = avail - 1
  /\ reserved' = reserved \union {c}
  /\ UNCHANGED <<line, before, owed>>

\* No permit is available: c joins the end of the line.
Join(c) ==
  /\ c \notin line \union reserved
  /\ avail = 0
  /\ line' = line \union {c}
  /\ before' = [before EXCEPT ![c] = line]
  /\ UNCHANGED <<avail, reserved, owed>>

\* c gives up waiting.
Leave(c) ==
  /\ c \in line
  /\ StepOut({c})
  /\ UNCHANGED <<avail, reserved, owed>>

\* c takes out the permit that was set aside for it.
Take(c) ==
  /\ c \in reserved
  /\ reserved' = reserved \ {c}
  /\ owed' = owed - 1
  /\ UNCHANGED <<avail, line, before>>

\* The permit that was set aside for c is lost.
Lose(c) ==
  /\ c \in reserved \intersect Lossy
  /\ reserved' = reserved \ {c}
  /\ UNCHANGED <<avail, line, before, owed>>

\* An available permit is taken out at once.
TakeNow ==
  /\ avail > 0
  /\ avail' = avail - 1
  /\ owed' = owed - 1
  /\ UNCHANGED <<line, before, reserved>>

\* n permits are put in: the front of the line is served, the rest is available.
Put(n) ==
  /\ n > 0
  /\ avail + n <= Capacity
  /\ \E G \in SUBSET line :
       /\ \A g \in G : before[g] \subseteq G
       /\ G = line \/ Cardinality(G) = avail + n
       /\ Cardinality(G) <= avail + n
       /\ StepOut(G)
       /\ reserved' = reserved \union G
       /\ avail' = avail + n - Cardinality(G)
  /\ owed' = owed + n

PoolNext ==
  \/ \E c \in Clients : Reserve(c) \/ Join(c) \/ Leave(c) \/ Take(c) \/ Lose(c)
  \/ TakeNow
  \/ \E n \in 1..Capacity : Put(n)

PoolSpec == PoolInit /\ [][PoolNext]_poolVars
==============================================================================
