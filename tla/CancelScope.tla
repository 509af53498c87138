----------------------------- MODULE CancelScope -----------------------------
(***************************************************************************)
(* with_cancellation (include/corouv/cancel.h), nested: each scope runs    *)
(* its task under a signal of its own, the combined one, and chains the    *)
(* signal around it and its token's to that.  Any thread may cancel a      *)
(* source, or the outermost task, while a scope is being set up.           *)
(* async_simple's Signal is external: emits sets the state and then walks  *)
(* the slots, passing the state on to the signals chained at that moment.  *)
(***************************************************************************)
EXTENDS Naturals, FiniteSets

CONSTANTS
    Depth,     \* scopes, each one inside the one before
    Sources    \* CancellationSource objects

ASSUME ScopeAssumption ==
    /\ Depth \in Nat
    /\ \A s \in Sources : s \notin 0 .. Depth

VARIABLES
    hasSlot,    \* the task around scope 1 has a slot; its signal is 0
    token,      \* the source of each scope's token; {} for CancellationToken()
    scope,      \* how far each scope is: "out", "outer", "outerCheck", "token",
                \* "tokenCheck" or "in"
    chained,    \* <<signal, scope>>: a slot on signal forwards to the scope's
    emitted,    \* signals whose state is Terminate; a scope names its combined
    walking     \* signals whose emits has still to walk the slots

scopeVars == <<hasSlot, token, scope, chained, emitted, walking>>

Scopes == 1 .. Depth
Outer(k) == k - 1

ScopeInit ==
    /\ hasSlot \in BOOLEAN
    /\ token \in [Scopes -> {S \in SUBSET Sources : Cardinality(S) <= 1}]
    /\ scope = [k \in Scopes |-> "out"]
    /\ chained = {}
    /\ emitted = {}
    /\ walking = {}

GoOn(k, step) == scope' = [scope EXCEPT ![k] = step]

\* Signal::emits; a signal is emitted once.
Emits(signals) ==
    /\ emitted' = emitted \cup signals
    /\ walking' = walking \cup (signals \ emitted)

\* CancellationSource::cancel, or Terminate for the task around the scopes.
cancel(signal) ==
    /\ signal \notin emitted
    /\ Emits({signal})
    /\ UNCHANGED <<hasSlot, token, scope, chained>>

WalkSlots(signal) ==
    /\ signal \in walking
    /\ LET targets == {k \in Scopes : <<signal, k>> \in chained}
       IN /\ emitted' = emitted \cup targets
          /\ walking' = (walking \ {signal}) \cup (targets \ emitted)
    /\ UNCHANGED <<hasSlot, token, scope, chained>>

\* with_cancellation up to the constructor of CancellationLocal.
with_cancellation(k) ==
    /\ scope[k] = "out"
    /\ k > 1 => scope[Outer(k)] = "in"
    /\ GoOn(k, IF k > 1 \/ hasSlot THEN "outer" ELSE "token")
    /\ UNCHANGED <<hasSlot, token, chained, emitted, walking>>

ChainOuter(k) ==
    /\ scope[k] = "outer"
    /\ chained' = chained \cup {<<Outer(k), k>>}
    /\ GoOn(k, "outerCheck")
    /\ UNCHANGED <<hasSlot, token, emitted, walking>>

\* What was emitted before the slot was chained is passed on by hand.
PassOn(k, signals) == Emits({k : s \in signals \cap emitted})

CheckOuter_Skip(k) ==
    /\ scope[k] = "outerCheck"
    /\ GoOn(k, "token")
    /\ UNCHANGED <<hasSlot, token, chained, emitted, walking>>
CheckOuter(k) ==
    /\ scope[k] = "outerCheck"
    /\ PassOn(k, {Outer(k)})
    /\ GoOn(k, "token")
    /\ UNCHANGED <<hasSlot, token, chained>>

ChainToken(k) ==
    /\ scope[k] = "token"
    /\ chained' = chained \cup {<<s, k>> : s \in token[k]}
    /\ GoOn(k, IF token[k] = {} THEN "in" ELSE "tokenCheck")
    /\ UNCHANGED <<hasSlot, token, emitted, walking>>

CheckToken(k) ==
    /\ scope[k] = "tokenCheck"
    /\ PassOn(k, token[k])
    /\ GoOn(k, "in")
    /\ UNCHANGED <<hasSlot, token, chained>>

\* The task ends and its CancellationLocal goes, with the slots.
LeaveScope(k) ==
    /\ scope[k] = "in"
    /\ k < Depth => scope[k + 1] = "out"
    /\ GoOn(k, "out")
    /\ chained' = {c \in chained : c[2] # k}
    /\ emitted' = emitted \ {k}
    /\ walking' = walking \ {k}
    /\ UNCHANGED <<hasSlot, token>>

ScopeNext ==
    \/ \E s \in Sources : cancel(s)
    \/ hasSlot /\ cancel(0)
    \/ \E s \in walking : WalkSlots(s)
    \/ \E k \in Scopes :
         \/ with_cancellation(k) \/ ChainOuter(k) \/ CheckOuter(k)
         \/ ChainToken(k) \/ CheckToken(k) \/ LeaveScope(k)

ScopeSpec == ScopeInit /\ [][ScopeNext]_scopeVars

-----------------------------------------------------------------------------
\* The sources that are to cancel scope k, and every signal on their way to it.
Reach(k) == {0} \cup UNION {token[j] : j \in 1 .. k}
Above(k) == Reach(k) \cup 1 .. Outer(k)

\* A task inside with_cancellation is cancelled exactly when somebody asked for
\* it: an emission that is through with its slots, whenever it came between the
\* steps of the scopes' constructors, has reached every scope it is outside of;
\* and a token of an inner scope never cancels an outer one.
CancellationReachesScope ==
    \A k \in Scopes :
        /\ scope[k] = "in" /\ Reach(k) \cap emitted # {} /\ Above(k) \cap walking = {}
             => k \in emitted
        /\ k \in emitted => Reach(k) \cap emitted # {}
=============================================================================
