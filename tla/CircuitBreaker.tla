--------------------------- MODULE CircuitBreaker ---------------------------
(***************************************************************************)
(* The circuit breaker of an LLM client (clients/circuit_breaker.go) and   *)
(* the calls that go through it: exec of SubagentClient and complete of    *)
(* DeepThinkerClient.  A call passes check, waits for a slot, and reports  *)
(* success, a server failure, or nothing at all: a call that finds no      *)
(* slot, or whose context ends, leaves the breaker as it is.  Calls run    *)
(* concurrently and report in any order.                                   *)
(*                                                                         *)
(* Time is counted in units of cbOpenDuration (2 minutes).                 *)
(***************************************************************************)
EXTENDS Integers, FiniteSets

CONSTANTS
    Calls,      \* concurrent calls of the client
    Impatient,  \* calls that may end without a report: tryOnly or a deadline
    Threshold,  \* cbFailThreshold
    MaxOpen,    \* cbMaxOpen, in units of cbOpenDuration
    MaxFails    \* bound on the failures counted

ASSUME BreakerAssumption ==
    /\ Impatient \subseteq Calls
    /\ Threshold \in Nat \ {0} /\ MaxOpen \in Nat \ {0}
    /\ MaxFails \in Nat

VARIABLES
    state,      \* "closed", "open" or "halfOpen"
    failCount,  \* consecutive failures
    openDur,    \* the next open window
    left,       \* time until openUntil, 0 when it has passed
    stage,      \* idle; waiting: past check, no slot yet; calling: at the server
    probe,      \* history: the calls that check let through half-open
    lost        \* history: the probes that ended without a report

breaker == <<state, failCount, openDur, left>>
breakerVars == <<state, failCount, openDur, left, stage, probe, lost>>

ToStage(c, p) == stage' = [stage EXCEPT ![c] = p]

BreakerInit ==
    /\ state = "closed" /\ failCount = 0 /\ openDur = 1 /\ left = 0
    /\ stage = [c \in Calls |-> "idle"]
    /\ probe = {} /\ lost = {}
-----------------------------------------------------------------------------
\* Mutant of CheckHalfOpen: the circuit closes when its window has passed.
CheckCloses(c) ==
    /\ stage[c] = "idle" /\ state = "open" /\ left = 0
    /\ state' = "closed"
    /\ probe' = probe \cup {c}
    /\ ToStage(c, "waiting")
    /\ UNCHANGED <<failCount, openDur, left, lost>>

\* check on a closed circuit.
CheckClosed(c) ==
    /\ stage[c] = "idle" /\ state = "closed"
    /\ ToStage(c, "waiting")
    /\ UNCHANGED <<breaker, probe, lost>>

\* check on an open circuit whose window has passed.  In every other state
\* check returns an error and the call is over.
CheckHalfOpen(c) ==
    /\ stage[c] = "idle" /\ state = "open" /\ left = 0
    /\ state' = "halfOpen"
    /\ probe' = probe \cup {c}
    /\ ToStage(c, "waiting")
    /\ UNCHANGED <<failCount, openDur, left, lost>>

\* acquire, or tryAcquire, got a slot.
GetSlot(c) ==
    /\ stage[c] = "waiting"
    /\ ToStage(c, "calling")
    /\ UNCHANGED <<breaker, probe, lost>>

Reported(c) == ToStage(c, "idle") /\ probe' = probe \ {c} /\ UNCHANGED lost

\* Mutant of Succeed: only a probe closes the circuit.
SucceedNeverCloses(c) ==
    /\ stage[c] = "calling" /\ Reported(c)
    /\ failCount' = 0 /\ openDur' = 1 /\ UNCHANGED <<state, left>>

\* recordSuccess.
Succeed(c) ==
    /\ stage[c] = "calling"
    /\ failCount' = 0
    /\ state' = "closed"
    /\ openDur' = 1
    /\ Reported(c)
    /\ UNCHANGED left

Doubled(d) == IF 2 * d > MaxOpen THEN MaxOpen ELSE 2 * d

\* recordFailure: a server error, a refused connection, an empty answer.
Fail(c) ==
    /\ stage[c] = "calling" /\ failCount < MaxFails
    /\ failCount' = failCount + 1
    /\ IF failCount' >= Threshold
       THEN state' = "open" /\ left' = openDur /\ openDur' = Doubled(openDur)
       ELSE UNCHANGED <<state, left, openDur>>
    /\ Reported(c)

\* No slot (tryOnly, or the context ended in the queue), or recordFailureIfServer
\* on a context error: the breaker is not told.
EndUnreported(c) ==
    /\ c \in Impatient /\ stage[c] \in {"waiting", "calling"}
    /\ ToStage(c, "idle")
    /\ probe' = probe \ {c}
    /\ lost' = lost \cup ({c} \cap probe)
    /\ UNCHANGED breaker

\* The clock.
Elapse == left > 0 /\ left' = left - 1 /\ UNCHANGED <<state, failCount, openDur, stage, probe, lost>>

BreakerNext ==
    \/ \E c \in Calls :
          \/ CheckClosed(c) \/ CheckHalfOpen(c) \/ GetSlot(c)
          \/ Succeed(c) \/ Fail(c) \/ EndUnreported(c)
    \/ Elapse

BreakerSpec == BreakerInit /\ [][BreakerNext]_breakerVars

-----------------------------------------------------------------------------
\* The open window stays within its cap, the count within the model's bound.
BreakerTypeOK ==
    /\ state \in {"closed", "open", "halfOpen"}
    /\ failCount \in 0..MaxFails
    /\ openDur \in 1..MaxOpen
    /\ left \in 0..MaxOpen
    /\ stage \in [Calls -> {"idle", "waiting", "calling"}]
    /\ probe \subseteq Calls
    /\ lost \subseteq Calls

\* The circuit lets everything through exactly while fewer than Threshold
\* failures came in a row: late reports of calls that passed check in an earlier
\* state never leave the count and the state apart (recordFailure and
\* recordSuccess run in every state).
OpenIffThreshold == state = "closed" <=> failCount < Threshold

\* A half-open circuit has a probe under way that can resolve it, unless a probe
\* ended without a report: nothing else leaves it stuck, whatever other calls
\* report meanwhile.
StuckOnlyUnheard == state = "halfOpen" => probe # {} \/ lost # {}
=============================================================================
