------------------------ MODULE LightweightSemaphore ------------------------
(***************************************************************************)
(* moodycamel::spsc_sema::LightweightSemaphore and the POSIX semaphore     *)
(* behind it, in core/src/utils/queues/moodycamel/atomicops.h: one thread  *)
(* signals, one waits.  The count goes below zero when the waiter has      *)
(* claimed a permit that is not there yet; then the signal that brings it  *)
(* posts the kernel's semaphore.  A step is one atomic access.             *)
(***************************************************************************)
EXTENDS Integers

VARIABLES
    m_count,
    m_sema,         \* the count of the kernel's semaphore
    signal,         \* "idle", "add" before the fetch_add, "post" before the post
    wait            \* the waiter's place and its timeout

semVars == <<m_count, m_sema, signal, wait>>

\* A tryWait(), and a wait() with a negative, a zero or a positive timeout.
Timeouts == {"try", "forever", "zero", "some"}

NotWaiting == [pc |-> "idle", timeout |-> "try"]

SemInit ==
    /\ m_count = 0
    /\ m_sema = 0
    /\ signal = "idle"
    /\ wait = NotWaiting

-----------------------------------------------------------------------------
(* signal() *)

CallSignal ==
    /\ signal = "idle"
    /\ signal' = "add"
    /\ UNCHANGED <<m_count, m_sema, wait>>

\* (mutated) Looks at the count after the addition.
AddPermitAndLook ==
    /\ signal = "add"
    /\ m_count' = m_count + 1
    /\ signal' = IF m_count' < 0 THEN "post" ELSE "idle"
    /\ UNCHANGED <<m_sema, wait>>

AddPermit ==
    /\ signal = "add"
    /\ m_count' = m_count + 1
    /\ signal' = IF m_count < 0 THEN "post" ELSE "idle"
    /\ UNCHANGED <<m_sema, wait>>

Post ==
    /\ signal = "post"
    /\ m_sema' = m_sema + 1
    /\ signal' = "idle"
    /\ UNCHANGED <<m_count, wait>>

-----------------------------------------------------------------------------
(* tryWait() and wait() *)

WaitGoes(pc) == wait' = [wait EXCEPT !.pc = pc]

CallWait(timeout) ==
    /\ wait.pc = "idle"
    /\ wait' = [pc |-> "try", timeout |-> timeout]
    /\ UNCHANGED <<m_count, m_sema, signal>>

\* A load of the count, in tryWait() and in the loop that spins.
SeePermit ==
    /\ wait.pc \in {"try", "spin"}
    /\ m_count > 0
    /\ WaitGoes("take")
    /\ UNCHANGED <<m_count, m_sema, signal>>

TryFails ==
    /\ wait.pc = "try"
    /\ m_count <= 0
    /\ WaitGoes(IF wait.timeout = "try" THEN "refused" ELSE "spin")
    /\ UNCHANGED <<m_count, m_sema, signal>>

\* The last of the 1024 loads.
SpinEnds ==
    /\ wait.pc = "spin"
    /\ m_count <= 0
    /\ WaitGoes("claim")
    /\ UNCHANGED <<m_count, m_sema, signal>>

TakePermit ==
    /\ wait.pc = "take"
    /\ m_count' = m_count - 1
    /\ WaitGoes("granted")
    /\ UNCHANGED <<m_sema, signal>>

\* (mutated) Takes a count of zero for a permit.
ClaimFromZero ==
    /\ wait.pc = "claim"
    /\ m_count' = m_count - 1
    /\ WaitGoes(IF m_count >= 0 THEN "granted"
                ELSE IF wait.timeout = "zero" THEN "restore" ELSE "sleep")
    /\ UNCHANGED <<m_sema, signal>>

Claim ==
    /\ wait.pc = "claim"
    /\ m_count' = m_count - 1
    /\ WaitGoes(IF m_count > 0 THEN "granted"
                ELSE IF wait.timeout = "zero" THEN "restore" ELSE "sleep")
    /\ UNCHANGED <<m_sema, signal>>

Wake ==
    /\ wait.pc = "sleep"
    /\ m_sema > 0
    /\ m_sema' = m_sema - 1
    /\ WaitGoes("granted")
    /\ UNCHANGED <<m_count, signal>>

TimeOut ==
    /\ wait.pc = "sleep"
    /\ wait.timeout = "some"
    /\ WaitGoes("restore")
    /\ UNCHANGED <<m_count, m_sema, signal>>

\* (mutated) Does not ask whether a signal has met the claim.
RestoreAlways ==
    /\ wait.pc = "restore"
    /\ m_count' = m_count + 1
    /\ WaitGoes("refused")
    /\ UNCHANGED <<m_sema, signal>>

\* Takes the claim back, unless a signal has met it in the meantime.
Restore ==
    /\ wait.pc = "restore"
    /\ m_count' = m_count + 1
    /\ WaitGoes(IF m_count < 0 THEN "refused" ELSE "reclaim")
    /\ UNCHANGED <<m_sema, signal>>

\* (mutated) Tries for the token only with a permit to spare.
ReclaimFromTwo ==
    /\ wait.pc = "reclaim"
    /\ m_count' = m_count - 1
    /\ WaitGoes(IF m_count > 1 THEN "token" ELSE "restore")
    /\ UNCHANGED <<m_sema, signal>>

Reclaim ==
    /\ wait.pc = "reclaim"
    /\ m_count' = m_count - 1
    /\ WaitGoes(IF m_count > 0 THEN "token" ELSE "restore")
    /\ UNCHANGED <<m_sema, signal>>

\* The signal that has met the claim may not have posted yet.
TryToken ==
    /\ wait.pc = "token"
    /\ m_sema' = IF m_sema > 0 THEN m_sema - 1 ELSE 0
    /\ WaitGoes(IF m_sema > 0 THEN "granted" ELSE "restore")
    /\ UNCHANGED <<m_count, signal>>

WaitReturns(result) ==
    /\ wait.pc = result
    /\ wait' = NotWaiting
    /\ UNCHANGED <<m_count, m_sema, signal>>

-----------------------------------------------------------------------------
SignalStep == AddPermit \/ Post

WaitStep ==
    \/ SeePermit \/ TryFails \/ SpinEnds \/ TakePermit
    \/ Claim \/ Wake \/ TimeOut
    \/ Restore \/ Reclaim \/ TryToken

SemNext ==
    \/ CallSignal
    \/ SignalStep
    \/ \E timeout \in Timeouts : CallWait(timeout)
    \/ WaitStep
    \/ \E result \in {"granted", "refused"} : WaitReturns(result)

SemSpec == SemInit /\ [][SemNext]_semVars

-----------------------------------------------------------------------------
(* Properties *)

Claims == {"sleep", "restore", "token"}

SemTypeOK ==
    /\ m_count \in Int
    /\ m_sema \in Nat
    /\ signal \in {"idle", "add", "post"}
    /\ wait \in [pc : {"idle", "try", "spin", "take", "claim", "granted", "refused",
                       "reclaim"} \union Claims,
                 timeout : Timeouts]

\* Signals that have met a claim and that the waiter has not found yet.
Tokens == m_sema + (IF signal = "post" THEN 1 ELSE 0)

\* The kernel's semaphore is posted exactly once for a claim that was met, and
\* never for another: whatever timeouts race with signals, no post is left to
\* wake a later wait that has no permit (atomicops.h:730-738).  The count falls
\* below zero for a claim only, so that the assertion in signal() holds (765).
OneTokenPerClaim ==
    /\ m_count >= -1
    /\ m_count = -1 => wait.pc \in Claims
    /\ Tokens = IF (wait.pc \in Claims /\ m_count >= 0) \/ wait.pc = "reclaim" THEN 1 ELSE 0

\* A permit that was seen or given back stays until it is taken.
SeenPermitsStay ==
    /\ wait.pc \in {"take", "reclaim"} => m_count >= 1
    /\ wait.pc = "token" => m_count >= 0

\* Only a wait that may time out takes back its claim.
OnlyTimedWaitsRestore ==
    wait.pc \in {"restore", "reclaim", "token", "refused"} => wait.timeout # "forever"

SemInv == SemTypeOK /\ OneTokenPerClaim /\ SeenPermitsStay /\ OnlyTimedWaitsRestore

\* A claim has taken its permit from the count before there was one.
Permits == m_count + (IF wait.pc \in Claims THEN 1 ELSE 0)

Patience ==
    CASE wait.pc = "idle" -> "no"
      [] wait.pc \in {"granted", "refused"} -> wait.pc
      [] OTHER -> IF wait.timeout = "forever" THEN "patient" ELSE "impatient"

\* The count, the kernel's semaphore and the repair after a timeout together are
\* a semaphore: a permit is neither lost nor invented, and only a wait that may
\* give up does, at a moment without a permit (atomicops.h:695-775).
Abstract == INSTANCE Semaphore WITH permits <- Permits, waiting <- Patience

ImplementsSemaphore == Abstract!AbsSpec
=============================================================================
