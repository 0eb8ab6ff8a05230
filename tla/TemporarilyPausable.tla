----------------------- MODULE TemporarilyPausable -----------------------
(***************************************************************************)
(* TemporarilyPausable (pkg/solidity-utils/contracts/helpers): an emergency *)
(* stop that can only be used during a pause window after deployment, only *)
(* be undone until the end of a buffer period, and that expires with it.   *)
(* The contract is deployed at timestamp 0.                                *)
(***************************************************************************)
EXTENDS Integers

CONSTANTS
    PauseWindowEnd,     \* _pauseWindowEndTime
    BufferPeriodEnd,    \* _bufferPeriodEndTime
    LastTime            \* last timestamp of a run

ASSUME WindowAssumption ==
    /\ PauseWindowEnd \in Nat
    /\ BufferPeriodEnd \in Nat
    /\ PauseWindowEnd <= BufferPeriodEnd

VARIABLES
    timestamp,          \* block.timestamp
    paused              \* _paused

pausableVars == <<timestamp, paused>>

\* mutant: the pause does not expire with the buffer period
PauseFlagOnly == ~paused

\* _isNotPaused
NotPaused == timestamp > BufferPeriodEnd \/ ~paused

\* mutant: the window for pausing is not checked
SetPausedAnytime(p) ==
    /\ ~p => timestamp < BufferPeriodEnd
    /\ paused' = p
    /\ UNCHANGED timestamp

SetPaused(p) ==
    /\ IF p THEN timestamp < PauseWindowEnd ELSE timestamp < BufferPeriodEnd
    /\ paused' = p
    /\ UNCHANGED timestamp

PausableTick ==
    /\ timestamp < LastTime
    /\ timestamp' = timestamp + 1
    /\ UNCHANGED paused

PausableInit == timestamp = 0 /\ paused = FALSE

PausableNext == PausableTick \/ \E p \in BOOLEAN : SetPaused(p)

PausableSpec == PausableInit /\ [][PausableNext]_pausableVars

---------------------------------------------------------------------------
(* The stop is temporary whatever its owner does or fails to do: from some *)
(* moment on the contract works for good (_isNotPaused).                   *)
UnpausedForGood == <>[]NotPaused

(* Once the pause window is over a working contract cannot be stopped any  *)
(* more, and one that was stopped only ever gets back to work              *)
(* (_setPaused, _isNotPaused).                                             *)
NoLatePause == [][timestamp >= PauseWindowEnd /\ NotPaused => NotPaused']_pausableVars
==========================================================================
