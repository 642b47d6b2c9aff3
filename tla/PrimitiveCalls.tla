--------------------------- MODULE PrimitiveCalls --------------------------
(***************************************************************************)
(* What the components of Primitives.tla share: the number of calls started,    *)
(* which bounds the instances.                                               *)
(***************************************************************************)
EXTENDS Naturals, Sequences

CONSTANTS
    MaxCalls,   \* calls that are started, of all callers
    None

ASSUME CallsAssumption == MaxCalls \in Nat

VARIABLE calls   \* number of calls started

StartCall == calls < MaxCalls /\ calls' = calls + 1
=============================================================================
