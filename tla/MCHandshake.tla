----------------------------- MODULE MCHandshake -----------------------------
(* Two known initiators, one of them with a clock that is ahead, and an    *)
(* unknown one.                                                            *)
EXTENDS HandshakeProtocol, TLC

CONSTANTS alice, bob, eve

MCInitiators == {alice, bob, eve}
MCKnown == {alice, bob}
MCClockLead == (alice :> 1) @@ (bob :> 0) @@ (eve :> 0)
=============================================================================
