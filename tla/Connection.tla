----------------------------- MODULE Connection -----------------------------
(***************************************************************************)
(* session::run: the startup phase, and the relays once it has succeeded.  *)
(***************************************************************************)
EXTENDS Startup, Relays

connectionVars == <<startupVars, relayVars>>

Init == StartupInit /\ RelaysInit

Next ==
    \/ StartupNext /\ UNCHANGED relayVars
    \/ stage = "relay" /\ RelaysNext /\ UNCHANGED startupVars

Spec ==
    /\ Init
    /\ [][Next]_connectionVars
    /\ WF_connectionVars((StartupTick \/ TimedOut) /\ UNCHANGED relayVars)
    /\ WF_connectionVars((BothEnded \/ Cut \/ GraceTick) /\ UNCHANGED startupVars)

=============================================================================
