---------------------------- MODULE MCConnection ----------------------------
(***************************************************************************)
(* Connections whose peers send one or two frames each.                    *)
(***************************************************************************)
EXTENDS Connection

UpScripts ==
    {<<"dropped", "answered">>, <<"sealed", "early">>, <<"big", "malformed">>,
     <<"answered", "bad">>, <<"huge">>}
DownScripts ==
    {<<"auth", "plain">>, <<"plain", "refused">>, <<"sealed", "bad">>, <<"huge">>}

MCScripts == [up : UpScripts, down : DownScripts]

\* What the legs are makes no difference to the relays.
MCInit ==
    /\ Init
    /\ tls.acceptor \/ tls.connector => script.up = <<"huge">> /\ script.down = <<"huge">>

MCSpec ==
    /\ MCInit
    /\ [][Next]_connectionVars
    /\ WF_connectionVars((StartupTick \/ TimedOut) /\ UNCHANGED relayVars)
    /\ WF_connectionVars((BothEnded \/ Cut \/ GraceTick) /\ UNCHANGED startupVars)

=============================================================================
