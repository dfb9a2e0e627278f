------------------------------ MODULE Startup ------------------------------
(***************************************************************************)
(* The startup phase of a session: start_session with                      *)
(* read_startup_message and request_upstream_tls, under the deadline that  *)
(* run gives it (crates/proxy/src/session.rs).                             *)
(***************************************************************************)
EXTENDS Naturals

CONSTANTS
    StartupTimeout,     \* config.startup_timeout_secs
    StepTimeout,        \* TLS_HANDSHAKE_TIMEOUT, CONNECT_TIMEOUT
    MaxAsks             \* bound on the requests before the startup message

VARIABLES
    tls,            \* which of acceptor and connector are configured
    stage,          \* where the session is
    clientLeg,      \* "plain" or "tls"
    upstreamLeg,    \* "none", "plain" or "tls"
    asks,           \* encryption requests the client has sent
    waited,         \* time in the startup phase
    step            \* time in the current handshake or connection attempt

startupVars == <<tls, stage, clientLeg, upstreamLeg, asks, waited, step>>

StartupStages == {"message", "handshake", "connect", "upstreamTls", "forward"}

StartupInit ==
    /\ tls \in [acceptor : BOOLEAN, connector : BOOLEAN]
    /\ stage = "message"
    /\ clientLeg = "plain" /\ upstreamLeg = "none"
    /\ asks = 0
    /\ waited = 0 /\ step = 0

Go(next) == stage' = next /\ step' = 0

\* The client leaves before its message, or sends a length that is refused.
HangUp ==
    /\ stage = "message"
    /\ Go("gone")
    /\ UNCHANGED <<tls, clientLeg, upstreamLeg, asks, waited>>

BadMessage ==
    /\ stage = "message"
    /\ Go("failed")
    /\ UNCHANGED <<tls, clientLeg, upstreamLeg, asks, waited>>

\* SSLRequest: answered S and upgraded once, when TLS is configured; else N.
AskTls ==
    /\ stage = "message" /\ asks < MaxAsks
    /\ asks' = asks + 1
    /\ Go(IF tls.acceptor /\ clientLeg = "plain" THEN "handshake" ELSE "message")
    /\ UNCHANGED <<tls, clientLeg, upstreamLeg, waited>>

\* GSSENCRequest: always answered N.
AskGss ==
    /\ stage = "message" /\ asks < MaxAsks
    /\ asks' = asks + 1
    /\ UNCHANGED <<tls, stage, clientLeg, upstreamLeg, waited, step>>

Handshake ==
    /\ stage = "handshake"
    /\ clientLeg' = "tls"
    /\ Go("message")
    /\ UNCHANGED <<tls, upstreamLeg, asks, waited>>

\* Mutant of RealMessage: an earlier request is taken for a handshake.
RealMessageAfterAsking ==
    /\ stage = "message"
    /\ Go(IF tls.acceptor /\ clientLeg = "plain" /\ asks = 0 THEN "failed" ELSE "connect")
    /\ UNCHANGED <<tls, clientLeg, upstreamLeg, asks, waited>>

\* A CancelRequest or the startup message proper.
RealMessage ==
    /\ stage = "message"
    /\ Go(IF tls.acceptor /\ clientLeg = "plain" THEN "failed" ELSE "connect")
    /\ UNCHANGED <<tls, clientLeg, upstreamLeg, asks, waited>>

Connect ==
    /\ stage = "connect"
    /\ upstreamLeg' = "plain"
    /\ Go(IF tls.connector THEN "upstreamTls" ELSE "forward")
    /\ UNCHANGED <<tls, clientLeg, asks, waited>>

\* request_upstream_tls: any answer but S is a refusal.
UpstreamTls ==
    /\ stage = "upstreamTls"
    /\ \/ upstreamLeg' = "tls" /\ Go("forward")
       \/ Go("failed") /\ UNCHANGED upstreamLeg
    /\ UNCHANGED <<tls, clientLeg, asks, waited>>

\* The deadline ends with the phase.
ForwardStartup ==
    /\ stage = "forward"
    /\ Go("relay")
    /\ waited' = 0 /\ asks' = 0
    /\ UNCHANGED <<tls, clientLeg, upstreamLeg>>

\* An error of a socket or of a handshake, or a step past its own limit.
StepFails ==
    /\ stage \in StartupStages \ {"message"}
    /\ Go("failed")
    /\ UNCHANGED <<tls, clientLeg, upstreamLeg, asks, waited>>

StepTimedOut == stage \in {"handshake", "connect"} /\ step = StepTimeout

\* Mutant of Overdue: only the steps with a limit of their own are limited.
OverdueStep == StepTimedOut

\* run: the deadline of the whole phase, and those of its steps.
Overdue == stage \in StartupStages /\ (waited = StartupTimeout \/ StepTimedOut)

TimedOut ==
    /\ Overdue
    /\ Go("failed")
    /\ UNCHANGED <<tls, clientLeg, upstreamLeg, asks, waited>>

StartupTick ==
    /\ stage \in StartupStages /\ ~Overdue
    /\ waited < StartupTimeout
    /\ waited' = waited + 1
    /\ step' = IF stage \in {"handshake", "connect"} THEN step + 1 ELSE 0
    /\ UNCHANGED <<tls, stage, clientLeg, upstreamLeg, asks>>

StartupNext ==
    \/ HangUp \/ BadMessage \/ AskTls \/ AskGss \/ Handshake \/ RealMessage
    \/ Connect \/ UpstreamTls \/ ForwardStartup \/ StepFails \/ TimedOut \/ StartupTick

-----------------------------------------------------------------------------

\* A startup message goes upstream only over the legs the configuration asks
\* for: no client in plaintext where TLS is configured, however it negotiated,
\* and no plaintext upstream where a connector is.
LegsAsConfigured ==
    stage \in {"forward", "relay"} =>
        /\ tls.acceptor => clientLeg = "tls"
        /\ tls.connector => upstreamLeg = "tls"

\* Whatever the client and the server do or do not send, the phase ends.
StartupEnds == stage \in StartupStages ~> stage \notin StartupStages

=============================================================================
