------------------------------- MODULE Relays -------------------------------
(***************************************************************************)
(* The two relays of a session, the writers they share, and join_relays    *)
(* (crates/proxy/src/session.rs).                                          *)
(*                                                                         *)
(* A frame is a header and a body, read and written one after the other.   *)
(* Its kind stands for what the transform makes of it:                     *)
(*   "plain", "auth"   relayed; "auth" is the AuthenticationOk             *)
(*   "sealed"          replaced                                            *)
(*   "huge"            replaced by a body too long for a frame             *)
(*   "answered"        withheld, and answered to the sender                *)
(*   "dropped"         withheld without an answer                          *)
(*   "refused"         answered in the receiver's direction, then closed   *)
(*   "bad"             an error                                            *)
(*   "big", "early"    relayed, with a body over the bound that holds      *)
(*                     before authentication; a client sends "big" only    *)
(*                     once it has the AuthenticationOk                    *)
(*   "malformed"       a length that frame_body_len refuses                *)
(***************************************************************************)
EXTENDS Naturals, Sequences

CONSTANTS
    Scripts,        \* the frames the two peers send: kinds for "up" and "down"
    Grace           \* RELAY_DRAIN_TIMEOUT

Relay == {"up", "down"}

\* A relay's forward writer has its own name: "up" writes to the server.
Other(r) == IF r = "up" THEN "down" ELSE "up"

VARIABLES
    script,         \* the frames to come
    sent,           \* headers and bodies the peer has written
    eof,            \* the peer closed its sending half
    taken,          \* frames the relay has dealt with
    pc,             \* where the relay is in its loop
    lock,           \* who holds each writer
    writer,         \* "open", "shut" or "broken"
    wire,           \* what was written to each peer
    authenticated,
    shutdown,       \* the process is stopping
    outcome,        \* how each relay ended
    first,          \* which ended first
    grace,          \* time since then
    result          \* how the session ended

relayVars == <<script, sent, eof, taken, pc, lock, writer, wire, authenticated,
               shutdown, outcome, first, grace, result>>

RelaysInit ==
    /\ script \in Scripts
    /\ sent = [r \in Relay |-> 0]
    /\ eof = [r \in Relay |-> FALSE]
    /\ taken = [r \in Relay |-> 0]
    /\ pc = [r \in Relay |-> "header"]
    /\ lock = [w \in Relay |-> "free"]
    /\ writer = [w \in Relay |-> "open"]
    /\ wire = [w \in Relay |-> << >>]
    /\ authenticated = FALSE
    /\ shutdown = FALSE
    /\ outcome = [r \in Relay |-> "running"]
    /\ first = "none"
    /\ grace = 0
    /\ result = "open"

-----------------------------------------------------------------------------
(* The peers and the process *)

Frame(r) == script[r][taken[r] + 1]
Part(r, i, part) == [from |-> r, frame |-> i, part |-> part]

\* The client knows that it is authenticated.
Welcomed ==
    \E i \in 1..Len(script.down) :
        /\ script.down[i] = "auth"
        /\ \E k \in 1..Len(wire.down) : wire.down[k] = Part("down", i, "body")

\* The peer writes a header, or the body that follows it.
Send(r) ==
    /\ result = "open" /\ ~eof[r]
    /\ sent[r] < 2 * Len(script[r])
    /\ script[r][sent[r] \div 2 + 1] = "big" => Welcomed
    /\ sent' = [sent EXCEPT ![r] = @ + 1]
    /\ UNCHANGED <<script, eof, taken, pc, lock, writer, wire, authenticated,
                   shutdown, outcome, first, grace, result>>

Hang(r) ==
    /\ result = "open" /\ ~eof[r]
    /\ eof' = [eof EXCEPT ![r] = TRUE]
    /\ UNCHANGED <<script, sent, taken, pc, lock, writer, wire, authenticated,
                   shutdown, outcome, first, grace, result>>

Stop ==
    /\ result = "open" /\ ~shutdown
    /\ shutdown' = TRUE
    /\ UNCHANGED <<script, sent, eof, taken, pc, lock, writer, wire, authenticated,
                   outcome, first, grace, result>>

-----------------------------------------------------------------------------
(* relay *)

At(r, where) == result = "open" /\ outcome[r] = "running" /\ pc[r] = where

HeaderThere(r) == sent[r] > 2 * taken[r]
BodyThere(r) == sent[r] > 2 * taken[r] + 1

Goto(r, where) ==
    /\ pc' = [pc EXCEPT ![r] = where]
    /\ UNCHANGED <<outcome, first>>

\* The relay returns; a lock it holds goes with it.
Return(r, how) ==
    /\ outcome' = [outcome EXCEPT ![r] = how]
    /\ first' = IF first = "none" THEN r ELSE first
    /\ lock' = [w \in Relay |-> IF lock[w] = r THEN "free" ELSE lock[w]]
    /\ UNCHANGED pc

\* The bound on the body is asked again for every frame.
OverBound(r) == r = "up" /\ Frame(r) \in {"big", "early"} /\ ~authenticated

ReadHeader(r) ==
    /\ At(r, "header") /\ HeaderThere(r)
    /\ IF Frame(r) = "malformed" \/ OverBound(r)
       THEN Return(r, IF OverBound(r) THEN "overBound" ELSE "error")
       ELSE Goto(r, "body") /\ UNCHANGED lock
    /\ UNCHANGED <<script, sent, eof, taken, writer, wire, authenticated, shutdown, grace, result>>

\* EOF where a header is due, inside one included, or the shutdown signal;
\* select! is biased to what can be read.
LoopEnds(r) ==
    /\ At(r, "header") /\ ~HeaderThere(r)
    /\ eof[r] \/ shutdown
    /\ Goto(r, "closing")
    /\ UNCHANGED <<script, sent, eof, taken, lock, writer, wire, authenticated, shutdown,
                   grace, result>>

\* forward.lock().await.shutdown().
CloseForward(r) ==
    /\ At(r, "closing") /\ lock[r] = "free"
    /\ writer' = [writer EXCEPT ![r] = IF @ = "open" THEN "shut" ELSE @]
    /\ Return(r, "ok")
    /\ UNCHANGED <<script, sent, eof, taken, wire, authenticated, shutdown, grace, result>>

\* What the relay does with a frame of each kind that is not an error.
Action(kind) ==
    CASE kind = "answered" -> "reply"
      [] kind = "refused" -> "refuse"
      [] OTHER -> "forward"

Fails(kind) == kind \in {"bad", "huge"}

\* note_authentication runs in the transform, before the frame is forwarded.
Noted(r) == authenticated \/ (r = "down" /\ Frame(r) = "auth")

\* The body is read and transformed.
ReadBody(r) ==
    /\ At(r, "body") /\ BodyThere(r)
    /\ authenticated' = Noted(r)
    /\ \/ /\ Fails(Frame(r))
          /\ Return(r, "error")
          /\ UNCHANGED taken
       \/ /\ Frame(r) = "dropped"
          /\ taken' = [taken EXCEPT ![r] = @ + 1]
          /\ Goto(r, "header")
          /\ UNCHANGED lock
       \/ /\ ~Fails(Frame(r)) /\ Frame(r) # "dropped"
          /\ Goto(r, Action(Frame(r)))
          /\ UNCHANGED <<taken, lock>>
    /\ UNCHANGED <<script, sent, eof, writer, wire, shutdown, grace, result>>

\* EOF inside a frame.
BodyEof(r) ==
    /\ At(r, "body") /\ eof[r] /\ ~BodyThere(r)
    /\ Return(r, "error")
    /\ UNCHANGED <<script, sent, eof, taken, writer, wire, authenticated, shutdown, grace, result>>

\* The writer a frame goes to.
Target(r) == IF Frame(r) = "answered" THEN Other(r) ELSE r

Lock(r) ==
    /\ \E where \in {"forward", "reply", "refuse"} : At(r, where)
    /\ lock[Target(r)] = "free"
    /\ lock' = [lock EXCEPT ![Target(r)] = r]
    /\ Goto(r, "writeHeader")
    /\ UNCHANGED <<script, sent, eof, taken, writer, wire, authenticated, shutdown, grace, result>>

Put(r, part) == wire' = [wire EXCEPT ![Target(r)] = Append(@, Part(r, taken[r] + 1, part))]

\* Mutant of HeldThrough: each write locks the writer for itself.
HeldPerWrite(r) == "free"

\* The writer stays locked from the header to the body.
HeldThrough(r) == r

WriteHeader(r) ==
    /\ At(r, "writeHeader") /\ writer[Target(r)] = "open"
    /\ Put(r, "header")
    /\ lock' = [lock EXCEPT ![Target(r)] = HeldThrough(r)]
    /\ Goto(r, "writeBody")
    /\ UNCHANGED <<script, sent, eof, taken, writer, authenticated, shutdown, grace, result>>

\* Mutant of Written: the relay goes on after a refusal.
WrittenOn(r) == Goto(r, "header") /\ taken' = [taken EXCEPT ![r] = @ + 1] /\ UNCHANGED writer

\* A refused result closes the receiver's half, and then the sender's.
Written(r) ==
    /\ taken' = [taken EXCEPT ![r] = @ + 1]
    /\ IF Frame(r) = "refused"
       THEN Goto(r, "closeBack") /\ writer' = [writer EXCEPT ![r] = "shut"]
       ELSE Goto(r, "header") /\ UNCHANGED writer

WriteBody(r) ==
    /\ At(r, "writeBody") /\ writer[Target(r)] = "open"
    /\ Put(r, "body")
    /\ lock' = [lock EXCEPT ![Target(r)] = "free"]
    /\ Written(r)
    /\ UNCHANGED <<script, sent, eof, authenticated, shutdown, grace, result>>

\* A write to a writer that was shut down fails, and so may any other; then
\* the connection is gone.
WriteFails(r) ==
    /\ At(r, "writeHeader") \/ At(r, "writeBody")
    /\ writer' = [writer EXCEPT ![Target(r)] = IF @ = "open" THEN "broken" ELSE @]
    /\ Return(r, "error")
    /\ UNCHANGED <<script, sent, eof, taken, wire, authenticated, shutdown, grace, result>>

CloseBack(r) ==
    /\ At(r, "closeBack") /\ lock[Other(r)] = "free"
    /\ writer' = [writer EXCEPT ![Other(r)] = IF @ = "open" THEN "shut" ELSE @]
    /\ Return(r, "ok")
    /\ UNCHANGED <<script, sent, eof, taken, wire, authenticated, shutdown, grace, result>>

-----------------------------------------------------------------------------
(* join_relays *)

Ended(r) == outcome[r] # "running"

\* ended.and(rest).
Joined(a, b) == IF a = "ok" /\ b = "ok" THEN "ok" ELSE "error"

BothEnded ==
    /\ result = "open"
    /\ \A r \in Relay : Ended(r)
    /\ result' = Joined(outcome[first], outcome[Other(first)])
    /\ UNCHANGED <<script, sent, eof, taken, pc, lock, writer, wire, authenticated,
                   shutdown, outcome, first, grace>>

\* Mutant of Waited: both relays are waited for without limit.
WaitedForever == FALSE

Waited == grace = Grace

\* The second relay had its time: it is cancelled wherever it is.
Cut ==
    /\ result = "open"
    /\ first # "none" /\ ~Ended(Other(first))
    /\ Waited
    /\ result' = IF outcome[first] = "ok" THEN "cut" ELSE "error"
    /\ lock' = [w \in Relay |-> "free"]
    /\ UNCHANGED <<script, sent, eof, taken, pc, writer, wire, authenticated, shutdown,
                   outcome, first, grace>>

\* drain_sessions gives up on the session.
Abort ==
    /\ result = "open" /\ shutdown
    /\ result' = "aborted"
    /\ lock' = [w \in Relay |-> "free"]
    /\ UNCHANGED <<script, sent, eof, taken, pc, writer, wire, authenticated, shutdown,
                   outcome, first, grace>>

GraceTick ==
    /\ result = "open"
    /\ first # "none" /\ ~Ended(Other(first))
    /\ grace < Grace
    /\ grace' = grace + 1
    /\ UNCHANGED <<script, sent, eof, taken, pc, lock, writer, wire, authenticated,
                   shutdown, outcome, first, result>>

RelayStep(r) ==
    \/ ReadHeader(r) \/ LoopEnds(r) \/ CloseForward(r) \/ ReadBody(r) \/ BodyEof(r)
    \/ Lock(r) \/ WriteHeader(r) \/ WriteBody(r) \/ WriteFails(r) \/ CloseBack(r)

RelaysNext ==
    \/ \E r \in Relay : Send(r) \/ Hang(r) \/ RelayStep(r)
    \/ Stop \/ Abort \/ BothEnded \/ Cut \/ GraceTick

-----------------------------------------------------------------------------

\* Each peer is sent whole frames: a body directly after its own header, though
\* two relays write to it.  A frame is left without its body only while its
\* relay writes it, when the connection broke, or when the session was ended
\* with the process, or after the whole grace period.
WholeFrames ==
    \A w \in Relay :
        LET s == wire[w] IN
        /\ \A i \in 1..Len(s) :
               /\ i % 2 = 1 => s[i].part = "header"
               /\ i % 2 = 0 => s[i] = [s[i - 1] EXCEPT !.part = "body"]
        /\ Len(s) % 2 = 1 => \/ lock[w] # "free" \/ writer[w] = "broken"
                             \/ result = "aborted"
                             \/ result \in {"cut", "error"} /\ grace = Grace

\* After a refused result nothing more reaches the client, and once the relay
\* has returned the server's half is closed too, so the batch is rolled back.
RefusalIsLast ==
    \A i \in 1..Len(wire.down) :
        wire.down[i].from = "down" /\ script.down[wire.down[i].frame] = "refused"
            /\ wire.down[i].part = "body" =>
            /\ i = Len(wire.down)
            /\ outcome.down = "ok" => \A w \in Relay : writer[w] # "open"

\* A session one of whose relays has ended comes to its end, whatever the peers
\* do.
SessionEnds == first # "none" ~> result # "open"

=============================================================================
