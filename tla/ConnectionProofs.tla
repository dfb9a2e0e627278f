-------------------------- MODULE ConnectionProofs --------------------------
(***************************************************************************)
(* Proofs about module Connection and the two it composes, for any frames  *)
(* the peers send and any time limits.                                     *)
(***************************************************************************)
EXTENDS Connection, TLAPS

(* The startup phase *)

\* What is negotiated at each stage.
LegsInv ==
    /\ clientLeg \in {"plain", "tls"}
    /\ stage \in {"connect", "upstreamTls", "forward", "relay"} =>
           (tls.acceptor => clientLeg = "tls")
    /\ stage \in {"forward", "relay"} => (tls.connector => upstreamLeg = "tls")

\* No leg is needed yet at the start.
LEMMA InitLegs == Init => LegsInv
BY DEF Init, StartupInit, LegsInv

\* Each step of the startup leaves the message stage with the client's leg
\* settled, and the connection with the server's.
LEMMA NextLegs == LegsInv /\ [Next]_connectionVars => LegsInv'
<1> SUFFICES ASSUME LegsInv, [Next]_connectionVars PROVE LegsInv'
  OBVIOUS
<1>1. CASE StartupNext
  <2> USE <1>1 DEF LegsInv, Go
  <2>1. CASE HangUp \/ BadMessage \/ AskTls \/ AskGss \/ Handshake
    <3>1. /\ stage' \in {"gone", "failed", "message", "handshake"}
          /\ clientLeg' \in {clientLeg, "tls"}
      BY <2>1 DEF HangUp, BadMessage, AskTls, AskGss, Handshake
    <3> QED
      BY <3>1
  <2>2. CASE RealMessage
    BY <2>2 DEF RealMessage
  <2>3. CASE Connect
    BY <2>3 DEF Connect
  <2>4. CASE UpstreamTls \/ ForwardStartup
    BY <2>4 DEF UpstreamTls, ForwardStartup
  <2>5. CASE StepFails \/ TimedOut \/ StartupTick
    BY <2>5 DEF StepFails, TimedOut, StartupTick
  <2> QED
    BY <2>1, <2>2, <2>3, <2>4, <2>5 DEF StartupNext
<1>2. CASE UNCHANGED startupVars
  BY <1>2 DEF startupVars, LegsInv
<1> QED
  BY <1>1, <1>2 DEF Next, connectionVars

\* A startup message goes upstream only over the legs the configuration asks for
\* (start_session, read_startup_message and request_upstream_tls).
THEOREM LegsTheorem == Spec => []LegsAsConfigured
<1>1. LegsInv => LegsAsConfigured
  BY DEF LegsInv, LegsAsConfigured
<1> QED
  BY InitLegs, NextLegs, <1>1, PTL DEF Spec

-----------------------------------------------------------------------------
(* The relays *)

Parts == [from : Relay, frame : Nat, part : {"header", "body"}]
Places == {"header", "body", "closing", "forward", "reply", "refuse", "writeHeader",
           "writeBody", "closeBack"}

RelayTypes ==
    /\ taken \in [Relay -> Nat]
    /\ pc \in [Relay -> Places]
    /\ lock \in [Relay -> Relay \cup {"free"}]
    /\ writer \in [Relay -> {"open", "shut", "broken"}]
    /\ wire \in [Relay -> Seq(Parts)]
    /\ outcome \in [Relay -> {"running", "ok", "error", "overBound"}]

Live(r) == result = "open" /\ outcome[r] = "running"
Writing(r) == pc[r] \in {"writeHeader", "writeBody"}

\* A writer is held by the relay that writes a frame to it, and by no other.
LockInv ==
    /\ \A r \in Relay : Live(r) /\ Writing(r) => lock[Target(r)] = r
    /\ \A w \in Relay : lock[w] # "free" =>
           Live(lock[w]) /\ Writing(lock[w]) /\ Target(lock[w]) = w

Alternates(s) ==
    \A i \in 1..Len(s) :
        /\ i % 2 = 1 => s[i].part = "header"
        /\ i % 2 = 0 => s[i] = [s[i - 1] EXCEPT !.part = "body"]

Half(w) == Len(wire[w]) % 2 = 1
InBody(w) == lock[w] # "free" /\ pc[lock[w]] = "writeBody"

\* The writer is where its holder is: after a header that is the holder's own,
\* or between two frames.
WireAt(w) ==
    /\ Alternates(wire[w])
    /\ InBody(w) =>
           /\ writer[w] = "open" /\ Half(w)
           /\ wire[w][Len(wire[w])] = Part(lock[w], taken[lock[w]] + 1, "header")
    /\ Half(w) => \/ InBody(w) \/ writer[w] = "broken"
                  \/ result = "aborted"
                  \/ result \in {"cut", "error"} /\ grace = Grace

WireInv == \A w \in Relay : WireAt(w)

\* The place of a refused result in what the client was sent.
RefusedAt(i) ==
    /\ wire["down"][i].from = "down" /\ wire["down"][i].part = "body"
    /\ script["down"][wire["down"][i].frame] = "refused"

\* Behind it the client's writer is closed, and the relay only closes the other.
RefusalInv ==
    \A i \in 1..Len(wire["down"]) : RefusedAt(i) =>
        /\ i = Len(wire["down"])
        /\ writer["down"] # "open"
        /\ pc["down"] = "closeBack"
        /\ outcome["down"] = "ok" => writer["up"] # "open"

\* The inductive invariant.
RelaysInv == RelayTypes /\ LockInv /\ WireInv /\ RefusalInv

\* The other peer's relay, and the writer of a frame, are relays.
LEMMA RelayFacts ==
    /\ Relay = {"up", "down"}
    /\ \A r \in Relay : Other(r) \in Relay /\ Other(r) # r /\ Target(r) \in Relay
    /\ "free" \notin Relay
BY DEF Relay, Other, Target

\* Nothing is locked and nothing was written at the start.
LEMMA InitRelays == Init => RelaysInv
<1> SUFFICES ASSUME Init PROVE RelaysInv
  OBVIOUS
<1>1. RelayTypes
  BY DEF Init, RelaysInit, RelayTypes, Places
<1>2. LockInv
  BY DEF Init, RelaysInit, LockInv, Writing, Relay
<1>3. WireInv /\ RefusalInv
  BY RelayFacts DEF Init, RelaysInit, WireInv, WireAt, RefusalInv, Alternates, Half, InBody
<1> QED
  BY <1>1, <1>2, <1>3 DEF RelaysInv

\* A step that writes nothing, locks nothing and leaves the relays in their places.
LEMMA NothingMoves ==
    ASSUME RelaysInv, result = "open" \/ grace' = grace,
           UNCHANGED <<script, taken, pc, lock, writer, wire, outcome, result>>
    PROVE  RelaysInv'
<1>1. RelayTypes' /\ LockInv'
  BY DEF RelaysInv, RelayTypes, LockInv, Live, Writing, Target, Frame, Other
<1>2. WireInv'
  <2>1. \A w \in Relay : /\ Alternates(wire[w])' <=> Alternates(wire[w])
                         /\ InBody(w)' <=> InBody(w)
                         /\ Half(w)' <=> Half(w)
    BY DEF Alternates, Half, InBody
  <2> QED
    BY <2>1 DEF RelaysInv, WireInv, WireAt, Part
<1>3. RefusalInv'
  BY DEF RelaysInv, RefusalInv, RefusedAt
<1> QED
  BY <1>1, <1>2, <1>3 DEF RelaysInv

\* A relay that does not write moves on to a place where it does not write, and
\* writes nothing.
LEMMA MovesWithoutWriting ==
    ASSUME RelaysInv, NEW r \in Relay, NEW p \in Places, Live(r), ~Writing(r),
           p \notin {"writeHeader", "writeBody"}, pc[r] # "closeBack",
           pc' = [pc EXCEPT ![r] = p], taken' \in [Relay -> Nat],
           \A q \in Relay : q # r => taken'[q] = taken[q],
           UNCHANGED <<script, lock, writer, wire, outcome, grace, result>>
    PROVE  RelaysInv'
<1>1. RelayTypes'
  BY Zenon DEF RelaysInv, RelayTypes
<1>2. \A w \in Relay : lock[w] # r
  BY RelayFacts DEF RelaysInv, LockInv
<1>3. \A q \in Relay : q # r => pc'[q] = pc[q] /\ Target(q)' = Target(q)
  BY DEF RelaysInv, RelayTypes, Target, Frame, Other
<1>4. pc'[r] = p
  BY DEF RelaysInv, RelayTypes
<1>5. LockInv'
  <2>1. \A q \in Relay : (Live(q) /\ Writing(q) => lock[Target(q)] = q)'
    BY <1>3, <1>4 DEF RelaysInv, LockInv, Live, Writing
  <2>2. \A w \in Relay : lock[w] # "free" => lock[w] \in Relay /\ lock[w] # r
    BY <1>2 DEF RelaysInv, RelayTypes
  <2>3. \A w \in Relay : (lock[w] # "free" =>
             Live(lock[w]) /\ Writing(lock[w]) /\ Target(lock[w]) = w)'
    BY <1>3, <2>2 DEF RelaysInv, LockInv, Live, Writing
  <2> QED
    BY <2>1, <2>3 DEF LockInv
<1>6. WireInv'
  <2>1. \A w \in Relay : lock[w] # "free" =>
            /\ lock[w] \in Relay /\ pc'[lock[w]] = pc[lock[w]]
            /\ taken'[lock[w]] = taken[lock[w]]
    BY <1>2, <1>3 DEF RelaysInv, RelayTypes
  <2>2. \A w \in Relay : /\ Alternates(wire[w])' <=> Alternates(wire[w])
                         /\ InBody(w)' <=> InBody(w)
                         /\ Half(w)' <=> Half(w)
                         /\ InBody(w) => taken'[lock[w]] = taken[lock[w]]
    BY <2>1 DEF Alternates, Half, InBody
  <2> QED
    BY <2>2, Zenon DEF RelaysInv, WireInv, WireAt, Part
<1>7. RefusalInv'
  <2>1. pc["down"] = "closeBack" => pc'["down"] = "closeBack"
    BY RelayFacts DEF RelaysInv, RelayTypes
  <2> QED
    BY <2>1 DEF RelaysInv, RefusalInv, RefusedAt
<1> QED
  BY <1>1, <1>5, <1>6, <1>7 DEF RelaysInv

\* A relay that returns lets go of its writer: one it leaves inside a frame is
\* broken, and one that another relay holds is not touched.
LEMMA ReturnKeeps ==
    ASSUME RelaysInv, NEW r \in Relay, NEW how \in {"ok", "error", "overBound"},
           Live(r), Return(r, how), UNCHANGED <<script, taken, wire, grace, result>>,
           writer' \in [Relay -> {"open", "shut", "broken"}],
           \A w \in Relay : writer'[w] # writer[w] =>
               writer[w] = "open" /\ lock[w] \in {"free", r},
           \A w \in Relay : lock[w] = r /\ pc[r] = "writeBody" => writer'[w] = "broken",
           how = "ok" /\ pc[r] = "closeBack" => writer'[Other(r)] # "open"
    PROVE  RelaysInv'
<1>1. /\ lock' \in [Relay -> Relay \cup {"free"}]
      /\ \A w \in Relay : lock'[w] = IF lock[w] = r THEN "free" ELSE lock[w]
  BY RelayFacts DEF RelaysInv, RelayTypes, Return
<1>2. /\ pc' = pc /\ outcome'[r] = how
      /\ \A q \in Relay : q # r => outcome'[q] = outcome[q]
      /\ outcome' \in [Relay -> {"running", "ok", "error", "overBound"}]
  BY DEF RelaysInv, RelayTypes, Return
<1>3. RelayTypes'
  BY <1>1, <1>2 DEF RelaysInv, RelayTypes
<1>4. \A q \in Relay : Target(q)' = Target(q)
  BY DEF Target, Frame, Other
<1>5. LockInv'
  <2>1. ASSUME NEW q \in Relay, Live(q)', Writing(q)' PROVE lock'[Target(q)'] = q
    <3>1. q # r /\ lock[Target(q)] = q
      BY <1>2, <2>1 DEF RelaysInv, LockInv, Live, Writing
    <3> QED
      BY <1>1, <1>4, <3>1, RelayFacts
  <2>2. ASSUME NEW w \in Relay, lock'[w] # "free"
        PROVE  (Live(lock[w]) /\ Writing(lock[w]) /\ Target(lock[w]) = w)'
    <3>1. lock'[w] = lock[w] /\ lock[w] # r /\ lock[w] \in Relay
      BY <1>1, <2>2 DEF RelaysInv, RelayTypes
    <3>2. Live(lock[w]) /\ Writing(lock[w]) /\ Target(lock[w]) = w
      BY <3>1, RelayFacts DEF RelaysInv, LockInv
    <3> QED
      BY <1>2, <1>4, <3>1, <3>2 DEF Live, Writing
  <2> QED
    BY <2>1, <2>2 DEF LockInv
<1>6. WireInv'
  <2>1. ASSUME NEW w \in Relay, InBody(w)' PROVE InBody(w) /\ lock'[w] = lock[w]
                                                  /\ writer'[w] = writer[w]
    BY <1>1, <1>2, <2>1 DEF InBody
  <2>2. ASSUME NEW w \in Relay, InBody(w), ~InBody(w)' PROVE writer'[w] = "broken"
    BY <1>1, <1>2, <2>2 DEF InBody
  <2>3. ASSUME NEW w \in Relay, writer[w] = "broken" PROVE writer'[w] = "broken"
    BY <2>3
  <2>4. \A w \in Relay : /\ Alternates(wire[w])' <=> Alternates(wire[w])
                         /\ Half(w)' <=> Half(w)
    BY DEF Alternates, Half
  <2>5. ASSUME NEW w \in Relay PROVE WireAt(w)'
    <3>1. InBody(w)' =>
              /\ writer'[w] = "open" /\ Half(w)'
              /\ wire'[w][Len(wire'[w])] = Part(lock'[w], taken'[lock'[w]] + 1, "header")
      BY <2>1, <2>4 DEF RelaysInv, WireInv, WireAt, Part
    <3>2. Half(w) => InBody(w) \/ writer[w] = "broken"
      BY DEF RelaysInv, WireInv, WireAt, Live
    <3>3. Half(w)' => InBody(w)' \/ writer'[w] = "broken"
      BY <2>2, <2>3, <2>4, <3>2
    <3> QED
      BY <2>4, <3>1, <3>3, Zenon DEF RelaysInv, WireInv, WireAt, Part
  <2> QED
    BY <2>5 DEF WireInv
<1>7. RefusalInv'
  <2> SUFFICES ASSUME NEW i \in 1..Len(wire["down"]), RefusedAt(i)
               PROVE  /\ i = Len(wire["down"])
                      /\ writer'["down"] # "open"
                      /\ pc'["down"] = "closeBack"
                      /\ outcome'["down"] = "ok" => writer'["up"] # "open"
    BY DEF RefusalInv, RefusedAt
  <2>1. /\ i = Len(wire["down"]) /\ writer["down"] # "open" /\ pc["down"] = "closeBack"
        /\ outcome["down"] = "ok" => writer["up"] # "open"
    BY DEF RelaysInv, RefusalInv
  <2>2. writer'["down"] # "open"
    BY <2>1, RelayFacts
  <2>3. CASE r = "down"
    BY <1>2, <2>1, <2>2, <2>3 DEF Other
  <2>4. CASE r = "up"
    BY <1>2, <2>1, <2>2, <2>4, RelayFacts
  <2> QED
    BY <2>3, <2>4, RelayFacts
<1> QED
  BY <1>3, <1>5, <1>6, <1>7 DEF RelaysInv

\* A relay takes a writer that is free.
LEMMA LockKeeps == ASSUME RelaysInv, NEW r \in Relay, Lock(r) PROVE RelaysInv'
<1> DEFINE t == Target(r)
<1>1. /\ Live(r) /\ ~Writing(r) /\ pc[r] # "closeBack" /\ t \in Relay /\ lock[t] = "free"
      /\ lock' = [lock EXCEPT ![t] = r] /\ pc' = [pc EXCEPT ![r] = "writeHeader"]
      /\ UNCHANGED <<script, taken, writer, wire, outcome, grace, result>>
  BY RelayFacts DEF Lock, At, Live, Writing, Goto
<1>2. RelayTypes'
  BY <1>1 DEF RelaysInv, RelayTypes, Places
<1>3. \A q \in Relay : Target(q)' = Target(q)
  BY <1>1 DEF Target, Frame, Other
<1>4. /\ lock'[t] = r /\ pc'[r] = "writeHeader"
      /\ \A q \in Relay : (q # t => lock'[q] = lock[q]) /\ (q # r => pc'[q] = pc[q])
  BY <1>1 DEF RelaysInv, RelayTypes
<1>5. \A w \in Relay : lock[w] # r
  BY <1>1, RelayFacts DEF RelaysInv, LockInv
<1> HIDE DEF t
<1>6. LockInv'
  <2>1. ASSUME NEW q \in Relay, Live(q)', Writing(q)' PROVE lock'[Target(q)'] = q
    <3>1. CASE q = r
      BY <1>3, <1>4, <3>1 DEF t
    <3>2. CASE q # r
      <4>1. lock[Target(q)] = q
        BY <1>1, <1>4, <2>1, <3>2 DEF RelaysInv, LockInv, Live, Writing
      <4> QED
        BY <1>1, <1>3, <1>4, <4>1, RelayFacts
    <3> QED
      BY <3>1, <3>2
  <2>2. ASSUME NEW w \in Relay, lock'[w] # "free"
        PROVE  (Live(lock[w]) /\ Writing(lock[w]) /\ Target(lock[w]) = w)'
    <3>1. CASE w = t
      BY <1>1, <1>3, <1>4, <3>1 DEF Live, Writing, t
    <3>2. CASE w # t
      <4>1. lock'[w] = lock[w] /\ lock[w] # r /\ lock[w] \in Relay
        BY <1>4, <1>5, <2>2, <3>2 DEF RelaysInv, RelayTypes
      <4>2. Live(lock[w]) /\ Writing(lock[w]) /\ Target(lock[w]) = w
        BY <4>1, RelayFacts DEF RelaysInv, LockInv
      <4> QED
        BY <1>1, <1>3, <1>4, <4>1, <4>2 DEF Live, Writing
    <3> QED
      BY <3>1, <3>2
  <2> QED
    BY <2>1, <2>2 DEF LockInv
<1>7. WireInv'
  <2>1. \A w \in Relay : InBody(w)' <=> InBody(w)
    BY <1>1, <1>4, <1>5, RelayFacts DEF InBody, RelaysInv, RelayTypes
  <2>2. \A w \in Relay : InBody(w)' => lock'[w] = lock[w]
    BY <1>4, <2>1 DEF InBody
  <2>3. \A w \in Relay : /\ Alternates(wire[w])' <=> Alternates(wire[w])
                         /\ Half(w)' <=> Half(w)
    BY <1>1 DEF Alternates, Half
  <2> QED
    BY <1>1, <2>1, <2>2, <2>3, Zenon DEF RelaysInv, WireInv, WireAt, Part
<1>8. RefusalInv'
  <2>1. pc["down"] = "closeBack" => pc'["down"] = "closeBack"
    BY <1>1, <1>4, RelayFacts
  <2> QED
    BY <1>1, <2>1 DEF RelaysInv, RefusalInv, RefusedAt
<1> QED
  BY <1>2, <1>6, <1>7, <1>8 DEF RelaysInv

\* One more part on a wire: what it is at each place.
LEMMA AppendFacts ==
    ASSUME NEW s \in Seq(Parts), NEW x \in Parts
    PROVE  /\ Append(s, x) \in Seq(Parts)
           /\ Len(Append(s, x)) = Len(s) + 1 /\ Len(s) \in Nat
           /\ Append(s, x)[Len(s) + 1] = x
           /\ \A i \in 1..Len(s) : Append(s, x)[i] = s[i]
OBVIOUS

\* A header goes behind whole frames, a body behind its own header.
LEMMA AlternatesOn ==
    ASSUME NEW s \in Seq(Parts), NEW x \in Parts, Alternates(s),
           \/ Len(s) % 2 = 0 /\ x.part = "header"
           \/ Len(s) % 2 = 1 /\ x = [s[Len(s)] EXCEPT !.part = "body"]
    PROVE  Alternates(Append(s, x))
<1> DEFINE t == Append(s, x)
<1>1. /\ Len(t) = Len(s) + 1 /\ Len(s) \in Nat /\ t[Len(s) + 1] = x
      /\ \A i \in 1..Len(s) : t[i] = s[i]
  BY AppendFacts
<1> HIDE DEF t
<1>2. ASSUME NEW i \in 1..Len(t)
      PROVE  /\ i % 2 = 1 => t[i].part = "header"
             /\ i % 2 = 0 => t[i] = [t[i - 1] EXCEPT !.part = "body"]
  <2>1. CASE i = Len(s) + 1
    <3>1. CASE Len(s) % 2 = 0 /\ x.part = "header"
      BY <1>1, <2>1, <3>1
    <3>2. CASE Len(s) % 2 = 1 /\ x = [s[Len(s)] EXCEPT !.part = "body"]
      <4>1. i - 1 = Len(s) /\ i - 1 \in 1..Len(s) /\ i % 2 = 0
        BY <1>1, <2>1, <3>2
      <4> QED
        BY <1>1, <2>1, <3>2, <4>1
    <3> QED
      BY <3>1, <3>2
  <2>2. CASE i # Len(s) + 1
    <3>1. i \in 1..Len(s) /\ t[i] = s[i]
      BY <1>1, <2>2
    <3>2. i % 2 = 0 => i - 1 \in 1..Len(s) /\ t[i - 1] = s[i - 1]
      BY <1>1, <3>1
    <3> QED
      BY <3>1, <3>2, Zenon DEF Alternates
  <2> QED
    BY <2>1, <2>2
<1> QED
  BY <1>2, Zenon DEF Alternates, t

\* What a part is, and the parity of a wire that grows by one.
LEMMA PartFacts ==
    ASSUME NEW r \in Relay, NEW n \in Nat
    PROVE  /\ Part(r, n, "header") \in Parts
           /\ Part(r, n, "header").part = "header"
           /\ Part(r, n, "body") \in Parts
           /\ Part(r, n, "body").from = r
           /\ Part(r, n, "body").frame = n
           /\ Part(r, n, "body") = [Part(r, n, "header") EXCEPT !.part = "body"]
BY DEF Part, Parts

LEMMA Parity ==
    \A n \in Nat : /\ n % 2 # 1 => n % 2 = 0 /\ (n + 1) % 2 = 1
                   /\ n % 2 = 1 => (n + 1) % 2 = 0 /\ (n + 1) % 2 # 1
OBVIOUS

\* What the holder of a writer knows when it writes to it.
LEMMA HolderKnows ==
    ASSUME RelaysInv, NEW r \in Relay, Live(r), Writing(r), writer[Target(r)] = "open"
    PROVE  /\ Target(r) \in Relay /\ lock[Target(r)] = r
           /\ pc[r] = "writeHeader" => ~Half(Target(r))
           /\ pc[r] = "writeBody" =>
                  /\ Half(Target(r))
                  /\ wire[Target(r)][Len(wire[Target(r)])] = Part(r, taken[r] + 1, "header")
           /\ \A w \in Relay : w # Target(r) => lock[w] # r
<1>1. Target(r) \in Relay /\ lock[Target(r)] = r
  BY RelayFacts DEF RelaysInv, LockInv
<1>2. WireAt(Target(r))
  BY <1>1 DEF RelaysInv, WireInv
<1>3. \A w \in Relay : w # Target(r) => lock[w] # r
  BY RelayFacts DEF RelaysInv, LockInv
<1>4. r # "free" /\ result = "open"
  BY RelayFacts DEF Live
<1>5. pc[r] = "writeHeader" => ~InBody(Target(r))
  BY <1>1 DEF InBody
<1>6. pc[r] = "writeBody" => InBody(Target(r))
  BY <1>1, <1>4 DEF InBody
<1> QED
  BY <1>1, <1>2, <1>3, <1>4, <1>5, <1>6 DEF WireAt

\* The header of a frame.
LEMMA WriteHeaderKeeps == ASSUME RelaysInv, NEW r \in Relay, WriteHeader(r) PROVE RelaysInv'
<1>t. PICK t \in Relay : t = Target(r)
  BY RelayFacts
<1>x. PICK x \in Parts : x = Part(r, taken[r] + 1, "header") /\ x.part = "header"
  <2>1. taken[r] + 1 \in Nat
    BY DEF RelaysInv, RelayTypes
  <2>2. LET h == Part(r, taken[r] + 1, "header") IN h \in Parts /\ h.part = "header"
    BY <2>1, PartFacts
  <2> QED
    BY <2>2
<1>1. /\ Live(r) /\ pc[r] = "writeHeader" /\ Writing(r) /\ writer[t] = "open"
      /\ wire' = [wire EXCEPT ![t] = Append(@, x)]
      /\ lock' = [lock EXCEPT ![t] = r] /\ pc' = [pc EXCEPT ![r] = "writeBody"]
      /\ UNCHANGED <<script, taken, writer, outcome, grace, result>>
  BY <1>t, <1>x DEF WriteHeader, At, Live, Writing, Put, HeldThrough, Goto
<1>2. lock[t] = r /\ ~Half(t) /\ \A w \in Relay : w # t => lock[w] # r
  BY <1>t, <1>1, HolderKnows
<1>3. wire[t] \in Seq(Parts)
  BY DEF RelaysInv, RelayTypes
<1>4. /\ lock' = lock
      /\ \A w \in Relay : w # t => wire'[w] = wire[w]
      /\ wire'[t] = Append(wire[t], x)
      /\ pc'[r] = "writeBody" /\ \A q \in Relay : q # r => pc'[q] = pc[q]
  BY <1>1, <1>2 DEF RelaysInv, RelayTypes
<1>5. /\ wire'[t] \in Seq(Parts) /\ Len(wire'[t]) = Len(wire[t]) + 1
      /\ Len(wire[t]) \in Nat /\ wire'[t][Len(wire'[t])] = x
      /\ \A i \in 1..Len(wire[t]) : wire'[t][i] = wire[t][i]
  BY <1>3, <1>4, AppendFacts
<1>6. RelayTypes'
  BY <1>1, <1>4, <1>5 DEF RelaysInv, RelayTypes, Places
<1>7. \A q \in Relay : Target(q)' = Target(q)
  BY <1>1 DEF Target, Frame, Other
<1>8. LockInv'
  <2>1. \A q \in Relay : Live(q)' = Live(q) /\ Writing(q)' = Writing(q)
    BY <1>1, <1>4 DEF Live, Writing
  <2>2. \A w \in Relay : lock[w] # "free" => lock[w] \in Relay
    BY DEF RelaysInv, RelayTypes
  <2> QED
    BY <1>4, <1>7, <2>1, <2>2 DEF RelaysInv, LockInv
<1>9. WireInv'
  <2>1. WireAt(t)'
    <3>1. Alternates(wire'[t])
      <4>1. Alternates(wire[t])
        BY DEF RelaysInv, WireInv, WireAt
      <4>2. Len(wire[t]) % 2 = 0
        BY <1>2, <1>5, Parity, Zenon DEF Half
      <4> QED
        BY <1>x, <1>3, <1>4, <4>1, <4>2, AlternatesOn, Zenon
    <3>2. Half(t)' /\ InBody(t)'
      <4>1. Len(wire'[t]) % 2 = 1
        BY <1>2, <1>5, Parity, ZenonT(30) DEF Half
      <4>2. lock'[t] = r /\ r # "free" /\ pc'[r] = "writeBody"
        BY <1>2, <1>4, RelayFacts
      <4> QED
        BY <4>1, <4>2, Zenon DEF Half, InBody
    <3>3. wire'[t][Len(wire'[t])] = Part(lock'[t], taken'[lock'[t]] + 1, "header")
      BY <1>x, <1>1, <1>2, <1>4, <1>5, Zenon
    <3> QED
      BY <1>1, <3>1, <3>2, <3>3 DEF WireAt
  <2>2. ASSUME NEW w \in Relay, w # t PROVE WireAt(w)'
    <3>. wire'[w] = wire[w]
      BY <1>4, <2>2, Zenon
    <3>1. /\ Alternates(wire[w])' <=> Alternates(wire[w])
          /\ Half(w)' <=> Half(w)
      BY DEF Alternates, Half
    <3>2. InBody(w)' <=> InBody(w)
      BY <1>2, <1>4, <2>2 DEF InBody, RelaysInv, RelayTypes
    <3> QED
      BY <1>1, <1>4, <2>2, <3>1, <3>2, ZenonT(30) DEF RelaysInv, WireInv, WireAt, Part
  <2> QED
    BY <2>1, <2>2 DEF WireInv
<1>10. RefusalInv'
  <2> SUFFICES ASSUME NEW i \in 1..Len(wire'["down"]), RefusedAt(i)'
               PROVE  /\ i = Len(wire'["down"])
                      /\ writer["down"] # "open"
                      /\ pc'["down"] = "closeBack"
                      /\ outcome["down"] = "ok" => writer["up"] # "open"
    BY <1>1 DEF RefusalInv
  <2>1. i \in 1..Len(wire["down"]) /\ wire'["down"][i] = wire["down"][i]
    <3>1. CASE t = "down"
      <4>1. wire'["down"][i].part = "body"
        BY DEF RefusedAt
      <4>2. i # Len(wire'["down"])
        BY <1>x, <1>5, <3>1, <4>1
      <4> QED
        BY <1>5, <3>1, <4>2
    <3>2. CASE t # "down"
      BY <1>4, <3>2, RelayFacts
    <3> QED
      BY <3>1, <3>2
  <2>2. RefusedAt(i)
    BY <1>1, <2>1 DEF RefusedAt
  <2>3. /\ i = Len(wire["down"]) /\ writer["down"] # "open" /\ pc["down"] = "closeBack"
        /\ outcome["down"] = "ok" => writer["up"] # "open"
    BY <2>1, <2>2 DEF RelaysInv, RefusalInv
  <2>4. t # "down" /\ r # "down"
    BY <1>1, <2>3
  <2> QED
    BY <1>4, <2>3, <2>4, RelayFacts
<1> QED
  BY <1>6, <1>8, <1>9, <1>10 DEF RelaysInv

\* The body of a frame, and with it the end of the hold on the writer.  Behind a
\* refused result the client's writer is closed in the same step.
LEMMA WriteBodyKeeps == ASSUME RelaysInv, NEW r \in Relay, WriteBody(r) PROVE RelaysInv'
<1>t. PICK t \in Relay : t = Target(r)
  BY RelayFacts
<1>n. taken[r] \in Nat /\ wire[t] \in Seq(Parts)
  BY DEF RelaysInv, RelayTypes
<1>x. PICK x \in Parts : /\ x = Part(r, taken[r] + 1, "body")
                         /\ x.from = r /\ x.frame = taken[r] + 1
                         /\ x = [Part(r, taken[r] + 1, "header") EXCEPT !.part = "body"]
  <2>1. LET b == Part(r, taken[r] + 1, "body") IN
            /\ b \in Parts /\ b.from = r /\ b.frame = taken[r] + 1
            /\ b = [Part(r, taken[r] + 1, "header") EXCEPT !.part = "body"]
    <3>1. taken[r] + 1 \in Nat
      BY <1>n
    <3> QED
      BY <3>1, PartFacts
  <2> QED
    BY <2>1
<1>1. /\ Live(r) /\ pc[r] = "writeBody" /\ Writing(r) /\ writer[t] = "open"
      /\ wire' = [wire EXCEPT ![t] = Append(@, x)]
      /\ lock' = [lock EXCEPT ![t] = "free"]
      /\ taken' = [taken EXCEPT ![r] = @ + 1]
      /\ UNCHANGED <<script, outcome, grace, result>>
  BY <1>t, <1>x DEF WriteBody, At, Live, Writing, Put, Written, Goto
<1>p. PICK p \in Places : /\ pc' = [pc EXCEPT ![r] = p]
                          /\ p \in {"header", "closeBack"}
                          /\ Frame(r) = "refused" => p = "closeBack"
  BY DEF WriteBody, Written, Goto, Places
<1>w. /\ Frame(r) = "refused" => writer' = [writer EXCEPT ![r] = "shut"] /\ t = r
      /\ Frame(r) # "refused" => writer' = writer
  BY <1>t DEF WriteBody, Written, Target
<1>2. /\ lock[t] = r /\ Half(t) /\ (\A w \in Relay : w # t => lock[w] # r)
      /\ wire[t][Len(wire[t])] = Part(r, taken[r] + 1, "header")
  BY <1>t, <1>1, HolderKnows
<1>4. /\ lock'[t] = "free" /\ (\A w \in Relay : w # t => lock'[w] = lock[w])
      /\ (\A w \in Relay : w # t => wire'[w] = wire[w])
      /\ wire'[t] = Append(wire[t], x)
      /\ pc'[r] = p /\ (\A q \in Relay : q # r => pc'[q] = pc[q] /\ taken'[q] = taken[q])
  BY <1>1, <1>p DEF RelaysInv, RelayTypes
<1>v. /\ \A w \in Relay : w # t => writer'[w] = writer[w]
      /\ Frame(r) = "refused" => writer'[r] = "shut"
  BY <1>w DEF RelaysInv, RelayTypes
<1>5. /\ wire'[t] \in Seq(Parts) /\ Len(wire'[t]) = Len(wire[t]) + 1
      /\ Len(wire[t]) \in Nat /\ wire'[t][Len(wire'[t])] = x
      /\ \A i \in 1..Len(wire[t]) : wire'[t][i] = wire[t][i]
  BY <1>n, <1>4, AppendFacts
<1>6. RelayTypes'
  <2>1. taken' \in [Relay -> Nat] /\ pc' \in [Relay -> Places]
    BY <1>n, <1>1, <1>p DEF RelaysInv, RelayTypes
  <2>2. /\ lock' \in [Relay -> Relay \cup {"free"}]
        /\ writer' \in [Relay -> {"open", "shut", "broken"}]
    BY <1>1, <1>w, Zenon DEF RelaysInv, RelayTypes
  <2>3. wire' \in [Relay -> Seq(Parts)]
    BY <1>1, <1>4, <1>5 DEF RelaysInv, RelayTypes
  <2> QED
    BY <1>1, <2>1, <2>2, <2>3 DEF RelaysInv, RelayTypes
<1>7. \A q \in Relay : q # r => Target(q)' = Target(q)
  BY <1>1, <1>4 DEF Target, Frame, Other
<1>8. LockInv'
  <2>1. ASSUME NEW q \in Relay, Live(q)', Writing(q)' PROVE lock'[Target(q)'] = q
    <3>1. q # r
      BY <1>4, <1>p, <2>1 DEF Writing
    <3>2. lock[Target(q)] = q
      BY <1>1, <1>4, <2>1, <3>1 DEF RelaysInv, LockInv, Live, Writing
    <3> QED
      BY <1>2, <1>4, <1>7, <3>1, <3>2, RelayFacts
  <2>2. ASSUME NEW w \in Relay, lock'[w] # "free"
        PROVE  (Live(lock[w]) /\ Writing(lock[w]) /\ Target(lock[w]) = w)'
    <3>1. w # t /\ lock'[w] = lock[w] /\ lock[w] # r /\ lock[w] \in Relay
      BY <1>2, <1>4, <2>2 DEF RelaysInv, RelayTypes
    <3>2. Live(lock[w]) /\ Writing(lock[w]) /\ Target(lock[w]) = w
      BY <3>1, RelayFacts DEF RelaysInv, LockInv
    <3> QED
      BY <1>1, <1>4, <1>7, <3>1, <3>2 DEF Live, Writing
  <2> QED
    BY <2>1, <2>2 DEF LockInv
<1>9. WireInv'
  <2>1. WireAt(t)'
    <3>1. Alternates(wire'[t])
      <4>1. Alternates(wire[t])
        BY DEF RelaysInv, WireInv, WireAt
      <4>2. Len(wire[t]) % 2 = 1 /\ x = [wire[t][Len(wire[t])] EXCEPT !.part = "body"]
        BY <1>x, <1>2, Zenon DEF Half
      <4> QED
        BY <1>n, <1>4, <4>1, <4>2, AlternatesOn, Zenon
    <3>2. ~Half(t)'
      BY <1>2, <1>5, Parity, Zenon DEF Half
    <3>3. ~InBody(t)'
      BY <1>4 DEF InBody
    <3> QED
      BY <3>1, <3>2, <3>3 DEF WireAt
  <2>2. ASSUME NEW w \in Relay, w # t PROVE WireAt(w)'
    <3>. wire'[w] = wire[w]
      BY <1>4, <2>2
    <3>1. /\ Alternates(wire[w])' <=> Alternates(wire[w])
          /\ Half(w)' <=> Half(w)
      BY DEF Alternates, Half
    <3>2. InBody(w)' <=> InBody(w)
      BY <1>2, <1>4, <2>2 DEF InBody, RelaysInv, RelayTypes
    <3>3. InBody(w) => taken'[lock'[w]] = taken[lock[w]] /\ lock'[w] = lock[w]
      BY <1>2, <1>4, <2>2 DEF InBody, RelaysInv, RelayTypes
    <3> QED
      BY <1>1, <1>4, <1>v, <2>2, <3>1, <3>2, <3>3, ZenonT(30) DEF RelaysInv, WireInv, WireAt, Part
  <2> QED
    BY <2>1, <2>2 DEF WireInv
<1>10. RefusalInv'
  <2> SUFFICES ASSUME NEW i \in 1..Len(wire'["down"]), RefusedAt(i)'
               PROVE  /\ i = Len(wire'["down"])
                      /\ writer'["down"] # "open"
                      /\ pc'["down"] = "closeBack"
                      /\ outcome["down"] = "ok" => writer'["up"] # "open"
    BY <1>1 DEF RefusalInv
  <2>1. CASE t = "down" /\ i = Len(wire'["down"])
    <3>1. wire'["down"][i] = x
      BY <1>5, <2>1
    <3>2. r = "down" /\ script["down"][taken[r] + 1] = "refused"
      <4>1. x.from = r /\ x.frame = taken[r] + 1 /\ script' = script
        BY <1>x, <1>1
      <4>2. x.from = "down" /\ script'["down"][x.frame] = "refused"
        BY <3>1 DEF RefusedAt
      <4> QED
        BY <4>1, <4>2
    <3>3. Frame(r) = "refused" /\ outcome["down"] = "running"
      BY <1>1, <3>2 DEF Frame, Live
    <3> QED
      BY <1>p, <1>v, <1>4, <2>1, <3>2, <3>3
  <2>2. CASE ~(t = "down" /\ i = Len(wire'["down"]))
    <3>1. i \in 1..Len(wire["down"]) /\ wire'["down"][i] = wire["down"][i]
      <4>1. CASE t = "down"
        BY <1>5, <2>2, <4>1
      <4>2. CASE t # "down"
        BY <1>4, <4>2, RelayFacts
      <4> QED
        BY <4>1, <4>2
    <3>2. RefusedAt(i)
      BY <1>1, <3>1 DEF RefusedAt
    <3>3. /\ i = Len(wire["down"]) /\ writer["down"] # "open" /\ pc["down"] = "closeBack"
          /\ outcome["down"] = "ok" => writer["up"] # "open"
      BY <3>1, <3>2 DEF RelaysInv, RefusalInv
    <3>4. t # "down" /\ r # "down"
      BY <1>1, <3>3
    <3>5. t = "up" /\ outcome["down"] # "ok"
      BY <1>1, <3>3, <3>4, RelayFacts
    <3> QED
      BY <1>4, <1>v, <3>3, <3>4, <3>5, RelayFacts
  <2> QED
    BY <2>1, <2>2
<1> QED
  BY <1>6, <1>8, <1>9, <1>10 DEF RelaysInv

\* The steps of a relay that end it.
LEMMA EndsKeep ==
    ASSUME RelaysInv, NEW r \in Relay,
           \/ ReadHeader(r) /\ pc' = pc
           \/ ReadBody(r) /\ Fails(Frame(r))
           \/ BodyEof(r) \/ CloseForward(r) \/ WriteFails(r) \/ CloseBack(r)
    PROVE  RelaysInv'
<1>o. Other(r) \in Relay /\ Target(r) \in Relay /\ r # "free"
  BY RelayFacts
<1>t. RelayTypes
  BY DEF RelaysInv
<1>1. CASE ReadHeader(r) /\ pc' = pc
  <2>1. /\ Live(r) /\ pc[r] = "header"
        /\ UNCHANGED <<script, taken, wire, writer, grace, result>>
    BY <1>1, Zenon DEF ReadHeader, At, Live
  <2>2. pc # [pc EXCEPT ![r] = "body"]
    BY <1>t, <2>1 DEF RelayTypes
  <2>3. PICK how \in {"error", "overBound"} : Return(r, how)
    BY <1>1, <2>2 DEF ReadHeader, Goto
  <2> QED
    BY <1>t, <2>1, <2>3, ReturnKeeps, Zenon DEF RelayTypes
<1>2. CASE (ReadBody(r) /\ Fails(Frame(r))) \/ BodyEof(r)
  <2>1. /\ Live(r) /\ pc[r] = "body" /\ Return(r, "error")
        /\ UNCHANGED <<script, taken, wire, writer, grace, result>>
    BY <1>2, Zenon DEF ReadBody, BodyEof, At, Live, Fails
  <2> QED
    BY <1>t, <2>1, ReturnKeeps, ZenonT(30) DEF RelayTypes
<1>3. CASE CloseForward(r) \/ CloseBack(r)
  <2>1. PICK w \in Relay : /\ writer' = [writer EXCEPT ![w] = IF @ = "open" THEN "shut" ELSE @]
                           /\ lock[w] = "free"
                           /\ pc[r] = "closeBack" => w = Other(r)
    BY <1>o, <1>3 DEF CloseForward, CloseBack, At
  <2>2. /\ Live(r) /\ pc[r] # "writeBody" /\ Return(r, "ok")
        /\ UNCHANGED <<script, taken, wire, grace, result>>
    BY <1>3, Zenon DEF CloseForward, CloseBack, At, Live
  <2>3. /\ writer' \in [Relay -> {"open", "shut", "broken"}]
        /\ writer'[w] # "open"
        /\ \A v \in Relay : writer'[v] # writer[v] => v = w /\ writer[v] = "open"
    BY <1>t, <2>1 DEF RelayTypes
  <2> QED
    BY <2>1, <2>2, <2>3, ReturnKeeps
<1>4. CASE WriteFails(r)
  <2>t. PICK t \in Relay : t = Target(r)
    BY <1>o
  <2>1. /\ Live(r) /\ Writing(r) /\ pc[r] # "closeBack" /\ Return(r, "error")
        /\ writer' = [writer EXCEPT ![t] = IF @ = "open" THEN "broken" ELSE @]
        /\ UNCHANGED <<script, taken, wire, grace, result>>
    BY <1>4, <2>t DEF WriteFails, At, Live, Writing
  <2>2. lock[t] = r /\ \A w \in Relay : lock[w] = r => w = t
    BY <1>o, <2>t, <2>1 DEF RelaysInv, LockInv
  <2>3. pc[r] = "writeBody" => writer[t] = "open"
    BY <1>o, <2>2 DEF RelaysInv, WireInv, WireAt, InBody
  <2>4. /\ writer' \in [Relay -> {"open", "shut", "broken"}]
        /\ writer[t] = "open" => writer'[t] = "broken"
        /\ \A v \in Relay : writer'[v] # writer[v] => v = t /\ writer[v] = "open"
    BY <1>t, <2>1 DEF RelayTypes
  <2> QED
    BY <2>1, <2>2, <2>3, <2>4, ReturnKeeps
<1> QED
  BY <1>1, <1>2, <1>3, <1>4

\* The steps of a relay that read.
LEMMA ReadsKeep ==
    ASSUME RelaysInv, NEW r \in Relay, ReadHeader(r) \/ LoopEnds(r) \/ ReadBody(r)
    PROVE  RelaysInv'
<1>t. RelayTypes
  BY DEF RelaysInv
<1>1. CASE \/ ReadHeader(r) /\ pc' # pc
           \/ LoopEnds(r)
           \/ ReadBody(r) /\ ~Fails(Frame(r))
  <2>1. /\ Live(r) /\ ~Writing(r) /\ pc[r] # "closeBack"
        /\ UNCHANGED <<script, lock, writer, wire, outcome, grace, result>>
    BY <1>1, Zenon DEF ReadHeader, LoopEnds, ReadBody, At, Live, Writing, Goto, Return, Fails
  <2>2. /\ taken' \in [Relay -> Nat]
        /\ \A q \in Relay : q # r => taken'[q] = taken[q]
    <3>1. taken' = taken \/ taken' = [taken EXCEPT ![r] = @ + 1]
      BY <1>1, Zenon DEF ReadHeader, LoopEnds, ReadBody
    <3> QED
      BY <1>t, <3>1 DEF RelayTypes
  <2>3. PICK p \in {"body", "closing", "header", "reply", "refuse", "forward"} :
            pc' = [pc EXCEPT ![r] = p]
    <3>1. CASE ReadHeader(r) /\ pc' # pc
      BY <3>1 DEF ReadHeader, Goto, Return
    <3>2. CASE LoopEnds(r)
      BY <3>2 DEF LoopEnds, Goto
    <3>3. CASE ReadBody(r) /\ ~Fails(Frame(r))
      <4>1. Action(Frame(r)) \in {"reply", "refuse", "forward"}
        BY DEF Action
      <4> QED
        BY <3>3, <4>1 DEF ReadBody, Goto
    <3> QED
      BY <1>1, <3>1, <3>2, <3>3
  <2>4. p \in Places /\ p \notin {"writeHeader", "writeBody"}
    BY DEF Places
  <2> QED
    BY <2>1, <2>2, <2>3, <2>4, MovesWithoutWriting, Zenon
<1>2. CASE \/ ReadHeader(r) /\ pc' = pc
           \/ ReadBody(r) /\ Fails(Frame(r))
  BY <1>2, EndsKeep
<1> QED
  BY <1>1, <1>2

\* The session is over: no writer is held any more, and one that was inside a
\* frame is excused.
LEMMA OverKeeps ==
    ASSUME RelaysInv, result' # "open", lock' = [w \in Relay |-> "free"],
           UNCHANGED <<script, taken, pc, writer, wire, outcome, grace>>,
           \A w \in Relay : Half(w) => \/ writer[w] = "broken" \/ result' = "aborted"
                                       \/ result' \in {"cut", "error"} /\ grace = Grace
    PROVE  RelaysInv'
<1>1. RelayTypes'
  BY DEF RelaysInv, RelayTypes
<1>2. \A w \in Relay : lock'[w] = "free"
  OBVIOUS
<1>3. LockInv'
  BY <1>2 DEF LockInv, Live
<1>4. WireInv'
  <2>1. \A w \in Relay : /\ Alternates(wire[w])' <=> Alternates(wire[w])
                         /\ Half(w)' <=> Half(w)
    BY DEF Alternates, Half
  <2>2. \A w \in Relay : ~InBody(w)'
    BY <1>2 DEF InBody
  <2> QED
    BY <2>1, <2>2, Zenon DEF RelaysInv, WireInv, WireAt
<1>5. RefusalInv'
  BY ZenonT(30) DEF RelaysInv, RefusalInv, RefusedAt
<1> QED
  BY <1>1, <1>3, <1>4, <1>5 DEF RelaysInv

\* join_relays returns, or its task is aborted.
LEMMA JoinKeeps == ASSUME RelaysInv, BothEnded \/ Cut \/ Abort PROVE RelaysInv'
<1>1. CASE BothEnded
  <2>1. \A w \in Relay : lock[w] = "free"
    BY <1>1 DEF BothEnded, Ended, RelaysInv, RelayTypes, LockInv, Live
  <2>2. lock' = [w \in Relay |-> "free"]
    BY <1>1, <2>1 DEF BothEnded, RelaysInv, RelayTypes
  <2>3. result = "open" /\ \A w \in Relay : ~InBody(w)
    BY <1>1, <2>1 DEF BothEnded, InBody
  <2>4. \A w \in Relay : Half(w) => writer[w] = "broken"
    BY <2>3 DEF RelaysInv, WireInv, WireAt
  <2> QED
    BY <1>1, <2>2, <2>4, OverKeeps DEF BothEnded, Joined
<1>2. CASE Cut
  <2>1. result' \in {"cut", "error"} /\ grace = Grace
    BY <1>2 DEF Cut, Waited
  <2> QED
    BY <1>2, <2>1, OverKeeps DEF Cut
<1>3. CASE Abort
  BY <1>3, OverKeeps DEF Abort
<1> QED
  BY <1>1, <1>2, <1>3

\* Every step preserves the invariant.
LEMMA NextRelays == RelaysInv /\ [Next]_connectionVars => RelaysInv'
<1> SUFFICES ASSUME RelaysInv, [Next]_connectionVars PROVE RelaysInv'
  OBVIOUS
<1>1. CASE UNCHANGED relayVars
  BY <1>1, NothingMoves DEF relayVars
<1>2. CASE RelaysNext
  <2>1. ASSUME NEW r \in Relay, Send(r) \/ Hang(r) PROVE RelaysInv'
    BY <2>1, NothingMoves DEF Send, Hang
  <2>2. ASSUME NEW r \in Relay, RelayStep(r) PROVE RelaysInv'
    BY <2>2, ReadsKeep, EndsKeep, LockKeeps, WriteHeaderKeeps, WriteBodyKeeps
       DEF RelayStep
  <2>3. CASE Stop \/ GraceTick
    BY <2>3, NothingMoves DEF Stop, GraceTick
  <2>4. CASE Abort \/ BothEnded \/ Cut
    BY <2>4, JoinKeeps
  <2> QED
    BY <1>2, <2>1, <2>2, <2>3, <2>4 DEF RelaysNext
<1> QED
  BY <1>1, <1>2 DEF Next, connectionVars

\* Each peer is sent whole frames, a body directly after its own header, though
\* two relays write to it and either may be cut off (relay and join_relays).
THEOREM WholeFramesTheorem == Spec => []WholeFrames
<1>1. RelaysInv => WholeFrames
  BY Zenon DEF RelaysInv, WireInv, WireAt, Alternates, Half, InBody, WholeFrames
<1> QED
  BY InitRelays, NextRelays, <1>1, PTL DEF Spec

\* A refused result is the last thing a client is sent, and a relay that
\* returned from it left no half of the session open (relay's refusal branch).
THEOREM RefusalTheorem == Spec => []RefusalIsLast
<1>1. RelaysInv => RefusalIsLast
  BY RelayFacts DEF RelaysInv, RefusalInv, RefusedAt, RefusalIsLast
<1> QED
  BY InitRelays, NextRelays, <1>1, PTL DEF Spec

=============================================================================
