---------------------------- MODULE HandlerProofs ----------------------------
(***************************************************************************)
(* The reply protocol of Handler, for any calls, isolates, routes and      *)
(* faults: at most one reply, a faithful one, and, unless the error        *)
(* listener panics, one for every call that ended; a lane that dies takes  *)
(* only its own calls with it; a call implements RemoteCall.               *)
(***************************************************************************)
EXTENDS Handler, SequenceTheorems, TLAPS

(* What a task sends: at most one message, which says how the body ended. *)
LEMMA MessagesFacts ==
  ASSUME NEW c, NEW out \in {"ok", "err", "panic"}, NEW el1 \in BOOLEAN, NEW el2 \in BOOLEAN,
         el1 \/ el2 => c \in Noisy
  PROVE  /\ \/ Messages(out, el1, el2) = <<>> /\ el2
            \/ \E m \in Actions : Messages(out, el1, el2) = <<m>> /\ Says(c, m, out)
         /\ out = "ok" => Messages(out, el1, el2) = <<"Success">>
  BY DEF Messages, Unwinds, Says, Actions

LEMMA ReturnsType == Returns \subseteq {"ok", "err", "panic"}
  BY DEF Returns

LEMMA ListenerType ==
  ASSUME NEW c
  PROVE  /\ Listener(c) \subseteq BOOLEAN
         /\ \A el \in Listener(c) : el => c \in Noisy
  BY DEF Listener

(* Singletons and the empty sequence. *)
LEMMA Singleton ==
  ASSUME NEW T, NEW m \in T
  PROVE  <<m>> \in Seq(T) /\ <<m>> # <<>> /\ Head(<<m>>) = m /\ Len(<<m>>) = 1
  OBVIOUS

LEMMA TailFacts ==
  ASSUME NEW T, NEW s \in Seq(T), s # <<>>
  PROVE  /\ Tail(s) \in Seq(T)
         /\ DOMAIN s = 1 .. Len(s)
         /\ Head(s) = s[1]
         /\ 1 \in DOMAIN s
         /\ Head(s) \in T
         /\ \A k \in DOMAIN Tail(s) : k \in Nat /\ k # 0 /\ k + 1 \in DOMAIN s /\ Tail(s)[k] = s[k + 1]
  OBVIOUS

LEMMA AppendFacts ==
  ASSUME NEW T, NEW s \in Seq(T), NEW e \in T
  PROVE  /\ Append(s, e) \in Seq(T)
         /\ \A k \in DOMAIN Append(s, e) :
              \/ k \in DOMAIN s /\ Append(s, e)[k] = s[k]
              \/ k = Len(s) + 1 /\ Append(s, e)[k] = e
  OBVIOUS

(* A first send of a task that has sent nothing. *)
LEMMA SendFacts ==
  ASSUME Inv, NEW c \in Calls, rust[c] # "ended",
         NEW out \in {"ok", "err", "panic"}, NEW el1 \in BOOLEAN, NEW el2 \in BOOLEAN,
         el1 \/ el2 => c \in Noisy, NEW p, Send(c, Messages(out, el1, el2), p)
  PROVE  /\ mail' \in [Calls -> Seq(Actions)]
         /\ posted' \in [Calls -> Nat]
         /\ \A d \in Calls \ {c} : mail'[d] = mail[d] /\ posted'[d] = posted[d]
         /\ posted'[c] <= 1
         /\ mail'[c] = <<>> \/ \E m \in Actions : mail'[c] = <<m>> /\ Says(c, m, out)
         /\ p = "open" /\ ~el2 => mail'[c] # <<>>
  <1> DEFINE ms == Messages(out, el1, el2)
  <1>1. mail[c] = <<>> /\ posted[c] = 0
    BY DEF Inv, CallInv
  <1>2. (ms = <<>> /\ el2) \/ \E m \in Actions : ms = <<m>> /\ Says(c, m, out)
    BY DEF Messages, Unwinds, Says, Actions
  <1> HIDE DEF ms
  <1>3. ms \in Seq(Actions) /\ Len(ms) \in Nat /\ Len(ms) <= 1 /\ (~el2 => ms # <<>>)
    <2>1. CASE ms = <<>> /\ el2
      BY <2>1
    <2>2. CASE \E m \in Actions : ms = <<m>>
      <3>1. PICK m \in Actions : ms = <<m>>
        BY <2>2
      <3> QED BY <3>1, Singleton
    <2> QED BY <1>2, <2>1, <2>2
  <1>4. mail[c] \o ms = ms
    BY <1>1, <1>3, ConcatEmptySeq
  <1>5. mail \in [Calls -> Seq(Actions)] /\ posted \in [Calls -> Nat]
    BY DEF Inv, TypeOK
  <1>6. /\ mail' = [mail EXCEPT ![c] = IF Accepts(p) THEN ms ELSE <<>>]
        /\ posted' = [posted EXCEPT ![c] = IF Accepts(p) THEN Len(ms) ELSE 0]
    BY <1>1, <1>4, <1>5 DEF Send, ms
  <1>7. /\ mail'[c] = IF Accepts(p) THEN ms ELSE <<>>
        /\ posted'[c] = IF Accepts(p) THEN Len(ms) ELSE 0
    BY <1>5, <1>6
  <1>8. /\ mail' \in [Calls -> Seq(Actions)]
        /\ posted' \in [Calls -> Nat]
    BY <1>3, <1>5, <1>6, EmptySeq
  <1>9. \A d \in Calls \ {c} : mail'[d] = mail[d] /\ posted'[d] = posted[d]
    BY <1>5, <1>6
  <1>10. mail'[c] = <<>> \/ \E m \in Actions : mail'[c] = <<m>> /\ Says(c, m, out)
    BY <1>2, <1>7
  <1>11. p = "open" /\ ~el2 => mail'[c] # <<>>
    BY <1>3, <1>7 DEF Accepts
  <1>12. posted'[c] <= 1
    BY <1>3, <1>7
  <1> QED BY <1>8, <1>9, <1>10, <1>11, <1>12

-----------------------------------------------------------------------------

LEMMA Initially == Init => Inv
  <1> SUFFICES ASSUME Init PROVE Inv
    OBVIOUS
  <1>1. TypeOK
    BY EmptySeq DEF Init, TypeOK, Places, Executors
  <1>2. QueueInv
    BY DEF Init, QueueInv, Executors
  <1>3. OutcomeFaithful
    BY DEF Init, OutcomeFaithful
  <1>4. \A c \in Calls : CallInv(c)
    BY DEF Init, CallInv
  <1>5. LaneFaultContained
    BY DEF Init, LaneFaultContained
  <1> QED BY <1>1, <1>2, <1>3, <1>4, <1>5 DEF Inv

(* A step that leaves the lanes alone keeps their faults contained, when no   *)
(* ended call is undone, no isolate comes back and no call is lost.           *)
LEMMA ContainedStep ==
  ASSUME LaneFaultContained, lane_up' = lane_up, alive' \subseteq alive,
         \A d \in Calls : rust[d] = "ended" => rust'[d] = "ended" /\ ret'[d] = ret[d],
         \A d \in Calls : rust'[d] = "lost" => rust[d] = "lost" \/ RoutedTo[d] \in Lanes \ lane_up
  PROVE  LaneFaultContained'
  <1>1. ASSUME NEW l \in Lanes \ lane_up'
        PROVE  \E c \in Calls :
                 /\ RoutedTo[c] = l /\ Mode[c] = "normal" /\ rust'[c] = "ended" /\ ret'[c] # "ok"
                 /\ c \in Noisy \/ IsolateOf[c] \notin alive'
    <2>1. PICK c \in Calls :
            /\ RoutedTo[c] = l /\ Mode[c] = "normal" /\ rust[c] = "ended" /\ ret[c] # "ok"
            /\ c \in Noisy \/ IsolateOf[c] \notin alive
      BY DEF LaneFaultContained
    <2> QED BY <2>1
  <1>2. \A c \in Calls : rust'[c] = "lost" => RoutedTo[c] \in Lanes \ lane_up'
    BY DEF LaneFaultContained
  <1> QED BY <1>1, <1>2 DEF LaneFaultContained

(* A step that leaves the queues alone and takes no queued call away. *)
LEMMA QueuesKept ==
  ASSUME TypeOK, QueueInv, queue' = queue,
         \A d \in Calls : rust[d] = "queued" => rust'[d] = "queued"
  PROVE  QueueInv'
  <1>1. \A e \in Executors : \A k \in DOMAIN queue[e] : queue[e][k] \in Calls
    BY DEF TypeOK
  <1> QED BY <1>1 DEF QueueInv

(* Every action preserves the invariant. *)
LEMMA ExecuteStep ==
  ASSUME Inv, NEW c \in Calls, Execute(c)
  PROVE  Inv'
  <1> USE DEF Inv
  <1> DEFINE e == RoutedTo[c]
  <1>0. e \in Executors /\ queue[e] \in Seq(Calls)
    BY HandlerAssumption DEF TypeOK, Executors
  <1>1. TypeOK'
    <2>1. queue' \in [Executors -> Seq(Calls)]
      BY <1>0, AppendFacts DEF TypeOK, Execute
    <2>2. rust' \in [Calls -> Places]
      BY DEF TypeOK, Execute, Places
    <2> QED BY <2>1, <2>2 DEF TypeOK, Execute, Expect
  <1>2. /\ rust[c] = "idle" /\ rust'[c] = "queued" /\ IsolateOf[c] \in alive
        /\ \A d \in Calls \ {c} : rust'[d] = rust[d] /\ future'[d] = future[d] /\ port'[d] = port[d]
        /\ future'[c] = "pending" /\ Mode[c] # "sync" /\ port'[c] = "open"
        /\ UNCHANGED <<alive, lane_up, ret, mail, posted>>
    BY DEF TypeOK, Execute, Expect, CanCall
  <1>3. QueueInv'
    <2>1. queue'[e] = Append(queue[e], c) /\ \A f \in Executors \ {e} : queue'[f] = queue[f]
      BY <1>0 DEF Execute, TypeOK
    <2>2. \A f \in Executors : \A k \in DOMAIN queue[f] : queue[f][k] \in Calls \ {c}
      BY <1>2 DEF QueueInv, TypeOK
    <2>3. \A k \in DOMAIN queue'[e] :
            \/ k \in DOMAIN queue[e] /\ queue'[e][k] = queue[e][k]
            \/ k = Len(queue[e]) + 1 /\ queue'[e][k] = c
      BY <1>0, <2>1, AppendFacts
    <2>4. ASSUME NEW f \in Executors, f # e
          PROVE  /\ \A k \in DOMAIN queue'[f] : rust'[queue'[f][k]] = "queued" /\ RoutedTo[queue'[f][k]] = f
                 /\ \A k, l \in DOMAIN queue'[f] : queue'[f][k] = queue'[f][l] => k = l
      BY <1>2, <2>1, <2>2, <2>4 DEF QueueInv
    <2>5. /\ \A k \in DOMAIN queue'[e] : rust'[queue'[e][k]] = "queued" /\ RoutedTo[queue'[e][k]] = e
          /\ \A k, l \in DOMAIN queue'[e] : queue'[e][k] = queue'[e][l] => k = l
      BY <1>0, <1>2, <2>2, <2>3 DEF QueueInv
    <2> QED BY <2>4, <2>5 DEF QueueInv
  <1>4. OutcomeFaithful'
    BY <1>2 DEF OutcomeFaithful
  <1>5. \A d \in Calls : CallInv(d)'
    BY <1>2 DEF CallInv, Says
  <1>6. LaneFaultContained'
    BY <1>2, ContainedStep
  <1> QED BY <1>1, <1>3, <1>4, <1>5, <1>6

LEMMA EncodeThrowsStep ==
  ASSUME Inv, NEW c \in Calls, EncodeThrows(c)
  PROVE  Inv'
  <1> USE DEF Inv
  <1>1. TypeOK'
    BY DEF TypeOK, EncodeThrows, Places, Settled
  <1>2. /\ rust[c] = "idle" /\ rust'[c] = "unmade" /\ IsolateOf[c] \in alive
        /\ \A d \in Calls \ {c} : rust'[d] = rust[d] /\ future'[d] = future[d] /\ port'[d] = port[d]
        /\ future'[c] = "threw" /\ port'[c] = IF Mode[c] = "sync" THEN port[c] ELSE "open"
        /\ UNCHANGED <<alive, lane_up, queue, ret, mail, posted>>
    BY DEF TypeOK, EncodeThrows, CanCall
  <1>3. QueueInv'
    BY <1>2, QueuesKept
  <1>4. OutcomeFaithful'
    BY <1>2 DEF OutcomeFaithful
  <1>5. \A d \in Calls : CallInv(d)'
    BY <1>2 DEF CallInv, Says
  <1>6. LaneFaultContained'
    BY <1>2, ContainedStep
  <1> QED BY <1>1, <1>3, <1>4, <1>5, <1>6

LEMMA SpawnStep ==
  ASSUME Inv, NEW c \in Calls, Spawn(c) \/ ExecuteOnDeadLane(c)
  PROVE  Inv'
  <1> USE DEF Inv
  <1>1. TypeOK'
    BY DEF TypeOK, Spawn, ExecuteOnDeadLane, Expect, Places
  <1>2. /\ rust[c] = "idle" /\ rust'[c] \in {"spawned", "lost"} /\ IsolateOf[c] \in alive
        /\ rust'[c] = "lost" => RoutedTo[c] \in Lanes \ lane_up
        /\ \A d \in Calls \ {c} : rust'[d] = rust[d] /\ future'[d] = future[d] /\ port'[d] = port[d]
        /\ future'[c] = "pending" /\ Mode[c] # "sync" /\ port'[c] = "open"
        /\ UNCHANGED <<alive, lane_up, queue, ret, mail, posted>>
    BY DEF TypeOK, Spawn, ExecuteOnDeadLane, OnLane, Expect, CanCall
  <1>3. QueueInv'
    BY <1>2, QueuesKept
  <1>4. OutcomeFaithful'
    BY <1>2 DEF OutcomeFaithful
  <1>5. \A d \in Calls : CallInv(d)'
    BY <1>2 DEF CallInv, Says
  <1>6. LaneFaultContained'
    BY <1>2, ContainedStep
  <1> QED BY <1>1, <1>3, <1>4, <1>5, <1>6

LEMMA PreparePanicsStep ==
  ASSUME Inv, NEW c \in Calls, PreparePanics(c)
  PROVE  Inv'
  <1> USE DEF Inv
  <1>1. PICK el2 \in BOOLEAN : Send(c, Messages("panic", FALSE, el2), "open") /\ (el2 => c \in Noisy)
    BY ListenerType DEF PreparePanics
  <1>2. /\ rust[c] = "idle" /\ rust'[c] = "ended" /\ ret'[c] = "panic"
        /\ \A d \in Calls \ {c} : /\ rust'[d] = rust[d] /\ ret'[d] = ret[d]
                                 /\ future'[d] = future[d] /\ port'[d] = port[d]
        /\ future'[c] = "pending" /\ Mode[c] # "sync" /\ UNCHANGED <<alive, lane_up, queue>>
        /\ port'[c] = "open"
    BY DEF TypeOK, PreparePanics, Expect, CanCall
  <1>3. /\ mail' \in [Calls -> Seq(Actions)] /\ posted' \in [Calls -> Nat]
        /\ \A d \in Calls \ {c} : mail'[d] = mail[d] /\ posted'[d] = posted[d]
        /\ posted'[c] <= 1
        /\ mail'[c] = <<>> \/ \E m \in Actions : mail'[c] = <<m>> /\ Says(c, m, "panic")
    BY <1>1, <1>2, SendFacts
  <1>4. TypeOK'
    BY <1>3 DEF TypeOK, PreparePanics, Expect, Places
  <1>5. QueueInv'
    BY <1>2, QueuesKept
  <1>6. OutcomeFaithful'
    BY <1>2 DEF OutcomeFaithful
  <1>7. ASSUME NEW d \in Calls PROVE CallInv(d)'
    <2>1. CASE d = c
      <3>1. mail'[c] = <<>> \/ \E m \in Actions : mail'[c] = <<m>> /\ Says(c, m, ret'[c])
        BY <1>2, <1>3
      <3>2. /\ rust'[c] = "ended" /\ posted'[c] <= 1 /\ Mode[c] # "sync" /\ port'[c] = "open"
            /\ future'[c] = "pending"
        BY <1>2, <1>3
      <3> HIDE DEF Inv
      <3> QED BY <2>1, <3>1, <3>2 DEF CallInv
    <2>2. CASE d # c
      <3>1. /\ rust'[d] = rust[d] /\ ret'[d] = ret[d] /\ future'[d] = future[d] /\ port'[d] = port[d]
            /\ mail'[d] = mail[d] /\ posted'[d] = posted[d] /\ alive' = alive
        BY <1>2, <1>3, <2>2
      <3>2. CallInv(d)
        OBVIOUS
      <3> HIDE DEF Inv
      <3> QED BY <3>1, <3>2 DEF CallInv
    <2> QED BY <2>1, <2>2
  <1>8. LaneFaultContained'
    BY <1>2, ContainedStep
  <1> QED BY <1>4, <1>5, <1>6, <1>7, <1>8

LEMMA ExecuteSyncStep ==
  ASSUME Inv, NEW c \in Calls, ExecuteSync(c)
  PROVE  Inv'
  <1> USE DEF Inv
  <1>1. PICK out \in {"ok", "err", "panic"}, el1 \in BOOLEAN, el2 \in BOOLEAN :
          /\ ret' = [ret EXCEPT ![c] = out]
          /\ LET ms == Messages(out, el1, el2)
             IN future' = [future EXCEPT ![c] = IF ms = <<>> THEN "garbled" ELSE Decode(Head(ms))]
          /\ el1 \/ el2 => c \in Noisy
    <2>1. PICK out \in Returns, el1 \in Listener(c), el2 \in Listener(c) :
            /\ ret' = [ret EXCEPT ![c] = out]
            /\ LET ms == Messages(out, el1, el2)
               IN future' = [future EXCEPT ![c] = IF ms = <<>> THEN "garbled" ELSE Decode(Head(ms))]
      BY DEF ExecuteSync
    <2>2. /\ out \in {"ok", "err", "panic"} /\ el1 \in BOOLEAN /\ el2 \in BOOLEAN
          /\ el1 \/ el2 => c \in Noisy
      BY ReturnsType, ListenerType
    <2> QED BY <2>1, <2>2
  <1> DEFINE f == IF Messages(out, el1, el2) = <<>> THEN "garbled"
                  ELSE Decode(Head(Messages(out, el1, el2)))
  <1>2. /\ f \in {"value", "error", "panic", "garbled"}
        /\ f = "value" => out = "ok"
        /\ f = "error" => out = "err"
        /\ f = "panic" => out = "panic" \/ (out = "err" /\ c \in Noisy)
        /\ f = "garbled" => out # "ok" /\ c \in Noisy
    <2>1. CASE Messages(out, el1, el2) = <<>>
      BY <1>1, <2>1, MessagesFacts, Singleton
    <2>2. CASE \E m \in Actions : Messages(out, el1, el2) = <<m>> /\ Says(c, m, out)
      <3>1. PICK m \in Actions : Messages(out, el1, el2) = <<m>> /\ Says(c, m, out)
        BY <2>2
      <3>2. f = Decode(m)
        BY <3>1, Singleton
      <3> HIDE DEF f
      <3>3. CASE m = "Success"
        BY <3>1, <3>2, <3>3 DEF Decode, Says
      <3>4. CASE m = "Error"
        BY <3>1, <3>2, <3>4 DEF Decode, Says
      <3>5. CASE m = "Panic"
        BY <3>1, <3>2, <3>5 DEF Decode, Says
      <3> QED BY <3>1, <3>3, <3>4, <3>5 DEF Says
    <2>3. \/ Messages(out, el1, el2) = <<>>
          \/ \E m \in Actions : Messages(out, el1, el2) = <<m>> /\ Says(c, m, out)
      <3>1. el1 \/ el2 => c \in Noisy
        BY <1>1
      <3> HIDE DEF Inv, f
      <3> QED BY <3>1 DEF Messages, Unwinds, Says, Actions
    <2> HIDE DEF f
    <2> QED BY <2>1, <2>2, <2>3
  <1>3. future' = [future EXCEPT ![c] = f]
    BY <1>1
  <1> HIDE DEF f
  <1>4. /\ rust[c] = "idle" /\ rust' = [rust EXCEPT ![c] = "ended"] /\ Mode[c] = "sync"
        /\ UNCHANGED <<alive, lane_up, queue, port, mail, posted>>
    BY DEF ExecuteSync, CanCall
  <1>5. /\ rust'[c] = "ended" /\ ret'[c] = out /\ future'[c] = f
        /\ \A d \in Calls \ {c} : rust'[d] = rust[d] /\ ret'[d] = ret[d] /\ future'[d] = future[d]
    BY <1>1, <1>3, <1>4 DEF TypeOK
  <1>6. TypeOK'
    BY <1>1, <1>2, <1>3, <1>4 DEF TypeOK, Places, Settled
  <1>7. QueueInv'
    BY <1>4, <1>5, QueuesKept
  <1>8. OutcomeFaithful'
    BY <1>2, <1>4, <1>5 DEF OutcomeFaithful
  <1>9. \A d \in Calls : CallInv(d)'
    <2>1. future'[c] # "threw"
      BY <1>2, <1>5
    <2> QED BY <1>4, <1>5, <2>1 DEF CallInv
  <1>10. LaneFaultContained'
    BY <1>4, <1>5, ContainedStep
  <1> QED BY <1>6, <1>7, <1>8, <1>9, <1>10

LEMMA StartStep ==
  ASSUME Inv, NEW c \in Calls, Start(c)
  PROVE  Inv'
  <1> USE DEF Inv
  <1> DEFINE e == RoutedTo[c]
             q == queue[e]
  <1>0. e \in Executors /\ q \in Seq(Calls)
    BY HandlerAssumption DEF TypeOK, Executors
  <1>1. /\ q # <<>> /\ c = Head(q) /\ queue'[e] = Tail(q)
        /\ queue' = [queue EXCEPT ![e] = Tail(q)]
        /\ \A f \in Executors \ {e} : queue'[f] = queue[f]
    BY <1>0 DEF TypeOK, Start, Take
  <1>2. /\ c = q[1] /\ 1 \in DOMAIN q /\ queue'[e] \in Seq(Calls)
        /\ \A k \in DOMAIN queue'[e] : k \in Nat /\ k # 0 /\ k + 1 \in DOMAIN q /\ queue'[e][k] = q[k + 1]
    BY <1>0, <1>1, TailFacts
  <1>3. /\ rust[c] = "queued" /\ rust'[c] \in {"spawned", "running"}
        /\ \A d \in Calls \ {c} : rust'[d] = rust[d]
        /\ UNCHANGED <<alive, lane_up, ret, port, mail, posted, future>>
    BY <1>0, <1>2 DEF QueueInv, Start, TypeOK
  <1>4. TypeOK'
    BY <1>0, <1>1, <1>2, <1>3 DEF TypeOK, Start, Places
  <1>5. QueueInv'
    <2>1. ASSUME NEW k \in DOMAIN queue'[e]
          PROVE  /\ queue'[e][k] # c /\ queue'[e][k] \in Calls
                 /\ rust[queue'[e][k]] = "queued" /\ RoutedTo[queue'[e][k]] = e
      <3>1. k + 1 \in DOMAIN q /\ k + 1 # 1 /\ queue'[e][k] = q[k + 1]
        BY <1>2
      <3>2. q[k + 1] # q[1] /\ rust[q[k + 1]] = "queued" /\ RoutedTo[q[k + 1]] = e
        BY <1>0, <1>2, <3>1 DEF QueueInv
      <3>3. q[k + 1] \in Calls
        BY <1>0, <3>1
      <3> QED BY <1>2, <3>1, <3>2, <3>3
    <2>2. ASSUME NEW k \in DOMAIN queue'[e], NEW l \in DOMAIN queue'[e], queue'[e][k] = queue'[e][l]
          PROVE  k = l
      BY <1>0, <1>2, <2>2 DEF QueueInv
    <2>3. ASSUME NEW f \in Executors, f # e
          PROVE  /\ \A k \in DOMAIN queue'[f] : rust'[queue'[f][k]] = "queued" /\ RoutedTo[queue'[f][k]] = f
                 /\ \A k, l \in DOMAIN queue'[f] : queue'[f][k] = queue'[f][l] => k = l
      <3>1. \A k \in DOMAIN queue[f] : queue[f][k] \in Calls \ {c}
        BY <2>3 DEF QueueInv, TypeOK
      <3> QED BY <1>1, <1>3, <2>3, <3>1 DEF QueueInv
    <2> QED BY <1>3, <2>1, <2>2, <2>3 DEF QueueInv
  <1>6. OutcomeFaithful'
    BY <1>3 DEF OutcomeFaithful
  <1>7. \A d \in Calls : CallInv(d)'
    <2>1. rust'[c] = "running" => Mode[c] = "normal"
      <3>1. Mode[c] # "sync"
        BY <1>3 DEF CallInv
      <3> QED BY <3>1, HandlerAssumption DEF Start, TypeOK
    <2> QED BY <1>3, <2>1 DEF CallInv
  <1>8. LaneFaultContained'
    BY <1>3, ContainedStep
  <1> QED BY <1>4, <1>5, <1>6, <1>7, <1>8

(* What becomes of the calls and the lanes when a call ends. *)
LEMMA FinishFacts ==
  ASSUME Inv, NEW c \in Calls, Finish(c)
  PROVE  /\ rust[c] \in {"running", "spawned"} /\ UNCHANGED <<alive, port, future>>
         /\ rust' \in [Calls -> Places] /\ rust'[c] = "ended"
         /\ \E out \in {"ok", "err", "panic"}, el1 \in BOOLEAN, el2 \in BOOLEAN :
              /\ el1 \/ el2 => c \in Noisy
              /\ ret' = [ret EXCEPT ![c] = out]
              /\ Send(c, Messages(out, el1, el2), port[c])
              /\ \/ /\ UNCHANGED <<lane_up, queue>>
                    /\ \A d \in Calls \ {c} : rust'[d] = rust[d]
                 \/ /\ OnLane(c) /\ rust[c] = "running" /\ Escapes(out, el1, el2, port[c])
                    /\ LaneDies(c)
  <1>1. PICK out \in {"ok", "err", "panic"}, el1 \in BOOLEAN, el2 \in BOOLEAN :
          /\ el1 \/ el2 => c \in Noisy
          /\ ret' = [ret EXCEPT ![c] = out]
          /\ Send(c, Messages(out, el1, el2), port[c])
          /\ \/ /\ rust' = [rust EXCEPT ![c] = "ended"]
                /\ UNCHANGED <<lane_up, queue>>
             \/ /\ OnLane(c) /\ rust[c] = "running" /\ Escapes(out, el1, el2, port[c])
                /\ LaneDies(c)
    <2>1. PICK out \in Returns, el1 \in Listener(c), el2 \in Listener(c) :
            /\ ret' = [ret EXCEPT ![c] = out]
            /\ Send(c, Messages(out, el1, el2), port[c])
            /\ IF OnLane(c) /\ rust[c] = "running" /\ Escapes(out, el1, el2, port[c])
                 THEN LaneDies(c)
                 ELSE /\ rust' = [rust EXCEPT ![c] = "ended"]
                      /\ UNCHANGED <<lane_up, queue>>
      BY DEF Finish
    <2>2. /\ out \in {"ok", "err", "panic"} /\ el1 \in BOOLEAN /\ el2 \in BOOLEAN
          /\ el1 \/ el2 => c \in Noisy
      BY ReturnsType, ListenerType
    <2> QED BY <2>1, <2>2
  <1>2. rust[c] \in {"running", "spawned"} /\ UNCHANGED <<alive, port, future>>
    BY DEF Finish, CanFinish
  <1>3. CASE rust' = [rust EXCEPT ![c] = "ended"] /\ UNCHANGED <<lane_up, queue>>
    <2>1. rust' \in [Calls -> Places] /\ rust'[c] = "ended" /\ \A d \in Calls \ {c} : rust'[d] = rust[d]
      BY <1>3 DEF Inv, TypeOK, Places
    <2> QED BY <1>1, <1>2, <1>3, <2>1
  <1>4. CASE LaneDies(c) /\ OnLane(c) /\ rust[c] = "running" /\ Escapes(out, el1, el2, port[c])
    <2>1. rust' \in [Calls -> Places] /\ rust'[c] = "ended"
      BY <1>4 DEF LaneDies, Inv, TypeOK, Places
    <2> QED BY <1>1, <1>2, <1>4, <2>1
  <1> QED BY <1>1, <1>3, <1>4

LEMMA LaneDiesFacts ==
  ASSUME Inv, NEW c \in Calls, OnLane(c), LaneDies(c)
  PROVE  /\ lane_up' = lane_up \ {RoutedTo[c]}
         /\ queue' \in [Executors -> Seq(Calls)]
         /\ queue'[RoutedTo[c]] = <<>>
         /\ \A e \in Executors \ {RoutedTo[c]} : queue'[e] = queue[e]
         /\ \A d \in Calls \ {c} :
              \/ rust'[d] = rust[d] /\ (rust[d] = "queued" => RoutedTo[d] # RoutedTo[c])
              \/ rust[d] \in {"queued", "spawned"} /\ rust'[d] = "lost" /\ RoutedTo[d] = RoutedTo[c]
  <1>1. RoutedTo[c] \in Executors
    BY DEF OnLane, Executors
  <1>2. /\ queue' \in [Executors -> Seq(Calls)] /\ queue'[RoutedTo[c]] = <<>>
        /\ \A e \in Executors \ {RoutedTo[c]} : queue'[e] = queue[e]
    BY <1>1, EmptySeq DEF LaneDies, Inv, TypeOK
  <1>3. ASSUME NEW d \in Calls \ {c}
        PROVE  \/ rust'[d] = rust[d] /\ (rust[d] = "queued" => RoutedTo[d] # RoutedTo[c])
               \/ rust[d] \in {"queued", "spawned"} /\ rust'[d] = "lost" /\ RoutedTo[d] = RoutedTo[c]
    <2>1. rust'[d] = IF RoutedTo[d] = RoutedTo[c] /\ rust[d] \in {"queued", "spawned"} THEN "lost"
                     ELSE rust[d]
      BY DEF LaneDies
    <2> QED BY <2>1
  <1> QED BY <1>2, <1>3 DEF LaneDies

LEMMA FinishStep ==
  ASSUME Inv, NEW c \in Calls, Finish(c)
  PROVE  Inv'
  <1> USE DEF Inv
  <1>1. PICK out \in {"ok", "err", "panic"}, el1 \in BOOLEAN, el2 \in BOOLEAN :
          /\ el1 \/ el2 => c \in Noisy
          /\ ret' = [ret EXCEPT ![c] = out]
          /\ Send(c, Messages(out, el1, el2), port[c])
          /\ \/ /\ UNCHANGED <<lane_up, queue>>
                /\ \A d \in Calls \ {c} : rust'[d] = rust[d]
             \/ /\ OnLane(c) /\ rust[c] = "running" /\ Escapes(out, el1, el2, port[c])
                /\ LaneDies(c)
    BY FinishFacts
  <1>2. /\ rust[c] \in {"running", "spawned"} /\ UNCHANGED <<alive, port, future>>
        /\ rust' \in [Calls -> Places] /\ rust'[c] = "ended"
    BY FinishFacts
  <1>3. /\ mail' \in [Calls -> Seq(Actions)] /\ posted' \in [Calls -> Nat]
        /\ \A d \in Calls \ {c} : mail'[d] = mail[d] /\ posted'[d] = posted[d]
        /\ posted'[c] <= 1
        /\ mail'[c] = <<>> \/ \E m \in Actions : mail'[c] = <<m>> /\ Says(c, m, out)
    BY <1>1, <1>2, SendFacts
  <1>5. ret'[c] = out /\ \A d \in Calls \ {c} : ret'[d] = ret[d]
    BY <1>1 DEF TypeOK
  <1>6. future[c] \notin {"value", "error", "panic", "garbled"}
    BY <1>2 DEF CallInv
  <1>9. OutcomeFaithful'
    BY <1>2, <1>5, <1>6 DEF OutcomeFaithful
  <1>10. CASE UNCHANGED <<lane_up, queue>> /\ \A d \in Calls \ {c} : rust'[d] = rust[d]
    <2>1. TypeOK'
      BY <1>1, <1>2, <1>3, <1>10 DEF TypeOK
    <2>2. QueueInv'
      BY <1>2, <1>10, QueuesKept
    <2>3. LaneFaultContained'
      BY <1>2, <1>5, <1>10, ContainedStep
    <2>4. ASSUME NEW d \in Calls PROVE CallInv(d)'
      <3>1. CASE d = c
        BY <1>2, <1>3, <1>5, <3>1 DEF CallInv
      <3>2. CASE d # c
        BY <1>2, <1>3, <1>5, <1>10, <3>2 DEF CallInv
      <3> QED BY <3>1, <3>2
    <2> QED BY <1>9, <2>1, <2>2, <2>3, <2>4
  <1>11. CASE OnLane(c) /\ rust[c] = "running" /\ Escapes(out, el1, el2, port[c]) /\ LaneDies(c)
    <2>1. /\ lane_up' = lane_up \ {RoutedTo[c]}
          /\ queue' \in [Executors -> Seq(Calls)]
          /\ queue'[RoutedTo[c]] = <<>>
          /\ \A e \in Executors \ {RoutedTo[c]} : queue'[e] = queue[e]
          /\ \A d \in Calls \ {c} :
               \/ rust'[d] = rust[d] /\ (rust[d] = "queued" => RoutedTo[d] # RoutedTo[c])
               \/ rust[d] \in {"queued", "spawned"} /\ rust'[d] = "lost" /\ RoutedTo[d] = RoutedTo[c]
      BY <1>11, LaneDiesFacts
    <2>2. TypeOK'
      BY <1>1, <1>2, <1>3, <2>1 DEF TypeOK
    <2>3. QueueInv'
      <3>1. ASSUME NEW e \in Executors, e # RoutedTo[c], NEW k \in DOMAIN queue[e]
            PROVE  /\ queue[e][k] \in Calls \ {c}
                   /\ rust'[queue[e][k]] = "queued" /\ RoutedTo[queue[e][k]] = e
        <4>1. queue[e][k] \in Calls /\ rust[queue[e][k]] = "queued" /\ RoutedTo[queue[e][k]] = e
          BY DEF QueueInv, TypeOK
        <4> QED BY <1>2, <2>1, <3>1, <4>1
      <3> QED BY <2>1, <3>1 DEF QueueInv
    <2>4. LaneFaultContained'
      <3>1. Mode[c] = "normal" /\ out # "ok" /\ (c \in Noisy \/ IsolateOf[c] \notin alive)
        BY <1>1, <1>11 DEF CallInv, Escapes, Unwinds, Accepts, TypeOK
      <3>2. ASSUME NEW l \in Lanes \ lane_up'
            PROVE  \E d \in Calls :
                     /\ RoutedTo[d] = l /\ Mode[d] = "normal" /\ rust'[d] = "ended" /\ ret'[d] # "ok"
                     /\ d \in Noisy \/ IsolateOf[d] \notin alive'
        <4>1. CASE l = RoutedTo[c]
          BY <1>2, <1>5, <3>1, <4>1
        <4>2. CASE l # RoutedTo[c]
          <5>1. l \in Lanes \ lane_up
            BY <2>1, <4>2
          <5>2. PICK d \in Calls :
                  /\ RoutedTo[d] = l /\ Mode[d] = "normal" /\ rust[d] = "ended" /\ ret[d] # "ok"
                  /\ d \in Noisy \/ IsolateOf[d] \notin alive
            BY <5>1 DEF LaneFaultContained
          <5>3. rust'[d] = "ended" /\ ret'[d] = ret[d]
            BY <1>2, <1>5, <2>1, <5>2
          <5> QED BY <1>2, <5>2, <5>3
        <4> QED BY <4>1, <4>2
      <3>3. ASSUME NEW d \in Calls, rust'[d] = "lost"
            PROVE  RoutedTo[d] \in Lanes \ lane_up'
        BY <1>2, <1>11, <2>1, <3>3 DEF LaneFaultContained, OnLane
      <3> QED BY <3>2, <3>3 DEF LaneFaultContained
    <2>5. CallInv(c)'
      BY <1>2, <1>3, <1>5 DEF CallInv
    <2>6. ASSUME NEW d \in Calls \ {c}
          PROVE  CallInv(d)'
      <3>1. /\ rust'[d] = rust[d] \/ (rust[d] \in {"queued", "spawned"} /\ rust'[d] = "lost")
            /\ ret'[d] = ret[d] /\ mail'[d] = mail[d] /\ posted'[d] = posted[d]
        BY <1>3, <1>5, <2>1
      <3> QED BY <1>2, <3>1 DEF CallInv
    <2> QED BY <1>9, <2>2, <2>3, <2>4, <2>5, <2>6
  <1> QED BY <1>1, <1>10, <1>11

LEMMA ReceiveStep ==
  ASSUME Inv, NEW c \in Calls, Receive(c)
  PROVE  Inv'
  <1> USE DEF Inv
  <1>1. PICK m \in Actions : mail[c] = <<m>> /\ Says(c, m, ret[c])
    BY DEF Receive, CallInv
  <1>2. Head(mail[c]) = m
    BY <1>1, Singleton
  <1>3. rust[c] = "ended" /\ Mode[c] # "sync"
    BY DEF Receive, CallInv
  <1>4. /\ future' = [future EXCEPT ![c] = IF future[c] = "pending" THEN Decode(m) ELSE @]
        /\ mail' = [mail EXCEPT ![c] = <<>>] /\ port' = [port EXCEPT ![c] = "closed"]
        /\ UNCHANGED <<alive, lane_up, queue, rust, ret, posted>>
    BY <1>2 DEF Receive, Settle
  <1>5. Decode(m) \in {"value", "error", "panic"}
    BY DEF Decode
  <1>6. TypeOK'
    BY <1>4, <1>5, EmptySeq DEF TypeOK, Settled
  <1>7. QueueInv'
    BY <1>4 DEF QueueInv
  <1>8. OutcomeFaithful'
    BY <1>1, <1>4 DEF OutcomeFaithful, TypeOK, Decode, Says
  <1>9. \A d \in Calls : CallInv(d)'
    <2>1. ASSUME NEW d \in Calls PROVE future'[d] = "threw" <=> future[d] = "threw"
      BY <1>4, <1>5 DEF TypeOK
    <2> QED BY <1>3, <1>4, <2>1 DEF CallInv, TypeOK
  <1>10. LaneFaultContained'
    BY <1>4 DEF LaneFaultContained
  <1> QED BY <1>6, <1>7, <1>8, <1>9, <1>10

LEMMA TimeoutStep ==
  ASSUME Inv, NEW c \in Calls, Timeout(c)
  PROVE  Inv'
  <1> USE DEF Inv, Timeout
  <1>1. TypeOK'
    BY DEF TypeOK, Settled
  <1>2. QueueInv'
    BY DEF QueueInv
  <1>3. OutcomeFaithful'
    BY DEF OutcomeFaithful, TypeOK
  <1>4. \A d \in Calls : CallInv(d)'
    BY DEF CallInv, TypeOK
  <1>5. LaneFaultContained'
    BY ContainedStep
  <1> QED BY <1>1, <1>2, <1>3, <1>4, <1>5

LEMMA ExitStep ==
  ASSUME Inv, NEW i \in Isolates, Exit(i)
  PROVE  Inv'
  <1> USE DEF Inv, Exit
  <1>1. TypeOK'
    BY EmptySeq DEF TypeOK, Settled
  <1>2. QueueInv'
    BY DEF QueueInv
  <1>3. OutcomeFaithful'
    BY DEF OutcomeFaithful, TypeOK
  <1>4. \A d \in Calls : CallInv(d)'
    BY DEF CallInv, TypeOK
  <1>5. LaneFaultContained'
    BY ContainedStep
  <1> QED BY <1>1, <1>2, <1>3, <1>4, <1>5

LEMMA Preserved == Inv /\ [Next]_vars => Inv'
  <1> SUFFICES ASSUME Inv, [Next]_vars PROVE Inv'
    OBVIOUS
  <1>1. CASE UNCHANGED vars
    BY <1>1 DEF Inv, TypeOK, QueueInv, OutcomeFaithful, CallInv, LaneFaultContained, vars
  <1>2. CASE Next
    BY <1>2, EncodeThrowsStep, SpawnStep, ExecuteStep, PreparePanicsStep, ExecuteSyncStep, StartStep, FinishStep,
       ReceiveStep, TimeoutStep, ExitStep DEF Next
  <1> QED BY <1>1, <1>2

(* The invariant holds throughout: nothing of a call is sent before its end, *)
(* and then at most one message, which tells how its code ended, whatever    *)
(* panics, times out or dies meanwhile.                                      *)
THEOREM Invariance == Spec => []Inv
  BY Initially, Preserved, PTL DEF Spec

(* However the body, the listener and the sends fail, handle_result and     *)
(* handle_non_sync_panic_error send at most one message between them.        *)
THEOREM OneReply == Spec => []AtMostOneReply
  <1>1. Inv => AtMostOneReply
    BY DEF Inv, CallInv, AtMostOneReply
  <1> QED BY <1>1, Invariance, PTL

(* What the caller's future says is how the Rust code ended. *)
THEOREM Faithful == Spec => []OutcomeFaithful
  <1>1. Inv => OutcomeFaithful
    BY DEF Inv
  <1> QED BY <1>1, Invariance, PTL

(* A settled future never changes: a timeout is final, and so is a reply. *)
THEOREM Final == Spec => SettledOnce
  <1>1. Inv /\ [Next]_vars => [\A c \in Calls : future[c] \in Settled => future'[c] = future[c]]_vars
    <2> SUFFICES ASSUME Inv, Next, NEW c \in Calls, future[c] \in Settled
                 PROVE  future'[c] = future[c]
      BY DEF vars
    <2>1. rust[c] # "idle" /\ future[c] # "pending" /\ future \in [Calls -> {"none", "pending"} \cup Settled]
      BY DEF Inv, CallInv, Settled, TypeOK
    <2>2. CASE \E d \in Calls :
                 \/ EncodeThrows(d)
                 \/ Spawn(d) \/ Execute(d) \/ ExecuteOnDeadLane(d) \/ PreparePanics(d) \/ ExecuteSync(d)
      BY <2>1, <2>2 DEF EncodeThrows, Spawn, Execute, ExecuteOnDeadLane, PreparePanics, ExecuteSync, Expect, CanCall
    <2>3. CASE \E d \in Calls : Start(d) \/ Finish(d)
      BY <2>3 DEF Start, Finish
    <2>4. CASE \E d \in Calls : Receive(d) \/ Timeout(d)
      BY <2>1, <2>4 DEF Receive, Settle, Timeout
    <2>5. CASE \E i \in Isolates : Exit(i)
      BY <2>1, <2>5 DEF Exit
    <2> QED BY <2>2, <2>3, <2>4, <2>5 DEF Next
  <1> QED BY <1>1, Invariance, PTL DEF Spec, SettledOnce

(* A lane dies only of a normal call of its own that failed after its        *)
(* isolate was gone or with a panicking listener, and no call of another lane *)
(* or of the pool is lost with it.                                            *)
THEOREM Contained == Spec => []LaneFaultContained
  <1>1. Inv => LaneFaultContained
    BY DEF Inv
  <1> QED BY <1>1, Invariance, PTL

(* When the error listener does not panic in it, a call that ended on the     *)
(* Rust side and whose port is still open has its reply on the way, on every  *)
(* executor: no caller hangs on a task that is over, and no port leaks.       *)
THEOREM Answered == Spec => []EndedIsAnswered
  <1>1. Init => EndedIsAnswered
    BY DEF Init, EndedIsAnswered
  <1>2. Inv /\ EndedIsAnswered /\ [Next]_vars => EndedIsAnswered'
    <2> SUFFICES ASSUME Inv, EndedIsAnswered, [Next]_vars, NEW d \in Calls \ Noisy,
                        rust'[d] = "ended", port'[d] = "open"
                 PROVE  mail'[d] # <<>>
      BY DEF EndedIsAnswered
    <2> USE DEF EndedIsAnswered
    <2>t. TypeOK /\ \A c \in Calls : CallInv(c)
      BY DEF Inv
    <2>1. ASSUME NEW c \in Calls,
                 EncodeThrows(c) \/ Spawn(c) \/ Execute(c) \/ ExecuteOnDeadLane(c)
          PROVE  mail'[d] # <<>>
      BY <2>1, <2>t DEF EncodeThrows, Spawn, Execute, ExecuteOnDeadLane, Expect, CanCall, TypeOK
    <2>2. ASSUME NEW c \in Calls, PreparePanics(c) PROVE mail'[d] # <<>>
      <3>1. PICK el2 \in BOOLEAN : Send(c, Messages("panic", FALSE, el2), "open") /\ (el2 => c \in Noisy)
        BY <2>2, ListenerType DEF PreparePanics
      <3>2. /\ c \notin Noisy => mail'[c] # <<>>
            /\ \A e \in Calls \ {c} : mail'[e] = mail[e]
        <4>1. rust[c] # "ended"
          BY <2>2 DEF PreparePanics, CanCall
        <4> QED BY <3>1, <4>1, SendFacts
      <3>3. d # c => rust[d] = "ended" /\ port[d] = "open"
        BY <2>2, <2>t DEF PreparePanics, Expect, TypeOK
      <3> QED BY <3>2, <3>3
    <2>3. ASSUME NEW c \in Calls, ExecuteSync(c) PROVE mail'[d] # <<>>
      BY <2>3, <2>t DEF ExecuteSync, CanCall, CallInv, TypeOK
    <2>4. ASSUME NEW c \in Calls, Start(c) PROVE mail'[d] # <<>>
      BY <2>4, <2>t DEF Start, TypeOK
    <2>5. ASSUME NEW c \in Calls, Finish(c) PROVE mail'[d] # <<>>
      <3>1. PICK out \in {"ok", "err", "panic"}, el1 \in BOOLEAN, el2 \in BOOLEAN :
              /\ el1 \/ el2 => c \in Noisy
              /\ Send(c, Messages(out, el1, el2), port[c])
              /\ \/ \A e \in Calls \ {c} : rust'[e] = rust[e]
                 \/ OnLane(c) /\ LaneDies(c)
        BY <2>5, FinishFacts
      <3>2. /\ port[c] = "open" /\ c \notin Noisy => mail'[c] # <<>>
            /\ \A e \in Calls \ {c} : mail'[e] = mail[e]
        <4>1. rust[c] # "ended"
          BY <2>5 DEF Finish, CanFinish
        <4> QED BY <3>1, <4>1, SendFacts
      <3>3. port' = port
        BY <2>5 DEF Finish
      <3>4. d # c => rust[d] = "ended"
        BY <3>1, LaneDiesFacts
      <3> QED BY <3>2, <3>3, <3>4
    <2>6. ASSUME NEW c \in Calls, Receive(c) PROVE mail'[d] # <<>>
      BY <2>6, <2>t DEF Receive, TypeOK
    <2>7. ASSUME NEW c \in Calls, Timeout(c) PROVE mail'[d] # <<>>
      BY <2>7 DEF Timeout
    <2>8. ASSUME NEW i \in Isolates, Exit(i) PROVE mail'[d] # <<>>
      <3>1. port[d] = "open" /\ IsolateOf[d] # i /\ rust[d] = "ended"
        BY <2>8 DEF Exit
      <3> QED BY <2>8, <3>1 DEF Exit
    <2>9. CASE UNCHANGED vars
      BY <2>9 DEF vars
    <2> QED BY <2>1, <2>2, <2>3, <2>4, <2>5, <2>6, <2>7, <2>8, <2>9 DEF Next
  <1> QED BY <1>1, <1>2, Invariance, PTL DEF Spec

-----------------------------------------------------------------------------
(* Nobody waits in vain                                                      *)

(* A step that takes no lane down does not disturb a call that it does not    *)
(* call back, queue or take out of its queue.                                 *)
LEMMA WayKept ==
  ASSUME WayInv, lane_up' = lane_up, NEW d \in Calls,
         rust'[d] = rust[d] \/ (rust'[d] = "ended" /\ rust[d] # "idle"),
         future'[d] = "none" => future[d] = "none",
         future'[d] = "pending" => future[d] = "pending" /\ port'[d] = port[d],
         \A k \in DOMAIN queue[RoutedTo[d]] : queue[RoutedTo[d]][k] = d =>
           \E l \in DOMAIN queue'[RoutedTo[d]] : queue'[RoutedTo[d]][l] = d
  PROVE  Way(d)'
  BY DEF WayInv, Way, OnLane

LEMMA WayMade ==
  ASSUME Inv, WayInv, NEW c \in Calls,
         \/ EncodeThrows(c)
         \/ Spawn(c) \/ Execute(c) \/ ExecuteOnDeadLane(c) \/ PreparePanics(c) \/ ExecuteSync(c)
  PROVE  WayInv'
  <1> DEFINE e == RoutedTo[c]
  <1>0. e \in Executors /\ queue[e] \in Seq(Calls)
    BY HandlerAssumption DEF Inv, TypeOK, Executors
  <1>1. /\ lane_up' = lane_up
        /\ rust'[c] \in {"unmade", "spawned", "queued", "lost", "ended"}
        /\ \A d \in Calls \ {c} : rust'[d] = rust[d] /\ future'[d] = future[d] /\ port'[d] = port[d]
        /\ future'[c] # "none" /\ (future'[c] = "pending" => port'[c] = "open")
    <2>1. CASE Spawn(c) \/ Execute(c) \/ ExecuteOnDeadLane(c)
      BY <2>1 DEF Inv, TypeOK, Spawn, Execute, ExecuteOnDeadLane, Expect
    <2>2. CASE PreparePanics(c)
      BY <2>2 DEF Inv, TypeOK, PreparePanics, Expect
    <2>3. CASE ExecuteSync(c)
      <3>1. PICK f : f # "none" /\ f # "pending" /\ future' = [future EXCEPT ![c] = f]
        BY <2>3 DEF ExecuteSync, Decode
      <3> QED BY <2>3, <3>1 DEF Inv, TypeOK, ExecuteSync
    <2>4. CASE EncodeThrows(c)
      BY <2>4 DEF Inv, TypeOK, EncodeThrows
    <2> QED BY <2>1, <2>2, <2>3, <2>4
  <1>2. \/ queue' = queue /\ rust'[c] # "queued" /\ (OnLane(c) => rust'[c] # "spawned")
        \/ /\ queue'[e] = Append(queue[e], c) /\ (OnLane(c) => RoutedTo[c] \in lane_up)
           /\ \A f \in Executors \ {e} : queue'[f] = queue[f]
    BY <1>0 DEF Inv, TypeOK, EncodeThrows, Spawn, Execute, ExecuteOnDeadLane, PreparePanics, ExecuteSync
  <1>3. /\ \A f \in Executors : \A k \in DOMAIN queue[f] :
              k \in DOMAIN queue'[f] /\ queue'[f][k] = queue[f][k]
        /\ rust'[c] = "queued" => \E k \in DOMAIN queue'[e] : queue'[e][k] = c
    <2>1. CASE queue' = queue /\ rust'[c] # "queued"
      BY <2>1
    <2>2. CASE /\ queue'[e] = Append(queue[e], c)
               /\ \A f \in Executors \ {e} : queue'[f] = queue[f]
      <3>1. /\ \A k \in DOMAIN queue[e] : k \in DOMAIN queue'[e] /\ queue'[e][k] = queue[e][k]
            /\ \E k \in DOMAIN queue'[e] : queue'[e][k] = c
        BY <1>0, <2>2
      <3> QED BY <2>2, <3>1
    <2> QED BY <1>2, <2>1, <2>2
  <1>4. ASSUME NEW d \in Calls \ {c} PROVE Way(d)'
    <2>1. RoutedTo[d] \in Executors
      BY HandlerAssumption DEF Executors
    <2> QED BY <1>1, <1>3, <2>1, WayKept
  <1>5. Way(c)'
    BY <1>1, <1>2, <1>3 DEF Way, OnLane
  <1>6. LaneRunsOne'
    BY <1>1 DEF WayInv, LaneRunsOne
  <1> QED BY <1>4, <1>5, <1>6 DEF WayInv

LEMMA WayStarted ==
  ASSUME Inv, WayInv, NEW c \in Calls, Start(c)
  PROVE  WayInv'
  <1> DEFINE e == RoutedTo[c]
             q == queue[e]
  <1>0. e \in Executors /\ q \in Seq(Calls) /\ \A d \in Calls : RoutedTo[d] \in Executors
    BY HandlerAssumption DEF Inv, TypeOK, Executors
  <1>1. /\ q # <<>> /\ c = Head(q) /\ queue'[e] = Tail(q) /\ FreeWorker(e)
        /\ \A f \in Executors \ {e} : queue'[f] = queue[f]
    BY <1>0 DEF Inv, TypeOK, Start, Take
  <1>2. /\ rust[c] = "queued" /\ rust'[c] \in {"spawned", "running"}
        /\ \A d \in Calls \ {c} : rust'[d] = rust[d]
        /\ UNCHANGED <<lane_up, port, future>>
    <2>1. c = q[1] /\ 1 \in DOMAIN q
      BY <1>0, <1>1, TailFacts
    <2> QED BY <1>0, <2>1 DEF Inv, QueueInv, Start, TypeOK
  <1>3. ASSUME NEW d \in Calls \ {c}, NEW k \in DOMAIN queue[RoutedTo[d]], queue[RoutedTo[d]][k] = d
        PROVE  \E l \in DOMAIN queue'[RoutedTo[d]] : queue'[RoutedTo[d]][l] = d
    <2>1. CASE RoutedTo[d] = e
      <3>1. k \in 1 .. Len(q) /\ k # 1
        BY <1>0, <1>1, <1>3, <2>1
      <3>2. k - 1 \in DOMAIN Tail(q) /\ Tail(q)[k - 1] = q[k]
        BY <1>0, <1>1, <3>1
      <3> QED BY <1>1, <1>3, <2>1, <3>2
    <2>2. CASE RoutedTo[d] # e
      BY <1>0, <1>1, <1>3, <2>2
    <2> QED BY <2>1, <2>2
  <1>4. ASSUME NEW d \in Calls \ {c} PROVE Way(d)'
    BY <1>2, <1>3, WayKept
  <1>5. Way(c)'
    BY <1>2 DEF WayInv, Way, OnLane
  <1>6. LaneRunsOne'
    <2> SUFFICES ASSUME NEW a \in Calls, NEW b \in Calls, rust'[a] = "running", rust'[b] = "running",
                        OnLane(a), RoutedTo[b] = RoutedTo[a]
                 PROVE  a = b
      BY DEF LaneRunsOne, OnLane
    <2>1. CASE a # c /\ b # c
      BY <1>2, <2>1 DEF WayInv, LaneRunsOne
    <2>2. CASE (a = c \/ b = c) /\ a # b
      <3>1. \E d \in Calls : rust[d] = "running" /\ RoutedTo[d] = e
        BY <1>2, <2>2
      <3>2. Running(e) = {}
        BY <1>1, <2>2 DEF FreeWorker, OnLane
      <3> QED BY <3>1, <3>2 DEF Running
    <2> QED BY <2>1, <2>2
  <1> QED BY <1>4, <1>5, <1>6 DEF WayInv

LEMMA WayFinished ==
  ASSUME Inv, WayInv, NEW c \in Calls, Finish(c)
  PROVE  WayInv'
  <1>1. /\ rust[c] \in {"running", "spawned"} /\ rust'[c] = "ended"
        /\ UNCHANGED <<port, future>>
        /\ \/ /\ UNCHANGED <<lane_up, queue>>
              /\ \A d \in Calls \ {c} : rust'[d] = rust[d]
           \/ OnLane(c) /\ rust[c] = "running" /\ LaneDies(c)
    BY FinishFacts
  <1>2. CASE UNCHANGED <<lane_up, queue>> /\ \A d \in Calls \ {c} : rust'[d] = rust[d]
    <2>1. ASSUME NEW d \in Calls PROVE Way(d)'
      BY <1>1, <1>2, WayKept
    <2>2. LaneRunsOne'
      BY <1>1, <1>2 DEF WayInv, LaneRunsOne
    <2> QED BY <2>1, <2>2 DEF WayInv
  <1>3. CASE OnLane(c) /\ rust[c] = "running" /\ LaneDies(c)
    <2>1. /\ lane_up' = lane_up \ {RoutedTo[c]}
          /\ \A e \in Executors \ {RoutedTo[c]} : queue'[e] = queue[e]
          /\ \A d \in Calls \ {c} :
               \/ rust'[d] = rust[d] /\ (rust[d] = "queued" => RoutedTo[d] # RoutedTo[c])
               \/ rust[d] \in {"queued", "spawned"} /\ rust'[d] = "lost" /\ RoutedTo[d] = RoutedTo[c]
      BY <1>3, LaneDiesFacts
    <2>2. ASSUME NEW d \in Calls \ {c}, rust'[d] \in {"queued", "running", "spawned"}
          PROVE  RoutedTo[d] # RoutedTo[c] /\ rust'[d] = rust[d]
      <3>1. rust'[d] = rust[d]
        BY <2>1, <2>2
      <3>2. rust[d] # "running" \/ RoutedTo[d] # RoutedTo[c]
        BY <1>3 DEF WayInv, LaneRunsOne
      <3>3. rust[d] = "spawned" => RoutedTo[d] # RoutedTo[c]
        BY <1>3, <3>1 DEF LaneDies
      <3> QED BY <2>1, <2>2, <3>1, <3>2, <3>3
    <2>3. \A d \in Calls : Way(d)'
      <3>1. ASSUME NEW d \in Calls \ {c} PROVE Way(d)'
        <4>1. RoutedTo[d] \in Executors
          BY HandlerAssumption DEF Executors
        <4>2. future[d] = "none" => rust'[d] = "idle"
          BY <2>1 DEF WayInv, Way
        <4> QED BY <1>1, <2>1, <2>2, <4>1, <4>2 DEF WayInv, Way, OnLane
      <3>2. Way(c)'
        BY <1>1 DEF WayInv, Way
      <3> QED BY <3>1, <3>2
    <2>4. LaneRunsOne'
      <3> SUFFICES ASSUME NEW a \in Calls, NEW b \in Calls, rust'[a] = "running", rust'[b] = "running",
                          OnLane(a), RoutedTo[b] = RoutedTo[a]
                   PROVE  a = b
        BY DEF LaneRunsOne, OnLane
      <3>1. rust[a] = "running" /\ rust[b] = "running"
        BY <1>1, <2>2
      <3> QED BY <3>1 DEF WayInv, LaneRunsOne
    <2> QED BY <2>3, <2>4 DEF WayInv
  <1> QED BY <1>1, <1>2, <1>3

LEMMA WayEnds ==
  ASSUME Inv, WayInv, (\E c \in Calls : Receive(c) \/ Timeout(c)) \/ \E i \in Isolates : Exit(i)
  PROVE  WayInv'
  <1>1. UNCHANGED <<rust, lane_up, queue>>
    BY DEF Receive, Timeout, Exit
  <1>2. ASSUME NEW d \in Calls
        PROVE  /\ future'[d] = "none" => future[d] = "none"
               /\ future'[d] = "pending" => future[d] = "pending" /\ port'[d] = port[d]
    <2>1. CASE \E c \in Calls : Receive(c)
      <3>1. PICK c \in Calls : Receive(c)
        BY <2>1
      <3>2. future'[d] = IF c = d /\ future[d] = "pending" THEN Decode(Head(mail[c])) ELSE future[d]
        BY <3>1 DEF Receive, Settle, Inv, TypeOK
      <3>3. c # d => port'[d] = port[d]
        BY <3>1 DEF Receive, Inv, TypeOK
      <3> QED BY <3>2, <3>3 DEF Decode
    <2>2. CASE \E c \in Calls : Timeout(c)
      BY <2>2 DEF Timeout, Inv, TypeOK
    <2>3. CASE \E i \in Isolates : Exit(i)
      BY <2>3 DEF Exit
    <2> QED BY <2>1, <2>2, <2>3
  <1>3. \A d \in Calls : Way(d)'
    BY <1>1, <1>2 DEF WayInv, Way, OnLane
  <1>4. LaneRunsOne'
    BY <1>1 DEF WayInv, LaneRunsOne
  <1> QED BY <1>3, <1>4 DEF WayInv

(* A job stays in its queue until it is taken, a lane runs one body at a      *)
(* time, and what is under way on a lane goes when the lane goes.             *)
THEOREM NoCallForgotten == Spec => []WayInv
  <1>1. Init => WayInv
    BY DEF Init, WayInv, LaneRunsOne, Way
  <1>2. Inv /\ WayInv /\ [Next]_vars => WayInv'
    <2> SUFFICES ASSUME Inv, WayInv, [Next]_vars PROVE WayInv'
      OBVIOUS
    <2>1. CASE UNCHANGED vars
      BY <2>1 DEF vars, WayInv, LaneRunsOne, Way, OnLane
    <2>2. CASE Next
      BY <2>2, WayMade, WayStarted, WayFinished, WayEnds DEF Next
    <2> QED BY <2>1, <2>2
  <1> QED BY <1>1, <1>2, Invariance, PTL DEF Spec

(* Whoever waits on a quiet call, or keeps a port open for it, waits for      *)
(* somebody who can act: an executor that is up, or a reply in the port.  Only *)
(* a dead lane loses a call, and only a call that threw while it encoded its   *)
(* arguments leaves an open port to nobody, with no caller who waits for it.   *)
THEOREM UnderWay == Spec => []PendingIsUnderWay
  <1>1. Inv /\ WayInv /\ EndedIsAnswered => PendingIsUnderWay
    <2> SUFFICES ASSUME Inv, WayInv, EndedIsAnswered, NEW c \in Calls \ Noisy,
                        future[c] = "pending" \/ port[c] = "open"
                 PROVE  \/ /\ rust[c] = "queued" /\ (OnLane(c) => RoutedTo[c] \in lane_up)
                           /\ \E k \in DOMAIN queue[RoutedTo[c]] : queue[RoutedTo[c]][k] = c
                        \/ rust[c] \in {"running", "spawned"} /\ (OnLane(c) => RoutedTo[c] \in lane_up)
                        \/ rust[c] = "ended" /\ port[c] = "open" /\ mail[c] # <<>>
                        \/ rust[c] = "lost" /\ RoutedTo[c] \in Lanes \ lane_up
                        \/ rust[c] = "unmade" /\ future[c] = "threw" /\ mail[c] = <<>>
      BY DEF PendingIsUnderWay
    <2>1. rust[c] \in Places \ {"idle"} /\ port[c] = "open"
      BY DEF Inv, TypeOK, CallInv, WayInv, Way
    <2>2. Way(c)
      BY DEF WayInv
    <2>3. CASE rust[c] = "lost"
      BY <2>3 DEF Inv, LaneFaultContained
    <2>4. CASE rust[c] = "ended"
      BY <2>1, <2>4 DEF EndedIsAnswered
    <2>5. CASE rust[c] \in {"queued", "running", "spawned"}
      BY <2>2, <2>5 DEF Way
    <2>6. CASE rust[c] = "unmade"
      BY <2>6 DEF Inv, CallInv
    <2> QED BY <2>1, <2>3, <2>4, <2>5, <2>6 DEF Places
  <1> QED BY <1>1, Invariance, NoCallForgotten, Answered, PTL

(* The comment of thread_pool/io.rs, "Process-global lanes outlive every      *)
(* caller", holds where no listener panics and either no isolate ends before   *)
(* the process or no body panics: only a panic that cannot be reported to its   *)
(* caller takes a lane down.                                                   *)
THEOREM LanesSurvive ==
  Noisy = {} /\ ("exit" \notin Faults \/ "body" \notin Faults) => (Spec => []LaneOutlivesCallers)
  <1> SUFFICES ASSUME Noisy = {}, "exit" \notin Faults \/ "body" \notin Faults
               PROVE  Spec => []LaneOutlivesCallers
    OBVIOUS
  <1> DEFINE Staying == "exit" \notin Faults => alive = Isolates
  <1>1. Init => Staying /\ LaneOutlivesCallers
    BY DEF Init, LaneOutlivesCallers
  <1>2. Staying /\ [Next]_vars => Staying'
    BY DEF Next, vars, Spawn, Execute, ExecuteOnDeadLane, PreparePanics, ExecuteSync, Start, Finish,
           Receive, Timeout, Exit, EncodeThrows
  <1>3. Inv /\ Staying /\ LaneOutlivesCallers /\ [Next]_vars => LaneOutlivesCallers'
    <2> SUFFICES ASSUME Inv, Staying, LaneOutlivesCallers, [Next]_vars PROVE lane_up' = lane_up
      BY DEF LaneOutlivesCallers
    <2>1. ASSUME NEW c \in Calls, Finish(c) PROVE lane_up' = lane_up
      <3>1. PICK out \in Returns, el1 \in Listener(c), el2 \in Listener(c) :
              IF OnLane(c) /\ rust[c] = "running" /\ Escapes(out, el1, el2, port[c])
                THEN LaneDies(c)
                ELSE UNCHANGED <<lane_up, queue>>
        BY <2>1 DEF Finish
      <3>2. el1 = FALSE /\ el2 = FALSE
        BY DEF Listener
      <3>3. ~(rust[c] = "running" /\ Escapes(out, el1, el2, port[c]))
        <4> SUFFICES ASSUME rust[c] = "running", out = "panic", port[c] # "open" PROVE FALSE
          BY <3>2 DEF Escapes, Unwinds, Accepts
        <4>1. "exit" \notin Faults
          BY DEF Returns
        <4>2. IsolateOf[c] \notin alive
          BY DEF Inv, TypeOK, CallInv
        <4> QED BY <4>1, <4>2, HandlerAssumption
      <3> QED BY <3>1, <3>3
    <2>2. CASE UNCHANGED vars
      BY <2>2 DEF vars
    <2> QED BY <2>1, <2>2 DEF Next, Spawn, Execute, ExecuteOnDeadLane, PreparePanics, ExecuteSync,
                              Start, Receive, Timeout, Exit, EncodeThrows
  <1> QED BY <1>1, <1>2, <1>3, Invariance, PTL DEF Spec

-----------------------------------------------------------------------------
(* What the caller sees                                                      *)

(* A message of the call's own result decodes to what its caller may be told. *)
LEMMA DecodedTells ==
  ASSUME NEW c, NEW m \in Actions, NEW out \in {"ok", "err", "panic"}, Says(c, m, out)
  PROVE  Decode(m) \in Abs!Tells(c, out)
  BY DEF Actions, Says, Decode, Abs!Tells

LEMMA MadeIsMake ==
  ASSUME Inv, NEW c \in Calls, Spawn(c) \/ Execute(c) \/ ExecuteOnDeadLane(c) \/ PreparePanics(c)
  PROVE  Abs!Make(c)
  <1>1. /\ Mode[c] # "sync" /\ future[c] = "none"
        /\ future' = [future EXCEPT ![c] = "pending"]
    BY DEF Spawn, Execute, ExecuteOnDeadLane, PreparePanics, Expect, CanCall, Inv, CallInv
  <1>2. ret' = ret \/ ret' = [ret EXCEPT ![c] = "panic"]
    BY DEF Spawn, Execute, ExecuteOnDeadLane, PreparePanics
  <1> QED BY <1>1, <1>2 DEF Abs!Make

LEMMA SyncIsMakeSync ==
  ASSUME Inv, NEW c \in Calls, ExecuteSync(c)
  PROVE  Abs!MakeSync(c)
  <1>1. PICK out \in Returns, el1 \in Listener(c), el2 \in Listener(c) :
          /\ ret' = [ret EXCEPT ![c] = out]
          /\ LET ms == Messages(out, el1, el2)
             IN future' = [future EXCEPT ![c] = IF ms = <<>> THEN "garbled" ELSE Decode(Head(ms))]
    BY DEF ExecuteSync
  <1>2. /\ out \in {"ok", "err", "panic"} /\ el1 \in BOOLEAN /\ el2 \in BOOLEAN
        /\ el1 \/ el2 => c \in Noisy
    BY ReturnsType, ListenerType
  <1> DEFINE ms == Messages(out, el1, el2)
             f == IF ms = <<>> THEN "garbled" ELSE Decode(Head(ms))
             more == IF out # "ok" /\ c \in Noisy THEN {"garbled"} ELSE {}
  <1>3. /\ (ms = <<>> /\ el2) \/ \E m \in Actions : ms = <<m>> /\ Says(c, m, out)
        /\ out = "ok" => ms = <<"Success">>
    BY <1>2, MessagesFacts
  <1>4. f \in Abs!Tells(c, out) \cup more
    <2> HIDE DEF ms
    <2>1. CASE ms = <<>> /\ el2
      <3>1. out # "ok"
        BY <1>3, <2>1, Singleton
      <3> QED BY <1>2, <2>1, <3>1
    <2>2. CASE \E m \in Actions : ms = <<m>> /\ Says(c, m, out)
      <3>1. PICK m \in Actions : ms = <<m>> /\ Says(c, m, out)
        BY <2>2
      <3>2. f = Decode(m)
        BY <3>1, Singleton
      <3> QED BY <1>2, <3>1, <3>2, DecodedTells
    <2> QED BY <1>3, <2>1, <2>2
  <1>5. future' = [future EXCEPT ![c] = f]
    BY <1>1
  <1>6. Mode[c] = "sync" /\ future[c] = "none"
    BY DEF ExecuteSync, CanCall, Inv, CallInv
  <1> HIDE DEF f
  <1> QED BY <1>1, <1>2, <1>4, <1>5, <1>6 DEF Abs!MakeSync

LEMMA FinishIsRun ==
  ASSUME Inv, WayInv, NEW c \in Calls, Finish(c)
  PROVE  Abs!Run(c)
  <1>1. /\ rust[c] \in {"running", "spawned"} /\ UNCHANGED future
        /\ \E out \in {"ok", "err", "panic"} : ret' = [ret EXCEPT ![c] = out]
    BY FinishFacts
  <1>2. future[c] \notin {"none", "threw"} /\ ret[c] = "none"
    BY <1>1 DEF WayInv, Way, Inv, CallInv
  <1> QED BY <1>1, <1>2 DEF Abs!Run

LEMMA ReceiveIsAnswer ==
  ASSUME Inv, NEW c \in Calls, Receive(c)
  PROVE  Abs!Answer(c) \/ UNCHANGED <<ret, future>>
  <1>1. PICK m \in Actions : mail[c] = <<m>> /\ Says(c, m, ret[c])
    BY DEF Receive, Inv, CallInv
  <1>2. /\ future' = [future EXCEPT ![c] = IF future[c] = "pending" THEN Decode(m) ELSE @]
        /\ UNCHANGED ret
    BY <1>1, Singleton DEF Receive, Settle
  <1>3. ret[c] \in {"ok", "err", "panic"}
    BY <1>1 DEF Says
  <1>4. CASE future[c] = "pending"
    <2>1. Decode(m) \in Abs!Tells(c, ret[c])
      BY <1>1, <1>3, DecodedTells
    <2> QED BY <1>2, <1>3, <1>4, <2>1 DEF Abs!Answer
  <1>5. CASE future[c] # "pending"
    BY <1>2, <1>5 DEF Inv, TypeOK
  <1> QED BY <1>4, <1>5

(* Every step of the executors, the ports and the event loops is a step of    *)
(* the call its caller sees, or hidden from it: the function runs at most      *)
(* once, and its future is settled at most once and with what it did.          *)
THEOREM Refinement == Spec => ImplementsRemoteCall
  <1>1. Init => Abs!Init
    BY DEF Init, Abs!Init
  <1>2. Inv /\ WayInv /\ [Next]_vars => [Abs!Next]_(Abs!callVars)
    <2> SUFFICES ASSUME Inv, WayInv, [Next]_vars
                 PROVE  Abs!Next \/ UNCHANGED <<ret, future>>
      BY DEF Abs!callVars
    <2>1. ASSUME NEW c \in Calls, Spawn(c) \/ Execute(c) \/ ExecuteOnDeadLane(c) \/ PreparePanics(c)
          PROVE  Abs!Next
      BY <2>1, MadeIsMake DEF Abs!Next
    <2>2. ASSUME NEW c \in Calls, ExecuteSync(c) PROVE Abs!Next
      BY <2>2, SyncIsMakeSync DEF Abs!Next
    <2>3. ASSUME NEW c \in Calls, Start(c) PROVE UNCHANGED <<ret, future>>
      BY <2>3 DEF Start
    <2>4. ASSUME NEW c \in Calls, Finish(c) PROVE Abs!Next
      BY <2>4, FinishIsRun DEF Abs!Next
    <2>5. ASSUME NEW c \in Calls, Receive(c) PROVE Abs!Next \/ UNCHANGED <<ret, future>>
      BY <2>5, ReceiveIsAnswer DEF Abs!Next
    <2>6. ASSUME NEW c \in Calls, Timeout(c) PROVE Abs!Next
      BY <2>6 DEF Timeout, Abs!GiveUp, Abs!Next
    <2>7. ASSUME NEW i \in Isolates, Exit(i) PROVE Abs!Next
      BY <2>7 DEF Exit, Abs!Leave, Abs!Next
    <2>8. ASSUME NEW c \in Calls, EncodeThrows(c) PROVE Abs!Next
      <3>1. Abs!Throw(c)
        BY <2>8 DEF EncodeThrows, CanCall, Inv, CallInv, Abs!Throw
      <3> QED BY <3>1 DEF Abs!Next
    <2>9. CASE UNCHANGED vars
      BY <2>9 DEF vars
    <2> QED BY <2>1, <2>2, <2>3, <2>4, <2>5, <2>6, <2>7, <2>8, <2>9 DEF Next
  <1> QED BY <1>1, <1>2, Invariance, NoCallForgotten, PTL DEF Spec, ImplementsRemoteCall, Abs!Spec
=============================================================================
