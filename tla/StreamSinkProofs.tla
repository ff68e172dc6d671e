-------------------------- MODULE StreamSinkProofs ---------------------------
(***************************************************************************)
(* Order and completeness of a Dart stream fed by any number of calls with *)
(* any number of clones each: nothing is lost, the close of a StreamSink   *)
(* comes last and is on its way while the port is open, and the listener   *)
(* sees what the abstract stream of EventStream shows.                     *)
(***************************************************************************)
EXTENDS StreamSink, SequenceTheorems, TLAPS

LEMMA Appended ==
  ASSUME NEW S, NEW s \in Seq(S), NEW x \in S
  PROVE  /\ Append(s, x) \in Seq(S)
         /\ Len(Append(s, x)) = Len(s) + 1 /\ Len(s) \in Nat
         /\ DOMAIN s = 1 .. Len(s) /\ DOMAIN Append(s, x) = 1 .. Len(s) + 1
         /\ \A k \in 1 .. Len(s) : Append(s, x)[k] = s[k]
         /\ Append(s, x)[Len(s) + 1] = x
  OBVIOUS

LEMMA Tailed ==
  ASSUME NEW S, NEW s \in Seq(S), s # <<>>
  PROVE  /\ Tail(s) \in Seq(S)
         /\ Len(Tail(s)) = Len(s) - 1 /\ Len(s) \in Nat \ {0}
         /\ DOMAIN s = 1 .. Len(s) /\ DOMAIN Tail(s) = 1 .. Len(s) - 1
         /\ \A k \in 1 .. Len(s) - 1 : Tail(s)[k] = s[k + 1]
         /\ Head(s) = s[1] /\ Head(s) \in S
  OBVIOUS

(* A message has one sender; a close is told by its closer alone. *)
LEMMA Senders ==
  /\ \A s \in Sinks, a \in {"Success", "Error"} :
       <<a, s>> \in Messages /\ Sender(<<a, s>>) = CloserOf[s] /\ CloserOf[s] \in Closers
       /\ \A c \in Closers : <<a, s>> # <<"CloseStream", c>>
  /\ \A c \in Closers : <<"CloseStream", c>> \in Messages /\ Sender(<<"CloseStream", c>>) = c
  /\ \A m \in Messages : m[1] = "CloseStream" =>
       \E c \in Closers : m = <<"CloseStream", c>>
  BY StreamAssumption DEF Messages, Sender

LEMMA InitInv == Init => Inv
  <1> SUFFICES ASSUME Init PROVE Inv
    OBVIOUS
  <1> USE DEF Init
  <1>1. TypeOK
    BY DEF TypeOK
  <1>2. CloserInv /\ PortInv
    BY DEF CloserInv, PortInv
  <1>3. DeliveredInOrder /\ NothingLostWhileOpen /\ DoneAfterAllValues
    BY DEF DeliveredInOrder, NothingLostWhileOpen, DoneAfterAllValues
  <1> QED BY <1>1, <1>2, <1>3 DEF Inv

(* A message that a live StreamSink, or a closer in its destructor, posts is  *)
(* not preceded by the close of its own sender.                               *)
LEMMA Posted ==
  ASSUME Inv, NEW m \in Messages, Post(m),
         UNCHANGED <<port, stream, delivered>>,
         closer[Sender(m)] # "dropped"
  PROVE  /\ mail' \in Seq(Messages) /\ accepted' \in Seq(Messages)
         /\ PortInv' /\ DeliveredInOrder' /\ NothingLostWhileOpen' /\ DoneAfterAllValues'
         /\ \A c \in Closers : \A n \in DOMAIN accepted' :
              accepted'[n] = <<"CloseStream", c>> =>
                /\ closer[c] = "dropped" \/ m = <<"CloseStream", c>>
                /\ \A k \in n + 1 .. Len(accepted') : Sender(accepted'[k]) # c
  <1>1. /\ mail \in Seq(Messages) /\ accepted \in Seq(Messages) /\ delivered \in Seq(Messages)
        /\ Len(delivered) \in Nat /\ Len(mail) \in Nat /\ Len(accepted) \in Nat
        /\ DOMAIN accepted = 1 .. Len(accepted)
    BY DEF Inv, TypeOK
  <1>2. CASE port # "open"
    <2>1. UNCHANGED <<mail, accepted>>
      BY <1>2 DEF Post
    <2>2. PortInv' /\ DeliveredInOrder' /\ NothingLostWhileOpen'
      BY <2>1 DEF Inv, PortInv, DeliveredInOrder, NothingLostWhileOpen
    <2>3. DoneAfterAllValues'
      BY <2>1 DEF Inv, DoneAfterAllValues, Sender
    <2>4. \A c \in Closers : \A n \in DOMAIN accepted : accepted[n] = <<"CloseStream", c>> =>
            /\ closer[c] = "dropped"
            /\ \A k \in n + 1 .. Len(accepted) : Sender(accepted[k]) # c
      BY DEF Inv, CloserInv
    <2> QED BY <1>1, <2>1, <2>2, <2>3, <2>4
  <1>3. CASE port = "open"
    <2>1. mail' = Append(mail, m) /\ accepted' = Append(accepted, m)
      BY <1>3 DEF Post
    <2>2. /\ mail' \in Seq(Messages) /\ Len(mail') = Len(mail) + 1
          /\ DOMAIN mail' = 1 .. Len(mail) + 1 /\ DOMAIN mail = 1 .. Len(mail)
          /\ \A k \in 1 .. Len(mail) : mail'[k] = mail[k]
          /\ mail'[Len(mail) + 1] = m
      BY <1>1, <2>1, Appended
    <2>3. /\ accepted' \in Seq(Messages) /\ Len(accepted') = Len(accepted) + 1
          /\ DOMAIN accepted' = 1 .. Len(accepted) + 1
          /\ \A k \in 1 .. Len(accepted) : accepted'[k] = accepted[k]
          /\ accepted'[Len(accepted) + 1] = m
      BY <1>1, <2>1, Appended
    <2>4. PortInv'
      BY <1>3 DEF Inv, PortInv
    <2>5. DeliveredInOrder'
      BY <1>1, <2>3 DEF Inv, DeliveredInOrder
    <2>6. NothingLostWhileOpen'
      <3>1. Len(accepted) = Len(delivered) + Len(mail)
            /\ \A n \in 1 .. Len(mail) : accepted[Len(delivered) + n] = mail[n]
        BY <1>3, <2>2 DEF Inv, NothingLostWhileOpen
      <3>2. Len(accepted') = Len(delivered') + Len(mail')
        BY <1>1, <2>2, <2>3, <3>1
      <3>3. ASSUME NEW n \in DOMAIN mail' PROVE accepted'[Len(delivered') + n] = mail'[n]
        <4>1. CASE n = Len(mail) + 1
          <5>1. Len(delivered') + n = Len(accepted) + 1
            BY <1>1, <3>1, <4>1
          <5> QED BY <2>2, <2>3, <4>1, <5>1
        <4>2. CASE n \in 1 .. Len(mail)
          <5>1. Len(delivered') + n = Len(delivered) + n /\ Len(delivered) + n \in 1 .. Len(accepted)
            BY <1>1, <3>1, <4>2
          <5> QED BY <2>2, <2>3, <3>1, <4>2, <5>1
        <4> QED BY <1>1, <2>2, <4>1, <4>2
      <3> QED BY <3>2, <3>3 DEF NothingLostWhileOpen
    <2>7. DoneAfterAllValues'
      BY <1>3 DEF Inv, PortInv, DoneAfterAllValues
    <2>8. ASSUME NEW c \in Closers, NEW n \in DOMAIN accepted',
                 accepted'[n] = <<"CloseStream", c>>
          PROVE  /\ closer[c] = "dropped" \/ m = <<"CloseStream", c>>
                 /\ \A k \in n + 1 .. Len(accepted') : Sender(accepted'[k]) # c
      <3>1. CASE n \in 1 .. Len(accepted)
        <4>1. closer[c] = "dropped" /\ \A k \in n + 1 .. Len(accepted) : Sender(accepted[k]) # c
          BY <1>1, <2>3, <2>8, <3>1 DEF Inv, CloserInv
        <4>2. Sender(m) # c
          BY <4>1
        <4>3. ASSUME NEW k \in n + 1 .. Len(accepted') PROVE Sender(accepted'[k]) # c
          <5>1. CASE k = Len(accepted) + 1
            BY <2>3, <4>2, <5>1
          <5>2. CASE k # Len(accepted) + 1
            BY <1>1, <2>3, <3>1, <4>1, <4>3, <5>2
          <5> QED BY <5>1, <5>2
        <4> QED BY <4>1, <4>3
      <3>2. CASE n = Len(accepted) + 1
        <4>1. m = <<"CloseStream", c>>
          BY <2>3, <2>8, <3>2
        <4>2. n + 1 .. Len(accepted') = {}
          BY <1>1, <2>3, <3>2
        <4> QED BY <4>1, <4>2
      <3> QED BY <1>1, <2>3, <3>1, <3>2
    <2> QED BY <2>2, <2>3, <2>4, <2>5, <2>6, <2>7, <2>8
  <1> QED BY <1>2, <1>3

LEMMA DeserializeInv == ASSUME Inv, NEW s \in Sinks, Deserialize(s) PROVE Inv'
  <1> DEFINE c == CloserOf[s]
  <1>1. c \in Closers /\ closer[c] = "none" /\ closer' = [closer EXCEPT ![c] = "live"]
        /\ sinks' = sinks \cup {s} /\ UNCHANGED <<adding, mail, accepted, delivered>>
    BY StreamAssumption DEF Deserialize
  <1>2. /\ port' = IF port = "none" THEN "open" ELSE port
        /\ stream' = IF stream = "none" THEN "active" ELSE stream
    BY DEF Deserialize
  <1>3. TypeOK'
    BY <1>1, <1>2 DEF Inv, TypeOK
  <1>4. CloserInv'
    <2>1. ASSUME NEW d \in Closers
          PROVE  closer'[d] = "live" <=> \E t \in sinks' : CloserOf[t] = d
      BY <1>1 DEF Inv, TypeOK, CloserInv
    <2>2. ASSUME NEW d \in Closers, NEW n \in DOMAIN accepted, accepted[n] = <<"CloseStream", d>>
          PROVE  /\ closer'[d] = "dropped"
                 /\ \A k \in n + 1 .. Len(accepted) : Sender(accepted[k]) # d
      <3>1. closer[d] = "dropped" /\ \A k \in n + 1 .. Len(accepted) : Sender(accepted[k]) # d
        BY <2>2 DEF Inv, CloserInv
      <3>2. closer'[d] = "dropped"
        BY <1>1, <3>1 DEF Inv, TypeOK
      <3> QED BY <3>1, <3>2
    <2> QED BY <1>1, <2>1, <2>2 DEF CloserInv
  <1>5. PortInv'
    BY <1>1, <1>2 DEF Inv, PortInv
  <1>6. DeliveredInOrder'
    BY <1>1 DEF Inv, DeliveredInOrder
  <1>7. NothingLostWhileOpen'
    BY <1>1, <1>2 DEF Inv, PortInv, NothingLostWhileOpen
  <1>8. DoneAfterAllValues'
    BY <1>1, <1>2 DEF Inv, DoneAfterAllValues
  <1> QED BY <1>3, <1>4, <1>5, <1>6, <1>7, <1>8 DEF Inv

(* A step of Rust code that changes its sinks only. *)
LEMMA SinksInv ==
  ASSUME Inv, UNCHANGED <<port, mail, accepted, stream, delivered>>,
         sinks' \subseteq Sinks, adding' \subseteq sinks',
         closer' \in [Closers -> {"none", "live", "dropping", "dropped"}],
         \A c \in Closers : closer'[c] = "live" <=> \E s \in sinks' : CloserOf[s] = c,
         \A c \in Closers : closer[c] = "dropped" => closer'[c] = "dropped"
  PROVE  Inv'
  <1>1. TypeOK'
    BY DEF Inv, TypeOK
  <1>2. CloserInv'
    BY DEF Inv, CloserInv
  <1>3. PortInv' /\ DeliveredInOrder' /\ NothingLostWhileOpen' /\ DoneAfterAllValues'
    BY DEF Inv, PortInv, DeliveredInOrder, NothingLostWhileOpen, DoneAfterAllValues
  <1> QED BY <1>1, <1>2, <1>3 DEF Inv

LEMMA CloneSinkInv ==
  ASSUME Inv, NEW s \in Sinks, NEW t \in Sinks, CloneSink(s, t) PROVE Inv'
  <1>1. /\ sinks' = sinks \cup {t} /\ UNCHANGED <<adding, closer>>
        /\ UNCHANGED <<port, mail, accepted, stream, delivered>>
        /\ s \in sinks /\ CloserOf[t] = CloserOf[s]
    BY DEF CloneSink
  <1>2. \A c \in Closers : closer'[c] = "live" <=> \E u \in sinks' : CloserOf[u] = c
    BY <1>1 DEF Inv, CloserInv
  <1>3. sinks' \subseteq Sinks /\ adding' \subseteq sinks'
        /\ closer' \in [Closers -> {"none", "live", "dropping", "dropped"}]
    BY <1>1 DEF Inv, TypeOK
  <1> QED BY <1>1, <1>2, <1>3, SinksInv

LEMMA BeginAddInv == ASSUME Inv, NEW s \in Sinks, BeginAdd(s) PROVE Inv'
  <1>1. /\ adding' = adding \cup {s} /\ s \in sinks /\ UNCHANGED <<sinks, closer>>
        /\ UNCHANGED <<port, mail, accepted, stream, delivered>>
    BY DEF BeginAdd
  <1>2. \A c \in Closers : closer'[c] = "live" <=> \E u \in sinks' : CloserOf[u] = c
    BY <1>1 DEF Inv, CloserInv
  <1>3. sinks' \subseteq Sinks /\ adding' \subseteq sinks'
        /\ closer' \in [Closers -> {"none", "live", "dropping", "dropped"}]
    BY <1>1 DEF Inv, TypeOK
  <1> QED BY <1>1, <1>2, <1>3, SinksInv

LEMMA DropSinkInv == ASSUME Inv, NEW s \in Sinks, DropSink(s) PROVE Inv'
  <1> DEFINE c == CloserOf[s]
  <1>1. /\ sinks' = sinks \ {s} /\ s \in sinks \ adding /\ UNCHANGED adding
        /\ closer' = [closer EXCEPT ![c] = IF Shared(s) THEN @ ELSE "dropping"]
        /\ UNCHANGED <<port, mail, accepted, stream, delivered>>
        /\ c \in Closers
    BY StreamAssumption DEF DropSink
  <1>2. closer[c] = "live"
    BY <1>1 DEF Inv, CloserInv
  <1>3. sinks' \subseteq Sinks /\ adding' \subseteq sinks'
        /\ closer' \in [Closers -> {"none", "live", "dropping", "dropped"}]
    BY <1>1 DEF Inv, TypeOK
  <1>4. ASSUME NEW d \in Closers
        PROVE  closer'[d] = "live" <=> \E u \in sinks' : CloserOf[u] = d
    <2>1. CASE d # c
      BY <1>1, <2>1 DEF Inv, TypeOK, CloserInv
    <2>2. CASE d = c
      BY <1>1, <1>2, <2>2 DEF Inv, TypeOK, Shared
    <2> QED BY <2>1, <2>2
  <1>5. \A d \in Closers : closer[d] = "dropped" => closer'[d] = "dropped"
    BY <1>1, <1>2 DEF Inv, TypeOK
  <1> QED BY <1>1, <1>3, <1>4, <1>5, SinksInv

LEMMA AddRawInv == ASSUME Inv, NEW s \in Sinks, AddRaw(s) PROVE Inv'
  <1> PICK action \in {"Success", "Error"} : Post(<<action, s>>)
    BY DEF AddRaw
  <1> DEFINE m == <<action, s>>
  <1>1. /\ s \in adding /\ adding' = adding \ {s}
        /\ UNCHANGED <<sinks, closer>> /\ UNCHANGED <<port, stream, delivered>>
    BY DEF AddRaw
  <1>2. /\ m \in Messages /\ Sender(m) = CloserOf[s] /\ CloserOf[s] \in Closers
        /\ \A c \in Closers : m # <<"CloseStream", c>>
    BY Senders
  <1>3. closer[Sender(m)] # "dropped"
    BY <1>1, <1>2 DEF Inv, TypeOK, CloserInv
  <1> HIDE DEF m
  <1>4. Post(m)
    BY DEF m
  <1>5. /\ mail' \in Seq(Messages) /\ accepted' \in Seq(Messages)
        /\ PortInv' /\ DeliveredInOrder' /\ NothingLostWhileOpen' /\ DoneAfterAllValues'
        /\ \A c \in Closers : \A n \in DOMAIN accepted' :
             accepted'[n] = <<"CloseStream", c>> =>
               /\ closer[c] = "dropped"
               /\ \A k \in n + 1 .. Len(accepted') : Sender(accepted'[k]) # c
    BY <1>1, <1>2, <1>3, <1>4, Posted
  <1>6. TypeOK'
    BY <1>1, <1>5 DEF Inv, TypeOK
  <1>7. CloserInv'
    BY <1>1, <1>5 DEF Inv, CloserInv
  <1> QED BY <1>5, <1>6, <1>7 DEF Inv

LEMMA CloseInv == ASSUME Inv, NEW c \in Closers, Close(c) PROVE Inv'
  <1> DEFINE m == <<"CloseStream", c>>
  <1>1. /\ closer[c] = "dropping" /\ closer' = [closer EXCEPT ![c] = "dropped"]
        /\ UNCHANGED <<sinks, adding>> /\ UNCHANGED <<port, stream, delivered>>
        /\ Post(m)
    BY DEF Close
  <1>2. m \in Messages /\ Sender(m) = c /\ \A d \in Closers : m = <<"CloseStream", d>> => d = c
    BY Senders
  <1> HIDE DEF m
  <1>3. /\ mail' \in Seq(Messages) /\ accepted' \in Seq(Messages)
        /\ PortInv' /\ DeliveredInOrder' /\ NothingLostWhileOpen' /\ DoneAfterAllValues'
        /\ \A d \in Closers : \A n \in DOMAIN accepted' :
             accepted'[n] = <<"CloseStream", d>> =>
               /\ closer[d] = "dropped" \/ d = c
               /\ \A k \in n + 1 .. Len(accepted') : Sender(accepted'[k]) # d
    BY <1>1, <1>2, Posted
  <1>4. TypeOK'
    BY <1>1, <1>3 DEF Inv, TypeOK
  <1>5. \A d \in Closers : closer'[d] = (IF d = c THEN "dropped" ELSE closer[d])
    BY <1>1 DEF Inv, TypeOK
  <1>6. CloserInv'
    BY <1>1, <1>3, <1>5 DEF Inv, CloserInv
  <1> QED BY <1>3, <1>4, <1>6 DEF Inv

(* The end of the loop keeps everything but, perhaps, the claim on "done". *)
LEMMA EndLoopInv ==
  ASSUME Inv, NEW how \in {"done", "error", "cancelled", "gone"}, EndLoop(how),
         UNCHANGED <<sinks, adding, closer, accepted>>, DoneAfterAllValues'
  PROVE  Inv'
  <1>1. port' = "closed" /\ mail' = <<>> /\ stream' = how /\ UNCHANGED delivered
    BY DEF EndLoop
  <1>2. TypeOK'
    BY <1>1 DEF Inv, TypeOK
  <1>3. CloserInv' /\ PortInv'
    BY <1>1 DEF Inv, CloserInv, PortInv
  <1>4. DeliveredInOrder' /\ NothingLostWhileOpen'
    BY <1>1 DEF Inv, DeliveredInOrder, NothingLostWhileOpen
  <1> QED BY <1>2, <1>3, <1>4 DEF Inv

(* What the loop takes from the port is the oldest message not yet yielded. *)
LEMMA Oldest ==
  ASSUME Inv, port = "open", mail # <<>>
  PROVE  /\ Len(delivered) \in Nat /\ Len(accepted) \in Nat
         /\ Len(delivered) + 1 \in DOMAIN accepted
         /\ Len(delivered) + 1 <= Len(accepted)
         /\ accepted[Len(delivered) + 1] = Head(mail) /\ Head(mail) \in Messages
  <1>1. Len(mail) \in Nat \ {0} /\ DOMAIN mail = 1 .. Len(mail) /\ Head(mail) = mail[1]
        /\ Head(mail) \in Messages
    BY Tailed DEF Inv, TypeOK
  <1>2. Len(delivered) \in Nat /\ Len(accepted) \in Nat /\ DOMAIN accepted = 1 .. Len(accepted)
    BY DEF Inv, TypeOK
  <1> QED BY <1>1, <1>2 DEF Inv, NothingLostWhileOpen

LEMMA ReceiveInv == ASSUME Inv, Receive PROVE Inv'
  <1> DEFINE m == Head(mail)
  <1>1. port = "open" /\ mail # <<>> /\ UNCHANGED <<sinks, adding, closer, accepted>>
    BY DEF Receive
  <1>2. CASE stream = "active" /\ Throws(m) /\ EndLoop(HowItEnds(m))
    <2>1. HowItEnds(m) \in {"done", "error"} /\ stream' = HowItEnds(m) /\ UNCHANGED delivered
      BY <1>2 DEF HowItEnds, EndLoop
    <2>2. DoneAfterAllValues'
      <3> SUFFICES ASSUME stream' = "done"
                   PROVE  LET last == Len(delivered) + 1
                          IN /\ last <= Len(accepted) /\ accepted[last][1] = "CloseStream"
                             /\ \A n \in last + 1 .. Len(accepted) :
                                  Sender(accepted[n]) # Sender(accepted[last])
        BY <1>1, <2>1 DEF DoneAfterAllValues, Sender
      <3> DEFINE last == Len(delivered) + 1
      <3>1. last \in DOMAIN accepted /\ last <= Len(accepted) /\ accepted[last] = m /\ m \in Messages
        BY <1>1, Oldest
      <3>2. m[1] = "CloseStream"
        BY <2>1 DEF HowItEnds
      <3>3. PICK c \in Closers : m = <<"CloseStream", c>>
        BY <3>1, <3>2, Senders
      <3>4. Sender(m) = c
        BY <3>3, Senders
      <3>5. \A n \in last + 1 .. Len(accepted) : Sender(accepted[n]) # c
        BY <3>1, <3>3 DEF Inv, CloserInv
      <3> QED BY <3>1, <3>2, <3>4, <3>5
    <2> QED BY <1>1, <1>2, <2>1, <2>2, EndLoopInv
  <1>3. CASE /\ stream = "active" /\ ~Throws(m)
             /\ delivered' = Append(delivered, m)
             /\ mail' = Tail(mail)
             /\ UNCHANGED <<port, stream>>
    <2>1. /\ Len(delivered) \in Nat /\ Len(accepted) \in Nat
          /\ Len(delivered) + 1 <= Len(accepted)
          /\ accepted[Len(delivered) + 1] = m /\ m \in Messages
      BY <1>1, Oldest
    <2>2. /\ mail' \in Seq(Messages) /\ Len(mail') = Len(mail) - 1 /\ Len(mail) \in Nat \ {0}
          /\ DOMAIN mail' = 1 .. Len(mail) - 1 /\ DOMAIN mail = 1 .. Len(mail)
          /\ \A k \in 1 .. Len(mail) - 1 : mail'[k] = mail[k + 1]
      BY <1>1, <1>3, Tailed DEF Inv, TypeOK
    <2>3. /\ delivered' \in Seq(Messages) /\ Len(delivered') = Len(delivered) + 1
          /\ \A k \in 1 .. Len(delivered) : delivered'[k] = delivered[k]
          /\ delivered'[Len(delivered) + 1] = m
      BY <1>3, <2>1, Appended DEF Inv, TypeOK
    <2>4. TypeOK'
      BY <1>1, <1>3, <2>2, <2>3 DEF Inv, TypeOK
    <2>5. CloserInv' /\ PortInv' /\ DoneAfterAllValues'
      BY <1>1, <1>3 DEF Inv, CloserInv, PortInv, DoneAfterAllValues
    <2>6. DeliveredInOrder'
      <3>1. m[1] = "Success"
        BY <1>3 DEF Throws
      <3>2. ASSUME NEW n \in 1 .. Len(delivered')
            PROVE  delivered'[n] = accepted'[n] /\ delivered'[n][1] = "Success"
        <4>1. CASE n = Len(delivered) + 1
          BY <1>1, <2>1, <2>3, <3>1, <4>1
        <4>2. CASE n \in 1 .. Len(delivered)
          BY <1>1, <2>3, <4>2 DEF Inv, DeliveredInOrder
        <4> QED BY <2>1, <2>3, <4>1, <4>2
      <3> QED BY <1>1, <2>1, <2>3, <3>2 DEF DeliveredInOrder
    <2>7. NothingLostWhileOpen'
      <3>1. /\ Len(accepted) = Len(delivered) + Len(mail)
            /\ \A n \in 1 .. Len(mail) : accepted[Len(delivered) + n] = mail[n]
        BY <1>1, <2>2 DEF Inv, NothingLostWhileOpen
      <3>2. ASSUME NEW n \in DOMAIN mail' PROVE accepted'[Len(delivered') + n] = mail'[n]
        <4>1. n + 1 \in 1 .. Len(mail) /\ mail'[n] = mail[n + 1] /\ n \in Nat
          BY <2>2, <3>2
        <4>2. Len(delivered') + n = Len(delivered) + (n + 1)
          BY <2>1, <2>3, <4>1
        <4> QED BY <1>1, <3>1, <4>1, <4>2
      <3>3. Len(accepted') = Len(delivered') + Len(mail')
        BY <1>1, <2>1, <2>2, <2>3, <3>1
      <3> QED BY <3>2, <3>3 DEF NothingLostWhileOpen
    <2> QED BY <2>4, <2>5, <2>6, <2>7 DEF Inv
  <1>4. CASE stream = "cancelled" /\ EndLoop("cancelled")
    <2>1. DoneAfterAllValues'
      BY <1>4 DEF EndLoop, DoneAfterAllValues
    <2> QED BY <1>1, <1>4, <2>1, EndLoopInv
  <1> QED BY <1>2, <1>3, <1>4 DEF Receive

LEMMA CancelInv == ASSUME Inv, Cancel PROVE Inv'
  <1>1. stream = "active" /\ UNCHANGED <<sinks, adding, closer, accepted>>
    BY DEF Cancel
  <1>2. CASE EndLoop("cancelled")
    <2>1. DoneAfterAllValues'
      BY <1>2 DEF EndLoop, DoneAfterAllValues
    <2> QED BY <1>1, <1>2, <2>1, EndLoopInv
  <1>3. CASE stream' = "cancelled" /\ UNCHANGED <<port, mail, delivered>>
    <2>1. TypeOK'
      BY <1>1, <1>3 DEF Inv, TypeOK
    <2>2. CloserInv' /\ PortInv' /\ DeliveredInOrder' /\ NothingLostWhileOpen'
      BY <1>1, <1>3 DEF Inv, CloserInv, PortInv, DeliveredInOrder, NothingLostWhileOpen
    <2>3. DoneAfterAllValues'
      BY <1>3 DEF DoneAfterAllValues
    <2> QED BY <2>1, <2>2, <2>3 DEF Inv
  <1> QED BY <1>2, <1>3 DEF Cancel

LEMMA ExitInv == ASSUME Inv, Exit PROVE Inv'
  <1>1. EndLoop("gone") /\ UNCHANGED <<sinks, adding, closer, accepted>>
    BY DEF Exit
  <1>2. DoneAfterAllValues'
    BY <1>1 DEF EndLoop, DoneAfterAllValues
  <1> QED BY <1>1, <1>2, EndLoopInv

LEMMA StutterInv == Inv /\ UNCHANGED vars => Inv'
  <1> SUFFICES ASSUME Inv, UNCHANGED vars PROVE Inv'
    OBVIOUS
  <1> USE DEF vars
  <1>1. TypeOK' /\ CloserInv' /\ PortInv'
    BY DEF Inv, TypeOK, CloserInv, PortInv
  <1>2. DeliveredInOrder' /\ NothingLostWhileOpen' /\ DoneAfterAllValues'
    BY DEF Inv, DeliveredInOrder, NothingLostWhileOpen, DoneAfterAllValues
  <1> QED BY <1>1, <1>2 DEF Inv

LEMMA NextInv == Inv /\ [Next]_vars => Inv'
  <1> SUFFICES ASSUME Inv, [Next]_vars PROVE Inv'
    OBVIOUS
  <1>1. CASE \E s \in Sinks : Deserialize(s)
    BY <1>1, DeserializeInv
  <1>2. CASE \E s \in Sinks : BeginAdd(s)
    BY <1>2, BeginAddInv
  <1>3. CASE \E s \in Sinks : AddRaw(s)
    BY <1>3, AddRawInv
  <1>4. CASE \E s \in Sinks : DropSink(s)
    BY <1>4, DropSinkInv
  <1>5. CASE \E s, t \in Sinks : CloneSink(s, t)
    BY <1>5, CloneSinkInv
  <1>6. CASE \E c \in Closers : Close(c)
    BY <1>6, CloseInv
  <1>7. CASE Receive \/ Cancel \/ Exit
    BY <1>7, ReceiveInv, CancelInv, ExitInv
  <1>8. CASE UNCHANGED vars
    BY <1>8, StutterInv
  <1> QED BY <1>1, <1>2, <1>3, <1>4, <1>5, <1>6, <1>7, <1>8 DEF Next

(* The inductive invariant of a stream: the life of the closers, the state   *)
(* of the port, and the three properties below, which need one another.      *)
THEOREM Invariance == Spec => []Inv
  BY InitInv, NextInv, PTL DEF Spec

(* Values arrive in the order in which the port accepted them, without a gap. *)
THEOREM InOrder == Spec => []DeliveredInOrder
  <1>1. Inv => DeliveredInOrder
    BY DEF Inv
  <1> QED BY <1>1, Invariance, PTL

(* While the port is open every accepted message is yielded or in the port. *)
THEOREM NothingLost == Spec => []NothingLostWhileOpen
  <1>1. Inv => NothingLostWhileOpen
    BY DEF Inv
  <1> QED BY <1>1, Invariance, PTL

(* The close that ends a stream follows all that its StreamSink has sent,    *)
(* whichever thread dropped the last clone.                                  *)
THEOREM DoneLast == Spec => []DoneAfterAllValues
  <1>1. Inv => DoneAfterAllValues
    BY DEF Inv
  <1> QED BY <1>1, Invariance, PTL
(* A post keeps the closes that are in the port, and adds its own.            *)
LEMMA PostKeepsNotice ==
  ASSUME Inv, NoticeInv, NEW m \in Messages, Post(m), UNCHANGED port,
         \A c \in Closers :
           closer'[c] = closer[c] \/ (m = <<"CloseStream", c>> /\ closer[c] # "none")
  PROVE  NoticeInv'
  <1>0. mail \in Seq(Messages)
    BY DEF Inv, TypeOK
  <1>1. CASE port = "open"
    <2>1. /\ mail' = Append(mail, m) /\ DOMAIN mail = 1 .. Len(mail) /\ Len(mail) \in Nat
          /\ DOMAIN mail' = 1 .. Len(mail) + 1 /\ mail'[Len(mail) + 1] = m
          /\ \A k \in 1 .. Len(mail) : mail'[k] = mail[k]
      BY <1>0, <1>1, Appended DEF Post
    <2>2. DOMAIN mail \subseteq DOMAIN mail' /\ Len(mail) + 1 \in DOMAIN mail'
      BY <2>1
    <2>3. ASSUME NEW c \in Closers, closer'[c] = "dropped"
          PROVE  \E n \in DOMAIN mail' : mail'[n] = <<"CloseStream", c>>
      <3>1. CASE closer[c] = "dropped"
        BY <1>1, <2>1, <2>2, <3>1 DEF NoticeInv, CloseIsComing
      <3>2. CASE closer[c] # "dropped"
        BY <2>1, <2>2, <2>3, <3>2
      <3> QED BY <3>1, <3>2
    <2> QED BY <1>1, <2>3 DEF NoticeInv, CloseIsComing
  <1>2. CASE port # "open"
    BY <1>2 DEF NoticeInv, CloseIsComing
  <1> QED BY <1>1, <1>2

(* A close that was posted stays in the port until the loop takes it.         *)
LEMMA CloseStays ==
  ASSUME Inv, NoticeInv, [Next]_vars PROVE NoticeInv'
  <1>0. mail \in Seq(Messages)
    BY DEF Inv, TypeOK
  <1>1. ASSUME NEW s \in Sinks, Deserialize(s) PROVE NoticeInv'
    <2>1. /\ closer \in [Closers -> {"none", "live", "dropping", "dropped"}]
          /\ closer' = [closer EXCEPT ![CloserOf[s]] = "live"] /\ mail' = mail
          /\ port' # "none" /\ (port # "none" => port' = port)
      BY <1>1 DEF Deserialize, Inv, TypeOK
    <2> QED BY <2>1 DEF NoticeInv, CloseIsComing
  <1>2. ASSUME NEW s \in Sinks, AddRaw(s) PROVE NoticeInv'
    <2>1. PICK action \in {"Success", "Error"} : Post(<<action, s>>)
      BY <1>2 DEF AddRaw
    <2>2. <<action, s>> \in Messages /\ UNCHANGED <<port, closer>>
      BY <1>2, Senders DEF AddRaw
    <2> DEFINE m == <<action, s>>
    <2>3. m \in Messages /\ Post(m)
      BY <2>1, <2>2
    <2> HIDE DEF m
    <2> QED BY <2>2, <2>3, PostKeepsNotice
  <1>3. ASSUME NEW c \in Closers, Close(c) PROVE NoticeInv'
    <2>1. <<"CloseStream", c>> \in Messages /\ Post(<<"CloseStream", c>>) /\ UNCHANGED port
      BY <1>3, Senders DEF Close
    <2>2. closer[c] # "none" /\ closer' = [closer EXCEPT ![c] = "dropped"]
      BY <1>3 DEF Close
    <2> DEFINE m == <<"CloseStream", c>>
    <2>3. \A d \in Closers :
            closer'[d] = closer[d] \/ (m = <<"CloseStream", d>> /\ closer[d] # "none")
      BY <2>2 DEF Inv, TypeOK
    <2>4. m \in Messages /\ Post(m) /\ UNCHANGED port
      BY <2>1
    <2> HIDE DEF m
    <2> QED BY <2>3, <2>4, PostKeepsNotice
  <1>4. ASSUME NEW s \in Sinks,
               BeginAdd(s) \/ DropSink(s) \/ \E t \in Sinks : CloneSink(s, t)
        PROVE  NoticeInv'
    <2>1. mail' = mail /\ port' = port
      BY <1>4 DEF BeginAdd, DropSink, CloneSink
    <2>2. \A c \in Closers : closer'[c] = closer[c] \/ closer'[c] = "dropping"
      BY <1>4 DEF BeginAdd, DropSink, CloneSink, Inv, TypeOK
    <2>3. \A c \in Closers : closer'[c] # "none" => closer[c] # "none"
      BY <1>4 DEF BeginAdd, DropSink, CloneSink, Inv, TypeOK, CloserInv
    <2> QED BY <2>1, <2>2, <2>3 DEF NoticeInv, CloseIsComing
  <1>5. CASE Receive
    <2>1. CASE delivered' = Append(delivered, Head(mail))
               /\ ~Throws(Head(mail)) /\ mail' = Tail(mail) /\ port' = port
      <3>1. /\ Len(mail) \in Nat \ {0} /\ Head(mail) = mail[1]
            /\ DOMAIN mail = 1 .. Len(mail) /\ DOMAIN Tail(mail) = 1 .. Len(mail) - 1
            /\ \A k \in 1 .. Len(mail) - 1 : Tail(mail)[k] = mail[k + 1]
        BY <1>0, <1>5, Tailed DEF Receive
      <3>2. \A n \in DOMAIN mail : n # 1 => n - 1 \in DOMAIN mail' /\ mail'[n - 1] = mail[n]
        BY <2>1, <3>1
      <3>3. \A c \in Closers : mail[1] # <<"CloseStream", c>>
        BY <2>1, <3>1 DEF Throws
      <3>4. closer' = closer
        BY <1>5 DEF Receive
      <3> QED BY <2>1, <3>2, <3>3, <3>4 DEF NoticeInv, CloseIsComing
    <2>2. CASE port' = "closed"
      BY <2>2 DEF NoticeInv, CloseIsComing
    <2> QED BY <1>5, <2>1, <2>2 DEF Receive, EndLoop
  <1>6. CASE Cancel \/ Exit
    <2>1. closer' = closer /\ (port' = "closed" \/ UNCHANGED <<port, mail>>)
      BY <1>6 DEF Cancel, Exit, EndLoop
    <2> QED BY <2>1 DEF NoticeInv, CloseIsComing
  <1>7. CASE UNCHANGED vars
    BY <1>7 DEF vars, NoticeInv, CloseIsComing
  <1> QED BY <1>1, <1>2, <1>3, <1>4, <1>5, <1>6, <1>7 DEF Next

(* While the loop can read, the close of a dropped StreamSink is on its way.   *)
THEOREM DroppedIsNoticed == Spec => []CloseIsComing
  <1>1. Init => NoticeInv
    BY DEF Init, NoticeInv, CloseIsComing
  <1>2. NoticeInv => CloseIsComing
    BY DEF NoticeInv
  <1> QED BY <1>1, <1>2, CloseStays, Invariance, PTL DEF Spec

-----------------------------------------------------------------------------
(* The abstract specification                                              *)

EventSet == [kind : {"Success", "Error", "CloseStream"}, source : Closers]
AsEvent(m) == [kind |-> m[1], source |-> Sender(m)]

(* A message as an event, and a sequence of them. *)
LEMMA EventOf ==
  ASSUME NEW m \in Messages
  PROVE  /\ AsEvent(m) \in EventSet
         /\ m[1] = "CloseStream" => m = <<"CloseStream", Sender(m)>>
  <1>1. CASE m \in {"Success", "Error"} \X Sinks
    BY <1>1, StreamAssumption DEF EventSet, AsEvent, Sender
  <1>2. CASE m \in {"CloseStream"} \X Closers
    BY <1>2 DEF EventSet, AsEvent, Sender
  <1> QED BY <1>1, <1>2 DEF Messages

LEMMA EventsOf ==
  ASSUME NEW s \in Seq(Messages)
  PROVE  /\ Events(s) \in Seq(EventSet) /\ Len(Events(s)) = Len(s) /\ Len(s) \in Nat
         /\ DOMAIN Events(s) = 1 .. Len(s)
         /\ \A n \in 1 .. Len(s) : s[n] \in Messages /\ Events(s)[n] = AsEvent(s[n])
  <1>1. DOMAIN s = 1 .. Len(s) /\ Len(s) \in Nat /\ \A n \in 1 .. Len(s) : s[n] \in Messages
    OBVIOUS
  <1>2. Events(s) = [n \in 1 .. Len(s) |-> AsEvent(s[n])]
    BY <1>1 DEF Events, AsEvent
  <1>3. \A n \in 1 .. Len(s) : AsEvent(s[n]) \in EventSet
    BY <1>1, EventOf
  <1>4. Events(s) \in [1 .. Len(s) -> EventSet]
    BY <1>2, <1>3
  <1>5. Events(s) \in Seq(EventSet)
    BY <1>1, <1>4
  <1> QED BY <1>1, <1>2, <1>5

LEMMA EventsAppended ==
  ASSUME NEW s \in Seq(Messages), NEW m \in Messages
  PROVE  Events(Append(s, m)) = Append(Events(s), AsEvent(m))
  <1> DEFINE t == Append(s, m)
             u == Append(Events(s), AsEvent(m))
  <1>1. /\ t \in Seq(Messages) /\ Len(t) = Len(s) + 1 /\ Len(s) \in Nat
        /\ \A k \in 1 .. Len(s) : t[k] = s[k]
        /\ t[Len(s) + 1] = m
    BY Appended
  <1>2. /\ u \in Seq(EventSet) /\ Len(u) = Len(s) + 1
        /\ \A k \in 1 .. Len(s) : u[k] = AsEvent(s[k])
        /\ u[Len(s) + 1] = AsEvent(m)
    BY EventsOf, EventOf, Appended
  <1>3. Events(t) \in Seq(EventSet) /\ Len(Events(t)) = Len(s) + 1
        /\ \A k \in 1 .. Len(s) + 1 : Events(t)[k] = AsEvent(t[k])
    BY <1>1, EventsOf
  <1>4. \A k \in 1 .. Len(s) + 1 : Events(t)[k] = u[k]
    BY <1>1, <1>2, <1>3
  <1> HIDE DEF t, u
  <1>5. Events(t) = u
    BY <1>1, <1>2, <1>3, <1>4, SeqEqual
  <1> QED BY <1>5 DEF t, u

(* A post to the open port is a send of an event; a refused one does nothing. *)
LEMMA PostSends ==
  ASSUME Inv, NEW m \in Messages, Post(m), UNCHANGED <<port, stream, delivered>>,
         closer[Sender(m)] # "dropped"
  PROVE  \/ UNCHANGED accepted
         \/ AsEvent(m) \in EventSet /\ Abs!Send(Sender(m), m[1])
  <1> SUFFICES ASSUME port = "open"
               PROVE  AsEvent(m) \in EventSet /\ Abs!Send(Sender(m), m[1])
    BY DEF Post
  <1>1. accepted' = Append(accepted, m) /\ accepted \in Seq(Messages)
    BY DEF Post, Inv, TypeOK
  <1>2. stream \in {"active", "cancelled"}
    BY DEF Inv, PortInv
  <1>3. ASSUME NEW n \in DOMAIN Events(accepted),
               Events(accepted)[n].kind = "CloseStream", Events(accepted)[n].source = Sender(m)
        PROVE  FALSE
    <2>0. n \in 1 .. Len(accepted) /\ accepted[n] \in Messages
          /\ Events(accepted)[n] = AsEvent(accepted[n])
      BY <1>1, EventsOf
    <2>1. n \in DOMAIN accepted /\ accepted[n] \in Messages
          /\ accepted[n][1] = "CloseStream" /\ Sender(accepted[n]) = Sender(m)
      BY <1>1, <1>3, <2>0 DEF AsEvent
    <2>2. accepted[n] = <<"CloseStream", Sender(m)>> /\ Sender(m) \in Closers
      BY <2>1, EventOf DEF EventSet, AsEvent
    <2> QED BY <2>1, <2>2 DEF Inv, CloserInv
  <1>4. Events(accepted)' = Append(Events(accepted), AsEvent(m))
    BY <1>1, EventsAppended DEF Events
  <1> QED BY <1>2, <1>3, <1>4, EventOf DEF Abs!Send, Abs!IsClose, Abs!Event, AsEvent

LEMMA AddRawSends ==
  ASSUME Inv, NEW s \in Sinks, AddRaw(s) PROVE [Abs!Next]_(Abs!streamVars)
  <1>1. PICK action \in {"Success", "Error"} : Post(<<action, s>>)
    BY DEF AddRaw
  <1>2. closer[CloserOf[s]] = "live" /\ UNCHANGED <<port, stream, delivered>>
    BY Senders DEF AddRaw, Inv, TypeOK, CloserInv
  <1>3. /\ <<action, s>> \in Messages /\ Sender(<<action, s>>) = CloserOf[s]
        /\ CloserOf[s] \in Closers
    BY Senders
  <1>4. UNCHANGED accepted \/ Abs!Send(CloserOf[s], action)
    BY <1>1, <1>2, <1>3, PostSends
  <1> QED BY <1>2, <1>3, <1>4 DEF Abs!Next, Abs!streamVars, Events

LEMMA CloseSends ==
  ASSUME Inv, NEW c \in Closers, Close(c) PROVE [Abs!Next]_(Abs!streamVars)
  <1>1. Post(<<"CloseStream", c>>) /\ closer[c] = "dropping" /\ UNCHANGED <<port, stream, delivered>>
    BY DEF Close
  <1>2. <<"CloseStream", c>> \in Messages /\ Sender(<<"CloseStream", c>>) = c
    BY Senders
  <1>3. UNCHANGED accepted \/ Abs!Send(c, "CloseStream")
    BY <1>1, <1>2, PostSends
  <1> QED BY <1>1, <1>3 DEF Abs!Next, Abs!streamVars, Events

(* The message that the loop takes is the event after the last yielded one. *)
LEMMA NextEvent ==
  ASSUME Inv, port = "open", mail # <<>>
  PROVE  /\ Head(mail) \in Messages
         /\ Abs!Position \in 1 .. Len(Events(accepted))
         /\ Events(accepted)[Abs!Position] = AsEvent(Head(mail))
  <1>1. /\ mail \in Seq(Messages) /\ accepted \in Seq(Messages) /\ delivered \in Seq(Messages)
    BY DEF Inv, TypeOK
  <1>2. Len(mail) \in Nat \ {0} /\ Head(mail) = mail[1] /\ Head(mail) \in Messages
        /\ DOMAIN mail = 1 .. Len(mail)
    BY <1>1, Tailed
  <1>3. Abs!Position = Len(delivered) + 1 /\ Len(delivered) \in Nat
    BY <1>1, EventsOf DEF Abs!Position
  <1>4. Len(delivered) + 1 \in 1 .. Len(accepted) /\ accepted[Len(delivered) + 1] = mail[1]
    BY <1>2, <1>3 DEF Inv, NothingLostWhileOpen
  <1> QED BY <1>1, <1>2, <1>3, <1>4, EventsOf

LEMMA ReceiveYields ==
  ASSUME Inv, Receive PROVE [Abs!Next]_(Abs!streamVars)
  <1> DEFINE m == Head(mail)
  <1>1. port = "open" /\ mail # <<>> /\ accepted' = accepted /\ Events(accepted)' = Events(accepted)
    BY DEF Receive, Events
  <1>2. /\ m \in Messages /\ Abs!Position <= Len(Events(accepted))
        /\ Events(accepted)[Abs!Position] = AsEvent(m)
    BY <1>1, NextEvent
  <1>3. CASE stream = "active" /\ Throws(m) /\ EndLoop(HowItEnds(m))
    <2>1. stream' = HowItEnds(m) /\ Events(delivered)' = Events(delivered)
      BY <1>3 DEF EndLoop, Events
    <2>2. Abs!End
      BY <1>1, <1>2, <1>3, <2>1
         DEF Abs!End, Abs!IsValue, Abs!IsClose, Throws, HowItEnds, AsEvent
    <2> QED BY <2>2 DEF Abs!Next
  <1>4. CASE stream = "active" /\ ~Throws(m) /\ delivered' = Append(delivered, m) /\ UNCHANGED stream
    <2>1. Events(delivered)' = Append(Events(delivered), AsEvent(m))
      BY <1>2, <1>4, EventsAppended DEF Inv, TypeOK, Events
    <2>2. Abs!Yield
      BY <1>1, <1>2, <1>4, <2>1 DEF Abs!Yield, Abs!IsValue, Throws, AsEvent
    <2> QED BY <2>2 DEF Abs!Next
  <1>5. CASE stream = "cancelled" /\ EndLoop("cancelled")
    BY <1>1, <1>5 DEF EndLoop, Abs!streamVars, Events
  <1> QED BY <1>3, <1>4, <1>5 DEF Receive

(* The clones, the closers and the port do not show in the abstract stream. *)
LEMMA OthersHidden ==
  ASSUME Inv,
         \/ \E s \in Sinks : \/ BeginAdd(s) \/ DropSink(s) \/ Deserialize(s)
                              \/ \E t \in Sinks : CloneSink(s, t)
         \/ Cancel \/ Exit \/ UNCHANGED vars
  PROVE  [Abs!Next]_(Abs!streamVars)
  <1>1. accepted' = accepted /\ delivered' = delivered
    BY DEF BeginAdd, DropSink, Deserialize, CloneSink, Cancel, Exit, EndLoop, vars
  <1>2. Events(accepted)' = Events(accepted) /\ Events(delivered)' = Events(delivered)
    BY <1>1 DEF Events
  <1>3. CASE stream' = stream
    BY <1>2, <1>3 DEF Abs!streamVars
  <1>4. CASE stream' # stream
    <2>1. \/ stream = "none" /\ stream' = "active"
          \/ stream = "active" /\ stream' = "cancelled"
          \/ stream \notin {"none", "gone"} /\ stream' = "gone"
      BY <1>4 DEF BeginAdd, DropSink, Deserialize, CloneSink, Cancel, Exit, EndLoop, vars,
                  Inv, PortInv
    <2> QED BY <1>2, <2>1 DEF Abs!Next, Abs!Open, Abs!Cancel, Abs!Gone
  <1> QED BY <1>3, <1>4

(* The listener sees one ordered log up to the first event that ends it: a     *)
(* post is a send, and what the loop takes is the event after the last one.    *)
THEOREM Refinement == Spec => ImplementsEventStream
  <1>1. Init => Abs!Init
    BY DEF Init, Abs!Init, Events
  <1>2. Inv /\ [Next]_vars => [Abs!Next]_(Abs!streamVars)
    BY AddRawSends, CloseSends, ReceiveYields, OthersHidden DEF Next
  <1> QED BY <1>1, <1>2, Invariance, PTL DEF Spec, ImplementsEventStream, Abs!Spec
=============================================================================
